------------------------ MODULE MCTenantRepository --------------------------
(* Instances of TenantRepository for TLC.                                   *)
EXTENDS TenantRepository, TLC

\* Everything the repository is given is interchangeable with its like.
Symmetry == Permutations(Tenant) \union Permutations(Id)
              \union Permutations(Value) \union Permutations(Handler)
=============================================================================
