------------------------------ MODULE MCOutbox ------------------------------
(* Instances of Outbox for TLC.                                             *)
EXTENDS Outbox, TLC

\* Two replicas on the same clock, or one running ahead or behind by a tick.
NoSkew == {0}
SomeSkew == {-1, 0, 1}

\* Rows and replicas are interchangeable; tokens are, too.
Symmetry == Permutations(Row) \union Permutations(Proc) \union Permutations(Token)
=============================================================================
