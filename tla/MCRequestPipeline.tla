------------------------- MODULE MCRequestPipeline --------------------------
(* Instances of RequestPipeline for TLC.                                    *)
EXTENDS RequestPipeline, TLC

\* Requests are interchangeable, and so are ids.
Symmetry == Permutations(Request) \union Permutations(Id)
=============================================================================
