------------------------- MODULE MCRequestExecution -------------------------
(* Instances of RequestExecution for TLC. *)
EXTENDS RequestExecution, TLC

CONSTANTS r1, r2, r3

Symmetry == Permutations(Requests)
=============================================================================
