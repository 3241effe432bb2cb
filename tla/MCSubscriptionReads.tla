------------------------- MODULE MCSubscriptionReads -------------------------
(* SubscriptionReads with small sets of model values. *)
EXTENDS SubscriptionReads, TLC

CONSTANTS p1, p2, i1, i2

Symmetry == Permutations(Readers) \cup Permutations(Items)
=============================================================================
