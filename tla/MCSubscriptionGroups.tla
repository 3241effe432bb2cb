------------------------ MODULE MCSubscriptionGroups ------------------------
(* SubscriptionGroups with small sets of model values. *)
EXTENDS SubscriptionGroups, TLC

CONSTANTS g1, g2, c1, c2, s1, s2

Symmetry == Permutations(Groups) \cup Permutations(Callers)
              \cup Permutations(Restorers)
=============================================================================
