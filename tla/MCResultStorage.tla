--------------------------- MODULE MCResultStorage ---------------------------
(* ResultStorage for TLC, with the arithmetic of its pages. *)
EXTENDS ResultStorage

ASSUME PagesChecked == \A n \in 0..12, k \in 1..13 : PagesPartition(n, k)
=============================================================================
