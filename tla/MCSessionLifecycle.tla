------------------------- MODULE MCSessionLifecycle -------------------------
(* SessionLifecycle with the constants of its cfg. *)
EXTENDS SessionLifecycle, TLC
=============================================================================
