-------------------------- MODULE MCSubscriptions --------------------------
(* TLC instances of Subscriptions.  They check liveness, or stop at their  *)
(* first violation, and so use no symmetry.                                *)
EXTENDS Subscriptions, TLC
============================================================================
