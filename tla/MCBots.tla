------------------------------- MODULE MCBots -------------------------------
(* One instance and two workers at once.                                   *)
EXTENDS Bots
=============================================================================
