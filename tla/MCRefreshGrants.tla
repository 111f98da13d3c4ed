-------------------------- MODULE MCRefreshGrants --------------------------
(* TLC instances of RefreshGrants.  Identifiers, credentials and handlers  *)
(* are interchangeable, which the safety runs use as symmetry.             *)
EXTENDS RefreshGrants, TLC

Interchangeable ==
  Permutations(Grants) \cup Permutations(Credentials) \cup Permutations(Handlers)
============================================================================
