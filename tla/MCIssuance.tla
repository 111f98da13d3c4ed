----------------------------- MODULE MCIssuance -----------------------------
(* TLC instances of Issuance.  Rows and requests are interchangeable.      *)
EXTENDS Issuance, TLC

Interchangeable ==
  Permutations(Members) \cup Permutations(Codes) \cup
  Permutations(Issues) \cup Permutations(Handlers)
=============================================================================
