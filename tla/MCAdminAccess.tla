--------------------------- MODULE MCAdminAccess ---------------------------
(* One owner, who logs in more than once, and one operator.  Rows, ids and *)
(* requests are interchangeable.                                           *)
EXTENDS AdminAccess, TLC

Symmetry ==
  Permutations(Requests) \cup Permutations(Nonces) \cup Permutations(Tokens)
    \cup Permutations(AdminIds) \cup Permutations(Secrets)
============================================================================
