--------------------------- MODULE RotationChain ---------------------------
(***************************************************************************)
(* What refresh-token rotation promises its clients, with the database and *)
(* the concurrency left out.                                               *)
(*                                                                         *)
(* A login session is a family of refresh grants, named by the grant that  *)
(* opened it.  A session has at most one live grant at any time.  The live *)
(* grant can be exchanged for a grant nobody has seen before, and the      *)
(* session can end; a session that has ended stays ended.                  *)
(***************************************************************************)
CONSTANTS
  Grants,   \* refresh-grant identifiers
  None      \* not a grant

VARIABLES
  live,     \* live[f]: the grant session f can be refreshed with, or None
  used      \* every grant identifier ever handed out

vars == <<live, used>>

TypeOK ==
  /\ live \in [Grants -> Grants \cup {None}]
  /\ used \subseteq Grants

Init ==
  /\ live = [f \in Grants |-> None]
  /\ used = {}

(* A login opens session f, whose first grant gives the session its name.  *)
Open(f) ==
  /\ f \notin used
  /\ used' = used \cup {f}
  /\ live' = [live EXCEPT ![f] = f]

(* The live grant of session f is exchanged for the fresh grant n.         *)
Exchange(f, n) ==
  /\ live[f] # None
  /\ n \notin used
  /\ used' = used \cup {n}
  /\ live' = [live EXCEPT ![f] = n]

(* The sessions in F end together: expiry or revocation of a grant, the    *)
(* revocation of a chain, or of everything a member holds.                 *)
End(F) ==
  /\ live' = [f \in Grants |-> IF f \in F THEN None ELSE live[f]]
  /\ UNCHANGED used

Next ==
  \/ \E f \in Grants : Open(f)
  \/ \E f, n \in Grants : Exchange(f, n)
  \/ \E F \in SUBSET Grants : End(F)

Spec == Init /\ [][Next]_vars
============================================================================
