----------------------------- MODULE SingleUse -----------------------------
(***************************************************************************)
(* What the issuer promises of a one-time code (a signing nonce, an        *)
(* authorization code, a channel activation code): once issued it is open  *)
(* until it is redeemed or lost, it is redeemed at most once, and a closed *)
(* code never opens again.                                                 *)
(***************************************************************************)
EXTENDS Naturals

CONSTANT Codes

VARIABLES
  issued,  \* codes handed out
  open,    \* codes that can still be redeemed
  uses     \* successful redemptions of each code

vars == <<issued, open, uses>>

Init ==
  /\ issued = {}
  /\ open = {}
  /\ uses = [c \in Codes |-> 0]

Issue(c) ==
  /\ c \in Codes \ issued
  /\ issued' = issued \cup {c}
  /\ open' = open \cup {c}
  /\ UNCHANGED uses

Redeem(c) ==
  /\ c \in open
  /\ open' = open \ {c}
  /\ uses' = [uses EXCEPT ![c] = @ + 1]
  /\ UNCHANGED issued

(* Codes expire, are purged, or burn in a request that fails: one or many. *)
Lose(C) ==
  /\ open' = open \ C
  /\ UNCHANGED <<issued, uses>>

Next ==
  \/ \E c \in Codes : Issue(c) \/ Redeem(c)
  \/ \E C \in SUBSET Codes : Lose(C)

Spec == Init /\ [][Next]_vars
============================================================================
