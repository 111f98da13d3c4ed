---------------------------- MODULE OneTimeCodes ----------------------------
(***************************************************************************)
(* The three tables of one-time codes and their Consume operations, which  *)
(* share one shape: a transaction reads the row, refuses it for what it    *)
(* read (unknown, consumed, expired, issued for something else) and then   *)
(* closes it with an UPDATE guarded by consumed_at IS NULL, whose row      *)
(* count decides.  They differ in what a code is bound to (a nonce to its  *)
(* purpose, an activation code to a channel type and perhaps an instance,  *)
(* an authorization code to nothing Consume looks at) and in when that is  *)
(* checked.  Expired nonces are also deleted by a periodic sweep.          *)
(*                                                                         *)
(* Each Consume reads the clock once, before its transaction waits for a   *)
(* connection; late records what that reading said.  Transactions          *)
(* interleave as under READ COMMITTED; SQLite's single connection only     *)
(* takes some of these interleavings away.                                 *)
(***************************************************************************)
EXTENDS Naturals

CONSTANTS
  Nonces, AuthCodes, ActivationCodes,  \* identifiers of each table
  Types,      \* nonce purposes and channel types
  Instances,  \* channel instances
  Consumers,  \* request goroutines and bot workers
  None        \* an unbound label; no answer yet

Labels == [type : Types \cup {None}, instance : Instances \cup {None}]
Refusals == {"notfound", "consumed", "expired", "purpose"}
Codes == Nonces \cup AuthCodes \cup ActivationCodes

ASSUME KindsAssumption ==
  /\ Nonces \cap AuthCodes = {}
  /\ (Nonces \cup AuthCodes) \cap ActivationCodes = {}
ASSUME NoneAssumption ==
  None \notin Codes \cup Types \cup Instances \cup Refusals \cup {"ok", "error"}

VARIABLES
  row,      \* "absent", "open" (consumed_at IS NULL) or "consumed"
  label,    \* purpose / channel_type and channel_id the code was issued for
  lapsed,   \* codes whose expires_at lies in the past
  pc,       \* where each consumer is
  subject,  \* the code it presents
  wants,    \* the label it presents the code for
  late,     \* whether its clock reading was past the code's expiry
  answer,   \* what its last Consume returned
  issued,   \* history: codes ever inserted (they are random, never reused)
  uses      \* history: how many Consume calls returned the code

table == <<row, label>>
local == <<pc, subject, wants, late, answer>>
vars == <<table, lapsed, local, issued, uses>>

TypeOK ==
  /\ row \in [Codes -> {"absent", "open", "consumed"}]
  /\ label \in [Codes -> Labels \cup {None}]
  /\ lapsed \subseteq issued
  /\ pc \in [Consumers -> {"idle", "begin", "swap"}]
  /\ subject \in [Consumers -> Codes \cup {None}]
  /\ wants \in [Consumers -> Labels \cup {None}]
  /\ late \in [Consumers -> BOOLEAN]
  /\ answer \in [Consumers -> Refusals \cup {"ok", "error", None}]
  /\ issued \subseteq Codes
  /\ uses \in [Codes -> Nat]
  /\ \A c \in issued : label[c] \in Labels
  /\ \A p \in Consumers :
       pc[p] # "idle" => subject[p] \in Codes /\ wants[p] \in Labels

----------------------------------------------------------------------------
(* What a code of each table is bound to, and presented for: a nonce to a  *)
(* purpose, an activation code to a channel type and perhaps an instance,  *)
(* an authorization code to nothing.                                       *)
Proper(c, l) ==
  /\ c \in AuthCodes <=> l.type = None
  /\ c \notin ActivationCodes => l.instance = None

(* Whether code c is redeemable for w.  An activation code that names no   *)
(* instance is redeemable at every instance of its type.                   *)
Fits(c, w) ==
  /\ w.type = label[c].type
  /\ None \in {label[c].instance, w.instance} \/ label[c].instance = w.instance

Return(p, result) ==
  /\ pc' = [pc EXCEPT ![p] = "idle"]
  /\ answer' = [answer EXCEPT ![p] = result]
  /\ subject' = [subject EXCEPT ![p] = None]
  /\ wants' = [wants EXCEPT ![p] = None]
  /\ late' = [late EXCEPT ![p] = FALSE]

Init ==
  /\ row = [c \in Codes |-> "absent"]
  /\ label = [c \in Codes |-> None]
  /\ lapsed = {}
  /\ pc = [p \in Consumers |-> "idle"]
  /\ subject = [p \in Consumers |-> None]
  /\ wants = [p \in Consumers |-> None]
  /\ late = [p \in Consumers |-> FALSE]
  /\ answer = [p \in Consumers |-> None]
  /\ issued = {}
  /\ uses = [c \in Codes |-> 0]

(* A code is inserted with what it is bound to.                            *)
Create(c, l) ==
  /\ c \notin issued
  /\ Proper(c, l)
  /\ row' = [row EXCEPT ![c] = "open"]
  /\ label' = [label EXCEPT ![c] = l]
  /\ issued' = issued \cup {c}
  /\ UNCHANGED <<lapsed, local, uses>>

Lapse(c) ==
  /\ c \in issued \ lapsed
  /\ lapsed' = lapsed \cup {c}
  /\ UNCHANGED <<table, local, issued, uses>>

(* Consume is called: now is read, then the transaction waits to begin.    *)
Call(p, c, w) ==
  /\ pc[p] = "idle"
  /\ Proper(c, w)
  /\ pc' = [pc EXCEPT ![p] = "begin"]
  /\ subject' = [subject EXCEPT ![p] = c]
  /\ wants' = [wants EXCEPT ![p] = w]
  /\ late' = [late EXCEPT ![p] = c \in lapsed]
  /\ answer' = [answer EXCEPT ![p] = None]
  /\ UNCHANGED <<table, lapsed, issued, uses>>

(* The checks, in the order of the code: an activation code's binding is   *)
(* looked at first, a nonce's purpose last.                                *)
Refused(p, reason) ==
  LET c == subject[p]
      misfit(K) == c \in K /\ ~Fits(c, wants[p])
  IN \/ row[c] = "absent" /\ reason = "notfound"
     \/ row[c] # "absent" /\ misfit(ActivationCodes) /\ reason = "purpose"
     \/ /\ row[c] # "absent" /\ ~misfit(ActivationCodes)
        /\ \/ row[c] = "consumed" /\ reason = "consumed"
           \/ row[c] = "open" /\ late[p] /\ reason = "expired"
           \/ row[c] = "open" /\ ~late[p] /\ misfit(Nonces) /\ reason = "purpose"

(* Mutants: the expiry and the binding are not looked at; the code is      *)
(* closed before its binding is.                                           *)
Lookup_ConsumedOnly(p) ==
  /\ pc[p] = "begin"
  /\ \/ row[subject[p]] = "absent" /\ Return(p, "notfound")
     \/ row[subject[p]] = "consumed" /\ Return(p, "consumed")
     \/ /\ row[subject[p]] = "open"
        /\ pc' = [pc EXCEPT ![p] = "swap"]
        /\ UNCHANGED <<subject, wants, late, answer>>
  /\ UNCHANGED <<table, lapsed, issued, uses>>

Lookup_Burns(p) ==
  /\ pc[p] = "begin"
  /\ \/ \E reason \in Refusals :
          /\ Refused(p, reason) /\ Return(p, reason)
          /\ row' = IF reason = "purpose"
                    THEN [row EXCEPT ![subject[p]] = "consumed"] ELSE row
     \/ /\ \A reason \in Refusals : ~Refused(p, reason)
        /\ pc' = [pc EXCEPT ![p] = "swap"]
        /\ UNCHANGED <<row, subject, wants, late, answer>>
  /\ UNCHANGED <<label, lapsed, issued, uses>>

(* The transaction begins, reads the row and refuses it or goes on.        *)
Lookup(p) ==
  /\ pc[p] = "begin"
  /\ \/ \E reason \in Refusals : Refused(p, reason) /\ Return(p, reason)
     \/ /\ \A reason \in Refusals : ~Refused(p, reason)
        /\ pc' = [pc EXCEPT ![p] = "swap"]
        /\ UNCHANGED <<subject, wants, late, answer>>
  /\ UNCHANGED <<table, lapsed, issued, uses>>

(* Mutants: the read is trusted and the update is unconditional; the       *)
(* update is conditional but its row count is not looked at.               *)
Swap_Unconditional(p) ==
  /\ pc[p] = "swap"
  /\ row' = [row EXCEPT ![subject[p]] = "consumed"]
  /\ uses' = [uses EXCEPT ![subject[p]] = @ + 1]
  /\ Return(p, "ok")
  /\ UNCHANGED <<label, lapsed, issued>>

Swap_RowsIgnored(p) ==
  /\ pc[p] = "swap"
  /\ row' = [row EXCEPT ![subject[p]] = IF @ = "open" THEN "consumed" ELSE @]
  /\ uses' = [uses EXCEPT ![subject[p]] = @ + 1]
  /\ Return(p, "ok")
  /\ UNCHANGED <<label, lapsed, issued>>

(* The compare-and-swap and the commit.  A row consumed or swept since the *)
(* read is answered with ErrConsumed.  When the reply to a commit is lost  *)
(* the code is closed and its consumer told of an error.                   *)
Swap(p) ==
  /\ pc[p] = "swap"
  /\ \/ /\ row[subject[p]] = "open"
        /\ row' = [row EXCEPT ![subject[p]] = "consumed"]
        /\ \/ Return(p, "ok") /\ uses' = [uses EXCEPT ![subject[p]] = @ + 1]
           \/ Return(p, "error") /\ UNCHANGED uses
     \/ /\ row[subject[p]] # "open"
        /\ Return(p, "consumed")
        /\ UNCHANGED <<row, uses>>
  /\ UNCHANGED <<label, lapsed, issued>>

(* Any failure before the commit rolls the transaction back.               *)
Abandon(p) ==
  /\ pc[p] # "idle"
  /\ Return(p, "error")
  /\ UNCHANGED <<table, lapsed, issued, uses>>

(* The sweep deletes the nonces that had lapsed when it read the clock,    *)
(* consumed or not; some may have lapsed since.                            *)
DeleteExpired(N) ==
  /\ N # {} /\ N \subseteq Nonces \cap lapsed
  /\ row' = [c \in Codes |-> IF c \in N THEN "absent" ELSE row[c]]
  /\ UNCHANGED <<label, lapsed, local, issued, uses>>

Next ==
  \/ \E c \in Codes : Lapse(c) \/ \E l \in Labels : Create(c, l)
  \/ \E N \in SUBSET Nonces : DeleteExpired(N)
  \/ \E p \in Consumers :
       \/ \E c \in Codes, w \in Labels : Call(p, c, w)
       \/ Lookup(p) \/ Swap(p) \/ Abandon(p)

Spec == Init /\ [][Next]_vars

----------------------------------------------------------------------------
(* A code is handed to one consumer, however many present it at once: the  *)
(* guard on consumed_at decides, not the read before it.                   *)
RedeemedOnce == \A c \in Codes : uses[c] <= 1

(* A code is only ever returned to a consumer that asked for what it was   *)
(* issued for, while the code was good by that consumer's clock reading.   *)
RedeemedRightfully ==
  [][\A p \in Consumers :
       pc[p] # "idle" /\ answer'[p] = "ok" =>
         Fits(subject[p], wants[p]) /\ ~late[p]]_vars

(* A refusal gives the true reason and costs nothing: the row stays as it  *)
(* was, so a code presented at the wrong bot is still good at the right    *)
(* one.  ErrConsumed may also mean that a lapsed nonce was swept.          *)
RefusalsAreTrue ==
  [][\A p \in Consumers :
       pc[p] # "idle" /\ pc'[p] = "idle" =>
         LET c == subject[p]
         IN /\ answer'[p] = "notfound" => c \notin issued \/ c \in lapsed
            /\ answer'[p] = "consumed" => row[c] = "consumed" \/ c \in lapsed
            /\ answer'[p] = "expired" => c \in lapsed
            /\ answer'[p] = "purpose" => ~Fits(c, wants[p])
            /\ answer'[p] \in Refusals => row' = row]_vars

(* The tables implement single-use codes: whatever Consume, failed commits *)
(* and the sweep do, a closed code never opens again.                      *)
Once == INSTANCE SingleUse WITH open <- {c \in Codes : row[c] = "open"}

OnceSpec == Once!Spec
=============================================================================
