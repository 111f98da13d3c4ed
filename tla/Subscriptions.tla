--------------------------- MODULE Subscriptions ---------------------------
(***************************************************************************)
(* Channel subscriptions and the three parties that write them without     *)
(* ever looking at what another wrote in between: the epoch reconciler,    *)
(* the bot of the channel instance, and the administrator.                 *)
(*                                                                         *)
(* A session lives in the slot (channel_id, channel_user_id); the upsert   *)
(* keeps the slot's session_id, so a session_id names a slot too.  The     *)
(* reconciler lists the active sessions once, and for each asks for the    *)
(* credential's membership and then writes back the whole row as it was    *)
(* listed, with the fields it refreshes.  Deadlines are modelled by the    *)
(* time that is left until they are due, in units of which a grace period  *)
(* has Grace; tier and the informational expires_at are left out.          *)
(***************************************************************************)
EXTENDS Naturals

CONSTANTS
  Slots,        \* (channel_id, channel_user_id) pairs of one instance
  Credentials,  \* stake credentials
  Grace,        \* SubscriptionGrace
  None          \* NULL; nothing in memory

ASSUME GraceAssumption == Grace \in Nat \ {0}
ASSUME NoneAssumption == None \notin Slots \cup Credentials \cup Nat

VARIABLES
  row,       \* SubscriptionSession row of each slot, None before the first
  held,      \* credentials that delegate to a pool of the attestors
  banned,    \* Blacklist rows (never removed)
  pass,      \* sessions the reconciler's pass has listed and not yet examined
  plan,      \* the row the reconciler is about to write
  bot,       \* the activation the bot is about to write
  revoking,  \* the member revocation that has blacklisted and not yet cancelled
  lost,      \* history: time since a pass first found the slot's credential lost,
             \* no pass or activation having recorded it as a member since
  touched,   \* history: slots written by the others since the pass listed them
  clobbered  \* history: slots whose row a pass wrote after the others did

process == <<pass, plan, bot, revoking>>
chain == <<held, banned>>
races == <<touched, clobbered>>
subsVars == <<row, chain, process, lost, races>>

Left == 0..Grace \cup {None}
Session == [owner : Credentials,
            status : {"active", "cancelled", "expired"},
            grace : Left]
Absent == [owner |-> None, status |-> "none", grace |-> None]

SubsTypeOK ==
  /\ row \in [Slots -> Session \cup {Absent}]
  /\ held \subseteq Credentials
  /\ banned \subseteq Credentials
  /\ pass \in [Slots -> Session \cup {Absent}]
  /\ plan \in [Slots -> Session \cup {Absent}]
  /\ bot \in [Slots -> Credentials \cup {None}]
  /\ revoking \in Credentials \cup {None}
  /\ lost \in [Slots -> [Credentials -> Left]]
  /\ touched \subseteq Slots
  /\ clobbered \subseteq Slots

----------------------------------------------------------------------------
Active(u) == row[u].status = "active"

(* Attest: a state other than none.  The blacklist overrides the chain.    *)
Member(c) == c \in held \ banned

Nothing == [u \in Slots |-> Absent]

SetStatus(R, s) ==
  row' = [u \in Slots |-> IF u \in R THEN [row[u] EXCEPT !.status = s] ELSE row[u]]

SubsInit ==
  /\ row = Nothing
  /\ held \in SUBSET Credentials
  /\ banned = {}
  /\ pass = Nothing
  /\ plan = Nothing
  /\ bot = [u \in Slots |-> None]
  /\ revoking = None
  /\ lost = [u \in Slots |-> [c \in Credentials |-> None]]
  /\ touched = {}
  /\ clobbered = {}

(* Stake moves: a credential begins or ceases to delegate.                 *)
Delegate(c) ==
  /\ held' = IF c \in held THEN held \ {c} ELSE held \cup {c}
  /\ UNCHANGED <<row, banned, process, lost, races>>

(* A unit of time passes for every deadline, stored or in memory.          *)
Older(s) == [s EXCEPT !.grace = IF @ \in {0, None} THEN @ ELSE @ - 1]

Tick ==
  /\ row' = [u \in Slots |-> Older(row[u])]
  /\ pass' = [u \in Slots |-> Older(pass[u])]
  /\ plan' = [u \in Slots |-> Older(plan[u])]
  /\ lost' = [u \in Slots |-> [c \in Credentials |->
                IF lost[u][c] \in {Grace, None} THEN lost[u][c]
                ELSE lost[u][c] + 1]]
  /\ UNCHANGED <<chain, bot, revoking, races>>

----------------------------------------------------------------------------
(* The reconciler.                                                         *)

(* Mutant: the listing forgets to ask for active sessions.                 *)
ListActiveSessions_All ==
  /\ pass = Nothing /\ plan = Nothing
  /\ pass' = [u \in Slots |->
                IF row[u] # Absent THEN [row[u] EXCEPT !.status = "active"]
                ELSE Absent]
  /\ touched' = {}
  /\ UNCHANGED <<row, chain, plan, bot, revoking, lost, clobbered>>

(* An epoch has advanced: a pass begins by listing the active sessions.    *)
ListActiveSessions ==
  /\ pass = Nothing /\ plan = Nothing
  /\ pass' = [u \in Slots |-> IF Active(u) THEN row[u] ELSE Absent]
  /\ touched' = {}
  /\ UNCHANGED <<row, chain, plan, bot, revoking, lost, clobbered>>

(* Mutants: recovery does not end the grace period; every loss reopens it. *)
Verdict_GraceKept(s) ==
  IF Member(s.owner) THEN s
  ELSE IF s.grace = None THEN [s EXCEPT !.grace = Grace]
  ELSE IF s.grace = 0 THEN [s EXCEPT !.status = "expired"]
  ELSE Absent

Verdict_GraceReopened(s) ==
  IF Member(s.owner) THEN [s EXCEPT !.grace = None]
  ELSE IF s.grace = 0 THEN [s EXCEPT !.status = "expired"]
  ELSE [s EXCEPT !.grace = Grace]

(* What follows from the membership of the session's credential, at the    *)
(* reconciler's reading of the clock: refresh the row and end its grace,   *)
(* open the grace period, keep waiting, or expire.                         *)
Verdict(s) ==
  IF Member(s.owner) THEN [s EXCEPT !.grace = None]
  ELSE IF s.grace = None THEN [s EXCEPT !.grace = Grace]
  ELSE IF s.grace = 0 THEN [s EXCEPT !.status = "expired"]
  ELSE Absent

Examined(u) ==
  /\ pass[u] # Absent /\ plan = Nothing
  /\ pass' = [pass EXCEPT ![u] = Absent]
  /\ UNCHANGED <<row, chain, bot, revoking, races>>

Examine(u) ==
  LET c == pass[u].owner
  IN /\ Examined(u)
     /\ plan' = [plan EXCEPT ![u] = Verdict(pass[u])]
     /\ lost' = IF Member(c) \/ lost[u][c] # None THEN lost
                ELSE [lost EXCEPT ![u][c] = 0]

(* Mutant: an error is taken for a loss.                                   *)
ExamineFails_Lost(u) ==
  /\ Examined(u)
  /\ plan' = [plan EXCEPT ![u] =
       IF pass[u].grace = None THEN [pass[u] EXCEPT !.grace = Grace]
       ELSE IF pass[u].grace = 0 THEN [pass[u] EXCEPT !.status = "expired"]
       ELSE Absent]
  /\ UNCHANGED lost

(* The membership of one session cannot be determined; it is left alone.   *)
ExamineFails(u) ==
  /\ Examined(u)
  /\ UNCHANGED <<plan, lost>>

(* Expiry writes the status alone; everything else is an upsert of the     *)
(* whole row, whatever the row has become since it was listed.             *)
Write(u) ==
  /\ plan[u] # Absent
  /\ IF plan[u].status = "expired" THEN SetStatus({u}, "expired")
     ELSE row' = [row EXCEPT ![u] = plan[u]]
  /\ plan' = Nothing
  /\ clobbered' = clobbered \cup ({u} \cap touched)
  /\ lost' = IF plan[u].grace # None THEN lost
             ELSE [lost EXCEPT ![u][plan[u].owner] = None]
  /\ UNCHANGED <<chain, pass, bot, revoking, touched>>

WriteFails(u) ==
  /\ plan[u] # Absent
  /\ plan' = Nothing
  /\ UNCHANGED <<row, chain, pass, bot, revoking, lost, races>>

----------------------------------------------------------------------------
(* The bot, a single worker: it redeems the activation code, attests the   *)
(* credential and only then writes the session.                            *)
Redeem(u, c) ==
  /\ \A v \in Slots : bot[v] = None
  /\ Member(c)
  /\ bot' = [bot EXCEPT ![u] = c]
  /\ UNCHANGED <<row, chain, pass, plan, revoking, lost, races>>

Activate(u) ==
  /\ bot[u] # None
  /\ row' = [row EXCEPT ![u] =
               [owner |-> bot[u], status |-> "active", grace |-> None]]
  /\ bot' = [bot EXCEPT ![u] = None]
  /\ lost' = [lost EXCEPT ![u][bot[u]] = None]
  /\ touched' = touched \cup {u}
  /\ clobbered' = clobbered \ {u}
  /\ UNCHANGED <<chain, pass, plan, revoking>>

(* Cancellations: /unsubscribe, the administrator's cancellation of one    *)
(* session, and the cascades over a credential and over an instance.       *)
Cancel(R) ==
  /\ SetStatus(R, "cancelled")
  /\ touched' = touched \cup R
  /\ UNCHANGED <<chain, pass, plan, bot, lost, clobbered>>

Unsubscribe(u) ==
  /\ \A v \in Slots : bot[v] = None
  /\ row[u] # Absent
  /\ Cancel({u}) /\ UNCHANGED revoking

AdminCancel(u) ==
  row[u] # Absent /\ Cancel({u}) /\ UNCHANGED revoking

RevokeMember(c) ==
  /\ revoking = None
  /\ banned' = banned \cup {c}
  /\ revoking' = c
  /\ UNCHANGED <<row, held, pass, plan, bot, lost, races>>

CancelByStakeCredential ==
  /\ revoking # None
  /\ Cancel({u \in Slots : Active(u) /\ row[u].owner = revoking})
  /\ revoking' = None

CancelByChannelID ==
  /\ \E u \in Slots : Active(u)
  /\ Cancel({u \in Slots : Active(u)}) /\ UNCHANGED revoking

(* The process dies, or a request or activation under way fails: what was  *)
(* in memory is gone.                                                      *)
Restart ==
  /\ pass' = Nothing /\ plan' = Nothing
  /\ bot' = [u \in Slots |-> None]
  /\ revoking' = None
  /\ touched' = {}
  /\ UNCHANGED <<row, chain, lost, clobbered>>

SubsNext ==
  \/ Tick \/ ListActiveSessions \/ CancelByStakeCredential \/ CancelByChannelID \/ Restart
  \/ \E c \in Credentials : Delegate(c) \/ RevokeMember(c)
  \/ \E u \in Slots :
       \/ Examine(u) \/ ExamineFails(u) \/ Write(u) \/ WriteFails(u)
       \/ \E c \in Credentials : Redeem(u, c)
       \/ Activate(u) \/ Unsubscribe(u) \/ AdminCancel(u)

(* Epochs keep coming and time passes.  The chain source and the store are *)
(* not down for good, but may fail again and again: strong fairness.       *)
SubsFairness ==
  /\ WF_subsVars(Tick)
  /\ SF_subsVars(ListActiveSessions)
  /\ \A u \in Slots : SF_subsVars(Examine(u)) /\ SF_subsVars(Write(u))

SubsSpec == SubsInit /\ [][SubsNext]_subsVars /\ SubsFairness

----------------------------------------------------------------------------
(* A session that the reconciler alone has written since its activation is *)
(* expired only when its credential was found lost a whole grace period    *)
(* ago and never recorded as a member since: an error, a restart, or a     *)
(* loss it recovered from never costs a member its subscription.           *)
Undisturbed(u) == u \notin touched \cup clobbered

ExpiryIsDeserved ==
  [][\A u \in Slots :
       Active(u) /\ row'[u].status = "expired" /\ Undisturbed(u) =>
         lost[u][row[u].owner] = Grace]_subsVars

(* While a session is in grace its deadline does not move, however many    *)
(* passes find the credential still lost.                                  *)
DeadlineStands ==
  [][\A u \in Slots :
       Active(u) /\ Active(u)' /\ Undisturbed(u) /\ Undisturbed(u)'
         /\ row[u].grace # None /\ row'[u].grace # None =>
         row'[u].grace <= row[u].grace]_subsVars

(* What a pass found cancelled or expired, only an activation revives.     *)
RevivalIsExplicit ==
  [][\A u \in Slots : ~Active(u) /\ Active(u)' => u \in touched']_subsVars

(* A session nobody activates again does not stay active for ever on a     *)
(* credential that stays lost.                                             *)
LapsedSessionEnds ==
  \A u \in Slots :
    ~<>[](Active(u) /\ ~Member(row[u].owner) /\ bot[u] = None)

(* A session does not stay in grace for ever once its credential is back.  *)
RecoveryRestores ==
  \A u \in Slots :
    ~<>[](Active(u) /\ Member(row[u].owner) /\ row[u].grace # None)

(* The bot's help: "/unsubscribe -- stop receiving messages".  A cancelled *)
(* session stays so until its user activates again.                        *)
CancellationSticks ==
  [][\A u \in Slots :
       row[u].status = "cancelled" /\ Active(u)' => bot[u] # None]_subsVars

(* The reconciler's contract: "subscription sessions are expired once the  *)
(* credential is no longer a member", hence none whose credential is a     *)
(* member and was never seen lost since the session was activated.         *)
OnlyTheLostExpire ==
  [][\A u \in Slots :
       Active(u) /\ row'[u].status = "expired" /\ Member(row[u].owner) =>
         lost[u][row[u].owner] # None]_subsVars
============================================================================
