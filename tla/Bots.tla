-------------------------------- MODULE Bots --------------------------------
(***************************************************************************)
(* The channel instances and the bots that serve them.  The owner's        *)
(* requests create, update, enable, disable and delete rows of             *)
(* ChannelConfig, each in several statements; the supervisor lists the     *)
(* active rows at every tick and starts and cancels one worker for each;   *)
(* a worker polls its bot's queue of updates and handles them one by one.  *)
(*                                                                         *)
(* Telegram keeps an update until a poll asks for a later one.  An         *)
(* instance keeps its token, and so its queue.  Of the commands a member   *)
(* may send, those that write are modelled: the activation and the end of  *)
(* the one subscription an instance has here.                              *)
(***************************************************************************)
EXTENDS Naturals, Functions

CONSTANTS
  Instances,  \* channel instances
  Workers,    \* bound: workers alive at once
  MaxStamp,   \* bound: writes of a row
  MaxUpdates, \* bound: updates that users send to an instance
  None        \* no row, no worker

ASSUME BoundsAssumption == MaxStamp \in Nat /\ MaxUpdates \in Nat

VARIABLES
  row,      \* the ChannelConfig row of each instance: status and updated_at
  made,     \* the ids given out
  stamp,    \* the clock the rows are stamped with
  req,      \* the owner's request of each kind (bound: one at once)
  queue,    \* updates of each bot: sent so far, confirmed so far
  served,   \* history: updates handled by a worker not cancelled
  sub,      \* the subscription: "active", "ended", or "late" if it became
            \* active after a deletion of its instance had cancelled it
  sup,      \* the supervisor: its listing of active rows, None between ticks
  running,  \* the supervisor's worker for each instance
  worker    \* the workers alive

vars == <<row, made, stamp, req, queue, served, sub, sup, running, worker>>

Rows == [status : {"active", "disabled"}, at : 1..MaxStamp]
Ops == {"update", "status", "delete"}
Idle == [inst |-> None, step |-> "idle"]
Bot == [inst : Instances, at : Nat, live : BOOLEAN, offset : Nat, batch : SUBSET Nat]

ASSUME NoneAssumption == None \notin Instances \cup Workers \cup Rows \cup Bot

Spare == {k \in Workers : worker[k] = None}
ListActive == {i \in Instances : row[i] # None /\ row[i].status = "active"}
----------------------------------------------------------------------------
Init ==
  /\ row = [i \in Instances |-> None]
  /\ made = {}
  /\ stamp = 0
  /\ req = [op \in Ops |-> Idle]
  /\ queue = [i \in Instances |-> [sent |-> 0, acked |-> 0]]
  /\ served = [i \in Instances |-> {}]
  /\ sub = [i \in Instances |-> "ended"]
  /\ sup = None
  /\ running = [i \in Instances |-> None]
  /\ worker = [k \in Workers |-> None]

(* A row is written with the time of the write.                            *)
Write(i, status) ==
  /\ stamp < MaxStamp /\ stamp' = stamp + 1
  /\ row' = [row EXCEPT ![i] = [status |-> status, at |-> stamp']]

(* A new instance is active and gets an id of its own.                     *)
Create(i) ==
  /\ i \notin made /\ made' = made \cup {i}
  /\ Write(i, "active")
  /\ UNCHANGED <<req, queue, served, sub, sup, running, worker>>

(* Every other request begins by reading the row; without one it is        *)
(* refused.  step is the status to write, or the statement to run next.    *)
Get(op, i) ==
  /\ req[op] = Idle /\ row[i] # None
  /\ \E s \in IF op = "delete" THEN {"cancel"} ELSE {"active", "disabled"} :
       req' = [req EXCEPT ![op] = [inst |-> i, step |-> s]]
  /\ UNCHANGED <<row, made, stamp, queue, served, sub, sup, running, worker>>

Answer(op) == req' = [req EXCEPT ![op] = Idle]

(* The update writes back the whole row it read, with the changes it was   *)
(* asked for, or inserts it: its status is the one it read or a new one.   *)
Upsert ==
  /\ req["update"] # Idle
  /\ Write(req["update"].inst, req["update"].step)
  /\ Answer("update")
  /\ UNCHANGED <<made, queue, served, sub, sup, running, worker>>

(* Enabling and disabling changes the row that is there, if any.           *)
SetStatus ==
  /\ req["status"] # Idle
  /\ IF row[req["status"].inst] # None
     THEN Write(req["status"].inst, req["status"].step)
     ELSE UNCHANGED <<row, stamp>>
  /\ Answer("status")
  /\ UNCHANGED <<made, queue, served, sub, sup, running, worker>>

(* Mutant: the subscriptions are left alone.                               *)
CancelByChannelID_Forgotten ==
  /\ req["delete"].step = "cancel"
  /\ req' = [req EXCEPT !["delete"].step = "delete"]
  /\ UNCHANGED <<row, made, stamp, queue, served, sub, sup, running, worker>>

(* The deletion cancels the instance's active subscriptions, then deletes  *)
(* the row.                                                                *)
CancelByChannelID ==
  /\ req["delete"].step = "cancel"
  /\ sub' = [sub EXCEPT ![req["delete"].inst] = "ended"]
  /\ req' = [req EXCEPT !["delete"].step = "delete"]
  /\ UNCHANGED <<row, made, stamp, queue, served, sup, running, worker>>

Delete ==
  /\ req["delete"].step = "delete"
  /\ row' = [row EXCEPT ![req["delete"].inst] = None]
  /\ Answer("delete")
  /\ UNCHANGED <<made, stamp, queue, served, sub, sup, running, worker>>

(* A statement fails: the request ends where it is.                        *)
Abandon(op) ==
  /\ req[op] # Idle
  /\ Answer(op)
  /\ UNCHANGED <<row, made, stamp, queue, served, sub, sup, running, worker>>

----------------------------------------------------------------------------
(* The supervisor lists the active rows; if it cannot, the workers stay as *)
(* they are until the next tick.                                           *)
List ==
  /\ sup = None
  /\ sup' = [i \in ListActive |-> row[i]]
  /\ UNCHANGED <<row, made, stamp, req, queue, served, sub, running, worker>>

(* Mutant: an edited instance keeps its worker.                            *)
Wanted_StatusOnly(i, want) == i \in DOMAIN want

(* A worker stays if its instance is listed with the stamp it was started  *)
(* for.                                                                    *)
Wanted(i, want) ==
  i \in DOMAIN want /\ worker[running[i]].at = want[i].at

Stopped(want) == {i \in Instances : running[i] # None /\ ~Wanted(i, want)}

(* Mutant: the worker is dropped from the map but not cancelled.           *)
Cancel_Dropped(ks) == worker

Cancel(ks) ==
  [k \in Workers |-> IF k \in ks THEN [worker[k] EXCEPT !.live = FALSE] ELSE worker[k]]

New(i, want) ==
  [inst |-> i, at |-> want[i].at, live |-> TRUE, offset |-> 0, batch |-> {}]

(* Workers of instances that are gone, disabled or changed are cancelled   *)
(* but not waited for; then one is started for every listed instance       *)
(* without one, unless its token cannot be had.                            *)
Reconcile ==
  /\ sup # None
  /\ LET stop == Stopped(sup)
         start == {i \in DOMAIN sup : running[i] = None \/ i \in stop}
         cancelled == Cancel({running[i] : i \in stop})
     IN \E built \in SUBSET start :
        LET slot == CHOOSE f \in Injection(built, Spare) : TRUE IN
          /\ Injection(built, Spare) # {}
          /\ running' = [i \in Instances |->
               IF i \in built THEN slot[i] ELSE IF i \in stop THEN None ELSE running[i]]
          /\ worker' = [k \in Workers |->
               IF \E i \in built : slot[i] = k
               THEN New(CHOOSE i \in built : slot[i] = k, sup)
               ELSE cancelled[k]]
  /\ sup' = None
  /\ UNCHANGED <<row, made, stamp, req, queue, served, sub>>

----------------------------------------------------------------------------
(* A user sends an update to the bot.                                      *)
Update(i) ==
  /\ queue[i].sent < MaxUpdates
  /\ queue' = [queue EXCEPT ![i].sent = @ + 1]
  /\ UNCHANGED <<row, made, stamp, req, served, sub, sup, running, worker>>

(* What a poll from an offset confirms.                                    *)
Confirm(i, offset) ==
  queue' = [queue EXCEPT ![i].acked = IF offset > @ + 1 THEN offset - 1 ELSE @]

Polling(k) == worker[k] # None /\ worker[k].batch = {} /\ worker[k].live

(* Mutant: the poll confirms what it returns.                              *)
GetUpdates_Confirms(k) ==
  /\ Polling(k)
  /\ LET i == worker[k].inst
         first == IF worker[k].offset > queue[i].acked
                  THEN worker[k].offset ELSE queue[i].acked + 1
     IN /\ Confirm(i, queue[i].sent + 1)
        /\ worker' = [worker EXCEPT ![k].batch = first..queue[i].sent]
  /\ UNCHANGED <<row, made, stamp, req, served, sub, sup, running>>

(* A poll confirms what its offset is beyond and returns the updates from  *)
(* there on.                                                               *)
GetUpdates(k) ==
  /\ Polling(k)
  /\ LET i == worker[k].inst
         first == IF worker[k].offset > queue[i].acked
                  THEN worker[k].offset ELSE queue[i].acked + 1
     IN /\ Confirm(i, worker[k].offset)
        /\ worker' = [worker EXCEPT ![k].batch = first..queue[i].sent]
  /\ UNCHANGED <<row, made, stamp, req, served, sub, sup, running>>

(* The answer is lost, or another poller is in the way (409).              *)
GetUpdatesFails(k) ==
  /\ Polling(k)
  /\ Confirm(worker[k].inst, worker[k].offset) \/ UNCHANGED queue
  /\ UNCHANGED <<row, made, stamp, req, served, sub, sup, running, worker>>

Deleting(i) ==
  row[i] = None \/ req["delete"] = [inst |-> i, step |-> "delete"]

(* What a command writes: the activation of the subscription, its end, or  *)
(* nothing (it asks for something else, is refused, or the store fails).   *)
Handled(i) ==
  \/ sub' = [sub EXCEPT ![i] = IF Deleting(i) THEN "late" ELSE "active"]
  \/ sub' = [sub EXCEPT ![i] = "ended"]
  \/ UNCHANGED sub

(* Mutant: the offset stays.                                               *)
Done_OffsetKept(k, u) == [worker EXCEPT ![k].batch = @ \ {u}]

Done(k, u) ==
  [worker EXCEPT ![k] = [worker[k] EXCEPT !.batch = @ \ {u}, !.offset = u + 1]]

(* The next update of the batch; a cancelled worker goes on through its    *)
(* batch, but all its calls fail.                                          *)
Handle(k) ==
  /\ worker[k] # None /\ worker[k].batch # {}
  /\ LET i == worker[k].inst
         u == CHOOSE u \in worker[k].batch : \A v \in worker[k].batch : u <= v
     IN /\ worker' = Done(k, u)
        /\ IF worker[k].live
           THEN Handled(i) /\ served' = [served EXCEPT ![i] = @ \cup {u}]
           ELSE UNCHANGED <<sub, served>>
  /\ UNCHANGED <<row, made, stamp, req, queue, sup, running>>

(* A cancelled worker returns before its next poll.                        *)
Return(k) ==
  /\ worker[k] # None /\ ~worker[k].live /\ worker[k].batch = {}
  /\ worker' = [worker EXCEPT ![k] = None]
  /\ UNCHANGED <<row, made, stamp, req, queue, served, sub, sup, running>>

(* The process dies and is started again: workers and requests are gone.   *)
Restart ==
  /\ req' = [op \in Ops |-> Idle]
  /\ sup' = None
  /\ running' = [i \in Instances |-> None]
  /\ worker' = [k \in Workers |-> None]
  /\ UNCHANGED <<row, made, stamp, queue, served, sub>>

Work(k) == GetUpdates(k) \/ GetUpdatesFails(k) \/ Handle(k) \/ Return(k)

Next ==
  \/ \E i \in Instances : Create(i) \/ Update(i)
  \/ \E op \in Ops : Abandon(op) \/ \E i \in Instances : Get(op, i)
  \/ Upsert \/ SetStatus \/ CancelByChannelID \/ Delete
  \/ List \/ Reconcile
  \/ \E k \in Workers : Work(k)
  \/ Restart

Serving(i) == running[i] # None /\ worker[running[i]].at = row[i].at

(* The supervisor ticks and the workers run.  A listing, the building of a *)
(* worker and a poll may fail again and again, but not for ever.           *)
Fairness ==
  /\ WF_vars(List \/ Reconcile)
  /\ \A i \in Instances : SF_vars(Reconcile /\ running'[i] # None)
  /\ \A k \in Workers : WF_vars(Handle(k) \/ Return(k)) /\ SF_vars(GetUpdates(k))

Spec == Init /\ [][Next]_vars /\ Fairness

----------------------------------------------------------------------------
(* Every variable is in its domain; rows are of ids given out, what was    *)
(* received was sent, and the supervisor's workers are alive and serve     *)
(* what they were started for.                                             *)
TypeOK ==
  /\ row \in [Instances -> Rows \cup {None}] /\ stamp \in 0..MaxStamp
  /\ made \subseteq Instances
  /\ req \in [Ops -> [inst : made \cup {None},
                      step : {"idle", "active", "disabled", "cancel", "delete"}]]
  /\ sub \in [Instances -> {"active", "ended", "late"}]
  /\ queue \in [Instances -> [sent : Nat, acked : Nat]]
  /\ served \in [Instances -> SUBSET Nat]
  /\ sup # None => /\ DOMAIN sup \subseteq Instances
                   /\ \A i \in DOMAIN sup : sup[i] \in Rows
  /\ running \in [Instances -> Workers \cup {None}]
  /\ worker \in [Workers -> Bot \cup {None}]
  /\ \A i \in Instances :
       /\ row[i] # None => i \in made
       /\ queue[i].acked <= queue[i].sent
       /\ running[i] # None =>
            /\ worker[running[i]] # None
            /\ worker[running[i]].live /\ worker[running[i]].inst = i

(* An instance is never served by two workers that are not cancelled, and  *)
(* the one it is served by is the supervisor's to cancel.                  *)
NeverRunTwice ==
  \A k \in Workers : worker[k] # None /\ worker[k].live => running[worker[k].inst] = k

(* Telegram forgets no update that a worker did not handle in full control *)
(* of its context, whatever workers overlap, die or are cancelled between  *)
(* receiving it and handling it.                                           *)
ForgottenWasHandled ==
  \A i \in Instances : 1..queue[i].acked \subseteq served[i]

(* A subscription of an instance that is no more was activated by a bot    *)
(* that was still running when the deletion had cancelled the others.      *)
OrphansAreLate ==
  \A i \in Instances : row[i] = None => sub[i] # "active"

(* The bots follow the table: when the owner stops writing (and the        *)
(* process dying), every active instance has a worker for what its row     *)
(* says now, and no other instance has one.                                *)
TableIsFollowed ==
  \/ <>[](\A i \in Instances :
            IF i \in ListActive THEN Serving(i) ELSE running[i] = None)
  \/ []<><<Restart>>_vars

(* Every update of an instance that stays active is handled and forgotten. *)
UpdatesAreServed ==
  \A i \in Instances :
    \/ []<>(queue[i].acked = queue[i].sent)
    \/ []<>(i \notin ListActive)
    \/ []<><<Restart>>_vars

(* "adminDeleteChannel removes an instance": one that was deleted does not *)
(* come back.                                                              *)
DeletedStaysDeleted ==
  [][\A i \in Instances : row[i] = None /\ i \in made => row'[i] = None]_vars
=============================================================================
