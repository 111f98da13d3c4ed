--------------------- MODULE PushAndConfigurationProofs ---------------------
(***************************************************************************)
(* Proofs about PushDelivery, for any subscriptions, instances and tags,   *)
(* any number of jobs, attempts and faults, and any batch; and, in the     *)
(* second part, about Configuration, for any pools, networks, rows, rules  *)
(* and accounts.  The two have nothing in common but this module.          *)
(***************************************************************************)
EXTENDS PushDelivery, Configuration, SequenceTheorems, FiniteSetTheorems, TLAPS

Sending == w.at \in {"send", "try", "log"}
Running == w.at \in {"route", "list"} \/ Sending

(* Nothing of the job was ever sent for the subscription.                  *)
Fresh(j, s) ==
  /\ got[j][s] = 0 /\ lost[j][s] = 0
  /\ \A d \in log : ~(d.job = j /\ d.session = s)

(* Nothing is sent of a job before it is marked running.                   *)
Waiting(j) == j \notin DOMAIN job \/ job[j].status = "scheduled"
WaitingInv == \A j \in Jobs : Waiting(j) => \A s \in Sessions : Fresh(j, s)

(* The rest of the batch waits; the job being sent is marked running.      *)
BatchInv ==
  /\ w.batch \subseteq Scheduled
  /\ Running => w.job \in DOMAIN job /\ job[w.job].status = "running"

(* Who is still to be sent to has been sent nothing, and the recipient at  *)
(* hand only messages whose answer was lost, all of them unlogged.         *)
RecipientInv ==
  /\ w.at \in {"route", "list"} => \A s \in Sessions : Fresh(w.job, s)
  /\ Sending => \A s \in w.todo : Fresh(w.job, s)
  /\ w.at \in {"try", "log"} =>
       /\ w.session \in Sessions \ w.todo
       /\ \A d \in log : ~(d.job = w.job /\ d.session = w.session)
  /\ w.at = "try" =>
       got[w.job][w.session] = lost[w.job][w.session] /\ w.tries < MaxAttempts
  /\ w.at = "log" =>
       /\ got[w.job][w.session] = lost[w.job][w.session] + (IF w.ok THEN 1 ELSE 0)
       /\ up = "up" => w.tries >= 1

(* Every message but one per job and subscription had its answer lost;     *)
(* before a send of this run was answered every message of the job had.    *)
CountInv ==
  /\ \A j \in Jobs, s \in Sessions : got[j][s] \in {lost[j][s], lost[j][s] + 1}
  /\ Sending /\ ~w.sent =>
       \A s \in Sessions : got[w.job][s] = lost[w.job][s] \/ (w.at = "log" /\ s = w.session)

(* The recipients had not left when the job was picked up.                 *)
QuitInv ==
  /\ \A s \in sub : quit[s] = {}
  /\ Sending => \A s \in w.todo : w.job \notin quit[s]
  /\ w.at = "try" => w.job \notin quit[w.session]

IInv ==
  /\ TypeOK /\ WaitingInv /\ BatchInv /\ RecipientInv
  /\ CountInv /\ QuitInv /\ LogIsTruthful

----------------------------------------------------------------------------
(* What a change of status leaves.                                         *)
LEMMA StatusIsSet ==
  ASSUME TypeOK, NEW j \in DOMAIN job,
         NEW st \in {"scheduled", "running", "done", "failed"}, SetStatus(j, st)
  PROVE  /\ job' \in Seq(Rows) /\ Len(job') = Len(job)
         /\ DOMAIN job' = DOMAIN job
         /\ job'[j].status = st
         /\ \A i \in DOMAIN job : job'[i].aim = job[i].aim
         /\ \A i \in DOMAIN job : i # j => job'[i] = job[i]
<1>1. job \in Seq(Rows) /\ job' = [job EXCEPT ![j].status = st]
  BY DEF TypeOK, SetStatus
<1>2. job \in [1..Len(job) -> Rows] /\ Len(job) \in Nat /\ DOMAIN job = 1..Len(job)
  BY <1>1, LenProperties, ElementOfSeq
<1>3. job' \in [1..Len(job) -> Rows]
  BY <1>1, <1>2 DEF Rows
<1>4. job' \in Seq(Rows) /\ Len(job') = Len(job) /\ DOMAIN job' = 1..Len(job)
  BY <1>2, <1>3, SeqDef, LenProperties
<1>5. job'[j].status = st /\ job'[j].aim = job[j].aim
  BY <1>1, <1>2 DEF Rows
<1> QED  BY <1>1, <1>2, <1>4, <1>5

(* A created job is the last one, and scheduled.                           *)
LEMMA JobIsAppended ==
  ASSUME TypeOK, NEW aim \in Aims, Create(aim)
  PROVE  /\ job' \in Seq(Rows) /\ Len(job') = Len(job) + 1 /\ Len(job') <= MaxJobs
         /\ DOMAIN job' = DOMAIN job \cup {Len(job) + 1}
         /\ job'[Len(job) + 1].status = "scheduled"
         /\ \A i \in DOMAIN job : job'[i] = job[i]
<1> DEFINE r == [status |-> "scheduled", aim |-> aim]
<1>1. r \in Rows /\ job \in Seq(Rows) /\ job' = Append(job, r) /\ Len(job) < MaxJobs
  BY DEF TypeOK, Create, Rows
<1>2. r.status = "scheduled"
  OBVIOUS
<1> HIDE DEF r
<1>3. Len(job) \in Nat /\ DOMAIN job = 1..Len(job) /\ MaxJobs \in Nat
  BY <1>1, LenProperties, BoundsAssumption
<1>4. /\ job' \in Seq(Rows) /\ Len(job') = Len(job) + 1
      /\ \A i \in 1..Len(job) : job'[i] = job[i]
      /\ job'[Len(job) + 1] = r
  BY <1>1, AppendProperties
<1>5. DOMAIN job' = 1..(Len(job) + 1)
  BY <1>4, LenProperties
<1> QED  BY <1>1, <1>2, <1>3, <1>4, <1>5

(* Jobs there are have numbers, and a scheduled one is one of them.        *)
LEMMA JobsAreNumbered ==
  ASSUME TypeOK
  PROVE  /\ DOMAIN job = 1..Len(job) /\ Len(job) \in Nat /\ DOMAIN job \subseteq Jobs
         /\ Scheduled \subseteq DOMAIN job
         /\ \A j \in DOMAIN job : job[j] \in Rows
<1>1. job \in Seq(Rows) /\ Len(job) <= MaxJobs
  BY DEF TypeOK
<1>2. Len(job) \in Nat /\ DOMAIN job = 1..Len(job) /\ MaxJobs \in Nat
  BY <1>1, LenProperties, BoundsAssumption
<1> QED  BY <1>1, <1>2, ElementOfSeq DEF Jobs, Scheduled

LEMMA InitIInv == Init => IInv
<1> SUFFICES ASSUME Init PROVE IInv
  OBVIOUS
<1>1. job = <<>> /\ job \in Seq(Rows) /\ Len(job) = 0 /\ DOMAIN job = {}
  BY EmptySeq DEF Init
<1>2. TypeOK
  BY <1>1, BoundsAssumption DEF Init, TypeOK, Workers, Polling, Jobs
<1>3. WaitingInv
  BY DEF Init, WaitingInv, Fresh
<1>4. BatchInv /\ RecipientInv /\ LogIsTruthful
  BY DEF Init, BatchInv, RecipientInv, LogIsTruthful, Polling, Running, Sending
<1>5. CountInv /\ QuitInv
  BY DEF Init, CountInv, QuitInv, Polling, Sending
<1> QED  BY <1>2, <1>3, <1>4, <1>5 DEF IInv

(* The worker gives up, whatever the reason: it is between jobs then, and  *)
(* nothing else but statuses and faults has changed.                       *)
LEMMA BetweenJobs ==
  ASSUME IInv, NEW b \in SUBSET Scheduled',
         w' = Proceed(b) \/ (w' = Polling /\ b = {}),
         UNCHANGED <<sub, inst, log, history>>,
         up' \in {"up", "stopping"}, faults' \in 0..MaxFaults,
         job' \in Seq(Rows), Len(job') = Len(job), DOMAIN job' = DOMAIN job,
         \A j \in DOMAIN job : job'[j].status = "scheduled" => job[j].status = "scheduled"
  PROVE  IInv'
<1>1. DOMAIN job = 1..Len(job) /\ Scheduled' \subseteq Jobs
  BY JobsAreNumbered DEF IInv, Scheduled
<1>2. /\ w' \in Workers /\ w'.at \in {"poll", "next"} /\ w'.batch = b /\ w'.todo = {}
  <2>1. MaxJobs \in Nat /\ MaxAttempts \in Nat
    BY BoundsAssumption
  <2>2. Polling \in Workers /\ Polling.at = "poll" /\ Polling.batch = {} /\ Polling.todo = {}
    BY <2>1 DEF Polling, Workers
  <2>3. CASE w' = Polling /\ b = {}
    BY <2>2, <2>3
  <2>4. CASE w' = [Polling EXCEPT !.at = "next", !.batch = b]
    BY <1>1, <2>2, <2>4 DEF Workers
  <2> QED  BY <2>3, <2>4 DEF Proceed
<1>3. TypeOK'
  BY <1>2 DEF IInv, TypeOK, history
<1>4. WaitingInv'
  BY DEF IInv, WaitingInv, Waiting, Fresh, history
<1>5. BatchInv' /\ RecipientInv'
  BY <1>2 DEF BatchInv, RecipientInv, Running, Sending
<1>6. CountInv' /\ QuitInv' /\ LogIsTruthful'
  BY <1>2 DEF IInv, CountInv, QuitInv, LogIsTruthful, Sending, history
<1> QED  BY <1>3, <1>4, <1>5, <1>6 DEF IInv

(* The owner, the bots, the reconciler and the shutdown do nothing to the  *)
(* delivery under way.  A subscription that ends is closed to the jobs not *)
(* yet picked up, and the worker's job is none of them.                    *)
LEMMA OthersKeep ==
  ASSUME IInv,
         \/ \E aim \in Aims : Create(aim)
         \/ \E s \in Sessions : End(s) \/ Activate(s)
         \/ \E c \in Channels : Delete(c)
         \/ Shutdown
  PROVE  IInv'
<1>1. /\ DOMAIN job = 1..Len(job) /\ Len(job) \in Nat /\ DOMAIN job \subseteq Jobs
      /\ Scheduled \subseteq DOMAIN job
  BY JobsAreNumbered DEF IInv
<1>2. ASSUME NEW aim \in Aims, Create(aim) PROVE IInv'
  <2>1. /\ job' \in Seq(Rows) /\ Len(job') <= MaxJobs
        /\ DOMAIN job' = DOMAIN job \cup {Len(job) + 1}
        /\ job'[Len(job) + 1].status = "scheduled"
        /\ \A i \in DOMAIN job : job'[i] = job[i]
    BY <1>2, JobIsAppended DEF IInv
  <2>2. UNCHANGED <<sub, inst, up, w, log, faults, got, lost, quit>>
    BY <1>2 DEF Create, history
  <2>3. Scheduled \subseteq Scheduled'
    BY <2>1 DEF Scheduled
  <2>4. TypeOK'
    BY <2>1, <2>2 DEF IInv, TypeOK
  <2>5. WaitingInv'
    BY <2>1, <2>2 DEF IInv, WaitingInv, Waiting, Fresh
  <2>6. BatchInv'
    BY <2>1, <2>2, <2>3 DEF IInv, BatchInv, Running, Sending
  <2>7. (RecipientInv /\ CountInv /\ QuitInv /\ LogIsTruthful)'
    BY <2>2 DEF IInv, RecipientInv, CountInv, QuitInv, LogIsTruthful, Fresh, Sending
  <2> QED  BY <2>4, <2>5, <2>6, <2>7 DEF IInv
<1>3. ASSUME NEW s \in Sessions, End(s) PROVE IInv'
  <2>1. /\ sub' = sub \ {s}
        /\ quit' = [quit EXCEPT ![s] = Scheduled \cup (Len(job) + 1)..MaxJobs]
        /\ UNCHANGED <<job, inst, up, w, log, faults, got, lost>>
    BY <1>3 DEF End
  <2>2. Scheduled \cup (Len(job) + 1)..MaxJobs \subseteq Jobs
    BY <1>1, BoundsAssumption DEF Jobs
  <2>3. TypeOK'
    BY <2>1, <2>2 DEF IInv, TypeOK
  <2>4. Sending => w.job \notin Scheduled \cup (Len(job) + 1)..MaxJobs
    BY <1>1, BoundsAssumption DEF IInv, BatchInv, Running, Scheduled
  <2>5. QuitInv'
    BY <2>1, <2>4 DEF IInv, TypeOK, Workers, RecipientInv, QuitInv, Sending
  <2>6. (WaitingInv /\ BatchInv)'
    BY <2>1 DEF IInv, WaitingInv, Waiting, BatchInv, Fresh, Scheduled, Running, Sending
  <2>7. (RecipientInv /\ CountInv /\ LogIsTruthful)'
    BY <2>1 DEF IInv, RecipientInv, CountInv, LogIsTruthful, Fresh, Sending
  <2> QED  BY <2>3, <2>5, <2>6, <2>7 DEF IInv
<1>4. ASSUME NEW s \in Sessions, Activate(s) PROVE IInv'
  <2>1. /\ sub' = sub \cup {s} /\ quit' = [quit EXCEPT ![s] = {}]
        /\ UNCHANGED <<job, inst, up, w, log, faults, got, lost>>
    BY <1>4 DEF Activate
  <2>2. TypeOK' /\ QuitInv'
    BY <2>1 DEF IInv, TypeOK, Workers, RecipientInv, QuitInv, Sending
  <2>3. (WaitingInv /\ BatchInv)'
    BY <2>1 DEF IInv, WaitingInv, Waiting, BatchInv, Fresh, Scheduled, Running, Sending
  <2>4. (RecipientInv /\ CountInv /\ LogIsTruthful)'
    BY <2>1 DEF IInv, RecipientInv, CountInv, LogIsTruthful, Fresh, Sending
  <2> QED  BY <2>2, <2>3, <2>4 DEF IInv
<1>5. ASSUME Shutdown \/ \E c \in Channels : Delete(c) PROVE IInv'
  <2>1. /\ inst' \subseteq inst /\ up' \in {up, "stopping"}
        /\ faults' \in {faults, faults + 1} /\ faults' <= MaxFaults
        /\ UNCHANGED <<job, sub, w, log, got, lost, quit>>
    BY <1>5, BoundsAssumption DEF IInv, TypeOK, Shutdown, Fault, Delete, table, history
  <2>2. TypeOK'
    BY <2>1, BoundsAssumption DEF IInv, TypeOK
  <2>3. (WaitingInv /\ BatchInv)'
    BY <2>1 DEF IInv, WaitingInv, Waiting, BatchInv, Fresh, Scheduled, Running, Sending
  <2>4. (RecipientInv /\ CountInv /\ QuitInv /\ LogIsTruthful)'
    BY <2>1 DEF IInv, RecipientInv, CountInv, QuitInv, LogIsTruthful, Fresh, Sending
  <2> QED  BY <2>2, <2>3, <2>4 DEF IInv
<1> QED  BY <1>2, <1>3, <1>4, <1>5

(* Each way for the worker to be between jobs again is one of BetweenJobs: *)
(* what is left of its batch is still scheduled.                           *)
LEMMA AbandonKeeps ==
  ASSUME IInv,
         \/ ListScheduled \/ (\E j \in Jobs : StartFails(j))
         \/ RouteFails \/ ListFails \/ Close \/ CloseFails \/ Restart
  PROVE  IInv'
<1>1. /\ DOMAIN job = 1..Len(job) /\ Scheduled \subseteq DOMAIN job
      /\ job \in Seq(Rows) /\ Len(job) \in Nat
  BY JobsAreNumbered DEF IInv, TypeOK
<1>2. faults + 1 <= MaxFaults => faults + 1 \in 0..MaxFaults
  BY BoundsAssumption DEF IInv, TypeOK
<1>3. w.batch \subseteq Scheduled
  BY DEF IInv, BatchInv
<1>4. Fault \/ UNCHANGED faults => faults' \in 0..MaxFaults
  BY <1>2, BoundsAssumption DEF IInv, TypeOK, Fault
<1>5. ASSUME NEW b \in SUBSET Scheduled,
             w' = Proceed(b) \/ (w' = Polling /\ b = {}),
             UNCHANGED <<table, log, history>>, up' \in {"up", "stopping"},
             Fault \/ UNCHANGED faults
      PROVE  IInv'
  <2>1. UNCHANGED <<job, sub, inst, log, history>>
    BY <1>5 DEF table
  <2>2. Scheduled' = Scheduled
    BY <2>1 DEF Scheduled
  <2> QED  BY <1>1, <1>4, <1>5, <2>1, <2>2, BetweenJobs
<1>6. up \in {"up", "stopping"}
  BY DEF IInv, TypeOK
<1>7. CASE ListScheduled
  <2>1. PICK due \in SUBSET Scheduled : w' = Proceed(due)
    BY <1>7 DEF ListScheduled
  <2> QED  BY <1>5, <1>6, <1>7, <2>1 DEF ListScheduled
<1>8. CASE \E j \in Jobs : StartFails(j)
  <2>1. PICK j \in Jobs : StartFails(j)
    BY <1>8
  <2>2. w.batch \ {j} \in SUBSET Scheduled
    BY <1>3
  <2> QED  BY <1>5, <1>6, <2>1, <2>2 DEF StartFails
<1>9. CASE ListFails \/ CloseFails
  BY <1>3, <1>5, <1>6, <1>9 DEF ListFails, CloseFails, Cancelled
<1>10. CASE Restart
  <2>1. {} \in SUBSET Scheduled
    OBVIOUS
  <2> QED  BY <1>5, <1>10, <2>1 DEF Restart, Cancelled
<1>11. ASSUME NEW st \in {"done", "failed"}, SetStatus(w.job, st), Running,
              w' = Proceed(w.batch), UNCHANGED <<sub, inst, up, log, history>>,
              Fault \/ UNCHANGED faults
       PROVE  IInv'
  <2>1. w.job \in DOMAIN job /\ job[w.job].status = "running"
    BY <1>11 DEF IInv, BatchInv
  <2>2. /\ job' \in Seq(Rows) /\ Len(job') = Len(job) /\ DOMAIN job' = DOMAIN job
        /\ job'[w.job].status = st
        /\ \A i \in DOMAIN job : i # w.job => job'[i] = job[i]
    BY <1>11, <2>1, StatusIsSet DEF IInv
  <2>3. w.batch \in SUBSET Scheduled'
    BY <1>3, <2>1, <2>2 DEF Scheduled
  <2>4. \A j \in DOMAIN job : job'[j].status = "scheduled" => job[j].status = "scheduled"
    BY <1>11, <2>2
  <2> QED  BY <1>4, <1>6, <1>11, <2>2, <2>3, <2>4, BetweenJobs
<1>12. CASE Close
  <2>1. Running
    BY <1>12 DEF Close, Over, Running, Sending
  <2>2. PICK st \in {"done", "failed"} : SetStatus(w.job, st)
    BY <1>12 DEF Close
  <2> QED  BY <1>11, <1>12, <2>1, <2>2 DEF Close
<1>13. CASE RouteFails
  <2>1. Running
    BY <1>13 DEF RouteFails, Running
  <2>2. CASE SetStatus(w.job, "failed")
    BY <1>11, <1>13, <2>1, <2>2 DEF RouteFails
  <2>3. CASE UNCHANGED job
    BY <1>3, <1>5, <1>6, <1>13, <2>3 DEF RouteFails, table
  <2> QED  BY <1>13, <2>2, <2>3 DEF RouteFails
<1> QED  BY <1>7, <1>8, <1>9, <1>10, <1>12, <1>13

(* The worker's job has a number, and is no waiting one.                   *)
LEMMA AtWork ==
  ASSUME IInv
  PROVE  /\ w \in Workers /\ MaxAttempts \in Nat \ {0}
         /\ w.batch \subseteq Scheduled
         /\ Running => w.job \in Jobs /\ w.job \in DOMAIN job /\ ~Waiting(w.job)
         /\ \A j \in Scheduled : j \in Jobs /\ j \in DOMAIN job
<1>1. DOMAIN job \subseteq Jobs /\ Scheduled \subseteq DOMAIN job
  BY JobsAreNumbered DEF IInv
<1> QED  BY <1>1, BoundsAssumption DEF IInv, TypeOK, BatchInv, Waiting

(* A job is prepared: nothing of it was sent when its turn comes, and its  *)
(* candidates are subscribed, so that they have not left.                  *)
LEMMA PreparingKeeps ==
  ASSUME IInv,
         (\E j \in Jobs : Start(j)) \/ Route \/ ListActive \/ \E s \in Sessions : Recipient(s)
  PROVE  IInv'
<1>1. /\ w \in Workers /\ MaxAttempts \in Nat \ {0}
      /\ w.batch \subseteq Scheduled
      /\ Running => w.job \in Jobs /\ w.job \in DOMAIN job /\ ~Waiting(w.job)
      /\ \A j \in Scheduled : j \in Jobs /\ j \in DOMAIN job
  BY AtWork
<1>2. ASSUME NEW j \in Jobs, Start(j) PROVE IInv'
  <2>1. /\ w' = [w EXCEPT !.at = "route", !.job = j, !.batch = @ \ {j}]
        /\ UNCHANGED <<sub, inst, up, log, faults, got, lost, quit>>
        /\ j \in w.batch /\ SetStatus(j, "running")
    BY <1>2 DEF Start, Oldest, history
  <2>2. j \in Scheduled /\ j \in DOMAIN job
    BY <1>1, <2>1
  <2>3. /\ job' \in Seq(Rows) /\ Len(job') = Len(job) /\ DOMAIN job' = DOMAIN job
        /\ job'[j].status = "running"
        /\ \A i \in DOMAIN job : i # j => job'[i] = job[i]
    BY <2>1, <2>2, StatusIsSet DEF IInv
  <2>4. /\ w' \in Workers /\ w'.at = "route" /\ w'.job = j /\ w'.batch = w.batch \ {j}
    <3>1. j \in 0..MaxJobs /\ w.batch \ {j} \in SUBSET Jobs
      BY <1>1, BoundsAssumption DEF Jobs
    <3> QED  BY <1>1, <2>1, <3>1 DEF Workers
  <2>5. TypeOK'
    BY <2>1, <2>3, <2>4 DEF IInv, TypeOK
  <2>6. WaitingInv'
    BY <2>1, <2>2, <2>3 DEF IInv, WaitingInv, Waiting, Fresh, Scheduled
  <2>7. BatchInv'
    BY <1>1, <2>2, <2>3, <2>4 DEF BatchInv, Scheduled
  <2>8. \A s \in Sessions : Fresh(j, s)
    BY <2>2 DEF IInv, WaitingInv, Waiting, Scheduled
  <2>9. RecipientInv'
    BY <2>1, <2>4, <2>8 DEF RecipientInv, Fresh, Sending
  <2>10. (CountInv /\ QuitInv /\ LogIsTruthful)'
    BY <2>1, <2>4 DEF IInv, CountInv, QuitInv, LogIsTruthful, Sending
  <2> QED  BY <2>5, <2>6, <2>7, <2>9, <2>10 DEF IInv
<1>3. ASSUME Route PROVE IInv'
  <2>1. /\ w' = [w EXCEPT !.at = "list"] /\ w.at = "route"
        /\ UNCHANGED <<job, sub, inst, up, log, faults, got, lost, quit>>
    BY <1>3 DEF Route, table, history
  <2>2. w' \in Workers /\ w'.at = "list" /\ w'.job = w.job /\ w'.batch = w.batch
    BY <1>1, <2>1 DEF Workers
  <2>3. TypeOK' /\ WaitingInv' /\ LogIsTruthful'
    BY <2>1, <2>2 DEF IInv, TypeOK, WaitingInv, Waiting, Fresh, LogIsTruthful
  <2>4. BatchInv' /\ RecipientInv'
    BY <2>1, <2>2 DEF IInv, BatchInv, RecipientInv, Fresh, Scheduled, Running, Sending
  <2>5. CountInv' /\ QuitInv'
    BY <2>1, <2>2 DEF IInv, CountInv, QuitInv, Sending
  <2> QED  BY <2>3, <2>4, <2>5 DEF IInv
<1>4. ASSUME ListActive PROVE IInv'
  <2> DEFINE todo == {s \in sub : InScope(w.job, s) /\ Matches(w.job, s)}
  <2>1. /\ w' = [w EXCEPT !.at = "send", !.todo = todo] /\ w.at = "list"
        /\ UNCHANGED <<job, sub, inst, up, log, faults, got, lost, quit>>
    BY <1>4 DEF ListActive, table, history
  <2>2. todo \subseteq Sessions /\ todo \subseteq sub
    BY DEF IInv, TypeOK
  <2> HIDE DEF todo
  <2>3. /\ w' \in Workers /\ w'.at = "send" /\ w'.job = w.job /\ w'.batch = w.batch
        /\ w'.todo = todo
    BY <1>1, <2>1, <2>2 DEF Workers
  <2>4. TypeOK' /\ WaitingInv' /\ LogIsTruthful'
    BY <2>1, <2>3 DEF IInv, TypeOK, WaitingInv, Waiting, Fresh, LogIsTruthful
  <2>5. \A s \in Sessions : Fresh(w.job, s)
    BY <2>1 DEF IInv, RecipientInv
  <2>6. BatchInv' /\ RecipientInv'
    BY <2>1, <2>2, <2>3, <2>5 DEF IInv, BatchInv, RecipientInv, Fresh, Scheduled, Running, Sending
  <2>7. CountInv'
    BY <2>1, <2>3, <2>5 DEF IInv, CountInv, Fresh
  <2>8. QuitInv'
    BY <2>1, <2>2, <2>3 DEF IInv, QuitInv
  <2> QED  BY <2>4, <2>6, <2>7, <2>8 DEF IInv
<1>5. ASSUME NEW s \in Sessions, Recipient(s) PROVE IInv'
  <2>1. /\ w' = [w EXCEPT !.at = "try", !.session = s, !.todo = @ \ {s}, !.tries = 0]
        /\ w.at = "send" /\ s \in w.todo
        /\ UNCHANGED <<job, sub, inst, up, log, faults, got, lost, quit>>
    BY <1>5 DEF Recipient, table, history
  <2>2. /\ w' \in Workers /\ w'.at = "try" /\ w'.job = w.job /\ w'.batch = w.batch
        /\ w'.todo = w.todo \ {s} /\ w'.session = s /\ w'.tries = 0 /\ w'.sent = w.sent
    <3>1. 0 \in 0..MaxAttempts /\ w.todo \ {s} \in SUBSET Sessions /\ s \in Sessions \cup {0}
      BY <1>1 DEF Workers
    <3> QED  BY <1>1, <2>1, <3>1 DEF Workers
  <2>3. TypeOK' /\ WaitingInv' /\ LogIsTruthful'
    BY <2>1, <2>2 DEF IInv, TypeOK, WaitingInv, Waiting, Fresh, LogIsTruthful
  <2>4. Sending /\ Sending'
    BY <2>1, <2>2 DEF Sending
  <2>5. BatchInv'
    BY <2>1, <2>2, <2>4 DEF IInv, BatchInv, Scheduled, Running
  <2>6. RecipientInv'
    BY <1>1, <2>1, <2>2, <2>4 DEF IInv, RecipientInv, Fresh
  <2>7. CountInv' /\ QuitInv'
    BY <2>1, <2>2, <2>4 DEF IInv, CountInv, QuitInv
  <2> QED  BY <2>3, <2>5, <2>6, <2>7 DEF IInv
<1> QED  BY <1>2, <1>3, <1>4, <1>5

(* What every attempt leaves, whether it reached anybody (g) and whether   *)
(* the answer to that was lost (l): only the counts of the recipient have  *)
(* changed, and only an answered attempt makes the first of them larger.   *)
LEMMA AttemptKeeps ==
  ASSUME IInv, w.at = "try", NEW g \in {0, 1}, NEW l \in {0, g},
         got' \in [Jobs -> [Sessions -> Nat]], lost' \in [Jobs -> [Sessions -> Nat]],
         \A j \in Jobs, s \in Sessions : j # w.job \/ s # w.session =>
           got'[j][s] = got[j][s] /\ lost'[j][s] = lost[j][s],
         got'[w.job][w.session] = got[w.job][w.session] + g,
         lost'[w.job][w.session] = lost[w.job][w.session] + l,
         w' \in Workers, w'.at \in {"try", "log"}, w'.job = w.job, w'.batch = w.batch,
         w'.todo = w.todo, w'.session = w.session, w'.sent = w.sent,
         w'.at = "try" => g = l /\ w'.tries < MaxAttempts,
         w'.at = "log" => (w'.ok <=> g # l) /\ (up = "up" => w'.tries >= 1),
         faults' \in 0..MaxFaults,
         UNCHANGED <<job, sub, inst, up, log, quit>>
  PROVE  IInv'
<1>1. /\ w \in Workers /\ MaxAttempts \in Nat \ {0}
      /\ Running => w.job \in Jobs /\ w.job \in DOMAIN job /\ ~Waiting(w.job)
  BY AtWork
<1>2. Sending /\ Running /\ Sending' /\ Running'
  BY DEF Running, Sending
<1>3. w.session \in Sessions \ w.todo /\ w.job \in Jobs
  BY <1>1, <1>2 DEF IInv, RecipientInv
<1>4. TypeOK'
  BY DEF IInv, TypeOK
<1>5. WaitingInv'
  BY <1>1, <1>2, <1>3 DEF IInv, WaitingInv, Waiting, Fresh
<1>6. BatchInv'
  BY <1>2 DEF IInv, BatchInv, Scheduled
<1>7. got[w.job][w.session] = lost[w.job][w.session] /\ got[w.job][w.session] \in Nat
  BY <1>3 DEF IInv, TypeOK, RecipientInv
<1>8. /\ got'[w.job][w.session] = lost'[w.job][w.session] + (g - l)
      /\ g = l \/ (g = 1 /\ l = 0)
  <2>1. got'[w.job][w.session] = got[w.job][w.session] + g
    OBVIOUS
  <2>2. lost'[w.job][w.session] = lost[w.job][w.session] + l
    OBVIOUS
  <2>3. g \in {0, 1} /\ l \in {0, g}
    OBVIOUS
  <2> QED
    BY ONLY <1>7, <2>1, <2>2, <2>3
<1>9. RecipientInv'
  <2>1. \A s \in w.todo : Fresh(w.job, s)
    BY <1>2 DEF IInv, RecipientInv
  <2>2. \A s \in w.todo : s \in Sessions /\ s # w.session
    BY <1>1, <1>3 DEF Workers
  <2>3. \A s \in w'.todo : Fresh(w.job, s)'
    BY <1>3, <2>1, <2>2 DEF Fresh
  <2>4. w'.at = "log" => g - l = IF w'.ok THEN 1 ELSE 0
    BY <1>8
  <2>5. \A d \in log : ~(d.job = w.job /\ d.session = w.session)
    BY DEF IInv, RecipientInv
  <2> QED  BY <1>3, <1>8, <2>3, <2>4, <2>5 DEF RecipientInv
<1>10. CountInv'
  <2>1. \A j \in Jobs, s \in Sessions : got'[j][s] \in {lost'[j][s], lost'[j][s] + 1}
    BY <1>3, <1>8 DEF IInv, CountInv
  <2>2. ASSUME NEW s \in Sessions, ~w'.sent
        PROVE  got'[w.job][s] = lost'[w.job][s] \/ (w'.at = "log" /\ s = w.session)
    <3>1. CASE s = w.session
      <4>1. lost'[w.job][w.session] \in Nat
        BY <1>3
      <4>2. CASE w'.at = "try"
        BY <1>8, <3>1, <4>1, <4>2
      <4> QED  BY <3>1, <4>2
    <3>2. CASE s # w.session
      BY <1>2, <1>3, <2>2, <3>2 DEF IInv, CountInv
    <3> QED  BY <3>1, <3>2
  <2> QED  BY <2>1, <2>2 DEF CountInv
<1>11. QuitInv'
  BY <1>2 DEF IInv, QuitInv
<1>12. LogIsTruthful'
  <2>1. \A d \in log : d.job \in Jobs /\ d.session \in Sessions
    BY DEF IInv, TypeOK, Entries
  <2>2. \A d \in log : ~(d.job = w.job /\ d.session = w.session)
    BY DEF IInv, RecipientInv
  <2>3. \A d \in log : /\ got'[d.job][d.session] = got[d.job][d.session]
                        /\ lost'[d.job][d.session] = lost[d.job][d.session]
    BY <2>1, <2>2
  <2> QED  BY <2>3 DEF IInv, LogIsTruthful
<1> QED  BY <1>4, <1>5, <1>6, <1>9, <1>10, <1>11, <1>12 DEF IInv

(* Every attempt is one of AttemptKeeps.                                   *)
LEMMA AttemptingKeeps ==
  ASSUME IInv, Send \/ SendFails \/ AnswerLost \/ GiveUp
  PROVE  IInv'
<1>1. /\ w \in Workers /\ MaxAttempts \in Nat \ {0} /\ MaxFaults \in Nat
      /\ got \in [Jobs -> [Sessions -> Nat]] /\ lost \in [Jobs -> [Sessions -> Nat]]
      /\ faults \in 0..MaxFaults
  BY AtWork, BoundsAssumption DEF IInv, TypeOK
<1>2. w.at = "try" /\ w.tries \in 0..MaxAttempts /\ w.tries < MaxAttempts
  BY <1>1 DEF Send, SendFails, AnswerLost, GiveUp, IInv, RecipientInv, Workers
<1>3. w.session \in Sessions /\ w.job \in Jobs
  BY <1>2, AtWork DEF IInv, RecipientInv, Running, Sending
<1>4. CASE Send
  <2>1. /\ w' = [w EXCEPT !.at = "log", !.tries = @ + 1, !.ok = TRUE]
        /\ got' = [got EXCEPT ![w.job][w.session] = @ + 1]
        /\ UNCHANGED <<job, sub, inst, up, log, faults, lost, quit>>
    BY <1>4 DEF Send, Reach, table
  <2>2. w.tries + 1 \in 0..MaxAttempts /\ w.tries + 1 >= 1
    BY <1>1, <1>2
  <2>3. /\ w' \in Workers /\ w'.at = "log" /\ w'.job = w.job /\ w'.batch = w.batch
        /\ w'.todo = w.todo /\ w'.session = w.session /\ w'.sent = w.sent
        /\ w'.ok = TRUE /\ w'.tries >= 1
    BY <1>1, <2>1, <2>2 DEF Workers
  <2>4. /\ got' \in [Jobs -> [Sessions -> Nat]]
        /\ \A j \in Jobs, s \in Sessions :
             j # w.job \/ s # w.session => got'[j][s] = got[j][s]
        /\ got'[w.job][w.session] = got[w.job][w.session] + 1
        /\ lost'[w.job][w.session] = lost[w.job][w.session] + 0
    BY <1>1, <1>3, <2>1
  <2> QED  BY <1>1, <1>2, <2>1, <2>3, <2>4, AttemptKeeps
<1>5. ASSUME Retry
      PROVE  /\ w' \in Workers /\ w'.at \in {"try", "log"} /\ w'.job = w.job
             /\ w'.batch = w.batch /\ w'.todo = w.todo /\ w'.session = w.session
             /\ w'.sent = w.sent /\ w'.ok = FALSE /\ w'.tries >= 1
             /\ w'.at = "try" => w'.tries < MaxAttempts
  <2> DEFINE at == IF w.tries + 1 < MaxAttempts THEN "try" ELSE "log"
  <2>1. w' = [w EXCEPT !.tries = @ + 1, !.ok = FALSE, !.at = at]
    BY <1>5 DEF Retry
  <2>2. /\ w.tries + 1 \in 0..MaxAttempts /\ w.tries + 1 >= 1
        /\ at \in {"try", "log"}
        /\ at = "try" => w.tries + 1 < MaxAttempts
    BY <1>1, <1>2
  <2> HIDE DEF at
  <2>3. w' \in Workers
    BY <1>1, <2>1, <2>2 DEF Workers
  <2>4. /\ w'.at = at /\ w'.job = w.job /\ w'.batch = w.batch /\ w'.todo = w.todo
        /\ w'.session = w.session /\ w'.sent = w.sent /\ w'.ok = FALSE
        /\ w'.tries = w.tries + 1
    BY <1>1, <2>1 DEF Workers
  <2> QED  BY <2>2, <2>3, <2>4
<1>6. CASE SendFails
  <2>1. /\ Retry /\ UNCHANGED <<job, sub, inst, up, log, faults, got, lost, quit>>
    BY <1>6 DEF SendFails, table, history
  <2>2. /\ got'[w.job][w.session] = got[w.job][w.session] + 0
        /\ lost'[w.job][w.session] = lost[w.job][w.session] + 0
    BY <1>1, <1>3, <2>1
  <2> QED  BY <1>1, <1>2, <1>5, <2>1, <2>2, AttemptKeeps
<1>7. CASE AnswerLost
  <2>1. /\ Retry /\ UNCHANGED <<job, sub, inst, up, log, quit>>
        /\ got' = [got EXCEPT ![w.job][w.session] = @ + 1]
        /\ lost' = [lost EXCEPT ![w.job][w.session] = @ + 1]
        /\ faults < MaxFaults /\ faults' = faults + 1
    BY <1>7 DEF AnswerLost, Reach, Fault, table
  <2>2. faults' \in 0..MaxFaults
    BY <1>1, <2>1
  <2>3. /\ got' \in [Jobs -> [Sessions -> Nat]] /\ lost' \in [Jobs -> [Sessions -> Nat]]
        /\ \A j \in Jobs, s \in Sessions : j # w.job \/ s # w.session =>
             got'[j][s] = got[j][s] /\ lost'[j][s] = lost[j][s]
        /\ got'[w.job][w.session] = got[w.job][w.session] + 1
        /\ lost'[w.job][w.session] = lost[w.job][w.session] + 1
    BY <1>1, <1>3, <2>1
  <2> QED  BY <1>2, <1>5, <2>1, <2>2, <2>3, AttemptKeeps
<1>8. CASE GiveUp
  <2>1. /\ w' = [w EXCEPT !.at = "log", !.ok = FALSE] /\ up = "stopping"
        /\ UNCHANGED <<job, sub, inst, up, log, faults, got, lost, quit>>
    BY <1>8 DEF GiveUp, table, history
  <2>2. /\ w' \in Workers /\ w'.at = "log" /\ w'.job = w.job /\ w'.batch = w.batch
        /\ w'.todo = w.todo /\ w'.session = w.session /\ w'.sent = w.sent /\ w'.ok = FALSE
    BY <1>1, <2>1 DEF Workers
  <2>3. /\ got'[w.job][w.session] = got[w.job][w.session] + 0
        /\ lost'[w.job][w.session] = lost[w.job][w.session] + 0
    BY <1>1, <1>3, <2>1
  <2> QED  BY <1>1, <1>2, <2>1, <2>2, <2>3, AttemptKeeps
<1> QED  BY <1>4, <1>6, <1>7, <1>8

(* A recipient is done with, and logged or not: the entry is the first one *)
(* for the job and the subscription, and says what the counts say.         *)
LEMMA LoggingKeeps ==
  ASSUME IInv, AppendLog \/ LogFails
  PROVE  IInv'
<1>1. /\ w \in Workers /\ MaxAttempts \in Nat \ {0} /\ MaxFaults \in Nat
      /\ faults \in 0..MaxFaults
  BY AtWork, BoundsAssumption DEF IInv, TypeOK
<1>2. /\ w.at = "log" /\ Counted
      /\ UNCHANGED <<job, sub, inst, up, got, lost, quit>>
      /\ log' = log \/ (up = "up" /\ log' = log \cup {Entry})
      /\ faults' \in 0..MaxFaults
  BY <1>1 DEF AppendLog, LogFails, Cancelled, Fault, table, history
<1>3. /\ w.job \in Jobs /\ ~Waiting(w.job) /\ w.session \in Sessions \ w.todo
      /\ got[w.job][w.session] = lost[w.job][w.session] + (IF w.ok THEN 1 ELSE 0)
      /\ up = "up" => w.tries >= 1
      /\ \A d \in log : ~(d.job = w.job /\ d.session = w.session)
  BY <1>2, AtWork DEF IInv, RecipientInv, Running, Sending
<1>4. /\ w' \in Workers /\ w'.at = "send" /\ w'.job = w.job /\ w'.batch = w.batch
      /\ w'.todo = w.todo /\ w'.sent = (w.sent \/ w.ok)
  <2>1. PICK a \in BOOLEAN, b \in BOOLEAN :
          a = (w.sent \/ w.ok) /\ b = (w.failed \/ ~w.ok)
    OBVIOUS
  <2>2. w' = [w EXCEPT !.at = "send", !.session = 0, !.tries = 0, !.ok = FALSE,
                       !.sent = a, !.failed = b]
    BY <1>2, <2>1 DEF Counted
  <2>3. 0 \in 0..MaxAttempts /\ 0 \in Sessions \cup {0}
    BY <1>1
  <2>4. /\ w' \in Workers /\ w'.at = "send" /\ w'.job = w.job /\ w'.batch = w.batch
        /\ w'.todo = w.todo /\ w'.sent = a
    BY <1>1, <2>2, <2>3 DEF Workers
  <2> QED  BY <2>1, <2>4
<1>5. Sending /\ Sending' /\ Running /\ Running'
  BY <1>2, <1>4 DEF Running, Sending
<1>6. /\ Entry.job = w.job /\ Entry.session = w.session /\ Entry.retries = w.tries - 1
      /\ Entry.status = (IF w.ok THEN "sent" ELSE "failed")
      /\ Entry \in Entries /\ w.tries \in 0..MaxAttempts
  BY <1>1, <1>3 DEF Entry, Entries, Workers
<1>7. \A d \in log' : d \in log \/ (d = Entry /\ up = "up")
  BY <1>2
<1> HIDE DEF Entry
<1>8. TypeOK'
  BY <1>2, <1>4, <1>6 DEF IInv, TypeOK
<1>9. WaitingInv'
  BY <1>2, <1>3, <1>6, <1>7 DEF IInv, WaitingInv, Waiting, Fresh
<1>10. BatchInv'
  BY <1>2, <1>4, <1>5 DEF IInv, BatchInv, Scheduled
<1>11. RecipientInv'
  <2>1. \A s \in w.todo : Fresh(w.job, s) /\ s # w.session
    BY <1>3, <1>5 DEF IInv, RecipientInv
  <2>2. \A s \in w.todo : Fresh(w.job, s)'
    BY <1>2, <1>4, <1>6, <1>7, <2>1 DEF Fresh
  <2> QED  BY <1>4, <2>2 DEF RecipientInv
<1>12. CountInv' /\ QuitInv'
  <2>1. QuitInv'
    BY <1>2, <1>4, <1>5 DEF IInv, QuitInv
  <2>2. ASSUME ~w'.sent, NEW s \in Sessions PROVE got[w.job][s] = lost[w.job][s]
    <3>1. w.ok = FALSE /\ w.sent = FALSE
      BY <1>1, <1>4, <2>2 DEF Workers
    <3>2. CASE s = w.session
      BY <1>3, <3>1, <3>2 DEF IInv, TypeOK
    <3>3. CASE s # w.session
      BY <1>5, <3>1, <3>3 DEF IInv, CountInv
    <3> QED  BY <3>2, <3>3
  <2>3. CountInv'
    BY <1>2, <1>4, <2>2 DEF IInv, CountInv
  <2> QED  BY <2>1, <2>3
<1>13. LogIsTruthful'
  <2>1. \A d, e \in log' : d.job = e.job /\ d.session = e.session => d = e
    BY <1>3, <1>6, <1>7 DEF IInv, LogIsTruthful
  <2>2. ASSUME NEW d \in log'
        PROVE  /\ d.retries \in 0..(MaxAttempts - 1)
               /\ d.status = "sent" => got[d.job][d.session] = lost[d.job][d.session] + 1
               /\ d.status = "failed" => got[d.job][d.session] = lost[d.job][d.session]
    <3>1. CASE d \in log
      BY <3>1 DEF IInv, LogIsTruthful
    <3>2. CASE d = Entry /\ up = "up"
      <4>1. w.tries - 1 \in 0..(MaxAttempts - 1)
        BY <1>1, <1>3, <1>6, <3>2
      <4>2. got[w.job][w.session] \in Nat /\ lost[w.job][w.session] \in Nat
        BY <1>3 DEF IInv, TypeOK
      <4> QED  BY <1>3, <1>6, <3>2, <4>1, <4>2
    <3> QED  BY <1>7, <3>1, <3>2
  <2> QED  BY <1>2, <2>1, <2>2 DEF LogIsTruthful
<1> QED  BY <1>8, <1>9, <1>10, <1>11, <1>12, <1>13 DEF IInv

LEMMA StepIInv == IInv /\ [Next]_vars => IInv'
<1> SUFFICES ASSUME IInv, [Next]_vars PROVE IInv'
  OBVIOUS
<1>1. CASE UNCHANGED vars
  <2>1. UNCHANGED <<job, sub, inst, up, w, log, faults, got, lost, quit>>
    BY <1>1 DEF vars, table, history
  <2>2. (TypeOK /\ WaitingInv /\ BatchInv)'
    BY <2>1 DEF IInv, TypeOK, WaitingInv, Waiting, BatchInv, Fresh, Scheduled, Running, Sending
  <2>3. (RecipientInv /\ CountInv /\ QuitInv /\ LogIsTruthful)'
    BY <2>1 DEF IInv, RecipientInv, CountInv, QuitInv, LogIsTruthful, Fresh, Sending
  <2> QED  BY <2>2, <2>3 DEF IInv
<1>2. CASE Work
  BY <1>2, AbandonKeeps, PreparingKeeps, AttemptingKeeps, LoggingKeeps DEF Work
<1> QED  BY <1>1, <1>2, OthersKeep, AbandonKeeps DEF Next

LEMMA Inductive == Spec => []IInv
  BY InitIInv, StepIInv, PTL DEF Spec

(* A job has gone, and is going, to subscriptions of its scope only.       *)
Addressed(j, s) == j \in DOMAIN job /\ InScope(j, s)
ScopeInv ==
  /\ \A j \in Jobs, s \in Sessions : got[j][s] > 0 => Addressed(j, s)
  /\ Sending => \A s \in w.todo : Addressed(w.job, s)
  /\ w.at = "try" => Addressed(w.job, w.session)

(* No job ever changes its aim.                                            *)
LEMMA AimsStay ==
  ASSUME IInv, [Next]_vars
  PROVE  /\ DOMAIN job \subseteq DOMAIN job'
         /\ \A j \in DOMAIN job : job'[j].aim = job[j].aim
<1>1. ASSUME NEW j \in DOMAIN job, NEW st \in {"running", "done", "failed"},
             SetStatus(j, st)
      PROVE  DOMAIN job' = DOMAIN job /\ \A i \in DOMAIN job : job'[i].aim = job[i].aim
  BY <1>1, StatusIsSet DEF IInv
<1>2. CASE UNCHANGED job
  BY <1>2
<1>3. ASSUME NEW aim \in Aims, Create(aim)
      PROVE  /\ DOMAIN job \subseteq DOMAIN job'
             /\ \A i \in DOMAIN job : job'[i].aim = job[i].aim
  BY <1>3, JobIsAppended DEF IInv
<1>4. ASSUME NEW j \in Jobs, Start(j)
      PROVE  /\ DOMAIN job \subseteq DOMAIN job'
             /\ \A i \in DOMAIN job : job'[i].aim = job[i].aim
  <2>1. j \in DOMAIN job
    BY <1>4, AtWork DEF Start, Oldest
  <2> QED  BY <1>1, <1>4, <2>1 DEF Start
<1>5. CASE RouteFails \/ Close
  <2>1. w.job \in DOMAIN job
    BY <1>5, AtWork DEF RouteFails, Close, Over, Running, Sending
  <2>2. UNCHANGED job \/ \E st \in {"done", "failed"} : SetStatus(w.job, st)
    BY <1>5 DEF RouteFails, Close
  <2> QED  BY <1>1, <1>2, <2>1, <2>2
<1> QED
  BY <1>2, <1>3, <1>4, <1>5
  DEF Next, Work, End, Activate, Delete, Shutdown, Restart, ListScheduled, StartFails,
      Route, ListActive, ListFails, Recipient, Send, SendFails, AnswerLost, GiveUp,
      AppendLog, LogFails, CloseFails, table, vars

(* The candidates are of the job's scope, and a message goes to one.       *)
LEMMA ScopeIsKept == Spec => []ScopeInv
<1>1. Init => ScopeInv
  BY DEF Init, ScopeInv, Polling, Sending
<1>2. ASSUME IInv, ScopeInv, [Next]_vars PROVE ScopeInv'
  <2>1. \A j, s : Addressed(j, s) => Addressed(j, s)'
    BY <1>2, AimsStay DEF Addressed, InScope
  <2>2. w \in Workers /\ got \in [Jobs -> [Sessions -> Nat]]
    BY <1>2 DEF IInv, TypeOK
  <2>3. ASSUME UNCHANGED got, w'.at = "try" => w.at = "try" /\ w'.session = w.session,
               Sending' => Sending /\ w'.job = w.job /\ w'.todo \subseteq w.todo
        PROVE  ScopeInv'
    BY <1>2, <2>1, <2>3 DEF ScopeInv, Sending
  <2>4. ASSUME w' = Polling \/ (\E b : w' = Proceed(b)), UNCHANGED got
        PROVE  ScopeInv'
    <3>1. Polling.at = "poll" /\ \A b : Proceed(b).at \in {"poll", "next"}
      BY DEF Proceed, Polling
    <3>2. w'.at \in {"poll", "next"}
      BY <2>4, <3>1
    <3> QED  BY <2>3, <2>4, <3>2 DEF Sending
  <2>5. CASE ListActive
    <3>1. /\ w'.at = "send" /\ w'.job = w.job /\ UNCHANGED got
          /\ \A s \in w'.todo : InScope(w.job, s)
      BY <2>2, <2>5 DEF ListActive, Workers, history
    <3>2. w.job \in DOMAIN job
      BY <1>2, <2>5, AtWork DEF ListActive, Running
    <3>3. \A s \in w'.todo : Addressed(w.job, s)
      BY <3>1, <3>2 DEF Addressed
    <3> QED  BY <1>2, <2>1, <3>1, <3>3 DEF ScopeInv
  <2>6. ASSUME NEW s \in Sessions, Recipient(s) PROVE ScopeInv'
    <3>1. /\ w.at = "send" /\ w'.at = "try" /\ w'.job = w.job /\ w'.session = s
          /\ s \in w.todo /\ w'.todo \subseteq w.todo /\ UNCHANGED got
      BY <2>2, <2>6 DEF Recipient, Workers, history
    <3> QED  BY <1>2, <2>1, <3>1 DEF ScopeInv, Sending
  <2>7. CASE Send \/ AnswerLost
    <3>1. /\ w.at = "try" /\ w'.job = w.job /\ w'.session = w.session
          /\ w'.todo = w.todo /\ got' = [got EXCEPT ![w.job][w.session] = @ + 1]
      BY <2>2, <2>7 DEF Send, AnswerLost, Retry, Reach, Workers
    <3>2. Addressed(w.job, w.session)
      BY <1>2, <3>1 DEF ScopeInv
    <3>3. \A j \in Jobs, s \in Sessions : got'[j][s] > 0 => Addressed(j, s)
      BY <1>2, <2>2, <3>1, <3>2 DEF ScopeInv
    <3> QED  BY <1>2, <2>1, <3>1, <3>2, <3>3 DEF ScopeInv, Sending
  <2>8. CASE SendFails \/ GiveUp \/ AppendLog \/ LogFails
    <3>1. /\ w.at \in {"try", "log"} /\ w'.job = w.job /\ w'.todo = w.todo /\ UNCHANGED got
          /\ w'.at = "try" => w.at = "try" /\ w'.session = w.session
      BY <2>2, <2>8 DEF SendFails, GiveUp, AppendLog, LogFails, Retry, Counted, Workers, history
    <3> QED  BY <2>3, <3>1 DEF Sending
  <2>9. CASE Route \/ \E j \in Jobs : Start(j)
    <3>1. w'.at \in {"route", "list"} /\ UNCHANGED got
      BY <2>2, <2>9 DEF Route, Start, Workers, history
    <3> QED  BY <2>3, <3>1 DEF Sending
  <2>10. CASE UNCHANGED <<w, got>>
    BY <2>3, <2>10 DEF Sending
  <2> QED
    BY <1>2, <2>4, <2>5, <2>6, <2>7, <2>8, <2>9, <2>10
    DEF Next, Work, Create, End, Activate, Delete, Shutdown, Restart, ListScheduled,
        StartFails, RouteFails, ListFails, Close, CloseFails, history, vars
<1> QED  BY <1>1, <1>2, Inductive, PTL DEF Spec
----------------------------------------------------------------------------
(* Every variable stays in its domain.                                     *)
THEOREM TypeCorrect == Spec => []TypeOK
<1>1. IInv => TypeOK
  BY DEF IInv
<1> QED  BY <1>1, Inductive, PTL

(* Scheduler.Run sends a job's message for a subscription once, and once   *)
(* more for every attempt whose answer was lost, through any crashes and   *)
(* restarts, because a job is marked running before its first message.  A  *)
(* user subscribed at several instances is sent a job for all of them for  *)
(* each of his subscriptions; a job for one instance reaches him through   *)
(* one subscription only, since an instance and a user are a row's key.    *)
THEOREM AtMostOnePlusLost == Spec => []SentOnce
<1>1. IInv /\ ScopeInv => SentOnce
  <2> SUFFICES ASSUME IInv, ScopeInv PROVE SentOnce
    OBVIOUS
  <2>1. ASSUME NEW j \in Jobs, NEW s \in Sessions PROVE got[j][s] <= lost[j][s] + 1
    <3>1. got[j][s] \in {lost[j][s], lost[j][s] + 1}
      BY DEF IInv, CountInv
    <3>2. lost[j][s] \in Nat
      BY DEF IInv, TypeOK
    <3> QED  BY <3>1, <3>2
  <2>2. ASSUME NEW j \in DOMAIN job, job[j].aim.scope # All,
               NEW s \in Sessions, NEW t \in Sessions, Owner[s] = Owner[t],
               got[j][s] > 0, got[j][t] > 0
        PROVE  s = t
    <3>1. j \in Jobs
      BY JobsAreNumbered DEF IInv
    <3>2. Home[s] = Home[t]
      BY <2>2, <3>1 DEF ScopeInv, Addressed, InScope
    <3> QED  BY <2>2, <3>2, KeyAssumption
  <2> QED  BY <2>1, <2>2 DEF SentOnce
<1> QED  BY <1>1, Inductive, ScopeIsKept, PTL

(* The DeliveryLog rows written by Scheduler.Run: one for a job and        *)
(* subscription at most, and each of them true.                            *)
THEOREM AuditIsTrue == Spec => []LogIsTruthful
<1>1. IInv => LogIsTruthful
  BY DEF IInv
<1> QED  BY <1>1, Inductive, PTL

(* Scheduler.Run closes a job as done with no recipient left, and as       *)
(* failed only when no send of it was answered.                            *)
THEOREM ClosedAsItWent == Spec => VerdictIsEarned
<1> DEFINE A == \A j \in DOMAIN job : job'[j].status # job[j].status =>
                  /\ job'[j].status = "done" => w.todo = {}
                  /\ job'[j].status = "failed" =>
                       \A s \in Sessions : got[j][s] = lost[j][s]
<1>1. IInv /\ [Next]_vars => [A]_vars
  <2> SUFFICES ASSUME IInv, Next PROVE A
    OBVIOUS
  <2>1. \A j \in DOMAIN job, st \in {"scheduled", "running", "done", "failed"} :
          SetStatus(j, st) => /\ job'[j].status = st
                             /\ \A i \in DOMAIN job : i # j => job'[i] = job[i]
    BY StatusIsSet DEF IInv
  <2>2. CASE UNCHANGED job
    BY <2>2
  <2>3. ASSUME NEW aim \in Aims, Create(aim) PROVE A
    BY <2>3, JobIsAppended DEF IInv
  <2>4. ASSUME NEW j \in Jobs, Start(j) PROVE A
    <3>1. j \in DOMAIN job
      BY <2>4, AtWork DEF Start, Oldest
    <3> QED  BY <2>1, <2>4, <3>1 DEF Start
  <2>5. CASE RouteFails /\ SetStatus(w.job, "failed")
    <3>1. w.job \in DOMAIN job /\ w.at = "route"
      BY <2>5, AtWork DEF RouteFails, Running
    <3>2. \A s \in Sessions : got[w.job][s] = lost[w.job][s]
      BY <3>1 DEF IInv, RecipientInv, Fresh
    <3> QED  BY <2>1, <2>5, <3>1, <3>2
  <2>6. CASE Close
    <3>1. w.job \in DOMAIN job /\ w.at = "send" /\ w.todo = {}
      BY <2>6, AtWork DEF Close, Over, Running, Sending
    <3>2. PICK st \in {"done", "failed"} : SetStatus(w.job, st) /\ (st = "failed" => ~w.sent)
      BY <2>6 DEF Close
    <3>3. st = "failed" => \A s \in Sessions : got[w.job][s] = lost[w.job][s]
      BY <3>1, <3>2 DEF IInv, CountInv, Sending
    <3> QED  BY <2>1, <3>1, <3>2, <3>3
  <2> QED
    BY <2>2, <2>3, <2>4, <2>5, <2>6
    DEF Next, Work, End, Activate, Delete, Shutdown, Restart, ListScheduled, StartFails,
        Route, RouteFails, ListActive, ListFails, Recipient, Send, SendFails, AnswerLost,
        GiveUp, AppendLog, LogFails, CloseFails, table
<1> QED  BY <1>1, Inductive, PTL DEF Spec, VerdictIsEarned

(* A subscription that Scheduler.deliver sends for was active when or      *)
(* after the job was picked up.                                            *)
THEOREM NoMailForLeavers == Spec => LeaversAreSpared
<1> DEFINE A == \A j \in Jobs, s \in Sessions : got'[j][s] > got[j][s] => j \notin quit[s]
<1>1. IInv /\ [Next]_vars => [A]_vars
  <2> SUFFICES ASSUME IInv, Next PROVE A
    OBVIOUS
  <2>1. got \in [Jobs -> [Sessions -> Nat]]
    BY DEF IInv, TypeOK
  <2>2. CASE UNCHANGED got
    BY <2>1, <2>2
  <2>3. CASE Send \/ AnswerLost
    <3>1. w.at = "try" /\ got' = [got EXCEPT ![w.job][w.session] = @ + 1]
      BY <2>3 DEF Send, AnswerLost, Reach
    <3>2. w.job \notin quit[w.session]
      BY <3>1 DEF IInv, QuitInv
    <3> QED  BY <2>1, <3>1, <3>2
  <2> QED
    BY <2>2, <2>3
    DEF Next, Work, Create, End, Activate, Delete, Shutdown, Restart, ListScheduled,
        Start, StartFails, Route, RouteFails, ListActive, ListFails, Recipient, SendFails,
        GiveUp, AppendLog, LogFails, Close, CloseFails, table, history
<1> QED  BY <1>1, Inductive, PTL DEF Spec, LeaversAreSpared

----------------------------------------------------------------------------
(*                              Configuration                              *)
----------------------------------------------------------------------------
(* The sources that an evaluation has still to ask.                        *)
Left(v) == {v.left[k] : k \in DOMAIN v.left}

(* Facts by the pool id as it is configured.                               *)
FactMaps == [PoolIds -> [state : States \cup {""}, stake : Nat]]

(* An evaluation, of which nothing else is typed.                          *)
Fields == {"at", "left", "asked", "held", "facts", "state", "tier", "member",
           "active", "seen"}

Shape(v) ==
  /\ DOMAIN v = Fields
  /\ v.left \in Seq(Bodies)
  /\ v.asked \subseteq Bodies
  /\ v.held \in BOOLEAN
  /\ v.facts \in FactMaps
  /\ v.member \subseteq v.asked
  /\ v.active \subseteq v.asked

(* The rows, and the row that an operator's request is about to write.     *)
TableInv ==
  /\ rows \in [Ids -> Row \cup {None}]
  /\ created \in 0..MaxIds
  /\ req \in [Admins -> [id : Ids \cup {0}, row : Row \cup {None}]]

(* Another source asked has the pool id of p.                              *)
Twice(v, p) == \E q \in v.asked : p # q /\ p.pool = q.pool

(* While the sources are asked: a credential that has been a member at one *)
(* throughout is so now, and once that source was asked the verdict shows  *)
(* it; what has been found held was so at some instant.                    *)
AskedInv(v, acc) ==
  /\ Left(v) \subseteq v.asked
  /\ v.member \subseteq Places(v.asked, acc, {"pending", "active"})
  /\ v.active \subseteq Places(v.asked, acc, {"active"})
  /\ Places(v.asked, acc, {"pending", "active"}) \subseteq v.seen
  /\ \A p \in v.member : p \in Left(v) \/ v.held
  /\ \A p \in v.active :
       p \in Left(v) \/ v.facts[p.pool].state = "active" \/ Twice(v, p)
  /\ v.held => v.seen # {}
  /\ AnyActive(v.facts) => v.held

(* VerdictsAreDeserved, of one evaluation.                                 *)
Deserved(v) ==
  /\ v.member # {} => v.state # "none"
  /\ v.active # {} =>
       \/ v.state = "active"
       \/ \E p, q \in v.asked : p # q /\ p.pool = q.pool
  /\ v.state # "none" => v.seen # {}
  /\ v.state = "none" => v.tier = ""

(* The facts and the history of an evaluation agree with the chain while   *)
(* sources are left, and justify its verdict when none is.                 *)
EvalInv ==
  /\ DOMAIN eval = Evals
  /\ \A e \in Evals :
       /\ Shape(eval[e])
       /\ eval[e].at = "attest" => AskedInv(eval[e], account)
       /\ eval[e].at = "answered" => Deserved(eval[e])

AccountInv == account \in [Networks -> Account]

ConfigInv == TableInv /\ AccountInv /\ EvalInv
----------------------------------------------------------------------------
(* The rows in use, and the rank of one among them by age.                 *)
InUse == {i \in Ids : rows[i] # None /\ rows[i].status = "active"}
OldestTo(i) == {j \in 1..i : rows[j] # None /\ rows[j].status = "active"}
Rank(i) == Cardinality(OldestTo(i))

(* The older of two active rows has the lower rank.                        *)
LEMMA RanksAreDistinct ==
  ASSUME NEW i \in InUse, NEW j \in InUse, i < j
  PROVE  Rank(i) < Rank(j)
<1>1. Ids \subseteq Nat
  BY ConfigBoundsAssumption DEF Ids
<1>2. i \in Nat /\ j \in Nat
  BY <1>1 DEF InUse
<1>3. OldestTo(i) \subseteq OldestTo(j) /\ j \in OldestTo(j) /\ j \notin OldestTo(i)
  BY <1>2, ConfigBoundsAssumption DEF OldestTo, InUse, Ids
<1>4. IsFiniteSet(OldestTo(j))
  <2>1. IsFiniteSet(1..j)
    BY <1>2, FS_Interval
  <2> QED
    BY <2>1, FS_Subset DEF OldestTo
<1>5. IsFiniteSet(OldestTo(i)) /\ Rank(i) <= Rank(j) /\ Rank(i) # Rank(j)
  BY <1>3, <1>4, FS_Subset DEF Rank
<1>6. Rank(i) \in Nat /\ Rank(j) \in Nat
  BY <1>4, <1>5, FS_CardinalityType DEF Rank
<1> QED
  BY <1>5, <1>6

(* Each rank is that of one active row.                                    *)
LEMMA RanksAreTaken ==
  /\ IsFiniteSet(InUse)
  /\ \A i \in InUse : Rank(i) \in 1..Cardinality(InUse)
  /\ \A i, j \in InUse : Rank(i) = Rank(j) => i = j
  /\ \A k \in 1..Cardinality(InUse) : \E i \in InUse : Rank(i) = k
<1> DEFINE n == Cardinality(InUse)
           rank == [i \in InUse |-> Rank(i)]
<1>1. Ids \subseteq Nat /\ IsFiniteSet(Ids)
  BY ConfigBoundsAssumption, FS_Interval DEF Ids
<1>2. IsFiniteSet(InUse) /\ n \in Nat
  <2>1. InUse \subseteq Ids
    BY DEF InUse
  <2> QED
    BY <1>1, <2>1, FS_Subset, FS_CardinalityType
<1>3. ASSUME NEW i \in InUse PROVE Rank(i) \in 1..n
  <2>1. i \in Nat /\ i >= 1 /\ i \in 1..i /\ OldestTo(i) \subseteq InUse /\ i \in OldestTo(i)
    BY ConfigBoundsAssumption DEF InUse, OldestTo, Ids
  <2>2. IsFiniteSet(OldestTo(i)) /\ Rank(i) <= n
    BY <2>1, <1>2, FS_Subset DEF Rank
  <2>3. Rank(i) \in Nat /\ Rank(i) # 0
    BY <2>1, <2>2, FS_CardinalityType, FS_EmptySet DEF Rank
  <2> QED
    BY <1>2, <2>2, <2>3
<1>4. ASSUME NEW i \in InUse, NEW j \in InUse, Rank(i) = Rank(j) PROVE i = j
  <2>1. i \in Nat /\ j \in Nat
    BY <1>1 DEF InUse
  <2>2. Rank(i) \in Nat /\ Rank(j) \in Nat
    BY <1>3, <1>2
  <2>3. ~(i < j) /\ ~(j < i)
    BY <1>4, <2>2, RanksAreDistinct
  <2> QED
    BY <2>1, <2>3
<1>5. rank \in Injection(InUse, 1..n)
  BY <1>3, <1>4 DEF Injection, IsInjective
<1>6. IsFiniteSet(1..n) /\ Cardinality(1..n) = n
  BY <1>2, FS_Interval
<1>7. rank \in Surjection(InUse, 1..n)
  BY <1>2, <1>5, <1>6, FS_Injection
<1>8. \A k \in 1..n : \E i \in InUse : Rank(i) = k
  BY <1>7 DEF Surjection
<1> QED
  BY <1>2, <1>3, <1>4, <1>8

(* BuildSet leaves no active row out and takes no other, whatever ids have *)
(* been deleted in between: the ranks of the active rows by age are        *)
(* exactly 1 to their number.                                              *)
THEOREM TheSetIsTheActiveRows ==
  ASSUME TableInv
  PROVE  /\ ActiveSet \in Seq(Bodies)
         /\ {ActiveSet[k] : k \in DOMAIN ActiveSet} = {rows[i].params : i \in InUse}
<1> DEFINE n == Cardinality(InUse)
           nth(k) == CHOOSE i \in InUse : Rank(i) = k
<1>1. n \in Nat
  BY RanksAreTaken, FS_CardinalityType
<1>2. ActiveSet = [k \in 1..n |-> rows[nth(k)].params]
  BY DEF ActiveSet, InUse, Rank, OldestTo
<1>3. ASSUME NEW k \in 1..n PROVE nth(k) \in InUse /\ Rank(nth(k)) = k
  BY RanksAreTaken
<1>4. ASSUME NEW i \in InUse PROVE rows[i].params \in Bodies
  BY DEF TableInv, InUse, Row
<1>5. ASSUME NEW i \in InUse PROVE Rank(i) \in 1..n /\ nth(Rank(i)) = i
  BY <1>3, RanksAreTaken
<1>6. DOMAIN ActiveSet = 1..n
  BY <1>2
<1>7. \A k \in 1..n : ActiveSet[k] \in Bodies
  BY <1>2, <1>3, <1>4
<1>8. ActiveSet \in Seq(Bodies)
  <2>1. ActiveSet \in [1..n -> Bodies]
    BY <1>2, <1>7
  <2> QED
    BY <1>1, <2>1, SeqDef
<1>9. \A k \in 1..n : ActiveSet[k] = rows[nth(k)].params
  BY <1>2
<1>10. \A k \in 1..n : \E i \in InUse : ActiveSet[k] = rows[i].params
  BY <1>3, <1>9
<1>11. \A i \in InUse : \E k \in 1..n : ActiveSet[k] = rows[i].params
  BY <1>5, <1>9
<1> DEFINE asked == {ActiveSet[k] : k \in DOMAIN ActiveSet}
           params == {rows[i].params : i \in InUse}
<1> HIDE DEF n, nth
<1>12. asked \subseteq params
  BY <1>6, <1>10
<1>13. params \subseteq asked
  BY <1>6, <1>11
<1>14. asked = params
  <2> HIDE DEF asked, params
  <2> QED
    BY <1>12, <1>13
<1> QED
  BY <1>8, <1>14

----------------------------------------------------------------------------
(* A patched row is a row, and the requests leave a table of rows.         *)
LEMMA MergedIsRow ==
  ASSUME NEW row \in Row, NEW p \in Patch
  PROVE  Merged(row, p) \in Row
<1>1. DOMAIN row = {"params", "status"} /\ row.params \in Bodies /\ row.status \in Statuses
  BY DEF Row
<1>2. Merged(row, p) = [f \in {"params", "status"} |->
                          IF p[f] = None THEN row[f] ELSE p[f]]
  BY <1>1 DEF Merged
<1>3. p.params # None => p.params \in Bodies
  BY ParamsAssumption DEF Patch
<1>4. p.status # None => p.status \in Statuses
  BY DEF Patch
<1>5. Merged(row, p) = [params |-> IF p.params = None THEN row.params ELSE p.params,
                        status |-> IF p.status = None THEN row.status ELSE p.status]
  BY <1>2
<1> QED
  BY <1>1, <1>3, <1>4, <1>5 DEF Row

LEMMA AdminKeepsTable ==
  ASSUME TableInv, Admin
  PROVE  TableInv'
<1> USE DEF TableInv
<1>1. CASE CreateSource
  <2>1. PICK p \in Params :
          rows' = [rows EXCEPT ![created'] = [params |-> p, status |-> "active"]]
    BY <1>1 DEF CreateSource
  <2>2. [params |-> p, status |-> "active"] \in Row
    BY ParamsAssumption DEF Row, Statuses
  <2> QED
    BY <1>1, <2>1, <2>2, ConfigBoundsAssumption DEF CreateSource, Ids
<1>2. CASE DeleteSource
  BY <1>2 DEF DeleteSource
<1>3. CASE SetTierRules
  BY <1>3 DEF SetTierRules
<1>4. ASSUME NEW a \in Admins, UpdateGet(a) PROVE TableInv'
  <2>1. PICK id \in Ids, p \in Patch :
          /\ rows[id] # None
          /\ req' = [req EXCEPT ![a] = [id |-> id, row |-> Merged(rows[id], p)]]
    BY <1>4 DEF UpdateGet
  <2>2. Merged(rows[id], p) \in Row
    BY <2>1, MergedIsRow
  <2> QED
    BY <1>4, <2>1, <2>2 DEF UpdateGet
<1>5. ASSUME NEW a \in Admins, UpdateSource(a) PROVE TableInv'
  BY <1>5 DEF UpdateSource, Answered, Idle
<1>6. ASSUME NEW a \in Admins, Abandon(a) PROVE TableInv'
  BY <1>6 DEF Abandon, Answered, Idle
<1> QED
  BY <1>1, <1>2, <1>3, <1>4, <1>5, <1>6 DEF Admin

(* No row comes back: only an id that was never taken gets a new row.      *)
LEMMA AdminDeletesForGood ==
  ASSUME TableInv, Admin, NEW id \in 1..created, rows[id] = None
  PROVE  rows'[id] = None
<1> USE DEF TableInv
<1>1. id \in Ids /\ id # created + 1 /\ created \in Nat
  BY ConfigBoundsAssumption DEF Ids
<1>2. CASE CreateSource
  BY <1>1, <1>2 DEF CreateSource
<1>3. CASE DeleteSource
  BY <1>1, <1>3 DEF DeleteSource
<1>4. CASE SetTierRules
  BY <1>4 DEF SetTierRules
<1>5. ASSUME NEW a \in Admins, UpdateGet(a) \/ UpdateSource(a) \/ Abandon(a)
      PROVE rows'[id] = None
  BY <1>1, <1>5 DEF UpdateGet, UpdateSource, Abandon
<1> QED
  BY <1>2, <1>3, <1>4, <1>5 DEF Admin

----------------------------------------------------------------------------
(* The chain keeps what an evaluation under way has found so far true.     *)
LEMMA AccountMoves ==
  ASSUME AccountInv,
         \/ \E n \in Networks, p \in Pools : Delegates(n, p)
         \/ \E n \in Networks : Deregisters(n) \/ NextEpoch(n)
  PROVE  AccountInv' /\ Watched /\ UNCHANGED configs
<1> USE DEF AccountInv, Account
<1>1. ASSUME NEW n \in Networks, NEW p \in Pools, Delegates(n, p)
      PROVE AccountInv' /\ Watched /\ UNCHANGED configs
  BY <1>1 DEF Delegates
<1>2. ASSUME NEW n \in Networks, Deregisters(n)
      PROVE AccountInv' /\ Watched /\ UNCHANGED configs
  BY <1>2 DEF Deregisters
<1>3. ASSUME NEW n \in Networks, NextEpoch(n)
      PROVE AccountInv' /\ Watched /\ UNCHANGED configs
  BY <1>3 DEF NextEpoch
<1> QED
  BY <1>1, <1>2, <1>3

(* What the chain's move takes from the sources found held throughout, it  *)
(* takes from what is claimed about them.                                  *)
LEMMA WatchedKeeps ==
  ASSUME EvalInv, Watched
  PROVE  EvalInv'
<1>1. ASSUME NEW e \in Evals, eval[e].at # "attest"
      PROVE eval'[e] = eval[e]
  BY <1>1 DEF Watched
<1>2. ASSUME NEW e \in Evals, eval[e].at = "attest"
      PROVE Shape(eval'[e]) /\ eval'[e].at = "attest" /\ AskedInv(eval'[e], account')
  <2> DEFINE v == eval[e]
  <2>0. PICK new : new = eval'[e]
    OBVIOUS
  <2>1. Shape(v) /\ AskedInv(v, account)
    BY <1>2 DEF EvalInv
  <2>2. new = [v EXCEPT
               !.member = Places(v.member, account', {"pending", "active"}),
               !.active = Places(v.active, account', {"active"}),
               !.seen = v.seen \cup Places(v.asked, account', {"pending", "active"})]
    BY <1>2, <2>0 DEF Watched
  <2>3. /\ DOMAIN new = Fields /\ new.at = v.at /\ new.left = v.left
        /\ new.asked = v.asked /\ new.held = v.held /\ new.facts = v.facts
        /\ new.member = Places(v.member, account', {"pending", "active"})
        /\ new.active = Places(v.active, account', {"active"})
        /\ new.seen = v.seen \cup Places(v.asked, account', {"pending", "active"})
    BY <2>1, <2>2 DEF Shape, Fields
  <2>4. new.member \subseteq v.member /\ new.active \subseteq v.active
    BY <2>3 DEF Places
  <2>5. Shape(new)
    BY <2>1, <2>3, <2>4 DEF Shape
  <2>6. /\ new.member \subseteq Places(new.asked, account', {"pending", "active"})
        /\ new.active \subseteq Places(new.asked, account', {"active"})
        /\ Places(new.asked, account', {"pending", "active"}) \subseteq new.seen
    BY <2>1, <2>3 DEF Places, Shape
  <2>7. Left(new) = Left(v)
    BY <2>3 DEF Left
  <2>8. AskedInv(new, account')
    BY <2>1, <2>3, <2>4, <2>6, <2>7 DEF AskedInv, Twice
  <2> QED
    BY <1>2, <2>0, <2>3, <2>5, <2>8
<1>3. DOMAIN eval' = Evals
  BY DEF Watched
<1> QED
  BY <1>1, <1>2, <1>3 DEF EvalInv
----------------------------------------------------------------------------
(* The first rule that matches decides the tier, whatever the rules after  *)
(* it say; without one there is no tier.                                   *)
THEOREM FirstMatchDecides ==
  ASSUME NEW S, NEW given \in Seq(S), NEW facts
  PROVE  /\ \A i \in 1..Len(given) :
              /\ Holds(given[i].when, facts)
              /\ \A k \in 1..i - 1 : ~Holds(given[k].when, facts)
              => Tier(given, facts) = given[i].tier
         /\ (\A i \in 1..Len(given) : ~Holds(given[i].when, facts))
              => Tier(given, facts) = ""
<1> DEFINE matching == {k \in DOMAIN given : Holds(given[k].when, facts)}
<1>1. DOMAIN given = 1..Len(given) /\ Len(given) \in Nat
  OBVIOUS
<1>2. ASSUME NEW i \in 1..Len(given), Holds(given[i].when, facts),
             \A k \in 1..i - 1 : ~Holds(given[k].when, facts)
      PROVE  Tier(given, facts) = given[i].tier
  <2>1. i \in matching
    BY <1>1, <1>2
  <2>2. \A k \in matching : k \in Nat /\ k >= i
    BY <1>1, <1>2
  <2>3. Min(matching) = i
    BY <2>1, <2>2 DEF Min
  <2> QED
    BY <2>1, <2>3 DEF Tier
<1>3. ASSUME \A i \in 1..Len(given) : ~Holds(given[i].when, facts)
      PROVE  Tier(given, facts) = ""
  <2>1. matching = {}
    BY <1>1, <1>3
  <2> QED
    BY <2>1 DEF Tier
<1> QED
  BY <1>2, <1>3

----------------------------------------------------------------------------
(* What an attestation says, and what it changes in the facts.             *)
LEMMA AttestSays ==
  ASSUME NEW a \in Bodies, NEW snap \in Account
  PROVE  LET att == Attest(a, snap) IN
         /\ att.pool = a.pool /\ att.state \in States /\ att.stake \in Nat
         /\ att.held <=> DeriveState(snap, a.pool) \in {"pending", "active"}
         /\ att.state = "active" <=> DeriveState(snap, a.pool) = "active"
         /\ att.state = "active" => att.held
         /\ att.held \in BOOLEAN
  BY DEF Attest, DeriveState, States, Account

(* The facts of one pool id are replaced, those of the others are not.     *)
LEMMA UnionSets ==
  ASSUME NEW facts \in FactMaps,
         NEW att, att.pool \in PoolIds, att.state \in States, att.stake \in Nat
  PROVE  /\ Union(facts, att) \in FactMaps
         /\ Union(facts, att)[att.pool].state = att.state
         /\ \A id \in PoolIds \ {att.pool} : Union(facts, att)[id] = facts[id]
  BY DEF Union, FactMaps

(* One evaluation moves, the others and the chain do not.                  *)
LEMMA OneEvaluates ==
  ASSUME EvalInv, NEW e \in Evals, NEW new, eval' = [eval EXCEPT ![e] = new],
         UNCHANGED account, Shape(new),
         new.at = "attest" => AskedInv(new, account),
         new.at = "answered" => Deserved(new)
  PROVE  EvalInv'
<1>1. eval'[e] = new
  BY DEF EvalInv
<1>2. \A d \in Evals \ {e} : eval'[d] = eval[d]
  BY DEF EvalInv
<1>3. DOMAIN eval' = Evals
  BY DEF EvalInv
<1> QED
  BY <1>1, <1>2, <1>3 DEF EvalInv

(* An evaluation at rest.                                                  *)
LEMMA NothingIsActive ==
  NoFacts \in FactMaps /\ ~AnyActive(NoFacts)
  BY DEF NoFacts, AnyActive, FactMaps

LEMMA RestingHasShape == Shape(Resting) /\ Resting.at = "idle"
<1>1. <<>> \in Seq(Bodies)
  OBVIOUS
<1> QED
  BY <1>1, NothingIsActive DEF Shape, Resting, Fields

(* The steps of an evaluation.                                             *)
LEMMA BeginKeeps ==
  ASSUME TableInv, AccountInv, EvalInv, NEW e \in Evals, Begin(e)
  PROVE  EvalInv'
<1> DEFINE asked == {ActiveSet[k] : k \in DOMAIN ActiveSet}
           members == Places(asked, account, {"pending", "active"})
           actives == Places(asked, account, {"active"})
<1>1. PICK new : new = [Resting EXCEPT !.at = "attest", !.left = ActiveSet, !.asked = asked,
                                   !.member = members, !.seen = members,
                                   !.active = actives]
  OBVIOUS
<1>2. eval' = [eval EXCEPT ![e] = new] /\ UNCHANGED account
  BY <1>1 DEF Begin, chain
<1>3. /\ DOMAIN new = Fields /\ new.at = "attest" /\ new.left = ActiveSet
      /\ new.asked = asked /\ new.held = FALSE /\ new.facts = NoFacts
      /\ new.member = members /\ new.active = actives /\ new.seen = members
  <2> HIDE DEF asked, members, actives
  <2> QED
    BY <1>1 DEF Resting, Fields
<1>4. ActiveSet \in Seq(Bodies) /\ asked \subseteq Bodies
  BY TheSetIsTheActiveRows
<1>5. Left(new) = asked
  BY <1>3 DEF Left
<1> HIDE DEF asked
<1>6. members \subseteq asked /\ actives \subseteq asked
  BY DEF Places
<1>7. Shape(new)
  BY <1>3, <1>4, <1>6, NothingIsActive DEF Shape
<1>8. AskedInv(new, account)
  BY <1>3, <1>5, <1>6, NothingIsActive DEF AskedInv
<1> QED
  BY <1>2, <1>3, <1>7, <1>8, OneEvaluates

LEMMA AttestKeeps ==
  ASSUME AccountInv, EvalInv, NEW e \in Evals, AttestNext(e)
  PROVE  EvalInv'
<1> DEFINE v == eval[e]
<1>1. Shape(v) /\ AskedInv(v, account) /\ v.left # <<>> /\ v.at = "attest"
  BY DEF EvalInv, AttestNext
<1>2. PICK a : a = Head(v.left)
  OBVIOUS
<1>3. PICK att : att = Attest(a, account[a.network])
  OBVIOUS
<1>4. /\ v.left \in Seq(Bodies) /\ a \in Bodies /\ Tail(v.left) \in Seq(Bodies)
      /\ a \in Left(v)
      /\ \A p \in Left(v) : p = a \/ p \in {Tail(v.left)[k] : k \in DOMAIN Tail(v.left)}
      /\ {Tail(v.left)[k] : k \in DOMAIN Tail(v.left)} \subseteq Left(v)
  <2>1. v.left \in Seq(Bodies) /\ v.left # <<>>
    BY <1>1 DEF Shape
  <2>2. DOMAIN v.left = 1..Len(v.left) /\ Len(v.left) \in Nat \ {0} /\ a = v.left[1]
    BY <1>2, <2>1
  <2>3. /\ Tail(v.left) \in Seq(Bodies) /\ DOMAIN Tail(v.left) = 1..Len(v.left) - 1
        /\ \A k \in 1..Len(v.left) - 1 : Tail(v.left)[k] = v.left[k + 1]
    BY <2>1, <2>2
  <2>4. \A k \in 2..Len(v.left) :
          k - 1 \in 1..Len(v.left) - 1 /\ Tail(v.left)[k - 1] = v.left[k]
    BY <2>2, <2>3
  <2>5. ASSUME NEW k \in DOMAIN v.left
        PROVE  v.left[k] = a \/ \E i \in DOMAIN Tail(v.left) : v.left[k] = Tail(v.left)[i]
    <3>1. k = 1 \/ k \in 2..Len(v.left)
      BY <2>2
    <3> QED
      BY <2>2, <2>3, <2>4, <3>1
  <2>6. ASSUME NEW i \in DOMAIN Tail(v.left)
        PROVE  i + 1 \in DOMAIN v.left /\ Tail(v.left)[i] = v.left[i + 1]
    BY <2>2, <2>3
  <2>7. a \in Bodies /\ 1 \in DOMAIN v.left
    BY <2>1, <2>2
  <2>8. a \in Left(v)
    BY <2>2, <2>7 DEF Left
  <2>9. \A p \in Left(v) : p = a \/ p \in {Tail(v.left)[k] : k \in DOMAIN Tail(v.left)}
    BY <2>5 DEF Left
  <2>10. {Tail(v.left)[k] : k \in DOMAIN Tail(v.left)} \subseteq Left(v)
    BY <2>6 DEF Left
  <2> QED
    BY <2>1, <2>3, <2>7, <2>8, <2>9, <2>10
<1>5. PICK new : new = [v EXCEPT !.left = Tail(v.left), !.held = v.held \/ att.held,
                             !.facts = Union(v.facts, att)]
  OBVIOUS
<1>6. eval' = [eval EXCEPT ![e] = new] /\ UNCHANGED account
  BY <1>2, <1>3, <1>5 DEF AttestNext, EvalInv, chain
<1>7. /\ DOMAIN new = Fields /\ new.at = v.at /\ new.left = Tail(v.left)
      /\ new.asked = v.asked /\ new.held = (v.held \/ att.held)
      /\ new.facts = Union(v.facts, att) /\ new.member = v.member
      /\ new.active = v.active /\ new.seen = v.seen
  BY <1>1, <1>5 DEF Shape, Fields
<1>8. account[a.network] \in Account /\ a.pool \in PoolIds
  BY <1>4 DEF AccountInv, Bodies
<1>9. /\ att.pool = a.pool /\ att.state \in States /\ att.stake \in Nat
      /\ att.held <=> DeriveState(account[a.network], a.pool) \in {"pending", "active"}
      /\ att.state = "active" <=> DeriveState(account[a.network], a.pool) = "active"
      /\ att.state = "active" => att.held
      /\ att.held \in BOOLEAN
  BY <1>3, <1>4, <1>8, AttestSays
<1>10. /\ new.facts \in FactMaps
      /\ new.facts[a.pool].state = att.state
      /\ \A id \in PoolIds \ {a.pool} : new.facts[id] = v.facts[id]
  <2>1. att.pool \in PoolIds /\ att.state \in States /\ att.stake \in Nat
    BY <1>8, <1>9
  <2>2. v.facts \in FactMaps
    BY <1>1 DEF Shape
  <2>3. new.facts = Union(v.facts, att)
    BY <1>7
  <2>4. att.pool = a.pool
    BY <1>9
  <2>5. /\ Union(v.facts, att) \in FactMaps
        /\ Union(v.facts, att)[att.pool].state = att.state
        /\ \A id \in PoolIds \ {att.pool} : Union(v.facts, att)[id] = v.facts[id]
    <3> HIDE DEF v
    <3> QED
      BY ONLY <2>1, <2>2, UnionSets
  <2> QED
    BY <2>3, <2>4, <2>5
<1>11. Shape(new)
  BY <1>1, <1>4, <1>7, <1>9, <1>10 DEF Shape
<1>12. Left(new) = {Tail(v.left)[k] : k \in DOMAIN Tail(v.left)}
  BY <1>7 DEF Left
<1>13. \A p \in new.member : p \in Left(new) \/ new.held
  <2>1. ASSUME NEW p \in v.member, p = a PROVE att.held
    BY <1>1, <1>9, <2>1 DEF AskedInv, Places
  <2> QED
    BY <1>1, <1>4, <1>7, <1>12, <2>1 DEF AskedInv
<1>14. \A p \in new.active :
         p \in Left(new) \/ new.facts[p.pool].state = "active" \/ Twice(new, p)
  <2> SUFFICES ASSUME NEW p \in v.active
               PROVE  p \in Left(new) \/ new.facts[p.pool].state = "active" \/ Twice(new, p)
    BY <1>7
  <2>1. p \in v.asked /\ p.pool \in PoolIds /\ a \in v.asked
    BY <1>1, <1>4 DEF Shape, AskedInv, Bodies
  <2>2. CASE p = a
    BY <1>1, <1>9, <1>10, <2>2 DEF AskedInv, Places
  <2>3. CASE p # a /\ p.pool = a.pool
    BY <1>7, <2>1, <2>3 DEF Twice
  <2>4. CASE p # a /\ p.pool # a.pool
    <3>1. new.facts[p.pool] = v.facts[p.pool]
      BY <1>10, <2>1, <2>4
    <3> QED
      BY <1>1, <1>4, <1>7, <1>12, <2>4, <3>1 DEF AskedInv, Twice
  <2> QED
    BY <2>2, <2>3, <2>4
<1>15. new.held => new.seen # {}
  <2>1. att.held => a \in v.seen
    BY <1>1, <1>4, <1>9 DEF AskedInv, Places
  <2> QED
    BY <1>1, <1>7, <2>1 DEF AskedInv
<1>16. AnyActive(new.facts) => new.held
  BY <1>1, <1>7, <1>9, <1>10 DEF AnyActive, AskedInv
<1>17. AskedInv(new, account)
  BY <1>1, <1>4, <1>7, <1>12, <1>13, <1>14, <1>15, <1>16 DEF AskedInv
<1> QED
  BY <1>1, <1>7, <1>6, <1>11, <1>17, OneEvaluates

LEMMA ConcludeKeeps ==
  ASSUME EvalInv, NEW e \in Evals, Conclude(e)
  PROVE  EvalInv'
<1> DEFINE v == eval[e]
           state == RepresentativeState(v.held, v.facts)
<1>1. Shape(v) /\ AskedInv(v, account) /\ Left(v) = {} /\ v.at = "attest"
  <2>1. v.at = "attest" /\ v.left = <<>>
    BY DEF Conclude
  <2>2. Left(v) = {}
    BY <2>1 DEF Left
  <2> QED
    BY <2>1, <2>2 DEF EvalInv
<1> DEFINE tier == IF state = "none" THEN "" ELSE Tier(rules, v.facts)
<1>2. PICK new : new = [v EXCEPT !.at = "answered", !.state = state, !.tier = tier]
  OBVIOUS
<1>3. eval' = [eval EXCEPT ![e] = new] /\ UNCHANGED account
  BY <1>2 DEF Conclude, EvalInv, chain
<1>4. /\ DOMAIN new = Fields /\ new.at = "answered" /\ new.left = v.left
      /\ new.asked = v.asked /\ new.held = v.held /\ new.facts = v.facts
      /\ new.state = state /\ new.tier = tier /\ new.member = v.member
      /\ new.active = v.active /\ new.seen = v.seen
  <2> HIDE DEF state, tier
  <2> QED
    BY <1>1, <1>2 DEF Shape, Fields
<1>5. Shape(new)
  BY <1>1, <1>4 DEF Shape
<1>6. v.member # {} => v.held
  BY <1>1 DEF AskedInv
<1>7. \A p \in v.active : AnyActive(v.facts) \/ Twice(v, p)
  <2>1. \A p \in v.active : p.pool \in PoolIds
    BY <1>1 DEF Shape, Bodies
  <2> QED
    BY <1>1, <2>1 DEF AskedInv, AnyActive
<1>8. AnyActive(v.facts) => v.held
  BY <1>1 DEF AskedInv
<1>9. /\ AnyActive(v.facts) => state = "active"
      /\ ~AnyActive(v.facts) /\ v.held => state = "pending"
      /\ ~AnyActive(v.facts) /\ ~v.held => state = "none"
  BY DEF RepresentativeState
<1>10. v.held => v.seen # {}
  BY <1>1 DEF AskedInv
<1> HIDE DEF state
<1>11. v.active # {} => state = "active"
         \/ \E p, q \in v.asked : p # q /\ p.pool = q.pool
  BY <1>1, <1>7, <1>9 DEF Twice, Shape
<1>12. Deserved(new)
  BY <1>4, <1>6, <1>8, <1>9, <1>10, <1>11 DEF Deserved
<1> QED
  BY <1>4, <1>3, <1>5, <1>12, OneEvaluates

LEMMA EndKeeps ==
  ASSUME EvalInv, NEW e \in Evals, EndEvaluation(e)
  PROVE  EvalInv'
  BY RestingHasShape, OneEvaluates DEF EndEvaluation, chain

LEMMA ConfigInitInv == ConfigInit => ConfigInv
<1> SUFFICES ASSUME ConfigInit PROVE ConfigInv
  OBVIOUS
<1>1. TableInv
  <2>1. rows \in [Ids -> Row \cup {None}]
    BY FirstAssumption DEF ConfigInit
  <2>2. IsFiniteSet(Ids) /\ Cardinality(Ids) = MaxIds
    BY ConfigBoundsAssumption, FS_Interval DEF Ids
  <2>3. created \in 0..MaxIds
    <3>1. created = Cardinality({i \in Ids : rows[i] # None})
      BY DEF ConfigInit
    <3> QED
      BY <2>2, <3>1, FS_Subset, FS_CardinalityType, ConfigBoundsAssumption
  <2>4. req \in [Admins -> [id : Ids \cup {0}, row : Row \cup {None}]]
    BY DEF ConfigInit, Idle
  <2> QED
    BY <2>1, <2>3, <2>4 DEF TableInv
<1>2. AccountInv
  BY AccountsAssumption DEF ConfigInit, AccountInv
<1>3. EvalInv
  BY RestingHasShape DEF ConfigInit, EvalInv
<1> QED
  BY <1>1, <1>2, <1>3 DEF ConfigInv

LEMMA ConfigNextInv == ConfigInv /\ [ConfigNext]_configVars => ConfigInv'
<1> SUFFICES ASSUME ConfigInv, [ConfigNext]_configVars PROVE ConfigInv'
  OBVIOUS
<1> USE DEF ConfigInv
<1>1. CASE Admin /\ UNCHANGED <<chain, eval>>
  BY <1>1, AdminKeepsTable DEF AccountInv, EvalInv, chain
<1>2. CASE \/ \E n \in Networks, p \in Pools : Delegates(n, p)
           \/ \E n \in Networks : Deregisters(n) \/ NextEpoch(n)
  BY <1>2, AccountMoves, WatchedKeeps DEF TableInv, configs
<1>3. ASSUME NEW e \in Evals, Begin(e) PROVE ConfigInv'
  BY <1>3, BeginKeeps DEF Begin, TableInv, AccountInv, configs, chain
<1>4. ASSUME NEW e \in Evals, AttestNext(e) PROVE ConfigInv'
  BY <1>4, AttestKeeps DEF AttestNext, TableInv, AccountInv, configs, chain
<1>5. ASSUME NEW e \in Evals, Conclude(e) PROVE ConfigInv'
  BY <1>5, ConcludeKeeps DEF Conclude, TableInv, AccountInv, configs, chain
<1>6. ASSUME NEW e \in Evals, EndEvaluation(e) PROVE ConfigInv'
  BY <1>6, EndKeeps DEF EndEvaluation, TableInv, AccountInv, configs, chain
<1>7. CASE UNCHANGED configVars
  BY <1>7 DEF configVars, configs, chain, TableInv, AccountInv, EvalInv
<1> QED
  BY <1>1, <1>2, <1>3, <1>4, <1>5, <1>6, <1>7 DEF ConfigNext

(* The table is one of rows, and every evaluation under way is on its way  *)
(* to a deserved verdict.                                                  *)
THEOREM ConfigInvariance == ConfigSpec => []ConfigInv
  BY ConfigInitInv, ConfigNextInv, PTL DEF ConfigSpec

(* Whatever administrators and the chain do between two of its sources, an *)
(* evaluation denies nobody who was a member at one of them throughout,    *)
(* calls active whoever was active at one throughout unless a source of    *)
(* the same pool id overwrote it, and admits nobody who was never a member *)
(* at any.                                                                 *)
THEOREM VerdictsAreAlwaysDeserved == ConfigSpec => []VerdictsAreDeserved
<1>1. ConfigInv => VerdictsAreDeserved
  BY DEF ConfigInv, EvalInv, Deserved, VerdictsAreDeserved
<1> QED
  BY <1>1, ConfigInvariance, PTL

(* An update that read the row of a source before the source was deleted   *)
(* does not bring it back, and no new source takes its id.                 *)
THEOREM DeletedSourcesStayDeleted == ConfigSpec => DeletedStaysDeleted
<1>1. ConfigInv /\ [ConfigNext]_configVars
        => [\A id \in 1..created : rows[id] = None => rows'[id] = None]_configVars
  <2> SUFFICES ASSUME ConfigInv, [ConfigNext]_configVars, NEW id \in 1..created, rows[id] = None
               PROVE  rows'[id] = None
    OBVIOUS
  <2>1. CASE Admin
    BY <2>1, AdminDeletesForGood DEF ConfigInv
  <2>2. CASE UNCHANGED configs
    BY <2>2 DEF configs
  <2>3. Admin \/ UNCHANGED configs
    BY DEF ConfigNext, configVars, Delegates, Deregisters, NextEpoch, Begin,
           AttestNext, Conclude, EndEvaluation
  <2> QED
    BY <2>1, <2>2, <2>3
<1> QED
  BY <1>1, ConfigInvariance, PTL DEF ConfigSpec, DeletedStaysDeleted
============================================================================
