---------------------------- MODULE PushDelivery ----------------------------
(***************************************************************************)
(* Broadcasts: the owner creates push jobs, one worker picks the scheduled *)
(* ones up in batches, lists the subscriptions a job is aimed at, sends to *)
(* each with retries, logs each delivery and closes the job.  Every store  *)
(* call and every send runs under the process's context, which a shutdown  *)
(* cancels.                                                                *)
(*                                                                         *)
(* Deliveries are to subscriptions, the rows of SubscriptionSession, whose *)
(* key is an instance and a channel user: one user may hold a subscription *)
(* at every instance, and a job for all instances is sent to each of them. *)
(*                                                                         *)
(* A job's target names at most one tier, topic and entitlement; all three *)
(* are tags here, and so are a session's tier, topics and entitlements,    *)
(* which stay what they are.  The channel type is the one there is, so     *)
(* that a job is aimed at one channel instance or at all of them.  An      *)
(* instance disabled after the job was created delivers it all the same.   *)
(***************************************************************************)
EXTENDS Integers, Sequences, FiniteSets

CONSTANTS
  Sessions,     \* subscriptions
  Home,         \* the channel instance of each subscription
  Owner,        \* the channel user of each subscription
  TagsOf,       \* tier, topics and entitlements of each subscription
  Aims,         \* scopes and wanted tags of jobs
  All,          \* the scope of a job for all instances
  MaxJobs,      \* bound: jobs created
  MaxAttempts,  \* sends for one recipient
  MaxFaults,    \* bound: store failures, lost answers, stops and restarts
  Batch         \* jobs picked up at once

Channels == {Home[s] : s \in Sessions}
Jobs == 1..MaxJobs

ASSUME KeyAssumption ==
  /\ Home \in [Sessions -> Channels]
  /\ \A s, t \in Sessions : Home[s] = Home[t] /\ Owner[s] = Owner[t] => s = t
ASSUME AllAssumption == All \notin Channels
ASSUME AimsAssumption ==
  Aims \subseteq [scope : Channels \cup {All},
                  wants : SUBSET UNION {TagsOf[s] : s \in Sessions}]
ASSUME BoundsAssumption ==
  {MaxJobs, MaxAttempts, Batch} \subseteq Nat \ {0} /\ MaxFaults \in Nat

VARIABLES
  job,   \* the PushJob rows in order of creation: status, aim
  sub,   \* the active subscriptions
  inst,  \* the channel instances with a row, of those jobs are aimed at
  up,    \* the process: "up", or "stopping" with its context cancelled
  w,     \* the worker
  log,   \* the DeliveryLog
  got,   \* history: messages of each job sent to each subscription's user
  faults, \* store failures, lost answers, stops and restarts so far
  lost,  \* history: those of them whose answer was lost
  quit   \* history: jobs not yet picked up when each subscription ended

table == <<job, sub, inst>>
history == <<got, lost, quit>>
vars == <<job, sub, inst, up, w, log, faults, history>>

Rows == [status : {"scheduled", "running", "done", "failed"},
         aim : Aims]

Polling == [at |-> "poll", batch |-> {}, job |-> 0, todo |-> {}, session |-> 0,
            tries |-> 0, ok |-> FALSE, sent |-> FALSE, failed |-> FALSE]

Workers == [at : {"poll", "next", "route", "list", "send", "try", "log"},
            batch : SUBSET Jobs, job : 0..MaxJobs, todo : SUBSET Sessions,
            session : Sessions \cup {0}, tries : 0..MaxAttempts,
            ok : BOOLEAN, sent : BOOLEAN, failed : BOOLEAN]

Entries == [job : Jobs, session : Sessions, retries : Int, status : {"sent", "failed"}]

(* The worker after the jobs before b in its batch.                        *)
Proceed(b) ==
  IF b = {} THEN Polling ELSE [Polling EXCEPT !.at = "next", !.batch = b]

(* The next job of a batch is the oldest.                                  *)
Oldest(j) == j \in w.batch /\ \A i \in w.batch : j <= i

Scheduled == {j \in DOMAIN job : job[j].status = "scheduled"}
----------------------------------------------------------------------------
Init ==
  /\ job = <<>>
  /\ sub \in SUBSET Sessions
  /\ inst = {c \in Channels : \E aim \in Aims : aim.scope = c}
  /\ up = "up"
  /\ w = Polling
  /\ log = {}
  /\ got = [j \in Jobs |-> [s \in Sessions |-> 0]]
  /\ lost = got
  /\ faults = 0
  /\ quit = [s \in Sessions |-> IF s \in sub THEN {} ELSE Jobs]

(* A failure, of the store or of the network, or the end of the process.   *)
Fault == faults < MaxFaults /\ faults' = faults + 1

(* Under a cancelled context nothing more has to go wrong.                 *)
Cancelled == up = "stopping" /\ UNCHANGED faults

(* The owner creates a job for all instances or for an active one.         *)
Create(aim) ==
  /\ Len(job) < MaxJobs
  /\ aim.scope \in inst \cup {All}
  /\ job' = Append(job, [status |-> "scheduled", aim |-> aim])
  /\ UNCHANGED <<sub, inst, up, w, log, faults, history>>

SetStatus(j, st) == job' = [job EXCEPT ![j].status = st]

(* The bot and the reconciler activate and end subscriptions.              *)
Activate(s) ==
  /\ s \notin sub /\ sub' = sub \cup {s}
  /\ quit' = [quit EXCEPT ![s] = {}]
  /\ UNCHANGED <<job, inst, up, w, log, faults, got, lost>>

End(s) ==
  /\ s \in sub /\ sub' = sub \ {s}
  /\ quit' = [quit EXCEPT ![s] = Scheduled \cup (Len(job) + 1)..MaxJobs]
  /\ UNCHANGED <<job, inst, up, w, log, faults, got, lost>>

(* The owner deletes a channel instance.                                   *)
Delete(c) ==
  /\ c \in inst /\ inst' = inst \ {c}
  /\ UNCHANGED <<job, sub, up, w, log, faults, history>>

----------------------------------------------------------------------------
(* The worker lists the oldest scheduled jobs, at most a batch of them.    *)
(* When the listing fails it tries again at the next tick.                 *)
ListScheduled ==
  /\ w.at = "poll" /\ up = "up" /\ Scheduled # {}
  /\ \E due \in SUBSET Scheduled :
       /\ \A i \in due, j \in Scheduled \ due : i < j
       /\ due = Scheduled \/ Cardinality(due) = Batch
       /\ Cardinality(due) <= Batch
       /\ w' = Proceed(due)
  /\ UNCHANGED <<table, up, log, faults, history>>

(* Mutant: the job is closed at the end only.                              *)
Start_NotMarked(j) ==
  /\ w.at = "next" /\ up = "up" /\ Oldest(j)
  /\ w' = [w EXCEPT !.at = "route", !.job = j, !.batch = @ \ {j}]
  /\ UNCHANGED <<table, up, log, faults, history>>

(* A job is marked running before anything else.                           *)
Start(j) ==
  /\ w.at = "next" /\ up = "up" /\ Oldest(j)
  /\ SetStatus(j, "running")
  /\ w' = [w EXCEPT !.at = "route", !.job = j, !.batch = @ \ {j}]
  /\ UNCHANGED <<sub, inst, up, log, faults, history>>

(* Mutant: the error ends the worker.                                      *)
StartFails_Returns(j) ==
  /\ w.at = "next" /\ up = "up" /\ Oldest(j)
  /\ w' = [Polling EXCEPT !.at = "gone"]
  /\ Fault
  /\ UNCHANGED <<table, up, log, history>>

(* If that fails the job stays scheduled.                                  *)
StartFails(j) ==
  /\ w.at = "next" /\ up = "up" /\ Oldest(j)
  /\ w' = Proceed(w.batch \ {j})
  /\ Fault
  /\ UNCHANGED <<table, up, log, history>>

(* The sender of a scoped job needs its instance's row, disabled or not;   *)
(* the sender for all instances is always there.                           *)
Route ==
  /\ w.at = "route"
  /\ job[w.job].aim.scope \in inst \cup {All}
  /\ w' = [w EXCEPT !.at = "list"]
  /\ UNCHANGED <<table, up, log, faults, history>>

RouteFails ==
  /\ w.at = "route" /\ job[w.job].aim.scope # All
  /\ \/ job[w.job].aim.scope \in inst /\ Fault
     \/ job[w.job].aim.scope \notin inst /\ UNCHANGED faults
  /\ \/ up = "up" /\ SetStatus(w.job, "failed")
     \/ up = "stopping" /\ UNCHANGED job
  /\ w' = Proceed(w.batch)
  /\ UNCHANGED <<sub, inst, up, log, history>>

(* The candidates are those at the job's instance, or at any, the filter   *)
(* is by tags; several subscriptions of one user are as many recipients.   *)
InScope(j, s) == job[j].aim.scope \in {All, Home[s]}
Matches(j, s) == job[j].aim.wants \subseteq TagsOf[s]

(* Mutant: a subscription that ended is a candidate too.                   *)
ListActive_AnyStatus ==
  /\ w.at = "list" /\ up = "up"
  /\ w' = [w EXCEPT !.at = "send", !.todo = {s \in Sessions : InScope(w.job, s) /\ Matches(w.job, s)}]
  /\ UNCHANGED <<table, up, log, faults, history>>

(* The candidates are the subscriptions active now.                        *)
ListActive ==
  /\ w.at = "list" /\ up = "up"
  /\ w' = [w EXCEPT !.at = "send",
                    !.todo = {s \in sub : InScope(w.job, s) /\ Matches(w.job, s)}]
  /\ UNCHANGED <<table, up, log, faults, history>>

(* A failed listing leaves the job running.                                *)
ListFails ==
  /\ w.at = "list"
  /\ w' = Proceed(w.batch)
  /\ Cancelled \/ Fault
  /\ UNCHANGED <<table, up, log, history>>

----------------------------------------------------------------------------
(* The recipients, one subscription after the other, unless the process is *)
(* stopping.                                                               *)
Recipient(s) ==
  /\ w.at = "send" /\ up = "up" /\ s \in w.todo
  /\ w' = [w EXCEPT !.at = "try", !.session = s, !.todo = @ \ {s}, !.tries = 0]
  /\ UNCHANGED <<table, up, log, faults, history>>

Reach(j, s) == got' = [got EXCEPT ![j][s] = @ + 1]

Send ==
  /\ w.at = "try" /\ up = "up"
  /\ Reach(w.job, w.session)
  /\ w' = [w EXCEPT !.at = "log", !.tries = @ + 1, !.ok = TRUE]
  /\ UNCHANGED <<table, up, log, faults, lost, quit>>

(* The last failed attempt is logged, any other one repeated.              *)
Retry ==
  w' = [w EXCEPT !.tries = @ + 1, !.ok = FALSE,
                 !.at = IF w.tries + 1 < MaxAttempts THEN "try" ELSE "log"]

(* A send fails, and is tried again after a pause.                         *)
SendFails ==
  /\ w.at = "try" /\ up = "up"
  /\ Retry
  /\ UNCHANGED <<table, up, log, faults, history>>

(* The message arrives, but its answer does not.                           *)
AnswerLost ==
  /\ w.at = "try" /\ up = "up"
  /\ Reach(w.job, w.session)
  /\ lost' = [lost EXCEPT ![w.job][w.session] = @ + 1]
  /\ Retry
  /\ Fault
  /\ UNCHANGED <<table, up, log, quit>>

(* The shutdown ends the wait for the rate limit or between two attempts,  *)
(* or the attempt.                                                         *)
GiveUp ==
  /\ w.at = "try" /\ up = "stopping"
  /\ w' = [w EXCEPT !.at = "log", !.ok = FALSE]
  /\ UNCHANGED <<table, up, log, faults, history>>

(* The next recipient starts over; only the two counts are carried along.  *)
Counted ==
  w' = [w EXCEPT !.at = "send", !.session = 0, !.tries = 0, !.ok = FALSE,
                 !.sent = @ \/ w.ok, !.failed = @ \/ ~w.ok]

Entry == [job |-> w.job, session |-> w.session, retries |-> w.tries - 1,
          status |-> IF w.ok THEN "sent" ELSE "failed"]

(* Mutant: the log is written though the process is stopping.              *)
AppendLog_Detached ==
  /\ w.at = "log"
  /\ log' = log \cup {Entry}
  /\ Counted
  /\ UNCHANGED <<table, up, faults, history>>

AppendLog ==
  /\ w.at = "log" /\ up = "up"
  /\ log' = log \cup {Entry}
  /\ Counted
  /\ UNCHANGED <<table, up, faults, history>>

LogFails ==
  /\ w.at = "log"
  /\ Counted
  /\ Cancelled \/ Fault
  /\ UNCHANGED <<table, up, log, history>>

Over == w.at = "send" /\ (w.todo = {} \/ up = "stopping")

(* Mutant: the final status is written though the process is stopping.     *)
Close_Detached ==
  /\ Over
  /\ SetStatus(w.job, IF w.failed /\ ~w.sent THEN "failed" ELSE "done")
  /\ w' = Proceed(w.batch)
  /\ UNCHANGED <<sub, inst, up, log, faults, history>>

(* The job failed if every send failed, and there was one.                 *)
Close ==
  /\ Over /\ up = "up"
  /\ SetStatus(w.job, IF w.failed /\ ~w.sent THEN "failed" ELSE "done")
  /\ w' = Proceed(w.batch)
  /\ UNCHANGED <<sub, inst, up, log, faults, history>>

(* Under a cancelled context, or by a failure, the job stays running.      *)
CloseFails ==
  /\ Over
  /\ w' = Proceed(w.batch)
  /\ Cancelled \/ Fault
  /\ UNCHANGED <<table, up, log, history>>

(* The context is cancelled; the worker stops before its next job.         *)
Shutdown ==
  /\ up = "up" /\ up' = "stopping"
  /\ Fault
  /\ UNCHANGED <<table, w, log, history>>

(* The process ends, in whatever state it is, and is started again.        *)
Restart ==
  /\ up' = "up"
  /\ w' = Polling
  /\ Cancelled \/ Fault
  /\ UNCHANGED <<table, log, history>>

Work ==
  \/ ListScheduled \/ (\E j \in Jobs : Start(j) \/ StartFails(j))
  \/ Route \/ RouteFails
  \/ ListActive \/ ListFails
  \/ \E s \in Sessions : Recipient(s)
  \/ Send \/ SendFails \/ AnswerLost \/ GiveUp
  \/ AppendLog \/ LogFails \/ Close \/ CloseFails

Next ==
  \/ \E aim \in Aims : Create(aim)
  \/ \E s \in Sessions : End(s) \/ Activate(s)
  \/ \E c \in Channels : Delete(c)
  \/ Work \/ Shutdown \/ Restart

(* The worker runs.                                                        *)
Spec == Init /\ [][Next]_vars /\ WF_vars(Work)

----------------------------------------------------------------------------
(* Every variable is in its domain.                                        *)
TypeOK ==
  /\ job \in Seq(Rows) /\ Len(job) <= MaxJobs
  /\ sub \subseteq Sessions /\ inst \subseteq Channels
  /\ up \in {"up", "stopping"}
  /\ w \in Workers /\ log \subseteq Entries
  /\ faults \in 0..MaxFaults
  /\ got \in [Jobs -> [Sessions -> Nat]] /\ lost \in [Jobs -> [Sessions -> Nat]]
  /\ quit \in [Sessions -> SUBSET Jobs]

(* A job's message is sent for a subscription once, and once more for each *)
(* answer that was lost, whatever crashes and restarts happen.  A user who *)
(* is subscribed at several instances gets a job for all of them once for  *)
(* each of his subscriptions, and a job for a single instance once for the *)
(* subscription he has there and for no other.                             *)
SentOnce ==
  /\ \A j \in Jobs, s \in Sessions : got[j][s] <= lost[j][s] + 1
  /\ \A j \in DOMAIN job, s, t \in Sessions :
       job[j].aim.scope # All /\ Owner[s] = Owner[t] /\ got[j][s] > 0 /\ got[j][t] > 0
         => s = t

(* The delivery log tells the truth: at most one entry for a job and       *)
(* subscription; a sent one reached its user, a failed one only through a  *)
(* lost answer, and the retries are those of its attempts.                 *)
LogIsTruthful ==
  /\ \A d, e \in log : d.job = e.job /\ d.session = e.session => d = e
  /\ \A d \in log :
       /\ d.retries \in 0..(MaxAttempts - 1)
       /\ d.status = "sent" => got[d.job][d.session] = lost[d.job][d.session] + 1
       /\ d.status = "failed" => got[d.job][d.session] = lost[d.job][d.session]

(* A job is called done once nobody is left to be sent to, and failed only *)
(* if no answer said that somebody was reached.  (todo is what is left.)   *)
VerdictIsEarned ==
  [][\A j \in DOMAIN job : job'[j].status # job[j].status =>
       /\ job'[j].status = "done" => w.todo = {}
       /\ job'[j].status = "failed" =>
            \A s \in Sessions : got[j][s] = lost[j][s]]_vars

(* Nothing of a job is sent for a subscription that ended before the job   *)
(* was picked up, unless it was activated again.                           *)
LeaversAreSpared ==
  [][\A j \in Jobs, s \in Sessions : got'[j][s] > got[j][s] => j \notin quit[s]]_vars

(* Every job is picked up and then done, failed, or given up while running *)
(* for good: the worker catches up again and again, unless the process     *)
(* stops for good.                                                         *)
WorkerCatchesUp ==
  []<>(Scheduled = {} /\ w.at = "poll") \/ <>[](up = "stopping")
=============================================================================
