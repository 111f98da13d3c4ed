----------------------------- MODULE BotsProofs -----------------------------
(***************************************************************************)
(* Proofs about Bots, for any sets of instances and workers.               *)
(***************************************************************************)
EXTENDS Bots, TLAPS

(* A request under way is about an instance there was, and its step is one *)
(* of its kind.  Before the row goes, its subscription was cancelled.      *)
RequestInv ==
  /\ \A op \in Ops : req[op] # Idle =>
       /\ req[op].inst \in made
       /\ op = "delete" => req[op].step \in {"cancel", "delete"}
       /\ op # "delete" => req[op].step \in {"active", "disabled"}
  /\ \A i \in Instances :
       req["delete"] = [inst |-> i, step |-> "delete"] => sub[i] # "active"

(* What is before a worker's batch, and before its offset, was handled, as *)
(* long as the worker is not cancelled.                                    *)
Ahead(k) ==
  LET i == worker[k].inst IN
  /\ \E a, b \in Nat : worker[k].batch = a..b
  /\ \A u \in worker[k].batch : 1 <= u /\ u <= queue[i].sent
  /\ worker[k].offset <= queue[i].sent + 1
  /\ worker[k].live =>
       /\ 1..(worker[k].offset - 1) \subseteq served[i]
       /\ \A u \in worker[k].batch :
            1..(u - 1) \subseteq served[i] \cup worker[k].batch

AheadInv == \A k \in Workers : worker[k] # None => Ahead(k)

IInv ==
  /\ TypeOK /\ RequestInv /\ OrphansAreLate
  /\ NeverRunTwice /\ AheadInv /\ ForgottenWasHandled

----------------------------------------------------------------------------
LEMMA NoneIsNone ==
  None \notin Instances /\ None \notin Workers /\ None \notin Rows /\ None \notin Bot
  BY NoneAssumption

(* What a reconciliation leaves: every worker is the one it was, perhaps   *)
(* cancelled, or a new one, and the supervisor knows who is running.       *)
LEMMA Reconciled ==
  ASSUME TypeOK, NeverRunTwice, Reconcile
  PROVE  /\ running' \in [Instances -> Workers \cup {None}]
         /\ worker' \in [Workers -> Bot \cup {None}]
         /\ \A i \in Instances : running'[i] # None =>
              /\ worker'[running'[i]] # None
              /\ worker'[running'[i]].live /\ worker'[running'[i]].inst = i
         /\ NeverRunTwice'
         /\ \A k \in Workers : worker'[k] # None =>
              \/ /\ worker[k] # None /\ worker'[k].inst = worker[k].inst
                 /\ worker'[k].offset = worker[k].offset
                 /\ worker'[k].batch = worker[k].batch
                 /\ worker'[k].live => worker[k].live
              \/ worker'[k].offset = 0 /\ worker'[k].batch = {}
                 /\ worker'[k].inst \in Instances
<1> DEFINE stop == Stopped(sup)
           start == {i \in DOMAIN sup : running[i] = None \/ i \in stop}
           ks == {running[i] : i \in stop}
<1>1. PICK built \in SUBSET start :
        LET slot == CHOOSE f \in Injection(built, Spare) : TRUE IN
        /\ Injection(built, Spare) # {}
        /\ running' = [i \in Instances |->
             IF i \in built THEN slot[i] ELSE IF i \in stop THEN None ELSE running[i]]
        /\ worker' = [k \in Workers |->
             IF \E i \in built : slot[i] = k
             THEN New(CHOOSE i \in built : slot[i] = k, sup)
             ELSE Cancel(ks)[k]]
  BY DEF Reconcile
<1> DEFINE slot == CHOOSE f \in Injection(built, Spare) : TRUE
<1>2. slot \in Injection(built, Spare)
  BY <1>1
<1>3. /\ running' = [i \in Instances |->
           IF i \in built THEN slot[i] ELSE IF i \in stop THEN None ELSE running[i]]
      /\ worker' = [k \in Workers |->
           IF \E i \in built : slot[i] = k
           THEN New(CHOOSE i \in built : slot[i] = k, sup)
           ELSE Cancel(ks)[k]]
  BY <1>1
<1> HIDE DEF slot
<1>4. built \subseteq Instances /\ \A i \in built : sup[i].at \in Nat
  BY <1>1 DEF Reconcile, TypeOK, Rows
<1>5. /\ \A i \in built : slot[i] \in Workers /\ worker[slot[i]] = None
      /\ \A i, j \in built : slot[i] = slot[j] => i = j
  BY <1>2 DEF Injection, IsInjective, Spare
<1>6. ASSUME NEW i \in built
      PROVE  running'[i] = slot[i] /\ worker'[slot[i]] = New(i, sup)
  <2>1. (CHOOSE j \in built : slot[j] = slot[i]) = i
    BY <1>5
  <2> QED
    BY <1>3, <1>4, <1>5, <2>1
<1>7. ASSUME NEW k \in Workers, ~\E i \in built : slot[i] = k
      PROVE  /\ k \notin ks => worker'[k] = worker[k]
             /\ k \in ks => worker'[k] = [worker[k] EXCEPT !.live = FALSE]
  BY <1>3, <1>7 DEF Cancel
<1>8. ASSUME NEW i \in Instances \ built
      PROVE  running'[i] = IF i \in stop THEN None ELSE running[i]
  BY <1>3, <1>8
<1>9. stop \subseteq Instances /\ \A i \in stop : worker[running[i]] \in Bot
                                                 /\ running[i] \in Workers
  BY DEF Stopped, TypeOK
<1>10. \A i \in built : running[i] = None \/ i \in stop
  BY <1>1
<1> HIDE DEF stop, start, ks
<1>11. ASSUME NEW i \in built
       PROVE  /\ New(i, sup) \in Bot /\ New(i, sup).inst = i /\ New(i, sup).live
              /\ New(i, sup).offset = 0 /\ New(i, sup).batch = {}
  BY <1>4 DEF New, Bot
<1>12. ASSUME NEW k \in ks
       PROVE  LET c == [worker[k] EXCEPT !.live = FALSE] IN
              /\ k \in Workers /\ worker[k] \in Bot /\ c \in Bot /\ ~c.live
              /\ c.inst = worker[k].inst /\ c.offset = worker[k].offset
              /\ c.batch = worker[k].batch
  BY <1>9 DEF Bot, ks
<1>13. ASSUME NEW k \in Workers
       PROVE  /\ worker'[k] \in Bot \cup {None}
              /\ worker'[k] # None /\ worker'[k].live => running'[worker'[k].inst] = k
              /\ worker'[k] # None =>
                   \/ /\ worker[k] # None /\ worker'[k].inst = worker[k].inst
                      /\ worker'[k].offset = worker[k].offset
                      /\ worker'[k].batch = worker[k].batch
                      /\ worker'[k].live => worker[k].live
                   \/ worker'[k].offset = 0 /\ worker'[k].batch = {}
                      /\ worker'[k].inst \in Instances
  <2>1. CASE \E i \in built : slot[i] = k
    BY <1>4, <1>6, <1>11, <2>1
  <2>2. CASE (~\E i \in built : slot[i] = k) /\ k \in ks
    BY <1>7, <1>12, <2>2, NoneIsNone
  <2>3. CASE (~\E i \in built : slot[i] = k) /\ k \notin ks
    <3>1. worker'[k] = worker[k] /\ worker[k] \in Bot \cup {None}
      BY <1>7, <2>3 DEF TypeOK
    <3>2. ASSUME worker[k] # None, worker[k].live
          PROVE  running'[worker[k].inst] = k
      <4>1. running[worker[k].inst] = k /\ worker[k].inst \in Instances
        BY <3>1, <3>2 DEF NeverRunTwice, Bot
      <4>2. worker[k].inst \notin stop /\ worker[k].inst \notin built
        BY <4>1, <2>3, <1>10, NoneIsNone DEF ks
      <4> QED
        BY <1>8, <4>1, <4>2
    <3> QED
      BY <3>1, <3>2
  <2> QED
    BY <2>1, <2>2, <2>3
<1>14. ASSUME NEW i \in Instances
       PROVE  /\ running'[i] \in Workers \cup {None}
              /\ running'[i] # None =>
                   /\ worker'[running'[i]] # None
                   /\ worker'[running'[i]].live /\ worker'[running'[i]].inst = i
  <2>1. CASE i \in built
    BY <1>5, <1>6, <1>11, <2>1, NoneIsNone
  <2>2. CASE i \notin built /\ i \in stop
    BY <1>8, <2>2
  <2>3. CASE i \notin built /\ i \notin stop
    <3>1. running'[i] = running[i] /\ running[i] \in Workers \cup {None}
      BY <1>8, <2>3 DEF TypeOK
    <3>2. ASSUME running[i] # None PROVE worker'[running[i]] = worker[running[i]]
      <4>1. worker[running[i]] # None /\ worker[running[i]].inst = i
        BY <3>2 DEF TypeOK
      <4>2. ~\E j \in built : slot[j] = running[i]
        BY <4>1, <1>5
      <4>3. ASSUME NEW j \in stop, running[j] = running[i] PROVE FALSE
        <5>1. worker[running[j]].inst = j
          BY <1>9, <3>2, <4>3 DEF TypeOK
        <5> QED
          BY <4>1, <4>3, <5>1, <2>3
      <4> QED
        BY <1>7, <3>1, <3>2, <4>2, <4>3 DEF ks
    <3> QED
      BY <3>1, <3>2 DEF TypeOK
  <2> QED
    BY <2>1, <2>2, <2>3
<1>15. /\ running' \in [Instances -> Workers \cup {None}]
       /\ worker' \in [Workers -> Bot \cup {None}]
  BY <1>3, <1>13, <1>14
<1> QED
  BY <1>13, <1>14, <1>15 DEF NeverRunTwice

----------------------------------------------------------------------------
(* A worker that is alive and goes on polling or handling.                 *)
LEMMA WorkerType ==
  ASSUME TypeOK, NEW k \in Workers, worker[k] # None, NEW w \in Bot,
         worker' = [worker EXCEPT ![k] = w],
         w.inst = worker[k].inst, w.live = worker[k].live,
         UNCHANGED <<row, made, stamp, req, sup, running>>,
         sub' \in [Instances -> {"active", "ended", "late"}],
         served' \in [Instances -> SUBSET Nat],
         queue' \in [Instances -> [sent : Nat, acked : Nat]],
         \A i \in Instances : queue'[i].acked <= queue'[i].sent
  PROVE  TypeOK'
  BY NoneIsNone DEF TypeOK

(* A poll confirms what its offset is beyond, which was handled.           *)
LEMMA Confirmed ==
  ASSUME TypeOK, AheadInv, ForgottenWasHandled,
         NEW k \in Workers, Polling(k), Confirm(worker[k].inst, worker[k].offset)
  PROVE  /\ queue' \in [Instances -> [sent : Nat, acked : Nat]]
         /\ \A i \in Instances :
              /\ queue'[i].sent = queue[i].sent
              /\ queue'[i].acked <= queue'[i].sent
              /\ 1..queue'[i].acked \subseteq served[i]
<1> DEFINE i == worker[k].inst
<1>1. worker[k] \in Bot /\ Ahead(k) /\ i \in Instances /\ worker[k].live
  BY DEF TypeOK, AheadInv, Polling, Bot
<1>2. queue[i] \in [sent : Nat, acked : Nat] /\ worker[k].offset \in Nat
      /\ queue[i].acked <= queue[i].sent
  BY <1>1 DEF TypeOK, Bot
<1>3. /\ worker[k].offset <= queue[i].sent + 1
      /\ 1..(worker[k].offset - 1) \subseteq served[i]
  BY <1>1 DEF Ahead
<1> DEFINE n == IF worker[k].offset > queue[i].acked + 1
                THEN worker[k].offset - 1 ELSE queue[i].acked
<1>4. /\ queue' = [queue EXCEPT ![i].acked = n]
      /\ n \in Nat /\ n <= queue[i].sent /\ 1..n \subseteq served[i]
  <2>1. queue' = [queue EXCEPT ![i].acked = n]
    BY <1>1 DEF Confirm, TypeOK
  <2>2. CASE worker[k].offset > queue[i].acked + 1
    BY <1>2, <1>3, <2>1, <2>2
  <2>3. CASE ~(worker[k].offset > queue[i].acked + 1)
    BY <1>1, <1>2, <2>1, <2>3 DEF ForgottenWasHandled
  <2> QED
    BY <2>2, <2>3
<1> HIDE DEF n
<1>5. queue'[i] = [queue[i] EXCEPT !.acked = n]
      /\ \A j \in Instances : j # i => queue'[j] = queue[j]
  BY <1>1, <1>4 DEF TypeOK
<1>6. queue'[i] \in [sent : Nat, acked : Nat]
      /\ queue'[i].sent = queue[i].sent /\ queue'[i].acked = n
  BY <1>2, <1>4, <1>5
<1>7. queue' \in [Instances -> [sent : Nat, acked : Nat]]
  BY <1>4, <1>5, <1>6 DEF TypeOK
<1> QED
  BY <1>4, <1>5, <1>6, <1>7 DEF ForgottenWasHandled, TypeOK

(* What a poll brings: the updates from its offset, or from the first one  *)
(* not confirmed, on.                                                      *)
Received(k) ==
  LET i == worker[k].inst IN
  (IF worker[k].offset > queue[i].acked THEN worker[k].offset
   ELSE queue[i].acked + 1)..queue[i].sent

LEMMA Polled ==
  ASSUME TypeOK, AheadInv, ForgottenWasHandled, NEW k \in Workers, GetUpdates(k)
  PROVE  LET w == [worker[k] EXCEPT !.batch = Received(k)] IN
         /\ worker' = [worker EXCEPT ![k] = w] /\ w \in Bot
         /\ w.inst = worker[k].inst /\ w.live = worker[k].live
         /\ Ahead(k)'
<1> DEFINE i == worker[k].inst
           w == [worker[k] EXCEPT !.batch = Received(k)]
<1>1. worker[k] \in Bot /\ Ahead(k) /\ i \in Instances /\ worker[k].live
  BY DEF TypeOK, AheadInv, GetUpdates, Polling, Bot
<1>2. /\ queue[i].sent \in Nat /\ queue[i].acked \in Nat /\ worker[k].offset \in Nat
      /\ 1..queue[i].acked \subseteq served[i]
      /\ 1..(worker[k].offset - 1) \subseteq served[i]
      /\ worker[k].offset <= queue[i].sent + 1
  BY <1>1 DEF TypeOK, Bot, ForgottenWasHandled, Ahead
<1> DEFINE a == IF worker[k].offset > queue[i].acked THEN worker[k].offset
                ELSE queue[i].acked + 1
<1>3. /\ Received(k) = a..queue[i].sent
      /\ a \in Nat /\ 1 <= a /\ 1..(a - 1) \subseteq served[i]
  <2>1. Received(k) = a..queue[i].sent
    BY DEF Received
  <2>2. CASE worker[k].offset > queue[i].acked
    BY <1>2, <2>1, <2>2
  <2>3. CASE ~(worker[k].offset > queue[i].acked)
    BY <1>2, <2>1, <2>3
  <2> QED
    BY <2>2, <2>3
<1> HIDE DEF a
<1>4. worker' = [worker EXCEPT ![k] = w]
  BY DEF GetUpdates, Received
<1>5. w \in Bot /\ w.inst = i /\ w.live /\ w.offset = worker[k].offset
      /\ w.batch = a..queue[i].sent
  BY <1>1, <1>2, <1>3 DEF Bot
<1>6. worker'[k] = w /\ UNCHANGED served
  BY <1>4 DEF TypeOK, GetUpdates
<1>7. queue'[i].sent = queue[i].sent
  BY Confirmed, <1>1 DEF GetUpdates
<1> HIDE DEF w
<1>8. Ahead(k)'
  <2>1. \E x, y \in Nat : w.batch = x..y
    BY <1>2, <1>3, <1>5
  <2>2. \A u \in w.batch : 1 <= u /\ u <= queue[i].sent
    BY <1>2, <1>3, <1>5
  <2>3. \A u \in w.batch : 1..(u - 1) \subseteq served[i] \cup w.batch
    <3> SUFFICES ASSUME NEW u \in w.batch, NEW n \in 1..(u - 1), n \notin served[i]
                 PROVE  n \in w.batch
      OBVIOUS
    <3>1. u \in Nat /\ n \in Nat /\ 1 <= n /\ n < u /\ u <= queue[i].sent
      BY <1>2, <1>3, <1>5
    <3>2. ~(n <= a - 1)
      BY <1>3, <3>1
    <3> QED
      BY <1>2, <1>3, <1>5, <3>1, <3>2
  <2> QED
    BY <1>2, <1>5, <1>6, <1>7, <2>1, <2>2, <2>3 DEF Ahead
<1> QED
  BY <1>1, <1>4, <1>5, <1>8 DEF w

(* The first update of the batch is handled: all before the next one was.  *)
LEMMA HandledOne ==
  ASSUME TypeOK, AheadInv, NEW k \in Workers, Handle(k)
  PROVE  /\ \E w \in Bot : /\ worker' = [worker EXCEPT ![k] = w]
                           /\ w.inst = worker[k].inst /\ w.live = worker[k].live
         /\ Ahead(k)'
         /\ sub' \in [Instances -> {"active", "ended", "late"}]
         /\ served' \in [Instances -> SUBSET Nat]
         /\ \A j \in Instances : served[j] \subseteq served'[j]
<1> DEFINE i == worker[k].inst
           u == CHOOSE u \in worker[k].batch : \A v \in worker[k].batch : u <= v
           w == [worker[k] EXCEPT !.batch = @ \ {u}, !.offset = u + 1]
<1>1. worker[k] \in Bot /\ Ahead(k) /\ i \in Instances
      /\ worker[k].batch # {} /\ worker[k].batch \subseteq Nat
  BY DEF TypeOK, AheadInv, Handle, Bot
<1>2. PICK a, b \in Nat : worker[k].batch = a..b
  BY <1>1 DEF Ahead
<1>3. a <= b
  BY <1>1, <1>2
<1>4. u = a
  <2>1. a \in worker[k].batch /\ \A v \in worker[k].batch : a <= v
    BY <1>2, <1>3
  <2>2. \A x \in worker[k].batch :
          (\A v \in worker[k].batch : x <= v) => x = a
    BY <1>1, <1>2, <2>1
  <2> QED
    BY <2>1, <2>2
<1>5. worker' = [worker EXCEPT ![k] = w]
  BY DEF Handle, Done
<1> HIDE DEF u
<1>6. /\ w \in Bot /\ w.inst = i /\ w.live = worker[k].live
      /\ w.offset = a + 1 /\ w.batch = worker[k].batch \ {a}
  <2>1. a + 1 \in Nat /\ worker[k].batch \ {a} \in SUBSET Nat
    BY <1>1, <1>2
  <2>2. w = [worker[k] EXCEPT !.batch = worker[k].batch \ {a}, !.offset = a + 1]
    BY <1>4
  <2>3. ASSUME NEW r \in Bot, NEW B \in SUBSET Nat, NEW o \in Nat,
               w = [r EXCEPT !.batch = B, !.offset = o]
        PROVE  /\ w \in Bot /\ w.inst = r.inst /\ w.live = r.live
               /\ w.offset = o /\ w.batch = B
    BY <2>3 DEF Bot
  <2> HIDE DEF w
  <2> QED
    BY <1>1, <2>1, <2>2, <2>3
<1> HIDE DEF w
<1>7. worker'[k] = w
  BY <1>5 DEF TypeOK
<1>8. /\ sub' \in [Instances -> {"active", "ended", "late"}]
      /\ served' = IF worker[k].live THEN [served EXCEPT ![i] = @ \cup {a}] ELSE served
  <2>1. CASE worker[k].live
    BY <1>4, <2>1 DEF Handle, Handled, TypeOK, u
  <2>2. CASE ~worker[k].live
    BY <2>2 DEF Handle, TypeOK
  <2> QED
    BY <2>1, <2>2
<1>9. /\ served' \in [Instances -> SUBSET Nat]
      /\ \A j \in Instances : served[j] \subseteq served'[j]
      /\ worker[k].live => a \in served'[i]
  BY <1>1, <1>2, <1>8 DEF TypeOK
<1>10. Ahead(k)'
  <2>1. queue' = queue /\ queue[i].sent \in Nat
    BY <1>1 DEF Handle, TypeOK
  <2>2. w.batch = (a + 1)..b
    BY <1>2, <1>3, <1>6
  <2>3. \A v \in w.batch : 1 <= v /\ v <= queue[i].sent
    BY <1>1, <1>6 DEF Ahead
  <2>4. w.offset <= queue[i].sent + 1
    BY <1>1, <1>2, <1>3, <1>6, <2>1 DEF Ahead
  <2>5. ASSUME worker[k].live
        PROVE  /\ 1..(w.offset - 1) \subseteq served'[i]
               /\ \A v \in w.batch : 1..(v - 1) \subseteq served'[i] \cup w.batch
    <3>1. 1..(a - 1) \subseteq served[i]
      <4>1. a \in worker[k].batch
        BY <1>2, <1>3
      <4>2. 1..(a - 1) \subseteq served[i] \cup worker[k].batch
        BY <1>1, <2>5, <4>1 DEF Ahead
      <4> QED
        BY <1>2, <4>2
    <3>2. 1..a \subseteq served'[i]
      BY <1>1, <1>9, <2>5, <3>1
    <3>3. \A v \in w.batch : 1..(v - 1) \subseteq served[i] \cup worker[k].batch
      BY <1>1, <1>6, <2>5 DEF Ahead
    <3>4. \A v \in w.batch : 1..(v - 1) \subseteq served'[i] \cup w.batch
      BY <1>1, <1>6, <1>9, <2>5, <3>3
    <3>5. w.offset - 1 = a
      BY <1>6
    <3> QED
      BY <3>2, <3>4, <3>5
  <2>6. \E x, y \in Nat : w.batch = x..y
    BY <2>2
  <2> QED
    BY <1>6, <1>7, <2>1, <2>3, <2>4, <2>5, <2>6 DEF Ahead
<1> QED
  BY <1>5, <1>6, <1>8, <1>9, <1>10

----------------------------------------------------------------------------
LEMMA InitType == Init => TypeOK
  BY BoundsAssumption, NoneIsNone DEF Init, TypeOK, Idle, Ops

LEMMA WriteType ==
  ASSUME TypeOK, NEW i \in Instances, NEW status \in {"active", "disabled"},
         Write(i, status)
  PROVE  /\ stamp' \in 0..MaxStamp
         /\ row' \in [Instances -> Rows \cup {None}]
         /\ \A j \in Instances : row'[j] # None => row[j] # None \/ j = i
<1>1. [status |-> status, at |-> stamp'] \in Rows
  BY BoundsAssumption DEF TypeOK, Write, Rows
<1> QED
  BY <1>1, BoundsAssumption DEF TypeOK, Write

LEMMA StepType ==
  TypeOK /\ RequestInv /\ NeverRunTwice /\ AheadInv /\ ForgottenWasHandled
    /\ [Next]_vars => TypeOK'
<1> SUFFICES ASSUME TypeOK, RequestInv, NeverRunTwice, AheadInv,
                    ForgottenWasHandled, [Next]_vars
             PROVE  TypeOK'
  OBVIOUS
<1> USE NoneIsNone
<1>1. ASSUME NEW i \in Instances, Create(i) PROVE TypeOK'
  <2>1. /\ stamp' \in 0..MaxStamp /\ row' \in [Instances -> Rows \cup {None}]
        /\ \A j \in Instances : row'[j] # None => row[j] # None \/ j = i
    BY <1>1, WriteType DEF Create
  <2>2. req \in [Ops -> [inst : made' \cup {None},
                 step : {"idle", "active", "disabled", "cancel", "delete"}]]
    <3>1. made' = made \cup {i}
      BY <1>1 DEF Create
    <3> QED
      BY <3>1 DEF TypeOK
  <2> QED
    BY <1>1, <2>1, <2>2 DEF Create, TypeOK
<1>2. ASSUME NEW i \in Instances, Update(i) PROVE TypeOK'
  <2>1. [queue[i] EXCEPT !.sent = @ + 1] \in [sent : Nat, acked : Nat]
        /\ [queue[i] EXCEPT !.sent = @ + 1].acked = queue[i].acked
        /\ [queue[i] EXCEPT !.sent = @ + 1].sent = queue[i].sent + 1
    BY DEF TypeOK
  <2>2. /\ queue' \in [Instances -> [sent : Nat, acked : Nat]]
        /\ \A j \in Instances : queue'[j].acked <= queue'[j].sent
    BY <1>2, <2>1 DEF Update, TypeOK
  <2> QED
    BY <1>2, <2>2 DEF Update, TypeOK
<1>3. ASSUME NEW op \in Ops, Answer(op) PROVE
        req' \in [Ops -> [inst : made \cup {None},
                  step : {"idle", "active", "disabled", "cancel", "delete"}]]
  BY <1>3 DEF Answer, TypeOK, Idle
<1>4. ASSUME NEW op \in Ops, Abandon(op) PROVE TypeOK'
  BY <1>3, <1>4 DEF Abandon, TypeOK
<1>5. ASSUME NEW op \in Ops, NEW i \in Instances, Get(op, i) PROVE TypeOK'
  <2>1. PICK s \in {"active", "disabled", "cancel"} :
          req' = [req EXCEPT ![op] = [inst |-> i, step |-> s]]
    BY <1>5 DEF Get
  <2>2. i \in made
    BY <1>5 DEF Get, TypeOK
  <2> QED
    BY <1>5, <2>1, <2>2 DEF Get, TypeOK
<1>6. CASE Upsert
  <2>1. req["update"].inst \in Instances /\ req["update"].inst \in made
        /\ req["update"].step \in {"active", "disabled"}
    BY <1>6 DEF Upsert, RequestInv, Ops, TypeOK
  <2> QED
    BY <1>3, <1>6, <2>1, WriteType DEF Upsert, TypeOK, Ops
<1>7. CASE SetStatus
  <2>1. req["status"].inst \in Instances /\ req["status"].inst \in made
        /\ req["status"].step \in {"active", "disabled"}
    BY <1>7 DEF SetStatus, RequestInv, Ops, TypeOK
  <2>2. req' \in [Ops -> [inst : made \cup {None},
                 step : {"idle", "active", "disabled", "cancel", "delete"}]]
    BY <1>3, <1>7 DEF SetStatus, Ops
  <2>3. CASE Write(req["status"].inst, req["status"].step)
    BY <1>7, <2>1, <2>2, <2>3, WriteType DEF SetStatus, TypeOK
  <2>4. CASE UNCHANGED <<row, stamp>>
    BY <1>7, <2>2, <2>4 DEF SetStatus, TypeOK
  <2> QED
    BY <1>7, <2>3, <2>4 DEF SetStatus
<1>8. CASE CancelByChannelID
  <2>1. req["delete"].inst \in Instances
    BY <1>8 DEF CancelByChannelID, RequestInv, Idle, Ops, TypeOK
  <2>2. [req["delete"] EXCEPT !.step = "delete"] \in [inst : made \cup {None},
          step : {"idle", "active", "disabled", "cancel", "delete"}]
    BY DEF TypeOK, Ops
  <2>3. req' \in [Ops -> [inst : made \cup {None},
                 step : {"idle", "active", "disabled", "cancel", "delete"}]]
    BY <1>8, <2>2 DEF CancelByChannelID, TypeOK, Ops
  <2>4. sub' \in [Instances -> {"active", "ended", "late"}]
    BY <1>8, <2>1 DEF CancelByChannelID, TypeOK
  <2> QED
    BY <1>8, <2>3, <2>4 DEF CancelByChannelID, TypeOK
<1>9. CASE Delete
  <2>1. req' \in [Ops -> [inst : made \cup {None},
                 step : {"idle", "active", "disabled", "cancel", "delete"}]]
    BY <1>3, <1>9 DEF Delete, Ops
  <2> QED
    BY <1>9, <2>1 DEF Delete, TypeOK
<1>10. CASE List
  BY <1>10 DEF List, TypeOK, ListActive
<1>11. CASE Reconcile
  <2>1. UNCHANGED <<row, made, stamp, req, queue, served, sub>> /\ sup' = None
    BY <1>11 DEF Reconcile
  <2> QED
    BY <1>11, <2>1, Reconciled DEF TypeOK
<1>12. ASSUME NEW k \in Workers, GetUpdates(k) PROVE TypeOK'
  <2> DEFINE w == [worker[k] EXCEPT !.batch = Received(k)]
  <2>1. /\ worker' = [worker EXCEPT ![k] = w] /\ w \in Bot
        /\ w.inst = worker[k].inst /\ w.live = worker[k].live
    BY <1>12, Polled
  <2> HIDE DEF w
  <2>2. /\ queue' \in [Instances -> [sent : Nat, acked : Nat]]
        /\ \A i \in Instances : queue'[i].acked <= queue'[i].sent
    BY <1>12, Confirmed DEF GetUpdates
  <2>3. worker[k] # None
        /\ UNCHANGED <<row, made, stamp, req, served, sub, sup, running>>
    BY <1>12 DEF GetUpdates, Polling
  <2>4. /\ sub' \in [Instances -> {"active", "ended", "late"}]
        /\ served' \in [Instances -> SUBSET Nat]
    BY <2>3 DEF TypeOK
  <2> QED
    BY <2>1, <2>2, <2>3, <2>4, WorkerType
<1>13. ASSUME NEW k \in Workers, GetUpdatesFails(k) PROVE TypeOK'
  <2>1. /\ queue' \in [Instances -> [sent : Nat, acked : Nat]]
        /\ \A i \in Instances : queue'[i].acked <= queue'[i].sent
    BY <1>13, Confirmed DEF GetUpdatesFails, TypeOK
  <2> QED
    BY <1>13, <2>1 DEF GetUpdatesFails, TypeOK
<1>14. ASSUME NEW k \in Workers, Handle(k) PROVE TypeOK'
  <2>1. PICK w \in Bot : /\ worker' = [worker EXCEPT ![k] = w]
                         /\ w.inst = worker[k].inst /\ w.live = worker[k].live
    BY <1>14, HandledOne
  <2>2. UNCHANGED <<row, made, stamp, req, queue, sup, running>> /\ worker[k] # None
    BY <1>14 DEF Handle
  <2>3. /\ queue' \in [Instances -> [sent : Nat, acked : Nat]]
        /\ \A i \in Instances : queue'[i].acked <= queue'[i].sent
    BY <2>2 DEF TypeOK
  <2> QED
    BY <1>14, <2>1, <2>2, <2>3, HandledOne, WorkerType
<1>15. ASSUME NEW k \in Workers, Return(k) PROVE TypeOK'
  BY <1>15 DEF Return, TypeOK
<1>16. CASE Restart
  BY <1>16 DEF Restart, TypeOK, Idle
<1>17. CASE UNCHANGED vars
  BY <1>17 DEF vars, TypeOK
<1> QED
  BY <1>1, <1>2, <1>4, <1>5, <1>6, <1>7, <1>8, <1>9, <1>10, <1>11, <1>12, <1>13,
     <1>14, <1>15, <1>16, <1>17 DEF Next, Work

----------------------------------------------------------------------------
(* The owner's requests; only Handle and CancelByChannelID touch sub.      *)
LEMMA RequestStep == TypeOK /\ RequestInv /\ [Next]_vars => RequestInv'
<1> SUFFICES ASSUME TypeOK, RequestInv, [Next]_vars PROVE RequestInv'
  OBVIOUS
<1> USE NoneIsNone
<1>1. ASSUME NEW op \in Ops, Answer(op), UNCHANGED <<made, sub>> PROVE RequestInv'
  BY <1>1 DEF Answer, RequestInv, TypeOK, Idle
<1>2. ASSUME UNCHANGED <<req, sub>>, made \subseteq made' PROVE RequestInv'
  BY <1>2 DEF RequestInv
<1>3. ASSUME NEW op \in Ops, NEW i \in Instances, Get(op, i) PROVE RequestInv'
  <2>1. PICK s \in IF op = "delete" THEN {"cancel"} ELSE {"active", "disabled"} :
          req' = [req EXCEPT ![op] = [inst |-> i, step |-> s]]
    BY <1>3 DEF Get
  <2>2. i \in made
    BY <1>3 DEF Get, TypeOK
  <2> QED
    BY <1>3, <2>1, <2>2 DEF Get, RequestInv, TypeOK, Ops
<1>4. CASE CancelByChannelID
  <2>1. req["delete"].inst \in Instances /\ req["delete"].inst \in made
    BY <1>4 DEF CancelByChannelID, RequestInv, Idle, Ops, TypeOK
  <2>2. req'["delete"] = [req["delete"] EXCEPT !.step = "delete"]
        /\ \A op \in Ops : op # "delete" => req'[op] = req[op]
    BY <1>4 DEF CancelByChannelID, TypeOK, Ops
  <2>3. req'["delete"].inst = req["delete"].inst /\ req'["delete"].step = "delete"
    BY <2>2 DEF TypeOK, Ops
  <2>4. \A i \in Instances :
          req'["delete"] = [inst |-> i, step |-> "delete"] => sub'[i] # "active"
    BY <1>4, <2>1, <2>3 DEF CancelByChannelID, TypeOK
  <2>5. made' = made
    BY <1>4 DEF CancelByChannelID
  <2> QED
    BY <2>1, <2>2, <2>3, <2>4, <2>5 DEF RequestInv
<1>5. ASSUME NEW k \in Workers, Handle(k) PROVE RequestInv'
  <2>1. worker[k] # None => worker[k].inst \in Instances
    BY DEF TypeOK, Bot
  <2> QED
    BY <1>5, <2>1 DEF Handle, Handled, Deleting, RequestInv, TypeOK
<1>6. CASE Restart
  BY <1>6 DEF Restart, RequestInv, Idle, Ops
<1>7. CASE UNCHANGED vars
  BY <1>2, <1>7 DEF vars
<1>8. ASSUME NEW op \in Ops, Abandon(op) PROVE RequestInv'
  BY <1>1, <1>8 DEF Abandon
<1>9. CASE Upsert \/ SetStatus \/ Delete
  BY <1>1, <1>9 DEF Upsert, SetStatus, Delete, Ops
<1>10. CASE \E i \in Instances : Create(i) \/ Update(i)
  BY <1>2, <1>10 DEF Create, Update
<1>11. CASE List \/ Reconcile
  BY <1>2, <1>11 DEF List, Reconcile
<1>12. ASSUME NEW k \in Workers, GetUpdates(k) \/ GetUpdatesFails(k) \/ Return(k)
       PROVE  RequestInv'
  BY <1>2, <1>12 DEF GetUpdates, GetUpdatesFails, Return
<1> QED
  BY <1>3, <1>4, <1>5, <1>6, <1>7, <1>8, <1>9, <1>10, <1>11, <1>12 DEF Next, Work

(* A row only goes after its subscription was cancelled, and a bot that    *)
(* activates it then knows that it is late.                                *)
LEMMA OrphanStep ==
  TypeOK /\ RequestInv /\ OrphansAreLate /\ [Next]_vars => OrphansAreLate'
<1> SUFFICES ASSUME TypeOK, RequestInv, OrphansAreLate, [Next]_vars
             PROVE  OrphansAreLate'
  OBVIOUS
<1> USE NoneIsNone
<1>1. ASSUME NEW i \in Instances, NEW status \in {"active", "disabled"},
             Write(i, status), UNCHANGED sub
      PROVE  OrphansAreLate'
  <2>1. row'[i] # None /\ \A j \in Instances : j # i => row'[j] = row[j]
    <3>1. [status |-> status, at |-> stamp'] \in Rows
      BY <1>1, BoundsAssumption DEF TypeOK, Write, Rows
    <3> QED
      BY <1>1, <3>1 DEF TypeOK, Write
  <2> QED
    BY <1>1, <2>1 DEF OrphansAreLate
<1>2. ASSUME UNCHANGED <<row, sub>> PROVE OrphansAreLate'
  BY <1>2 DEF OrphansAreLate
<1>3. CASE CancelByChannelID
  BY <1>3 DEF CancelByChannelID, OrphansAreLate, TypeOK
<1>4. CASE Delete
  <2>1. req["delete"].inst \in Instances
    BY <1>4 DEF Delete, RequestInv, Idle, Ops, TypeOK
  <2>2. req["delete"] = [inst |-> req["delete"].inst, step |-> "delete"]
    BY <1>4 DEF Delete, Ops, TypeOK
  <2> QED
    BY <1>4, <2>1, <2>2 DEF Delete, RequestInv, OrphansAreLate, TypeOK
<1>5. ASSUME NEW k \in Workers, Handle(k) PROVE OrphansAreLate'
  <2>1. worker[k] # None => worker[k].inst \in Instances
    BY DEF TypeOK, Bot
  <2> QED
    BY <1>5, <2>1 DEF Handle, Handled, Deleting, OrphansAreLate, TypeOK
<1>6. CASE Upsert
  <2>1. req["update"].inst \in Instances /\ req["update"].step \in {"active", "disabled"}
    BY <1>6 DEF Upsert, RequestInv, Ops, TypeOK
  <2> QED
    BY <1>1, <1>6, <2>1 DEF Upsert
<1>7. CASE SetStatus
  <2>1. req["status"].inst \in Instances /\ req["status"].step \in {"active", "disabled"}
    BY <1>7 DEF SetStatus, RequestInv, Ops, TypeOK
  <2> QED
    BY <1>1, <1>2, <1>7, <2>1 DEF SetStatus
<1>8. ASSUME NEW i \in Instances, Create(i) PROVE OrphansAreLate'
  BY <1>1, <1>8 DEF Create
<1> QED
  BY <1>2, <1>3, <1>4, <1>5, <1>6, <1>7, <1>8
  DEF Next, Work, vars, Update, Abandon, Get, List, Reconcile, GetUpdates,
      GetUpdatesFails, Return, Restart

(* Only the reconciliation starts and cancels workers.                     *)
LEMMA RunStep == TypeOK /\ NeverRunTwice /\ AheadInv /\ ForgottenWasHandled
                   /\ [Next]_vars => NeverRunTwice'
<1> SUFFICES ASSUME TypeOK, NeverRunTwice, AheadInv, ForgottenWasHandled, [Next]_vars
             PROVE  NeverRunTwice'
  OBVIOUS
<1>1. ASSUME UNCHANGED running,
             \A k \in Workers : worker'[k] # None =>
               /\ worker[k] # None /\ worker'[k].inst = worker[k].inst
               /\ worker'[k].live = worker[k].live
      PROVE  NeverRunTwice'
  BY <1>1 DEF NeverRunTwice
<1>2. ASSUME NEW k \in Workers, worker[k] # None, NEW w \in Bot,
             worker' = [worker EXCEPT ![k] = w], UNCHANGED running,
             w.inst = worker[k].inst, w.live = worker[k].live
      PROVE  NeverRunTwice'
  BY <1>1, <1>2 DEF TypeOK
<1>3. ASSUME NEW k \in Workers, GetUpdates(k) PROVE NeverRunTwice'
  <2> DEFINE w == [worker[k] EXCEPT !.batch = Received(k)]
  <2>1. /\ worker' = [worker EXCEPT ![k] = w] /\ w \in Bot
        /\ w.inst = worker[k].inst /\ w.live = worker[k].live
    BY <1>3, Polled
  <2> HIDE DEF w
  <2> QED
    BY <1>2, <1>3, <2>1 DEF GetUpdates, Polling
<1>4. ASSUME NEW k \in Workers, Handle(k) PROVE NeverRunTwice'
  BY <1>2, <1>4, HandledOne DEF Handle
<1>5. ASSUME NEW k \in Workers, Return(k) PROVE NeverRunTwice'
  BY <1>1, <1>5 DEF Return, TypeOK
<1>6. CASE Restart
  BY <1>6 DEF Restart, NeverRunTwice
<1>7. CASE Reconcile
  BY <1>7, Reconciled
<1>8. CASE UNCHANGED <<running, worker>>
  BY <1>8 DEF NeverRunTwice
<1> QED
  BY <1>3, <1>4, <1>5, <1>6, <1>7, <1>8
  DEF Next, Work, vars, Create, Update, Abandon, Get, Upsert, SetStatus,
      CancelByChannelID, Delete, List, GetUpdatesFails

(* Nothing takes away from what a worker has behind it.                    *)
LEMMA StillAhead ==
  ASSUME TypeOK, NEW k \in Workers, worker[k] # None, Ahead(k),
         worker'[k].inst = worker[k].inst,
         worker'[k].offset = worker[k].offset, worker'[k].batch = worker[k].batch,
         worker'[k].live => worker[k].live,
         queue'[worker[k].inst].sent \in Nat,
         queue[worker[k].inst].sent <= queue'[worker[k].inst].sent,
         served[worker[k].inst] \subseteq served'[worker[k].inst]
  PROVE  Ahead(k)'
<1>1. worker[k] \in Bot /\ worker[k].inst \in Instances
      /\ worker[k].batch \subseteq Nat /\ worker[k].offset \in Nat
      /\ queue[worker[k].inst].sent \in Nat
  BY DEF TypeOK, Bot
<1> QED
  BY <1>1, SMTT(30) DEF Ahead

LEMMA AheadStep ==
  TypeOK /\ NeverRunTwice /\ AheadInv /\ ForgottenWasHandled /\ [Next]_vars
    => AheadInv'
<1> SUFFICES ASSUME TypeOK, NeverRunTwice, AheadInv, ForgottenWasHandled, [Next]_vars,
                    NEW k \in Workers, worker'[k] # None
             PROVE  Ahead(k)'
  BY DEF AheadInv
<1>1. ASSUME worker'[k] = worker[k], \A i \in Instances :
               /\ queue'[i].sent \in Nat /\ queue[i].sent <= queue'[i].sent
               /\ served[i] \subseteq served'[i]
      PROVE  Ahead(k)'
  <2>1. worker[k] # None /\ Ahead(k) /\ worker[k].inst \in Instances
    BY <1>1 DEF AheadInv, TypeOK, Bot
  <2> QED
    BY <1>1, <2>1, StillAhead
<1>2. \A i \in Instances : queue[i].sent \in Nat
  BY DEF TypeOK
<1>3. ASSUME UNCHANGED <<queue, served>>, worker'[k] = worker[k] PROVE Ahead(k)'
  BY <1>1, <1>2, <1>3
<1>4. ASSUME NEW i \in Instances, Update(i) PROVE Ahead(k)'
  <2>1. \A j \in Instances :
          queue'[j].sent = IF j = i THEN queue[j].sent + 1 ELSE queue[j].sent
    BY <1>4 DEF Update, TypeOK
  <2> QED
    BY <1>1, <1>2, <1>4, <2>1 DEF Update
<1>5. CASE Reconcile
  <2>1. UNCHANGED <<queue, served>>
    BY <1>5 DEF Reconcile
  <2>2. CASE /\ worker[k] # None /\ worker'[k].inst = worker[k].inst
             /\ worker'[k].offset = worker[k].offset
             /\ worker'[k].batch = worker[k].batch
             /\ worker'[k].live => worker[k].live
    <3>1. Ahead(k) /\ worker[k].inst \in Instances
      BY <2>2 DEF AheadInv, TypeOK, Bot
    <3> QED
      BY <1>2, <2>1, <2>2, <3>1, StillAhead
  <2>3. CASE worker'[k].offset = 0 /\ worker'[k].batch = {}
             /\ worker'[k].inst \in Instances
    <3>1. queue'[worker'[k].inst].sent \in Nat
      BY <1>2, <2>1, <2>3
    <3>2. worker'[k].batch = 1..0
      BY <2>3
    <3> QED
      BY <2>3, <3>1, <3>2 DEF Ahead
  <2> QED
    BY <1>5, <2>2, <2>3, Reconciled
<1>6. ASSUME NEW j \in Workers, GetUpdates(j) PROVE Ahead(k)'
  <2>1. CASE k = j
    BY <1>6, <2>1, Polled
  <2>2. CASE k # j
    <3>1. worker'[k] = worker[k] /\ UNCHANGED served
      BY <1>6, <2>2 DEF GetUpdates, TypeOK
    <3>2. \A i \in Instances : queue'[i].sent = queue[i].sent
      BY <1>6, Confirmed DEF GetUpdates
    <3> QED
      BY <1>1, <1>2, <3>1, <3>2
  <2> QED
    BY <2>1, <2>2
<1>7. ASSUME NEW j \in Workers, GetUpdatesFails(j) PROVE Ahead(k)'
  <2>1. \A i \in Instances : queue'[i].sent = queue[i].sent
    BY <1>7, Confirmed DEF GetUpdatesFails
  <2> QED
    BY <1>1, <1>2, <1>7, <2>1 DEF GetUpdatesFails
<1>8. ASSUME NEW j \in Workers, Handle(j) PROVE Ahead(k)'
  <2>1. CASE k = j
    BY <1>8, <2>1, HandledOne
  <2>2. CASE k # j
    <3>1. worker'[k] = worker[k] /\ UNCHANGED queue
      BY <1>8, <2>2 DEF Handle, Done, TypeOK
    <3> QED
      BY <1>1, <1>2, <1>8, <3>1, HandledOne
  <2> QED
    BY <2>1, <2>2
<1>9. ASSUME NEW j \in Workers, Return(j) PROVE Ahead(k)'
  BY <1>3, <1>9 DEF Return, TypeOK
<1>10. CASE Restart
  BY <1>10 DEF Restart
<1> QED
  BY <1>3, <1>4, <1>5, <1>6, <1>7, <1>8, <1>9, <1>10
  DEF Next, Work, vars, Create, Abandon, Get, Upsert, SetStatus,
      CancelByChannelID, Delete, List

(* Only a poll confirms, and only what its worker has behind it.           *)
LEMMA ForgottenStep ==
  TypeOK /\ AheadInv /\ ForgottenWasHandled /\ [Next]_vars => ForgottenWasHandled'
<1> SUFFICES ASSUME TypeOK, AheadInv, ForgottenWasHandled, [Next]_vars
             PROVE  ForgottenWasHandled'
  OBVIOUS
<1>1. ASSUME NEW k \in Workers, GetUpdates(k) \/ GetUpdatesFails(k)
      PROVE  ForgottenWasHandled'
  BY <1>1, Confirmed DEF GetUpdates, GetUpdatesFails, ForgottenWasHandled
<1>2. ASSUME NEW k \in Workers, Handle(k) PROVE ForgottenWasHandled'
  <2>1. UNCHANGED queue
    BY <1>2 DEF Handle
  <2> QED
    BY <1>2, <2>1, HandledOne DEF ForgottenWasHandled
<1>3. ASSUME NEW i \in Instances, Update(i) PROVE ForgottenWasHandled'
  <2>1. \A j \in Instances : queue'[j].acked = queue[j].acked
    BY <1>3 DEF Update, TypeOK
  <2> QED
    BY <1>3, <2>1 DEF Update, ForgottenWasHandled
<1>4. CASE UNCHANGED <<queue, served>>
  BY <1>4 DEF ForgottenWasHandled
<1> QED
  BY <1>1, <1>2, <1>3, <1>4
  DEF Next, Work, vars, Create, Abandon, Get, Upsert, SetStatus,
      CancelByChannelID, Delete, List, Reconcile, Return, Restart

----------------------------------------------------------------------------
LEMMA InitInv == Init => IInv
<1> SUFFICES ASSUME Init PROVE IInv
  OBVIOUS
<1>1. RequestInv
  BY DEF Init, RequestInv, Idle, Ops
<1>2. OrphansAreLate /\ NeverRunTwice /\ AheadInv
  BY DEF Init, OrphansAreLate, NeverRunTwice, AheadInv
<1>3. ForgottenWasHandled
  BY DEF Init, ForgottenWasHandled
<1> QED
  BY <1>1, <1>2, <1>3, InitType DEF IInv

LEMMA StepInv == IInv /\ [Next]_vars => IInv'
  BY StepType, RequestStep, OrphanStep, RunStep, AheadStep, ForgottenStep DEF IInv

LEMMA Invariant == Spec => []IInv
  BY InitInv, StepInv, PTL DEF Spec

(* Every reachable state is well typed, and the supervisor's workers are   *)
(* alive and serve the instance they were started for.                     *)
THEOREM TypeCorrect == Spec => []TypeOK
<1>1. IInv => TypeOK
  BY DEF IInv
<1> QED
  BY <1>1, Invariant, PTL

(* Whatever requests, ticks and restarts overlap, an instance never has    *)
(* two workers that are not cancelled (supervisor.go, reconcile).          *)
THEOREM OneBotPerInstance == Spec => []NeverRunTwice
<1>1. IInv => NeverRunTwice
  BY DEF IInv
<1> QED
  BY <1>1, Invariant, PTL

(* The offset a worker polls with (telegram.go, Run) never gets ahead of   *)
(* what was handled, so that Telegram forgets nothing that was not.        *)
THEOREM NoUpdateIsLost == Spec => []ForgottenWasHandled
<1>1. IInv => ForgottenWasHandled
  BY DEF IInv
<1> QED
  BY <1>1, Invariant, PTL

(* A deletion cancels the subscription before the row (adminDeleteChannel  *)
(* in handlers_admin_resources.go): one that outlives the row was made by  *)
(* a bot that was still running.                                           *)
THEOREM DeletionCancelsFirst == Spec => []OrphansAreLate
<1>1. IInv => OrphansAreLate
  BY DEF IInv
<1> QED
  BY <1>1, Invariant, PTL
=============================================================================
