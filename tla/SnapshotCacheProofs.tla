------------------------ MODULE SnapshotCacheProofs ------------------------
(***************************************************************************)
(* Proofs about SnapshotCache, for any callers, pools, lag of the source   *)
(* and number of epochs.                                                   *)
(***************************************************************************)
EXTENDS SnapshotCache, TLAPS

(* The source is not further behind than Lag, and no call than one epoch.  *)
TimeInv ==
  /\ epoch >= 1 /\ epoch <= tip + Lag
  /\ \A c \in Callers :
       /\ call[c].e <= epoch
       /\ call[c].at # "idle" => call[c].e >= 1 /\ call[c].e + 1 >= epoch

(* A flight has had a caller waiting all along: its answer is recent for   *)
(* that one, and at most one epoch older for those that joined later.      *)
FlightInv ==
  flight # None =>
    \E c \in Callers :
      /\ call[c].at = "waiting"
      /\ flight.data # None => flight.data.seen + Lag >= call[c].e

Recent(data, e) == data.seen + Lag + 1 >= e

(* What callers hold, and what the cache holds for those to come.          *)
RecentInv ==
  /\ \A c \in Callers :
       call[c].at \in {"store", "answered"} => Recent(call[c].data, call[c].e)
  /\ row # None => Recent(row.data, row.label)

(* The pass of the reconciler looks no earlier than the tip it is for.     *)
PassInv ==
  /\ call[Reconciler].at = "list" => probed <= epoch
  /\ call[Reconciler].at \in {"lookup", "waiting", "store", "answered"} =>
       probed <= call[Reconciler].e

IInv == TypeOK /\ TimeInv /\ FlightInv /\ RecentInv /\ PassInv

----------------------------------------------------------------------------
LEMMA NoneIsNone == None \notin Data /\ None \notin Rows /\ None \notin Flights
  BY NoneAssumption

LEMMA InitType == Init => TypeOK
<1> SUFFICES ASSUME Init PROVE TypeOK
  OBVIOUS
<1>1. account \in [status : Accounts, live : Pools \cup {NoPool}]
      /\ account.live \in Pools \cup {NoPool}
  BY HomeAssumption DEF Init, Accounts
<1>2. epoch = Lag + 1 /\ tip = 1 /\ epoch \in Nat /\ tip <= epoch
  BY LagAssumption DEF Init
<1>3. latest \in [tip..epoch -> Pools \cup {NoPool}]
  BY <1>1, <1>2 DEF Init
<1>4. call \in [Callers -> Calls]
  BY DEF Init, Idle, Calls
<1>5. \A c \in Callers : call[c].at \notin {"store", "answered"}
  BY DEF Init, Idle
<1>6. moved = 0 /\ row = None /\ flight = None /\ cursor = 0 /\ probed = 0
  BY DEF Init
<1> QED
  BY <1>1, <1>2, <1>3, <1>4, <1>5, <1>6 DEF TypeOK

(* A caller is at another point, and no other caller is.                   *)
LEMMA CallType ==
  ASSUME TypeOK, NEW c \in Callers, NEW q \in Calls,
         call' = [call EXCEPT ![c] = q],
         q.at \in {"store", "answered"} => q.data # None
  PROVE  /\ call' \in [Callers -> Calls]
         /\ \A d \in Callers :
              call'[d].at \in {"store", "answered"} => call'[d].data # None
         /\ call'[c] = q /\ \A d \in Callers : d # c => call'[d] = call[d]
  BY DEF TypeOK

(* Where each operation takes its caller.                                  *)
LEMMA Going ==
  ASSUME TypeOK, NEW c \in Callers
  PROVE  /\ Idle \in Calls /\ Idle.at = "idle" /\ Idle.e = 0
         /\ \A e \in Nat : LET q == [Idle EXCEPT !.at = "lookup", !.e = e] IN
              q \in Calls /\ q.at = "lookup" /\ q.e = e
         /\ \A a \in {"waiting", "answered", "failed", "list", "lookup"} :
              LET q == [call[c] EXCEPT !.at = a] IN
              q \in Calls /\ q.at = a /\ q.e = call[c].e /\ q.data = call[c].data
<1>1. call[c] \in Calls
  BY DEF TypeOK
<1> QED
  BY <1>1 DEF Calls, Idle, Asking

(* The callers of a flight that ends are answered, or told that it failed. *)
LEMMA Delivered ==
  ASSUME TypeOK, Deliver \/ FetchFails
  PROVE  /\ call' \in [Callers -> Calls]
         /\ \A d \in Callers :
              /\ call'[d].e = call[d].e
              /\ call'[d].at = "idle" => call[d].at = "idle"
              /\ call'[d].at = "list" => call[d].at = "list"
              /\ \/ call'[d] = call[d]
                 \/ call'[d].at = "failed" /\ call[d].at = "waiting"
                 \/ /\ call'[d].at = "store" /\ call[d].at = "waiting"
                    /\ flight # None /\ flight.data # None
                    /\ call'[d].data = flight.data
         /\ flight' = None
<1>1. ASSUME NEW d \in Callers, FetchFails, call[d].at = "waiting"
      PROVE  /\ call'[d] \in Calls /\ call'[d].e = call[d].e
             /\ call'[d].at = "failed"
  BY <1>1, call[d] \in Calls DEF FetchFails, TypeOK, Calls, Asking
<1>2. ASSUME NEW d \in Callers, Deliver, call[d].at = "waiting"
      PROVE  /\ call'[d] \in Calls /\ call'[d].e = call[d].e
             /\ call'[d].at = "store" /\ call'[d].data = flight.data
  <2>1. flight.data \in Data
    BY <1>2 DEF Deliver, TypeOK, Flights
  <2> QED
    BY <1>2, <2>1, call[d] \in Calls DEF Deliver, TypeOK, Calls, Asking
<1>3. ASSUME NEW d \in Callers, call[d].at # "waiting"
      PROVE  call'[d] = call[d] /\ call[d] \in Calls
  BY <1>3 DEF Deliver, FetchFails, TypeOK
<1>4. call' \in [Callers -> Calls]
  BY <1>1, <1>2, <1>3 DEF Deliver, FetchFails
<1> QED
  BY <1>1, <1>2, <1>3, <1>4 DEF Deliver, FetchFails

(* One caller moves and the chain stays.                                   *)
LEMMA MoveType ==
  ASSUME TypeOK, NEW c \in Callers, NEW q \in Calls,
         call' = [call EXCEPT ![c] = q],
         q.at \in {"store", "answered"} => q.data # None,
         UNCHANGED chain,
         row' = None \/ (row' \in Rows /\ row'.data.snap.active \in Pools),
         flight' \in Flights \cup {None},
         cursor' \in Nat, probed' \in Nat
  PROVE  TypeOK'
  BY CallType DEF TypeOK, chain

LEMMA LookupType ==
  ASSUME TypeOK, NEW c \in Callers, Lookup(c), cursor' \in Nat, probed' \in Nat
  PROVE  TypeOK'
<1> DEFINE q == [Idle EXCEPT !.at = "lookup", !.e = epoch]
<1>1. q \in Calls /\ q.at = "lookup" /\ call' = [call EXCEPT ![c] = q]
  BY Going DEF Lookup, TypeOK
<1> HIDE DEF q
<1> QED
  BY <1>1, MoveType DEF Lookup, TypeOK

LEMMA ReturnType ==
  ASSUME TypeOK, NEW c \in Callers, Return(c), cursor' \in Nat, probed' \in Nat
  PROVE  TypeOK'
  BY Going, MoveType DEF Return, TypeOK

LEMMA ChainType ==
  ASSUME TypeOK, NextEpoch \/ SourceCatchesUp \/ Deregisters
                   \/ (\E p \in Pools : Delegates(p))
  PROVE  TypeOK'
<1>1. /\ epoch \in Nat /\ tip \in Nat /\ tip <= epoch
      /\ latest \in [tip..epoch -> Pools \cup {NoPool}]
      /\ account.live \in Pools \cup {NoPool} /\ account.status \in Accounts
  BY DEF TypeOK
<1>2. CASE NextEpoch
  <2>1. latest' \in [tip..(epoch + 1) -> Pools \cup {NoPool}]
    <3>1. latest[epoch] \in Pools \cup {NoPool}
      BY <1>1
    <3>2. ASSUME NEW e \in tip..(epoch + 1), e <= epoch
          PROVE  latest[e] \in Pools \cup {NoPool}
      BY <1>1, <3>2
    <3> QED
      BY <1>1, <1>2, <3>1, <3>2 DEF NextEpoch
  <2>2. epoch' = epoch + 1 /\ tip' = tip
        /\ UNCHANGED <<account, moved, row, flight, call, reconciler>>
    BY <1>2 DEF NextEpoch
  <2> QED
    BY <1>1, <2>1, <2>2 DEF TypeOK, reconciler
<1>3. CASE SourceCatchesUp
  <2>1. latest' \in [(tip + 1)..epoch -> Pools \cup {NoPool}]
    BY <1>1, <1>3 DEF SourceCatchesUp
  <2>2. tip' = tip + 1 /\ tip + 1 <= epoch
        /\ UNCHANGED <<epoch, account, moved, row, flight, call, reconciler>>
    BY <1>1, <1>3 DEF SourceCatchesUp
  <2> QED
    BY <1>1, <2>1, <2>2 DEF TypeOK, reconciler
<1>4. CASE Deregisters \/ \E p \in Pools : Delegates(p)
  <2>1. account' \in [status : Accounts, live : Pools \cup {NoPool}]
    BY <1>4 DEF Deregisters, Delegates, Accounts
  <2>2. moved' = moved + 1
        /\ UNCHANGED <<epoch, tip, latest, row, flight, call, reconciler>>
    BY <1>4 DEF Deregisters, Delegates, Moved
  <2> QED
    BY <2>1, <2>2 DEF TypeOK, reconciler
<1> QED
  BY <1>2, <1>3, <1>4

LEMMA FetchType == ASSUME TypeOK, Fetch PROVE flight' \in Flights
<1>1. /\ epoch \in Nat /\ tip \in Nat /\ tip <= epoch
      /\ latest \in [tip..epoch -> Pools \cup {NoPool}]
      /\ account \in [status : Accounts, live : Pools \cup {NoPool}]
      /\ flight \in Flights
  BY DEF TypeOK, Fetch
<1>2. latest[tip] \in Pools \cup {NoPool}
  BY <1>1
<1>3. [snap |-> [status |-> account.status, live |-> account.live,
                 active |-> IF account.status = "unknown" THEN NoPool
                            ELSE latest[tip]],
       seen |-> tip] \in Data
  BY <1>1, <1>2 DEF Data, Snapshot
<1> QED
  BY <1>1, <1>3 DEF Fetch, Flights

LEMMA StepType == TypeOK /\ [Next]_vars => TypeOK'
<1> SUFFICES ASSUME TypeOK, [Next]_vars PROVE TypeOK'
  OBVIOUS
<1>1. CASE NextEpoch \/ SourceCatchesUp \/ Deregisters \/ \E p \in Pools : Delegates(p)
  BY <1>1, ChainType
<1>2. ASSUME NEW c \in Callers, Request(c) PROVE TypeOK'
  BY <1>2, LookupType DEF Request, reconciler, TypeOK
<1>3. ASSUME NEW c \in Callers, Finish(c) PROVE TypeOK'
  BY <1>3, ReturnType DEF Finish, reconciler, TypeOK
<1>4. ASSUME NEW c \in Callers, Hit(c) PROVE TypeOK'
  <2> DEFINE q == [call[c] EXCEPT !.at = "answered", !.hit = TRUE, !.data = row.data]
  <2>1. row.data \in Data /\ call[c] \in Calls
    BY <1>4 DEF Hit, Fresh, Rows, TypeOK
  <2>2. q \in Calls /\ q.data = row.data
    BY <2>1 DEF Calls
  <2>3. call' = [call EXCEPT ![c] = q]
    BY <1>4 DEF Hit, TypeOK
  <2> HIDE DEF q
  <2>4. row.data # None
    BY <2>1, NoneIsNone
  <2>5. UNCHANGED <<chain, row, flight, cursor, probed>>
    BY <1>4 DEF Hit, reconciler
  <2>6. /\ row' = None \/ (row' \in Rows /\ row'.data.snap.active \in Pools)
        /\ flight' \in Flights \cup {None} /\ cursor' \in Nat /\ probed' \in Nat
    BY <2>5 DEF TypeOK
  <2> QED
    BY <2>2, <2>3, <2>4, <2>5, <2>6, MoveType
<1>5. ASSUME NEW c \in Callers, Miss(c) PROVE TypeOK'
  <2>1. flight' \in Flights \cup {None}
    BY <1>5 DEF Miss, TypeOK, Flights
  <2> QED
    BY <1>5, <2>1, Going, MoveType DEF Miss, TypeOK, reconciler
<1>6. ASSUME NEW c \in Callers, Store(c) \/ StoreFails(c) PROVE TypeOK'
  <2>1. call[c] \in Calls /\ call[c].data \in Data
    BY <1>6 DEF Store, StoreFails, TypeOK, Calls
  <2>2. row' = None \/ (row' \in Rows /\ row'.data.snap.active \in Pools)
    <3>1. CASE row' = [label |-> call[c].e, data |-> call[c].data]
               /\ call[c].data.snap.active # NoPool
      BY <2>1, <3>1 DEF Calls, Rows, Data, Snapshot
    <3> QED
      BY <1>6, <3>1 DEF Store, StoreFails, TypeOK
  <2> DEFINE q == [call[c] EXCEPT !.at = "answered"]
  <2>3. q \in Calls /\ q.data # None
    BY <2>1, NoneIsNone DEF Calls
  <2>4. call' = [call EXCEPT ![c] = q]
    BY <1>6 DEF Store, StoreFails, TypeOK
  <2> HIDE DEF q
  <2> QED
    BY <1>6, <2>2, <2>3, <2>4, MoveType DEF Store, StoreFails, TypeOK, reconciler
<1>7. CASE Fetch
  BY <1>7, FetchType DEF Fetch, TypeOK, chain, reconciler
<1>8. CASE Deliver \/ FetchFails
  <2>1. \A d \in Callers :
          call'[d].at \in {"store", "answered"} => call'[d].data # None
    BY <1>8, Delivered DEF TypeOK
  <2>2. UNCHANGED <<chain, row, reconciler>>
    BY <1>8 DEF Deliver, FetchFails
  <2> QED
    BY <1>8, <2>1, <2>2, Delivered DEF TypeOK, chain, reconciler
<1>9. CASE Probe
  <2> DEFINE q == [call[Reconciler] EXCEPT !.at = "list", !.e = epoch]
  <2>1. call[Reconciler] \in Calls /\ epoch \in Nat
    BY ReconcilerAssumption DEF TypeOK
  <2>2. q \in Calls /\ q.at = "list"
    BY <2>1 DEF Calls
  <2>3. call' = [call EXCEPT ![Reconciler] = q]
    BY <1>9, ReconcilerAssumption DEF Probe, TypeOK
  <2> HIDE DEF q
  <2> QED
    BY <1>9, <2>2, <2>3, MoveType, ReconcilerAssumption DEF Probe, TypeOK
<1>10. CASE ListActive
  BY <1>10, LookupType, ReconcilerAssumption DEF ListActive, reconciler, TypeOK
<1>11. CASE ListFails
  BY <1>11, Going, MoveType, ReconcilerAssumption DEF ListFails, TypeOK
<1>12. CASE Commit
  BY <1>12, ReturnType, ReconcilerAssumption DEF Commit, TypeOK
<1>13. CASE Restart
  <2>1. call' \in [Callers -> Calls]
        /\ \A c \in Callers : call'[c].at \notin {"store", "answered"}
    BY <1>13, Going DEF Restart
  <2> QED
    BY <1>13, <2>1 DEF Restart, TypeOK, chain
<1>14. CASE UNCHANGED vars
  BY <1>14 DEF vars, chain, reconciler, TypeOK
<1> QED
  BY <1>1, <1>2, <1>3, <1>4, <1>5, <1>6, <1>7, <1>8, <1>9, <1>10, <1>11, <1>12,
     <1>13, <1>14 DEF Next, Step

----------------------------------------------------------------------------
(* What a step does to a caller: nothing, an end, a fresh reading of the   *)
(* clock, or a step onwards in the epoch it began in.                      *)
Ends(d) == call'[d] = Idle
Begins(d) == call'[d].at \in {"lookup", "list"} /\ call'[d].e = epoch
Onwards(d) ==
  /\ call[d].at # "idle" /\ call'[d].e = call[d].e
  /\ call[d].at \in {"lookup", "waiting", "store"}
  /\ call'[d].at \in {"waiting", "store", "answered", "failed"}

LEMMA StepsOnwards ==
  ASSUME TypeOK, (\E c \in Callers : Step(c)) \/ Deliver \/ FetchFails,
         NEW d \in Callers, call'[d] # call[d]
  PROVE  Onwards(d) /\ epoch' = epoch /\ tip' = tip
<1>1. ASSUME NEW c \in Callers, NEW q, call' = [call EXCEPT ![c] = q]
      PROVE  d = c /\ call'[d] = q
  BY <1>1 DEF TypeOK
<1> USE DEF chain
<1>2. ASSUME NEW c \in Callers, Step(c)
      PROVE  Onwards(d) /\ epoch' = epoch /\ tip' = tip
  <2>1. ASSUME NEW a \in {"waiting", "answered"},
               call' = [call EXCEPT ![c].at = a], UNCHANGED chain,
               call[c].at \in {"lookup", "store"}
        PROVE  Onwards(d) /\ epoch' = epoch /\ tip' = tip
    <3> DEFINE q == [call[c] EXCEPT !.at = a]
    <3>1. call[c] \in Calls
      BY DEF TypeOK
    <3>2. q.at = a /\ q.e = call[c].e
      BY <3>1 DEF Calls
    <3>3. call' = [call EXCEPT ![c] = q]
      BY <2>1 DEF TypeOK
    <3> HIDE DEF q
    <3> QED
      BY <1>1, <2>1, <3>2, <3>3 DEF Onwards
  <2>2. CASE Miss(c) \/ Store(c) \/ StoreFails(c)
    BY <2>1, <2>2 DEF Miss, Store, StoreFails
  <2>3. CASE Hit(c)
    <3> DEFINE q == [call[c] EXCEPT !.at = "answered", !.hit = TRUE, !.data = row.data]
    <3>1. call[c] \in Calls
      BY DEF TypeOK
    <3>2. q.at = "answered" /\ q.e = call[c].e
      BY <3>1 DEF Calls
    <3>3. call' = [call EXCEPT ![c] = q]
      BY <2>3 DEF Hit, TypeOK
    <3> HIDE DEF q
    <3> QED
      BY <1>1, <2>3, <3>2, <3>3 DEF Hit, Onwards
  <2> QED
    BY <1>2, <2>2, <2>3 DEF Step
<1>3. ASSUME Deliver \/ FetchFails
      PROVE  Onwards(d) /\ epoch' = epoch /\ tip' = tip
  BY <1>3, Delivered DEF Onwards, Deliver, FetchFails
<1> QED
  BY <1>2, <1>3

LEMMA Shapes ==
  ASSUME TypeOK, [Next]_vars, NEW d \in Callers, call'[d] # call[d]
  PROVE  (Ends(d) \/ Begins(d) \/ Onwards(d)) /\ epoch' = epoch /\ tip' = tip
<1>1. ASSUME NEW c \in Callers, NEW q, call' = [call EXCEPT ![c] = q]
      PROVE  d = c /\ call'[d] = q
  BY <1>1 DEF TypeOK
<1> USE DEF chain
<1>2. ASSUME NEW c \in Callers, Lookup(c)
      PROVE  Begins(d) /\ epoch' = epoch /\ tip' = tip
  BY <1>1, <1>2, Going DEF Lookup, Begins, TypeOK
<1>3. ASSUME NEW c \in Callers, Return(c)
      PROVE  Ends(d) /\ epoch' = epoch /\ tip' = tip
  BY <1>1, <1>3 DEF Return, Ends
<1>4. ASSUME (\E c \in Callers : Step(c)) \/ Deliver \/ FetchFails
      PROVE  Onwards(d) /\ epoch' = epoch /\ tip' = tip
  BY <1>4, StepsOnwards
<1>6. ASSUME Probe PROVE Begins(d) /\ epoch' = epoch /\ tip' = tip
  <2> DEFINE q == [call[Reconciler] EXCEPT !.at = "list", !.e = epoch]
  <2>1. call[Reconciler] \in Calls
    BY ReconcilerAssumption DEF TypeOK
  <2>2. q.at = "list" /\ q.e = epoch
    BY <2>1 DEF Calls
  <2>3. call' = [call EXCEPT ![Reconciler] = q]
    BY <1>6, ReconcilerAssumption DEF Probe, TypeOK
  <2> HIDE DEF q
  <2> QED
    BY <1>1, <1>6, <2>2, <2>3, ReconcilerAssumption DEF Probe, Begins
<1>7. ASSUME ListFails PROVE Ends(d) /\ epoch' = epoch /\ tip' = tip
  BY <1>1, <1>7, ReconcilerAssumption DEF ListFails, Ends
<1>8. ASSUME Restart PROVE Ends(d) /\ epoch' = epoch /\ tip' = tip
  BY <1>8 DEF Restart, Ends
<1> QED
  BY <1>2, <1>3, <1>4, <1>6, <1>7, <1>8, ReconcilerAssumption
  DEF Next, vars, NextEpoch, SourceCatchesUp, Deregisters, Delegates, Request,
      Finish, Fetch, ListActive, Commit

LEMMA TimeStep == TypeOK /\ TimeInv /\ [Next]_vars => TimeInv'
<1> SUFFICES ASSUME TypeOK, TimeInv, [Next]_vars PROVE TimeInv'
  OBVIOUS
<1>1. epoch \in Nat /\ tip \in Nat /\ Lag \in Nat
      /\ \A c \in Callers : call[c].e \in Nat /\ call[c].at # "idle" => call[c].e >= 1
  BY LagAssumption DEF TypeOK, Calls, TimeInv
<1>2. \/ epoch' = epoch /\ tip' = tip
      \/ epoch' = epoch /\ tip' = tip + 1 /\ call' = call
      \/ /\ epoch' = epoch + 1 /\ tip' = tip /\ call' = call
         /\ epoch < tip + Lag /\ \A c \in Callers : call[c].e \in {0, epoch}
  BY DEF Next, vars, chain, NextEpoch, SourceCatchesUp, Deregisters, Delegates,
     Request, Lookup, Step, Hit, Miss, Store, StoreFails, Finish, Return, Fetch,
     Deliver, FetchFails, Probe, ListActive, ListFails, Commit, Restart
<1>3. epoch' >= 1 /\ epoch' <= tip' + Lag
  BY <1>1, <1>2 DEF TimeInv
<1>4. ASSUME NEW c \in Callers
      PROVE  /\ call'[c].e <= epoch'
             /\ call'[c].at # "idle" => call'[c].e >= 1 /\ call'[c].e + 1 >= epoch'
  <2>1. CASE call'[c] = call[c]
    BY <1>1, <1>2, <2>1 DEF TimeInv
  <2>2. CASE call'[c] # call[c]
    <3>1. (Ends(c) \/ Begins(c) \/ Onwards(c)) /\ epoch' = epoch
      BY <2>2, Shapes
    <3>2. CASE Ends(c)
      <4>1. Idle.at = "idle" /\ Idle.e = 0
        BY DEF Idle
      <4> QED
        BY <1>1, <3>1, <3>2, <4>1 DEF Ends
    <3>3. CASE Begins(c)
      BY <1>1, <3>1, <3>3 DEF TimeInv, Begins
    <3>4. CASE Onwards(c)
      BY <1>1, <3>1, <3>4 DEF TimeInv, Onwards
    <3> QED
      BY <3>1, <3>2, <3>3, <3>4
  <2> QED
    BY <2>1, <2>2
<1> QED
  BY <1>3, <1>4 DEF TimeInv

(* Whoever waits goes on waiting while the flight is under way.            *)
LEMMA FlightStep == TypeOK /\ TimeInv /\ FlightInv /\ [Next]_vars => FlightInv'
<1> SUFFICES ASSUME TypeOK, TimeInv, FlightInv, [Next]_vars, flight' # None
             PROVE  FlightInv'
  BY DEF FlightInv
<1>1. ASSUME NEW c \in Callers, Miss(c), flight = None PROVE FlightInv'
  <2>1. call'[c].at = "waiting" /\ flight'.data = None
    BY <1>1, Going DEF Miss, TypeOK
  <2> QED
    BY <2>1 DEF FlightInv
<1>2. CASE Fetch
  <2>1. flight' = [flight EXCEPT !.data =
          [snap |-> [status |-> account.status, live |-> account.live,
                     active |-> IF account.status = "unknown" THEN NoPool
                                ELSE latest[tip]],
           seen |-> tip]]
        /\ UNCHANGED call /\ flight \in Flights /\ flight # None
    BY <1>2 DEF Fetch, TypeOK
  <2>2. flight'.data.seen = tip
    BY <2>1 DEF Flights
  <2>3. \A c \in Callers : call[c].e \in Nat /\ call[c].e <= epoch
    BY DEF TimeInv, TypeOK, Calls
  <2>4. \A c \in Callers : tip + Lag >= call[c].e
    BY <2>3, LagAssumption DEF TimeInv, TypeOK
  <2> QED
    BY <2>1, <2>2, <2>4 DEF FlightInv
<1>3. ASSUME flight # None, flight' = flight,
             \A w \in Callers : call[w].at = "waiting" => call'[w] = call[w]
      PROVE  FlightInv'
  BY <1>3 DEF FlightInv
<1>4. ASSUME NEW c \in Callers, NEW q, call' = [call EXCEPT ![c] = q],
             call[c].at # "waiting"
      PROVE  \A w \in Callers : call[w].at = "waiting" => call'[w] = call[w]
  BY <1>4 DEF TypeOK
<1>5. CASE UNCHANGED <<call, flight>>
  BY <1>5 DEF FlightInv
<1>6. ASSUME NEW c \in Callers, Lookup(c), call[c].at # "waiting" PROVE FlightInv'
  BY <1>3, <1>4, <1>6 DEF Lookup
<1>7. ASSUME NEW c \in Callers, Return(c) PROVE FlightInv'
  BY <1>3, <1>4, <1>7 DEF Return
<1>8. ASSUME NEW c \in Callers, Miss(c), flight # None PROVE FlightInv'
  <2>1. call' = [call EXCEPT ![c] = [call[c] EXCEPT !.at = "waiting"]]
    BY <1>8 DEF Miss, TypeOK
  <2> QED
    BY <1>3, <1>4, <1>8, <2>1 DEF Miss
<1>9. ASSUME NEW c \in Callers, Hit(c) \/ Store(c) \/ StoreFails(c) PROVE FlightInv'
  <2>1. \A w \in Callers : call[w].at = "waiting" => call'[w] = call[w]
    BY <1>9 DEF Hit, Store, StoreFails, TypeOK
  <2> QED
    BY <1>3, <1>9, <2>1 DEF Hit, Store, StoreFails
<1>10. CASE Probe \/ ListFails
  <2>1. \A w \in Callers : call[w].at = "waiting" => call'[w] = call[w]
    BY <1>10 DEF Probe, ListFails, TypeOK
  <2> QED
    BY <1>3, <1>10, <2>1 DEF Probe, ListFails
<1> QED
  BY <1>1, <1>2, <1>5, <1>6, <1>7, <1>8, <1>9, <1>10, ReconcilerAssumption
  DEF Next, vars, Step, NextEpoch, SourceCatchesUp, Deregisters, Delegates, Request,
      Finish, Deliver, FetchFails, ListActive, Commit, Restart

LEMMA RecentStep ==
  TypeOK /\ TimeInv /\ FlightInv /\ RecentInv /\ [Next]_vars => RecentInv'
<1> SUFFICES ASSUME TypeOK, TimeInv, FlightInv, RecentInv, [Next]_vars
             PROVE  RecentInv'
  OBVIOUS
<1> DEFINE Current(d) ==
      call'[d].at \in {"store", "answered"} => Recent(call'[d].data, call'[d].e)
<1>1. ASSUME NEW c \in Callers, NEW q, call' = [call EXCEPT ![c] = q],
             q.at \in {"store", "answered"} => Recent(q.data, q.e)
      PROVE  \A d \in Callers : Current(d)
  BY <1>1 DEF TypeOK, RecentInv
<1>2. ASSUME UNCHANGED row, \A d \in Callers : Current(d) PROVE RecentInv'
  BY <1>2 DEF RecentInv
<1>3. ASSUME NEW c \in Callers, Hit(c) PROVE RecentInv'
  <2> DEFINE q == [call[c] EXCEPT !.at = "answered", !.hit = TRUE, !.data = row.data]
  <2>1. call[c] \in Calls
    BY DEF TypeOK
  <2>2. q.data = row.data /\ q.e = call[c].e
    BY <2>1 DEF Calls
  <2>3. call' = [call EXCEPT ![c] = q] /\ row # None /\ row.label = call[c].e
    BY <1>3 DEF Hit, Fresh, TypeOK
  <2>4. Recent(q.data, q.e)
    BY <2>2, <2>3 DEF RecentInv
  <2> HIDE DEF q
  <2> QED
    BY <1>1, <1>2, <1>3, <2>3, <2>4 DEF Hit
<1>4. ASSUME NEW c \in Callers, Store(c) \/ StoreFails(c) PROVE RecentInv'
  <2> DEFINE q == [call[c] EXCEPT !.at = "answered"]
  <2>1. call[c] \in Calls /\ Recent(call[c].data, call[c].e)
    BY <1>4 DEF Store, StoreFails, TypeOK, RecentInv
  <2>2. q.data = call[c].data /\ q.e = call[c].e
    BY <2>1 DEF Calls
  <2>3. call' = [call EXCEPT ![c] = q]
    BY <1>4 DEF Store, StoreFails, TypeOK
  <2>4. Recent(q.data, q.e)
    BY <2>1, <2>2
  <2> HIDE DEF q
  <2>5. \A d \in Callers : Current(d)
    BY <1>1, <2>3, <2>4
  <2>6. row' # None => Recent(row'.data, row'.label)
    BY <1>4, <2>1 DEF Store, StoreFails, RecentInv
  <2> QED
    BY <2>5, <2>6 DEF RecentInv
<1>5. CASE Deliver \/ FetchFails
  <2>1. ASSUME NEW d \in Callers, call'[d].at = "store", flight # None,
               flight.data # None, call'[d].data = flight.data, call'[d].e = call[d].e
        PROVE  Recent(call'[d].data, call'[d].e)
    <3>1. PICK w \in Callers : call[w].at = "waiting"
                               /\ flight.data.seen + Lag >= call[w].e
      BY <2>1 DEF FlightInv
    <3>2. call[w].e + 1 >= epoch /\ epoch >= call[d].e
      BY <3>1 DEF TimeInv
    <3>3. /\ flight.data.seen \in Nat /\ Lag \in Nat /\ epoch \in Nat
          /\ call[w].e \in Nat /\ call[d].e \in Nat
      BY <2>1, LagAssumption DEF TypeOK, Flights, Data, Calls
    <3> QED
      BY <2>1, <3>1, <3>2, <3>3 DEF Recent
  <2>2. \A d \in Callers : Current(d)
    BY <1>5, <2>1, Delivered DEF RecentInv
  <2> QED
    BY <1>2, <1>5, <2>2 DEF Deliver, FetchFails
<1>6. ASSUME NEW c \in Callers, NEW q \in Calls, call' = [call EXCEPT ![c] = q],
             q.at \in {"idle", "list", "lookup", "waiting"}, UNCHANGED row
      PROVE  RecentInv'
  BY <1>1, <1>2, <1>6
<1>7. ASSUME NEW c \in Callers, Lookup(c) PROVE RecentInv'
  <2>1. epoch \in Nat
    BY DEF TypeOK
  <2> QED
    BY <1>6, <1>7, <2>1, Going DEF Lookup
<1>8. ASSUME NEW c \in Callers, Return(c) PROVE RecentInv'
  BY <1>6, <1>8, Going DEF Return
<1>9. ASSUME NEW c \in Callers, Miss(c) PROVE RecentInv'
  <2>1. call' = [call EXCEPT ![c] = [call[c] EXCEPT !.at = "waiting"]]
    BY <1>9 DEF Miss, TypeOK
  <2> QED
    BY <1>6, <1>9, <2>1, Going DEF Miss
<1>10. CASE Probe
  <2> DEFINE q == [call[Reconciler] EXCEPT !.at = "list", !.e = epoch]
  <2>1. call[Reconciler] \in Calls /\ epoch \in Nat
    BY ReconcilerAssumption DEF TypeOK
  <2>2. q \in Calls /\ q.at = "list"
    BY <2>1 DEF Calls
  <2>3. call' = [call EXCEPT ![Reconciler] = q]
    BY <1>10, ReconcilerAssumption DEF Probe, TypeOK
  <2> HIDE DEF q
  <2> QED
    BY <1>6, <1>10, <2>2, <2>3, ReconcilerAssumption DEF Probe
<1>11. CASE ListFails
  BY <1>6, <1>11, Going, ReconcilerAssumption DEF ListFails
<1>12. CASE Restart
  BY <1>2, <1>12, Going DEF Restart
<1>13. CASE UNCHANGED <<call, row>>
  BY <1>13 DEF RecentInv
<1> QED
  BY <1>3, <1>4, <1>5, <1>7, <1>8, <1>9, <1>10, <1>11, <1>12, <1>13,
     ReconcilerAssumption
  DEF Next, vars, Step, NextEpoch, SourceCatchesUp, Deregisters, Delegates, Request,
      Finish, Fetch, ListActive, Commit

(* The tip was read before the clock.                                      *)
LEMMA PassStep == TypeOK /\ PassInv /\ [Next]_vars => PassInv'
<1> SUFFICES ASSUME TypeOK, PassInv, [Next]_vars PROVE PassInv'
  OBVIOUS
<1>1. /\ epoch \in Nat /\ tip \in Nat /\ tip <= epoch /\ probed \in Nat
      /\ call[Reconciler].e \in Nat /\ call[Reconciler] \in Calls
  BY ReconcilerAssumption DEF TypeOK, Calls
<1>2. CASE Probe
  <2> DEFINE q == [call[Reconciler] EXCEPT !.at = "list", !.e = epoch]
  <2>1. q.at = "list" /\ call'[Reconciler] = q
    BY <1>1, <1>2, ReconcilerAssumption DEF Probe, TypeOK, Calls
  <2> HIDE DEF q
  <2>2. probed' = tip /\ epoch' = epoch
    BY <1>2 DEF Probe, chain
  <2> QED
    BY <1>1, <2>1, <2>2 DEF PassInv
<1>3. ASSUME Restart \/ ListFails \/ Commit PROVE PassInv'
  <2>1. call'[Reconciler] = Idle
    BY <1>3, ReconcilerAssumption DEF Restart, ListFails, Commit, Return, TypeOK
  <2> QED
    BY <2>1 DEF PassInv, Idle
<1>4. ASSUME probed' = probed, call'[Reconciler] = call[Reconciler],
             epoch' = epoch \/ epoch' = epoch + 1
      PROVE  PassInv'
  BY <1>1, <1>4 DEF PassInv
<1>5. ASSUME probed' = probed, Onwards(Reconciler) PROVE PassInv'
  BY <1>5 DEF PassInv, Onwards
<1>6. CASE ListActive
  <2>1. /\ call'[Reconciler] = [Idle EXCEPT !.at = "lookup", !.e = epoch]
        /\ call[Reconciler].at = "list" /\ probed' = probed
    BY <1>6, ReconcilerAssumption DEF ListActive, Lookup, TypeOK, reconciler
  <2>2. call'[Reconciler].at = "lookup" /\ call'[Reconciler].e = epoch
    BY <2>1 DEF Idle
  <2> QED
    BY <2>1, <2>2 DEF PassInv
<1>7. ASSUME NEW c \in Callers, Request(c) \/ Finish(c) PROVE PassInv'
  <2>1. PICK q : call' = [call EXCEPT ![c] = q] /\ c # Reconciler
    BY <1>7 DEF Request, Finish, Lookup, Return
  <2>2. call'[Reconciler] = call[Reconciler]
    BY <2>1, ReconcilerAssumption DEF TypeOK
  <2> QED
    BY <1>4, <1>7, <2>2 DEF Request, Finish, Lookup, Return, chain, reconciler
<1>8. ASSUME (\E c \in Callers : Step(c)) \/ Deliver \/ FetchFails PROVE PassInv'
  <2>1. probed' = probed /\ epoch' = epoch
    BY <1>8 DEF Step, Hit, Miss, Store, StoreFails, Deliver, FetchFails, chain,
       reconciler
  <2>2. CASE call'[Reconciler] # call[Reconciler]
    BY <1>5, <1>8, <2>1, <2>2, StepsOnwards, ReconcilerAssumption
  <2> QED
    BY <1>4, <2>1, <2>2
<1>9. CASE UNCHANGED <<call, probed>> /\ (epoch' = epoch \/ epoch' = epoch + 1)
  BY <1>4, <1>9
<1> QED
  BY <1>2, <1>3, <1>6, <1>7, <1>8, <1>9
  DEF Next, vars, chain, reconciler, NextEpoch, SourceCatchesUp, Deregisters,
      Delegates, Fetch

----------------------------------------------------------------------------
LEMMA InitInv == Init => IInv
<1> SUFFICES ASSUME Init PROVE IInv
  OBVIOUS
<1>1. \A c \in Callers : call[c].at = "idle" /\ call[c].e = 0
  BY DEF Init, Idle
<1>2. epoch >= 1 /\ epoch <= tip + Lag /\ epoch \in Nat
  BY LagAssumption DEF Init
<1>3. TimeInv
  BY <1>1, <1>2 DEF TimeInv
<1>4. FlightInv /\ RecentInv /\ PassInv
  BY <1>1, ReconcilerAssumption DEF Init, FlightInv, RecentInv, PassInv
<1> QED
  BY <1>3, <1>4, InitType DEF IInv

LEMMA StepInv == IInv /\ [Next]_vars => IInv'
  BY StepType, TimeStep, FlightStep, RecentStep, PassStep DEF IInv

LEMMA Invariant == Spec => []IInv
  BY InitInv, StepInv, PTL DEF Spec

(* Every reachable state is well typed, and only active snapshots are ever *)
(* in the cache.                                                           *)
THEOREM TypeCorrect == Spec => []TypeOK
<1>1. IInv => TypeOK
  BY DEF IInv
<1> QED
  BY <1>1, Invariant, PTL

(* However callers share a fetch, the clock moves and the source lags, an  *)
(* answer (cachedsource.go, Snapshot) is at most one epoch older than the  *)
(* source may be behind.                                                   *)
THEOREM AnswersBounded == Spec => []AnswersAreRecent
<1>1. IInv => AnswersAreRecent
  BY DEF IInv, RecentInv, Recent, AnswersAreRecent
<1> QED
  BY <1>1, Invariant, PTL

(* A cache hit (cachedToSnapshot) makes nobody a member and ends no active *)
(* membership, at any pool and for any snapshot.                           *)
THEOREM HitsAreHarmless == Spec => []HitKeepsActive
<1>1. \A c \in Callers, id \in PoolIds :
        LET was == DeriveState(call[c].data.snap, id)
            is == DeriveState(Answer(c), id)
        IN is = was \/ (was = "pending" /\ is = "none")
  BY DEF DeriveState, Answer, CachedToSnapshot
<1>2. HitKeepsActive
  BY <1>1 DEF HitKeepsActive
<1> QED
  BY <1>2, PTL

(* The reconciler's cursor (reconciliation.go, Run) never passes an epoch  *)
(* whose session was neither examined on recent data nor found not to be   *)
(* attestable.                                                             *)
THEOREM CursorFollowsExamination == Spec => CursorIsExamined
<1> DEFINE A == cursor' > cursor =>
             \/ call[Reconciler].at = "failed"
             \/ /\ call[Reconciler].at = "answered"
                /\ call[Reconciler].data.seen + Lag + 1 >= cursor'
<1>1. IInv /\ [Next]_vars => [A]_vars
  <2> SUFFICES ASSUME IInv, Next, cursor' > cursor
               PROVE  \/ call[Reconciler].at = "failed"
                      \/ /\ call[Reconciler].at = "answered"
                         /\ call[Reconciler].data.seen + Lag + 1 >= cursor'
    OBVIOUS
  <2>1. TypeOK /\ RecentInv /\ PassInv
    BY DEF IInv
  <2>2. cursor \in Nat
    BY <2>1 DEF TypeOK
  <2>3. CASE Commit
    <3>1. call[Reconciler].at \in {"answered", "failed"} /\ cursor' = probed
      BY <2>3 DEF Commit, Return
    <3>2. CASE call[Reconciler].at = "answered"
      <4>1. /\ call[Reconciler].data.seen + Lag + 1 >= call[Reconciler].e
            /\ call[Reconciler].e >= probed
        BY <2>1, <3>2, ReconcilerAssumption DEF RecentInv, PassInv, Recent, TypeOK
      <4>2. /\ call[Reconciler].data \in Data /\ call[Reconciler].e \in Nat
            /\ probed \in Nat /\ Lag \in Nat
        BY <2>1, <3>2, ReconcilerAssumption, LagAssumption DEF TypeOK, Calls
      <4> QED
        BY <3>1, <3>2, <4>1, <4>2 DEF Data
    <3> QED
      BY <3>1, <3>2
  <2>4. CASE Restart
    BY <2>2, <2>4 DEF Restart
  <2>5. CASE cursor' = cursor
    BY <2>2, <2>5
  <2> QED
    BY <2>3, <2>4, <2>5
    DEF Next, reconciler, Step, NextEpoch, SourceCatchesUp, Deregisters, Delegates,
        Request, Hit, Miss, Store, StoreFails, Finish, Fetch, Deliver, FetchFails,
        Probe, ListActive, ListFails
<1> HIDE DEF A
<1>2. Spec => [][A]_vars
  BY <1>1, Invariant, PTL DEF Spec
<1> USE DEF A
<1> QED
  BY <1>2 DEF CursorIsExamined
=============================================================================
