--------------------------- MODULE SnapshotCache ---------------------------
(***************************************************************************)
(* How one credential's chain snapshot reaches its callers on one network: *)
(* the active-only cache keyed by the epoch of the local clock, the single *)
(* flight that shares one fetch among the callers that miss, and the       *)
(* reconciler that watches the tip of the chain and examines the           *)
(* credential's session once for every epoch.                              *)
(*                                                                         *)
(* The local clock and the chain agree on the epoch, which every network   *)
(* an attestor may be configured on can tell; the source of chain data may *)
(* report an older tip, as it does at first.  Epochs are counted from 1.   *)
(***************************************************************************)
EXTENDS Membership

CONSTANTS
  Callers,     \* requests that ask for the snapshot
  Reconciler,  \* the caller that is the reconciler's pass
  Home,        \* bound: where the account delegates at first; NoPool: never seen
  Epochs,      \* bound: the last epoch
  Lag,         \* bound: epochs the source may be behind
  Moves,       \* bound: changes of the account
  None         \* nothing in the cache, no flight, no snapshot

ASSUME EpochsAssumption == Epochs \in Nat \ {0}
ASSUME HomeAssumption == Home \subseteq Pools \cup {NoPool}
ASSUME LagAssumption == Lag \in Nat \ {0}
ASSUME MovesAssumption == Moves \in Nat
ASSUME ReconcilerAssumption == Reconciler \in Callers

VARIABLES
  epoch,    \* the epoch of the local clock and of the chain
  tip,      \* the epoch the source reports
  account,  \* the account as the chain has it: status and delegation
  moved,    \* changes of the account so far
  latest,   \* pool of the latest active stake, as of every epoch from the tip
  row,      \* the StakeSnapshotCache row, None without one
  flight,   \* the fetch under way, None without one
  call,     \* what each caller is doing
  cursor,   \* lastEpoch of the reconciler; 0 after a start
  probed    \* the tip that made the reconciler's pass begin

chain == <<epoch, tip, account, moved, latest>>
reconciler == <<cursor, probed>>
vars == <<chain, row, flight, call, reconciler>>

Idle == [at |-> "idle", e |-> 0, data |-> None, hit |-> FALSE]

Asking == {"lookup", "waiting", "store"}

(* What the source knows: the account, and the tip it was read at; a row   *)
(* of the cache; a fetch, with its answer once there is one; and a call.   *)
Data == [snap : Snapshot, seen : Nat]
Rows == [label : Nat, data : Data]
Flights == [data : Data \cup {None}]
Calls == [at : Asking \cup {"idle", "list", "answered", "failed"},
          e : Nat, data : Data \cup {None}, hit : BOOLEAN]

ASSUME NoneAssumption == None \notin Data \cup Rows \cup Flights
----------------------------------------------------------------------------
Init ==
  /\ epoch = Lag + 1 /\ tip = 1
  /\ account \in {[status |-> IF p = NoPool THEN "unknown" ELSE "registered",
                   live |-> p] : p \in Home}
  /\ moved = 0
  /\ latest = [e \in tip..epoch |-> account.live]
  /\ row = None
  /\ flight = None
  /\ call = [c \in Callers |-> Idle]
  /\ cursor = 0 /\ probed = 0

(* The chain; a delegation becomes active at the next boundary (one epoch  *)
(* earlier than on the real chain, to the same effect).  Calls last        *)
(* seconds and epochs days: no call sees two epochs begin.                 *)
NextEpoch ==
  /\ epoch < Epochs /\ epoch < tip + Lag
  /\ \A c \in Callers : call[c].e \in {0, epoch}
  /\ epoch' = epoch + 1
  /\ latest' = [e \in tip..(epoch + 1) |->
       IF e <= epoch THEN latest[e]
       ELSE IF account.live # NoPool THEN account.live ELSE latest[epoch]]
  /\ UNCHANGED <<tip, account, moved, row, flight, call, reconciler>>

SourceCatchesUp ==
  /\ tip < epoch
  /\ tip' = tip + 1
  /\ latest' = [e \in (tip + 1)..epoch |-> latest[e]]
  /\ UNCHANGED <<epoch, account, moved, row, flight, call, reconciler>>

Moved == moved < Moves /\ moved' = moved + 1

Delegates(p) ==
  /\ account.live # p /\ Moved
  /\ account' = [status |-> "registered", live |-> p]
  /\ UNCHANGED <<epoch, tip, latest, row, flight, call, reconciler>>

Deregisters ==
  /\ account.status = "registered" /\ Moved
  /\ account' = [status |-> "not_registered", live |-> NoPool]
  /\ UNCHANGED <<epoch, tip, latest, row, flight, call, reconciler>>

----------------------------------------------------------------------------
(* A caller reads the local clock, then the cache.                         *)
Lookup(c) ==
  /\ call' = [call EXCEPT ![c] = [Idle EXCEPT !.at = "lookup", !.e = epoch]]
  /\ UNCHANGED <<chain, row, flight>>

(* The snapshot a row stands for: registered, and delegated where active.  *)
CachedToSnapshot(snap) ==
  [status |-> "registered", live |-> snap.active, active |-> snap.active]

(* What a caller is answered.                                              *)
Answer(c) ==
  IF call[c].hit THEN CachedToSnapshot(call[c].data.snap) ELSE call[c].data.snap

(* Mutant: any row will do.                                                *)
Fresh_AnyEpoch(e) == row # None

(* A hit needs the row's epoch to be the local one.                        *)
Fresh(e) == row # None /\ row.label = e

Hit(c) ==
  /\ call[c].at = "lookup" /\ Fresh(call[c].e)
  /\ call' = [call EXCEPT ![c].at = "answered", ![c].hit = TRUE,
                          ![c].data = row.data]
  /\ UNCHANGED <<chain, row, flight, reconciler>>

(* A miss, or a cache that cannot be read: the caller leads a fetch or     *)
(* joins the one under way.                                                *)
Miss(c) ==
  /\ call[c].at = "lookup"
  /\ call' = [call EXCEPT ![c].at = "waiting"]
  /\ flight' = IF flight = None THEN [data |-> None] ELSE flight
  /\ UNCHANGED <<chain, row, reconciler>>

(* The source answers from its own tip.  Of the stake history, of accounts *)
(* the chain has seen, the latest epoch with active stake counts, however  *)
(* long ago it was.                                                        *)
Fetch ==
  /\ flight # None /\ flight.data = None
  /\ flight' = [flight EXCEPT !.data =
       [snap |-> [status |-> account.status, live |-> account.live,
                  active |-> IF account.status = "unknown" THEN NoPool
                             ELSE latest[tip]],
        seen |-> tip]]
  /\ UNCHANGED <<chain, row, call, reconciler>>

(* Mutant: a fetch only fails once the source has answered.                *)
FetchFails_AfterAnswer ==
  /\ flight # None /\ flight.data # None
  /\ flight' = None
  /\ call' = [c \in Callers |->
       IF call[c].at = "waiting" THEN [call[c] EXCEPT !.at = "failed"] ELSE call[c]]
  /\ UNCHANGED <<chain, row, reconciler>>

(* A request of the fetch fails, its deadline passes, or its context ends, *)
(* which is that of the caller that began it: every waiting caller gets    *)
(* the error.                                                              *)
FetchFails ==
  /\ flight # None
  /\ flight' = None
  /\ call' = [c \in Callers |->
       IF call[c].at = "waiting" THEN [call[c] EXCEPT !.at = "failed"] ELSE call[c]]
  /\ UNCHANGED <<chain, row, reconciler>>

(* The response releases every caller of the flight.                       *)
Deliver ==
  /\ flight # None /\ flight.data # None
  /\ flight' = None
  /\ call' = [c \in Callers |->
       IF call[c].at # "waiting" THEN call[c]
       ELSE [call[c] EXCEPT !.at = "store", !.data = flight.data]]
  /\ UNCHANGED <<chain, row, reconciler>>

(* Each caller that was answered stores the snapshot, under the epoch of   *)
(* its own lookup, if it is active anywhere, and drops the row otherwise.  *)
Store(c) ==
  /\ call[c].at = "store"
  /\ call' = [call EXCEPT ![c].at = "answered"]
  /\ row' = IF call[c].data.snap.active = NoPool THEN None
            ELSE [label |-> call[c].e, data |-> call[c].data]
  /\ UNCHANGED <<chain, flight, reconciler>>

StoreFails(c) ==
  /\ call[c].at = "store"
  /\ call' = [call EXCEPT ![c].at = "answered"]
  /\ UNCHANGED <<chain, row, flight, reconciler>>

Return(c) ==
  /\ call[c].at \in {"answered", "failed"}
  /\ call' = [call EXCEPT ![c] = Idle]
  /\ UNCHANGED <<chain, row, flight>>

Request(c) ==
  c # Reconciler /\ call[c].at = "idle" /\ Lookup(c) /\ UNCHANGED reconciler
Finish(c) == c # Reconciler /\ Return(c) /\ UNCHANGED reconciler

----------------------------------------------------------------------------
(* The reconciler polls the tip; an error skips the poll.  A pass begins   *)
(* when the tip is above the cursor.                                       *)
Probe ==
  /\ call[Reconciler].at = "idle" /\ tip > cursor
  /\ probed' = tip
  /\ call' = [call EXCEPT ![Reconciler].at = "list", ![Reconciler].e = epoch]
  /\ UNCHANGED <<chain, row, flight, cursor>>

ListActive ==
  /\ call[Reconciler].at = "list"
  /\ Lookup(Reconciler)
  /\ UNCHANGED reconciler

(* Mutant: a pass that could not list the sessions advances the cursor.    *)
ListFails_Advances ==
  /\ call[Reconciler].at = "list"
  /\ call' = [call EXCEPT ![Reconciler] = Idle]
  /\ cursor' = probed /\ probed' = 0
  /\ UNCHANGED <<chain, row, flight>>

(* The sessions cannot be listed: the pass fails and the cursor stays.     *)
ListFails ==
  /\ call[Reconciler].at = "list"
  /\ call' = [call EXCEPT ![Reconciler] = Idle]
  /\ probed' = 0
  /\ UNCHANGED <<chain, row, flight, cursor>>

(* The session is examined, or left alone when its attestation failed; the *)
(* cursor advances either way.                                             *)
Commit ==
  /\ Return(Reconciler)
  /\ cursor' = probed /\ probed' = 0

(* The process dies: calls, flight and cursor are gone, the row stays.     *)
Restart ==
  /\ flight' = None
  /\ call' = [c \in Callers |-> Idle]
  /\ cursor' = 0 /\ probed' = 0
  /\ UNCHANGED <<chain, row>>

Step(c) == Hit(c) \/ Miss(c) \/ Store(c) \/ StoreFails(c)

Next ==
  \/ NextEpoch \/ SourceCatchesUp \/ Deregisters
  \/ \E p \in Pools : Delegates(p)
  \/ \E c \in Callers : Request(c) \/ Step(c) \/ Finish(c)
  \/ Fetch \/ Deliver \/ FetchFails
  \/ Probe \/ ListActive \/ ListFails \/ Commit \/ Restart

(* Handlers and the reconciler's loop run, and a fetch ends at its         *)
(* deadline of ten seconds; the listing may fail again and again but not   *)
(* for ever.  Nothing makes the source answer, an epoch begin or a client  *)
(* call.                                                                   *)
Fairness ==
  /\ WF_vars(Deliver \/ FetchFails)
  /\ \A c \in Callers : WF_vars(Step(c) \/ Finish(c))
  /\ WF_vars(Probe \/ ListActive \/ ListFails \/ Commit) /\ SF_vars(ListActive)

Spec == Init /\ [][Next]_vars /\ Fairness

----------------------------------------------------------------------------
(* Every variable is in its domain, and a caller that needs data has some. *)
(* Only active snapshots are ever in the cache.                            *)
TypeOK ==
  /\ epoch \in Nat /\ tip \in Nat /\ tip <= epoch /\ moved \in Nat
  /\ account \in [status : Accounts, live : Pools \cup {NoPool}]
  /\ latest \in [tip..epoch -> Pools \cup {NoPool}]
  /\ row = None \/ (row \in Rows /\ row.data.snap.active \in Pools)
  /\ flight \in Flights \cup {None}
  /\ call \in [Callers -> Calls]
  /\ \A c \in Callers : call[c].at \in {"store", "answered"} => call[c].data # None
  /\ cursor \in Nat /\ probed \in Nat

(* A snapshot that a caller gets shows the stake of an epoch at most one   *)
(* older than the source was allowed to be: a row serves the epoch of its  *)
(* label only, and the label is read off the clock before the fetch, or    *)
(* before the caller joined a fetch that was already under way.            *)
AnswersAreRecent ==
  \A c \in Callers :
    call[c].at = "answered" => call[c].data.seen + Lag + 1 >= call[c].e

(* The reconciler's cursor advances only with a pass that examined the     *)
(* session, on data at most so much older than the cursor says, or whose   *)
(* attestation of the session failed.                                      *)
CursorIsExamined ==
  [][cursor' > cursor =>
       \/ call[Reconciler].at = "failed"
       \/ /\ call[Reconciler].at = "answered"
          /\ call[Reconciler].data.seen + Lag + 1 >= cursor']_vars

(* A cache hit changes nobody's active membership: all it can do to the    *)
(* state at a pool is to lose an entering member (pending becomes none).   *)
HitKeepsActive ==
  \A c \in Callers : call[c].at = "answered" =>
    \A id \in PoolIds :
      LET was == DeriveState(call[c].data.snap, id)
          is == DeriveState(Answer(c), id)
      IN is = was \/ (was = "pending" /\ is = "none")

(* The reconciler keeps up with the tip, unless the process restarts for   *)
(* ever: its calls are answered though the source may never answer, and    *)
(* though the fetch it waits for runs under the context of another caller. *)
PassesFollowTheTip == []<>(cursor >= tip) \/ []<><<Restart>>_vars

(* cachedsource.go: "pending/none are never cached".  A hit gives the same *)
(* state at every pool as the fetch that filled the row.                   *)
PendingIsRecomputed ==
  \A c \in Callers : call[c].at = "answered" =>
    \A id \in PoolIds :
      DeriveState(call[c].data.snap, id) = "pending" =>
        DeriveState(Answer(c), id) = "pending"
============================================================================
