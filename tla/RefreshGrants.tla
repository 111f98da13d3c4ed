--------------------------- MODULE RefreshGrants ---------------------------
(***************************************************************************)
(* The RefreshGrant table and every operation the issuer performs on it,   *)
(* one action per SQL statement that another request can interleave with.  *)
(*                                                                         *)
(* A handler is the goroutine of one HTTP request.  POST /api/oauth/token  *)
(* with a refresh token reads the grant outside any transaction, attests   *)
(* the member, and only then opens the transaction that rotates the grant  *)
(* and inserts its successor; presenting a grant that was already rotated  *)
(* walks the rotation chain and revokes it.  POST /api/oauth/revoke writes *)
(* one row, and the administrator's member revocation writes every row of  *)
(* a credential.                                                           *)
(*                                                                         *)
(* The store runs on SQLite, where one pooled connection serialises whole  *)
(* transactions, or on PostgreSQL under READ COMMITTED, where a statement  *)
(* sees the rows committed when it started and waits for the row locks of  *)
(* other open transactions.  Dialect selects which.  What a transaction    *)
(* has written is kept in its handler's batch until it commits, so status  *)
(* always holds the committed rows.                                        *)
(***************************************************************************)
EXTENDS FiniteSets

CONSTANTS
  Grants,       \* refresh_grant_id values (hashes of random 32-byte tokens)
  Credentials,  \* stake_credential_hash values
  Handlers,     \* request goroutines
  None,         \* SQL NULL
  Dialect       \* "sqlite" or "postgres"

ASSUME NoneAssumption == None \notin Grants \cup Credentials
ASSUME DialectAssumption == Dialect \in {"sqlite", "postgres"}

VARIABLES
  status,       \* committed status of each row, "absent" when there is none
  rotatedFrom,  \* committed rotated_from column
  sch,          \* committed stake_credential_hash column
  lapsed,       \* grants whose expires_at lies in the past
  pc,           \* where each handler is
  subject,      \* the grant a handler is working on
  todo,         \* rows a chain or member revocation has still to visit
  batch,        \* rows written by the handler's open transaction or statement
  family,       \* history: the grant that opened the session of a row
  condemned     \* history: sessions whose chain revocation has committed

table == <<status, rotatedFrom, sch, family>>
local == <<pc, subject, todo, batch>>
vars == <<table, lapsed, local, condemned>>

Statuses == {"absent", "active", "rotated", "revoked", "expired"}
Places == {"idle", "attest", "rotate", "mint", "expire", "update", "children",
           "cascade"}

TypeOK ==
  /\ status \in [Grants -> Statuses]
  /\ rotatedFrom \in [Grants -> Grants \cup {None}]
  /\ sch \in [Grants -> Credentials \cup {None}]
  /\ family \in [Grants -> Grants \cup {None}]
  /\ lapsed \subseteq Grants
  /\ pc \in [Handlers -> Places]
  /\ subject \in [Handlers -> Grants \cup {None}]
  /\ \A p \in Handlers : pc[p] \notin {"idle", "cascade"} => subject[p] \in Grants
  /\ todo \in [Handlers -> SUBSET Grants]
  /\ batch \in [Handlers -> SUBSET Grants]
  /\ condemned \subseteq Grants \cup {None}

----------------------------------------------------------------------------
(* The store: connections, row locks, committed rows.                      *)

Rows == {g \in Grants : status[g] # "absent"}
Fresh == Grants \ Rows
Children(g) == {c \in Grants : rotatedFrom[c] = g}

(* Mutant: the member revocation lists its rows, then updates each of them *)
(* in a statement of its own.                                              *)
InTx_ListThenUpdate(p) ==
  \/ pc[p] \in {"mint", "children"}
  \/ pc[p] = "update" /\ batch[p] # {}

(* The handler has a transaction open (or a statement running).            *)
InTx(p) ==
  \/ pc[p] \in {"mint", "children", "cascade"}
  \/ pc[p] = "update" /\ batch[p] # {}

(* Row locks an open transaction holds: the rows it has updated.           *)
Locks(p) ==
  {g \in Grants : \/ pc[p] = "mint" /\ g = subject[p]
                  \/ pc[p] \in {"update", "children", "cascade"} /\ g \in batch[p]}

(* With MaxOpenConns = 1 a statement waits for the pool's one connection.  *)
Connected(p) == Dialect = "sqlite" => \A q \in Handlers \ {p} : ~InTx(q)

Writable(p, R) == \A q \in Handlers \ {p} : Locks(q) \cap R = {}

Goto(p, place) == pc' = [pc EXCEPT ![p] = place]

Answer(p) ==
  /\ Goto(p, "idle")
  /\ subject' = [subject EXCEPT ![p] = None]
  /\ todo' = [todo EXCEPT ![p] = {}]
  /\ batch' = [batch EXCEPT ![p] = {}]

SetStatus(R, s) == status' = [g \in Grants |-> IF g \in R THEN s ELSE status[g]]

Insert(g, parent, cred, fam) ==
  /\ rotatedFrom' = [rotatedFrom EXCEPT ![g] = parent]
  /\ sch' = [sch EXCEPT ![g] = cred]
  /\ family' = [family EXCEPT ![g] = fam]

----------------------------------------------------------------------------
Init ==
  /\ status = [g \in Grants |-> "absent"]
  /\ rotatedFrom = [g \in Grants |-> None]
  /\ sch = [g \in Grants |-> None]
  /\ family = [g \in Grants |-> None]
  /\ lapsed = {}
  /\ pc = [p \in Handlers |-> "idle"]
  /\ subject = [p \in Handlers |-> None]
  /\ todo = [p \in Handlers |-> {}]
  /\ batch = [p \in Handlers |-> {}]
  /\ condemned = {}

(* The authorization_code grant inserts a chain's first row in autocommit. *)
Create(p, g, c) ==
  /\ pc[p] = "idle"
  /\ Connected(p)
  /\ g \in Fresh
  /\ status' = [status EXCEPT ![g] = "active"]
  /\ Insert(g, None, c, g)
  /\ UNCHANGED <<lapsed, local, condemned>>

(* expires_at passes.  tokenRefresh looks at it for an active grant only.  *)
Lapse(g) ==
  /\ status[g] = "active" /\ g \notin lapsed
  /\ lapsed' = lapsed \cup {g}
  /\ UNCHANGED <<table, local, condemned>>

(* tokenRefresh loads the grant and branches on what it read; a revoked,   *)
(* expired or unknown grant is refused without touching anything.          *)
ReadGrant(p, g, place, queue) ==
  /\ pc[p] = "idle"
  /\ Connected(p)
  /\ Goto(p, place)
  /\ subject' = [subject EXCEPT ![p] = g]
  /\ todo' = [todo EXCEPT ![p] = queue]
  /\ UNCHANGED <<table, lapsed, batch, condemned>>

(* Mutant: the whole family is queued at once, to be locked in any order.  *)
Present_WholeFamily(p, g) ==
  \/ status[g] = "active" /\ g \notin lapsed /\ ReadGrant(p, g, "attest", {})
  \/ status[g] = "active" /\ g \in lapsed /\ ReadGrant(p, g, "expire", {})
  \/ /\ status[g] = "rotated"
     /\ ReadGrant(p, g, "update", {h \in Rows : family[h] = family[g]})

Present(p, g) ==
  \/ status[g] = "active" /\ g \notin lapsed /\ ReadGrant(p, g, "attest", {})
  \/ status[g] = "active" /\ g \in lapsed /\ ReadGrant(p, g, "expire", {})
  \/ status[g] = "rotated" /\ ReadGrant(p, g, "update", {g})

(* The lapsed grant is marked expired, whatever has become of it since.    *)
Expire(p) ==
  /\ pc[p] = "expire"
  /\ Connected(p) /\ Writable(p, {subject[p]})
  /\ SetStatus({subject[p]}, "expired")
  /\ Answer(p)
  /\ UNCHANGED <<rotatedFrom, sch, family, lapsed, condemned>>

(* Client authentication, device match, attestation and the signing key    *)
(* are all settled before the transaction; a refusal is Abandon.           *)
Attest(p) ==
  /\ pc[p] = "attest"
  /\ Goto(p, "rotate")
  /\ UNCHANGED <<table, lapsed, subject, todo, batch, condemned>>

(* Mutants of the compare-and-swap: an unconditional update; a guard that  *)
(* only refuses revoked grants; the rotation committed ahead of the mint.  *)
RotateIfActive_Unconditional(p) ==
  /\ pc[p] = "rotate"
  /\ Connected(p) /\ Writable(p, {subject[p]})
  /\ Goto(p, "mint")
  /\ UNCHANGED <<table, lapsed, subject, todo, batch, condemned>>

RotateIfActive_NotRevoked(p) ==
  /\ pc[p] = "rotate" /\ status[subject[p]] # "revoked"
  /\ RotateIfActive_Unconditional(p)

RotateIfActive_Autocommit(p) ==
  /\ pc[p] = "rotate"
  /\ Connected(p) /\ Writable(p, {subject[p]})
  /\ status[subject[p]] = "active"
  /\ Goto(p, "mint")
  /\ SetStatus({subject[p]}, "rotated")
  /\ UNCHANGED <<rotatedFrom, sch, family, lapsed, subject, todo, batch, condemned>>

(* RotateIfActive: the compare-and-swap that opens the transaction.  The   *)
(* update re-reads the row once it holds the lock.                         *)
RotateIfActive(p) ==
  /\ pc[p] = "rotate"
  /\ Connected(p) /\ Writable(p, {subject[p]})
  /\ \/ /\ status[subject[p]] = "active"
        /\ Goto(p, "mint")
        /\ UNCHANGED <<subject, todo, batch>>
     \/ /\ status[subject[p]] # "active"
        /\ Answer(p)
  /\ UNCHANGED <<table, lapsed, condemned>>

(* Mutant: the signing key is read inside the transaction, through the pool.*)
Mint_SignerInsideTx(p) ==
  /\ pc[p] = "mint"
  /\ Dialect = "sqlite" => \A q \in Handlers : ~InTx(q)
  /\ \E n \in Fresh :
       /\ status' = [status EXCEPT ![subject[p]] = "rotated", ![n] = "active"]
       /\ Insert(n, subject[p], sch[subject[p]], family[subject[p]])
  /\ Answer(p)
  /\ UNCHANGED <<lapsed, condemned>>

(* mint inserts the successor and the transaction commits: the rotated     *)
(* status and the new row appear together.                                 *)
Mint(p) ==
  /\ pc[p] = "mint"
  /\ \E n \in Fresh :
       /\ status' = [status EXCEPT ![subject[p]] = "rotated", ![n] = "active"]
       /\ Insert(n, subject[p], sch[subject[p]], family[subject[p]])
  /\ Answer(p)
  /\ UNCHANGED <<lapsed, condemned>>

(* RevokeChain visits a grant of its queue: update the row ...             *)
ChainUpdate(p, g) ==
  /\ pc[p] = "update" /\ g \in todo[p]
  /\ Connected(p) /\ Writable(p, {g})
  /\ Goto(p, "children")
  /\ subject' = [subject EXCEPT ![p] = g]
  /\ todo' = [todo EXCEPT ![p] = @ \ {g}]
  /\ batch' = [batch EXCEPT ![p] = @ \cup {g}]
  /\ UNCHANGED <<table, lapsed, condemned>>

(* Mutant: an error while iterating ends the walk as if it were complete.  *)
ChainChildren_ErrorIgnored(p) ==
  /\ pc[p] = "children"
  /\ Goto(p, "update")
  /\ \E S \in SUBSET Children(subject[p]) :
       todo' = [todo EXCEPT ![p] = @ \cup S]
  /\ UNCHANGED <<table, lapsed, subject, batch, condemned>>

(* ... and only then select its successors, in a snapshot of their own.    *)
ChainChildren(p) ==
  /\ pc[p] = "children"
  /\ Goto(p, "update")
  /\ todo' = [todo EXCEPT ![p] = @ \cup Children(subject[p])]
  /\ UNCHANGED <<table, lapsed, subject, batch, condemned>>

ChainCommit(p) ==
  /\ pc[p] = "update" /\ todo[p] = {}
  /\ SetStatus(batch[p], "revoked")
  /\ condemned' = condemned \cup {family[subject[p]]}
  /\ Answer(p)
  /\ UNCHANGED <<rotatedFrom, sch, family, lapsed>>

(* RFC 7009 revocation of an opaque token: one unconditional update.       *)
Revoke(p, g) ==
  /\ pc[p] = "idle" /\ g \in Rows
  /\ Connected(p) /\ Writable(p, {g})
  /\ SetStatus({g}, "revoked")
  /\ UNCHANGED <<rotatedFrom, sch, family, lapsed, local, condemned>>

(* RevokeByStakeCredential is one statement.  The rows it is about are     *)
(* those committed when it starts; it locks them one at a time, and passes *)
(* over a row that was revoked while it waited for the lock.               *)
CascadeStart(p, c) ==
  /\ pc[p] = "idle"
  /\ Connected(p)
  /\ Goto(p, "cascade")
  /\ todo' = [todo EXCEPT ![p] = {g \in Rows : sch[g] = c /\ status[g] # "revoked"}]
  /\ UNCHANGED <<table, lapsed, subject, batch, condemned>>

CascadeLock(p, g) ==
  /\ pc[p] = "cascade" /\ g \in todo[p]
  /\ Writable(p, {g})
  /\ todo' = [todo EXCEPT ![p] = @ \ {g}]
  /\ batch' = [batch EXCEPT ![p] = IF status[g] = "revoked" THEN @ ELSE @ \cup {g}]
  /\ UNCHANGED <<table, lapsed, pc, subject, condemned>>

CascadeFinish(p) ==
  /\ pc[p] = "cascade" /\ todo[p] = {}
  /\ SetStatus(batch[p], "revoked")
  /\ Answer(p)
  /\ UNCHANGED <<rotatedFrom, sch, family, lapsed, condemned>>

(* The request ends early at any point: it is refused, the statement or    *)
(* the commit fails, PostgreSQL picks it to break a cycle of lock waits,   *)
(* the client's context is cancelled, or the process dies.  What an open   *)
(* transaction wrote is rolled back.                                       *)
Abandon(p) ==
  /\ pc[p] # "idle"
  /\ Answer(p)
  /\ UNCHANGED <<table, lapsed, condemned>>

Step(p) ==
  \/ \E g \in Grants, c \in Credentials : Create(p, g, c)
  \/ \E g \in Grants : Present(p, g) \/ Revoke(p, g)
  \/ \E g \in Grants : ChainUpdate(p, g) \/ CascadeLock(p, g)
  \/ \E c \in Credentials : CascadeStart(p, c)
  \/ Expire(p) \/ Attest(p) \/ RotateIfActive(p) \/ Mint(p)
  \/ ChainChildren(p) \/ ChainCommit(p) \/ CascadeFinish(p) \/ Abandon(p)

Next == (\E g \in Grants : Lapse(g)) \/ (\E p \in Handlers : Step(p))

(* Clients owe nothing, but a request under way is executed to its end.    *)
(* Lock queues and the connection pool serve waiters in turn, hence strong *)
(* fairness for the steps that wait.  Only the bound on Grants can keep    *)
(* mint from finding an identifier; the handler then gives up.             *)
Proceed(p) ==
  \/ Expire(p) \/ RotateIfActive(p)
  \/ \E g \in Grants : ChainUpdate(p, g) \/ CascadeLock(p, g)

Fairness ==
  \A p \in Handlers :
    /\ SF_vars(Proceed(p))
    /\ WF_vars(\/ Attest(p) \/ Mint(p)
               \/ ChainChildren(p) \/ ChainCommit(p) \/ CascadeFinish(p))
    /\ WF_vars(Fresh = {} /\ pc[p] = "mint" /\ Abandon(p))

Spec == Init /\ [][Next]_vars /\ Fairness

----------------------------------------------------------------------------
(* A session never has two usable refresh tokens, however many refreshes of*)
(* the same grant are in flight: the compare-and-swap in RotateIfActive    *)
(* lets one of them through.                                               *)
OneLiveGrant ==
  \A g, h \in Grants :
    /\ status[g] = "active" /\ status[h] = "active"
    /\ family[g] = family[h]
    => g = h

(* Two refreshes of one grant never both leave a successor: a fork would   *)
(* give a stolen token a branch of its own that no replay reaches.         *)
NoFork ==
  \A g, c, d \in Grants :
    rotatedFrom[c] = g /\ rotatedFrom[d] = g => c = d

(* A grant is never left rotated without a successor by a failure between  *)
(* the rotation and the insert; the client would be locked out.            *)
SpentHasSuccessor ==
  \A g \in Grants : status[g] = "rotated" => Children(g) # {}

(* Once a replayed grant's chain revocation has committed, nothing of that *)
(* session is usable, not even a successor that a refresh was inserting    *)
(* while RevokeChain walked the chain.                                     *)
TheftResponseComplete ==
  \A g \in Grants : family[g] \in condemned => status[g] # "active"

(* A replay, once answered, has ended the session of the replayed grant.   *)
ReplayEndsSession ==
  [][\A p \in Handlers :
       pc[p] \in {"update", "children"} /\ pc'[p] = "idle" =>
         family[subject[p]] \in condemned']_vars

(* Handlers that all wait for rows of one another form a deadlock, which   *)
(* PostgreSQL ends by failing one of them.  Rotations and chain revocations*)
(* never do: RevokeChain locks a session's rows in the order of rotation.  *)
(* Only the member revocation, which locks in any order, can close a cycle.*)
WaitsFor(p, W) ==
  \/ pc[p] \in {"expire", "rotate"} /\ \E q \in W \ {p} : subject[p] \in Locks(q)
  \/ /\ pc[p] = "update" /\ todo[p] # {}
     /\ \A g \in todo[p] : \E q \in W \ {p} : g \in Locks(q)

OnlyCascadesDeadlock ==
  \A W \in SUBSET {p \in Handlers : pc[p] # "cascade"} :
    W # {} => \E p \in W : ~WaitsFor(p, W)

(* When the administrator's member revocation commits, no session of which *)
(* it revoked a row is usable, whatever refreshes were in flight.          *)
CascadeComplete ==
  [][\A p \in Handlers : CascadeFinish(p) =>
       \A r \in batch[p], g \in Grants :
         family[g] = family[r] => status'[g] # "active"]_vars

(* The table implements one live grant per session, handed on or ended.    *)
ActiveIn(f) == {g \in Grants : status[g] = "active" /\ family[g] = f}

LiveGrant(f) ==
  IF ActiveIn(f) = {} THEN None ELSE CHOOSE g \in ActiveIn(f) : TRUE

Chain == INSTANCE RotationChain
  WITH live <- [f \in Grants |-> LiveGrant(f)], used <- Rows

ChainSpec == Chain!Spec

(* Every request under way is answered: nothing that holds the pooled      *)
(* connection or a row waits for a request that waits for it, so rotation, *)
(* RevokeChain and the member revocation never block one another forever.  *)
RequestsAnswered == \A p \in Handlers : pc[p] # "idle" ~> pc[p] = "idle"
============================================================================
