# Ouro Pass issuer: specification and proofs

This directory models the server of Ouro Pass (`src/server`), a self-hosted
OAuth issuer for Cardano staking identities, in TLA+. TLC checks the models on
small instances; TLAPS checks the proofs of the properties that matter most for
every value of the constants.

    tlc -config MCRefreshGrants_pg.cfg MCRefreshGrants      # one run
    tlapm RefreshGrantsProofs.tla                           # one proof module

`PROJECT.json` lists the components, the runs, the mutants each property was
tested against, the source lines of every definition, the findings, the hazards
and the theorems.

## 1. Inventory

One process serves the HTTP API and runs a nonce sweep, a Telegram supervisor
with one polling worker per bot, a push worker and a reconciler. They share no
memory to speak of; they meet in the database: SQLite through a pool of one
connection, or PostgreSQL under READ COMMITTED. Almost every operation is a
sequence of statements that autocommit, so two operations interleave between
any two of their statements. Transactions are used in four places: consuming a
code, rotating a refresh grant, revoking a rotation chain, migrating.

| Component | State | Operations | What is hard | What makes it correct |
|---|---|---|---|---|
| Refresh grants (`core/oauth/token.go`, `introspect.go`, `store/repo_refreshgrant.go`) | `RefreshGrant` rows: status, rotated_from, credential, expiry | create, rotate, expire, replay -> revoke chain, revoke, revoke all of a member | concurrent refreshes; a chain walked while it grows; failures between two writes; one SQLite connection | one live grant per session; no fork; a replay ends the session; a member revocation ends all of it |
| One-time codes (`repo_authnonce.go`, `repo_authorizationcode.go`, `repo_activationcode.go`, `core/walletauth`) | rows with consumed_at, expiry, binding | create, consume, sweep | check-then-update under concurrency; clock read early; sweep in between; lost commit reply | redeemed once, rightfully; refusals are true and free |
| Channel subscriptions (`worker/reconciliation`, `worker/telegram`, `repo_subscriptionsession.go`, admin handlers) | `SubscriptionSession` rows, the list a pass holds | activate, unsubscribe, cancel, cascades, reconcile | three writers that never look at each other's writes; grace periods across failures and restarts | expiry only after a whole grace period; cancellation lasts; lapsed sessions end |
| Signing keys (`core/keys`, `repo_issuerkey.go`) | `IssuerKey` rows | rotate, retire, sign, JWKS | rotation in several statements; signing with a key read earlier | live tokens verify; there is a signer; JWKS complete |
| Token issuance (`core/oauth`, `repo_issuedtoken.go`, `repo_blacklist.go`) | `IssuedToken`, `Blacklist` rows | authorize, exchange, refresh, introspect, revoke member | code closed before the checks; four-statement revocation | only members are served; a code pays once; a revoked member holds nothing usable |
| Membership, attestors, tier (`core/membership`, `core/attestor`, `core/tier`) | none: pure functions, over the rows of the next one | derive state, evaluate the set, evaluate and validate rules | fact names, rule order, sources asked one after the other | the verdict of an evaluation is that of what its sources said |
| Configuration (`handlers_admin_attestors.go`, `repo_attestorconfig.go`, `repo_issuerconfig.go`) | `AttestorConfig` rows, `tier_rules` | create, update, delete sources; replace the rules | read-merge-write beside deletions; rules and sources read at different instants | a deleted source stays deleted |
| Snapshot cache (`core/membership/cachedsource.go`, `repo_stakesnapshotcache.go`) | one row per credential and network, one fetch in flight | snapshot | epoch boundary against a source that lags, shared fetch and shared failure | serves stake no older than it claims; a hit is as good as a fetch for active members |
| Reconciler trigger (`reconciliation.go` `Run`) | epoch cursor per network | poll, run a pass | cursor after failures and restarts | every tip is followed by a pass that did examine the sessions |
| Push (`worker/push`, `repo_pushjob.go`, `repo_deliverylog.go`) | job status, delivery log, the batch in memory | create, pick up, deliver with retries, close | crash and shutdown while running; lost answers; recipients listed early | no subscription gets it twice; log and verdict are true; leavers are spared |
| Bots (`worker/telegram/supervisor.go`, `telegram.go`, `transport_botapi.go`) | running map, update offset | start and stop workers, poll, handle | overlap of old and new worker; offset in memory | one worker in charge; no update lost; the bots follow the table |
| Channel administration (`handlers_admin_resources.go`, `repo_channelconfig.go`) | `ChannelConfig` rows | create, update, enable, disable, delete | read-modify-write; deletion in two statements beside a live bot | the last writer wins; orphans only by a late activation |
| Administrators (`core/admin`, `handlers_admin.go`, `repo_adminuser.go`, `repo_adminsession.go`, `repo_oauthclient.go`) | `AdminUser`, `AdminSession`, `OAuthClient` rows | login, bootstrap, authenticate, step-up, the sensitive operations | two first logins; session, role and signature checked at different instants | one signature, one operation; sessions belong to their signer |
| HTTP middleware (`httpapi/middleware`) | idempotency cache, rate limiters | replay, limit | two requests with one key | not modelled, see section 7 |
| Migration (`store/migrate.go`) | `schema_migrations` | apply each version | crash between versions | not modelled, see section 7 |
| Chain source (`utils/chain/koios.go`) | none | one account and its stake history | answers behind the epoch, failures | modelled as the fetch of SnapshotCache |
| Cryptography, start-up, web console | - | - | - | not modelled, see section 7 |

## 2. How the modules fit together

Each component has a module with its actions, an `MC` module with the instance
TLC checks, and a `...Proofs` module, which in two cases serves two components
that share nothing else (their names differ, those of Subscriptions and
Configuration by a prefix, so that one module can extend both). The components
meet as the code does, in tables and calls:

* Issuance composes codes, refresh grants and the blacklist over the life of a
  member's tokens; OneTimeCodes and RefreshGrants are the same tables in full.
* Membership is the pure part (DeriveState, Attest, the union of facts, the tier
  rules), used by SnapshotCache (what a cache hit does to a state) and by
  Configuration (what an evaluation concludes).
* SnapshotCache composes the cache, its callers and the reconciler's trigger;
  Subscriptions is the reconciler's pass, the bot's commands and the
  administrator's, row by row.
* Bots composes the administrator's channel requests, the supervisor, the
  workers and Telegram's queue.
* RotationChain and SingleUse are abstract specifications, which RefreshGrants
  and OneTimeCodes implement.

| Component | Abstract | Module | Proofs |
|---|---|---|---|
| Refresh grants | RotationChain | RefreshGrants | RefreshGrantsProofs |
| One-time codes | SingleUse | OneTimeCodes | OneTimeCodesProofs |
| Channel subscriptions | | Subscriptions | KeysAndSubscriptionsProofs |
| Signing keys | | SigningKeys | KeysAndSubscriptionsProofs |
| Token issuance | | Issuance | IssuanceProofs |
| Membership, tier rules | | Membership (operators), Configuration | PushAndConfigurationProofs |
| Snapshot cache, reconciler trigger | | SnapshotCache | SnapshotCacheProofs |
| Push delivery | | PushDelivery | PushAndConfigurationProofs |
| Bots, channel administration | | Bots | BotsProofs |
| Administrators | | AdminAccess | AdminAccessProofs |

Every safety property that a passing run checks is a theorem (of SQLite only for
CascadeComplete, which does not hold of PostgreSQL: see the findings). What could
come next: abstract specifications of a subscription's life and of a bot's queue,
with refinement proofs; and the several networks of the reconciler's trigger.

## 3. The modules

### RefreshGrants (abstract: RotationChain)

`status`, `rotatedFrom`, `sch` and `lapsed` are the columns of the table as
committed. A handler is the goroutine of a request; `pc`, `subject`, `todo` and
`batch` are its local variables and the rows its open transaction has written.
`family` and `condemned` are history: which login a row descends from, and
which sessions a chain revocation has covered.

`POST /api/oauth/token` with a refresh token is `Present` (the read outside the
transaction, and the branch on it), then `Expire`, or `Attest` (everything
between the read and the transaction) followed by `RotateIfActive` (the guarded
UPDATE that opens the transaction) and `Mint` (the insert and the commit), or,
for a spent grant, RevokeChain's loop: `ChainUpdate`, `ChainChildren`, ...,
`ChainCommit`. `Revoke` is RFC 7009 revocation. `CascadeStart`, `CascadeLock` for
each row and `CascadeFinish` are the one statement of the member revocation: its
rows are those of the snapshot it starts from, it locks them one after the other
in any order, waiting where it must, and passes over a row that has been revoked
meanwhile. `Abandon` ends a request at any point: refusal, failed statement,
cancelled context, victim of a deadlock, crash.

`Dialect` chooses the database: on SQLite a statement needs the pool's one
connection (`Connected`), on PostgreSQL a write waits for the row locks of open
transactions (`Writable`) and every statement sees what was committed when it
started. PostgreSQL breaks a cycle of lock waits by failing one of the
transactions. OnlyCascadesDeadlock says where such cycles can arise: rotations
and chain revocations alone never form one, because RevokeChain goes from a
grant to its successor; the member revocation can, because it locks in any order.

`RotationChain` is the promise to the client: a session has at most one live
grant, which is exchanged for a new one or ends. The refinement maps
`live[f]` to the active grant of family f. NoFork, that a grant never gets two
successors, is proved (RotationNeverForks) and not a property of a run: a fork
would be an exchange of a grant that is not live, which RotationChain forbids.

### OneTimeCodes (abstract: SingleUse)

The three `Consume` operations share a shape and differ in what the code is
bound to and in the order of the checks, which `Refused` keeps. `Call` reads
the clock (`late`), `Lookup` is the read and the checks (by that reading of the
clock, however long the transaction has waited since: validity is only promised
for it), `Swap` the guarded update with its row count and the commit, whose reply
may be lost. `DeleteExpired` is the sweep. `issued` and `uses` are history. `SingleUse` says that a code is
open from its issue until it is redeemed or lost and never again; the refinement
maps `open` to the rows with consumed_at IS NULL.

### Subscriptions

`row` is the table by (channel_id, channel_user_id). The reconciler's pass is
`ListActiveSessions`, then for each listed session `Examine` (Attest and the decision,
on the listed row) and `Write`; a failing check is `ExamineFails`, a failing
write `WriteFails`. The bot is `Redeem` (code and attestation) and `Activate`
(the upsert), `Unsubscribe` its other command. `AdminCancel`, `RevokeMember`
with `CancelByStakeCredential`, and `CancelByChannelID` are the administrator's.
`Restart` drops what is in memory. Deadlines count down with `Tick`, in the
table and in the copies in memory alike. History: `lost`, the time since a pass
first found the slot's credential lost; `touched` and `clobbered`, the slots
whose row others wrote during a pass, and that a pass then wrote over.

### SigningKeys

`status` is the table. Rotate is `Rotate`, `ListActive`, `Demote` for each key,
`Create`; Retire is `Retire` (the check) and `RetireWrite`; a token request is
`ActiveSigner` and `Sign`; the JWKS is `ReadJWKS` and `ServeJWKS`. `live` is the
set of keys with an unexpired token. The code leaves it to the owner to judge
when the tokens of a key have expired, and the model assumes that the owner
judges rightly when asking (`Retire`), not that nothing happens afterwards. `cut`
is history: a rotation failed between its listing and its insert, and none has
been done since.

### Issuance

The life of a member's tokens across components. `code`, `token`, `grant` and
`banned` are the four tables; a request's statements are steps of their own.
`POST /api/connect/authorize` is `Authorize`, `CheckBlacklist`, `CheckChain`
(the two halves of evaluate), `IssueCode`; the code exchange is `Exchange`
(Consume), the two checks, then `MintToken` and `MintGrant`, two inserts that
commit one by one; a refresh is `Refresh`, the two checks, then `Rotate` and
`Mint`, one transaction. The member revocation is `RevokeMember`, `Ban`,
`SweepTokens`, `SweepGrants` (the rows its UPDATE finds) and `Swept` (their
writing, which waits for open rotations); its last statement, about
subscriptions, is in Subscriptions. `EndGrant` stands for everything else that
ends a grant, which RefreshGrants models. History: `source`, what an issue was
paid with; `saw`, what held of the member during a request; `swept` and
`overtaken`, the requests that a sweep began in the middle of, and what they
wrote.

### Membership, Configuration

Membership has no state: `DeriveState`, `Attest`, `Union`, `RepresentativeState`
and the tier rules are operators, with the code's quirks (facts are keyed by the
pool as it was configured, so that of two sources with one key the later
overwrites the earlier's state). Configuration puts them to work: `CreateSource`,
`UpdateGet` and `UpdateSource`, `DeleteSource` and `SetTierRules` are the operators'
requests; `Begin` reads the active rows (BuildSet), `AttestNext` asks one source,
`Conclude` reads the rules and gives the verdict, `EndEvaluation` is a failure or
the end of the request. Between any two of them the
account moves (`Moved`, which stands for delegation and deregistration) and
epochs begin. `member`, `active` and `seen` are history: which sources found the
account a member, and what they read.

### SnapshotCache

`epoch` is the local clock's, `tip` the source's, at most `Lag` behind. A caller
of Snapshot goes through `Lookup` (the clock), `Hit` or `Miss`, `Fetch` and
`Deliver` or `FetchFails` of the one flight, and `Store`, `StoreFails` and
`Return`. One caller is the reconciler, whose trigger is `Probe`, `ListActive` or
`ListFails`, the calls, and `Commit` of the cursor. `data.seen` records the epoch
of the source that a snapshot was read at. The account moves `Moves` times.

### PushDelivery

A recipient is a subscription, not a user: the table's key is an instance and a
channel user, one user may hold a subscription at each of several instances
(`Home`, `Owner`), and a job for all instances is sent to every one of them,
without looking at whose they are. `InScope` is the choice of the listing
statement (by instance, or by channel type), `Matches` the filter by tags after it.

`job`, `sub`, `inst` and `log` are tables; `w` is the one worker with its batch
and the counts of the running job; `up` is whether its context is cancelled.
`ListScheduled`, `Start`, `Route`, `ListActive`, `Recipient`, `Send`,
`AppendLog`, `Close` are the statements and sends of Worker.Run and
Scheduler.Run in order, each with its failure; `AnswerLost` is a message that
arrived though the send reports an error, `GiveUp` a wait that the shutdown ends.
`Shutdown` and `Restart` may come at any point. History: `got`, `lost` and `quit`.
A job whose run is cut short stays "running" for good: nothing picks it up
again, which is what keeps SentOnce.

### Bots

`row` is ChannelConfig; `req` the statements an owner's request has left;
`sup` what the supervisor listed, `running` its map, `worker` the goroutines
(cancelled ones live on until they notice); `queue`, `served` are Telegram's
queue and what was handled. `Reconcile` cancels and starts in one step, because
the map and the contexts are touched by the supervisor alone; which starts
succeed is open (`built`). `GetUpdates` confirms what is below the offset and
takes the rest; `Handle` does one update of the batch.

### AdminAccess

`users`, `sessions`, `nonces`, `clients` are tables; a request's statements are
steps of their own: the login (`LoginVerify`, `Bootstrap`, `Resolve`,
`CreateSession`), `Authenticate`, `StepUp`, and the operation (`Register`,
`RegenerateGet` and `RegenerateWrite`, `Execute`). `ops` is history: which
operations were done, by whom and with which nonce.

## 4. Runs

| Run | Instance | What holds |
|---|---|---|
| refresh_pg | PostgreSQL, 3 grants, 1 credential, 3 handlers | OneLiveGrant, SpentHasSuccessor, TheftResponseComplete, OnlyCascadesDeadlock; implements RotationChain |
| refresh_sqlite | SQLite, 2 grants, 1 credential, 3 handlers | CascadeComplete; every request is answered |
| codes | 1 nonce, 1 authorization code, 1 activation code, 2 purposes or types, 2 instances, 2 consumers | RedeemedOnce, RedeemedRightfully, RefusalsAreTrue; implements SingleUse |
| subs | 1 slot, 2 credentials, grace 2 | ExpiryIsDeserved, DeadlineStands, RevivalIsExplicit, LapsedSessionEnds, RecoveryRestores |
| subs_cancel | as subs | CancellationSticks is **violated** |
| keys_safety | 3 keys, 3 handlers | LiveTokensVerify, SignerUnlessCut, JWKSComplete |
| issuance | 1 member, 1 code, 3 issues, 3 handlers | OnlyMembersServed, NothingSpentTwice, OnlyOvertakenSurvive |
| membership | 1 credential, 2 pools, 1 caller beside the reconciler, 4 epochs, a source 1 behind, 1 move | AnswersAreRecent, HitKeepsActive, CursorIsExamined, PassesFollowTheTip |
| push | 2 jobs, 1 user subscribed at 2 instances, 2 attempts, batches of 2, 2 faults | SentOnce, LogIsTruthful, VerdictIsEarned, LeaversAreSpared, WorkerCatchesUp |
| bots | 1 instance, 2 workers, 2 writes of its row, 2 updates | NeverRunTwice, ForgottenWasHandled, OrphansAreLate, TableIsFollowed, UpdatesAreServed |
| config | 2 sources, 2 networks, 2 pools, 1 operator, 1 evaluation, 1 move | DeletedStaysDeleted, VerdictsAreDeserved |
| access | an owner, an operator, 2 requests, 4 nonces | SignaturesPayOnce, SessionsResolve |

Bounds. Three grants give a chain of two rotations, which is what a chain
revocation has to walk while a rotation extends it, and room for a second
session; three handlers put a rotation, a replay and a revocation in flight
together, or let two wait for SQLite's connection. One code of a kind is enough
because codes do not interact; the consumers of one code do. One slot is enough
because a pass treats its sessions one by one and no statement but the cascades
touches two slots. A grace period of two units has a moment strictly inside it.
Three keys let two rotations overlap over a third key that is retired. One
member is enough in issuance because no statement touches two members' rows;
three issues are an exchange and two refreshes, three handlers two of these and
a revocation. Two callers share a flight, one of them leading; four epochs let a
row's label be outrun twice. Two faults are a crash in a job and one in the
restarted worker, or a lost answer and a stop; two subscriptions let the shutdown fall between two
recipients, two jobs between two jobs of a batch. The two subscriptions are of one
user at two instances, the case in which scope, tags and recipients differ: one job
is for all instances, one for the tagged subscriptions of all, one for one instance.
Of the instances' rows only those that a job is aimed at matter. Two worker slots
are a cancelled worker and its successor; two updates let the cancellation fall
inside a batch. Two sources are what an overwritten fact, or a verdict from two
instants, takes. Two requests and two ids make the race for the owner's row, four
nonces two logins and two step-ups. The proofs remove these bounds for the
properties section 6 lists. Identifiers, handlers and consumers are
interchangeable in refresh_pg, codes, issuance and access, which use them as
symmetry sets; the runs with liveness properties use none.

### Findings

* **subs_cancel.** A pass lists an active session; its user unsubscribes (or
  the administrator cancels); the pass writes the listed row back, status
  included. The session is active again, and nobody asked for it, although the
  bot's help says "stop receiving messages".

The following can happen too, against what a comment suggests or a reader would
expect. They are not among the runs, whose properties hold in spite of them (the
table says how near they come); each has a configuration beside its module
that replays it, in which TLC finds the stated property violated.

| Configuration | Property | What happens |
|---|---|---|
| MCIssuance_revoked | RevokedMemberHoldsNothing | A code exchange has read the blacklist when the member revocation writes to it and sweeps; then the exchange inserts its rows. Under PostgreSQL a refresh does the same with its open transaction (on SQLite the open transaction keeps the UPDATE out, which refresh_sqlite and MemberRevocationOnSqlite show). The revoked member holds an active token for up to 24 hours, and an active grant, whose next refresh the blacklist refuses. OnlyOvertakenSurvive says that this window is the only way. |
| MCRefreshGrants_replay | ReplayEndsSession | A rotated grant is replayed and RevokeChain is under way when the client disconnects, a statement fails, or PostgreSQL picks it to break a deadlock. Its transaction is rolled back, tokenRefresh drops the error, and the live grant goes on living until the next replay. |
| MCSubscriptions_expire | OnlyTheLostExpire | A pass finds the grace period of a listed session over; before it writes, the user binds the slot to another credential, a member; the UPDATE by session_id, which the activation's upsert keeps, expires the new session, although the package comment says that sessions expire "once the credential is no longer a member". ExpiryIsDeserved excuses slots written by others during a pass and so does not see this; it says that it takes such a write. |
| MCSigningKeys_downtime | AlwaysASigner | Rotate demotes, then fails to insert. Every token request fails until somebody rotates again. SignerUnlessCut says that nothing else causes such an outage. |
| MCSigningKeys_terminal | RetiredIsTerminal | Two rotations list key k; one demotes it, the owner retires it, the other demotes it: k is published again, although Retire calls a retired key "already-terminal". Nobody signs with it, and tokens and signing do not suffer (LiveTokensVerify, SignerUnlessCut). |
| MCSnapshotCache_pending | PendingIsRecomputed | A member of one pool who has delegated to another is pending there by a fetch, but not by a cache hit, until the epoch ends: the cached row keeps the active pool only. |

Met while modelling, and visible in the models: a push job cut short by a crash
or a failed listing stays "running" for ever; an instance disabled after a job
was created still delivers it; a delivery given up before its first attempt would
be logged with -1 retries, were the log still written then; an update of a
channel in flight inserts the row again that a deletion removed; a former owner,
no longer configured, keeps the role in AdminUser; two spellings of one pool
count its stake twice, and one pool on two networks keeps the later state only;
a deregistered credential stays active as long as the stake history's last row is
its highest, however old.

## 5. Fairness

RefreshGrants: a request under way goes on (weak fairness on steps that wait for
nothing, strong fairness on steps that wait for a lock or the connection, since
both are handed to waiters in turn). Liveness is checked on SQLite only: under
PostgreSQL it would need the deadlock detector, which the model has as one of
the causes of `Abandon`. No fairness on clients. Because identifiers are bounded
in an instance, a mint that finds none gives up; the code's identifiers are
random and do not run out.

Subscriptions: time passes; passes keep starting, since Run polls for ever and
epochs keep advancing; strong fairness on `Examine` and `Write`, because the
chain source and the store may fail any number of times but not always. The bot
and the administrator owe nothing.

SnapshotCache: a fetch ends, with an answer or by its timeout, and a caller
goes on; the reconciler's loop runs, and its listing, tried again and again,
does not always fail (strong fairness on `ListActive`). The source owes no
answer: PassesFollowTheTip holds though every fetch fails, because a failed
attestation does not stop a pass. It is excused by restarts that never end.

PushDelivery: the worker's loop runs (weak fairness on `Work`). Nothing is
promised of a process that is stopped for good.

Bots: the supervisor ticks and reconciles; a worker with a batch handles it and
one that is cancelled returns (weak fairness); a start that is tried again and
again succeeds some time, and so does a poll (strong fairness), since
constructing a transport and asking Telegram may fail any number of times but not
always.

The other modules state safety only.

## 6. Proofs

Assumed: what the modules' ASSUMEs say (None is no identifier or row; the
identifiers of the three code tables differ; bounds are naturals), and nothing
about sizes. Every module's invariant starts from its TypeOK, proved first.

* `RefreshGrantsProofs`. The invariant adds to the properties what the handlers
  know: the grant of an open rotation is active, and no other transaction holds
  it; a rotated grant has exactly one successor of the same family; the rows a
  chain walk has written, with its queue, cover every path from the replayed
  grant to the session's live grant, so a rotation either has been waited for
  (its successor is then found) or finds the row revoked. That last part is why
  the walk updates a row before it looks for successors. The refinement proof
  shows that each step is one abstract step or a stutter. For the member
  revocation on SQLite a second invariant says that one handler at a time has the
  connection, that a session has one credential, and that the statement has
  locked or will lock every active row of the sessions it has met. For the
  deadlocks a third one (`OrderInv`) orders the rows without counting: in every
  set of rows one has no successor in the set (`LineEnds`: a new row has none
  yet), and every row a waiting chain revocation holds has its successor among
  the rows it holds or waits for. Were handlers other than member revocations to
  wait for one another in a circle, of whatever length, the rows held by those
  that walk would be a set in which every row has its successor.
* `OneTimeCodesProofs`. A code with a redemption is consumed or swept, never
  open; what a code is bound to, and presented for, has the shape of its table; a
  consumer past its checks fits the code and was in time.
* `KeysAndSubscriptionsProofs`, signing keys. A key that is being signed with or
  has live tokens is active or rotating; one about to be retired is rotating or
  retired and nobody signs with it; keys listed by a rotation never become active
  again. What a rotation demotes it replaces by a key of its own when it is done,
  whatever others demote, so without an active key there is a rotation to blame.
* `KeysAndSubscriptionsProofs`, subscriptions (`SubsInv`). The time since a loss
  was found and the grace that is left make up a whole grace period (`GraceIsOwed`),
  in the row, in the pass's listed copy and in its planned write alike, of which
  the copy equals the row and the plan is for its owner as long as nobody else
  wrote the row since the listing (`touched`); a row that a pass did write over
  others' writes is out of the claim (`clobbered`). All three places are needed,
  because a step of the pass moves the deadline from one to the next, and time
  passes in all three at once. An expiry is planned only with no grace left, hence
  when the loss is a whole grace period old.
* `IssuanceProofs`. A code held by an exchange is consumed and has paid for
  nothing, and one exchange holds it; the grant of an open rotation is active and
  has paid for nothing; a request past the blacklist was off it when it started;
  from a sweep on, every request of the member that is past the blacklist is an
  overtaken one, and active rows the sweep will not write are theirs. The last
  part needs the blacklist row to be there before the first sweep.
* `AdminAccessProofs`. What a request knows at each step still holds when it acts:
  a session, once resolved, is of the row of its key, and a role once granted is
  never taken away; a request between its step-up and its operation holds a
  consumed nonce of its key that no other request holds and no operation was paid
  with. For the owner's row: its id never changes once written, because the
  upsert keeps it, so a session created after the re-read has the id that won.
* `BotsProofs`. For the overlap of workers: one that is not cancelled is in the
  supervisor's map under its instance. For the updates: what is below the offset
  of a live worker was handled, what is ahead of its batch too, and the offset
  moves past an update only when it was handled; a cancelled worker may have
  skipped some, but never polls again, and so never confirms them. For the
  deletion: a request past its cancellation has left no active subscription that
  was not activated since.
* `SnapshotCacheProofs`. A flight always has a caller that was waiting when it
  started, so its answer is recent for that one; a caller's clock reading is at
  most one epoch old, because no call sees two epochs begin (`NextEpoch`; a call is
  bounded by a timeout of seconds, an epoch takes days); the two together bound every answer and every row of the
  cache. The reconciler's calls read the clock after its probe, hence the claim
  about the cursor.
* `PushAndConfigurationProofs`, push. Nothing was sent of a job that is scheduled, and the batch
  in memory holds scheduled jobs only; of the running job nothing was sent to those
  left, and to the subscription at hand only messages whose answer was lost; so a
  job that was marked running is never picked up by another worker, and each
  subscription is tried in one run at most. What was sent of a job, or is left to
  send to, is within its scope (`ScopeInv`), which its creation fixes (`AimsStay`);
  with the table's key (`KeyAssumption`) a job for one instance thus reaches a user
  through one subscription. Until a send of this run is answered, all
  counts are equal (for the verdict); those left had not ended their subscription
  when the job was picked up (for the leavers).

* `PushAndConfigurationProofs`, configuration (`ConfigInv`). While the sources are
  asked, the sources at which the account has been a member throughout are ones at
  which it is now; those of them that were asked have left their fact, or been
  overwritten by a source of the same pool id that was asked too; and whatever
  fact there is, the account was a member at some source at some instant. The
  verdict is read off the facts when none is left to ask. The proof needs that the
  set has every active row (`TheSetIsTheActiveRows`: the ranks of the active rows by
  age are 1 to their number, though deletions leave gaps in the ids) and what a
  union with one more source's facts keeps. `FirstMatchDecides` is about the tier
  rules: in every list the first rule that holds decides.

Only model-checked: the liveness properties (RequestsAnswered, LapsedSessionEnds,
RecoveryRestores, PassesFollowTheTip, WorkerCatchesUp, TableIsFollowed,
UpdatesAreServed), which are out of the prover's reach, and the configurations that
exhibit a finding. Evaluating the tier rules' conditions is recursive in the code;
Membership unfolds it to two levels, and the proofs say nothing of the value of a
condition.

## 7. Not modelled

* HTTP middleware. Its idempotency cache is a check-then-act in memory: two
  concurrent duplicates both reach the handler, whose own guards, modelled in
  OneTimeCodes, RefreshGrants and Issuance, keep the duplicate harmless. Rate
  limits, CSRF and headers refuse requests, which the models have anyway.
* Schema migration runs before any worker or handler starts.
* Byte-level encodings and cryptographic primitives (`utils/crypto`,
  `utils/jose`, address parsing), the HTTP requests behind one snapshot, start-up
  and configuration from the environment, developer tools, the web console and
  static pages: no state that the modelled components interleave on.
* Of the modelled components: claims, audiences and PKCE (they appear as
  refusals), introspection (it writes nothing), listing endpoints, names and
  secrets of records nobody else reads, RetireRotating and Revoke of signing keys
  and ReplaceByType of channels (no caller), the reconciler's handling of several
  networks, attestations' epoch counts and member_since.
