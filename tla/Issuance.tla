------------------------------ MODULE Issuance ------------------------------
(***************************************************************************)
(* How a member comes by tokens, and how an administrator takes them away: *)
(* POST /api/connect/authorize, the two grant types of POST                *)
(* /api/oauth/token, RFC 7009 revocation and the member revocation, over   *)
(* the tables AuthorizationCode, IssuedToken, RefreshGrant and Blacklist.  *)
(*                                                                         *)
(* Requests interleave between any two statements, as under READ COMMITTED.*)
(* Consume is a single step here (OneTimeCodes looks inside), and so is the*)
(* subscriptions' part of the member revocation (see Subscriptions).  What *)
(* ends a grant other than its rotation or a member revocation (RFC 7009,  *)
(* a replay, its expiry: see RefreshGrants) is EndGrant, and the statuses  *)
(* revoked and expired are both "ended".  An issue is what one call of mint*)
(* writes: a row of IssuedToken and a row of RefreshGrant.                 *)
(***************************************************************************)
EXTENDS Naturals

CONSTANTS
  Members,   \* stake credential hashes
  Codes,     \* authorization codes
  Issues,    \* calls of mint: a jti with its refresh_grant_id
  Handlers,  \* request goroutines
  None       \* nobody, nothing

ASSUME NoneAssumption == None \notin Members \cup Codes \cup Issues
ASSUME SourcesAssumption == Codes \cap Issues = {}

VARIABLES
  delegating,  \* members some attestor finds a credential of
  banned,      \* rows of Blacklist
  code,        \* status of each authorization code
  bearer,      \* the member a code was issued to
  token,       \* status of each row of IssuedToken
  grant,       \* status of each row of RefreshGrant
  owner,       \* the member of an issue
  pc,          \* where each request is
  who,         \* the member it is about
  spends,      \* the code or grant it was given
  issue,       \* the issue it is writing
  todo,        \* the grants its UPDATE has found
  source,      \* history: the code or grant an issue was paid with
  saw,         \* history: what held of the member at some time of the request
  swept,       \* history: requests that a member revocation has overtaken
  overtaken,   \* history: issues written by such requests
  revoked      \* history: members whose revocation has run to its end

tables == <<banned, code, bearer, token, grant, owner>>
local == <<pc, who, spends, issue, todo>>
history == <<source, saw, swept, overtaken, revoked>>
vars == <<delegating, tables, local, history>>

Facts == {"unbanned", "delegating"}

(* Where a request is once it has read the blacklist.                      *)
PastBlacklist == {"attest-authorize", "attest-exchange", "attest-refresh",
                  "code", "token", "grant", "rotate", "mint"}
Revoking == {"ban", "sweep-tokens", "sweep-grants", "sweeping"}
Places == PastBlacklist \cup Revoking \cup {"idle", "authorize", "exchange", "refresh"}

TypeOK ==
  /\ delegating \subseteq Members /\ banned \subseteq Members
  /\ code \in [Codes -> {"absent", "open", "consumed"}]
  /\ bearer \in [Codes -> Members \cup {None}]
  /\ token \in [Issues -> {"absent", "active", "revoked"}]
  /\ grant \in [Issues -> {"absent", "active", "rotated", "ended"}]
  /\ owner \in [Issues -> Members \cup {None}]
  /\ pc \in [Handlers -> Places]
  /\ who \in [Handlers -> Members \cup {None}]
  /\ spends \in [Handlers -> Codes \cup Issues \cup {None}]
  /\ issue \in [Handlers -> Issues \cup {None}]
  /\ todo \in [Handlers -> SUBSET Issues]
  /\ source \in [Issues -> Codes \cup Issues \cup {None}]
  /\ saw \in [Handlers -> SUBSET Facts]
  /\ swept \subseteq Handlers /\ overtaken \subseteq Issues /\ revoked \subseteq Members
  /\ \A h \in Handlers :
       /\ pc[h] # "idle" => who[h] \in Members
       /\ pc[h] \in {"refresh", "attest-refresh", "rotate", "mint"} =>
            spends[h] \in Issues /\ owner[spends[h]] = who[h]
       /\ pc[h] = "grant" => issue[h] \in Issues /\ owner[issue[h]] = who[h]
       /\ pc[h] # "sweeping" => todo[h] = {}
       /\ \A i \in todo[h] : owner[i] = who[h]
  /\ \A i \in Issues : token[i] # "absent" \/ grant[i] # "absent" => owner[i] \in Members
  /\ \A c \in Codes : code[c] # "absent" => bearer[c] \in Members

----------------------------------------------------------------------------
Goto(h, place) == pc' = [pc EXCEPT ![h] = place]

(* A request about member m that was given s starts at place.              *)
Begin(h, place, m, s) ==
  /\ pc[h] = "idle"
  /\ Goto(h, place)
  /\ who' = [who EXCEPT ![h] = m]
  /\ spends' = [spends EXCEPT ![h] = s]
  /\ UNCHANGED <<issue, todo, swept>>

(* What holds of m when a request for codes or tokens starts.              *)
Note(h, m) ==
  saw' = [saw EXCEPT ![h] = {f \in Facts : /\ f = "unbanned" => m \notin banned
                                           /\ f = "delegating" => m \in delegating}]

Answer(h) ==
  /\ Goto(h, "idle")
  /\ who' = [who EXCEPT ![h] = None]
  /\ spends' = [spends EXCEPT ![h] = None]
  /\ issue' = [issue EXCEPT ![h] = None]
  /\ todo' = [todo EXCEPT ![h] = {}]
  /\ saw' = [saw EXCEPT ![h] = {}]
  /\ swept' = swept \ {h}

(* A jti and a refresh_grant_id are random and never drawn twice.          *)
Unused == {i \in Issues : owner[i] = None}

(* What the insert of the token row of i records; the issue was paid with s.*)
Ledger(h, i) ==
  /\ token' = [token EXCEPT ![i] = "active"]
  /\ owner' = [owner EXCEPT ![i] = who[h]]
  /\ source' = [source EXCEPT ![i] = spends[h]]
  /\ overtaken' = overtaken \cup {j \in {i} : h \in swept}

(* Grants a rotation in an open transaction has written.                   *)
Locked == {spends[h] : h \in {k \in Handlers : pc[k] = "mint"}}

(* A sweep of member m's rows overtakes the requests of m that have read   *)
(* the blacklist and not written their rows yet.                           *)
Overtakes(m) ==
  swept' = swept \cup {h \in Handlers : who[h] = m /\ pc[h] \in PastBlacklist}

Init ==
  /\ delegating = Members /\ banned = {}
  /\ code = [c \in Codes |-> "absent"] /\ bearer = [c \in Codes |-> None]
  /\ token = [i \in Issues |-> "absent"] /\ grant = [i \in Issues |-> "absent"]
  /\ owner = [i \in Issues |-> None]
  /\ pc = [h \in Handlers |-> "idle"] /\ who = [h \in Handlers |-> None]
  /\ spends = [h \in Handlers |-> None] /\ issue = [h \in Handlers |-> None]
  /\ todo = [h \in Handlers |-> {}]
  /\ source = [i \in Issues |-> None] /\ saw = [h \in Handlers |-> {}]
  /\ swept = {} /\ overtaken = {} /\ revoked = {}

----------------------------------------------------------------------------
(* What the attestors answer about m changes: the delegation, the epoch, or*)
(* the set of attestors.                                                   *)
Delegate(m) ==
  /\ delegating' = delegating \cup {m}
  /\ saw' = [h \in Handlers |->
       IF who[h] = m /\ pc[h] \notin Revoking THEN saw[h] \cup {"delegating"} ELSE saw[h]]
  /\ UNCHANGED <<tables, local, source, swept, overtaken, revoked>>

Undelegate(m) ==
  /\ delegating' = delegating \ {m}
  /\ UNCHANGED <<tables, local, history>>

(* Authorize, after Wallet.Verify has named the member.                    *)
Authorize(h, m) ==
  /\ Begin(h, "authorize", m, None) /\ Note(h, m)
  /\ UNCHANGED <<delegating, tables, source, overtaken, revoked>>

(* Mutant: the code is looked up and not closed.                           *)
Exchange_NotConsumed(h, c) ==
  /\ code[c] = "open"
  /\ Begin(h, "exchange", bearer[c], c) /\ Note(h, bearer[c])
  /\ UNCHANGED <<delegating, tables, source, overtaken, revoked>>

(* tokenAuthCode: the code is closed before anything else is looked at.    *)
Exchange(h, c) ==
  /\ code[c] = "open"
  /\ Begin(h, "exchange", bearer[c], c) /\ Note(h, bearer[c])
  /\ code' = [code EXCEPT ![c] = "consumed"]
  /\ UNCHANGED <<delegating, banned, bearer, token, grant, owner, source,
                 overtaken, revoked>>

(* Mutant: a refresh rotates without asking for the membership again.      *)
Refresh_NotReevaluated(h, i) ==
  /\ grant[i] = "active"
  /\ Begin(h, "rotate", owner[i], i) /\ Note(h, owner[i])
  /\ UNCHANGED <<delegating, tables, source, overtaken, revoked>>

(* tokenRefresh with an active grant; the read is outside the transaction. *)
Refresh(h, i) ==
  /\ grant[i] = "active"
  /\ Begin(h, "refresh", owner[i], i) /\ Note(h, owner[i])
  /\ UNCHANGED <<delegating, tables, source, overtaken, revoked>>

(* evaluate reads the blacklist ...                                        *)
CheckBlacklist(h) ==
  /\ pc[h] \in {"authorize", "exchange", "refresh"}
  /\ who[h] \notin banned
  /\ Goto(h, CASE pc[h] = "authorize" -> "attest-authorize"
               [] pc[h] = "exchange" -> "attest-exchange"
               [] OTHER -> "attest-refresh")
  /\ UNCHANGED <<delegating, tables, who, spends, issue, todo, history>>

(* ... and then asks the attestors; some credential must be held.          *)
CheckChain(h) ==
  /\ pc[h] \in {"attest-authorize", "attest-exchange", "attest-refresh"}
  /\ who[h] \in delegating
  /\ Goto(h, CASE pc[h] = "attest-authorize" -> "code"
               [] pc[h] = "attest-exchange" -> "token"
               [] OTHER -> "rotate")
  /\ UNCHANGED <<delegating, tables, who, spends, issue, todo, history>>

IssueCode(h, c) ==
  /\ pc[h] = "code" /\ code[c] = "absent"
  /\ code' = [code EXCEPT ![c] = "open"]
  /\ bearer' = [bearer EXCEPT ![c] = who[h]]
  /\ Answer(h)
  /\ UNCHANGED <<delegating, banned, token, grant, owner, source, overtaken,
                 revoked>>

(* mint on the pool: two inserts that commit one by one.                   *)
MintToken(h, i) ==
  /\ pc[h] = "token" /\ i \in Unused
  /\ Ledger(h, i)
  /\ issue' = [issue EXCEPT ![h] = i]
  /\ Goto(h, "grant")
  /\ UNCHANGED <<delegating, banned, code, bearer, grant, who, spends, todo,
                 saw, swept, revoked>>

MintGrant(h) ==
  /\ pc[h] = "grant"
  /\ grant' = [grant EXCEPT ![issue[h]] = "active"]
  /\ overtaken' = overtaken \cup {i \in {issue[h]} : h \in swept}
  /\ Answer(h)
  /\ UNCHANGED <<delegating, banned, code, bearer, token, owner, source,
                 revoked>>

(* RotateIfActive opens the transaction; the loser of a race is refused.   *)
Rotate(h) ==
  /\ pc[h] = "rotate" /\ spends[h] \notin Locked
  /\ grant[spends[h]] = "active"
  /\ Goto(h, "mint")
  /\ UNCHANGED <<delegating, tables, who, spends, issue, todo, history>>

(* mint in the transaction, and its commit.                                *)
Mint(h, i) ==
  /\ pc[h] = "mint" /\ i \in Unused
  /\ Ledger(h, i)
  /\ grant' = [grant EXCEPT ![i] = "active", ![spends[h]] = "rotated"]
  /\ Answer(h)
  /\ UNCHANGED <<delegating, banned, code, bearer, revoked>>

(* RFC 7009 revocation by jti is one update.                               *)
RevokeToken(i) ==
  /\ token[i] # "absent"
  /\ token' = [token EXCEPT ![i] = "revoked"]
  /\ UNCHANGED <<delegating, banned, code, bearer, grant, owner, local,
                 history>>

EndGrant(i) ==
  /\ grant[i] # "absent" /\ i \notin Locked
  /\ grant' = [grant EXCEPT ![i] = "ended"]
  /\ UNCHANGED <<delegating, banned, code, bearer, token, owner, local,
                 history>>

----------------------------------------------------------------------------
(* Mutant: the member is not put on the blacklist first.                   *)
RevokeMember_SweepsFirst(h, m) ==
  /\ Begin(h, "sweep-tokens", m, None)
  /\ UNCHANGED <<delegating, tables, history>>

(* adminRevokeMember, after the step-up signature: one statement after the *)
(* other, the first of them the blacklist's.                               *)
RevokeMember(h, m) ==
  /\ Begin(h, "ban", m, None)
  /\ UNCHANGED <<delegating, tables, history>>

Ban(h) ==
  /\ pc[h] = "ban"
  /\ banned' = banned \cup {who[h]}
  /\ Goto(h, "sweep-tokens")
  /\ UNCHANGED <<delegating, code, bearer, token, grant, owner, who, spends,
                 issue, todo, history>>

SweepTokens(h) ==
  /\ pc[h] = "sweep-tokens"
  /\ token' = [i \in Issues |->
       IF owner[i] = who[h] /\ token[i] = "active" THEN "revoked" ELSE token[i]]
  /\ Overtakes(who[h])
  /\ Goto(h, "sweep-grants")
  /\ UNCHANGED <<delegating, banned, code, bearer, grant, owner, who, spends, issue, todo,
                 source, saw, overtaken, revoked>>

(* The grants' UPDATE finds its rows when it starts ...                    *)
SweepGrants(h) ==
  /\ pc[h] = "sweep-grants"
  /\ todo' = [todo EXCEPT ![h] =
       {i \in Issues : owner[i] = who[h] /\ grant[i] \notin {"absent", "ended"}}]
  /\ Overtakes(who[h])
  /\ Goto(h, "sweeping")
  /\ UNCHANGED <<delegating, tables, who, spends, issue, source, saw,
                 overtaken, revoked>>

(* ... and writes them when no rotation holds one of them any more.        *)
Swept(h) ==
  /\ pc[h] = "sweeping" /\ todo[h] \cap Locked = {}
  /\ grant' = [i \in Issues |-> IF i \in todo[h] THEN "ended" ELSE grant[i]]
  /\ revoked' = revoked \cup {who[h]}
  /\ Answer(h)
  /\ UNCHANGED <<delegating, banned, code, bearer, token, owner, source,
                 overtaken>>

(* The request ends at any point: a check refuses it (the client, the      *)
(* verifier, the blacklist, the attestors, no active signing key), a       *)
(* statement fails, the client goes away, the process dies.                *)
Abandon(h) ==
  /\ pc[h] # "idle"
  /\ Answer(h)
  /\ UNCHANGED <<delegating, tables, source, overtaken, revoked>>

Step(h) ==
  \/ \E m \in Members : Authorize(h, m) \/ RevokeMember(h, m)
  \/ \E c \in Codes : Exchange(h, c) \/ IssueCode(h, c)
  \/ \E i \in Issues : Refresh(h, i) \/ MintToken(h, i) \/ Mint(h, i)
  \/ CheckBlacklist(h) \/ CheckChain(h) \/ MintGrant(h) \/ Rotate(h)
  \/ Ban(h) \/ SweepTokens(h) \/ SweepGrants(h) \/ Swept(h)
  \/ Abandon(h)

Next ==
  \/ \E m \in Members : Delegate(m) \/ Undelegate(m)
  \/ \E i \in Issues : RevokeToken(i) \/ EndGrant(i)
  \/ \E h \in Handlers : Step(h)

Spec == Init /\ [][Next]_vars

----------------------------------------------------------------------------
(* No request writes a code or a token unless, between its start and the   *)
(* writing, its member was off the blacklist and was found a member by the *)
(* attestors: evaluate runs for both grant types as well as for authorize. *)
OnlyMembersServed ==
  \A h \in Handlers :
    pc[h] \in {"code", "token", "grant", "rotate", "mint"} => saw[h] = Facts

(* A code, and a refresh grant, pays for tokens at most once, whatever     *)
(* requests present it at the same time and wherever they fail.            *)
NothingSpentTwice ==
  \A i, j \in Issues : source[i] # None /\ source[i] = source[j] => i = j

(* Usable rows of a revoked member come only from requests that had read   *)
(* the blacklist, and not written their rows, when the sweep of that table *)
(* began: everything earlier is swept and everything later is refused,     *)
(* because the blacklist row is written first.                             *)
OnlyOvertakenSurvive ==
  \A i \in Issues :
    owner[i] \in revoked /\ "active" \in {token[i], grant[i]} => i \in overtaken

(* Once its revocation has run, a member has no usable token or grant.     *)
RevokedMemberHoldsNothing ==
  \A i \in Issues : owner[i] \in revoked => "active" \notin {token[i], grant[i]}
=============================================================================
