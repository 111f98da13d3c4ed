--------------------------- MODULE Configuration ---------------------------
(***************************************************************************)
(* The credential sources an issuer is configured with, the tier rules,    *)
(* and the evaluations that draw a credential's state and tier from them:  *)
(* administrators edit both while an evaluation asks one source after the  *)
(* other, and the chain moves on between two of them.                      *)
(*                                                                         *)
(* A snapshot here is what the chain has at the instant of the call; how   *)
(* old it may really be is SnapshotCache's question.  The blacklist, which *)
(* an evaluation reads first, is Issuance's.                               *)
(***************************************************************************)
EXTENDS Membership

CONSTANTS
  Admins,     \* requests that update a source, the only ones of two statements
  Evals,      \* evaluations of the credential
  MaxIds,     \* bound: attestors ever created, the first ones included
  First,      \* bound: the tables to begin with
  Params,     \* bound: the parameters a body may name
  Networks,   \* networks of the parameters
  Rules,      \* bound: the tier rules a body may name
  Accounts0,  \* bound: the accounts to begin with
  Moves,      \* bound: changes of the account
  None        \* no row, no value in a patch

Ids == 1..MaxIds
Bodies == [pool : PoolIds, network : Networks]
Statuses == {"active", "disabled"}
Row == [params : Bodies, status : Statuses]
Patch == [params : Params \cup {None}, status : Statuses \cup {None}]

(* A row with the fields that a body names.                                *)
Merged(row, patch) ==
  [f \in DOMAIN row |-> IF patch[f] = None THEN row[f] ELSE patch[f]]

(* An account, with the pool that its stake becomes active at next.        *)
Account ==
  [status : {"registered", "not_registered"}, live : Pools \cup {NoPool},
   next : Pools \cup {NoPool}, active : Pools \cup {NoPool}, stake : Nat]

ASSUME ConfigBoundsAssumption == MaxIds \in Nat /\ Moves \in Nat
ASSUME ParamsAssumption == Params \subseteq Bodies
ASSUME FirstAssumption == First \subseteq [Ids -> Row \cup {None}]
ASSUME AccountsAssumption ==
  \A acc \in Accounts0 : acc \in [Networks -> Account]

VARIABLES
  rows,     \* AttestorConfig: id, which is the rank of its creation, to row
  created,  \* ids taken so far
  rules,    \* tier_rules of the IssuerConfig row
  req,      \* what each operator's request is doing
  account,  \* per network, the account of the credential
  moved,    \* changes of the account so far
  eval      \* what each evaluation is doing

configs == <<rows, created, rules, req>>
chain == <<account, moved>>
configVars == <<configs, chain, eval>>

Idle == [id |-> 0, row |-> None]

Resting ==
  [at |-> "idle", left |-> <<>>, asked |-> {}, held |-> FALSE, facts |-> NoFacts,
   state |-> "none", tier |-> "", member |-> {}, active |-> {}, seen |-> {}]

ConfigInit ==
  /\ rows \in First
  /\ created = Cardinality({i \in Ids : rows[i] # None})
  /\ rules = <<>>
  /\ req = [a \in Admins |-> Idle]
  /\ account \in Accounts0
  /\ moved = 0
  /\ eval = [e \in Evals |-> Resting]

----------------------------------------------------------------------------
(* The table.  A statement may fail, the process may die, and a label that *)
(* is taken or missing refuses a body: nothing more of the request happens *)
(* then.  Labels say nothing else here and are left out.                   *)
ValidParams(p) == Canonical(p.pool) # NoPool

Free(a) == req[a] = Idle
Answered(a) == req' = [req EXCEPT ![a] = Idle]

CreateSource ==
  /\ created < MaxIds
  /\ created' = created + 1
  /\ \E p \in Params :
       /\ ValidParams(p)
       /\ rows' = [rows EXCEPT ![created'] = [params |-> p, status |-> "active"]]
  /\ UNCHANGED <<rules, req>>

(* The row is read, and merged with the body.                              *)
UpdateGet(a) ==
  /\ Free(a)
  /\ \E id \in Ids, p \in Patch :
       /\ rows[id] # None /\ ValidParams(Merged(rows[id], p).params)
       /\ req' = [req EXCEPT ![a] = [id |-> id, row |-> Merged(rows[id], p)]]
  /\ UNCHANGED <<rows, created, rules>>

(* Mutant: a row that is gone is inserted again, as channels are.          *)
UpdateSource_Upserts(a) ==
  /\ ~Free(a) /\ Answered(a)
  /\ rows' = [rows EXCEPT ![req[a].id] = req[a].row]
  /\ UNCHANGED <<created, rules>>

(* All columns are written, of a row that is still there.                  *)
UpdateSource(a) ==
  /\ ~Free(a) /\ Answered(a)
  /\ rows[req[a].id] # None
  /\ rows' = [rows EXCEPT ![req[a].id] = req[a].row]
  /\ UNCHANGED <<created, rules>>

DeleteSource ==
  /\ \E id \in Ids : rows[id] # None /\ rows' = [rows EXCEPT ![id] = None]
  /\ UNCHANGED <<created, rules, req>>

SetTierRules ==
  /\ \E r \in Rules : Validate(r) /\ rules' = r
  /\ UNCHANGED <<rows, created, req>>

Abandon(a) ==
  /\ ~Free(a) /\ Answered(a)
  /\ UNCHANGED <<rows, created, rules>>

----------------------------------------------------------------------------
(* The chain.  Of the sources that an evaluation under way asks, it is     *)
(* kept where the credential was a member, or active, throughout, and      *)
(* where it was a member at some instant.                                  *)
Places(asked, acc, states) ==
  {p \in asked : DeriveState(acc[p.network], p.pool) \in states}

Watched ==
  eval' = [e \in Evals |->
    IF eval[e].at # "attest" THEN eval[e]
    ELSE [eval[e] EXCEPT !.member = Places(@, account', {"pending", "active"}),
                         !.active = Places(@, account', {"active"}),
                         !.seen = @ \cup Places(eval[e].asked, account',
                                                {"pending", "active"})]]

Moved == moved < Moves /\ moved' = moved + 1

Delegates(n, p) ==
  /\ account[n].live # p /\ Moved
  /\ account' = [account EXCEPT ![n].status = "registered", ![n].live = p]
  /\ Watched /\ UNCHANGED configs

Deregisters(n) ==
  /\ account[n].status = "registered" /\ Moved
  /\ account' = [account EXCEPT ![n].status = "not_registered", ![n].live = NoPool]
  /\ Watched /\ UNCHANGED configs

(* A delegation is active from the second boundary on; of an account that  *)
(* stopped delegating the source keeps telling its latest active pool.     *)
NextEpoch(n) ==
  /\ account[n].next # account[n].active \/ account[n].live # account[n].next
  /\ account' = [account EXCEPT
       ![n].active = IF account[n].next = NoPool THEN @ ELSE account[n].next,
       ![n].next = account[n].live]
  /\ Watched /\ UNCHANGED <<configs, moved>>

----------------------------------------------------------------------------
(* The set is built from one read of the active rows, in order of creation.*)
ActiveSet ==
  LET rank(i) == Cardinality({j \in 1..i : rows[j] # None /\ rows[j].status = "active"})
      live == {i \in Ids : rows[i] # None /\ rows[i].status = "active"}
  IN [k \in 1..Cardinality(live) |->
        rows[CHOOSE i \in live : rank(i) = k].params]

Begin(e) ==
  /\ eval[e].at = "idle"
  /\ LET asked == {ActiveSet[k] : k \in DOMAIN ActiveSet}
         members == Places(asked, account, {"pending", "active"})
     IN eval' = [eval EXCEPT ![e] =
          [Resting EXCEPT !.at = "attest", !.left = ActiveSet, !.asked = asked,
                          !.member = members, !.seen = members,
                          !.active = Places(asked, account, {"active"})]]
  /\ UNCHANGED <<configs, chain>>

(* Mutant: the sources left are not asked once one has denied.             *)
AttestNext_Stops(e) ==
  /\ eval[e].at = "attest" /\ eval[e].left # <<>>
  /\ LET a == Head(eval[e].left)
         att == Attest(a, account[a.network])
     IN eval' = [eval EXCEPT ![e].left = IF att.held THEN Tail(@) ELSE <<>>,
                             ![e].held = @ \/ att.held,
                             ![e].facts = Union(@, att)]
  /\ UNCHANGED <<configs, chain>>

(* The next source is asked, on the network of its own parameters.         *)
AttestNext(e) ==
  /\ eval[e].at = "attest" /\ eval[e].left # <<>>
  /\ LET a == Head(eval[e].left)
         att == Attest(a, account[a.network])
     IN eval' = [eval EXCEPT ![e].left = Tail(@),
                             ![e].held = @ \/ att.held,
                             ![e].facts = Union(@, att)]
  /\ UNCHANGED <<configs, chain>>

(* The tier of a member is drawn from the rules as they are by then.       *)
Conclude(e) ==
  /\ eval[e].at = "attest" /\ eval[e].left = <<>>
  /\ LET state == RepresentativeState(eval[e].held, eval[e].facts)
     IN eval' = [eval EXCEPT ![e].at = "answered", ![e].state = state,
                   ![e].tier = IF state = "none" THEN "" ELSE Tier(rules, eval[e].facts)]
  /\ UNCHANGED <<configs, chain>>

(* One failed snapshot fails the evaluation, and so do the rules when they *)
(* cannot be read; or the answer has been used.                            *)
EndEvaluation(e) ==
  /\ eval[e].at # "idle"
  /\ eval' = [eval EXCEPT ![e] = Resting]
  /\ UNCHANGED <<configs, chain>>

Admin ==
  \/ CreateSource \/ DeleteSource \/ SetTierRules
  \/ \E a \in Admins : UpdateGet(a) \/ UpdateSource(a) \/ Abandon(a)

ConfigNext ==
  \/ Admin /\ UNCHANGED <<chain, eval>>
  \/ \E n \in Networks, p \in Pools : Delegates(n, p)
  \/ \E n \in Networks : Deregisters(n) \/ NextEpoch(n)
  \/ \E e \in Evals : Begin(e) \/ AttestNext(e) \/ Conclude(e) \/ EndEvaluation(e)

ConfigSpec == ConfigInit /\ [][ConfigNext]_configVars
----------------------------------------------------------------------------
(* A source that was deleted never serves again, though an update may have *)
(* read its row before.                                                    *)
DeletedStaysDeleted ==
  [][\A id \in 1..created : rows[id] = None => rows'[id] = None]_configVars

(* Whoever was a member at one of the sources asked throughout is not      *)
(* denied, and is active if it was active there throughout, unless two     *)
(* sources name one pool id and the second overwrites what the first said; *)
(* whoever is not denied was a member at one of them at some instant; and  *)
(* nobody else is given a tier.                                            *)
VerdictsAreDeserved ==
  \A e \in Evals : eval[e].at = "answered" =>
    /\ eval[e].member # {} => eval[e].state # "none"
    /\ eval[e].active # {} =>
         \/ eval[e].state = "active"
         \/ \E p, q \in eval[e].asked : p # q /\ p.pool = q.pool
    /\ eval[e].state # "none" => eval[e].seen # {}
    /\ eval[e].state = "none" => eval[e].tier = ""
============================================================================
