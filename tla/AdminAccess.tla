---------------------------- MODULE AdminAccess ----------------------------
(***************************************************************************)
(* How administrators get in and what a sensitive operation asks of them:  *)
(* login by a signed nonce, the bootstrap of the owner's row, sessions,    *)
(* the role a route requires, the step-up signature, and the registered    *)
(* clients and the audit trail that the operations write.                  *)
(*                                                                         *)
(* That a nonce is consumed at most once, in time and for its own purpose  *)
(* is what SingleUse promises of the nonce table; the step is atomic here. *)
(* Whoever signs holds the key the nonce was bound to, or another one.     *)
(***************************************************************************)
EXTENDS Naturals, FiniteSets

CONSTANTS
  Keys,      \* stake keys of administrators
  Owners,    \* those configured as owners
  Operators, \* those with a row of their own from the start
  Requests,  \* requests, one after the other in each
  Nonces,    \* bound: nonces ever issued
  Tokens,    \* bound: sessions ever created
  AdminIds,  \* bound: ids ever drawn for an admin
  Clients,   \* bound: clients ever registered
  Secrets,   \* bound: client secrets ever drawn
  None       \* no row

ASSUME KeysAssumption ==
  Owners \subseteq Keys /\ Operators \subseteq Keys \ Owners

Purposes == {"admin_login", "step_up"}
Ops == {"revoke", "register", "regenerate", "rotate", "retire"}

(* The rows of AuthNonce, AdminUser, AdminSession and OAuthClient, and     *)
(* what a request is doing.                                                *)
NonceRows == [purpose : Purposes, key : Keys, unused : BOOLEAN]
UserRows == [id : AdminIds \cup Keys, role : {"owner", "operator"}]
SessionRows == [id : AdminIds \cup Keys, key : Keys]
ClientRows == [type : {"public", "confidential"}, secret : Secrets \cup {None}]

Steps ==
  [at : {"idle", "bootstrap", "resolve", "session", "stepup", "execute",
         "regenerate", "audit"},
   key : Keys \cup {None}, user : UserRows \cup {None},
   nonce : Nonces \cup {None}, op : Ops \cup {None},
   client : Clients \cup {None}, row : AdminIds \cup ClientRows \cup {None}]

ASSUME NoneAssumption ==
  None \notin NonceRows \cup UserRows \cup SessionRows \cup ClientRows

VARIABLES
  nonces,   \* AuthNonce: nonce to its purpose, key and whether it is unused
  users,    \* AdminUser: key to id and role
  sessions, \* AdminSession: token to admin id and the key that logged in
  clients,  \* OAuthClient: id to type and secret
  req,      \* what each request is doing
  drawn,    \* ids and secrets drawn so far
  ops       \* operations carried out, numbered: which, by which key, on
            \* which nonce

vars == <<nonces, users, sessions, clients, req, drawn, ops>>

Idle == [at |-> "idle", key |-> None, user |-> None, nonce |-> None,
         op |-> None, client |-> None, row |-> None]

(* An operator's row has the id of its key's own; an owner's is drawn.     *)
Init ==
  /\ nonces = [n \in Nonces |-> None]
  /\ users = [k \in Keys |->
       IF k \in Operators THEN [id |-> k, role |-> "operator"] ELSE None]
  /\ sessions = [t \in Tokens |-> None]
  /\ clients = [c \in Clients |-> None]
  /\ req = [r \in Requests |-> Idle]
  /\ drawn = {}
  /\ ops = {}

----------------------------------------------------------------------------
Rank(role) == CASE role = "owner" -> 3 [] role = "operator" -> 2
                [] role = "viewer" -> 1 [] OTHER -> 0

AtLeast(have, min) == Rank(have) >= Rank(min)

(* The role each route requires.                                           *)
Required(op) == IF op = "revoke" THEN "operator" ELSE "owner"

Set(r, q) == req' = [req EXCEPT ![r] = q]
Refuse(r) == Set(r, Idle)

(* A nonce is bound to the key of an address; a step-up nonce is issued    *)
(* within a session, whosesoever address is named.                         *)
Challenge(purpose, k) ==
  /\ purpose = "step_up" => \E t \in Tokens : sessions[t] # None
  /\ \E n \in Nonces :
       /\ nonces[n] = None
       /\ nonces' = [nonces EXCEPT ![n] =
            [purpose |-> purpose, key |-> k, unused |-> TRUE]]
  /\ UNCHANGED <<users, sessions, clients, req, drawn, ops>>

(* Time passes the expiry of a nonce: it cannot be consumed any more.      *)
Lapse(n) ==
  /\ nonces[n] # None /\ nonces[n].unused
  /\ nonces' = [nonces EXCEPT ![n].unused = FALSE]
  /\ UNCHANGED <<users, sessions, clients, req, drawn, ops>>

Consumable(n, purpose) ==
  nonces[n] # None /\ nonces[n].unused /\ nonces[n].purpose = purpose
Consumed(n) == nonces' = [nonces EXCEPT ![n].unused = FALSE]

(* The nonce is spent before the signer's key is compared with the bound   *)
(* one: a signature by another key wastes it.                              *)
LoginVerify(r) ==
  /\ req[r].at = "idle"
  /\ \E n \in Nonces, k \in Keys :
       /\ Consumable(n, "admin_login") /\ Consumed(n)
       /\ IF nonces[n].key # k THEN Refuse(r)
          ELSE Set(r, [Idle EXCEPT !.key = k,
                 !.at = IF k \in Owners THEN "bootstrap" ELSE "resolve"])
  /\ UNCHANGED <<users, sessions, clients, drawn, ops>>

(* The owner's row is inserted under a fresh id, or its role set again:    *)
(* the id of a row that is there stays.                                    *)
Bootstrap(r) ==
  /\ req[r].at = "bootstrap"
  /\ \E id \in AdminIds \ drawn :
       /\ drawn' = drawn \cup {id}
       /\ users' = [users EXCEPT ![req[r].key] =
            [id |-> IF @ = None THEN id ELSE @.id, role |-> "owner"]]
       /\ Set(r, [req[r] EXCEPT !.at = "resolve", !.row = id])
  /\ UNCHANGED <<nonces, sessions, clients, ops>>

(* Mutant: an owner's session is bound to the id just drawn.               *)
Resolve_DrawnId(r) ==
  /\ req[r].at = "resolve"
  /\ IF users[req[r].key] = None THEN Refuse(r)
     ELSE Set(r, [req[r] EXCEPT !.at = "session", !.user =
            [id |-> IF req[r].row # None THEN req[r].row ELSE users[req[r].key].id,
             role |-> users[req[r].key].role]])
  /\ UNCHANGED <<nonces, users, sessions, clients, drawn, ops>>

(* The row is read by the key; a key without one is no administrator's.    *)
Resolve(r) ==
  /\ req[r].at = "resolve"
  /\ IF users[req[r].key] = None THEN Refuse(r)
     ELSE Set(r, [req[r] EXCEPT !.at = "session", !.user = users[req[r].key]])
  /\ UNCHANGED <<nonces, users, sessions, clients, drawn, ops>>

CreateSession(r) ==
  /\ req[r].at = "session"
  /\ \E t \in Tokens :
       /\ sessions[t] = None
       /\ sessions' = [sessions EXCEPT ![t] =
            [id |-> req[r].user.id, key |-> req[r].key]]
  /\ Refuse(r)
  /\ UNCHANGED <<nonces, users, clients, drawn, ops>>

(* Logout deletes the row; a lapsed session is refused like a deleted one. *)
Logout(t) ==
  /\ sessions[t] # None
  /\ sessions' = [sessions EXCEPT ![t] = None]
  /\ UNCHANGED <<nonces, users, clients, req, drawn, ops>>

----------------------------------------------------------------------------
(* A request for a sensitive operation: its session, the admin of that     *)
(* session and the admin's role.  What is checked here is not read again.  *)
Authenticate(r) ==
  /\ req[r].at = "idle"
  /\ \E t \in Tokens, op \in Ops, k \in Keys :
       /\ sessions[t] # None
       /\ users[k] # None /\ users[k].id = sessions[t].id
       /\ AtLeast(users[k].role, Required(op))
       /\ Set(r, [Idle EXCEPT !.at = "stepup", !.key = k, !.op = op,
                              !.user = users[k]])
  /\ UNCHANGED <<nonces, users, sessions, clients, drawn, ops>>

(* Mutant: a nonce of either purpose will do.                              *)
StepUp_AnyPurpose(r) ==
  /\ req[r].at = "stepup"
  /\ \E n \in Nonces, k \in Keys :
       /\ \E p \in Purposes : Consumable(n, p)
       /\ Consumed(n)
       /\ IF nonces[n].key # k \/ k # req[r].key THEN Refuse(r)
          ELSE Set(r, [req[r] EXCEPT !.at = "execute", !.nonce = n])
  /\ UNCHANGED <<users, sessions, clients, drawn, ops>>

(* The signer must be the admin of the session.                            *)
StepUp(r) ==
  /\ req[r].at = "stepup"
  /\ \E n \in Nonces, k \in Keys :
       /\ Consumable(n, "step_up") /\ Consumed(n)
       /\ IF nonces[n].key # k \/ k # req[r].key THEN Refuse(r)
          ELSE Set(r, [req[r] EXCEPT !.at = "execute", !.nonce = n])
  /\ UNCHANGED <<users, sessions, clients, drawn, ops>>

Done(r) ==
  /\ ops' = ops \cup 
       {[i |-> Cardinality(ops) + 1, op |-> req[r].op, key |-> req[r].key,
         nonce |-> req[r].nonce]}
  /\ Set(r, [Idle EXCEPT !.at = "audit"])

(* A client is registered under an id of its own; only a confidential one  *)
(* is given a secret.                                                      *)
Register(r) ==
  /\ req[r].at = "execute" /\ req[r].op = "register"
  /\ \E c \in Clients :
       /\ clients[c] = None
       /\ \/ /\ clients' = [clients EXCEPT ![c] = [type |-> "public", secret |-> None]]
             /\ UNCHANGED drawn
          \/ \E s \in Secrets \ drawn :
               /\ clients' = [clients EXCEPT ![c] =
                    [type |-> "confidential", secret |-> s]]
               /\ drawn' = drawn \cup {s}
  /\ Done(r)
  /\ UNCHANGED <<nonces, users, sessions>>

(* Of a client that is registered and confidential, the row is read and    *)
(* later written back whole with a new secret.                             *)
RegenerateGet(r) ==
  /\ req[r].at = "execute" /\ req[r].op = "regenerate"
  /\ \E c \in Clients :
       IF clients[c] = None THEN Refuse(r)
       ELSE IF clients[c].type # "confidential" THEN Refuse(r)
       ELSE Set(r, [req[r] EXCEPT !.at = "regenerate", !.client = c,
                                  !.row = clients[c]])
  /\ UNCHANGED <<nonces, users, sessions, clients, drawn, ops>>

RegenerateWrite(r) ==
  /\ req[r].at = "regenerate"
  /\ \E s \in Secrets \ drawn :
       /\ clients' = [clients EXCEPT ![req[r].client] =
            [req[r].row EXCEPT !.secret = s]]
       /\ drawn' = drawn \cup {s}
  /\ Done(r)
  /\ UNCHANGED <<nonces, users, sessions>>

(* The other operations write tables of other modules.                     *)
Execute(r) ==
  /\ req[r].at = "execute" /\ req[r].op \in {"revoke", "rotate", "retire"}
  /\ Done(r)
  /\ UNCHANGED <<nonces, users, sessions, clients, drawn>>

(* A statement fails, an address is wrong or the process dies; the audit   *)
(* entry, written last, may be lost too.                                   *)
End(r) ==
  /\ req[r].at # "idle" /\ Refuse(r)
  /\ UNCHANGED <<nonces, users, sessions, clients, drawn, ops>>

Step(r) ==
  \/ LoginVerify(r) \/ Bootstrap(r) \/ Resolve(r) \/ CreateSession(r)
  \/ Authenticate(r) \/ StepUp(r) \/ Register(r) \/ RegenerateGet(r)
  \/ RegenerateWrite(r) \/ Execute(r) \/ End(r)

Next ==
  \/ \E p \in Purposes, k \in Keys : Challenge(p, k)
  \/ \E n \in Nonces : Lapse(n)
  \/ \E t \in Tokens : Logout(t)
  \/ \E r \in Requests : Step(r)

Spec == Init /\ [][Next]_vars
----------------------------------------------------------------------------
(* Every variable is in its domain, and a request that is about to write a *)
(* client holds one.                                                       *)
TypeOK ==
  /\ nonces \in [Nonces -> NonceRows \cup {None}]
  /\ users \in [Keys -> UserRows \cup {None}]
  /\ sessions \in [Tokens -> SessionRows \cup {None}]
  /\ clients \in [Clients -> ClientRows \cup {None}]
  /\ req \in [Requests -> Steps]
  /\ \A r \in Requests : req[r].at = "regenerate" =>
       req[r].client \in Clients /\ req[r].row \in ClientRows

(* One step-up signature pays for one sensitive operation, of the admin    *)
(* who signed it, who had the role it requires: neither another            *)
(* operation, of a second request with the same body, nor another admin's  *)
(* session, nor a login signature gets one carried out.                    *)
SignaturesPayOnce ==
  /\ \A x, y \in ops : x.nonce = y.nonce => x = y
  /\ \A x \in ops :
       /\ nonces[x.nonce].purpose = "step_up"
       /\ nonces[x.nonce].key = x.key
       /\ AtLeast(users[x.key].role, Required(x.op))

(* Every session is that of an admin, and of the one whose key logged in,  *)
(* though two first logins of the owner may both draw an id for the row.   *)
SessionsResolve ==
  \A t \in Tokens : sessions[t] # None =>
    users[sessions[t].key] # None /\ users[sessions[t].key].id = sessions[t].id
============================================================================
