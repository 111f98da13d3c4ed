------------------------- MODULE AdminAccessProofs -------------------------
(***************************************************************************)
(* Proofs about AdminAccess, for any sets of keys, requests and nonces.    *)
(*                                                                         *)
(* Rows only grow: an admin keeps the id and at least the role, a nonce    *)
(* what it is bound to, and once spent it stays spent.  So what a request  *)
(* found out when it was authenticated still holds when it executes.       *)
(***************************************************************************)
EXTENDS AdminAccess, TLAPS

(* n was signed by k for a sensitive operation and is spent.               *)
Paid(n, k) ==
  /\ n \in Nonces /\ nonces[n] # None
  /\ ~nonces[n].unused /\ nonces[n].purpose = "step_up" /\ nonces[n].key = k

(* k is an admin whose role is enough for op.                              *)
Allowed(k, op) ==
  /\ k \in Keys /\ op \in Ops /\ users[k] # None
  /\ AtLeast(users[k].role, Required(op))

Paying(r) == req[r].at \in {"execute", "regenerate"}

(* What a request knows by the point it has reached.                       *)
Knows(r) ==
  /\ req[r].at \in {"bootstrap", "resolve", "session"} => req[r].key \in Keys
  /\ req[r].at = "session" =>
       /\ users[req[r].key] # None
       /\ req[r].user # None /\ req[r].user.id = users[req[r].key].id
  /\ req[r].at = "stepup" \/ Paying(r) => Allowed(req[r].key, req[r].op)
  /\ Paying(r) => Paid(req[r].nonce, req[r].key)

RequestInv == \A r \in Requests : Knows(r)

(* No two requests hold the same nonce.                                    *)
NonceInv ==
  /\ \A r, s \in Requests :
       Paying(r) /\ Paying(s) /\ req[r].nonce = req[s].nonce => r = s
  /\ \A r \in Requests, x \in ops : Paying(r) => req[r].nonce # x.nonce

OpsInv ==
  /\ \A x \in ops : Paid(x.nonce, x.key) /\ Allowed(x.key, x.op)
  /\ \A x, y \in ops : x.nonce = y.nonce => x = y

IInv == TypeOK /\ RequestInv /\ NonceInv /\ OpsInv /\ SessionsResolve

----------------------------------------------------------------------------
LEMMA NoneIsNoRow ==
  /\ None \notin NonceRows /\ None \notin UserRows
  /\ None \notin SessionRows /\ None \notin ClientRows
  BY NoneAssumption

(* The owner's role is enough for everything.                              *)
LEMMA OwnerMayAll == \A op \in Ops : AtLeast("owner", Required(op))
  BY DEF AtLeast, Rank, Required, Ops

LEMMA InitType == Init => TypeOK
  BY KeysAssumption DEF Init, TypeOK, Idle, UserRows, Steps

(* The steps of a request, and the rows that they write.                   *)
LEMMA SetType ==
  ASSUME TypeOK, NEW r \in Requests, NEW q \in Steps, Set(r, q),
         q.at = "regenerate" => q.client \in Clients /\ q.row \in ClientRows,
         nonces' \in [Nonces -> NonceRows \cup {None}],
         users' \in [Keys -> UserRows \cup {None}],
         sessions' \in [Tokens -> SessionRows \cup {None}],
         clients' \in [Clients -> ClientRows \cup {None}]
  PROVE  TypeOK'
  BY DEF TypeOK, Set

LEMMA IdleType ==
  /\ Idle \in Steps /\ Idle.at # "regenerate"
  /\ [Idle EXCEPT !.at = "audit"] \in Steps
  BY DEF Idle, Steps

LEMMA ConsumedType ==
  ASSUME TypeOK, NEW n \in Nonces, NEW p, Consumable(n, p), Consumed(n)
  PROVE  nonces' \in [Nonces -> NonceRows \cup {None}]
<1>1. nonces[n] \in NonceRows
  BY DEF TypeOK, Consumable
<1>2. [nonces[n] EXCEPT !.unused = FALSE] \in NonceRows
  BY <1>1 DEF NonceRows
<1> QED
  BY <1>2 DEF TypeOK, Consumed

LEMMA DoneType ==
  ASSUME TypeOK, NEW r \in Requests, Done(r), UNCHANGED <<users, nonces, sessions>>,
         clients' \in [Clients -> ClientRows \cup {None}]
  PROVE  TypeOK'
<1>1. [Idle EXCEPT !.at = "audit"].at # "regenerate"
  BY DEF Idle
<1> QED
  BY <1>1, SetType, IdleType DEF Done, TypeOK

LEMMA StepType == TypeOK /\ RequestInv /\ [Next]_vars => TypeOK'
<1> SUFFICES ASSUME TypeOK, RequestInv, [Next]_vars PROVE TypeOK'
  OBVIOUS
<1> USE NoneIsNoRow
<1>1. ASSUME NEW p \in Purposes, NEW k \in Keys, Challenge(p, k) PROVE TypeOK'
  <2>1. [purpose |-> p, key |-> k, unused |-> TRUE] \in NonceRows
    BY DEF NonceRows
  <2> QED
    BY <1>1, <2>1 DEF Challenge, TypeOK
<1>2. ASSUME NEW n \in Nonces, Lapse(n) PROVE TypeOK'
  BY <1>2, ConsumedType DEF Lapse, Consumable, Consumed, TypeOK
<1>3. ASSUME NEW t \in Tokens, Logout(t) PROVE TypeOK'
  BY <1>3 DEF Logout, TypeOK
<1>4. ASSUME NEW r \in Requests, LoginVerify(r) PROVE TypeOK'
  <2>1. PICK n \in Nonces, k \in Keys :
          /\ Consumable(n, "admin_login") /\ Consumed(n)
          /\ \/ Refuse(r)
             \/ Set(r, [Idle EXCEPT !.key = k,
                  !.at = IF k \in Owners THEN "bootstrap" ELSE "resolve"])
    BY <1>4 DEF LoginVerify
  <2>2. nonces' \in [Nonces -> NonceRows \cup {None}]
    BY <2>1, ConsumedType
  <2>3. [Idle EXCEPT !.key = k, !.at = IF k \in Owners THEN "bootstrap" ELSE "resolve"]
          \in {q \in Steps : q.at # "regenerate"}
    BY DEF Idle, Steps
  <2> QED
    BY <1>4, <2>1, <2>2, <2>3, SetType, IdleType DEF LoginVerify, Refuse, TypeOK
<1>5. ASSUME NEW r \in Requests, Bootstrap(r) PROVE TypeOK'
  <2>1. PICK id \in AdminIds :
          /\ users' = [users EXCEPT ![req[r].key] =
               [id |-> IF @ = None THEN id ELSE @.id, role |-> "owner"]]
          /\ Set(r, [req[r] EXCEPT !.at = "resolve", !.row = id])
    BY <1>5 DEF Bootstrap
  <2>2. req[r] \in Steps /\ req[r].key \in Keys
    BY <1>5 DEF Bootstrap, RequestInv, Knows, TypeOK
  <2>3. [req[r] EXCEPT !.at = "resolve", !.row = id] \in {q \in Steps : q.at # "regenerate"}
    BY <2>2 DEF Steps
  <2>4. users[req[r].key] # None => users[req[r].key].id \in AdminIds \cup Keys
    BY <2>2 DEF TypeOK, UserRows
  <2>5. users' \in [Keys -> UserRows \cup {None}]
    BY <2>1, <2>2, <2>4 DEF TypeOK, UserRows
  <2> QED
    BY <1>5, <2>1, <2>3, <2>5, SetType DEF Bootstrap, TypeOK
<1>6. ASSUME NEW r \in Requests, Resolve(r) PROVE TypeOK'
  <2>1. req[r] \in Steps /\ users[req[r].key] \in UserRows \cup {None}
    BY <1>6 DEF Resolve, RequestInv, Knows, TypeOK
  <2>2. [req[r] EXCEPT !.at = "session", !.user = users[req[r].key]]
          \in {q \in Steps : q.at # "regenerate"}
    BY <2>1 DEF Steps
  <2> QED
    BY <1>6, <2>2, SetType, IdleType DEF Resolve, Refuse, TypeOK
<1>7. ASSUME NEW r \in Requests, CreateSession(r) PROVE TypeOK'
  <2>1. req[r].key \in Keys /\ req[r].user \in UserRows
    BY <1>7 DEF CreateSession, RequestInv, Knows, TypeOK, Steps
  <2>2. [id |-> req[r].user.id, key |-> req[r].key] \in SessionRows
    BY <2>1 DEF SessionRows, UserRows
  <2>3. sessions' \in [Tokens -> SessionRows \cup {None}]
    BY <1>7, <2>2 DEF CreateSession, TypeOK
  <2> QED
    BY <1>7, <2>3, SetType, IdleType DEF CreateSession, Refuse, TypeOK
<1>8. ASSUME NEW r \in Requests, Authenticate(r) PROVE TypeOK'
  <2>1. PICK op \in Ops, k \in Keys :
          /\ users[k] # None
          /\ Set(r, [Idle EXCEPT !.at = "stepup", !.key = k, !.op = op,
                                 !.user = users[k]])
    BY <1>8 DEF Authenticate
  <2>2. users[k] \in UserRows
    BY <2>1 DEF TypeOK
  <2>3. [Idle EXCEPT !.at = "stepup", !.key = k, !.op = op, !.user = users[k]]
          \in {q \in Steps : q.at # "regenerate"}
    BY <2>2 DEF Steps, Idle
  <2> QED
    BY <1>8, <2>1, <2>3, SetType DEF Authenticate, TypeOK
<1>9. ASSUME NEW r \in Requests, StepUp(r) PROVE TypeOK'
  <2>1. PICK n \in Nonces :
          /\ Consumable(n, "step_up") /\ Consumed(n)
          /\ Refuse(r) \/ Set(r, [req[r] EXCEPT !.at = "execute", !.nonce = n])
    BY <1>9 DEF StepUp
  <2>2. nonces' \in [Nonces -> NonceRows \cup {None}]
    BY <2>1, ConsumedType
  <2>3. req[r] \in Steps
    BY DEF TypeOK
  <2>4. [req[r] EXCEPT !.at = "execute", !.nonce = n] \in {q \in Steps : q.at # "regenerate"}
    BY <2>3 DEF Steps
  <2> QED
    BY <1>9, <2>1, <2>2, <2>4, SetType, IdleType DEF StepUp, Refuse, TypeOK
<1>10. ASSUME NEW r \in Requests, Register(r) PROVE TypeOK'
  <2>1. clients' \in [Clients -> ClientRows \cup {None}]
    BY <1>10 DEF Register, TypeOK, ClientRows
  <2> QED
    BY <1>10, <2>1, DoneType DEF Register
<1>11. ASSUME NEW r \in Requests, RegenerateGet(r) PROVE TypeOK'
  <2>1. PICK c \in Clients :
          \/ Refuse(r)
          \/ /\ clients[c] # None
             /\ Set(r, [req[r] EXCEPT !.at = "regenerate", !.client = c,
                                      !.row = clients[c]])
    BY <1>11 DEF RegenerateGet
  <2>2. CASE Refuse(r)
    BY <1>11, <2>2, SetType, IdleType DEF RegenerateGet, Refuse, TypeOK
  <2>3. CASE /\ clients[c] # None
             /\ Set(r, [req[r] EXCEPT !.at = "regenerate", !.client = c,
                                      !.row = clients[c]])
    <3>1. req[r] \in Steps /\ clients[c] \in ClientRows
      BY <2>3 DEF TypeOK
    <3>2. [req[r] EXCEPT !.at = "regenerate", !.client = c, !.row = clients[c]]
            \in {q \in Steps : q.client \in Clients /\ q.row \in ClientRows}
      BY <3>1 DEF Steps
    <3> QED
      BY <1>11, <2>3, <3>2, SetType DEF RegenerateGet, TypeOK
  <2> QED
    BY <2>1, <2>2, <2>3
<1>12. ASSUME NEW r \in Requests, RegenerateWrite(r) PROVE TypeOK'
  <2>1. req[r].row \in ClientRows /\ req[r].client \in Clients
    BY <1>12 DEF RegenerateWrite, TypeOK
  <2>2. clients' \in [Clients -> ClientRows \cup {None}]
    BY <1>12, <2>1 DEF RegenerateWrite, TypeOK, ClientRows
  <2> QED
    BY <1>12, <2>2, DoneType DEF RegenerateWrite
<1>13. ASSUME NEW r \in Requests, Execute(r) PROVE TypeOK'
  BY <1>13, DoneType DEF Execute, TypeOK
<1>14. ASSUME NEW r \in Requests, End(r) PROVE TypeOK'
  BY <1>14, SetType, IdleType DEF End, Refuse, TypeOK
<1>15. CASE UNCHANGED vars
  BY <1>15 DEF vars, TypeOK
<1> QED
  BY <1>1, <1>2, <1>3, <1>4, <1>5, <1>6, <1>7, <1>8, <1>9, <1>10, <1>11, <1>12,
     <1>13, <1>14, <1>15 DEF Next, Step
----------------------------------------------------------------------------
(* What rows keep: an admin its id and its powers, a nonce its binding.    *)
LEMMA UsersKept ==
  ASSUME TypeOK, RequestInv, [Next]_vars, NEW k \in Keys, users[k] # None
  PROVE  /\ users'[k] # None /\ users'[k].id = users[k].id
         /\ \A op \in Ops : Allowed(k, op) => Allowed(k, op)'
<1>1. ASSUME NEW r \in Requests, Bootstrap(r)
      PROVE  users'[k] = users[k] \/ users'[k] = [id |-> users[k].id, role |-> "owner"]
  BY <1>1 DEF Bootstrap, TypeOK
<1>2. CASE UNCHANGED users
  BY <1>2 DEF Allowed
<1>3. CASE users'[k] = [id |-> users[k].id, role |-> "owner"]
  <2>1. users'[k] \in UserRows
    BY <1>3 DEF TypeOK, UserRows
  <2> QED
    BY <1>3, <2>1, NoneIsNoRow, OwnerMayAll DEF Allowed
<1>4. UNCHANGED users \/ \E r \in Requests : Bootstrap(r)
  BY DEF Next, Step, vars, Challenge, Lapse, Logout, LoginVerify, Resolve,
     CreateSession, Authenticate, StepUp, Register, RegenerateGet,
     RegenerateWrite, Execute, End
<1> QED
  BY <1>1, <1>2, <1>3, <1>4 DEF Allowed

LEMMA NoncesKept ==
  ASSUME TypeOK, [Next]_vars, NEW n \in Nonces, NEW k, Paid(n, k)
  PROVE  Paid(n, k)'
<1>1. CASE UNCHANGED nonces
  BY <1>1 DEF Paid
<1>2. ASSUME NEW m \in Nonces, nonces[m] # None, nonces[m].unused, Consumed(m)
      PROVE  Paid(n, k)'
  BY <1>2 DEF Consumed, Paid, TypeOK
<1>3. ASSUME NEW p \in Purposes, NEW j \in Keys, Challenge(p, j) PROVE Paid(n, k)'
  BY <1>3 DEF Challenge, Paid, TypeOK
<1>4. \/ UNCHANGED nonces
      \/ \E m \in Nonces : nonces[m] # None /\ nonces[m].unused /\ Consumed(m)
      \/ \E p \in Purposes, j \in Keys : Challenge(p, j)
  BY DEF Next, Step, vars, Lapse, Logout, LoginVerify, Resolve, Bootstrap,
     CreateSession, Authenticate, StepUp, Register, RegenerateGet,
     RegenerateWrite, Execute, End, Consumable, Consumed
<1> QED
  BY <1>1, <1>2, <1>3, <1>4

----------------------------------------------------------------------------
(* A request that does not move goes on knowing what it knew.              *)
LEMMA StillKnows ==
  ASSUME TypeOK, RequestInv, [Next]_vars, NEW r \in Requests, req'[r] = req[r]
  PROVE  Knows(r)'
<1>1. Knows(r)
  BY DEF RequestInv
<1>2. ASSUME NEW k \in Keys, NEW op \in Ops, Allowed(k, op) PROVE Allowed(k, op)'
  BY <1>2, UsersKept DEF Allowed
<1>3. ASSUME NEW n \in Nonces, NEW k, Paid(n, k) PROVE Paid(n, k)'
  BY <1>3, NoncesKept
<1>4. ASSUME req[r].at = "session"
      PROVE  users'[req[r].key] # None /\ req[r].user.id = users'[req[r].key].id
  BY <1>1, <1>4, UsersKept DEF Knows
<1>5. req[r].at = "stepup" \/ Paying(r) => Allowed(req[r].key, req[r].op)'
  BY <1>1, <1>2 DEF Knows, Allowed
<1>6. Paying(r) => Paid(req[r].nonce, req[r].key)'
  BY <1>1, <1>3 DEF Knows, Paid
<1> QED
  BY <1>1, <1>4, <1>5, <1>6 DEF Knows, Paying, Allowed, Paid

(* Only what the moving request knows is to be seen to.                    *)
LEMMA OneMoves ==
  ASSUME TypeOK, RequestInv, [Next]_vars, NEW r \in Requests, NEW q, Set(r, q),
         Knows(r)'
  PROVE  RequestInv'
<1> SUFFICES ASSUME NEW s \in Requests, s # r PROVE Knows(s)'
  BY DEF RequestInv
<1>1. req'[s] = req[s]
  BY DEF Set, TypeOK
<1> QED
  BY <1>1, StillKnows

LEMMA RefusedKnows ==
  ASSUME TypeOK, NEW r \in Requests, Refuse(r) \/ Done(r)
  PROVE  Knows(r)' /\ ~Paying(r)'
  BY DEF TypeOK, Refuse, Done, Set, Idle, Knows, Paying

LEMMA RequestStep == TypeOK /\ RequestInv /\ [Next]_vars => RequestInv'
<1> SUFFICES ASSUME TypeOK, RequestInv, [Next]_vars PROVE RequestInv'
  OBVIOUS
<1>1. ASSUME UNCHANGED req PROVE RequestInv'
  BY <1>1, StillKnows DEF RequestInv
<1>2. ASSUME NEW r \in Requests, Refuse(r) \/ Done(r) PROVE RequestInv'
  BY <1>2, OneMoves, RefusedKnows DEF Refuse, Done
<1>3. ASSUME NEW r \in Requests, LoginVerify(r) PROVE RequestInv'
  <2>1. PICK k \in Keys :
          \/ Refuse(r)
          \/ Set(r, [Idle EXCEPT !.key = k,
               !.at = IF k \in Owners THEN "bootstrap" ELSE "resolve"])
    BY <1>3 DEF LoginVerify
  <2>2. CASE Set(r, [Idle EXCEPT !.key = k,
               !.at = IF k \in Owners THEN "bootstrap" ELSE "resolve"])
    <3>1. Knows(r)'
      BY <2>2 DEF Set, TypeOK, Idle, Knows, Paying
    <3> QED
      BY <2>2, <3>1, OneMoves
  <2> QED
    BY <1>2, <2>1, <2>2
<1>4. ASSUME NEW r \in Requests, Bootstrap(r) PROVE RequestInv'
  <2>1. PICK id \in AdminIds : Set(r, [req[r] EXCEPT !.at = "resolve", !.row = id])
    BY <1>4 DEF Bootstrap
  <2>2. req[r] \in Steps /\ req[r].key \in Keys
    BY <1>4 DEF Bootstrap, RequestInv, Knows, TypeOK
  <2>3. Knows(r)'
    BY <2>1, <2>2 DEF Set, TypeOK, Steps, Knows, Paying
  <2> QED
    BY <2>1, <2>3, OneMoves
<1>5. ASSUME NEW r \in Requests, Resolve(r) PROVE RequestInv'
  <2>1. CASE users[req[r].key] # None
    <3>1. req[r] \in Steps /\ req[r].key \in Keys
      BY <1>5 DEF Resolve, RequestInv, Knows, TypeOK
    <3>2. req'[r] = [req[r] EXCEPT !.at = "session", !.user = users[req[r].key]]
          /\ UNCHANGED users
      BY <1>5, <2>1 DEF Resolve, Set, TypeOK
    <3>3. /\ req'[r].at = "session" /\ req'[r].user = users[req[r].key]
          /\ req'[r].key = req[r].key
      BY <3>1, <3>2 DEF Steps
    <3>4. Knows(r)'
      BY <2>1, <3>1, <3>2, <3>3 DEF Knows, Paying
    <3> QED
      BY <1>5, <2>1, <3>4, OneMoves DEF Resolve
  <2> QED
    BY <1>2, <1>5, <2>1 DEF Resolve
<1>6. ASSUME NEW r \in Requests, Authenticate(r) PROVE RequestInv'
  <2>1. PICK op \in Ops, k \in Keys :
          /\ Allowed(k, op)
          /\ Set(r, [Idle EXCEPT !.at = "stepup", !.key = k, !.op = op,
                                 !.user = users[k]])
    BY <1>6 DEF Authenticate, Allowed
  <2>2. UNCHANGED users
    BY <1>6 DEF Authenticate
  <2>3. Knows(r)'
    BY <2>1, <2>2 DEF Set, TypeOK, Idle, Knows, Paying, Allowed
  <2> QED
    BY <2>1, <2>3, OneMoves
<1>7. ASSUME NEW r \in Requests, StepUp(r) PROVE RequestInv'
  <2>1. PICK n \in Nonces, k \in Keys :
          /\ Consumable(n, "step_up") /\ Consumed(n)
          /\ \/ Refuse(r)
             \/ /\ nonces[n].key = k /\ k = req[r].key
                /\ Set(r, [req[r] EXCEPT !.at = "execute", !.nonce = n])
    BY <1>7 DEF StepUp
  <2>2. CASE /\ nonces[n].key = k /\ k = req[r].key
             /\ Set(r, [req[r] EXCEPT !.at = "execute", !.nonce = n])
    <3>1. req[r] \in Steps /\ Allowed(req[r].key, req[r].op)
      BY <1>7 DEF StepUp, RequestInv, Knows, TypeOK
    <3>2. req'[r] = [req[r] EXCEPT !.at = "execute", !.nonce = n]
      BY <2>2 DEF Set, TypeOK
    <3>3. /\ req'[r].at = "execute" /\ req'[r].nonce = n
          /\ req'[r].key = req[r].key /\ req'[r].op = req[r].op
      BY <3>1, <3>2 DEF Steps
    <3>4. Allowed(req[r].key, req[r].op)'
      BY <1>7, <3>1, <3>3 DEF StepUp, Allowed
    <3>5. nonces'[n] = [nonces[n] EXCEPT !.unused = FALSE] /\ nonces[n] \in NonceRows
      BY <2>1 DEF Consumable, Consumed, TypeOK
    <3>6. nonces'[n] \in NonceRows /\ nonces'[n].unused = FALSE
          /\ nonces'[n].purpose = "step_up" /\ nonces'[n].key = req[r].key
      BY <2>1, <2>2, <3>5 DEF Consumable, NonceRows
    <3>7. Paid(n, req[r].key)'
      BY <3>3, <3>6, NoneIsNoRow DEF Paid
    <3>8. Knows(r)'
      BY <3>3, <3>4, <3>7 DEF Knows, Paying, Paid, Allowed
    <3> QED
      BY <2>2, <3>8, OneMoves
  <2> QED
    BY <1>2, <2>1, <2>2
<1>8. ASSUME NEW r \in Requests, RegenerateGet(r) PROVE RequestInv'
  <2>1. PICK c \in Clients :
          \/ Refuse(r)
          \/ Set(r, [req[r] EXCEPT !.at = "regenerate", !.client = c,
                                   !.row = clients[c]])
    BY <1>8 DEF RegenerateGet
  <2>2. CASE Set(r, [req[r] EXCEPT !.at = "regenerate", !.client = c,
                                   !.row = clients[c]])
    <3>1. req[r] \in Steps /\ Allowed(req[r].key, req[r].op)
          /\ Paid(req[r].nonce, req[r].key)
      BY <1>8 DEF RegenerateGet, RequestInv, Knows, Paying, TypeOK
    <3>2. /\ req'[r].at = "regenerate" /\ req'[r].nonce = req[r].nonce
          /\ req'[r].key = req[r].key /\ req'[r].op = req[r].op
      BY <2>2, <3>1 DEF Set, TypeOK, Steps
    <3>3. Knows(r)'
      BY <1>8, <3>1, <3>2 DEF RegenerateGet, Knows, Paying, Paid, Allowed
    <3> QED
      BY <2>2, <3>3, OneMoves
  <2> QED
    BY <1>2, <2>1, <2>2
<1> QED
  BY <1>1, <1>2, <1>3, <1>4, <1>5, <1>6, <1>7, <1>8
  DEF Next, Step, vars, Challenge, Lapse, Logout, CreateSession, Register,
      RegenerateWrite, Execute, End

----------------------------------------------------------------------------
(* Whoever still pays after a step holds what it held before.              *)
Keeps(r) == Paying(r)' => Paying(r) /\ req'[r].nonce = req[r].nonce

LEMMA AllKeep ==
  ASSUME TypeOK, NEW r \in Requests, NEW q \in Steps, Set(r, q),
         q.at \in {"execute", "regenerate"} => Paying(r) /\ q.nonce = req[r].nonce
  PROVE  \A s \in Requests : Keeps(s)
  BY DEF Set, TypeOK, Paying, Keeps

LEMMA RefusedKeeps ==
  ASSUME TypeOK, NEW r \in Requests, Refuse(r) \/ Done(r)
  PROVE  \A s \in Requests : Keeps(s)
<1>1. Idle.at = "idle" /\ [Idle EXCEPT !.at = "audit"].at = "audit"
  BY DEF Idle
<1> QED
  BY <1>1, AllKeep, IdleType DEF Refuse, Done

(* Only the step-up gives a request a nonce, one that was unused.          *)
LEMMA NonceStep ==
  TypeOK /\ RequestInv /\ NonceInv /\ OpsInv /\ [Next]_vars => NonceInv'
<1> SUFFICES ASSUME TypeOK, RequestInv, NonceInv, OpsInv, [Next]_vars PROVE NonceInv'
  OBVIOUS
<1>1. ASSUME UNCHANGED ops, \A r \in Requests : Keeps(r) PROVE NonceInv'
  BY <1>1 DEF NonceInv, Keeps
<1>2. ASSUME NEW r \in Requests, Paying(r), Done(r) PROVE NonceInv'
  <2>1. ~Paying(r)' /\ \A s \in Requests : Keeps(s)
    BY <1>2, RefusedKnows, RefusedKeeps
  <2>2. \A x \in ops' : x \in ops \/ x.nonce = req[r].nonce
    BY <1>2 DEF Done
  <2> QED
    BY <1>2, <2>1, <2>2 DEF NonceInv, Keeps
<1>3. ASSUME NEW r \in Requests, LoginVerify(r) PROVE NonceInv'
  <2>1. PICK k \in Keys :
          \/ Refuse(r)
          \/ Set(r, [Idle EXCEPT !.key = k,
               !.at = IF k \in Owners THEN "bootstrap" ELSE "resolve"])
    BY <1>3 DEF LoginVerify
  <2>2. [Idle EXCEPT !.key = k, !.at = IF k \in Owners THEN "bootstrap" ELSE "resolve"]
          \in {q \in Steps : q.at \in {"bootstrap", "resolve"}}
    BY DEF Idle, Steps
  <2>3. \A s \in Requests : Keeps(s)
    BY <2>1, <2>2, AllKeep, RefusedKeeps
  <2> QED
    BY <1>1, <1>3, <2>3 DEF LoginVerify
<1>4. ASSUME NEW r \in Requests, StepUp(r) PROVE NonceInv'
  <2>1. PICK n \in Nonces :
          /\ nonces[n].unused
          /\ Refuse(r) \/ Set(r, [req[r] EXCEPT !.at = "execute", !.nonce = n])
    BY <1>4 DEF StepUp, Consumable
  <2>2. CASE Refuse(r)
    BY <1>1, <1>4, <2>2, RefusedKeeps DEF StepUp
  <2>3. CASE Set(r, [req[r] EXCEPT !.at = "execute", !.nonce = n])
    <3>1. req[r] \in Steps
      BY DEF TypeOK
    <3>2. req'[r].nonce = n /\ \A s \in Requests \ {r} : req'[s] = req[s]
      BY <2>3, <3>1 DEF Set, TypeOK, Steps
    <3>3. \A s \in Requests : Paying(s) => req[s].nonce # n
      BY <2>1 DEF RequestInv, Knows, Paid
    <3>4. \A x \in ops : x.nonce # n
      BY <2>1 DEF OpsInv, Paid
    <3> QED
      BY <1>4, <3>2, <3>3, <3>4 DEF NonceInv, Paying, StepUp
  <2> QED
    BY <2>1, <2>2, <2>3
<1>5. ASSUME NEW r \in Requests, RegenerateGet(r) PROVE NonceInv'
  <2>1. PICK c \in Clients :
          \/ Refuse(r)
          \/ Set(r, [req[r] EXCEPT !.at = "regenerate", !.client = c,
                                   !.row = clients[c]])
    BY <1>5 DEF RegenerateGet
  <2>2. req[r] \in Steps /\ Paying(r)
    BY <1>5 DEF RegenerateGet, TypeOK, Paying
  <2>3. [req[r] EXCEPT !.at = "regenerate", !.client = c, !.row = clients[c]].nonce
          = req[r].nonce
    BY <2>2 DEF Steps
  <2>4. \A s \in Requests : Keeps(s)
    BY <2>1, <2>2, <2>3, RefusedKeeps DEF Set, TypeOK, Paying, Keeps
  <2> QED
    BY <1>1, <1>5, <2>4 DEF RegenerateGet
<1>6. ASSUME NEW r \in Requests, Bootstrap(r) \/ Resolve(r) \/ Authenticate(r)
      PROVE  NonceInv'
  <2>1. PICK q : Set(r, q) /\ (q = Idle \/ q.at \in {"resolve", "session", "stepup"})
    <3>1. req[r] \in Steps
      BY DEF TypeOK
    <3>2. \A x : /\ [req[r] EXCEPT !.at = "resolve", !.row = x].at = "resolve"
                 /\ [req[r] EXCEPT !.at = "session", !.user = x].at = "session"
      BY <3>1 DEF Steps
    <3>3. \A x, y, z : [Idle EXCEPT !.at = "stepup", !.key = x, !.op = y,
                                    !.user = z].at = "stepup"
      BY DEF Idle
    <3>4. CASE Bootstrap(r)
      BY <3>2, <3>4 DEF Bootstrap
    <3>5. CASE Resolve(r)
      BY <3>2, <3>5 DEF Resolve, Refuse
    <3>6. CASE Authenticate(r)
      <4>1. PICK op \in Ops, k \in Keys :
              Set(r, [Idle EXCEPT !.at = "stepup", !.key = k, !.op = op,
                                  !.user = users[k]])
        BY <3>6 DEF Authenticate
      <4> DEFINE q == [Idle EXCEPT !.at = "stepup", !.key = k, !.op = op,
                                   !.user = users[k]]
      <4>2. Set(r, q) /\ q.at = "stepup"
        BY <3>3, <4>1
      <4> HIDE DEF q
      <4> QED
        BY <4>2
    <3> QED
      BY <1>6, <3>4, <3>5, <3>6
  <2>2. \A s \in Requests : Keeps(s)
    BY <2>1 DEF Set, TypeOK, Paying, Keeps, Idle
  <2> QED
    BY <1>1, <1>6, <2>2 DEF Bootstrap, Resolve, Authenticate
<1>7. ASSUME NEW r \in Requests, Refuse(r), UNCHANGED ops PROVE NonceInv'
  BY <1>1, <1>7, RefusedKeeps
<1>8. ASSUME UNCHANGED <<req, ops>> PROVE NonceInv'
  BY <1>8 DEF NonceInv, Paying
<1> QED
  BY <1>2, <1>3, <1>4, <1>5, <1>6, <1>7, <1>8
  DEF Next, Step, vars, Challenge, Lapse, Logout, CreateSession, Register,
      RegenerateWrite, Execute, End, Paying

(* An operation is recorded by the request that paid for it.               *)
LEMMA OpsStep ==
  TypeOK /\ RequestInv /\ NonceInv /\ OpsInv /\ [Next]_vars => OpsInv'
<1> SUFFICES ASSUME TypeOK, RequestInv, NonceInv, OpsInv, [Next]_vars PROVE OpsInv'
  OBVIOUS
<1>1. \A x \in ops : Paid(x.nonce, x.key)' /\ Allowed(x.key, x.op)'
  <2> SUFFICES ASSUME NEW x \in ops PROVE Paid(x.nonce, x.key)' /\ Allowed(x.key, x.op)'
    OBVIOUS
  <2>1. Paid(x.nonce, x.key) /\ Allowed(x.key, x.op)
    BY DEF OpsInv
  <2>2. x.nonce \in Nonces /\ x.key \in Keys /\ x.op \in Ops /\ users[x.key] # None
    BY <2>1 DEF Paid, Allowed
  <2> QED
    BY <2>1, <2>2, UsersKept, NoncesKept
<1>2. CASE UNCHANGED ops
  BY <1>1, <1>2 DEF OpsInv, Paid, Allowed
<1>3. ASSUME NEW r \in Requests, Paying(r), Done(r), UNCHANGED <<users, nonces>>
      PROVE  OpsInv'
  <2>1. Paid(req[r].nonce, req[r].key) /\ Allowed(req[r].key, req[r].op)
    BY <1>3 DEF RequestInv, Knows
  <2>2. \A x \in ops : x.nonce # req[r].nonce
    BY <1>3 DEF NonceInv
  <2> DEFINE y == [i |-> Cardinality(ops) + 1, op |-> req[r].op,
                   key |-> req[r].key, nonce |-> req[r].nonce]
  <2>3. ops' = ops \cup {y}
    BY <1>3 DEF Done
  <2>4. y.nonce = req[r].nonce /\ y.key = req[r].key /\ y.op = req[r].op
    OBVIOUS
  <2> HIDE DEF y
  <2> QED
    BY <1>3, <2>1, <2>2, <2>3, <2>4 DEF OpsInv, Paid, Allowed
<1> QED
  BY <1>2, <1>3
  DEF Next, Step, vars, Challenge, Lapse, Logout, LoginVerify, Bootstrap,
      Resolve, CreateSession, Authenticate, StepUp, Register, RegenerateGet,
      RegenerateWrite, Execute, End, Paying

LEMMA SessionsStep ==
  TypeOK /\ RequestInv /\ SessionsResolve /\ [Next]_vars => SessionsResolve'
<1> SUFFICES ASSUME TypeOK, RequestInv, SessionsResolve, [Next]_vars,
                    NEW t \in Tokens, sessions'[t] # None
             PROVE  /\ users'[sessions'[t].key] # None
                    /\ users'[sessions'[t].key].id = sessions'[t].id
  BY DEF SessionsResolve
<1>1. CASE sessions'[t] = sessions[t]
  <2>1. sessions[t].key \in Keys
    BY <1>1 DEF TypeOK, SessionRows
  <2> QED
    BY <1>1, <2>1, UsersKept DEF SessionsResolve
<1>2. ASSUME NEW r \in Requests, CreateSession(r),
             sessions'[t] = [id |-> req[r].user.id, key |-> req[r].key]
      PROVE  /\ users'[sessions'[t].key] # None
             /\ users'[sessions'[t].key].id = sessions'[t].id
  BY <1>2 DEF CreateSession, RequestInv, Knows
<1>3. ASSUME NEW r \in Requests, CreateSession(r)
      PROVE  \/ sessions'[t] = sessions[t]
             \/ sessions'[t] = [id |-> req[r].user.id, key |-> req[r].key]
  BY <1>3 DEF CreateSession, TypeOK
<1>4. ASSUME NEW u \in Tokens, Logout(u) PROVE sessions'[t] = sessions[t]
  BY <1>4 DEF Logout, TypeOK
<1> QED
  BY <1>1, <1>2, <1>3, <1>4
  DEF Next, Step, vars, Challenge, Lapse, LoginVerify, Bootstrap, Resolve,
      Authenticate, StepUp, Register, RegenerateGet, RegenerateWrite, Execute, End

----------------------------------------------------------------------------
LEMMA InitInv == Init => IInv
<1> SUFFICES ASSUME Init PROVE IInv
  OBVIOUS
<1>1. RequestInv /\ NonceInv /\ OpsInv /\ SessionsResolve
  BY DEF Init, Idle, RequestInv, Knows, Paying, NonceInv, OpsInv, SessionsResolve
<1> QED
  BY <1>1, InitType DEF IInv

LEMMA StepInv == IInv /\ [Next]_vars => IInv'
  BY StepType, RequestStep, NonceStep, OpsStep, SessionsStep DEF IInv

LEMMA Invariant == Spec => []IInv
  BY InitInv, StepInv, PTL DEF Spec

(* Every reachable state is well typed, and a request about to write a     *)
(* client back holds the row it read.                                      *)
THEOREM TypeCorrect == Spec => []TypeOK
<1>1. IInv => TypeOK
  BY DEF IInv
<1> QED
  BY <1>1, Invariant, PTL

(* One step-up signature carries out at most one sensitive operation, for  *)
(* the admin who signed it (admin.go, VerifyStepUp), whatever logins,      *)
(* bootstraps and other requests run at the same time.                     *)
THEOREM OneSignatureOneOperation == Spec => []SignaturesPayOnce
<1>1. IInv => SignaturesPayOnce
  BY DEF IInv, OpsInv, Paid, Allowed, SignaturesPayOnce
<1> QED
  BY <1>1, Invariant, PTL

(* Every session names an admin row that exists and is that of the key     *)
(* that logged in, although concurrent bootstraps draw ids of their own.   *)
THEOREM SessionsAreOfAdmins == Spec => []SessionsResolve
<1>1. IInv => SessionsResolve
  BY DEF IInv
<1> QED
  BY <1>1, Invariant, PTL
=============================================================================
