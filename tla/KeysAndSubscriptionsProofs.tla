--------------------- MODULE KeysAndSubscriptionsProofs ---------------------
(***************************************************************************)
(* Proofs about SigningKeys, for any number of handlers and rotations; and,*)
(* in the second part, about Subscriptions, for any sets of slots and      *)
(* credentials and any grace period.  The two have nothing in common but   *)
(* this module.                                                            *)
(***************************************************************************)
EXTENDS SigningKeys, Subscriptions, TLAPS

(* A rotation under way owns a kid that is no row yet.                     *)
RotationInv ==
  /\ \A k \in Keys : k > begun => status[k] = "absent"
  /\ \A p \in Handlers :
       pc[p] \in {"list", "demote"} =>
         kid[p] \in Keys /\ kid[p] <= begun /\ status[kid[p]] = "absent"
  /\ \A p, q \in Handlers :
       pc[p] \in {"list", "demote"} /\ pc[q] \in {"list", "demote"}
         /\ kid[p] = kid[q] => p = q
  /\ \A p \in Handlers : \A k \in todo[p] : status[k] # "absent"

(* Keys in use are published, and a key being retired is not in use.       *)
UseInv ==
  /\ live \subseteq Published
  /\ \A p \in Handlers : pc[p] = "sign" => kid[p] \in Published
  /\ \A p \in Handlers :
       pc[p] = "retire" =>
         /\ kid[p] \in Keys
         /\ status[kid[p]] \in {"rotating", "retired"}
         /\ kid[p] \notin live
         /\ \A q \in Handlers : pc[q] = "sign" => kid[q] # kid[p]

(* A key of the document's first snapshot that is not in the document yet  *)
(* has left the active status for good.                                    *)
JWKSInv ==
  \A p \in Handlers :
    pc[p] = "jwks" =>
      \A k \in before[p] : k \in seen[p] \/ status[k] \in {"rotating", "retired"}

IInv == TypeOK /\ RotationInv /\ UseInv /\ JWKSInv

----------------------------------------------------------------------------
LEMMA InitInv == Init => IInv
<1> SUFFICES ASSUME Init PROVE IInv
  OBVIOUS
<1> USE DEF Init
<1>1. TypeOK
  <2>1. begun \in 0..MaxKeys
    BY MaxKeysAssumption
  <2>2. cut \in BOOLEAN
    OBVIOUS
  <2> QED
    BY <2>1, <2>2 DEF TypeOK, Statuses, Places
<1>2. RotationInv /\ UseInv /\ JWKSInv
  BY DEF RotationInv, UseInv, JWKSInv, Published, ByStatus
<1> QED
  BY <1>1, <1>2 DEF IInv

LEMMA StepType == TypeOK /\ RotationInv /\ UseInv /\ [Next]_vars => TypeOK'
<1> SUFFICES ASSUME TypeOK, RotationInv, UseInv, [Next]_vars PROVE TypeOK'
  OBVIOUS
<1> USE DEF TypeOK, Statuses, Places, local, jwks, Goto, Begin, Answer
<1>1. ASSUME NEW p \in Handlers, Rotate(p) PROVE TypeOK'
  BY <1>1, MaxKeysAssumption DEF Rotate, Keys
<1>2. ASSUME NEW p \in Handlers, ListActive(p) PROVE TypeOK'
  BY <1>2 DEF ListActive, ByStatus
<1>3. ASSUME NEW p \in Handlers, NEW k \in Keys, Demote(p, k) PROVE TypeOK'
  BY <1>3 DEF Demote
<1>4. ASSUME NEW p \in Handlers, Create(p) PROVE TypeOK'
  BY <1>4 DEF Create, RotationInv
<1>5. ASSUME NEW p \in Handlers, NEW k \in Keys, Retire(p, k) PROVE TypeOK'
  BY <1>5 DEF Retire
<1>6. ASSUME NEW p \in Handlers, RetireWrite(p) PROVE TypeOK'
  BY <1>6 DEF RetireWrite
<1>7. ASSUME NEW p \in Handlers, ActiveSigner(p) PROVE TypeOK'
  BY <1>7 DEF ActiveSigner, ByStatus
<1>8. ASSUME NEW k \in Keys, TokensExpire(k) PROVE TypeOK'
  BY <1>8 DEF TokensExpire
<1>9. ASSUME NEW p \in Handlers, JWKS(p) PROVE TypeOK'
  BY <1>9 DEF JWKS, ReadJWKS, ServeJWKS, ByStatus, Published
<1>10. ASSUME NEW p \in Handlers, End(p) PROVE TypeOK'
  BY <1>10 DEF End
<1>11. ASSUME NEW p \in Handlers, Sign(p) PROVE TypeOK'
  BY <1>11 DEF Sign, UseInv, Published, ByStatus
<1>12. CASE UNCHANGED vars
  BY <1>12 DEF vars
<1> QED
  BY <1>1, <1>2, <1>3, <1>4, <1>5, <1>6, <1>7, <1>8, <1>9, <1>10, <1>11, <1>12
  DEF Next

(* How a step may move a key: a row appears as active, and an active row   *)
(* leaves that status only by being demoted.                               *)
LEMMA StatusMoves ==
  ASSUME TypeOK, RotationInv, UseInv, [Next]_vars, NEW k \in Keys
  PROVE  /\ status[k] = "active" => status'[k] \in {"active", "rotating"}
         /\ status[k] \in {"rotating", "retired"} =>
              status'[k] \in {"rotating", "retired"}
<1> USE DEF TypeOK
<1>1. ASSUME NEW p \in Handlers, NEW j \in Keys, Demote(p, j)
      PROVE  status' = [status EXCEPT ![j] = "rotating"]
  BY <1>1 DEF Demote
<1>2. ASSUME NEW p \in Handlers, Create(p)
      PROVE  /\ status' = [status EXCEPT ![kid[p]] = "active"]
             /\ status[kid[p]] = "absent"
  BY <1>2 DEF Create, RotationInv
<1>3. ASSUME NEW p \in Handlers, RetireWrite(p)
      PROVE  /\ status' = [status EXCEPT ![kid[p]] = "retired"]
             /\ status[kid[p]] \in {"rotating", "retired"}
  BY <1>3 DEF RetireWrite, UseInv
<1>4. ASSUME UNCHANGED status
      PROVE  status'[k] = status[k]
  BY <1>4
<1> QED
  BY <1>1, <1>2, <1>3, <1>4
  DEF Next, vars, TokensExpire, Rotate, ListActive, Retire, ActiveSigner, Sign,
      JWKS, ReadJWKS, ServeJWKS, End

LEMMA RotationStep ==
  TypeOK /\ RotationInv /\ UseInv /\ [Next]_vars => RotationInv'
<1> SUFFICES ASSUME TypeOK, RotationInv, UseInv, [Next]_vars PROVE RotationInv'
  OBVIOUS
<1> USE DEF TypeOK, RotationInv, local, Goto, Begin, Answer
<1>1. ASSUME NEW p \in Handlers, Rotate(p) PROVE RotationInv'
  BY <1>1, MaxKeysAssumption DEF Rotate, Keys
<1>2. ASSUME NEW p \in Handlers, ListActive(p) PROVE RotationInv'
  BY <1>2 DEF ListActive, ByStatus
<1>3. ASSUME NEW p \in Handlers, NEW k \in Keys, Demote(p, k) PROVE RotationInv'
  <2>1. status[k] # "absent"
    BY <1>3 DEF Demote
  <2> QED
    BY <1>3, <2>1 DEF Demote
<1>4. ASSUME NEW p \in Handlers, Create(p) PROVE RotationInv'
  <2>1. kid[p] \in Keys /\ kid[p] <= begun /\ begun' = begun
    BY <1>4 DEF Create
  <2>2. \A k \in Keys : status'[k] = IF k = kid[p] THEN "active" ELSE status[k]
    BY <1>4 DEF Create
  <2>3. \A k \in Keys : k > begun' => status'[k] = "absent"
    BY <2>1, <2>2 DEF Keys
  <2>4. \A q \in Handlers \ {p} : pc'[q] = pc[q] /\ kid'[q] = kid[q] /\ todo'[q] = todo[q]
    BY <1>4 DEF Create
  <2>5. pc'[p] = "idle" /\ todo'[p] = {}
    BY <1>4 DEF Create
  <2>6. \A q \in Handlers \ {p} : pc[q] \in {"list", "demote"} => kid[q] # kid[p]
    BY <1>4 DEF Create
  <2>7. \A q \in Handlers :
          pc'[q] \in {"list", "demote"} =>
            kid'[q] \in Keys /\ kid'[q] <= begun' /\ status'[kid'[q]] = "absent"
    BY <2>1, <2>2, <2>4, <2>5, <2>6
  <2>8. \A q \in Handlers : \A k \in todo'[q] : status'[k] # "absent"
    BY <2>2, <2>4, <2>5
  <2> QED
    BY <2>3, <2>4, <2>5, <2>7, <2>8
<1>5. ASSUME NEW p \in Handlers, NEW k \in Keys, Retire(p, k) PROVE RotationInv'
  BY <1>5 DEF Retire
<1>6. ASSUME NEW p \in Handlers, RetireWrite(p) PROVE RotationInv'
  <2>1. status[kid[p]] # "absent" /\ kid[p] \in Keys
    BY <1>6 DEF RetireWrite, UseInv
  <2> QED
    BY <1>6, <2>1 DEF RetireWrite
<1>7. ASSUME NEW p \in Handlers, ActiveSigner(p) PROVE RotationInv'
  BY <1>7 DEF ActiveSigner
<1>8. ASSUME NEW p \in Handlers, JWKS(p) \/ Sign(p) \/ End(p) PROVE RotationInv'
  BY <1>8 DEF JWKS, ReadJWKS, ServeJWKS, Sign, End
<1>9. ASSUME NEW k \in Keys, TokensExpire(k) PROVE RotationInv'
  BY <1>9 DEF TokensExpire
<1>10. CASE UNCHANGED vars
  BY <1>10 DEF vars
<1> QED
  BY <1>1, <1>2, <1>3, <1>4, <1>5, <1>6, <1>7, <1>8, <1>9, <1>10 DEF Next

(* Published keys stay published unless a retirement, which nothing in use *)
(* is the target of, takes them away.                                      *)
LEMMA PublishedStays ==
  ASSUME TypeOK, RotationInv, UseInv, [Next]_vars, NEW k \in Published,
         \A p \in Handlers : pc[p] = "retire" => kid[p] # k
  PROVE  k \in Published'
<1>1. k \in Keys /\ status[k] \in {"active", "rotating"}
  BY DEF Published, ByStatus
<1>2. status'[k] # "retired"
  <2>1. ASSUME NEW p \in Handlers, NEW j \in Keys, Demote(p, j)
        PROVE  status'[k] # "retired"
    BY <1>1, <2>1 DEF Demote, TypeOK
  <2>2. ASSUME NEW p \in Handlers, Create(p) PROVE status'[k] # "retired"
    BY <1>1, <2>2 DEF Create, TypeOK
  <2>3. ASSUME NEW p \in Handlers, RetireWrite(p) PROVE status'[k] # "retired"
    BY <1>1, <2>3 DEF RetireWrite, TypeOK
  <2>4. ASSUME UNCHANGED status PROVE status'[k] # "retired"
    BY <1>1, <2>4
  <2> QED
    BY <2>1, <2>2, <2>3, <2>4
    DEF Next, vars, TokensExpire, Rotate, ListActive, Retire, ActiveSigner,
        Sign, JWKS, ReadJWKS, ServeJWKS, End
<1>3. status'[k] \in {"active", "rotating"}
  BY <1>1, <1>2, StatusMoves
<1> QED
  BY <1>1, <1>3 DEF Published, ByStatus

LEMMA UseStep == TypeOK /\ RotationInv /\ UseInv /\ [Next]_vars => UseInv'
<1> SUFFICES ASSUME TypeOK, RotationInv, UseInv, [Next]_vars PROVE UseInv'
  OBVIOUS
<1> USE DEF TypeOK, local, Goto, Begin, Answer
(* Nothing new comes into use but an active key that is being read.        *)
<1>1. \A p \in Handlers :
        pc'[p] = "sign" =>
          \/ pc[p] = "sign" /\ kid'[p] = kid[p]
          \/ kid'[p] \in ByStatus("active") /\ UNCHANGED status
  BY DEF Next, vars, TokensExpire, Rotate, ListActive, Demote, Create, Retire,
         RetireWrite, ActiveSigner, Sign, JWKS, ReadJWKS, ServeJWKS, End
<1>2. \A k \in live' : k \in live \/ \E p \in Handlers : pc[p] = "sign" /\ kid[p] = k
  BY DEF Next, vars, TokensExpire, Rotate, ListActive, Demote, Create, Retire,
         RetireWrite, ActiveSigner, Sign, JWKS, ReadJWKS, ServeJWKS, End
<1>3. ASSUME NEW k, k \in live \/ \E p \in Handlers : pc[p] = "sign" /\ kid[p] = k
      PROVE  k \in Published'
  <2>1. k \in Published
    BY <1>3 DEF UseInv
  <2>2. \A p \in Handlers : pc[p] = "retire" => kid[p] # k
    BY <1>3 DEF UseInv
  <2> QED
    BY <2>1, <2>2, PublishedStays
<1>4. live' \subseteq Published'
  BY <1>2, <1>3
<1>5. \A p \in Handlers : pc'[p] = "sign" => kid'[p] \in Published'
  <2> SUFFICES ASSUME NEW p \in Handlers, pc'[p] = "sign"
               PROVE  kid'[p] \in Published'
    OBVIOUS
  <2>1. CASE pc[p] = "sign" /\ kid'[p] = kid[p]
    BY <1>3, <2>1
  <2>2. CASE kid'[p] \in ByStatus("active") /\ UNCHANGED status
    BY <2>2 DEF Published, ByStatus
  <2> QED
    BY <1>1, <2>1, <2>2
<1>6. ASSUME NEW p \in Handlers, pc'[p] = "retire"
      PROVE  /\ kid'[p] \in Keys
             /\ status'[kid'[p]] \in {"rotating", "retired"}
             /\ kid'[p] \notin live'
             /\ \A q \in Handlers : pc'[q] = "sign" => kid'[q] # kid'[p]
  <2>1. CASE pc[p] = "retire" /\ kid'[p] = kid[p]
    <3>1. kid'[p] \in Keys /\ status[kid'[p]] \in {"rotating", "retired"}
      BY <2>1 DEF UseInv
    <3>2. status'[kid'[p]] \in {"rotating", "retired"}
      BY <3>1, StatusMoves
    <3>3. kid'[p] \notin live'
      BY <1>2, <2>1 DEF UseInv
    <3>4. \A q \in Handlers : pc'[q] = "sign" => kid'[q] # kid'[p]
      BY <1>1, <2>1, <3>1 DEF UseInv, ByStatus
    <3> QED
      BY <3>1, <3>2, <3>3, <3>4
  <2>2. CASE \E k \in Keys : Retire(p, k)
    BY <2>2 DEF Retire
  <2>3. \/ pc[p] = "retire" /\ kid'[p] = kid[p]
        \/ \E k \in Keys : Retire(p, k)
    BY <1>6 DEF Next, vars, TokensExpire, Rotate, ListActive, Demote, Create,
       Retire, RetireWrite, ActiveSigner, Sign, JWKS, ReadJWKS, ServeJWKS, End
  <2> QED
    BY <2>1, <2>2, <2>3
<1> QED
  BY <1>4, <1>5, <1>6 DEF UseInv

LEMMA JWKSStep ==
  TypeOK /\ RotationInv /\ UseInv /\ JWKSInv /\ [Next]_vars => JWKSInv'
<1> SUFFICES ASSUME TypeOK, RotationInv, UseInv, JWKSInv, [Next]_vars,
                    NEW p \in Handlers, pc'[p] = "jwks", NEW k \in before'[p]
             PROVE  k \in seen'[p] \/ status'[k] \in {"rotating", "retired"}
  BY DEF JWKSInv
<1> USE DEF TypeOK, local, jwks, Goto, Begin, Answer
<1>1. \/ ReadJWKS(p, "active")
      \/ pc[p] = "jwks" /\ before'[p] = before[p] /\ seen'[p] = seen[p]
  BY DEF Next, vars, TokensExpire, Rotate, ListActive, Demote, Create, Retire,
         RetireWrite, ActiveSigner, Sign, JWKS, ReadJWKS, ServeJWKS, End
<1>2. CASE ReadJWKS(p, "active")
  BY <1>2 DEF ReadJWKS, Published, ByStatus
<1>3. CASE pc[p] = "jwks" /\ before'[p] = before[p] /\ seen'[p] = seen[p]
  BY <1>3, StatusMoves DEF JWKSInv
<1> QED
  BY <1>1, <1>2, <1>3

LEMMA Invariance == Spec => []IInv
<1>1. IInv /\ [Next]_vars => IInv'
  BY StepType, RotationStep, UseStep, JWKSStep DEF IInv
<1> QED
  BY InitInv, <1>1, PTL DEF Spec

(* Keys, handlers and documents keep to their types.                       *)
THEOREM TypeCorrect == Spec => []TypeOK
<1>1. IInv => TypeOK
  BY DEF IInv
<1> QED
  BY <1>1, Invariance, PTL

(* Rotations and retirements never leave an unexpired token without the    *)
(* published key that verifies it.                                         *)
THEOREM TokensAlwaysVerify == Spec => []LiveTokensVerify
<1>1. IInv => LiveTokensVerify
  BY DEF IInv, UseInv, LiveTokensVerify
<1> QED
  BY <1>1, Invariance, PTL

(* No step retires the active signing key.                                 *)
THEOREM ActiveSafeFromRetire == Spec => ActiveNotRetired
<1>1. IInv /\ [Next]_vars =>
        [\A k \in Keys :
           status[k] = "active" => status'[k] \in {"active", "rotating"}]_vars
  BY StatusMoves DEF IInv
<1> QED
  BY <1>1, Invariance, PTL DEF Spec, ActiveNotRetired

(* A rotation that is done has inserted the key to sign with; a demotion is*)
(* of a rotation that has yet to insert its own.                           *)
LEMMA SignerStep ==
  TypeOK /\ RotationInv /\ UseInv /\ SignerUnlessCut /\ [Next]_vars =>
    SignerUnlessCut'
<1> SUFFICES ASSUME TypeOK, RotationInv, UseInv, SignerUnlessCut, [Next]_vars
             PROVE  SignerUnlessCut'
  OBVIOUS
<1> USE DEF TypeOK, Goto, Begin, Answer
<1>1. ASSUME NEW p \in Handlers, Create(p) PROVE SignerUnlessCut'
  <2>1. kid[p] \in Keys
    BY <1>1 DEF Create, RotationInv
  <2>2. status'[kid[p]] = "active"
    BY <1>1, <2>1 DEF Create
  <2> QED
    BY <2>1, <2>2 DEF SignerUnlessCut, ByStatus
<1>2. ASSUME NEW p \in Handlers, NEW k \in Keys, Demote(p, k)
      PROVE  SignerUnlessCut'
  BY <1>2 DEF Demote, SignerUnlessCut
<1>3. ASSUME NEW p \in Handlers, RetireWrite(p) PROVE SignerUnlessCut'
  <2>1. kid[p] \in Keys /\ status[kid[p]] \in {"rotating", "retired"}
    BY <1>3 DEF RetireWrite, UseInv
  <2>2. ByStatus("active")' = ByStatus("active")
    BY <1>3, <2>1 DEF RetireWrite, ByStatus
  <2>3. /\ \E k \in Keys : status[k] # "absent"
        /\ cut' = cut
        /\ \A q \in Handlers : pc[q] = "demote" => pc'[q] = "demote"
    BY <1>3, <2>1 DEF RetireWrite
  <2> QED
    BY <2>2, <2>3 DEF SignerUnlessCut
<1>4. ASSUME NEW p \in Handlers, End(p) PROVE SignerUnlessCut'
  <2>1. /\ status' = status /\ cut' = (cut \/ pc[p] = "demote")
        /\ \A q \in Handlers \ {p} : pc'[q] = pc[q]
    BY <1>4 DEF End
  <2> QED
    BY <2>1 DEF SignerUnlessCut, ByStatus
<1>5. ASSUME UNCHANGED <<status, cut>>,
             \A q \in Handlers : pc[q] = "demote" => pc'[q] = "demote"
      PROVE  SignerUnlessCut'
  BY <1>5 DEF SignerUnlessCut, ByStatus
<1>6. ASSUME NEW p \in Handlers,
             \/ Rotate(p) \/ ListActive(p) \/ ActiveSigner(p) \/ Sign(p) \/ JWKS(p)
             \/ \E k \in Keys : Retire(p, k)
      PROVE  SignerUnlessCut'
  BY <1>5, <1>6
  DEF Rotate, ListActive, ActiveSigner, Sign, JWKS, ReadJWKS, ServeJWKS, Retire
<1>7. CASE UNCHANGED vars \/ \E k \in Keys : TokensExpire(k)
  BY <1>5, <1>7 DEF vars, local, TokensExpire
<1> QED
  BY <1>1, <1>2, <1>3, <1>4, <1>6, <1>7 DEF Next

(* The issuer is without a key to sign with only during a rotation, or     *)
(* after one that failed and until the next one is done.                   *)
THEOREM OutagesAreOfRotations == Spec => []SignerUnlessCut
<1>1. Init => SignerUnlessCut
  BY DEF Init, SignerUnlessCut
<1>2. Init /\ [][Next]_vars /\ []IInv => []SignerUnlessCut
  BY <1>1, SignerStep, PTL DEF IInv
<1> QED
  BY <1>2, Invariance, PTL DEF Spec

(* A JWKS document misses no key that was published before and after it    *)
(* was put together.                                                       *)
THEOREM DocumentComplete == Spec => JWKSComplete
<1>1. IInv /\ [Next]_vars =>
        [\A p \in Handlers :
           pc[p] = "jwks" /\ pc'[p] = "served" =>
             before[p] \cap Published \subseteq seen'[p]]_vars
  <2> SUFFICES ASSUME IInv, Next, NEW p \in Handlers,
                      pc[p] = "jwks", pc'[p] = "served"
               PROVE  before[p] \cap Published \subseteq seen'[p]
    BY DEF vars, local
  <2> USE DEF IInv, TypeOK
  <2>1. ServeJWKS(p, "rotating")
    BY DEF Next, TokensExpire, Rotate, ListActive, Demote, Create, Retire,
       RetireWrite, ActiveSigner, Sign, JWKS, ReadJWKS, ServeJWKS, End, local,
       Goto, Begin, Answer
  <2>2. seen'[p] = seen[p] \cup ByStatus("rotating")
    BY <2>1 DEF ServeJWKS
  <2> QED
    BY <2>2 DEF JWKSInv, Published, ByStatus
<1> QED
  BY <1>1, Invariance, PTL DEF Spec, JWKSComplete

----------------------------------------------------------------------------
(*                              Subscriptions                              *)
----------------------------------------------------------------------------
(* A grace period that is running was opened when the credential was found *)
(* lost: what is left of it and what has gone by since make up the whole.  *)
GraceIsOwed(s, u) ==
  s.grace # None =>
    /\ lost[u][s.owner] # None
    /\ lost[u][s.owner] + s.grace >= Grace

(* A row is right about its grace unless a pass overwrote the others.      *)
RowInv == \A u \in Slots : u \notin clobbered => GraceIsOwed(row[u], u)

(* The pass knows the row of a session it has not examined yet ...         *)
ListedInv ==
  \A u \in Slots :
    pass[u] # Absent => /\ plan[u] = Absent /\ row[u] # Absent
                        /\ pass[u].status = "active"
                        /\ u \notin touched => pass[u] = row[u]

(* ... and writes nothing else of the session it has examined, unless the  *)
(* others wrote in between.                                                *)
Planned(p, u) ==
  /\ Active(u) /\ p.owner = row[u].owner
  /\ p.status = "expired" => p.grace = 0
  /\ u \notin clobbered => GraceIsOwed(p, u)
  /\ p.grace # None /\ row[u].grace # None => p.grace <= row[u].grace

PlannedInv ==
  \A u \in Slots :
    plan[u] # Absent =>
      row[u] # Absent /\ (u \notin touched => Planned(plan[u], u))

(* The invariant.                                                          *)
SubsInv == SubsTypeOK /\ RowInv /\ ListedInv /\ PlannedInv
----------------------------------------------------------------------------
(* Time leaves who a session is for and what has become of it, and takes a *)
(* unit of the grace that is left.                                         *)
LEMMA OlderIs ==
  ASSUME NEW s \in Session \cup {Absent}
  PROVE  /\ Older(s) \in Session \cup {Absent}
         /\ Older(s) = Absent <=> s = Absent
         /\ Older(s).owner = s.owner /\ Older(s).status = s.status
         /\ Older(s).grace = None <=> s.grace = None
         /\ s.grace # None =>
              /\ s.grace \in 0..Grace /\ Older(s).grace \in 0..Grace
              /\ Older(s).grace = IF s.grace = 0 THEN 0 ELSE s.grace - 1
<1>1. s.grace \in Left
  BY DEF Session, Absent, Left
<1>2. PICK o : o = IF s.grace \in {0, None} THEN s.grace ELSE s.grace - 1
  OBVIOUS
<1>3. o \in Left /\ (o = None <=> s.grace = None)
  BY <1>1, <1>2, NoneAssumption, GraceAssumption DEF Left
<1>4. /\ DOMAIN s = {"owner", "status", "grace"}
      /\ s = [owner |-> s.owner, status |-> s.status, grace |-> s.grace]
  BY DEF Session, Absent
<1>5. Older(s) = [owner |-> s.owner, status |-> s.status, grace |-> o]
  BY <1>2, <1>4 DEF Older
<1>6. Older(s) \in Session \cup {Absent}
  <2>1. CASE s = Absent
    BY <1>2, <1>5, <2>1 DEF Absent
  <2>2. CASE s \in Session
    BY <1>3, <1>5, <2>2 DEF Session
  <2> QED
    BY <2>1, <2>2
<1>7. Older(s) = Absent <=> s = Absent
  BY <1>3, <1>4, <1>5 DEF Absent
<1>8. s.grace # None =>
        /\ s.grace \in 0..Grace /\ o \in 0..Grace
        /\ o = IF s.grace = 0 THEN 0 ELSE s.grace - 1
  BY <1>1, <1>2, <1>3 DEF Left
<1> QED
  BY <1>3, <1>5, <1>6, <1>7, <1>8

(* A verdict is about the same session.  It asks for a whole grace period  *)
(* where none is running, gives up at the end of one, and touches no other *)
(* deadline.                                                               *)
LEMMA VerdictIs ==
  ASSUME NEW s \in Session, s.status = "active"
  PROVE  /\ Verdict(s) \in Session \cup {Absent}
         /\ Verdict(s) # Absent =>
              /\ Verdict(s).owner = s.owner
              /\ Verdict(s).status = "expired" => Verdict(s).grace = 0
              /\ Verdict(s).status = "expired" => s.grace = 0
              /\ Verdict(s).grace # None =>
                   /\ ~Member(s.owner)
                   /\ \/ s.grace = None /\ Verdict(s).grace = Grace
                      \/ s.grace = 0 /\ Verdict(s).grace = 0
<1>1. s.grace \in Left /\ s.owner \in Credentials
  BY DEF Session
<1>2. None \in Left /\ Grace \in Left /\ Grace # 0 /\ None # Grace
  BY NoneAssumption, GraceAssumption DEF Left
<1>3. s = [owner |-> s.owner, status |-> s.status, grace |-> s.grace]
  BY DEF Session
<1>4. CASE Member(s.owner)
  <2>1. Verdict(s) = [owner |-> s.owner, status |-> "active", grace |-> None]
    BY <1>3, <1>4 DEF Verdict
  <2> QED
    BY <1>1, <1>2, <2>1 DEF Session
<1>5. CASE ~Member(s.owner) /\ s.grace = None
  <2>1. Verdict(s) = [owner |-> s.owner, status |-> "active", grace |-> Grace]
    BY <1>3, <1>5 DEF Verdict
  <2> QED
    BY <1>1, <1>2, <1>5, <2>1 DEF Session
<1>6. CASE ~Member(s.owner) /\ s.grace = 0
  <2>1. Verdict(s) = [owner |-> s.owner, status |-> "expired", grace |-> 0]
    BY <1>3, <1>6, NoneAssumption DEF Verdict
  <2> QED
    BY <1>1, <1>6, <2>1 DEF Session
<1>7. CASE ~Member(s.owner) /\ s.grace # None /\ s.grace # 0
  BY <1>7 DEF Verdict
<1> QED
  BY <1>4, <1>5, <1>6, <1>7

(* No session is there at first.                                           *)
LEMMA SubsInitInv == SubsInit => SubsInv
  BY DEF SubsInit, SubsInv, SubsTypeOK, RowInv, ListedInv, PlannedInv, Nothing,
         Absent, GraceIsOwed, Left

(* Time takes from what is left what it adds to what has gone by.          *)
LEMMA TickKeeps ==
  ASSUME SubsInv, Tick
  PROVE  SubsInv' /\ \A u \in Slots : Older(row[u]) = row'[u]
<1>1. ASSUME NEW u \in Slots
      PROVE  /\ row'[u] = Older(row[u]) /\ pass'[u] = Older(pass[u])
             /\ plan'[u] = Older(plan[u])
             /\ row[u] \in Session \cup {Absent} /\ pass[u] \in Session \cup {Absent}
             /\ plan[u] \in Session \cup {Absent}
  BY DEF Tick, SubsInv, SubsTypeOK
<1>2. ASSUME NEW u \in Slots, NEW c \in Credentials
      PROVE  /\ lost[u][c] \in Left /\ lost'[u][c] \in Left
             /\ lost[u][c] # None =>
                  /\ lost'[u][c] # None
                  /\ lost'[u][c] = IF lost[u][c] = Grace THEN Grace
                                   ELSE lost[u][c] + 1
  <2>1. lost[u][c] \in Left
    BY DEF SubsInv, SubsTypeOK
  <2>2. lost'[u][c] = IF lost[u][c] \in {Grace, None} THEN lost[u][c]
                      ELSE lost[u][c] + 1
    BY DEF Tick
  <2> QED
    BY <2>1, <2>2, NoneAssumption, GraceAssumption DEF Left
<1>3. SubsTypeOK'
  <2>1. lost' \in [Slots -> [Credentials -> Left]]
    BY <1>2 DEF Tick
  <2> QED
    BY <1>1, <2>1, OlderIs DEF Tick, SubsInv, SubsTypeOK, chain, races
<1>4. ASSUME NEW u \in Slots, NEW s \in Session \cup {Absent}, GraceIsOwed(s, u)
      PROVE  LET o == Older(s) IN
             o.grace # None => lost'[u][o.owner] # None /\ lost'[u][o.owner] + o.grace >= Grace
  <2> SUFFICES ASSUME Older(s).grace # None
               PROVE  /\ lost'[u][s.owner] # None
                      /\ lost'[u][s.owner] + Older(s).grace >= Grace
    BY OlderIs
  <2>1. /\ s.grace \in 0..Grace /\ s.grace # None
        /\ Older(s).grace = IF s.grace = 0 THEN 0 ELSE s.grace - 1
    BY OlderIs
  <2>2. s.owner \in Credentials
    BY <2>1 DEF Session, Absent
  <2>3. lost[u][s.owner] # None /\ lost[u][s.owner] + s.grace >= Grace
    BY <1>4, <2>1 DEF GraceIsOwed
  <2>4. /\ lost'[u][s.owner] # None /\ lost[u][s.owner] \in 0..Grace
        /\ lost'[u][s.owner] = IF lost[u][s.owner] = Grace THEN Grace
                               ELSE lost[u][s.owner] + 1
    BY <1>2, <2>2, <2>3 DEF Left
  <2> QED
    BY <2>1, <2>3, <2>4, GraceAssumption
<1>5. RowInv'
  BY <1>1, <1>4 DEF SubsInv, RowInv, GraceIsOwed, Tick, races
<1>6. ListedInv'
  BY <1>1, OlderIs DEF SubsInv, ListedInv, Tick, races
<1>7. PlannedInv'
  <2>1. \A u \in Slots : plan'[u] # Absent => row'[u] # Absent
    BY <1>1, OlderIs DEF SubsInv, PlannedInv
  <2> SUFFICES ASSUME NEW u \in Slots, plan'[u] # Absent, u \notin touched
               PROVE  Planned(plan[u], u)'
    BY <2>1 DEF PlannedInv, Tick, races
  <2>2. plan[u] # Absent /\ Planned(plan[u], u)
    BY <1>1, OlderIs DEF SubsInv, PlannedInv
  <2>3. /\ row'[u].status = "active" /\ plan'[u].owner = row'[u].owner
        /\ plan'[u].status = plan[u].status
    BY <1>1, <2>2, OlderIs DEF Planned, Active
  <2>4. u \notin clobbered => GraceIsOwed(plan[u], u)'
    BY <1>1, <1>4, <2>2 DEF Planned, GraceIsOwed
  <2>5. plan[u].grace = 0 => plan'[u].grace = 0
    BY <1>1, OlderIs, NoneAssumption
  <2>6. plan'[u].grace # None /\ row'[u].grace # None =>
          plan'[u].grace <= row'[u].grace
    <3> SUFFICES ASSUME plan'[u].grace # None, row'[u].grace # None
                 PROVE  plan'[u].grace <= row'[u].grace
      OBVIOUS
    <3>1. /\ plan[u].grace # None /\ plan[u].grace \in 0..Grace
          /\ plan'[u].grace = IF plan[u].grace = 0 THEN 0 ELSE plan[u].grace - 1
      BY <1>1, OlderIs
    <3>2. /\ row[u].grace # None /\ row[u].grace \in 0..Grace
          /\ row'[u].grace = IF row[u].grace = 0 THEN 0 ELSE row[u].grace - 1
      BY <1>1, OlderIs
    <3> QED
      BY <2>2, <3>1, <3>2, GraceAssumption DEF Planned
  <2> QED
    BY <2>2, <2>3, <2>4, <2>5, <2>6 DEF Planned, Active, Tick, races
<1> QED
  BY <1>1, <1>3, <1>5, <1>6, <1>7 DEF SubsInv

----------------------------------------------------------------------------
(* The reconciler's steps.                                                 *)
(* No session has the form of one that is absent.                          *)
LEMMA AbsentIs ==
  /\ Absent \notin Session /\ Absent.status = "none" /\ Absent.grace = None
  /\ Nothing \in [Slots -> {Absent}]
  /\ \A u \in Slots : Nothing[u] = Absent
  BY DEF Absent, Session, Nothing

(* A pass that begins knows the rows as they are.                          *)
LEMMA ListingKeeps ==
  ASSUME SubsInv, ListActiveSessions
  PROVE  SubsInv'
<1> USE AbsentIs DEF SubsInv, ListActiveSessions
<1>1. SubsTypeOK'
  BY DEF SubsTypeOK, chain, Active
<1>2. RowInv'
  BY DEF RowInv, GraceIsOwed
<1>3. ListedInv'
  BY DEF ListedInv, Active
<1>4. PlannedInv'
  BY DEF PlannedInv
<1> QED
  BY <1>1, <1>2, <1>3, <1>4

(* A verdict on an undisturbed session is one on the row as it is.         *)
LEMMA ExamineKeeps ==
  ASSUME SubsInv, NEW u \in Slots, Examine(u)
  PROVE  SubsInv'
<1> DEFINE s == pass[u]
<1>1. /\ s \in Session /\ s.status = "active" /\ s # Absent /\ plan = Nothing
      /\ s.owner \in Credentials /\ lost[u][s.owner] \in Left
      /\ u \notin touched => s = row[u] /\ Active(u)
  BY AbsentIs DEF Examine, Examined, SubsInv, SubsTypeOK, ListedInv, Session, Active
<1>2. /\ pass' = [pass EXCEPT ![u] = Absent]
      /\ plan' = [plan EXCEPT ![u] = Verdict(s)]
      /\ UNCHANGED <<row, held, banned, bot, revoking, touched, clobbered>>
  BY DEF Examine, Examined, chain, races
<1>3. /\ Verdict(s) \in Session \cup {Absent}
      /\ Verdict(s) # Absent =>
           /\ Verdict(s).owner = s.owner
           /\ Verdict(s).status = "expired" => Verdict(s).grace = 0
           /\ Verdict(s).grace # None =>
                /\ ~Member(s.owner)
                /\ \/ s.grace = None /\ Verdict(s).grace = Grace
                   \/ s.grace = 0 /\ Verdict(s).grace = 0
  BY <1>1, VerdictIs
<1>4. ASSUME NEW v \in Slots, NEW c \in Credentials
      PROVE  /\ lost[v][c] # None => lost'[v][c] = lost[v][c]
             /\ lost'[v][c] \in Left
             /\ ~Member(s.owner) => lost'[u][s.owner] # None
  <2>1. lost \in [Slots -> [Credentials -> Left]] /\ 0 \in Left /\ 0 # None
    BY NoneAssumption, GraceAssumption DEF SubsInv, SubsTypeOK, Left
  <2>2. lost' = IF Member(s.owner) \/ lost[u][s.owner] # None THEN lost
                ELSE [lost EXCEPT ![u][s.owner] = 0]
    BY DEF Examine
  <2> QED
    BY <1>1, <2>1, <2>2
<1>5. SubsTypeOK'
  <2>1. lost' \in [Slots -> [Credentials -> Left]]
    BY <1>1, GraceAssumption DEF Examine, SubsInv, SubsTypeOK, Left
  <2>2. pass' \in [Slots -> Session \cup {Absent}]
    BY <1>2 DEF SubsInv, SubsTypeOK
  <2>3. plan' \in [Slots -> Session \cup {Absent}]
    BY <1>2, <1>3 DEF SubsInv, SubsTypeOK
  <2> QED
    BY <1>2, <2>1, <2>2, <2>3 DEF SubsInv, SubsTypeOK
<1>6. ASSUME NEW v \in Slots, NEW r \in Session \cup {Absent}, GraceIsOwed(r, v)
      PROVE  GraceIsOwed(r, v)'
  <2> SUFFICES ASSUME r.grace # None
               PROVE  lost'[v][r.owner] # None /\ lost'[v][r.owner] + r.grace >= Grace
    BY DEF GraceIsOwed
  <2>1. r.owner \in Credentials
    BY AbsentIs DEF Session
  <2> QED
    BY <1>4, <1>6, <2>1 DEF GraceIsOwed
<1>7. RowInv'
  BY <1>2, <1>6 DEF SubsInv, SubsTypeOK, RowInv
<1>8. ListedInv'
  BY <1>1, <1>2, AbsentIs DEF SubsInv, SubsTypeOK, ListedInv
<1>9. PlannedInv'
  <2>1. \A v \in Slots \ {u} : plan'[v] = Absent
    BY <1>1, <1>2, AbsentIs
  <2>2. PICK p : p = Verdict(s) /\ p = plan'[u]
    BY <1>2 DEF SubsInv, SubsTypeOK
  <2>3. row[u] # Absent
    BY <1>1 DEF SubsInv, ListedInv
  <2> SUFFICES ASSUME p # Absent, u \notin touched
               PROVE  Planned(p, u)'
    BY <1>2, <2>1, <2>2, <2>3 DEF PlannedInv
  <2>4. s = row[u] /\ Active(u)
    BY <1>1
  <2>5. p.grace # None /\ row[u].grace # None =>
          p.grace <= row[u].grace
    BY <1>1, <1>3, <2>2, <2>4, GraceAssumption DEF Left
  <2>6. ASSUME u \notin clobbered, p.grace # None
        PROVE  /\ lost'[u][s.owner] # None
               /\ lost'[u][s.owner] + p.grace >= Grace
    <3>1. lost'[u][s.owner] # None /\ lost'[u][s.owner] \in 0..Grace
      BY <1>1, <1>3, <1>4, <2>2, <2>6 DEF Left
    <3>2. CASE p.grace = Grace
      BY <3>1, <3>2, GraceAssumption
    <3>3. CASE s.grace = 0 /\ p.grace = 0
      <4>1. 0 # None
        BY NoneAssumption
      <4>2. lost[u][s.owner] # None /\ lost[u][s.owner] + s.grace >= Grace
        BY <2>4, <2>6, <3>3, <4>1 DEF SubsInv, RowInv, GraceIsOwed
      <4>3. lost'[u][s.owner] = lost[u][s.owner]
        BY <1>1, <1>4, <4>2
      <4> QED
        BY <3>3, <4>2, <4>3
    <3> QED
      BY <1>3, <2>2, <2>6, <3>2, <3>3
  <2> QED
    <3>1. u \notin clobbered => GraceIsOwed(p, u)'
      BY <1>3, <2>2, <2>6 DEF GraceIsOwed
    <3> QED
      BY <1>2, <1>3, <2>2, <2>4, <2>5, <3>1 DEF Planned, Active
<1> QED
  BY <1>5, <1>7, <1>8, <1>9 DEF SubsInv

(* A write that disturbs nobody leaves the row owed what was planned.      *)
LEMMA WriteKeeps ==
  ASSUME SubsInv, NEW u \in Slots, Write(u)
  PROVE  SubsInv'
<1>1. PICK p : p = plan[u]
  OBVIOUS
<1> DEFINE r == IF p.status = "expired" THEN [row[u] EXCEPT !.status = "expired"] ELSE p
<1>2. /\ p \in Session /\ p # Absent /\ p.owner \in Credentials /\ pass[u] = Absent
  BY <1>1, AbsentIs DEF Write, SubsInv, SubsTypeOK, ListedInv, Session
<1>3. /\ row' = [row EXCEPT ![u] = r]
      /\ plan' = Nothing
      /\ clobbered' = clobbered \cup ({u} \cap touched)
      /\ UNCHANGED <<held, banned, pass, bot, revoking, touched>>
  BY <1>1 DEF Write, SetStatus, chain, SubsInv, SubsTypeOK
<1>4. /\ p.grace # None => lost' = lost
      /\ p.grace = None => lost' = [lost EXCEPT ![u][p.owner] = None]
  BY <1>1 DEF Write
<1>5. SubsTypeOK'
  <2>1. lost' \in [Slots -> [Credentials -> Left]]
    <3>1. lost \in [Slots -> [Credentials -> Left]] /\ None \in Left
      BY DEF SubsInv, SubsTypeOK, Left
    <3> QED
      BY <1>2, <1>4, <3>1
  <2>2. row[u] \in Session
    BY <1>2, <1>1, AbsentIs DEF SubsInv, SubsTypeOK, PlannedInv
  <2>3. row' \in [Slots -> Session \cup {Absent}]
    BY <1>2, <1>3, <2>2 DEF SubsInv, SubsTypeOK, Session
  <2> QED
    BY <1>3, <2>1, <2>3, AbsentIs DEF SubsInv, SubsTypeOK
<1>6. /\ row'[u] = r /\ r # Absent
      /\ \A v \in Slots \ {u} : row'[v] = row[v]
  <2>1. row \in [Slots -> Session \cup {Absent}] /\ row[u] \in Session
    BY <1>2, <1>1, AbsentIs DEF SubsInv, SubsTypeOK, PlannedInv
  <2>2. r \in Session
    BY <1>2, <2>1 DEF Session
  <2> HIDE DEF r
  <2> QED
    BY <1>3, <2>1, <2>2, AbsentIs
<1>7. ASSUME NEW v \in Slots, NEW c \in Credentials, v # u \/ c # p.owner \/ p.grace # None
      PROVE  lost'[v][c] = lost[v][c]
  <2>1. lost \in [Slots -> [Credentials -> Left]]
    BY DEF SubsInv, SubsTypeOK
  <2> QED
    BY <1>2, <1>4, <1>7, <2>1
<1>8. RowInv'
  <2> SUFFICES ASSUME NEW v \in Slots, v \notin clobbered'
               PROVE  GraceIsOwed(row[v], v)'
    BY DEF RowInv
  <2>1. v \notin clobbered /\ GraceIsOwed(row[v], v)
    BY <1>3 DEF SubsInv, RowInv
  <2>2. CASE v # u
    <3>1. row'[v] = row[v] /\ row[v] \in Session \cup {Absent}
      BY <1>6, <2>2 DEF SubsInv, SubsTypeOK
    <3>2. row[v].grace # None => row[v].owner \in Credentials
      BY <3>1, AbsentIs DEF Session
    <3> QED
      BY <1>7, <2>1, <2>2, <3>1, <3>2 DEF GraceIsOwed
  <2>3. CASE v = u
    <3>1. u \notin touched /\ Planned(p, u)
      BY <1>2, <1>3, <1>1, <2>3 DEF SubsInv, PlannedInv
    <3>2. p.grace # None => GraceIsOwed(p, u)'
      BY <1>2, <1>7, <2>1, <2>3, <3>1 DEF Planned, GraceIsOwed
    <3>3. CASE p.status # "expired"
      BY <1>6, <2>3, <3>2, <3>3 DEF GraceIsOwed
    <3>4. CASE p.status = "expired"
      <4>1. p.grace # None
        BY <3>1, <3>4, NoneAssumption DEF Planned
      <4>2. lost' = lost
        BY <1>4, <4>1
      <4>3. r.grace = row[u].grace /\ r.owner = row[u].owner
        BY <1>2, <1>1, <3>4, AbsentIs DEF SubsInv, SubsTypeOK, Session, PlannedInv
      <4> QED
        BY <1>6, <2>1, <2>3, <4>2, <4>3 DEF GraceIsOwed
    <3> QED
      BY <3>3, <3>4
  <2> QED
    BY <2>2, <2>3
<1>9. ListedInv'
  BY <1>2, <1>3, <1>6, AbsentIs DEF SubsInv, ListedInv
<1>10. PlannedInv'
  BY <1>3, AbsentIs DEF PlannedInv
<1> QED
  BY <1>5, <1>8, <1>9, <1>10 DEF SubsInv

(* A step that gives up on what is planned or listed.                      *)
LEMMA DropsKeep ==
  ASSUME SubsInv, NEW u \in Slots, ExamineFails(u) \/ WriteFails(u)
  PROVE  SubsInv'
<1>1. CASE ExamineFails(u)
  BY <1>1, AbsentIs DEF ExamineFails, Examined, chain, races, SubsInv, SubsTypeOK,
     RowInv, ListedInv, PlannedInv, Planned, GraceIsOwed, Active
<1>2. CASE WriteFails(u)
  BY <1>2, AbsentIs DEF WriteFails, chain, races, SubsInv, SubsTypeOK,
     RowInv, ListedInv, PlannedInv, Planned, GraceIsOwed, Active
<1> QED
  BY <1>1, <1>2

----------------------------------------------------------------------------
(* The bot and the administrator.                                          *)
(* An activation ends whatever grace there was.                            *)
LEMMA ActivateKeeps ==
  ASSUME SubsInv, NEW u \in Slots, Activate(u)
  PROVE  SubsInv'
<1>1. PICK c : c = bot[u]
  OBVIOUS
<1>2. PICK r : r = [owner |-> c, status |-> "active", grace |-> None]
  OBVIOUS
<1>3. /\ c \in Credentials /\ r \in Session /\ r # Absent /\ r.grace = None
      /\ row' = [row EXCEPT ![u] = r] /\ bot' = [bot EXCEPT ![u] = None]
      /\ lost' = [lost EXCEPT ![u][c] = None]
      /\ touched' = touched \cup {u} /\ clobbered' = clobbered \ {u}
      /\ UNCHANGED <<held, banned, pass, plan, revoking>>
  BY <1>1, <1>2, AbsentIs DEF Activate, SubsInv, SubsTypeOK, Session, Left, chain
<1>4. SubsTypeOK'
  <2>1. lost' \in [Slots -> [Credentials -> Left]]
    BY <1>3 DEF SubsInv, SubsTypeOK, Left
  <2> QED
    BY <1>3, <2>1 DEF SubsInv, SubsTypeOK
<1>5. ASSUME NEW v \in Slots \ {u}
      PROVE  row'[v] = row[v] /\ lost'[v] = lost[v]
  BY <1>3 DEF SubsInv, SubsTypeOK
<1>6. row'[u] = r /\ u \in touched'
  BY <1>3 DEF SubsInv, SubsTypeOK
<1>7. RowInv'
  BY <1>3, <1>5, <1>6 DEF SubsInv, RowInv, GraceIsOwed
<1>8. ListedInv'
  BY <1>3, <1>5, <1>6 DEF SubsInv, ListedInv
<1>9. PlannedInv'
  <2> SUFFICES ASSUME NEW v \in Slots, plan'[v] # Absent
               PROVE  row'[v] # Absent /\ (v \notin touched' => Planned(plan[v], v)')
    BY DEF PlannedInv
  <2>1. CASE v = u
    BY <1>3, <1>6, <2>1
  <2>2. CASE v # u
    BY <1>3, <1>5, <2>2 DEF SubsInv, PlannedInv, Planned, GraceIsOwed, Active
  <2> QED
    BY <2>1, <2>2
<1> QED
  BY <1>4, <1>7, <1>8, <1>9 DEF SubsInv

(* A cancellation changes a status and nothing else.                       *)
LEMMA CancelKeeps ==
  ASSUME SubsInv, NEW R \in SUBSET Slots, \A u \in R : row[u] # Absent, Cancel(R),
         revoking' \in {revoking, None}
  PROVE  SubsInv' /\ \A u \in R : row'[u].status = "cancelled"
<1>1. /\ row' = [u \in Slots |->
                   IF u \in R THEN [row[u] EXCEPT !.status = "cancelled"] ELSE row[u]]
      /\ touched' = touched \cup R
      /\ UNCHANGED <<held, banned, pass, plan, bot, lost, clobbered>>
  BY DEF Cancel, SetStatus, chain
<1>2. ASSUME NEW u \in R
      PROVE  /\ row[u] \in Session /\ row'[u] \in Session /\ row'[u] # Absent
             /\ row'[u].grace = row[u].grace /\ row'[u].owner = row[u].owner
             /\ row'[u].status = "cancelled"
  <2>1. row[u] \in Session
    BY DEF SubsInv, SubsTypeOK
  <2>2. row'[u] = [row[u] EXCEPT !.status = "cancelled"]
    BY <1>1
  <2> QED
    BY <2>1, <2>2, AbsentIs DEF Session
<1>3. \A u \in Slots \ R : row'[u] = row[u]
  BY <1>1
<1>4. SubsTypeOK'
  BY <1>1, <1>2, <1>3 DEF SubsInv, SubsTypeOK
<1>5. RowInv'
  BY <1>1, <1>2, <1>3 DEF SubsInv, RowInv, GraceIsOwed
<1>6. ListedInv'
  BY <1>1, <1>2, <1>3 DEF SubsInv, ListedInv
<1>7. PlannedInv'
  BY <1>1, <1>2, <1>3 DEF SubsInv, PlannedInv, Planned, GraceIsOwed, Active
<1> QED
  BY <1>2, <1>4, <1>5, <1>6, <1>7 DEF SubsInv

(* The four ways to cancel.                                                *)
LEMMA CancellationsKeep ==
  ASSUME SubsInv,
         \/ CancelByStakeCredential \/ CancelByChannelID
         \/ \E u \in Slots : Unsubscribe(u) \/ AdminCancel(u)
  PROVE  SubsInv' /\ \A u \in Slots : row'[u] = row[u] \/ row'[u].status = "cancelled"
<1>1. PICK R \in SUBSET Slots :
        /\ \A u \in R : row[u] # Absent
        /\ Cancel(R) /\ revoking' \in {revoking, None}
  BY AbsentIs DEF CancelByStakeCredential, CancelByChannelID, Unsubscribe,
     AdminCancel, Active
<1>2. SubsInv' /\ \A u \in R : row'[u].status = "cancelled"
  BY <1>1, CancelKeeps
<1>3. \A u \in Slots \ R : row'[u] = row[u]
  BY <1>1 DEF Cancel, SetStatus
<1> QED
  BY <1>2, <1>3

(* A restart forgets what was listed and planned, and by whom disturbed.   *)
LEMMA RestartKeeps ==
  ASSUME SubsInv, Restart
  PROVE  SubsInv'
  BY AbsentIs DEF Restart, SubsInv, SubsTypeOK, RowInv, ListedInv, PlannedInv,
     GraceIsOwed, chain

(* Steps that write neither a session nor what is known of one.            *)
Elsewhere ==
  \/ \E c \in Credentials : Delegate(c) \/ RevokeMember(c)
  \/ \E u \in Slots, c \in Credentials : Redeem(u, c)
  \/ UNCHANGED subsVars

LEMMA ElsewhereKeeps ==
  ASSUME SubsInv, Elsewhere
  PROVE  SubsInv' /\ UNCHANGED <<row, touched, clobbered>>
<1>1. /\ UNCHANGED <<row, pass, plan, lost, touched, clobbered>>
      /\ held' \subseteq Credentials /\ banned' \subseteq Credentials
      /\ bot' \in [Slots -> Credentials \cup {None}]
      /\ revoking' \in Credentials \cup {None}
  BY DEF Elsewhere, Delegate, RevokeMember, Redeem, subsVars, chain, process, races,
     SubsInv, SubsTypeOK
<1> QED
  BY <1>1 DEF SubsInv, SubsTypeOK, RowInv, ListedInv, PlannedInv, Planned,
     GraceIsOwed, Active

----------------------------------------------------------------------------
(* What a step does to the row of a session, if anything.                  *)
LEMMA StepsOfARow ==
  ASSUME SubsInv, [SubsNext]_subsVars
  PROVE  /\ SubsInv'
         /\ \A u \in Slots :
              \/ row'[u] = row[u]
              \/ row'[u] = Older(row[u])
              \/ row'[u].status = "cancelled"
              \/ Write(u)
              \/ Activate(u)
<1>1. CASE Tick
  BY <1>1, TickKeeps
<1>2. CASE ListActiveSessions
  BY <1>2, ListingKeeps DEF ListActiveSessions
<1>3. CASE \/ CancelByStakeCredential \/ CancelByChannelID
           \/ \E u \in Slots : Unsubscribe(u) \/ AdminCancel(u)
  BY <1>3, CancellationsKeep
<1>4. CASE Restart
  BY <1>4, RestartKeeps DEF Restart
<1>5. CASE Elsewhere
  BY <1>5, ElsewhereKeeps
<1>6. ASSUME NEW v \in Slots, Examine(v) PROVE SubsInv' /\ row' = row
  BY <1>6, ExamineKeeps DEF Examine, Examined
<1>7. ASSUME NEW v \in Slots, ExamineFails(v) \/ WriteFails(v) PROVE SubsInv' /\ row' = row
  BY <1>7, DropsKeep DEF ExamineFails, Examined, WriteFails
<1>8. ASSUME NEW v \in Slots, Write(v)
      PROVE  SubsInv' /\ \A u \in Slots \ {v} : row'[u] = row[u]
  <2>1. SubsInv'
    BY <1>8, WriteKeeps
  <2>2. PICK r : row' = [row EXCEPT ![v] = r] \/
                 row' = [u \in Slots |-> IF u \in {v} THEN r ELSE row[u]]
    BY <1>8 DEF Write, SetStatus
  <2> QED
    BY <2>1, <2>2 DEF SubsInv, SubsTypeOK
<1>9. ASSUME NEW v \in Slots, Activate(v)
      PROVE  SubsInv' /\ \A u \in Slots \ {v} : row'[u] = row[u]
  BY <1>9, ActivateKeeps DEF Activate, SubsInv, SubsTypeOK
<1> QED
  BY <1>1, <1>2, <1>3, <1>4, <1>5, <1>6, <1>7, <1>8, <1>9 DEF SubsNext, Elsewhere

(* Between a pass and its write the reconciler is right about every session*)
(* that the bot and the administrator leave alone, and what is left of a   *)
(* grace period is what has not gone by since the loss was found.          *)
THEOREM SubsInvariance == SubsSpec => []SubsInv
<1>1. SubsInv /\ [SubsNext]_subsVars => SubsInv'
  BY StepsOfARow
<1> QED
  BY <1>1, SubsInitInv, PTL DEF SubsSpec

(* Every reachable state of the component is well typed: no status written *)
(* by SetStatus creates a row.                                             *)
THEOREM SubsTypeCorrect == SubsSpec => []SubsTypeOK
<1>1. SubsInv => SubsTypeOK
  BY DEF SubsInv
<1> QED
  BY <1>1, SubsInvariance, PTL

(* What the reconciler writes of a session that nobody disturbed.          *)
LEMMA WriteIsPlanned ==
  ASSUME SubsInv, NEW u \in Slots, Write(u), u \notin touched
  PROVE  /\ Active(u) /\ Planned(plan[u], u)
         /\ plan[u].status = "expired" =>
              row'[u].status = "expired" /\ row'[u].grace = row[u].grace
         /\ plan[u].status # "expired" => row'[u] = plan[u]
<1>1. plan[u] # Absent /\ Planned(plan[u], u) /\ row[u] \in Session
  BY DEF Write, SubsInv, SubsTypeOK, PlannedInv
<1>2. CASE plan[u].status = "expired"
  <2>1. row'[u] = [row[u] EXCEPT !.status = "expired"]
    BY <1>2 DEF Write, SetStatus
  <2> QED
    BY <1>1, <1>2, <2>1 DEF Planned, Session
<1>3. CASE plan[u].status # "expired"
  <2>1. row'[u] = plan[u]
    BY <1>3 DEF Write, SubsInv, SubsTypeOK
  <2> QED
    BY <1>1, <1>3, <2>1 DEF Planned
<1> QED
  BY <1>2, <1>3

(* An activation leaves no grace to speak of.                             *)
LEMMA ActivationIs ==
  ASSUME SubsInv, NEW u \in Slots, Activate(u)
  PROVE  /\ row'[u].status = "active" /\ row'[u].grace = None /\ u \in touched'
  BY DEF Activate, SubsInv, SubsTypeOK

(* Reconcile expires a session that it alone has written since activation  *)
(* only after a whole grace period since it found the loss, no pass in     *)
(* between having recorded a member: no failed lookup, restart or recovery *)
(* shortens the period.                                                    *)
THEOREM ExpiryIsAlwaysDeserved == SubsSpec => ExpiryIsDeserved
<1>1. SubsInv /\ [SubsNext]_subsVars =>
        [\A u \in Slots :
           Active(u) /\ row'[u].status = "expired" /\ Undisturbed(u) =>
             lost[u][row[u].owner] = Grace]_subsVars
  <2> SUFFICES ASSUME SubsInv, [SubsNext]_subsVars, NEW u \in Slots,
                      Active(u), row'[u].status = "expired", Undisturbed(u)
               PROVE  lost[u][row[u].owner] = Grace
    OBVIOUS
  <2>1. row[u] \in Session
    BY AbsentIs DEF Active, SubsInv, SubsTypeOK
  <2>2. Write(u)
    BY <2>1, StepsOfARow, OlderIs, ActivationIs DEF Active
  <2>3. Planned(plan[u], u) /\ plan[u].status = "expired"
    <3>1. plan[u] \in Session \cup {Absent} /\ plan[u] # Absent
      BY <2>2 DEF Write, SubsInv, SubsTypeOK
    <3> QED
      BY <2>2, WriteIsPlanned DEF Undisturbed
  <2>4. lost[u][row[u].owner] # None /\ lost[u][row[u].owner] + 0 >= Grace
    BY <2>3, NoneAssumption DEF Planned, GraceIsOwed, Undisturbed
  <2>5. lost[u][row[u].owner] \in Left
    BY <2>1 DEF SubsInv, SubsTypeOK, Session
  <2> QED
    BY <2>4, <2>5, GraceAssumption DEF Left
<1> QED
  BY <1>1, SubsInvariance, PTL DEF SubsSpec, ExpiryIsDeserved

(* Passes that find a credential lost again leave the running deadline of  *)
(* an undisturbed session where it is.                                     *)
THEOREM DeadlinesStand == SubsSpec => DeadlineStands
<1>1. SubsInv /\ [SubsNext]_subsVars =>
        [\A u \in Slots :
           Active(u) /\ Active(u)' /\ Undisturbed(u) /\ Undisturbed(u)'
             /\ row[u].grace # None /\ row'[u].grace # None =>
             row'[u].grace <= row[u].grace]_subsVars
  <2> SUFFICES ASSUME SubsInv, [SubsNext]_subsVars, NEW u \in Slots,
                      Active(u), Active(u)', Undisturbed(u),
                      row[u].grace # None, row'[u].grace # None
               PROVE  row'[u].grace <= row[u].grace
    OBVIOUS
  <2>1. row[u] \in Session \cup {Absent} /\ row[u].grace \in 0..Grace
    <3>1. row[u] \in Session
      BY AbsentIs DEF Active, SubsInv, SubsTypeOK
    <3> QED
      BY <3>1 DEF Session, Left
  <2>2. CASE row'[u] = row[u]
    BY <2>1, <2>2, GraceAssumption
  <2>3. CASE row'[u] = Older(row[u])
    BY <2>1, <2>3, OlderIs, GraceAssumption
  <2>4. CASE Write(u)
    BY <2>4, WriteIsPlanned DEF Undisturbed, Planned, Active
  <2> QED
    BY <2>2, <2>3, <2>4, StepsOfARow, ActivationIs DEF Active
<1> QED
  BY <1>1, SubsInvariance, PTL DEF SubsSpec, DeadlineStands

(* The whole-row upsert of a pass makes an ended session active only where *)
(* another party wrote that slot since the pass listed it.                 *)
THEOREM RevivalsAreExplicit == SubsSpec => RevivalIsExplicit
<1>1. SubsInv /\ [SubsNext]_subsVars =>
        [\A u \in Slots : ~Active(u) /\ Active(u)' => u \in touched']_subsVars
  <2> SUFFICES ASSUME SubsInv, [SubsNext]_subsVars, NEW u \in Slots,
                      ~Active(u), Active(u)'
               PROVE  u \in touched'
    OBVIOUS
  <2>1. row[u] \in Session \cup {Absent}
    BY DEF SubsInv, SubsTypeOK
  <2>2. Write(u) \/ Activate(u)
    BY <2>1, StepsOfARow, OlderIs DEF Active
  <2>3. CASE Write(u)
    BY <2>3, WriteIsPlanned DEF Write
  <2>4. CASE Activate(u)
    BY <2>4, ActivationIs
  <2> QED
    BY <2>2, <2>3, <2>4
<1> QED
  BY <1>1, SubsInvariance, PTL DEF SubsSpec, RevivalIsExplicit
==============================================================================
