------------------------ MODULE RefreshGrantsProofs ------------------------
(***************************************************************************)
(* Proofs about RefreshGrants, for any number of grants, credentials and   *)
(* handlers.                                                               *)
(***************************************************************************)
EXTENDS RefreshGrants, TLAPS

Leaf(g) == \A c \in Grants : rotatedFrom[c] # g

(* Rows carry a family and their parent's family; what is no row is blank. *)
WellFormed ==
  \A g \in Grants :
    /\ status[g] = "absent" =>
         rotatedFrom[g] = None /\ family[g] = None /\ sch[g] = None
    /\ status[g] # "absent" => family[g] \in Rows /\ sch[g] # None
    /\ rotatedFrom[g] # None =>
         /\ rotatedFrom[g] \in Rows
         /\ family[rotatedFrom[g]] = family[g]

(* A family is a line of grants: it has one last member, and only that one *)
(* can be active.                                                          *)
ActiveIsLeaf == \A g \in Grants : status[g] = "active" => Leaf(g)

OneLeaf ==
  \A g, h \in Rows : Leaf(g) /\ Leaf(h) /\ family[g] = family[h] => g = h

(* What the handlers believe about the table.                              *)
SubjectIsRow ==
  \A p \in Handlers :
    pc[p] \in {"attest", "rotate", "mint", "expire", "update", "children"} =>
      subject[p] \in Rows

MintHoldsActive ==
  \A p \in Handlers : pc[p] = "mint" => status[subject[p]] = "active"

LocksExclusive ==
  \A p, q \in Handlers : p # q => Locks(p) \cap Locks(q) = {}

(* A walk stays in its family, and once nothing is left to visit it has    *)
(* visited, and locked, the family's last member.                          *)
WalkCovers ==
  \A p \in Handlers :
    pc[p] \in {"update", "children"} =>
      /\ todo[p] \cup batch[p] \subseteq {g \in Rows : family[g] = family[subject[p]]}
      /\ pc[p] = "children" => subject[p] \in batch[p]
      /\ pc[p] = "update" /\ todo[p] = {} => \E l \in batch[p] : Leaf(l)

CascadeRows ==
  \A p \in Handlers : pc[p] = "cascade" => todo[p] \cup batch[p] \subseteq Rows

BatchInUse ==
  \A p \in Handlers :
    pc[p] \notin {"update", "children", "cascade"} => batch[p] = {}

TableInv ==
  WellFormed /\ ActiveIsLeaf /\ OneLeaf /\ NoFork /\ SpentHasSuccessor

HandlerInv ==
  /\ SubjectIsRow /\ MintHoldsActive /\ LocksExclusive /\ WalkCovers
  /\ CascadeRows /\ BatchInUse

HistoryInv == TheftResponseComplete /\ condemned \subseteq Rows

IInv == TypeOK /\ TableInv /\ HandlerInv /\ HistoryInv

----------------------------------------------------------------------------
(* Every variable keeps to its type.                                       *)
LEMMA InitType == Init => TypeOK
  BY DEF Init, TypeOK, Statuses, Places

LEMMA StepType == TypeOK /\ [Next]_vars => TypeOK'
<1> SUFFICES ASSUME TypeOK, [Next]_vars PROVE TypeOK'
  OBVIOUS
<1> USE DEF TypeOK, Statuses, Places, table, local
<1>1. ASSUME NEW g \in Grants, Lapse(g) PROVE TypeOK'
  BY <1>1 DEF Lapse
<1>2. ASSUME NEW p \in Handlers, NEW g \in Grants, NEW c \in Credentials,
             Create(p, g, c)
      PROVE TypeOK'
  BY <1>2 DEF Create, Insert, Fresh
<1>3. ASSUME NEW p \in Handlers, NEW g \in Grants, Present(p, g) PROVE TypeOK'
  BY <1>3 DEF Present, ReadGrant, Goto
<1>4. ASSUME NEW p \in Handlers, NEW g \in Grants, Revoke(p, g) PROVE TypeOK'
  BY <1>4 DEF Revoke, SetStatus
<1>5. ASSUME NEW p \in Handlers, NEW g \in Grants, ChainUpdate(p, g)
      PROVE TypeOK'
  BY <1>5 DEF ChainUpdate, Goto
<1>16. ASSUME NEW p \in Handlers, NEW g \in Grants, CascadeLock(p, g)
      PROVE TypeOK'
  BY <1>16 DEF CascadeLock
<1>6. ASSUME NEW p \in Handlers, NEW c \in Credentials, CascadeStart(p, c)
      PROVE TypeOK'
  BY <1>6 DEF CascadeStart, Goto, Rows
<1>7. ASSUME NEW p \in Handlers, Expire(p) PROVE TypeOK'
  BY <1>7 DEF Expire, SetStatus, Answer, Goto
<1>8. ASSUME NEW p \in Handlers, Attest(p) PROVE TypeOK'
  BY <1>8 DEF Attest, Goto
<1>9. ASSUME NEW p \in Handlers, RotateIfActive(p) PROVE TypeOK'
  BY <1>9 DEF RotateIfActive, Answer, Goto
<1>10. ASSUME NEW p \in Handlers, Mint(p) PROVE TypeOK'
  <2> subject[p] \in Grants
    BY <1>10 DEF Mint
  <2> PICK n \in Grants :
        /\ status' = [status EXCEPT ![subject[p]] = "rotated", ![n] = "active"]
        /\ Insert(n, subject[p], sch[subject[p]], family[subject[p]])
    BY <1>10 DEF Mint, Fresh
  <2>1. status' \in [Grants -> Statuses]
    OBVIOUS
  <2>2. /\ rotatedFrom' \in [Grants -> Grants \cup {None}]
    BY DEF Insert
  <2>3. sch' \in [Grants -> Credentials \cup {None}]
    BY DEF Insert
  <2>4. family' \in [Grants -> Grants \cup {None}]
    BY DEF Insert
  <2>5. /\ pc' = [pc EXCEPT ![p] = "idle"]
        /\ subject' = [subject EXCEPT ![p] = None]
        /\ todo' = [todo EXCEPT ![p] = {}]
        /\ batch' = [batch EXCEPT ![p] = {}]
        /\ UNCHANGED <<lapsed, condemned>>
    BY <1>10 DEF Mint, Answer, Goto
  <2> QED
    BY <2>1, <2>2, <2>3, <2>4, <2>5
<1>11. ASSUME NEW p \in Handlers, ChainChildren(p) PROVE TypeOK'
  BY <1>11 DEF ChainChildren, Goto, Children
<1>12. ASSUME NEW p \in Handlers, ChainCommit(p) PROVE TypeOK'
  BY <1>12 DEF ChainCommit, SetStatus, Answer, Goto
<1>13. ASSUME NEW p \in Handlers, CascadeFinish(p) PROVE TypeOK'
  BY <1>13 DEF CascadeFinish, SetStatus, Answer, Goto
<1>14. ASSUME NEW p \in Handlers, Abandon(p) PROVE TypeOK'
  BY <1>14 DEF Abandon, Answer, Goto
<1>15. CASE UNCHANGED vars
  BY <1>15 DEF vars
<1> QED
  BY <1>1, <1>2, <1>3, <1>4, <1>5, <1>6, <1>7, <1>8, <1>9, <1>10, <1>11,
     <1>12, <1>13, <1>14, <1>15, <1>16 DEF Next, Step

(* Whatever requests are served, the table and the handlers keep to their  *)
(* types: statuses stay within the schema's enumeration.                   *)
THEOREM TypeCorrect == Spec => []TypeOK
<1>1. Init /\ [][Next]_vars => []TypeOK
  BY InitType, StepType, PTL
<1> QED
  BY <1>1, PTL DEF Spec

----------------------------------------------------------------------------
(* The table.  Overwriting the status of rows with a dead one keeps its    *)
(* shape; so does inserting the first row of a family, and so does the     *)
(* rotation of an active grant into a new row.                             *)
LEMMA TableWrite ==
  ASSUME TypeOK, TableInv, NEW R \in SUBSET Rows,
         NEW s \in {"revoked", "expired"}, SetStatus(R, s),
         UNCHANGED <<rotatedFrom, sch, family>>
  PROVE  TableInv' /\ Rows' = Rows
<1> USE DEF TypeOK, TableInv, SetStatus
<1>1. Rows' = Rows
  BY DEF Rows, Statuses
<1>2. WellFormed'
  BY <1>1 DEF WellFormed, Rows
<1>3. ActiveIsLeaf'
  BY DEF ActiveIsLeaf, Leaf
<1>4. OneLeaf'
  BY <1>1 DEF OneLeaf, Leaf
<1>5. NoFork'
  BY DEF NoFork
<1>6. SpentHasSuccessor'
  BY DEF SpentHasSuccessor, Children
<1> QED
  BY <1>1, <1>2, <1>3, <1>4, <1>5, <1>6

LEMMA TableOpen ==
  ASSUME TypeOK, TableInv, NEW g \in Fresh, NEW c \in Credentials,
         status' = [status EXCEPT ![g] = "active"], Insert(g, None, c, g)
  PROVE  TableInv' /\ Rows' = Rows \cup {g}
<1> USE NoneAssumption DEF TypeOK, TableInv, Insert, Fresh
<1>1. Rows' = Rows \cup {g}
  BY DEF Rows
<1>2. Leaf(g) /\ \A h \in Grants : family[h] # g
  BY DEF WellFormed, Rows, Leaf
<1>3. WellFormed'
  <2> SUFFICES ASSUME NEW h \in Grants PROVE
        /\ status'[h] = "absent" =>
             rotatedFrom'[h] = None /\ family'[h] = None /\ sch'[h] = None
        /\ status'[h] # "absent" => family'[h] \in Rows' /\ sch'[h] # None
        /\ rotatedFrom'[h] # None =>
             /\ rotatedFrom'[h] \in Rows'
             /\ family'[rotatedFrom'[h]] = family'[h]
    BY DEF WellFormed
  <2>1. CASE h = g
    BY <2>1, <1>1
  <2>2. CASE h # g
    BY <2>2, <1>1 DEF WellFormed, Rows
  <2> QED
    BY <2>1, <2>2
<1>4. \A h \in Grants : Leaf(h)' <=> Leaf(h)
  BY <1>2 DEF Leaf, WellFormed, Rows
<1>5. ActiveIsLeaf'
  BY <1>2, <1>4 DEF ActiveIsLeaf
<1>6. OneLeaf'
  <2>1. family'[g] = g /\ \A h \in Rows : family'[h] = family[h] /\ family[h] # g
    BY <1>2 DEF Rows
  <2>2. \A h \in Rows' : h # g => h \in Rows
    BY <1>1
  <2> QED
    BY <1>1, <1>4, <2>1, <2>2 DEF OneLeaf, Rows
<1>7. NoFork'
  BY DEF NoFork
<1>8. SpentHasSuccessor'
  BY <1>1 DEF SpentHasSuccessor, Children, WellFormed, Rows
<1> QED
  BY <1>1, <1>3, <1>5, <1>6, <1>7, <1>8

LEMMA TableRotate ==
  ASSUME TypeOK, TableInv, NEW g \in Rows, status[g] = "active", NEW n \in Fresh,
         status' = [status EXCEPT ![g] = "rotated", ![n] = "active"],
         Insert(n, g, sch[g], family[g])
  PROVE  /\ TableInv'
         /\ Rows' = Rows \cup {n}
         /\ \A h \in Grants : Leaf(h)' <=> Leaf(h) /\ h # g
<1> USE NoneAssumption DEF TypeOK, TableInv, Insert, Fresh
<1>1. Rows' = Rows \cup {n} /\ g # n /\ g \in Grants
  BY DEF Rows
<1>2. Leaf(g) /\ Leaf(n) /\ rotatedFrom[n] = None
  BY <1>1 DEF ActiveIsLeaf, WellFormed, Rows, Leaf
<1>3. \A h \in Grants : Leaf(h)' <=> Leaf(h) /\ h # g
  BY <1>1, <1>2 DEF Leaf
<1>4. WellFormed'
  BY <1>1 DEF WellFormed, Rows
<1>5. ActiveIsLeaf'
  BY <1>1, <1>2, <1>3 DEF ActiveIsLeaf
<1>6. OneLeaf'
  <2> SUFFICES ASSUME NEW h \in Rows', NEW k \in Rows', Leaf(h)', Leaf(k)',
                      family'[h] = family'[k]
               PROVE  h = k
    BY DEF OneLeaf
  <2>1. Leaf(h) /\ Leaf(k) /\ h # g /\ k # g
    BY <1>1, <1>3 DEF Rows
  <2>2. \A x \in Rows : family'[x] = family[x]
    BY <1>1 DEF Rows
  <2>3. \A x \in Rows : Leaf(x) /\ family[x] = family[g] => x = g
    BY <1>2 DEF OneLeaf
  <2>4. family'[n] = family[g]
    BY <1>1
  <2> QED
    BY <1>1, <2>1, <2>2, <2>3, <2>4 DEF OneLeaf
<1>7. NoFork'
  BY <1>1, <1>2 DEF NoFork, Leaf
<1>8. SpentHasSuccessor'
  <2> SUFFICES ASSUME NEW h \in Grants, status'[h] = "rotated"
               PROVE  \E c \in Grants : rotatedFrom'[c] = h
    BY DEF SpentHasSuccessor, Children
  <2>1. CASE h = g
    BY <2>1, <1>1
  <2>2. CASE h # g
    BY <2>2, <1>1, <1>2 DEF SpentHasSuccessor, Children
  <2> QED
    BY <2>1, <2>2
<1> QED
  BY <1>1, <1>3, <1>4, <1>5, <1>6, <1>7, <1>8

----------------------------------------------------------------------------
(* Handlers.  A step that leaves the table alone is looked at through the  *)
(* one handler that takes it.                                              *)
LEMMA InitInv == Init => IInv
<1> SUFFICES ASSUME Init PROVE IInv
  OBVIOUS
<1> USE DEF Init
<1>1. TypeOK
  BY InitType
<1>2. TableInv
  BY NoneAssumption DEF TableInv, WellFormed, ActiveIsLeaf, OneLeaf, NoFork,
                        SpentHasSuccessor, Rows
<1>3. HandlerInv
  BY DEF HandlerInv, SubjectIsRow, MintHoldsActive, LocksExclusive, WalkCovers,
         CascadeRows, BatchInUse, Locks
<1>4. HistoryInv
  BY DEF HistoryInv, TheftResponseComplete
<1> QED
  BY <1>1, <1>2, <1>3, <1>4 DEF IInv

LEMMA TableStutter ==
  TableInv /\ UNCHANGED table => TableInv'
BY DEF TableInv, WellFormed, ActiveIsLeaf, OneLeaf, NoFork, SpentHasSuccessor,
       Rows, Leaf, Children, table

LEMMA HistoryStutter ==
  HistoryInv /\ UNCHANGED <<table, condemned>> => HistoryInv'
BY DEF HistoryInv, TheftResponseComplete, Rows, table

(* A handler that finishes, or gives up, drops its claims and its locks.   *)
LEMMA HandlerAnswers ==
  ASSUME TypeOK, HandlerInv, NEW p \in Handlers, Answer(p), Rows \subseteq Rows',
         UNCHANGED <<rotatedFrom, family>>,
         \A q \in Handlers \ {p} :
           pc[q] = "mint" => status'[subject[q]] = status[subject[q]]
  PROVE  HandlerInv'
<1> USE DEF TypeOK, HandlerInv, Answer, Goto
<1>1. SubjectIsRow'
  BY DEF SubjectIsRow
<1>2. MintHoldsActive'
  BY DEF MintHoldsActive
<1>3. Locks(p)' = {} /\ \A q \in Handlers \ {p} : Locks(q)' = Locks(q)
  BY DEF Locks
<1>4. LocksExclusive'
  BY <1>3 DEF LocksExclusive
<1>5. WalkCovers'
  <2> SUFFICES ASSUME NEW q \in Handlers, pc'[q] \in {"update", "children"}
               PROVE  /\ todo'[q] \cup batch'[q] \subseteq
                           {g \in Rows' : family'[g] = family'[subject'[q]]}
                      /\ pc'[q] = "children" => subject'[q] \in batch'[q]
                      /\ pc'[q] = "update" /\ todo'[q] = {} =>
                           \E l \in batch'[q] : Leaf(l)'
    BY DEF WalkCovers
  <2>1. q # p /\ pc'[q] = pc[q] /\ subject'[q] = subject[q]
        /\ todo'[q] = todo[q] /\ batch'[q] = batch[q]
    OBVIOUS
  <2> QED
    BY <2>1 DEF WalkCovers, Leaf
<1>6. CascadeRows' /\ BatchInUse'
  BY DEF CascadeRows, BatchInUse
<1> QED
  BY <1>1, <1>2, <1>4, <1>5, <1>6

LEMMA HandlerStutter ==
  ASSUME HandlerInv, Rows \subseteq Rows', UNCHANGED local, TypeOK,
         \A g \in Rows : family'[g] = family[g],
         \A g \in Rows : Leaf(g) => Leaf(g)',
         \A p \in Handlers :
           pc[p] = "mint" => status'[subject[p]] = status[subject[p]]
  PROVE  HandlerInv'
<1> USE DEF HandlerInv, local
<1>1. SubjectIsRow' /\ MintHoldsActive' /\ CascadeRows' /\ BatchInUse'
  BY DEF SubjectIsRow, MintHoldsActive, CascadeRows, BatchInUse
<1>2. LocksExclusive'
  BY DEF LocksExclusive, Locks
<1>3. WalkCovers'
  <2> SUFFICES ASSUME NEW q \in Handlers, pc[q] \in {"update", "children"}
               PROVE  /\ todo[q] \cup batch[q] \subseteq
                           {g \in Rows' : family'[g] = family'[subject[q]]}
                      /\ pc[q] = "children" => subject[q] \in batch[q]
                      /\ pc[q] = "update" /\ todo[q] = {} =>
                           \E l \in batch[q] : Leaf(l)'
    BY DEF WalkCovers
  <2>1. subject[q] \in Rows
    BY DEF SubjectIsRow
  <2>2. todo[q] \cup batch[q] \subseteq {g \in Rows : family[g] = family[subject[q]]}
    BY DEF WalkCovers
  <2> QED
    BY <2>1, <2>2 DEF WalkCovers
<1> QED
  BY <1>1, <1>2, <1>3

----------------------------------------------------------------------------
(* The steps.                                                              *)
LEMMA LapseInv == \A g \in Grants : IInv /\ Lapse(g) => IInv'
<1> SUFFICES ASSUME NEW g \in Grants, IInv, Lapse(g) PROVE IInv'
  OBVIOUS
<1>1. TypeOK'
  BY StepType DEF IInv, Next
<1>2. TableInv' /\ HistoryInv'
  BY TableStutter, HistoryStutter DEF IInv, Lapse
<1>3. HandlerInv'
  BY HandlerStutter DEF IInv, Lapse, table, Rows, Leaf
<1> QED
  BY <1>1, <1>2, <1>3 DEF IInv

LEMMA CreateInv ==
  \A p \in Handlers, g \in Grants, c \in Credentials :
    IInv /\ Create(p, g, c) => IInv'
<1> SUFFICES ASSUME NEW p \in Handlers, NEW g \in Grants, NEW c \in Credentials,
                    IInv, Create(p, g, c)
             PROVE  IInv'
  OBVIOUS
<1>1. TypeOK'
  BY StepType DEF IInv, Next, Step
<1>2. TableInv' /\ Rows' = Rows \cup {g} /\ g \notin Rows
  BY TableOpen DEF IInv, Create, Fresh
<1>3. \A h \in Grants : h # g => status'[h] = status[h] /\ family'[h] = family[h]
  BY DEF IInv, TypeOK, Create, Insert
<1>4. \A h \in Rows : Leaf(h) => Leaf(h)'
  BY <1>2, NoneAssumption DEF IInv, TypeOK, Create, Insert, Leaf, Rows
<1>5. HandlerInv'
  <2>1. \A q \in Handlers : pc[q] = "mint" => subject[q] \in Rows
    BY DEF IInv, HandlerInv, SubjectIsRow
  <2> QED
    BY HandlerStutter, <1>2, <1>3, <1>4, <2>1 DEF IInv, Create, Rows
<1>6. HistoryInv'
  <2>1. family'[g] = g /\ g \notin condemned
    BY <1>2 DEF IInv, HistoryInv, TypeOK, Create, Insert
  <2> QED
    BY <1>2, <1>3, <2>1 DEF IInv, HistoryInv, TheftResponseComplete, Create
<1> QED
  BY <1>1, <1>2, <1>5, <1>6 DEF IInv

(* A handler moves on and the table stays: only its own claims and locks   *)
(* need to be looked at.                                                   *)
LEMMA HandlerMoves ==
  ASSUME TypeOK, HandlerInv, NEW p \in Handlers, UNCHANGED table,
         \A q \in Handlers \ {p} :
           /\ pc'[q] = pc[q] /\ subject'[q] = subject[q]
           /\ todo'[q] = todo[q] /\ batch'[q] = batch[q]
           /\ Locks(q) \cap Locks(p)' = {},
         pc'[p] \notin {"idle", "cascade"} => subject'[p] \in Rows,
         pc'[p] = "mint" => status[subject'[p]] = "active",
         pc'[p] \in {"update", "children"} =>
           /\ todo'[p] \cup batch'[p] \subseteq
                {g \in Rows : family[g] = family[subject'[p]]}
           /\ pc'[p] = "children" => subject'[p] \in batch'[p]
           /\ pc'[p] = "update" /\ todo'[p] = {} => \E l \in batch'[p] : Leaf(l),
         pc'[p] = "cascade" => todo'[p] \cup batch'[p] \subseteq Rows,
         pc'[p] \notin {"update", "children", "cascade"} => batch'[p] = {}
  PROVE  HandlerInv'
<1> USE DEF HandlerInv, table
<1>1. /\ status' = status /\ family' = family /\ Rows' = Rows
      /\ \A g : Leaf(g)' <=> Leaf(g)
  BY DEF Rows, Leaf
<1>2. SubjectIsRow' /\ MintHoldsActive' /\ CascadeRows' /\ BatchInUse'
  BY <1>1 DEF SubjectIsRow, MintHoldsActive, CascadeRows, BatchInUse
<1>3. \A q \in Handlers \ {p} : Locks(q)' = Locks(q)
  BY DEF Locks
<1>4. LocksExclusive'
  BY <1>3 DEF LocksExclusive
<1>5. WalkCovers'
  <2> SUFFICES ASSUME NEW q \in Handlers, pc'[q] \in {"update", "children"}
               PROVE  /\ todo'[q] \cup batch'[q] \subseteq
                           {g \in Rows : family[g] = family[subject'[q]]}
                      /\ pc'[q] = "children" => subject'[q] \in batch'[q]
                      /\ pc'[q] = "update" /\ todo'[q] = {} =>
                           \E l \in batch'[q] : Leaf(l)
    BY <1>1 DEF WalkCovers
  <2>1. CASE q = p
    BY <2>1
  <2>2. CASE q # p
    BY <2>2 DEF WalkCovers
  <2> QED
    BY <2>1, <2>2
<1> QED
  BY <1>2, <1>4, <1>5

LEMMA PresentInv ==
  \A p \in Handlers, g \in Grants : IInv /\ Present(p, g) => IInv'
<1> SUFFICES ASSUME NEW p \in Handlers, NEW g \in Grants, IInv, Present(p, g)
             PROVE  IInv'
  OBVIOUS
<1>1. TypeOK'
  BY StepType DEF IInv, Next, Step
<1>2. UNCHANGED <<table, condemned, batch>> /\ pc[p] = "idle" /\ g \in Rows
  BY DEF Present, ReadGrant, Rows
<1>3. TableInv' /\ HistoryInv'
  BY <1>2, TableStutter, HistoryStutter DEF IInv
<1>4. batch[p] = {}
  BY <1>2 DEF IInv, HandlerInv, BatchInUse
<1>5. /\ subject'[p] = g
      /\ \/ pc'[p] \in {"attest", "expire"}
         \/ pc'[p] = "update" /\ todo'[p] = {g}
      /\ \A q \in Handlers \ {p} :
           /\ pc'[q] = pc[q] /\ subject'[q] = subject[q] /\ todo'[q] = todo[q]
  BY DEF IInv, TypeOK, Present, ReadGrant, Goto
<1>6. Locks(p)' = {}
  BY <1>2, <1>4, <1>5 DEF Locks
<1>7. HandlerInv'
  BY <1>2, <1>4, <1>5, <1>6, HandlerMoves DEF IInv
<1> QED
  BY <1>1, <1>3, <1>7 DEF IInv

LEMMA AttestInv == \A p \in Handlers : IInv /\ Attest(p) => IInv'
<1> SUFFICES ASSUME NEW p \in Handlers, IInv, Attest(p) PROVE IInv'
  OBVIOUS
<1>1. TypeOK'
  BY StepType DEF IInv, Next, Step
<1>2. TableInv' /\ HistoryInv'
  BY TableStutter, HistoryStutter DEF IInv, Attest
<1>3. batch[p] = {} /\ subject[p] \in Rows
  BY DEF IInv, HandlerInv, BatchInUse, SubjectIsRow, Attest
<1>4. /\ pc'[p] = "rotate"
      /\ \A q \in Handlers \ {p} : pc'[q] = pc[q]
      /\ UNCHANGED <<table, subject, todo, batch>>
  BY DEF IInv, TypeOK, Attest, Goto
<1>5. Locks(p)' = {}
  BY <1>3, <1>4 DEF Locks
<1>6. HandlerInv'
  BY <1>3, <1>4, <1>5, HandlerMoves DEF IInv
<1> QED
  BY <1>1, <1>2, <1>6 DEF IInv

LEMMA AbandonInv == \A p \in Handlers : IInv /\ Abandon(p) => IInv'
<1> SUFFICES ASSUME NEW p \in Handlers, IInv, Abandon(p) PROVE IInv'
  OBVIOUS
<1>1. TypeOK'
  BY StepType DEF IInv, Next, Step
<1>2. TableInv' /\ HistoryInv'
  BY TableStutter, HistoryStutter DEF IInv, Abandon
<1>3. HandlerInv'
  BY HandlerAnswers DEF IInv, Abandon, table, Rows
<1> QED
  BY <1>1, <1>2, <1>3 DEF IInv

LEMMA RotateIfActiveInv == \A p \in Handlers : IInv /\ RotateIfActive(p) => IInv'
<1> SUFFICES ASSUME NEW p \in Handlers, IInv, RotateIfActive(p) PROVE IInv'
  OBVIOUS
<1>1. TypeOK'
  BY StepType DEF IInv, Next, Step
<1>2. TableInv' /\ HistoryInv'
  BY TableStutter, HistoryStutter DEF IInv, RotateIfActive
<1>3. CASE Answer(p)
  BY <1>1, <1>2, <1>3, HandlerAnswers DEF IInv, RotateIfActive, table, Rows
<1>4. CASE ~Answer(p)
  <2>1. /\ status[subject[p]] = "active"
        /\ pc'[p] = "mint" /\ \A q \in Handlers \ {p} : pc'[q] = pc[q]
        /\ UNCHANGED <<table, subject, todo, batch>>
    BY <1>4 DEF IInv, TypeOK, RotateIfActive, Goto
  <2>2. batch[p] = {} /\ subject[p] \in Rows
    BY DEF IInv, HandlerInv, BatchInUse, SubjectIsRow, RotateIfActive
  <2>3. Locks(p)' = {subject[p]} /\ \A q \in Handlers \ {p} : Locks(q) \cap {subject[p]} = {}
    BY <2>1, <2>2 DEF Locks, RotateIfActive, Writable, Rows
  <2>4. HandlerInv'
    BY <2>1, <2>2, <2>3, HandlerMoves DEF IInv
  <2> QED
    BY <1>1, <1>2, <2>4 DEF IInv
<1> QED
  BY <1>3, <1>4

LEMMA ChainUpdateInv ==
  \A p \in Handlers, g \in Grants : IInv /\ ChainUpdate(p, g) => IInv'
<1> SUFFICES ASSUME NEW p \in Handlers, NEW g \in Grants, IInv, ChainUpdate(p, g)
             PROVE  IInv'
  OBVIOUS
<1>1. TypeOK'
  BY StepType DEF IInv, Next, Step
<1>2. TableInv' /\ HistoryInv'
  BY TableStutter, HistoryStutter DEF IInv, ChainUpdate
<1>3. /\ pc'[p] = "children" /\ subject'[p] = g
      /\ todo'[p] = todo[p] \ {g} /\ batch'[p] = batch[p] \cup {g}
      /\ \A q \in Handlers \ {p} :
           /\ pc'[q] = pc[q] /\ subject'[q] = subject[q]
           /\ todo'[q] = todo[q] /\ batch'[q] = batch[q]
      /\ UNCHANGED table
  BY DEF IInv, TypeOK, ChainUpdate, Goto
<1>4. /\ g \in todo[p]
      /\ todo[p] \cup batch[p] \subseteq {h \in Rows : family[h] = family[subject[p]]}
  BY DEF IInv, HandlerInv, WalkCovers, ChainUpdate
<1>5. Locks(p)' = Locks(p) \cup {g}
  BY <1>3, <1>4 DEF Locks, ChainUpdate
<1>6. \A q \in Handlers \ {p} : Locks(q) \cap Locks(p)' = {}
  BY <1>5 DEF IInv, HandlerInv, LocksExclusive, ChainUpdate, Writable
<1>7. HandlerInv'
  BY <1>3, <1>4, <1>6, HandlerMoves DEF IInv
<1> QED
  BY <1>1, <1>2, <1>7 DEF IInv

LEMMA ChainChildrenInv == \A p \in Handlers : IInv /\ ChainChildren(p) => IInv'
<1> SUFFICES ASSUME NEW p \in Handlers, IInv, ChainChildren(p) PROVE IInv'
  OBVIOUS
<1>1. TypeOK'
  BY StepType DEF IInv, Next, Step
<1>2. TableInv' /\ HistoryInv'
  BY TableStutter, HistoryStutter DEF IInv, ChainChildren
<1>3. /\ pc'[p] = "update" /\ todo'[p] = todo[p] \cup Children(subject[p])
      /\ \A q \in Handlers \ {p} : pc'[q] = pc[q] /\ todo'[q] = todo[q]
      /\ UNCHANGED <<table, subject, batch>>
  BY DEF IInv, TypeOK, ChainChildren, Goto
<1>4. /\ subject[p] \in batch[p] /\ subject[p] \in Rows
      /\ todo[p] \cup batch[p] \subseteq {h \in Rows : family[h] = family[subject[p]]}
  BY DEF IInv, HandlerInv, WalkCovers, SubjectIsRow, ChainChildren
<1>5. \A c \in Children(subject[p]) : c \in Rows /\ family[c] = family[subject[p]]
  BY <1>4, NoneAssumption
  DEF IInv, TypeOK, TableInv, WellFormed, Children, Rows
<1>6. todo'[p] = {} => Leaf(subject[p])
  BY <1>3 DEF Children, Leaf
<1>7. Locks(p)' = Locks(p)
  BY <1>3 DEF Locks, ChainChildren
<1>8. HandlerInv'
  <2>1. \A q \in Handlers \ {p} : Locks(q) \cap Locks(p)' = {}
    BY <1>7 DEF IInv, HandlerInv, LocksExclusive
  <2> QED
    BY <1>3, <1>4, <1>5, <1>6, <2>1, HandlerMoves DEF IInv
<1> QED
  BY <1>1, <1>2, <1>8 DEF IInv

LEMMA CascadeStartInv ==
  \A p \in Handlers, c \in Credentials : IInv /\ CascadeStart(p, c) => IInv'
<1> SUFFICES ASSUME NEW p \in Handlers, NEW c \in Credentials, IInv,
                    CascadeStart(p, c)
             PROVE  IInv'
  OBVIOUS
<1>1. TypeOK'
  BY StepType DEF IInv, Next, Step
<1>2. TableInv' /\ HistoryInv'
  BY TableStutter, HistoryStutter DEF IInv, CascadeStart
<1>3. /\ pc'[p] = "cascade" /\ todo'[p] \subseteq Rows
      /\ \A q \in Handlers \ {p} : pc'[q] = pc[q] /\ todo'[q] = todo[q]
      /\ UNCHANGED <<table, subject, batch>>
  BY DEF IInv, TypeOK, CascadeStart, Goto
<1>4. batch[p] = {} /\ Locks(p)' = {}
  BY <1>3 DEF Locks, IInv, HandlerInv, BatchInUse, CascadeStart
<1>5. HandlerInv'
  BY <1>3, <1>4, HandlerMoves DEF IInv
<1> QED
  BY <1>1, <1>2, <1>5 DEF IInv

LEMMA CascadeLockInv ==
  \A p \in Handlers, g \in Grants : IInv /\ CascadeLock(p, g) => IInv'
<1> SUFFICES ASSUME NEW p \in Handlers, NEW g \in Grants, IInv, CascadeLock(p, g)
             PROVE  IInv'
  OBVIOUS
<1>1. TypeOK'
  BY StepType DEF IInv, Next, Step
<1>2. TableInv' /\ HistoryInv'
  BY TableStutter, HistoryStutter DEF IInv, CascadeLock
<1>3. /\ todo'[p] = todo[p] \ {g} /\ batch'[p] \subseteq batch[p] \cup {g}
      /\ \A q \in Handlers \ {p} : todo'[q] = todo[q] /\ batch'[q] = batch[q]
      /\ UNCHANGED <<table, pc, subject>>
  BY DEF IInv, TypeOK, CascadeLock
<1>4. todo[p] \cup batch[p] \subseteq Rows /\ g \in todo[p]
  BY DEF IInv, HandlerInv, CascadeRows, CascadeLock
<1>5. Locks(p)' \subseteq Locks(p) \cup {g}
  BY <1>3 DEF Locks, CascadeLock
<1>6. \A q \in Handlers \ {p} : Locks(q) \cap Locks(p)' = {}
  BY <1>5 DEF IInv, HandlerInv, LocksExclusive, CascadeLock, Writable
<1>7. HandlerInv'
  BY <1>3, <1>4, <1>6, HandlerMoves DEF IInv, CascadeLock
<1> QED
  BY <1>1, <1>2, <1>7 DEF IInv

(* The rows that R overwrites are locked by no other handler, so no other  *)
(* handler is about to mint from one of them.                              *)
LEMMA MintUndisturbed ==
  ASSUME TypeOK, HandlerInv, NEW p \in Handlers, NEW R \in SUBSET Grants,
         NEW s, SetStatus(R, s), Writable(p, R)
  PROVE  \A q \in Handlers \ {p} :
           pc[q] = "mint" => status'[subject[q]] = status[subject[q]]
<1> SUFFICES ASSUME NEW q \in Handlers \ {p}, pc[q] = "mint"
             PROVE  status'[subject[q]] = status[subject[q]]
  OBVIOUS
<1>1. subject[q] \in Grants /\ subject[q] \in Locks(q)
  BY DEF TypeOK, Locks
<1>2. subject[q] \notin R
  BY <1>1 DEF Writable
<1> QED
  BY <1>1, <1>2 DEF SetStatus, TypeOK

LEMMA WriteHistory ==
  ASSUME TypeOK, HistoryInv, NEW R \in SUBSET Rows,
         NEW s \in {"revoked", "expired"}, SetStatus(R, s), Rows' = Rows,
         UNCHANGED <<family, condemned>>
  PROVE  HistoryInv'
BY DEF TypeOK, HistoryInv, TheftResponseComplete, SetStatus

LEMMA ExpireInv == \A p \in Handlers : IInv /\ Expire(p) => IInv'
<1> SUFFICES ASSUME NEW p \in Handlers, IInv, Expire(p) PROVE IInv'
  OBVIOUS
<1>1. TypeOK'
  BY StepType DEF IInv, Next, Step
<1>2. {subject[p]} \in SUBSET Rows
  BY DEF IInv, HandlerInv, SubjectIsRow, Expire
<1>3. TableInv' /\ Rows' = Rows
  BY <1>2, TableWrite DEF IInv, Expire
<1>4. HistoryInv'
  BY <1>2, <1>3, WriteHistory DEF IInv, Expire
<1>5. \A q \in Handlers \ {p} :
        pc[q] = "mint" => status'[subject[q]] = status[subject[q]]
  BY <1>2, MintUndisturbed DEF IInv, Expire, Rows
<1>6. HandlerInv'
  BY <1>3, <1>5, HandlerAnswers DEF IInv, Expire
<1> QED
  BY <1>1, <1>3, <1>4, <1>6 DEF IInv

LEMMA RevokeInv == \A p \in Handlers, g \in Grants : IInv /\ Revoke(p, g) => IInv'
<1> SUFFICES ASSUME NEW p \in Handlers, NEW g \in Grants, IInv, Revoke(p, g)
             PROVE  IInv'
  OBVIOUS
<1>1. TypeOK'
  BY StepType DEF IInv, Next, Step
<1>2. {g} \in SUBSET Rows
  BY DEF Revoke
<1>3. TableInv' /\ Rows' = Rows
  BY <1>2, TableWrite DEF IInv, Revoke
<1>4. HistoryInv'
  BY <1>2, <1>3, WriteHistory DEF IInv, Revoke
<1>5. \A q \in Handlers : pc[q] = "mint" => status'[subject[q]] = status[subject[q]]
  BY <1>2, MintUndisturbed DEF IInv, Revoke, Rows
<1>6. HandlerInv'
  BY <1>3, <1>5, HandlerStutter DEF IInv, Revoke, Leaf
<1> QED
  BY <1>1, <1>3, <1>4, <1>6 DEF IInv

LEMMA CascadeFinishInv == \A p \in Handlers : IInv /\ CascadeFinish(p) => IInv'
<1> SUFFICES ASSUME NEW p \in Handlers, IInv, CascadeFinish(p) PROVE IInv'
  OBVIOUS
<1>1. TypeOK'
  BY StepType DEF IInv, Next, Step
<1>2. batch[p] \in SUBSET Rows
  BY DEF IInv, HandlerInv, CascadeRows, CascadeFinish
<1>3. TableInv' /\ Rows' = Rows
  BY <1>2, TableWrite DEF IInv, CascadeFinish
<1>4. HistoryInv'
  BY <1>2, <1>3, WriteHistory DEF IInv, CascadeFinish
<1>5. \A q \in Handlers \ {p} :
        pc[q] = "mint" => status'[subject[q]] = status[subject[q]]
  <2>1. Locks(p) = batch[p]
    BY <1>2 DEF Locks, CascadeFinish, Rows
  <2>2. Writable(p, batch[p])
    BY <2>1 DEF IInv, HandlerInv, LocksExclusive, Writable
  <2> QED
    BY <1>2, <2>2, MintUndisturbed DEF IInv, CascadeFinish, Rows
<1>6. HandlerInv'
  BY <1>3, <1>5, HandlerAnswers DEF IInv, CascadeFinish
<1> QED
  BY <1>1, <1>3, <1>4, <1>6 DEF IInv

(* The walk has locked the family's last member, the only one that could   *)
(* still be active, so its commit leaves the family dead.                  *)
LEMMA ChainCommitInv == \A p \in Handlers : IInv /\ ChainCommit(p) => IInv'
<1> SUFFICES ASSUME NEW p \in Handlers, IInv, ChainCommit(p) PROVE IInv'
  OBVIOUS
<1>1. TypeOK'
  BY StepType DEF IInv, Next, Step
<1>2. /\ batch[p] \subseteq {g \in Rows : family[g] = family[subject[p]]}
      /\ subject[p] \in Rows
  BY DEF IInv, HandlerInv, WalkCovers, SubjectIsRow, ChainCommit
<1>3. TableInv' /\ Rows' = Rows
  BY <1>2, TableWrite DEF IInv, ChainCommit
<1>4. \A g \in Grants : status'[g] = "active" =>
        status[g] = "active" /\ g \notin batch[p]
  BY DEF IInv, TypeOK, ChainCommit, SetStatus
<1>5. \A g \in Grants : status'[g] = "active" => family[g] # family[subject[p]]
  <2> SUFFICES ASSUME NEW g \in Grants, status'[g] = "active",
                      family[g] = family[subject[p]]
               PROVE  FALSE
    OBVIOUS
  <2>1. g \in Rows /\ Leaf(g)
    BY <1>4 DEF IInv, TableInv, ActiveIsLeaf, Rows
  <2>2. PICK l \in batch[p] : Leaf(l)
    BY DEF IInv, HandlerInv, WalkCovers, ChainCommit
  <2>3. l = g
    BY <1>2, <2>1, <2>2 DEF IInv, TableInv, OneLeaf
  <2> QED
    BY <1>4, <2>3
<1>6. HistoryInv'
  <2>1. condemned' \subseteq Rows'
    BY <1>2, <1>3 DEF IInv, TableInv, WellFormed, HistoryInv, ChainCommit, Rows
  <2>2. TheftResponseComplete'
    BY <1>4, <1>5 DEF IInv, HistoryInv, TheftResponseComplete, ChainCommit
  <2> QED
    BY <2>1, <2>2 DEF HistoryInv
<1>7. \A q \in Handlers \ {p} :
        pc[q] = "mint" => status'[subject[q]] = status[subject[q]]
  <2>1. Locks(p) = batch[p]
    BY <1>2 DEF Locks, ChainCommit, Rows
  <2>2. Writable(p, batch[p])
    BY <2>1 DEF IInv, HandlerInv, LocksExclusive, Writable
  <2> QED
    BY <1>2, <2>2, MintUndisturbed DEF IInv, ChainCommit, Rows
<1>8. HandlerInv'
  BY <1>3, <1>7, HandlerAnswers DEF IInv, ChainCommit
<1> QED
  BY <1>1, <1>3, <1>6, <1>8 DEF IInv

(* The rotated grant stops being its family's last member.  No walk had it *)
(* locked, so no walk relied on it.                                        *)
LEMMA MintInv == \A p \in Handlers : IInv /\ Mint(p) => IInv'
<1> SUFFICES ASSUME NEW p \in Handlers, IInv, Mint(p) PROVE IInv'
  OBVIOUS
<1>1. TypeOK'
  BY StepType DEF IInv, Next, Step
<1> DEFINE g == subject[p]
<1> PICK n \in Fresh :
      /\ status' = [status EXCEPT ![g] = "rotated", ![n] = "active"]
      /\ Insert(n, g, sch[g], family[g])
  BY DEF Mint
<1>2. g \in Rows /\ status[g] = "active" /\ g \in Locks(p)
  BY DEF IInv, HandlerInv, SubjectIsRow, MintHoldsActive, Mint, Locks, Rows
<1>3. /\ TableInv' /\ Rows' = Rows \cup {n}
      /\ \A h \in Grants : Leaf(h)' <=> Leaf(h) /\ h # g
  BY <1>2, TableRotate DEF IInv
<1>4. /\ n \notin Rows /\ n \in Grants /\ g # n
      /\ \A h \in Rows : family'[h] = family[h] /\ (h # g => status'[h] = status[h])
      /\ family'[n] = family[g] /\ status'[g] = "rotated"
  BY <1>2 DEF IInv, TypeOK, Insert, Fresh, Rows
<1>5. HistoryInv'
  <2>1. family[g] \notin condemned
    BY <1>2 DEF IInv, HistoryInv, TheftResponseComplete, Rows
  <2> QED
    BY <1>3, <1>4, <2>1
    DEF IInv, HistoryInv, TheftResponseComplete, Mint, Rows
<1>6. \A q \in Handlers \ {p} : g \notin Locks(q)
  BY <1>2 DEF IInv, HandlerInv, LocksExclusive
<1>7. /\ pc'[p] = "idle" /\ batch'[p] = {}
      /\ \A q \in Handlers \ {p} :
           /\ pc'[q] = pc[q] /\ subject'[q] = subject[q]
           /\ todo'[q] = todo[q] /\ batch'[q] = batch[q]
  BY DEF IInv, TypeOK, Mint, Answer, Goto
<1>8. HandlerInv'
  <2>1. SubjectIsRow' /\ CascadeRows' /\ BatchInUse'
    BY <1>3, <1>7 DEF IInv, HandlerInv, SubjectIsRow, CascadeRows, BatchInUse
  <2>2. MintHoldsActive'
    <3> SUFFICES ASSUME NEW q \in Handlers, pc'[q] = "mint"
                 PROVE  status'[subject'[q]] = "active"
      BY DEF MintHoldsActive
    <3>1. q # p /\ pc[q] = "mint" /\ subject'[q] = subject[q]
      BY <1>7
    <3>2. subject[q] \in Rows /\ status[subject[q]] = "active" /\ subject[q] \in Locks(q)
      BY <3>1 DEF IInv, HandlerInv, SubjectIsRow, MintHoldsActive, Locks, Rows
    <3> QED
      BY <1>4, <1>6, <3>1, <3>2
  <2>3. LocksExclusive'
    <3>1. Locks(p)' = {} /\ \A q \in Handlers \ {p} : Locks(q)' = Locks(q)
      BY <1>7 DEF Locks
    <3> QED
      BY <3>1 DEF IInv, HandlerInv, LocksExclusive
  <2>4. WalkCovers'
    <3> SUFFICES ASSUME NEW q \in Handlers, pc'[q] \in {"update", "children"}
                 PROVE  /\ todo'[q] \cup batch'[q] \subseteq
                             {h \in Rows' : family'[h] = family'[subject'[q]]}
                        /\ pc'[q] = "children" => subject'[q] \in batch'[q]
                        /\ pc'[q] = "update" /\ todo'[q] = {} =>
                             \E l \in batch'[q] : Leaf(l)'
      BY DEF WalkCovers
    <3>1. /\ q # p /\ pc'[q] = pc[q] /\ subject'[q] = subject[q]
          /\ todo'[q] = todo[q] /\ batch'[q] = batch[q]
      BY <1>7
    <3>2. /\ todo[q] \cup batch[q] \subseteq {h \in Rows : family[h] = family[subject[q]]}
          /\ subject[q] \in Rows
      BY <3>1 DEF IInv, HandlerInv, WalkCovers, SubjectIsRow
    <3>3. g \notin batch[q]
      BY <1>2, <1>6, <3>1 DEF Locks, Rows
    <3>4. pc[q] = "update" /\ todo[q] = {} => \E l \in batch[q] : Leaf(l)'
      BY <1>3, <3>1, <3>2, <3>3 DEF IInv, HandlerInv, WalkCovers, Rows
    <3>5. pc[q] = "children" => subject[q] \in batch[q]
      BY <3>1 DEF IInv, HandlerInv, WalkCovers
    <3> QED
      BY <1>3, <1>4, <3>1, <3>2, <3>4, <3>5
  <2> QED
    BY <2>1, <2>2, <2>3, <2>4 DEF HandlerInv
<1> QED
  BY <1>1, <1>3, <1>5, <1>8 DEF IInv

----------------------------------------------------------------------------
LEMMA StepInv == IInv /\ [Next]_vars => IInv'
<1> SUFFICES ASSUME IInv, [Next]_vars PROVE IInv'
  OBVIOUS
<1>1. CASE UNCHANGED vars
  <2>1. UNCHANGED <<table, local, condemned>>
    BY <1>1 DEF vars
  <2>2. TypeOK' /\ TableInv' /\ HistoryInv'
    BY <2>1, <1>1, StepType, TableStutter, HistoryStutter DEF IInv
  <2>3. HandlerInv'
    BY <2>1, HandlerStutter DEF IInv, table, Rows, Leaf
  <2> QED
    BY <2>2, <2>3 DEF IInv
<1>2. CASE Next
  BY <1>2, LapseInv, CreateInv, PresentInv, RevokeInv, ChainUpdateInv,
     CascadeStartInv, CascadeLockInv, ExpireInv, AttestInv, RotateIfActiveInv, MintInv,
     ChainChildrenInv, ChainCommitInv, CascadeFinishInv, AbandonInv
  DEF Next, Step
<1> QED
  BY <1>1, <1>2

LEMMA Invariance == Spec => []IInv
<1>1. Init /\ [][Next]_vars => []IInv
  BY InitInv, StepInv, PTL
<1> QED
  BY <1>1, PTL DEF Spec

(* However many refreshes of however many grants are in flight, a session  *)
(* has at most one usable refresh token.                                   *)
THEOREM SessionHasOneLiveGrant == Spec => []OneLiveGrant
<1>1. IInv => OneLiveGrant
  BY DEF IInv, TableInv, ActiveIsLeaf, OneLeaf, OneLiveGrant, Rows
<1> QED
  BY <1>1, Invariance, PTL

(* Concurrent refreshes of one grant never leave two successors.           *)
THEOREM RotationNeverForks == Spec => []NoFork
<1>1. IInv => NoFork
  BY DEF IInv, TableInv
<1> QED
  BY <1>1, Invariance, PTL

(* A failure between tokenRefresh's rotation and its insert never leaves a *)
(* spent grant without successor: both are one transaction.                *)
THEOREM RotationIsAtomic == Spec => []SpentHasSuccessor
<1>1. IInv => SpentHasSuccessor
  BY DEF IInv, TableInv
<1> QED
  BY <1>1, Invariance, PTL

(* When RevokeChain commits, nothing of the replayed session is usable,    *)
(* then or later, though a rotation was racing the walk.                   *)
THEOREM TheftResponse == Spec => []TheftResponseComplete
<1>1. IInv => TheftResponseComplete
  BY DEF IInv, HistoryInv
<1> QED
  BY <1>1, Invariance, PTL

----------------------------------------------------------------------------
(* Refinement.  The live grant of a session is its one active row.         *)
LEMMA ChooseOnly ==
  ASSUME NEW S, NEW x \in S, \A y \in S : y = x
  PROVE  (CHOOSE y \in S : TRUE) = x
OBVIOUS

(* The same fact in the current and in the next state.                     *)
LEMMA LiveIs ==
  /\ OneLiveGrant =>
       \A f, g \in Grants :
         status[g] = "active" /\ family[g] = f => LiveGrant(f) = g
  /\ OneLiveGrant' =>
       \A f, g \in Grants :
         status'[g] = "active" /\ family'[g] = f => LiveGrant(f)' = g
<1>1. ASSUME OneLiveGrant, NEW f \in Grants, NEW g \in Grants,
             status[g] = "active", family[g] = f
      PROVE  LiveGrant(f) = g
  <2>1. g \in ActiveIn(f) /\ \A h \in ActiveIn(f) : h = g
    BY <1>1 DEF OneLiveGrant, ActiveIn
  <2>2. (CHOOSE h \in ActiveIn(f) : TRUE) = g
    BY <2>1, ChooseOnly
  <2> QED
    BY <2>1, <2>2 DEF LiveGrant
<1>2. ASSUME OneLiveGrant', NEW f \in Grants, NEW g \in Grants,
             status'[g] = "active", family'[g] = f
      PROVE  LiveGrant(f)' = g
  <2>1. g \in ActiveIn(f)' /\ \A h \in ActiveIn(f)' : h = g
    BY <1>2 DEF OneLiveGrant, ActiveIn
  <2>2. (CHOOSE h \in ActiveIn(f)' : TRUE) = g
    BY <2>1, ChooseOnly
  <2> QED
    BY <2>1, <2>2 DEF LiveGrant
<1> QED
  BY <1>1, <1>2

LEMMA LiveIsNone ==
  /\ \A f : (\A g \in Grants : ~(status[g] = "active" /\ family[g] = f)) =>
              LiveGrant(f) = None
  /\ \A f : (\A g \in Grants : ~(status'[g] = "active" /\ family'[g] = f)) =>
              LiveGrant(f)' = None
BY DEF LiveGrant, ActiveIn

(* A session none of whose rows changes in status or enters the table      *)
(* keeps its live grant.                                                   *)
LEMMA LiveStays ==
  ASSUME OneLiveGrant, OneLiveGrant', NEW f \in Grants,
         \A g \in Grants : (status'[g] = "active" /\ family'[g] = f)
                             <=> (status[g] = "active" /\ family[g] = f)
  PROVE  LiveGrant(f)' = LiveGrant(f)
<1>1. CASE \E g \in Grants : status[g] = "active" /\ family[g] = f
  BY <1>1, LiveIs
<1>2. CASE ~\E g \in Grants : status[g] = "active" /\ family[g] = f
  BY <1>2, LiveIsNone
<1> QED
  BY <1>1, <1>2

LEMMA OpenStep ==
  ASSUME IInv, IInv', NEW p \in Handlers, NEW g \in Grants, NEW c \in Credentials,
         Create(p, g, c)
  PROVE  Chain!Open(g)
<1>1. OneLiveGrant /\ OneLiveGrant'
  BY DEF IInv, TableInv, ActiveIsLeaf, OneLeaf, OneLiveGrant, Rows
<1>2. g \notin Rows /\ Rows' = Rows \cup {g}
  BY TableOpen DEF IInv, Create, Fresh
<1>3. /\ status'[g] = "active" /\ family'[g] = g
      /\ \A h \in Grants : h # g => status'[h] = status[h] /\ family'[h] = family[h]
  BY DEF IInv, TypeOK, Create, Insert
<1>4. \A f \in Grants : f # g => LiveGrant(f)' = LiveGrant(f)
  <2> SUFFICES ASSUME NEW f \in Grants, f # g PROVE LiveGrant(f)' = LiveGrant(f)
    OBVIOUS
  <2>1. status[g] # "active"
    BY <1>2 DEF Rows
  <2> QED
    BY <1>1, <1>3, <2>1, LiveStays
<1>5. LiveGrant(g)' = g
  BY <1>1, <1>3, LiveIs
<1> QED
  BY <1>2, <1>4, <1>5 DEF Chain!Open

LEMMA ExchangeStep ==
  ASSUME IInv, IInv', NEW p \in Handlers, Mint(p)
  PROVE  \E f, n \in Grants : Chain!Exchange(f, n)
<1>0. subject[p] \in Rows /\ status[subject[p]] = "active"
  BY DEF IInv, HandlerInv, SubjectIsRow, MintHoldsActive, Mint
<1> PICK g \in Rows : g = subject[p] /\ status[g] = "active"
  BY <1>0
<1> PICK f \in Grants : f = family[g]
  BY DEF IInv, TypeOK, TableInv, WellFormed, Rows
<1> PICK n \in Fresh :
      /\ status' = [status EXCEPT ![g] = "rotated", ![n] = "active"]
      /\ Insert(n, g, sch[g], family[g])
  BY DEF Mint
<1>1. OneLiveGrant /\ OneLiveGrant'
  BY DEF IInv, TableInv, ActiveIsLeaf, OneLeaf, OneLiveGrant, Rows
<1>2. g \in Grants
  BY DEF Rows
<1>3. n \in Grants /\ n \notin Rows /\ n # g /\ Rows' = Rows \cup {n}
  BY <1>2, TableRotate DEF IInv, Fresh
<1>4. /\ status'[n] = "active" /\ family'[n] = f
      /\ status'[g] = "rotated" /\ status[n] = "absent"
      /\ \A h \in Grants : h # n => family'[h] = family[h]
      /\ \A h \in Grants : h # n /\ h # g => status'[h] = status[h]
  BY <1>2, <1>3 DEF IInv, TypeOK, Insert, Rows
<1>5. LiveGrant(f) = g /\ LiveGrant(f)' = n
  BY <1>1, <1>2, <1>3, <1>4, LiveIs
<1>6. \A e \in Grants : e # f => LiveGrant(e)' = LiveGrant(e)
  <2> SUFFICES ASSUME NEW e \in Grants, e # f PROVE LiveGrant(e)' = LiveGrant(e)
    OBVIOUS
  <2>1. \A h \in Grants : (status'[h] = "active" /\ family'[h] = e)
                            <=> (status[h] = "active" /\ family[h] = e)
    BY <1>2, <1>3, <1>4
  <2> QED
    BY <1>1, <2>1, LiveStays
<1>7. Chain!Exchange(f, n)
  BY <1>2, <1>3, <1>5, <1>6, NoneAssumption DEF Chain!Exchange
<1> QED
  BY <1>2, <1>3, <1>7

LEMMA EndStep ==
  ASSUME IInv, IInv', NEW R \in SUBSET Rows, NEW s \in {"revoked", "expired"},
         SetStatus(R, s), UNCHANGED <<rotatedFrom, sch, family>>
  PROVE  \E F \in SUBSET Grants : Chain!End(F)
<1> DEFINE F == {f \in Grants : \E g \in R : status[g] = "active" /\ family[g] = f}
<1>1. OneLiveGrant /\ OneLiveGrant'
  BY DEF IInv, TableInv, ActiveIsLeaf, OneLeaf, OneLiveGrant, Rows
<1>2. Rows' = Rows
  BY TableWrite DEF IInv
<1>3. \A g \in Grants : status'[g] = "active" <=> status[g] = "active" /\ g \notin R
  BY DEF IInv, TypeOK, SetStatus
<1>4. \A f \in F : LiveGrant(f)' = None
  <2> SUFFICES ASSUME NEW f \in F PROVE LiveGrant(f)' = None
    OBVIOUS
  <2>1. PICK g \in R : status[g] = "active" /\ family[g] = f
    OBVIOUS
  <2>2. \A h \in Grants : status'[h] = "active" /\ family'[h] = f => h = g
    BY <1>1, <1>3, <2>1 DEF OneLiveGrant, Rows
  <2>3. \A h \in Grants : ~(status'[h] = "active" /\ family'[h] = f)
    BY <1>3, <2>2
  <2> QED
    BY <2>3, LiveIsNone
<1>5. \A f \in Grants \ F : LiveGrant(f)' = LiveGrant(f)
  BY <1>1, <1>3, LiveStays
<1>6. Chain!End(F)
  BY <1>2, <1>4, <1>5 DEF Chain!End
<1> QED
  BY <1>6

LEMMA RefinementInit == Init => Chain!Init
<1> SUFFICES ASSUME Init PROVE Chain!Init
  OBVIOUS
<1>1. Rows = {}
  BY DEF Init, Rows
<1>2. \A f \in Grants : LiveGrant(f) = None
  BY LiveIsNone DEF Init
<1> QED
  BY <1>1, <1>2 DEF Chain!Init

LEMMA RefinementStutter == UNCHANGED table => UNCHANGED Chain!vars
BY DEF Chain!vars, table, LiveGrant, ActiveIn, Rows

LEMMA RefinementStep ==
  IInv /\ IInv' /\ [Next]_vars => [Chain!Next]_(Chain!vars)
<1> SUFFICES ASSUME IInv, IInv', [Next]_vars
             PROVE  Chain!Next \/ UNCHANGED Chain!vars
  OBVIOUS
<1>1. ASSUME NEW p \in Handlers, NEW g \in Grants, NEW c \in Credentials,
             Create(p, g, c)
      PROVE  Chain!Next
  BY <1>1, OpenStep DEF Chain!Next
<1>2. ASSUME NEW p \in Handlers, Mint(p) PROVE Chain!Next
  BY <1>2, ExchangeStep DEF Chain!Next
<1>3. ASSUME NEW p \in Handlers, Expire(p) PROVE Chain!Next
  <2>1. {subject[p]} \in SUBSET Rows
    BY <1>3 DEF IInv, HandlerInv, SubjectIsRow, Expire
  <2> QED
    BY <1>3, <2>1, EndStep DEF Expire, Chain!Next
<1>4. ASSUME NEW p \in Handlers, NEW g \in Grants, Revoke(p, g) PROVE Chain!Next
  <2>1. {g} \in SUBSET Rows
    BY <1>4 DEF Revoke
  <2> QED
    BY <1>4, <2>1, EndStep DEF Revoke, Chain!Next
<1>5. ASSUME NEW p \in Handlers, ChainCommit(p) PROVE Chain!Next
  <2>1. batch[p] \in SUBSET Rows
    BY <1>5 DEF IInv, HandlerInv, WalkCovers, ChainCommit
  <2> QED
    BY <1>5, <2>1, EndStep DEF ChainCommit, Chain!Next
<1>6. ASSUME NEW p \in Handlers, CascadeFinish(p) PROVE Chain!Next
  <2>1. batch[p] \in SUBSET Rows
    BY <1>6 DEF IInv, HandlerInv, CascadeRows, CascadeFinish
  <2> QED
    BY <1>6, <2>1, EndStep DEF CascadeFinish, Chain!Next
<1>7. ASSUME UNCHANGED table PROVE UNCHANGED Chain!vars
  BY <1>7, RefinementStutter
<1>8. CASE UNCHANGED vars
  BY <1>7, <1>8 DEF vars
<1>9. CASE Next
  <2>1. ASSUME NEW g \in Grants, Lapse(g) PROVE UNCHANGED table
    BY <2>1 DEF Lapse
  <2>2. ASSUME NEW p \in Handlers,
               \/ \E g \in Grants : Present(p, g) \/ ChainUpdate(p, g) \/ CascadeLock(p, g)
               \/ \E c \in Credentials : CascadeStart(p, c)
               \/ Attest(p) \/ RotateIfActive(p) \/ ChainChildren(p) \/ Abandon(p)
        PROVE  UNCHANGED table
    BY <2>2 DEF Present, ReadGrant, ChainUpdate, CascadeLock, CascadeStart, Attest,
                RotateIfActive, ChainChildren, Abandon
  <2> QED
    BY <1>1, <1>2, <1>3, <1>4, <1>5, <1>6, <1>7, <1>9, <2>1, <2>2 DEF Next, Step
<1> QED
  BY <1>8, <1>9

(* Rotation as its clients see it: every step of the table is a login, an  *)
(* exchange of a session's live grant for a fresh one, the end of sessions,*)
(* or invisible.                                                           *)
THEOREM ImplementsRotationChain == Spec => ChainSpec
<1>1. Spec => Init /\ [][Next]_vars
  BY PTL DEF Spec
<1> QED
  BY <1>1, RefinementInit, RefinementStep, Invariance, PTL DEF ChainSpec, Chain!Spec

----------------------------------------------------------------------------
(* The member revocation on SQLite.  Its one statement has the pool's only *)
(* connection, so nothing it read changes before it is done.               *)
OneCredential ==
  \A g, h \in Rows : family[g] = family[h] => sch[g] = sch[h]

OneConnection == \A p, q \in Handlers : InTx(p) /\ InTx(q) => p = q

CascadeCovers ==
  \A p \in Handlers : pc[p] = "cascade" =>
    \A r \in todo[p] \cup batch[p], g \in Grants :
      status[g] = "active" /\ family[g] = family[r] => g \in todo[p] \cup batch[p]

SqliteInv == OneCredential /\ OneConnection /\ CascadeCovers

(* A session keeps the credential it was opened for.                       *)
LEMMA OneCredentialStep == IInv /\ OneCredential /\ [Next]_vars => OneCredential'
<1> SUFFICES ASSUME IInv, OneCredential, [Next]_vars PROVE OneCredential'
  OBVIOUS
<1> USE DEF IInv, TypeOK, OneCredential
<1>1. ASSUME NEW p \in Handlers, NEW g \in Grants, NEW c \in Credentials, Create(p, g, c)
      PROVE  OneCredential'
  <2>1. \A h \in Rows : family[h] # g
    BY <1>1 DEF Create, Fresh, TableInv, WellFormed, Rows
  <2>2. Rows' = Rows \cup {g} /\ family'[g] = g
        /\ \A h \in Rows : family'[h] = family[h] /\ sch'[h] = sch[h]
    BY <1>1 DEF Create, Insert, Fresh, Rows
  <2> QED
    BY <2>1, <2>2
<1>2. ASSUME NEW p \in Handlers, Mint(p) PROVE OneCredential'
  <2>1. subject[p] \in Rows
    BY <1>2 DEF HandlerInv, SubjectIsRow, Mint
  <2>2. PICK n \in Fresh :
          /\ status' = [status EXCEPT ![subject[p]] = "rotated", ![n] = "active"]
          /\ Insert(n, subject[p], sch[subject[p]], family[subject[p]])
    BY <1>2 DEF Mint
  <2>3. /\ Rows' = Rows \cup {n}
        /\ family'[n] = family[subject[p]] /\ sch'[n] = sch[subject[p]]
        /\ \A h \in Rows : family'[h] = family[h] /\ sch'[h] = sch[h]
    BY <2>1, <2>2 DEF Insert, Fresh, Rows
  <2> QED
    BY <2>1, <2>3
<1>3. ASSUME Rows' \subseteq Rows, UNCHANGED <<sch, family>> PROVE OneCredential'
  BY <1>3
<1>4. ASSUME NEW R \in SUBSET Rows, NEW s, SetStatus(R, s) PROVE Rows' \subseteq Rows
  BY <1>4 DEF SetStatus, Rows
<1>5. ASSUME UNCHANGED table PROVE OneCredential'
  BY <1>5 DEF table, Rows
<1>6. ASSUME NEW p \in Handlers,
             \/ Expire(p) \/ ChainCommit(p) \/ CascadeFinish(p)
             \/ \E g \in Grants : Revoke(p, g)
      PROVE  OneCredential'
  <2>1. {subject[p]} \in SUBSET Rows \/ ~Expire(p)
    BY DEF HandlerInv, SubjectIsRow, Expire
  <2>2. batch[p] \in SUBSET Rows \/ ~(ChainCommit(p) \/ CascadeFinish(p))
    BY DEF HandlerInv, WalkCovers, CascadeRows, ChainCommit, CascadeFinish
  <2>3. \A g \in Grants : Revoke(p, g) => {g} \in SUBSET Rows
    BY DEF Revoke
  <2>4. UNCHANGED <<sch, family>>
    BY <1>6 DEF Expire, Revoke, ChainCommit, CascadeFinish
  <2>5. \E R \in SUBSET Rows, s \in {"revoked", "expired"} : SetStatus(R, s)
    BY <1>6, <2>1, <2>2, <2>3 DEF Expire, Revoke, ChainCommit, CascadeFinish
  <2> QED
    BY <1>3, <1>4, <2>4, <2>5
<1>7. ASSUME NEW p \in Handlers,
             \/ \E g \in Grants : Present(p, g) \/ ChainUpdate(p, g) \/ CascadeLock(p, g)
             \/ \E c \in Credentials : CascadeStart(p, c)
             \/ Attest(p) \/ RotateIfActive(p) \/ ChainChildren(p) \/ Abandon(p)
      PROVE  UNCHANGED table
  BY <1>7 DEF Present, ReadGrant, ChainUpdate, CascadeLock, CascadeStart, Attest,
              RotateIfActive, ChainChildren, Abandon
<1>8. CASE UNCHANGED vars
  BY <1>5, <1>8 DEF vars
<1>9. ASSUME NEW g \in Grants, Lapse(g) PROVE OneCredential'
  BY <1>5, <1>9 DEF Lapse
<1>10. ASSUME NEW p \in Handlers, Step(p) PROVE OneCredential'
  <2> HIDE DEF OneCredential, IInv, TypeOK
  <2> QED
    BY <1>1, <1>2, <1>5, <1>6, <1>7, <1>10 DEF Step
<1> QED
  BY <1>8, <1>9, <1>10 DEF Next

(* A step concerns one handler, which needs the connection to open a       *)
(* transaction or to write.                                                *)
LEMMA StepConnected ==
  ASSUME TypeOK, NEW p \in Handlers, Step(p)
  PROVE  /\ \A q \in Handlers \ {p} :
              /\ pc'[q] = pc[q] /\ todo'[q] = todo[q] /\ batch'[q] = batch[q]
              /\ InTx(q)' <=> InTx(q)
         /\ InTx(p)' \/ ~UNCHANGED table => Connected(p) \/ InTx(p)
<1> USE DEF TypeOK
<1>1. \A q \in Handlers \ {p} :
        pc'[q] = pc[q] /\ todo'[q] = todo[q] /\ batch'[q] = batch[q]
  BY DEF Step, Create, Present, ReadGrant, Expire, Attest, RotateIfActive, Mint,
         ChainUpdate, ChainChildren, ChainCommit, Revoke, CascadeStart,
         CascadeLock, CascadeFinish, Abandon, Answer, Goto, local
<1>2. \A q \in Handlers \ {p} : InTx(q)' <=> InTx(q)
  BY <1>1 DEF InTx
<1>3. ASSUME Connected(p) \/ InTx(p)
      PROVE  InTx(p)' \/ ~UNCHANGED table => Connected(p) \/ InTx(p)
  BY <1>3
<1>4. ASSUME NEW g \in Grants, Present(p, g) PROVE Connected(p)
  BY <1>4 DEF Present, ReadGrant
<1>5. ASSUME \/ \E g \in Grants, c \in Credentials : Create(p, g, c)
             \/ \E g \in Grants : Revoke(p, g) \/ ChainUpdate(p, g)
             \/ \E c \in Credentials : CascadeStart(p, c)
             \/ Expire(p) \/ RotateIfActive(p)
      PROVE  Connected(p)
  BY <1>5 DEF Create, Revoke, ChainUpdate, CascadeStart, Expire, RotateIfActive
<1>6. ASSUME \/ Mint(p) \/ ChainChildren(p) \/ CascadeFinish(p)
             \/ \E g \in Grants : CascadeLock(p, g)
      PROVE  InTx(p)
  BY <1>6 DEF Mint, ChainChildren, CascadeFinish, CascadeLock, InTx
<1>7. ASSUME ChainCommit(p) PROVE batch[p] # {} => InTx(p)
  BY <1>7 DEF ChainCommit, InTx
<1>8. ASSUME Attest(p) \/ Abandon(p) \/ ChainCommit(p)
      PROVE  /\ ~InTx(p)'
             /\ ~ChainCommit(p) => UNCHANGED table
  BY <1>8 DEF Attest, Abandon, ChainCommit, Answer, Goto, InTx
<1>9. ASSUME ChainCommit(p), batch[p] = {} PROVE UNCHANGED table
  <2>1. status' = status
    BY <1>9 DEF ChainCommit, SetStatus
  <2> QED
    BY <1>9, <2>1 DEF ChainCommit, table
<1>10. CASE ChainCommit(p)
  BY <1>1, <1>2, <1>7, <1>8, <1>9, <1>10
<1> QED
  BY <1>1, <1>2, <1>4, <1>5, <1>6, <1>8, <1>10 DEF Step

LEMMA SqliteStep ==
  ASSUME Dialect = "sqlite", IInv, SqliteInv, [Next]_vars
  PROVE  SqliteInv'
<1> USE DEF IInv
<1>1. OneCredential'
  BY OneCredentialStep DEF SqliteInv
<1>2. CASE UNCHANGED vars
  BY <1>1, <1>2 DEF SqliteInv, vars, table, local, OneConnection, CascadeCovers, InTx
<1>3. ASSUME NEW g \in Grants, Lapse(g) PROVE SqliteInv'
  BY <1>1, <1>3 DEF SqliteInv, Lapse, table, local, OneConnection, CascadeCovers, InTx
<1>4. ASSUME NEW p \in Handlers, Step(p) PROVE SqliteInv'
  <2>1. OneConnection'
    BY <1>4, StepConnected DEF SqliteInv, OneConnection, Connected
  <2>2. ASSUME NEW q \in Handlers \ {p}, pc'[q] = "cascade"
        PROVE  /\ UNCHANGED table
               /\ pc[q] = "cascade" /\ todo'[q] = todo[q] /\ batch'[q] = batch[q]
    <3>1. pc[q] = "cascade" /\ todo'[q] = todo[q] /\ batch'[q] = batch[q]
      BY <1>4, <2>2, StepConnected
    <3>2. InTx(q)
      BY <3>1 DEF InTx
    <3> QED
      BY <1>4, <3>1, <3>2, StepConnected DEF SqliteInv, OneConnection, Connected
  <2>3. ASSUME pc'[p] = "cascade",
               NEW r \in todo'[p] \cup batch'[p], NEW g \in Grants,
               status'[g] = "active", family'[g] = family'[r]
        PROVE  g \in todo'[p] \cup batch'[p]
    <3>1. \/ \E c \in Credentials : CascadeStart(p, c)
          \/ \E h \in Grants : CascadeLock(p, h)
      BY <1>4, <2>3 DEF TypeOK, Step, Create, Present, ReadGrant, Expire, Attest,
         RotateIfActive, Mint, ChainUpdate, ChainChildren, ChainCommit, Revoke,
         CascadeFinish, Abandon, Answer, Goto, local
    <3>2. status' = status /\ family' = family
      BY <3>1 DEF CascadeStart, CascadeLock, table
    <3>3. ASSUME NEW c \in Credentials, CascadeStart(p, c)
          PROVE  g \in todo'[p] \cup batch'[p]
      <4>1. batch'[p] = {} /\ todo'[p] = {h \in Rows : sch[h] = c /\ status[h] # "revoked"}
        BY <3>3 DEF CascadeStart, HandlerInv, BatchInUse, TypeOK
      <4>2. r \in Rows /\ sch[r] = c /\ g \in Rows
        BY <4>1, <2>3, <3>2 DEF Rows
      <4>3. sch[g] = c
        BY <4>2, <2>3, <3>2 DEF SqliteInv, OneCredential
      <4> QED
        BY <4>1, <4>2, <4>3, <2>3, <3>2
    <3>4. ASSUME NEW h \in Grants, CascadeLock(p, h)
          PROVE  g \in todo'[p] \cup batch'[p]
      <4>1. /\ h \in todo[p] /\ pc[p] = "cascade" /\ todo'[p] = todo[p] \ {h}
            /\ batch'[p] = IF status[h] = "revoked" THEN batch[p] ELSE batch[p] \cup {h}
        BY <3>4 DEF CascadeLock, TypeOK
      <4>2. g \in todo[p] \cup batch[p]
        BY <4>1, <2>3, <3>2 DEF SqliteInv, CascadeCovers
      <4> QED
        BY <4>1, <4>2, <2>3, <3>2
    <3> QED
      BY <3>1, <3>3, <3>4
  <2>4. CascadeCovers'
    <3> SUFFICES ASSUME NEW q \in Handlers, pc'[q] = "cascade",
                        NEW r \in todo'[q] \cup batch'[q], NEW g \in Grants,
                        status'[g] = "active", family'[g] = family'[r]
                 PROVE  g \in todo'[q] \cup batch'[q]
      BY DEF CascadeCovers
    <3>1. CASE q = p
      BY <2>3, <3>1
    <3>2. CASE q # p
      BY <2>2, <3>2 DEF SqliteInv, CascadeCovers, table
    <3> QED
      BY <3>1, <3>2
  <2> QED
    BY <1>1, <2>1, <2>4 DEF SqliteInv
<1> QED
  BY <1>2, <1>3, <1>4 DEF Next

(* On SQLite the member revocation leaves no session of the member usable. *)
THEOREM MemberRevocationOnSqlite ==
  ASSUME Dialect = "sqlite" PROVE Spec => CascadeComplete
<1>1. Init => SqliteInv
  BY DEF Init, SqliteInv, OneCredential, OneConnection, CascadeCovers, InTx, Rows
<1>2. IInv /\ SqliteInv /\ [Next]_vars => SqliteInv'
  BY SqliteStep
<1>3. IInv /\ SqliteInv /\ [Next]_vars =>
        [\A p \in Handlers : CascadeFinish(p) =>
           \A r \in batch[p], g \in Grants :
             family[g] = family[r] => status'[g] # "active"]_vars
  <2> SUFFICES ASSUME IInv, SqliteInv, NEW p \in Handlers, CascadeFinish(p),
                      NEW r \in batch[p], NEW g \in Grants, family[g] = family[r],
                      status'[g] = "active"
               PROVE  FALSE
    OBVIOUS
  <2>1. status[g] = "active" /\ g \notin batch[p]
    BY DEF CascadeFinish, SetStatus, IInv, TypeOK
  <2> QED
    BY <2>1 DEF SqliteInv, CascadeCovers, CascadeFinish
<1>4. Init /\ [][Next]_vars /\ []IInv => CascadeComplete
  BY <1>1, <1>2, <1>3, PTL DEF CascadeComplete
<1> QED
  BY <1>4, Invariance, PTL DEF Spec
----------------------------------------------------------------------------
(* Deadlock.  A line of rotations has an end: among any rows, some row has *)
(* no successor.  This says that rotation never closes a circle, without   *)
(* counting how long a line is.                                            *)
LineEnds ==
  \A S \in SUBSET Rows : S # {} => \E g \in S : Children(g) \cap S = {}

(* RevokeChain follows the line.  It queues one row at a time, and every   *)
(* row it holds while it waits has its successor among the rows it holds   *)
(* or waits for.                                                           *)
InOrder(p) ==
  /\ pc[p] = "update" =>
       /\ \A g, h \in todo[p] : g = h
       /\ todo[p] # {} =>
            \A g \in batch[p] : Children(g) \cap (batch[p] \cup todo[p]) # {}
  /\ pc[p] = "children" =>
       /\ todo[p] = {}
       /\ \A g \in batch[p] \ {subject[p]} : Children(g) \cap batch[p] # {}

OrderInv == LineEnds /\ \A p \in Handlers : InOrder(p)

(* A new row has no successor yet, so it ends the line it joins.           *)
LEMMA LineGrows ==
  ASSUME TypeOK, WellFormed, LineEnds, NEW n \in Fresh,
         NEW parent \in Rows \cup {None}, Rows' = Rows \cup {n},
         rotatedFrom' = [rotatedFrom EXCEPT ![n] = parent]
  PROVE  LineEnds' /\ \A g \in Grants : Children(g) \subseteq Children(g)'
<1>1. n \in Grants /\ n \notin Rows /\ n # None /\ rotatedFrom[n] = None
  BY NoneAssumption DEF Fresh, Rows, WellFormed
<1>2. \A c \in Grants :
        rotatedFrom'[c] = IF c = n THEN parent ELSE rotatedFrom[c]
  BY DEF TypeOK
<1>3. Children(n)' = {}
  <2> SUFFICES ASSUME NEW c \in Grants, rotatedFrom'[c] = n PROVE FALSE
    BY DEF Children
  <2>1. c # n => rotatedFrom[c] \in Rows
    BY <1>1, <1>2 DEF WellFormed
  <2> QED
    BY <1>1, <1>2, <2>1
<1>4. LineEnds'
  <2> SUFFICES ASSUME NEW S \in SUBSET Rows', S # {}
               PROVE  \E g \in S : Children(g)' \cap S = {}
    BY DEF LineEnds
  <2>1. CASE n \in S
    BY <1>3, <2>1
  <2>2. CASE n \notin S
    <3>1. S \in SUBSET Rows
      BY <2>2
    <3>2. PICK g \in S : Children(g) \cap S = {}
      BY <3>1 DEF LineEnds
    <3>3. Children(g)' \cap S = {}
      BY <1>2, <2>2, <3>2 DEF Children
    <3> QED
      BY <3>3
  <2> QED
    BY <2>1, <2>2
<1>5. \A g \in Grants : Children(g) \subseteq Children(g)'
  BY <1>1, <1>2, NoneAssumption DEF Children
<1> QED
  BY <1>4, <1>5

(* A handler that does not move stays in order while lines grow, and one   *)
(* that answers has no rows to hold in order.                              *)
LEMMA OrderElsewhere ==
  ASSUME TypeOK, NEW q \in Handlers, InOrder(q),
         pc'[q] = pc[q], subject'[q] = subject[q],
         todo'[q] = todo[q], batch'[q] = batch[q],
         \A g \in Grants : Children(g) \subseteq Children(g)'
  PROVE  InOrder(q)'
<1>1. batch[q] \subseteq Grants
  BY DEF TypeOK
<1>2. ASSUME pc[q] = "update"
      PROVE  /\ \A g, h \in todo[q] : g = h
             /\ todo[q] # {} =>
                  \A g \in batch[q] : Children(g)' \cap (batch[q] \cup todo[q]) # {}
  BY <1>1, <1>2 DEF InOrder
<1>3. ASSUME pc[q] = "children"
      PROVE  /\ todo[q] = {}
             /\ \A g \in batch[q] \ {subject[q]} : Children(g)' \cap batch[q] # {}
  BY <1>1, <1>3 DEF InOrder
<1> QED
  BY <1>2, <1>3 DEF InOrder

(* The step of one handler that leaves the lines alone.                    *)
LEMMA OrderStep ==
  ASSUME TypeOK, OrderInv, NEW p \in Handlers, Rows' = Rows,
         UNCHANGED rotatedFrom, InOrder(p)',
         \A q \in Handlers \ {p} :
           /\ pc'[q] = pc[q] /\ subject'[q] = subject[q]
           /\ todo'[q] = todo[q] /\ batch'[q] = batch[q]
  PROVE  OrderInv'
<1>1. \A g : Children(g)' = Children(g)
  BY DEF Children
<1>2. LineEnds'
  BY <1>1 DEF OrderInv, LineEnds
<1>3. \A q \in Handlers \ {p} : InOrder(q)'
  BY <1>1, OrderElsewhere DEF OrderInv
<1> QED
  BY <1>2, <1>3 DEF OrderInv

LEMMA OrderAnswer ==
  ASSUME TypeOK, OrderInv, NEW p \in Handlers, Answer(p), Rows' = Rows,
         UNCHANGED rotatedFrom
  PROVE  OrderInv'
<1>1. pc'[p] = "idle"
  BY DEF Answer, Goto, TypeOK
<1>2. InOrder(p)'
  BY <1>1 DEF InOrder
<1>3. \A q \in Handlers \ {p} :
        /\ pc'[q] = pc[q] /\ subject'[q] = subject[q]
        /\ todo'[q] = todo[q] /\ batch'[q] = batch[q]
  BY DEF Answer, Goto, TypeOK
<1> QED
  BY <1>2, <1>3, OrderStep

(* A step of the table, or of the clock, while every handler stands still. *)
LEMMA OrderStill ==
  ASSUME TypeOK, OrderInv, UNCHANGED local, LineEnds',
         \A g \in Grants : Children(g) \subseteq Children(g)'
  PROVE  OrderInv'
BY OrderElsewhere DEF OrderInv, local

LEMMA OrderStutter ==
  ASSUME TypeOK, OrderInv, UNCHANGED <<local, rotatedFrom>>, Rows' = Rows
  PROVE  OrderInv'
BY OrderStill DEF OrderInv, LineEnds, Children

LEMMA PresentOrder ==
  ASSUME IInv, OrderInv, NEW p \in Handlers, NEW g \in Grants, Present(p, g)
  PROVE  OrderInv'
<1> USE DEF IInv, TypeOK
<1>1. /\ \/ pc'[p] \in {"attest", "expire"}
         \/ pc'[p] = "update" /\ todo'[p] = {g}
      /\ batch' = batch /\ batch[p] = {}
      /\ UNCHANGED table
      /\ \A q \in Handlers \ {p} :
           pc'[q] = pc[q] /\ subject'[q] = subject[q] /\ todo'[q] = todo[q]
  BY DEF Present, ReadGrant, Goto, HandlerInv, BatchInUse
<1>2. InOrder(p)'
  BY <1>1 DEF InOrder
<1>3. Rows' = Rows /\ UNCHANGED rotatedFrom
  BY <1>1 DEF Rows, table
<1> QED
  BY <1>1, <1>2, <1>3, OrderStep

(* The row a walk locks was the only one it had queued; it waits for none. *)
LEMMA ChainUpdateOrder ==
  ASSUME IInv, OrderInv, NEW p \in Handlers, NEW g \in Grants, ChainUpdate(p, g)
  PROVE  OrderInv'
<1> USE DEF IInv, TypeOK
<1>1. /\ pc[p] = "update" /\ g \in todo[p]
      /\ pc'[p] = "children" /\ subject'[p] = g
      /\ todo'[p] = todo[p] \ {g} /\ batch'[p] = batch[p] \cup {g}
      /\ UNCHANGED table
      /\ \A q \in Handlers \ {p} :
           /\ pc'[q] = pc[q] /\ subject'[q] = subject[q]
           /\ todo'[q] = todo[q] /\ batch'[q] = batch[q]
  BY DEF ChainUpdate, Goto
<1>2. /\ todo[p] = {g}
      /\ \A h \in batch[p] : Children(h) \cap (batch[p] \cup {g}) # {}
  BY <1>1 DEF OrderInv, InOrder
<1>3. Rows' = Rows /\ UNCHANGED rotatedFrom /\ \A h : Children(h)' = Children(h)
  BY <1>1 DEF Rows, table, Children
<1>4. InOrder(p)'
  <2>1. todo'[p] = {}
    BY <1>1, <1>2
  <2>2. \A h \in batch'[p] \ {g} : Children(h) \cap batch'[p] # {}
    BY <1>1, <1>2
  <2> QED
    BY <1>1, <1>3, <2>1, <2>2 DEF InOrder
<1> QED
  BY <1>1, <1>3, <1>4, OrderStep

(* A row has at most one successor, so the walk queues at most one.        *)
LEMMA ChainChildrenOrder ==
  ASSUME IInv, OrderInv, NEW p \in Handlers, ChainChildren(p)
  PROVE  OrderInv'
<1> USE DEF IInv, TypeOK
<1>1. /\ pc[p] = "children" /\ pc'[p] = "update"
      /\ todo'[p] = todo[p] \cup Children(subject[p])
      /\ UNCHANGED <<table, subject, batch>>
      /\ \A q \in Handlers \ {p} : pc'[q] = pc[q] /\ todo'[q] = todo[q]
  BY DEF ChainChildren, Goto
<1>2. /\ todo[p] = {} /\ subject[p] \in Grants
      /\ \A h \in batch[p] \ {subject[p]} : Children(h) \cap batch[p] # {}
  BY <1>1 DEF OrderInv, InOrder
<1>3. \A g, h \in Children(subject[p]) : g = h
  BY <1>2 DEF Children, TableInv, NoFork
<1>4. Rows' = Rows /\ UNCHANGED rotatedFrom /\ \A h : Children(h)' = Children(h)
  BY <1>1 DEF Rows, table, Children
<1>5. InOrder(p)'
  <2>1. todo'[p] = Children(subject[p])
    BY <1>1, <1>2
  <2>2. ASSUME todo'[p] # {}, NEW h \in batch[p]
        PROVE  Children(h) \cap (batch[p] \cup todo'[p]) # {}
    BY <1>2, <2>1, <2>2
  <2> QED
    BY <1>1, <1>3, <1>4, <2>1, <2>2 DEF InOrder
<1> QED
  BY <1>1, <1>4, <1>5, OrderStep

LEMMA MintOrder ==
  ASSUME IInv, OrderInv, NEW p \in Handlers, Mint(p) PROVE OrderInv'
<1> USE DEF IInv
<1> DEFINE g == subject[p]
<1> PICK n \in Fresh :
      /\ status' = [status EXCEPT ![g] = "rotated", ![n] = "active"]
      /\ Insert(n, g, sch[g], family[g])
  BY DEF Mint
<1>1. g \in Rows /\ g # n /\ n \in Grants
  BY DEF HandlerInv, SubjectIsRow, Mint, Fresh
<1>2. Rows' = Rows \cup {n}
  BY <1>1 DEF Rows, TypeOK
<1>3. LineEnds' /\ \A h \in Grants : Children(h) \subseteq Children(h)'
  BY <1>1, <1>2, LineGrows DEF OrderInv, TableInv, Insert
<1>4. /\ pc'[p] = "idle"
      /\ \A q \in Handlers \ {p} :
           /\ pc'[q] = pc[q] /\ subject'[q] = subject[q]
           /\ todo'[q] = todo[q] /\ batch'[q] = batch[q]
  BY DEF Mint, Answer, Goto, TypeOK
<1>5. InOrder(p)'
  BY <1>4 DEF InOrder
<1>6. \A q \in Handlers \ {p} : InOrder(q)'
  BY <1>3, <1>4, OrderElsewhere DEF OrderInv
<1> QED
  BY <1>3, <1>5, <1>6 DEF OrderInv

LEMMA CreateOrder ==
  ASSUME IInv, OrderInv, NEW p \in Handlers, NEW g \in Grants,
         NEW c \in Credentials, Create(p, g, c)
  PROVE  OrderInv'
<1> USE DEF IInv
<1>1. g \in Fresh /\ UNCHANGED local /\ Insert(g, None, c, g)
  BY DEF Create
<1>2. Rows' = Rows \cup {g}
  BY DEF Create, Rows, TypeOK
<1>3. LineEnds' /\ \A h \in Grants : Children(h) \subseteq Children(h)'
  BY <1>1, <1>2, LineGrows DEF OrderInv, TableInv, Insert
<1> QED
  BY <1>1, <1>3, OrderStill

LEMMA CascadeOrder ==
  ASSUME IInv, OrderInv, NEW p \in Handlers,
         \/ \E c \in Credentials : CascadeStart(p, c)
         \/ \E g \in Grants : CascadeLock(p, g)
  PROVE  OrderInv'
<1>1. /\ pc'[p] = "cascade" /\ UNCHANGED <<table, subject>>
      /\ \A q \in Handlers \ {p} :
           /\ pc'[q] = pc[q] /\ todo'[q] = todo[q] /\ batch'[q] = batch[q]
  BY DEF CascadeStart, CascadeLock, Goto, IInv, TypeOK
<1>2. InOrder(p)'
  BY <1>1 DEF InOrder
<1>3. Rows' = Rows /\ UNCHANGED rotatedFrom
  BY <1>1 DEF Rows, table
<1> QED
  BY <1>1, <1>2, <1>3, OrderStep DEF IInv

LEMMA AttestOrder ==
  ASSUME IInv, OrderInv, NEW p \in Handlers,
         Attest(p) \/ (RotateIfActive(p) /\ ~Answer(p))
  PROVE  OrderInv'
<1>1. /\ pc'[p] \in {"rotate", "mint"} /\ UNCHANGED <<table, subject, todo, batch>>
      /\ \A q \in Handlers \ {p} : pc'[q] = pc[q]
  BY DEF Attest, RotateIfActive, Goto, IInv, TypeOK
<1>2. InOrder(p)'
  BY <1>1 DEF InOrder
<1>3. Rows' = Rows /\ UNCHANGED rotatedFrom
  BY <1>1 DEF Rows, table
<1> QED
  BY <1>1, <1>2, <1>3, OrderStep DEF IInv

(* Requests that end, with or without a write to rows that exist.          *)
LEMMA AnswerOrder ==
  ASSUME IInv, OrderInv, NEW p \in Handlers,
         \/ Abandon(p) \/ Expire(p) \/ ChainCommit(p) \/ CascadeFinish(p)
         \/ RotateIfActive(p) /\ Answer(p)
  PROVE  OrderInv'
<1>1. Answer(p) /\ UNCHANGED rotatedFrom
  BY DEF Abandon, Expire, ChainCommit, CascadeFinish, RotateIfActive, table
<1>2. \/ UNCHANGED status
      \/ \E R \in SUBSET Rows, s \in {"revoked", "expired"} : SetStatus(R, s)
  <2>1. CASE Expire(p)
    BY <2>1 DEF Expire, IInv, HandlerInv, SubjectIsRow
  <2>2. CASE ChainCommit(p)
    BY <2>2 DEF ChainCommit, IInv, HandlerInv, WalkCovers
  <2>3. CASE CascadeFinish(p)
    BY <2>3 DEF CascadeFinish, IInv, HandlerInv, CascadeRows
  <2>4. CASE Abandon(p) \/ (RotateIfActive(p) /\ Answer(p))
    BY <2>4 DEF Abandon, RotateIfActive, table
  <2> QED
    BY <2>1, <2>2, <2>3, <2>4
<1>3. Rows' = Rows
  BY <1>2 DEF Rows, SetStatus, IInv, TypeOK
<1> QED
  BY <1>1, <1>3, OrderAnswer DEF IInv

LEMMA StillOrder ==
  ASSUME IInv, OrderInv,
         \/ UNCHANGED vars \/ \E g \in Grants : Lapse(g)
         \/ \E p \in Handlers, g \in Grants : Revoke(p, g)
  PROVE  OrderInv'
<1>1. UNCHANGED <<local, rotatedFrom>>
  BY DEF vars, table, Lapse, Revoke
<1>2. Rows' = Rows
  BY DEF vars, table, Lapse, Revoke, SetStatus, Rows, IInv, TypeOK
<1> QED
  BY <1>1, <1>2, OrderStutter DEF IInv

LEMMA OrderInduction == IInv /\ OrderInv /\ [Next]_vars => OrderInv'
<1> SUFFICES ASSUME IInv, OrderInv, [Next]_vars PROVE OrderInv'
  OBVIOUS
<1>1. CASE UNCHANGED vars \/ \E g \in Grants : Lapse(g)
  BY <1>1, StillOrder
<1>2. ASSUME NEW p \in Handlers, Step(p) PROVE OrderInv'
  BY <1>2, StillOrder, CreateOrder, PresentOrder, ChainUpdateOrder, CascadeOrder,
     AttestOrder, AnswerOrder, MintOrder, ChainChildrenOrder
  DEF Step
<1> QED
  BY <1>1, <1>2 DEF Next

LEMMA OrderInvariance == Spec => []OrderInv
<1>1. Init => OrderInv
  BY DEF Init, OrderInv, LineEnds, InOrder, Rows
<1>2. Init /\ [][Next]_vars /\ []IInv => []OrderInv
  BY <1>1, OrderInduction, PTL
<1> QED
  BY <1>2, Invariance, PTL DEF Spec

(* Among handlers that all wait for one another's rows, only chain         *)
(* revocations hold any; the rows these hold would each have a successor   *)
(* that is held too, and the line would have no end.                       *)
LEMMA NoCircleOfWalks == IInv /\ OrderInv => OnlyCascadesDeadlock
<1> SUFFICES ASSUME IInv, OrderInv,
                    NEW W \in SUBSET {p \in Handlers : pc[p] # "cascade"},
                    W # {}, \A p \in W : WaitsFor(p, W)
             PROVE  FALSE
  BY DEF OnlyCascadesDeadlock
<1> DEFINE V == {q \in W : pc[q] = "update"}
           S == UNION {batch[q] : q \in V}
<1>1. \A q \in W : /\ q \in Handlers
                   /\ Locks(q) # {} => q \in V
                   /\ Locks(q) \subseteq batch[q]
  BY DEF WaitsFor, Locks, IInv, HandlerInv, BatchInUse
<1>2. S \in SUBSET Rows
  BY <1>1 DEF IInv, HandlerInv, WalkCovers
<1>3. S # {}
  <2>1. PICK p \in W : TRUE
    OBVIOUS
  <2>2. \E q \in W : Locks(q) # {}
    BY <2>1 DEF WaitsFor
  <2> QED
    BY <1>1, <2>2
<1>4. PICK g \in S : Children(g) \cap S = {}
  BY <1>2, <1>3 DEF OrderInv, LineEnds
<1>5. PICK q \in V : g \in batch[q]
  OBVIOUS
<1>6. todo[q] # {} /\ \A h \in todo[q] : \E r \in W : h \in Locks(r)
  BY <1>5 DEF WaitsFor
<1>7. todo[q] \subseteq S
  BY <1>1, <1>6
<1>8. Children(g) \cap (batch[q] \cup todo[q]) # {}
  BY <1>1, <1>5, <1>6 DEF OrderInv, InOrder
<1> QED
  BY <1>4, <1>5, <1>7, <1>8

(* Refreshes, expiries and chain revocations never wait for one another in *)
(* a circle: whatever deadlock PostgreSQL has to break, the administrator's*)
(* member revocation is part of it.                                        *)
THEOREM OnlyCascadesCanDeadlock == Spec => []OnlyCascadesDeadlock
<1> QED
  BY NoCircleOfWalks, Invariance, OrderInvariance, PTL

============================================================================
