------------------------- MODULE OneTimeCodesProofs -------------------------
(***************************************************************************)
(* Proofs about OneTimeCodes, for any sets of codes, labels and consumers. *)
(***************************************************************************)
EXTENDS OneTimeCodes, TLAPS

(* An open row has not been returned to anyone; a row goes missing only    *)
(* when its code has lapsed.                                               *)
RowInv ==
  \A c \in Codes :
    /\ uses[c] \in {0, 1}
    /\ row[c] = "open" => uses[c] = 0
    /\ row[c] # "absent" => c \in issued
    /\ c \notin issued => uses[c] = 0
    /\ c \in issued /\ row[c] = "absent" => c \in lapsed
    /\ c \in issued => Proper(c, label[c])

(* What a consumer has established about the code it holds.                *)
Grounded(p) ==
  /\ pc[p] # "idle" => /\ subject[p] \in Codes
                       /\ answer[p] = None
                       /\ Proper(subject[p], wants[p])
                       /\ late[p] => subject[p] \in lapsed
  /\ pc[p] = "swap" => /\ subject[p] \in issued
                       /\ Fits(subject[p], wants[p])
                       /\ ~late[p]

ConsumerInv == \A p \in Consumers : Grounded(p)

IInv == TypeOK /\ RowInv /\ ConsumerInv

----------------------------------------------------------------------------
LEMMA NoneIsNoCode == None \notin Codes
  BY NoneAssumption

LEMMA InitType == Init => TypeOK
  BY DEF Init, TypeOK

LEMMA StepType == TypeOK /\ [Next]_vars => TypeOK'
<1> SUFFICES ASSUME TypeOK, [Next]_vars PROVE TypeOK'
  OBVIOUS
<1> USE NoneIsNoCode DEF TypeOK, table, local, Refusals
<1>1. ASSUME NEW c \in Codes, Lapse(c) PROVE TypeOK'
  BY <1>1 DEF Lapse
<1>2. ASSUME NEW c \in Codes, NEW l \in Labels, Create(c, l) PROVE TypeOK'
  BY <1>2 DEF Create
<1>3. ASSUME NEW N \in SUBSET Nonces, DeleteExpired(N) PROVE TypeOK'
  BY <1>3 DEF DeleteExpired
<1>4. ASSUME NEW p \in Consumers, NEW c \in Codes, NEW w \in Labels, Call(p, c, w)
      PROVE  TypeOK'
  BY <1>4 DEF Call
<1>5. ASSUME NEW p \in Consumers, NEW r \in Refusals \cup {"ok", "error"},
             Return(p, r), UNCHANGED <<label, lapsed, issued>>,
             row' \in [Codes -> {"absent", "open", "consumed"}],
             uses' \in [Codes -> Nat]
      PROVE  TypeOK'
  BY <1>5 DEF Return
<1>6. ASSUME NEW p \in Consumers, Lookup(p) PROVE TypeOK'
  <2>1. ASSUME NEW reason \in Refusals, Return(p, reason) PROVE TypeOK'
    BY <1>5, <1>6, <2>1 DEF Lookup
  <2>2. CASE UNCHANGED <<subject, wants, late, answer>>
            /\ pc' = [pc EXCEPT ![p] = "swap"]
    BY <1>6, <2>2 DEF Lookup
  <2> QED
    BY <1>6, <2>1, <2>2 DEF Lookup
<1>7. ASSUME NEW p \in Consumers, Swap(p) \/ Abandon(p) PROVE TypeOK'
  <2>1. \E r \in {"ok", "error", "consumed"} : Return(p, r)
    BY <1>7 DEF Swap, Abandon
  <2>2. /\ UNCHANGED <<label, lapsed, issued>>
        /\ row' \in [Codes -> {"absent", "open", "consumed"}]
        /\ uses' \in [Codes -> Nat]
    BY <1>7 DEF Swap, Abandon
  <2> QED
    BY <1>5, <2>1, <2>2
<1>8. CASE UNCHANGED vars
  BY <1>8 DEF vars
<1> QED
  BY <1>1, <1>2, <1>3, <1>4, <1>6, <1>7, <1>8 DEF Next

----------------------------------------------------------------------------
(* The rows: only Swap closes one for its consumer, and only an open one.  *)
LEMMA RowStep == TypeOK /\ RowInv /\ ConsumerInv /\ [Next]_vars => RowInv'
<1> SUFFICES ASSUME TypeOK, RowInv, ConsumerInv, [Next]_vars PROVE RowInv'
  OBVIOUS
<1> USE DEF TypeOK, RowInv, table, local
<1>1. ASSUME NEW c \in Codes, Lapse(c) PROVE RowInv'
  BY <1>1 DEF Lapse
<1>2. ASSUME NEW c \in Codes, NEW l \in Labels, Create(c, l) PROVE RowInv'
  BY <1>2 DEF Create
<1>3. ASSUME NEW N \in SUBSET Nonces, DeleteExpired(N) PROVE RowInv'
  BY <1>3 DEF DeleteExpired
<1>4. ASSUME NEW p \in Consumers, Swap(p) PROVE RowInv'
  <2>1. subject[p] \in Codes
    BY <1>4 DEF ConsumerInv, Grounded, Swap
  <2>2. CASE row[subject[p]] = "open"
    BY <1>4, <2>1, <2>2 DEF Swap
  <2>3. CASE row[subject[p]] # "open"
    BY <1>4, <2>3 DEF Swap
  <2> QED
    BY <2>2, <2>3
<1>5. ASSUME UNCHANGED <<table, lapsed, issued, uses>> PROVE RowInv'
  BY <1>5
<1> QED
  BY <1>1, <1>2, <1>3, <1>4, <1>5 DEF Next, vars, Call, Lookup, Abandon

(* A code that exists keeps its label, so what fits it goes on fitting.    *)
LEMMA FitsStays ==
  ASSUME TypeOK, [Next]_vars, NEW c \in issued, NEW w
  PROVE  Fits(c, w)' <=> Fits(c, w)
<1>1. label'[c] = label[c]
  BY DEF TypeOK, Next, vars, table, local, Lapse, Create, DeleteExpired, Call,
         Lookup, Swap, Abandon
<1> QED
  BY <1>1 DEF Fits

(* A consumer goes on to the update only with a code Lookup found fit.     *)
LEMMA LookupAccepts ==
  ASSUME TypeOK, RowInv, ConsumerInv, NEW p \in Consumers, Lookup(p),
         pc'[p] = "swap"
  PROVE  /\ subject[p] \in issued
         /\ Fits(subject[p], wants[p])
         /\ ~late[p]
<1> DEFINE c == subject[p]
<1>1. pc[p] = "begin" /\ c \in Codes
  BY DEF Lookup, ConsumerInv, Grounded
<1>2. \A reason \in Refusals : ~Refused(p, reason)
  BY DEF Lookup, Return, TypeOK
<1>3. row[c] # "absent"
  BY <1>2 DEF Refused, Refusals
<1>4. ~(c \in ActivationCodes /\ ~Fits(c, wants[p]))
  BY <1>2, <1>3 DEF Refused, Refusals
<1>5. row[c] # "consumed"
  BY <1>2, <1>3, <1>4 DEF Refused, Refusals
<1>6. row[c] = "open"
  BY <1>1, <1>3, <1>5 DEF TypeOK
<1>7. ~late[p]
  BY <1>2, <1>4, <1>6 DEF Refused, Refusals
<1>8. ~(c \in Nonces /\ ~Fits(c, wants[p]))
  BY <1>2, <1>4, <1>6, <1>7 DEF Refused, Refusals
<1>9. c \in issued
  BY <1>1, <1>3 DEF RowInv
<1>10. c \in AuthCodes => Fits(c, wants[p])
  <2>1. Proper(c, label[c]) /\ Proper(c, wants[p])
    BY <1>1, <1>9 DEF RowInv, ConsumerInv, Grounded
  <2> QED
    BY <2>1, KindsAssumption DEF Proper, Fits
<1> QED
  BY <1>1, <1>4, <1>7, <1>8, <1>9, <1>10 DEF Codes

LEMMA ConsumerStep ==
  TypeOK /\ RowInv /\ ConsumerInv /\ [Next]_vars => ConsumerInv'
<1> SUFFICES ASSUME TypeOK, RowInv, ConsumerInv, [Next]_vars PROVE ConsumerInv'
  OBVIOUS
<1>1. \A c \in issued : \A w : Fits(c, w)' <=> Fits(c, w)
  BY FitsStays
<1>2. issued \subseteq issued' /\ lapsed \subseteq lapsed'
  BY DEF Next, vars, local, Lapse, Create, DeleteExpired, Call, Lookup, Swap, Abandon
<1>3. ASSUME NEW q \in Consumers,
             UNCHANGED <<pc[q], subject[q], wants[q], late[q], answer[q]>>
      PROVE  Grounded(q)'
  BY <1>1, <1>2, <1>3 DEF ConsumerInv, Grounded
<1>4. ASSUME NEW p \in Consumers,
             \A q \in Consumers \ {p} :
               UNCHANGED <<pc[q], subject[q], wants[q], late[q], answer[q]>>,
             Grounded(p)'
      PROVE  ConsumerInv'
  <2>1. \A q \in Consumers \ {p} : Grounded(q)'
    BY <1>3, <1>4
  <2> QED
    BY <1>4, <2>1 DEF ConsumerInv
<1>5. ASSUME UNCHANGED local PROVE ConsumerInv'
  BY <1>3, <1>5 DEF local, ConsumerInv
<1>6. ASSUME NEW p \in Consumers, NEW c \in Codes, NEW w \in Labels, Call(p, c, w)
      PROVE  ConsumerInv'
  <2>1. Grounded(p)'
    <3>1. /\ pc'[p] = "begin" /\ subject'[p] = c /\ answer'[p] = None
          /\ UNCHANGED lapsed
      BY <1>6 DEF Call, TypeOK
    <3>2. late'[p] <=> c \in lapsed
      BY <1>6 DEF Call, TypeOK
    <3>3. Proper(c, w) /\ wants'[p] = w
      BY <1>6 DEF Call, TypeOK
    <3> QED
      BY <3>1, <3>2, <3>3 DEF Grounded
  <2> QED
    BY <1>4, <1>6, <2>1 DEF Call, TypeOK
<1>7. ASSUME NEW p \in Consumers, NEW r, Return(p, r) PROVE ConsumerInv'
  <2>1. Grounded(p)'
    BY <1>7 DEF Return, TypeOK, Grounded
  <2> QED
    BY <1>4, <1>7, <2>1 DEF Return, TypeOK
<1>8. ASSUME NEW p \in Consumers, Lookup(p) PROVE ConsumerInv'
  <2>1. CASE pc'[p] = "swap"
    <3>1. UNCHANGED <<subject, wants, late, answer>>
      BY <1>8, <2>1 DEF Lookup, Return, TypeOK
    <3>2. Grounded(p)'
      BY <1>1, <1>2, <1>8, <2>1, <3>1, LookupAccepts DEF ConsumerInv, Grounded, Lookup
    <3> QED
      BY <1>4, <1>8, <3>1, <3>2 DEF Lookup, Return, TypeOK
  <2>2. CASE pc'[p] # "swap"
    <3>1. PICK reason \in Refusals : Return(p, reason)
      BY <1>8, <2>2 DEF Lookup, TypeOK
    <3> QED
      BY <1>7, <3>1
  <2> QED
    BY <2>1, <2>2
<1>9. ASSUME NEW p \in Consumers, Swap(p) \/ Abandon(p) PROVE ConsumerInv'
  <2>1. \E r : Return(p, r)
    BY <1>9 DEF Swap, Abandon
  <2> QED
    BY <1>7, <2>1
<1> QED
  BY <1>5, <1>6, <1>8, <1>9 DEF Next, vars, local, Lapse, Create, DeleteExpired

LEMMA Invariance == Init /\ [][Next]_vars => []IInv
<1>1. Init => IInv
  BY InitType, NoneAssumption DEF Init, IInv, RowInv, ConsumerInv, Grounded
<1>2. IInv /\ [Next]_vars => IInv'
  BY StepType, RowStep, ConsumerStep DEF IInv
<1> QED
  BY <1>1, <1>2, PTL

(* Rows, labels and consumers keep to their types.                         *)
THEOREM TypeCorrect == Spec => []TypeOK
<1>1. IInv => TypeOK
  BY DEF IInv
<1> QED
  BY <1>1, Invariance, PTL DEF Spec

(* However many consumers present a code at once, at most one gets it.     *)
THEOREM AtMostOneRedemption == Spec => []RedeemedOnce
<1>1. IInv => RedeemedOnce
  BY DEF IInv, RowInv, RedeemedOnce
<1> QED
  BY <1>1, Invariance, PTL DEF Spec

----------------------------------------------------------------------------
(* Only Swap answers "ok", and it holds a code that Lookup found fit.      *)
LEMMA RedemptionStep ==
  IInv /\ [Next]_vars =>
    [\A p \in Consumers :
       pc[p] # "idle" /\ answer'[p] = "ok" =>
         Fits(subject[p], wants[p]) /\ ~late[p]]_vars
<1> SUFFICES ASSUME IInv, Next, NEW p \in Consumers,
                    pc[p] # "idle", answer'[p] = "ok"
             PROVE  Fits(subject[p], wants[p]) /\ ~late[p]
  BY NoneAssumption DEF vars, local, IInv, ConsumerInv, Grounded
<1>1. answer[p] = None /\ None # "ok"
  BY NoneAssumption DEF IInv, ConsumerInv, Grounded
<1>2. \A reason \in Refusals : reason # "ok"
  BY DEF Refusals
<1>3. Swap(p)
  BY <1>1, <1>2 DEF Next, Lapse, Create, DeleteExpired, Call, Lookup, Swap, Abandon,
         Return, local, IInv, TypeOK
<1> QED
  BY <1>3 DEF Swap, IInv, ConsumerInv, Grounded

(* A redeemed code fits its consumer's request and was not expired when    *)
(* the request read the clock.                                             *)
THEOREM OnlyRightfulRedemptions == Spec => RedeemedRightfully
<1> QED
  BY RedemptionStep, Invariance, PTL DEF Spec, RedeemedRightfully

(* A refusal is true and leaves the row alone, whatever else is under way. *)
LEMMA RefusalStep ==
  IInv /\ [Next]_vars =>
    [\A p \in Consumers :
       pc[p] # "idle" /\ pc'[p] = "idle" =>
         LET c == subject[p]
         IN /\ answer'[p] = "notfound" => c \notin issued \/ c \in lapsed
            /\ answer'[p] = "consumed" => row[c] = "consumed" \/ c \in lapsed
            /\ answer'[p] = "expired" => c \in lapsed
            /\ answer'[p] = "purpose" => ~Fits(c, wants[p])
            /\ answer'[p] \in Refusals => row' = row]_vars
<1> SUFFICES ASSUME IInv, Next, NEW p \in Consumers,
                    pc[p] # "idle", pc'[p] = "idle"
             PROVE  LET c == subject[p]
                    IN /\ answer'[p] = "notfound" => c \notin issued \/ c \in lapsed
                       /\ answer'[p] = "consumed" => row[c] = "consumed" \/ c \in lapsed
                       /\ answer'[p] = "expired" => c \in lapsed
                       /\ answer'[p] = "purpose" => ~Fits(c, wants[p])
                       /\ answer'[p] \in Refusals => row' = row
  BY DEF vars, local
<1> DEFINE c == subject[p]
<1> USE DEF IInv, TypeOK
<1>1. c \in Codes /\ (late[p] => c \in lapsed)
  BY DEF ConsumerInv, Grounded
<1>2. Lookup(p) \/ Swap(p) \/ Abandon(p)
  BY DEF Next, Lapse, Create, DeleteExpired, Call, Lookup, Swap, Abandon,
         Return, local
<1>3. CASE Lookup(p)
  <2>1. row' = row
    BY <1>3 DEF Lookup, table
  <2>2. PICK reason \in Refusals : Refused(p, reason) /\ answer'[p] = reason
    BY <1>3 DEF Lookup, Return
  <2> QED
    BY <1>1, <2>1, <2>2 DEF Refused, Refusals, RowInv
<1>4. CASE Swap(p)
  <2>1. c \in issued
    BY <1>4 DEF Swap, ConsumerInv, Grounded
  <2>2. CASE row[c] = "open"
    BY <1>4, <2>2 DEF Swap, Return, Refusals
  <2>3. CASE row[c] # "open"
    BY <1>1, <1>4, <2>1, <2>3 DEF Swap, Return, RowInv
  <2> QED
    BY <2>2, <2>3
<1>5. CASE Abandon(p)
  BY <1>5 DEF Abandon, Return, Refusals
<1> QED
  BY <1>2, <1>3, <1>4, <1>5

(* A consumer that is refused learns why, and the code is as good as it    *)
(* was.                                                                    *)
THEOREM RefusalsTrue == Spec => RefusalsAreTrue
<1> QED
  BY RefusalStep, Invariance, PTL DEF Spec, RefusalsAreTrue

(* The steps of the tables are the steps of single-use codes.              *)
LEMMA OnceInit == Init => Once!Init
  BY DEF Init, Once!Init

LEMMA OnceStep == IInv /\ IInv' /\ [Next]_vars => [Once!Next]_(Once!vars)
<1> SUFFICES ASSUME IInv, IInv', [Next]_vars
             PROVE  Once!Next \/ UNCHANGED Once!vars
  OBVIOUS
<1> DEFINE opened == {c \in Codes : row[c] = "open"}
<1> USE DEF table
<1>1. ASSUME NEW c \in Codes, NEW l \in Labels, Create(c, l) PROVE Once!Next
  <2>1. Once!Issue(c)
    BY <1>1 DEF Create, Once!Issue, IInv, TypeOK
  <2> QED
    BY <2>1 DEF Once!Next
<1>2. ASSUME NEW N \in SUBSET Nonces, DeleteExpired(N) PROVE Once!Next
  <2>1. Once!Lose(N)
    BY <1>2 DEF DeleteExpired, Once!Lose, IInv, TypeOK
  <2>2. N \in SUBSET Codes
    BY DEF Codes
  <2> QED
    BY <2>1, <2>2 DEF Once!Next
<1>3. ASSUME NEW p \in Consumers, Swap(p), row[subject[p]] = "open"
      PROVE  Once!Next
  <2>1. PICK c \in Codes : c = subject[p]
    BY <1>3 DEF Swap, IInv, ConsumerInv, Grounded
  <2>2. CASE UNCHANGED uses
    <3>1. Once!Lose({c})
      BY <1>3, <2>1, <2>2 DEF Swap, Once!Lose, IInv, TypeOK
    <3>2. {c} \in SUBSET Codes
      OBVIOUS
    <3> QED
      BY <3>1, <3>2 DEF Once!Next
  <2>3. CASE uses' # uses
    <3>1. Once!Redeem(c)
      BY <1>3, <2>1, <2>3 DEF Swap, Once!Redeem, IInv, TypeOK
    <3> QED
      BY <2>1, <3>1 DEF Once!Next
  <2> QED
    BY <2>2, <2>3
<1>4. ASSUME UNCHANGED <<table, issued, uses>> PROVE UNCHANGED Once!vars
  BY <1>4 DEF Once!vars
<1>5. ASSUME NEW p \in Consumers, Swap(p), row[subject[p]] # "open"
      PROVE  UNCHANGED Once!vars
  BY <1>4, <1>5 DEF Swap
<1> QED
  BY <1>1, <1>2, <1>3, <1>4, <1>5
  DEF Once!Next, Next, vars, Lapse, Call, Lookup, Abandon

(* Consume, failed commits and the sweep together implement codes that are *)
(* redeemed at most once and never reopen.                                 *)
THEOREM ImplementsSingleUse == Spec => OnceSpec
<1> QED
  BY OnceInit, OnceStep, Invariance, PTL DEF Spec, OnceSpec, Once!Spec
=============================================================================
