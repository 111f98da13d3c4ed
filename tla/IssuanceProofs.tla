--------------------------- MODULE IssuanceProofs ---------------------------
(***************************************************************************)
(* Proofs about Issuance, for any number of members, requests and rows.    *)
(***************************************************************************)
EXTENDS Issuance, TLAPS

Serving == {"code", "token", "grant", "rotate", "mint"}

(* What a request for codes or tokens has seen of its member.              *)
ServedInv ==
  \A h \in Handlers :
    /\ pc[h] \notin Revoking \cup {"idle"} =>
         /\ who[h] \notin banned => "unbanned" \in saw[h]
         /\ who[h] \in delegating => "delegating" \in saw[h]
    /\ pc[h] \in PastBlacklist => "unbanned" \in saw[h]
    /\ pc[h] \in Serving => "delegating" \in saw[h]

(* A code is held by one exchange at most, which closed it, until it has   *)
(* paid; an active grant has paid for nothing, and one rotation holds it.  *)
Paying(h) == pc[h] \in {"exchange", "attest-exchange", "token"}

SpentInv ==
  /\ \A h \in Handlers :
       Paying(h) => /\ spends[h] \in Codes /\ code[spends[h]] = "consumed"
                    /\ \A i \in Issues : source[i] # spends[h]
  /\ \A h, k \in Handlers : Paying(h) /\ Paying(k) /\ spends[h] = spends[k] => h = k
  /\ \A h \in Handlers : pc[h] = "mint" => grant[spends[h]] = "active"
  /\ \A h, k \in Handlers :
       pc[h] = "mint" /\ pc[k] = "mint" /\ spends[h] = spends[k] => h = k
  /\ \A h \in Handlers : pc[h] = "grant" => grant[issue[h]] = "absent"
  /\ \A h, k \in Handlers :
       pc[h] = "grant" /\ pc[k] = "grant" /\ issue[h] = issue[k] => h = k
  /\ \A h \in Handlers : \A i \in todo[h] : grant[i] # "absent"
  /\ \A i \in Issues :
       /\ owner[i] = None => source[i] = None
       /\ source[i] \in Codes => code[source[i]] = "consumed"
       /\ source[i] \in Issues => grant[source[i]] \in {"rotated", "ended"}

(* From the sweep of a table on, usable rows of its member that the sweep  *)
(* does not reach are written by requests it has overtaken.                *)
SweepInv ==
  /\ revoked \subseteq banned
  /\ \A h \in Handlers :
       pc[h] \in {"sweep-tokens", "sweep-grants", "sweeping"} => who[h] \in banned
  /\ \A h, k \in Handlers :
       pc[h] \in {"sweep-grants", "sweeping"} /\ who[k] = who[h]
         /\ pc[k] \in PastBlacklist => k \in swept
  /\ \A k \in Handlers :
       pc[k] \in PastBlacklist /\ who[k] \in revoked => k \in swept
  /\ \A h \in Handlers, i \in Issues :
       pc[h] \in {"sweep-grants", "sweeping"} /\ owner[i] = who[h]
         /\ token[i] = "active" => i \in overtaken
  /\ \A h \in Handlers, i \in Issues :
       pc[h] = "sweeping" /\ owner[i] = who[h] /\ grant[i] = "active"
         => i \in todo[h] \cup overtaken

IInv ==
  /\ TypeOK /\ ServedInv /\ SpentInv /\ SweepInv
  /\ NothingSpentTwice /\ OnlyOvertakenSurvive

----------------------------------------------------------------------------
LEMMA InitInv == Init => IInv
  BY NoneAssumption
  DEF Init, IInv, TypeOK, ServedInv, SpentInv, SweepInv, NothingSpentTwice,
      OnlyOvertakenSurvive, Places, PastBlacklist, Revoking, Serving, Paying, Facts

LEMMA StepType == TypeOK /\ [Next]_vars => TypeOK'
<1> SUFFICES ASSUME TypeOK, [Next]_vars PROVE TypeOK'
  OBVIOUS
<1> USE DEF TypeOK, tables, local, history, Places, PastBlacklist, Revoking,
     Facts,
     Goto, Begin, Note, Answer
<1>1. ASSUME NEW m \in Members, Delegate(m) PROVE TypeOK'
  BY <1>1 DEF Delegate
<1>2. ASSUME NEW m \in Members, Undelegate(m) PROVE TypeOK'
  BY <1>2 DEF Undelegate
<1>3. ASSUME NEW i \in Issues, RevokeToken(i) PROVE TypeOK'
  BY <1>3 DEF RevokeToken
<1>4. ASSUME NEW i \in Issues, EndGrant(i) PROVE TypeOK'
  BY <1>4 DEF EndGrant
<1>5. ASSUME NEW h \in Handlers, NEW m \in Members, Authorize(h, m)
      PROVE TypeOK'
  BY <1>5 DEF Authorize
<1>6. ASSUME NEW h \in Handlers, NEW m \in Members, RevokeMember(h, m)
      PROVE TypeOK'
  BY <1>6 DEF RevokeMember
<1>7. ASSUME NEW h \in Handlers, NEW c \in Codes, Exchange(h, c) PROVE TypeOK'
  BY <1>7 DEF Exchange
<1>8. ASSUME NEW h \in Handlers, NEW c \in Codes, IssueCode(h, c) PROVE TypeOK'
  BY <1>8 DEF IssueCode
<1>9. ASSUME NEW h \in Handlers, NEW i \in Issues, Refresh(h, i) PROVE TypeOK'
  BY <1>9 DEF Refresh
<1>10. ASSUME NEW h \in Handlers, NEW i \in Issues, MintToken(h, i)
      PROVE TypeOK'
  BY <1>10, NoneAssumption DEF MintToken, Ledger, Unused
<1>11. ASSUME NEW h \in Handlers, NEW i \in Issues, Mint(h, i) PROVE TypeOK'
  BY <1>11, NoneAssumption DEF Mint, Ledger, Unused
<1>12. ASSUME NEW h \in Handlers, CheckBlacklist(h) PROVE TypeOK'
  BY <1>12 DEF CheckBlacklist
<1>13. ASSUME NEW h \in Handlers, CheckChain(h) PROVE TypeOK'
  BY <1>13 DEF CheckChain
<1>14. ASSUME NEW h \in Handlers, MintGrant(h) PROVE TypeOK'
  BY <1>14 DEF MintGrant
<1>15. ASSUME NEW h \in Handlers, Rotate(h) PROVE TypeOK'
  BY <1>15 DEF Rotate
<1>16. ASSUME NEW h \in Handlers, Ban(h) PROVE TypeOK'
  BY <1>16 DEF Ban
<1>17. ASSUME NEW h \in Handlers, SweepTokens(h) PROVE TypeOK'
  BY <1>17 DEF SweepTokens, Overtakes
<1>18. ASSUME NEW h \in Handlers, SweepGrants(h) PROVE TypeOK'
  BY <1>18 DEF SweepGrants, Overtakes
<1>19. ASSUME NEW h \in Handlers, Swept(h) PROVE TypeOK'
  BY <1>19 DEF Swept
<1>20. ASSUME NEW h \in Handlers, Abandon(h) PROVE TypeOK'
  BY <1>20 DEF Abandon
<1>21. CASE UNCHANGED vars
  BY <1>21 DEF vars
<1> QED
  BY <1>1, <1>2, <1>3, <1>4, <1>5, <1>6, <1>7, <1>8, <1>9, <1>10, <1>11,
     <1>12, <1>13, <1>14, <1>15, <1>16, <1>17, <1>18, <1>19, <1>20, <1>21
  DEF Next, Step

LEMMA ServedStep == TypeOK /\ ServedInv /\ [Next]_vars => ServedInv'
<1> SUFFICES ASSUME TypeOK, ServedInv, [Next]_vars PROVE ServedInv'
  OBVIOUS
<1> USE DEF ServedInv, Serving, Facts, Note, TypeOK, tables, local, history,
     Places, PastBlacklist, Revoking, Goto, Begin, Answer
<1>1. ASSUME NEW m \in Members, Delegate(m) PROVE ServedInv'
  BY <1>1 DEF Delegate
<1>2. ASSUME NEW m \in Members, Undelegate(m) PROVE ServedInv'
  BY <1>2 DEF Undelegate
<1>3. ASSUME NEW i \in Issues, RevokeToken(i) PROVE ServedInv'
  BY <1>3 DEF RevokeToken
<1>4. ASSUME NEW i \in Issues, EndGrant(i) PROVE ServedInv'
  BY <1>4 DEF EndGrant
<1>5. ASSUME NEW h \in Handlers, NEW m \in Members, Authorize(h, m)
      PROVE ServedInv'
  BY <1>5 DEF Authorize
<1>6. ASSUME NEW h \in Handlers, NEW m \in Members, RevokeMember(h, m)
      PROVE ServedInv'
  BY <1>6 DEF RevokeMember
<1>7. ASSUME NEW h \in Handlers, NEW c \in Codes, Exchange(h, c)
      PROVE ServedInv'
  BY <1>7 DEF Exchange
<1>8. ASSUME NEW h \in Handlers, NEW c \in Codes, IssueCode(h, c)
      PROVE ServedInv'
  BY <1>8 DEF IssueCode
<1>9. ASSUME NEW h \in Handlers, NEW i \in Issues, Refresh(h, i)
      PROVE ServedInv'
  BY <1>9 DEF Refresh
<1>10. ASSUME NEW h \in Handlers, NEW i \in Issues, MintToken(h, i)
      PROVE ServedInv'
  BY <1>10 DEF MintToken, Ledger
<1>11. ASSUME NEW h \in Handlers, NEW i \in Issues, Mint(h, i) PROVE ServedInv'
  BY <1>11 DEF Mint, Ledger
<1>12. ASSUME NEW h \in Handlers, CheckBlacklist(h) PROVE ServedInv'
  BY <1>12 DEF CheckBlacklist
<1>13. ASSUME NEW h \in Handlers, CheckChain(h) PROVE ServedInv'
  BY <1>13 DEF CheckChain
<1>14. ASSUME NEW h \in Handlers, MintGrant(h) PROVE ServedInv'
  BY <1>14 DEF MintGrant
<1>15. ASSUME NEW h \in Handlers, Rotate(h) PROVE ServedInv'
  BY <1>15 DEF Rotate
<1>16. ASSUME NEW h \in Handlers, Ban(h) PROVE ServedInv'
  BY <1>16 DEF Ban
<1>17. ASSUME NEW h \in Handlers, SweepTokens(h) PROVE ServedInv'
  BY <1>17 DEF SweepTokens, Overtakes
<1>18. ASSUME NEW h \in Handlers, SweepGrants(h) PROVE ServedInv'
  BY <1>18 DEF SweepGrants, Overtakes
<1>19. ASSUME NEW h \in Handlers, Swept(h) PROVE ServedInv'
  BY <1>19 DEF Swept
<1>20. ASSUME NEW h \in Handlers, Abandon(h) PROVE ServedInv'
  BY <1>20 DEF Abandon
<1>21. CASE UNCHANGED vars
  BY <1>21 DEF vars
<1> QED
  BY <1>1, <1>2, <1>3, <1>4, <1>5, <1>6, <1>7, <1>8, <1>9, <1>10, <1>11,
     <1>12, <1>13, <1>14, <1>15, <1>16, <1>17, <1>18, <1>19, <1>20, <1>21
  DEF Next, Step

LEMMA SpentStep == TypeOK /\ SpentInv /\ [Next]_vars => SpentInv'
<1> SUFFICES ASSUME TypeOK, SpentInv, [Next]_vars PROVE SpentInv'
  OBVIOUS
<1> USE DEF SpentInv, Paying, TypeOK, tables, local, history, Places,
     PastBlacklist, Revoking, Goto, Begin, Answer
<1>1. ASSUME NEW m \in Members, Delegate(m) PROVE SpentInv'
  BY <1>1 DEF Delegate
<1>2. ASSUME NEW m \in Members, Undelegate(m) PROVE SpentInv'
  BY <1>2 DEF Undelegate
<1>3. ASSUME NEW i \in Issues, RevokeToken(i) PROVE SpentInv'
  BY <1>3 DEF RevokeToken
<1>4. ASSUME NEW i \in Issues, EndGrant(i) PROVE SpentInv'
  BY <1>4 DEF EndGrant, Locked
<1>5. ASSUME NEW h \in Handlers, NEW m \in Members, Authorize(h, m)
      PROVE SpentInv'
  BY <1>5 DEF Authorize
<1>6. ASSUME NEW h \in Handlers, NEW m \in Members, RevokeMember(h, m)
      PROVE SpentInv'
  BY <1>6 DEF RevokeMember
<1>7. ASSUME NEW h \in Handlers, NEW c \in Codes, Exchange(h, c) PROVE SpentInv'
  BY <1>7 DEF Exchange
<1>8. ASSUME NEW h \in Handlers, NEW c \in Codes, IssueCode(h, c)
      PROVE SpentInv'
  BY <1>8 DEF IssueCode
<1>9. ASSUME NEW h \in Handlers, NEW i \in Issues, Refresh(h, i) PROVE SpentInv'
  BY <1>9 DEF Refresh
<1>10. ASSUME NEW h \in Handlers, NEW i \in Issues, MintToken(h, i)
      PROVE SpentInv'
  BY <1>10, NoneAssumption, SourcesAssumption DEF MintToken, Ledger, Unused
<1>11. ASSUME NEW h \in Handlers, NEW i \in Issues, Mint(h, i) PROVE SpentInv'
  BY <1>11, NoneAssumption, SourcesAssumption, SMTT(30)
  DEF Mint, Ledger, Unused, Locked
<1>12. ASSUME NEW h \in Handlers, CheckBlacklist(h) PROVE SpentInv'
  BY <1>12 DEF CheckBlacklist
<1>13. ASSUME NEW h \in Handlers, CheckChain(h) PROVE SpentInv'
  BY <1>13 DEF CheckChain
<1>14. ASSUME NEW h \in Handlers, MintGrant(h) PROVE SpentInv'
  BY <1>14 DEF MintGrant
<1>15. ASSUME NEW h \in Handlers, Rotate(h) PROVE SpentInv'
  BY <1>15 DEF Rotate, Locked
<1>16. ASSUME NEW h \in Handlers, Ban(h) PROVE SpentInv'
  BY <1>16 DEF Ban
<1>17. ASSUME NEW h \in Handlers, SweepTokens(h) PROVE SpentInv'
  BY <1>17 DEF SweepTokens
<1>18. ASSUME NEW h \in Handlers, SweepGrants(h) PROVE SpentInv'
  BY <1>18 DEF SweepGrants
<1>19. ASSUME NEW h \in Handlers, Swept(h) PROVE SpentInv'
  BY <1>19 DEF Swept, Locked
<1>20. ASSUME NEW h \in Handlers, Abandon(h) PROVE SpentInv'
  BY <1>20 DEF Abandon
<1>21. CASE UNCHANGED vars
  BY <1>21 DEF vars
<1> QED
  BY <1>1, <1>2, <1>3, <1>4, <1>5, <1>6, <1>7, <1>8, <1>9, <1>10, <1>11,
     <1>12, <1>13, <1>14, <1>15, <1>16, <1>17, <1>18, <1>19, <1>20, <1>21
  DEF Next, Step

LEMMA SweepStep ==
  TypeOK /\ SweepInv /\ OnlyOvertakenSurvive /\ [Next]_vars => SweepInv'
<1> SUFFICES ASSUME TypeOK, SweepInv, OnlyOvertakenSurvive, [Next]_vars PROVE SweepInv'
  OBVIOUS
<1> USE DEF SweepInv, OnlyOvertakenSurvive, TypeOK, tables, local, history,
     Places, PastBlacklist, Revoking, Goto, Begin, Answer
<1>1. ASSUME NEW m \in Members, Delegate(m) PROVE SweepInv'
  BY <1>1 DEF Delegate
<1>2. ASSUME NEW m \in Members, Undelegate(m) PROVE SweepInv'
  BY <1>2 DEF Undelegate
<1>3. ASSUME NEW i \in Issues, RevokeToken(i) PROVE SweepInv'
  BY <1>3 DEF RevokeToken
<1>4. ASSUME NEW i \in Issues, EndGrant(i) PROVE SweepInv'
  BY <1>4 DEF EndGrant, Locked
<1>5. ASSUME NEW h \in Handlers, NEW m \in Members, Authorize(h, m)
      PROVE SweepInv'
  BY <1>5 DEF Authorize
<1>6. ASSUME NEW h \in Handlers, NEW m \in Members, RevokeMember(h, m)
      PROVE SweepInv'
  BY <1>6 DEF RevokeMember
<1>7. ASSUME NEW h \in Handlers, NEW c \in Codes, Exchange(h, c) PROVE SweepInv'
  BY <1>7 DEF Exchange
<1>8. ASSUME NEW h \in Handlers, NEW c \in Codes, IssueCode(h, c)
      PROVE SweepInv'
  BY <1>8 DEF IssueCode
<1>9. ASSUME NEW h \in Handlers, NEW i \in Issues, Refresh(h, i) PROVE SweepInv'
  BY <1>9 DEF Refresh
<1>10. ASSUME NEW h \in Handlers, NEW i \in Issues, MintToken(h, i)
      PROVE SweepInv'
  BY <1>10 DEF MintToken, Ledger, Unused
<1>11. ASSUME NEW h \in Handlers, NEW i \in Issues, Mint(h, i) PROVE SweepInv'
  BY <1>11 DEF Mint, Ledger, Unused, Locked
<1>12. ASSUME NEW h \in Handlers, CheckBlacklist(h) PROVE SweepInv'
  BY <1>12 DEF CheckBlacklist
<1>13. ASSUME NEW h \in Handlers, CheckChain(h) PROVE SweepInv'
  BY <1>13 DEF CheckChain
<1>14. ASSUME NEW h \in Handlers, MintGrant(h) PROVE SweepInv'
  BY <1>14 DEF MintGrant
<1>15. ASSUME NEW h \in Handlers, Rotate(h) PROVE SweepInv'
  BY <1>15 DEF Rotate, Locked
<1>16. ASSUME NEW h \in Handlers, Ban(h) PROVE SweepInv'
  BY <1>16 DEF Ban
<1>17. ASSUME NEW h \in Handlers, SweepTokens(h) PROVE SweepInv'
  BY <1>17 DEF SweepTokens, Overtakes
<1>18. ASSUME NEW h \in Handlers, SweepGrants(h) PROVE SweepInv'
  BY <1>18 DEF SweepGrants, Overtakes
<1>19. ASSUME NEW h \in Handlers, Swept(h) PROVE SweepInv'
  BY <1>19 DEF Swept, Locked
<1>20. ASSUME NEW h \in Handlers, Abandon(h) PROVE SweepInv'
  BY <1>20 DEF Abandon
<1>21. CASE UNCHANGED vars
  BY <1>21 DEF vars
<1> QED
  BY <1>1, <1>2, <1>3, <1>4, <1>5, <1>6, <1>7, <1>8, <1>9, <1>10, <1>11,
     <1>12, <1>13, <1>14, <1>15, <1>16, <1>17, <1>18, <1>19, <1>20, <1>21
  DEF Next, Step

LEMMA SpentTwiceStep ==
  TypeOK /\ SpentInv /\ NothingSpentTwice /\ [Next]_vars => NothingSpentTwice'
<1> SUFFICES ASSUME TypeOK, SpentInv, NothingSpentTwice, [Next]_vars
             PROVE  NothingSpentTwice'
  OBVIOUS
<1> USE DEF NothingSpentTwice
<1>1. ASSUME NEW h \in Handlers, NEW i \in Issues, MintToken(h, i)
      PROVE  NothingSpentTwice'
  BY <1>1 DEF MintToken, Ledger, SpentInv, Paying, TypeOK
<1>2. ASSUME NEW h \in Handlers, NEW i \in Issues, Mint(h, i)
      PROVE  NothingSpentTwice'
  BY <1>2, SMTT(30) DEF Mint, Ledger, SpentInv, TypeOK
<1>3. CASE UNCHANGED source
  BY <1>3
<1> QED
  BY <1>1, <1>2, <1>3
  DEF Next, Step, vars, history, Delegate, Undelegate, RevokeToken, EndGrant, Authorize,
      RevokeMember, Exchange, IssueCode, Refresh, CheckBlacklist, CheckChain,
      MintGrant, Rotate, Ban, SweepTokens, SweepGrants, Swept, Abandon

LEMMA SurvivorsStep ==
  TypeOK /\ SweepInv /\ OnlyOvertakenSurvive /\ [Next]_vars => OnlyOvertakenSurvive'
<1> SUFFICES ASSUME TypeOK, SweepInv, OnlyOvertakenSurvive, [Next]_vars
             PROVE  OnlyOvertakenSurvive'
  OBVIOUS
<1> USE DEF OnlyOvertakenSurvive, SweepInv, TypeOK, PastBlacklist
<1>1. ASSUME NEW i \in Issues, RevokeToken(i) PROVE OnlyOvertakenSurvive'
  BY <1>1 DEF RevokeToken, history
<1>2. ASSUME NEW i \in Issues, EndGrant(i) PROVE OnlyOvertakenSurvive'
  BY <1>2 DEF EndGrant, history
<1>3. ASSUME NEW h \in Handlers, NEW i \in Issues, MintToken(h, i)
      PROVE  OnlyOvertakenSurvive'
  BY <1>3, NoneAssumption DEF MintToken, Ledger, Unused
<1>4. ASSUME NEW h \in Handlers, NEW i \in Issues, Mint(h, i)
      PROVE  OnlyOvertakenSurvive'
  BY <1>4, NoneAssumption DEF Mint, Ledger, Unused
<1>5. ASSUME NEW h \in Handlers, MintGrant(h) PROVE OnlyOvertakenSurvive'
  BY <1>5 DEF MintGrant
<1>6. ASSUME NEW h \in Handlers, SweepTokens(h) PROVE OnlyOvertakenSurvive'
  BY <1>6 DEF SweepTokens
<1>7. ASSUME NEW h \in Handlers, Swept(h) PROVE OnlyOvertakenSurvive'
  BY <1>7 DEF Swept
<1>8. CASE UNCHANGED <<owner, token, grant, overtaken, revoked>>
  BY <1>8
<1> QED
  BY <1>1, <1>2, <1>3, <1>4, <1>5, <1>6, <1>7, <1>8
  DEF Next, Step, vars, tables, history, Delegate, Undelegate, Authorize, RevokeMember,
      Exchange, IssueCode, Refresh, CheckBlacklist, CheckChain, Rotate, Ban,
      SweepGrants, Abandon

LEMMA StepInv == IInv /\ [Next]_vars => IInv'
  BY StepType, ServedStep, SpentStep, SweepStep, SpentTwiceStep, SurvivorsStep DEF IInv

LEMMA Invariance == Spec => []IInv
  BY InitInv, StepInv, PTL DEF Spec

----------------------------------------------------------------------------
(* Every reachable state is well typed, and a request's member, code, grant*)
(* and issue belong together.                                              *)
THEOREM TypeCorrect == Spec => []TypeOK
  BY Invariance, PTL DEF IInv

(* Whoever is served was a member, and not revoked, during the request:    *)
(* both grant types and authorize run evaluate before they write anything. *)
THEOREM ServesOnlyMembers == Spec => []OnlyMembersServed
<1>1. IInv => OnlyMembersServed
  BY DEF IInv, TypeOK, ServedInv, Serving, PastBlacklist, OnlyMembersServed, Facts
<1> QED
  BY <1>1, Invariance, PTL

(* Consume for codes, and RotateIfActive for grants, lets each pay once,   *)
(* for any number of requests and whatever fails after it.                 *)
THEOREM PaysOnce == Spec => []NothingSpentTwice
  BY Invariance, PTL DEF IInv

(* The order of the member revocation's statements, blacklist first, leaves*)
(* usable only what overtaken requests wrote.                              *)
THEOREM SurvivorsWereOvertaken == Spec => []OnlyOvertakenSurvive
  BY Invariance, PTL DEF IInv
=============================================================================
