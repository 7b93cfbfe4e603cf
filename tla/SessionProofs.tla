---------------------------- MODULE SessionProofs ----------------------------
(***************************************************************************)
(* Proofs about Session for every set of users, every number of flows and   *)
(* every bound.                                                             *)
(***************************************************************************)
EXTENDS Session, TLAPS

\* A token the backend issues is a token, and never the empty one.
LEMMA NewTokenType ==
  ASSUME NEW u, CanIssue(u), issued \in 0..MaxTokens
  PROVE  /\ NewToken(u) \in Token
         /\ NewToken(u) # NoToken
         /\ issued + 1 \in 0..MaxTokens
<1>1. u \in Users /\ issued < MaxTokens
  BY DEF CanIssue
<1>2. issued + 1 \in 1..MaxTokens
  BY <1>1, MaxTokensAssumption
<1>3. NewToken(u) \in Token
  BY <1>1, <1>2 DEF NewToken, Token
<1>4. NewToken(u).owner # NoToken.owner
  BY <1>1, NoneAssumption DEF NewToken, NoToken
<1>5. issued + 1 \in 0..MaxTokens
  BY <1>2, MaxTokensAssumption
<1> QED
  BY <1>3, <1>4, <1>5

\* The header of a request is a stored token or empty.
LEMMA BearerType ==
  ASSUME store \in StoreType
  PROVE  BearerHeader \in Token \cup {NoToken}
BY DEF StoreType, BearerHeader

\* An idle slot is a flow.
LEMMA IdleFlowType == IdleFlow \in FlowType
BY MaxNestAssumption DEF IdleFlow, FlowType, Pcs, Kinds, SignOuts

\* The history variables keep their types.
LEMMA HistoryType ==
  ASSUME NEW f \in Flows, NEW t
  PROVE  Outrun(f, t) \in SUBSET Flows /\ Late(f) \in BOOLEAN
BY DEF Outrun, Late

\* Replacing one flow by another keeps the type of flow.
LEMMA FlowUpdate ==
  ASSUME flow \in [Flows -> FlowType], NEW f \in Flows, NEW r \in FlowType,
         flow' = [flow EXCEPT ![f] = r]
  PROVE  flow' \in [Flows -> FlowType]
OBVIOUS

\* reGenerateToken keeps the types.
LEMMA ReGenerateType ==
  ASSUME TypeOK, NEW f \in Flows, NEW d \in 0..MaxNest, ReGenerateToken(f, d)
  PROVE  /\ store' \in StoreType
         /\ cached' \in CachedType
         /\ flow' \in [Flows -> FlowType]
<1>1. CASE CanReauthenticate
  <2>1. flow[f] \in FlowType /\ store.userEmail \in Users \cup {None} /\ "reauth" \in Pcs
    BY DEF TypeOK, StoreType, Pcs, ReauthPcs
  <2>2. [flow[f] EXCEPT !.pc = "reauth", !.nest = d, !.bearer = NoToken,
                        !.account = store.userEmail] \in FlowType
    BY <2>1 DEF FlowType
  <2> QED
    BY <1>1, <2>2, FlowUpdate DEF ReGenerateToken, TypeOK
<1>2. CASE ~CanReauthenticate
  <2>1. /\ store' \in StoreType
        /\ cached' \in CachedType
    BY <1>2 DEF ReGenerateToken, TypeOK, StoreType, CachedType, ClearedCaches, ClearedEmail
  <2>2. [IdleFlow EXCEPT !.pc = "clearLoggedIn", !.kind = flow[f].kind,
                         !.sends = flow[f].sends] \in FlowType
    BY IdleFlowType DEF TypeOK, FlowType, Pcs, ClearPcs
  <2> QED
    BY <1>2, <2>1, <2>2, FlowUpdate DEF ReGenerateToken, TypeOK
<1> QED
  BY <1>1, <1>2

TypeInv == TypeOK /\ RetryOfFirstSend

\* Every step keeps the types, given that only first sends are retried.
LEMMA TypeStep ==
  ASSUME TypeInv, [Next]_vars
  PROVE  TypeOK'
<1> USE DEF TypeInv, TypeOK
<1>1. ASSUME NEW f \in Flows, NEW k \in Requests, SendRequest(f, k)
      PROVE  TypeOK'
  <2>1. k \in Kinds /\ store.userId \in Users \cup {None}
    BY RequestsAssumption DEF Kinds, StoreType
  <2>2. [IdleFlow EXCEPT !.pc = "sent", !.kind = k, !.sends = 1,
                         !.bearer = BearerHeader, !.user = store.userId] \in FlowType
    <3> DEFINE n == 1
    <3>1. n \in 0..2
      OBVIOUS
    <3> HIDE DEF n
    <3>2. [IdleFlow EXCEPT !.pc = "sent", !.kind = k, !.sends = n,
                           !.bearer = BearerHeader, !.user = store.userId] \in FlowType
      BY <2>1, <3>1, BearerType, IdleFlowType DEF FlowType, Pcs
    <3> QED
      BY <3>2 DEF n
  <2> QED
    BY <1>1, <2>2, FlowUpdate DEF SendRequest
<1>2. ASSUME NEW f \in Flows, NEW k \in SignIns, NEW u \in Users, SendLogin(f, k, u)
      PROVE  TypeOK'
  <2>1. k \in Kinds
    BY DEF Kinds
  <2>2. [IdleFlow EXCEPT !.pc = "sent", !.kind = k, !.sends = 1,
                         !.user = u] \in FlowType
    <3> DEFINE n == 1
    <3>1. n \in 0..2
      OBVIOUS
    <3> HIDE DEF n
    <3>2. [IdleFlow EXCEPT !.pc = "sent", !.kind = k, !.sends = n,
                           !.user = u] \in FlowType
      BY <2>1, <3>1, IdleFlowType DEF FlowType, Pcs
    <3> QED
      BY <3>2 DEF n
  <2> QED
    BY <1>2, <2>2, FlowUpdate DEF SendLogin
<1>3. ASSUME NEW f \in Flows, Resend(f)
      PROVE  TypeOK'
  <2>1. flow[f] \in FlowType /\ flow[f].sends + 1 \in 0..2
    BY <1>3 DEF Resend, RetryOfFirstSend
  <2>2. [flow[f] EXCEPT !.pc = "sent", !.sends = flow[f].sends + 1, !.bearer = BearerHeader] \in FlowType
    BY <2>1, BearerType DEF FlowType, Pcs
  <2> QED
    BY <1>3, <2>2, FlowUpdate DEF Resend
<1>4. ASSUME NEW f \in Flows, ClearLoggedIn(f)
      PROVE  TypeOK'
  <2>1. store' \in StoreType
    BY <1>4 DEF ClearLoggedIn, StoreType
  <2>2. [flow[f] EXCEPT !.pc = "clearUserId"] \in FlowType
    BY DEF FlowType, Pcs, ClearPcs
  <2> QED
    BY <1>4, <2>1, <2>2, FlowUpdate DEF ClearLoggedIn
<1>5. ASSUME NEW f \in Flows, ClearUserId(f)
      PROVE  TypeOK'
  <2>1. store' \in StoreType
    BY <1>5 DEF ClearUserId, StoreType
  <2> QED
    BY <1>5, <2>1 DEF ClearUserId, FlowType, Pcs, ClearPcs
<1>6. ASSUME NEW f \in Flows, ClearToken(f)
      PROVE  TypeOK'
  <2>1. store' \in StoreType
    BY <1>6 DEF ClearToken, StoreType
  <2> QED
    BY <1>6, <2>1, HistoryType DEF ClearToken, FlowType, Pcs, ClearPcs
<1>7. ASSUME NEW f \in Flows, ClearPassword(f)
      PROVE  TypeOK'
  <2>1. store' \in StoreType
    BY <1>7 DEF ClearPassword, StoreType
  <2> QED
    BY <1>7, <2>1, IdleFlowType, FlowUpdate DEF ClearPassword
<1>8. ASSUME NEW f \in Flows, LogoutTap(f)
      PROVE  TypeOK'
  <2>1. [IdleFlow EXCEPT !.pc = "logoutCheck", !.kind = "logout"] \in FlowType
    BY IdleFlowType DEF FlowType, Pcs, Kinds, SignOuts
  <2> QED
    BY <1>8, <2>1, FlowUpdate DEF LogoutTap
<1>9. ASSUME NEW f \in Flows, LogoutOffline(f)
      PROVE  TypeOK'
  BY <1>9, IdleFlowType, FlowUpdate DEF LogoutOffline
<1>10. ASSUME NEW f \in Flows, NEW g \in Flows, Logout(f, g)
       PROVE  TypeOK'
  <2>1. /\ store' \in StoreType
        /\ cached' \in CachedType
    BY <1>10 DEF Logout, StoreType, CachedType, ClearedCaches, ClearedEmail
  <2> DEFINE r == [IdleFlow EXCEPT !.pc = "sent", !.kind = "logoutApi", !.sends = 1,
                                   !.bearer = BearerHeader]
             h == [flow EXCEPT ![g] = r]
  <2>2. r \in FlowType
    <3> DEFINE n == 1
    <3>1. n \in 0..2
      OBVIOUS
    <3> HIDE DEF n
    <3>2. [IdleFlow EXCEPT !.pc = "sent", !.kind = "logoutApi", !.sends = n,
                           !.bearer = BearerHeader] \in FlowType
      BY <3>1, BearerType, IdleFlowType DEF FlowType, Pcs, Kinds
    <3> QED
      BY <3>2 DEF n
  <2>3. h \in [Flows -> FlowType]
    BY <2>2
  <2> HIDE DEF h
  <2>4. [h EXCEPT ![f].pc = "clearLoggedIn"] \in [Flows -> FlowType]
    <3>1. h[f] \in FlowType /\ "clearLoggedIn" \in Pcs
      BY <2>3 DEF Pcs, ClearPcs
    <3>2. [h[f] EXCEPT !.pc = "clearLoggedIn"] \in FlowType
      BY <3>1 DEF FlowType
    <3> QED
      BY <2>3, <3>2
  <2>5. flow' = [h EXCEPT ![f].pc = "clearLoggedIn"]
    BY <1>10 DEF Logout, h
  <2> QED
    BY <1>10, <2>1, <2>4, <2>5 DEF Logout
<1>11. ASSUME NEW f \in Flows, SplashUnauthorized(f)
       PROVE  TypeOK'
  <2>1. /\ store' \in StoreType
        /\ cached' \in CachedType
    BY <1>11 DEF SplashUnauthorized, StoreType, CachedType, ClearedCaches, ClearedEmail
  <2>2. [IdleFlow EXCEPT !.pc = "clearLoggedIn", !.kind = "splash"] \in FlowType
    BY IdleFlowType DEF FlowType, Pcs, ClearPcs, Kinds, SignOuts
  <2> QED
    BY <1>11, <2>1, <2>2, FlowUpdate DEF SplashUnauthorized
<1>12. ASSUME NEW f \in Flows, Unauthorized(f)
       PROVE  TypeOK'
  <2>1. CASE MayRetry(f)
    BY <1>12, <2>1, ReGenerateType, MaxNestAssumption DEF Unauthorized
  <2>2. CASE ~MayRetry(f)
    BY <1>12, <2>2, IdleFlowType, FlowUpdate DEF Unauthorized
  <2> QED
    BY <2>1, <2>2
<1>13. ASSUME NEW f \in Flows, ReauthAccepted(f)
       PROVE  TypeOK'
  <2>1. /\ valid' \in SUBSET Token
        /\ issued' \in 0..MaxTokens
        /\ store' \in StoreType
    BY <1>13, NewTokenType DEF ReauthAccepted, Issue, StoreType
  <2>2. flow[f] \in FlowType /\ flow[f].nest - 1 \in 0..MaxNest
    BY <1>13, MaxNestAssumption DEF ReauthAccepted, RetryOfFirstSend, FlowType
  <2>3. /\ [flow[f] EXCEPT !.pc = "refreshed", !.nest = 0, !.account = None] \in FlowType
        /\ [flow[f] EXCEPT !.pc = "reauthAgain", !.nest = flow[f].nest - 1] \in FlowType
    <3> DEFINE n == flow[f].nest - 1
    <3>1. n \in 0..MaxNest
      BY <2>2
    <3> HIDE DEF n
    <3>2. [flow[f] EXCEPT !.pc = "reauthAgain", !.nest = n] \in FlowType
      BY <2>2, <3>1 DEF FlowType, Pcs, ReauthPcs
    <3> DEFINE z == 0
    <3>3. z \in 0..MaxNest
      BY MaxNestAssumption
    <3> HIDE DEF z
    <3>4. [flow[f] EXCEPT !.pc = "refreshed", !.nest = z, !.account = None] \in FlowType
      BY <2>2, <3>3 DEF FlowType, Pcs
    <3> QED
      BY <3>2, <3>4 DEF n, z
  <2>4. CASE flow[f].nest = 1
    BY <1>13, <2>1, <2>3, <2>4, FlowUpdate, HistoryType DEF ReauthAccepted
  <2>5. CASE flow[f].nest # 1
    BY <1>13, <2>1, <2>3, <2>5, FlowUpdate, HistoryType DEF ReauthAccepted
  <2> QED
    BY <2>4, <2>5
<1>14. ASSUME NEW f \in Flows, ReauthUnauthorized(f)
       PROVE  TypeOK'
  <2>1. CASE flow[f].pc = "reauth" /\ store.loggedIn
    <3>1. flow[f].nest + 1 \in 0..MaxNest /\ ReGenerateToken(f, flow[f].nest + 1)
      BY <1>14, <2>1, MaxNestAssumption DEF ReauthUnauthorized, FlowType
    <3> QED
      BY <1>14, <3>1, ReGenerateType DEF ReauthUnauthorized
  <2>2. CASE ~(flow[f].pc = "reauth" /\ store.loggedIn)
    BY <1>14, <2>2, IdleFlowType, FlowUpdate DEF ReauthUnauthorized
  <2> QED
    BY <2>1, <2>2
<1>15. ASSUME NEW f \in Flows, Throws(f)
       PROVE  TypeOK'
  BY <1>15, IdleFlowType, FlowUpdate DEF Throws
<1>16. ASSUME NEW f \in Flows, BookingAnswer(f)
       PROVE  TypeOK'
  <2>1. flow[f].bearer.owner \in Users
    BY <1>16 DEF BookingAnswer, Accepted, Token
  <2>2. cached' \in CachedType
    BY <1>16, <2>1 DEF BookingAnswer, CachedType
  <2> QED
    BY <1>16, <2>2, IdleFlowType, FlowUpdate DEF BookingAnswer
<1>17. ASSUME NEW f \in Flows, LogoutAnswer(f)
       PROVE  TypeOK'
  BY <1>17, IdleFlowType, FlowUpdate DEF LogoutAnswer
<1>18. ASSUME NEW f \in Flows, UserDetailAnswer(f)
       PROVE  TypeOK'
  <2>1. PICK t \in {NoToken, flow[f].bearer} :
          flow' = [flow EXCEPT ![f] = [@ EXCEPT !.pc = "saveToken", !.bearer = t]]
    BY <1>18 DEF UserDetailAnswer
  <2>2. flow[f] \in FlowType /\ t \in Token \cup {NoToken}
    BY DEF FlowType
  <2>3. [flow[f] EXCEPT !.pc = "saveToken", !.bearer = t] \in FlowType
    BY <2>2 DEF FlowType, Pcs, SavePcs
  <2> QED
    BY <1>18, <2>1, <2>3, FlowUpdate DEF UserDetailAnswer
<1>19. ASSUME NEW f \in Flows, LoginAnswer(f)
       PROVE  TypeOK'
  <2>1. /\ valid' \in SUBSET Token
        /\ issued' \in 0..MaxTokens
        /\ store' \in StoreType
    BY <1>19, NewTokenType DEF LoginAnswer, Issue, StoreType
  <2>2. [flow[f] EXCEPT !.pc = "saveLoggedIn", !.bearer = NoToken] \in FlowType
    BY DEF FlowType, Pcs, SavePcs
  <2> QED
    BY <1>19, <2>1, <2>2, FlowUpdate, HistoryType DEF LoginAnswer
<1>20. ASSUME NEW f \in Flows, SaveToken(f)
       PROVE  TypeOK'
  <2>1. store' \in StoreType
    BY <1>20 DEF SaveToken, StoreType, FlowType
  <2>2. [flow[f] EXCEPT !.pc = "saveLoggedIn", !.bearer = NoToken] \in FlowType
    BY DEF FlowType, Pcs, SavePcs
  <2>3. outrun' \in SUBSET Flows
    BY <1>20, HistoryType DEF SaveToken
  <2> QED
    BY <1>20, <2>1, <2>2, <2>3, FlowUpdate DEF SaveToken
<1>21. ASSUME NEW f \in Flows, SaveLoggedIn(f)
       PROVE  TypeOK'
  <2>1. store' \in StoreType
    BY <1>21 DEF SaveLoggedIn, StoreType, FlowType
  <2>2. [flow[f] EXCEPT !.pc = "saveEmail"] \in FlowType
    BY DEF FlowType, Pcs, SavePcs
  <2> QED
    BY <1>21, <2>1, <2>2, FlowUpdate, HistoryType DEF SaveLoggedIn
<1>22. ASSUME NEW f \in Flows, SaveEmail(f)
       PROVE  TypeOK'
  <2>1. store' \in StoreType
    BY <1>22 DEF SaveEmail, StoreType, FlowType
  <2>2. CASE flow[f].kind = "login"
    BY <1>22, <2>1, <2>2 DEF SaveEmail, FlowType, Pcs, SavePcs
  <2>3. CASE flow[f].kind # "login"
    BY <1>22, <2>1, <2>3, IdleFlowType, FlowUpdate DEF SaveEmail
  <2> QED
    BY <2>2, <2>3
<1>23. ASSUME NEW f \in Flows, NEW b \in BOOLEAN, SavePassword(f, b)
       PROVE  TypeOK'
  <2>1. store' \in StoreType
    BY <1>23 DEF SavePassword, StoreType, FlowType
  <2> QED
    BY <1>23, <2>1, IdleFlowType, FlowUpdate DEF SavePassword
<1>24. ASSUME NEW t \in Token, ExpireToken(t)
       PROVE  TypeOK'
  BY <1>24 DEF ExpireToken
<1>25. ASSUME Restart
       PROVE  TypeOK'
  BY <1>25, IdleFlowType DEF Restart, LoseFlows, CachedType
<1>26. ASSUME NEW f \in Flows, RestartInSave(f)
       PROVE  TypeOK'
  <2>1. store' \in StoreType /\ setLate' \in BOOLEAN
    BY <1>26, HistoryType DEF RestartInSave, StoreType
  <2> QED
    BY <1>26, <2>1, IdleFlowType DEF RestartInSave, LoseFlows, CachedType
<1>27. CASE UNCHANGED vars
  BY <1>27 DEF vars
<1> QED
  BY <1>1, <1>2, <1>3, <1>4, <1>5, <1>6, <1>7, <1>8, <1>9, <1>10, <1>11, <1>12, <1>13,
     <1>14, <1>15, <1>16, <1>17, <1>18, <1>19, <1>20, <1>21, <1>22, <1>23, <1>24, <1>25,
     <1>26, <1>27 DEF Next, FlowStep

\* What reGenerateToken does to the flows and to the session up to its first await.
LEMMA ReGenerateEffect ==
  ASSUME TypeOK, NEW f \in Flows, NEW d \in 0..MaxNest, ReGenerateToken(f, d)
  PROVE  /\ \A g \in Flows \ {f} : flow'[g] = flow[g]
         /\ flow'[f].pc \in {"reauth", "clearLoggedIn"}
         /\ flow'[f].kind = flow[f].kind
         /\ flow'[f].sends = flow[f].sends
         /\ flow'[f].pc = "reauth" => flow'[f].nest = d
         /\ store'.loggedIn = store.loggedIn
         /\ store'.token = store.token
<1> USE DEF TypeOK, FlowType, StoreType
<1>1. CASE CanReauthenticate
  <2>1. flow' = [flow EXCEPT ![f] = [flow[f] EXCEPT !.pc = "reauth", !.nest = d,
                                                    !.bearer = NoToken, !.account = store.userEmail]]
    BY <1>1 DEF ReGenerateToken
  <2> QED
    BY <1>1, <2>1 DEF ReGenerateToken
<1>2. CASE ~CanReauthenticate
  <2>1. flow' = [flow EXCEPT ![f] = [IdleFlow EXCEPT !.pc = "clearLoggedIn", !.kind = flow[f].kind,
                                                     !.sends = flow[f].sends]]
    BY <1>2 DEF ReGenerateToken
  <2> QED
    BY <1>2, <2>1 DEF ReGenerateToken, IdleFlow
<1> QED
  BY <1>1, <1>2

\* What the confirmed sign-out does to the flows and to the session.
LEMMA LogoutEffect ==
  ASSUME TypeOK, NEW f \in Flows, NEW g \in Flows, Logout(f, g)
  PROVE  /\ f # g
         /\ \A h \in Flows \ {f, g} : flow'[h] = flow[h]
         /\ flow'[g].pc = "sent" /\ flow'[g].kind = "logoutApi" /\ flow'[g].sends = 1
         /\ flow'[f].pc = "clearLoggedIn"
         /\ flow'[f].kind = flow[f].kind /\ flow'[f].sends = flow[f].sends
         /\ store'.loggedIn = store.loggedIn
         /\ store'.token = store.token
<1>1. f # g
  BY DEF Logout, Idle
<1>2. flow'[g] = [IdleFlow EXCEPT !.pc = "sent", !.kind = "logoutApi", !.sends = 1,
                                  !.bearer = BearerHeader]
  BY <1>1 DEF Logout, TypeOK
<1>3. flow'[f] = [flow[f] EXCEPT !.pc = "clearLoggedIn"]
  BY <1>1 DEF Logout, TypeOK
<1>4. flow[f] \in FlowType /\ IdleFlow \in FlowType
  BY IdleFlowType DEF TypeOK
<1>5. flow'[g].pc = "sent" /\ flow'[g].kind = "logoutApi" /\ flow'[g].sends = 1
  BY <1>2, <1>4 DEF FlowType
<1>6. /\ flow'[f].pc = "clearLoggedIn"
      /\ flow'[f].kind = flow[f].kind
      /\ flow'[f].sends = flow[f].sends
  BY <1>3, <1>4 DEF FlowType
<1>7. \A h \in Flows \ {f, g} : flow'[h] = flow[h]
  BY DEF Logout, TypeOK
<1>8. store'.loggedIn = store.loggedIn /\ store'.token = store.token
  BY DEF Logout, TypeOK, StoreType
<1> QED
  BY <1>1, <1>5, <1>6, <1>7, <1>8

\* Only the first send of a call is retried, and a silent login is at least one deep.
LEMMA RetryStep ==
  ASSUME TypeInv, [Next]_vars
  PROVE  RetryOfFirstSend'
<1> USE DEF TypeInv, TypeOK, RetryOfFirstSend, ReauthPcs, Idle
<1>1. ASSUME NEW f \in Flows, NEW k \in Requests, SendRequest(f, k)
      PROVE  RetryOfFirstSend'
  BY <1>1 DEF SendRequest, IdleFlow
<1>2. ASSUME NEW f \in Flows, NEW k \in SignIns, NEW u \in Users, SendLogin(f, k, u)
      PROVE  RetryOfFirstSend'
  BY <1>2 DEF SendLogin, IdleFlow
<1>3. ASSUME NEW f \in Flows, Resend(f)
      PROVE  RetryOfFirstSend'
  BY <1>3 DEF Resend
<1>4. ASSUME NEW f \in Flows, ClearLoggedIn(f)
      PROVE  RetryOfFirstSend'
  BY <1>4 DEF ClearLoggedIn
<1>5. ASSUME NEW f \in Flows, ClearUserId(f)
      PROVE  RetryOfFirstSend'
  BY <1>5 DEF ClearUserId
<1>6. ASSUME NEW f \in Flows, ClearToken(f)
      PROVE  RetryOfFirstSend'
  BY <1>6 DEF ClearToken
<1>7. ASSUME NEW f \in Flows, ClearPassword(f)
      PROVE  RetryOfFirstSend'
  BY <1>7 DEF ClearPassword, IdleFlow
<1>8. ASSUME NEW f \in Flows, LogoutTap(f)
      PROVE  RetryOfFirstSend'
  BY <1>8 DEF LogoutTap, IdleFlow
<1>9. ASSUME NEW f \in Flows, LogoutOffline(f)
      PROVE  RetryOfFirstSend'
  BY <1>9 DEF LogoutOffline, IdleFlow
<1>10. ASSUME NEW f \in Flows, NEW g \in Flows, Logout(f, g)
      PROVE  RetryOfFirstSend'
  BY <1>10, LogoutEffect
<1>11. ASSUME NEW f \in Flows, SplashUnauthorized(f)
      PROVE  RetryOfFirstSend'
  BY <1>11 DEF SplashUnauthorized, IdleFlow
<1>12. ASSUME NEW f \in Flows, Unauthorized(f)
      PROVE  RetryOfFirstSend'
  <2>1. CASE MayRetry(f)
    <3>1. 1 \in 0..MaxNest /\ ReGenerateToken(f, 1)
      BY <1>12, <2>1, MaxNestAssumption DEF Unauthorized
    <3>2. /\ \A g \in Flows \ {f} : flow'[g] = flow[g]
          /\ flow'[f].sends = flow[f].sends
          /\ flow'[f].pc \in {"reauth", "clearLoggedIn"}
          /\ flow'[f].pc = "reauth" => flow'[f].nest = 1
      BY <3>1, ReGenerateEffect
    <3>3. flow[f].sends = 1
      BY <2>1 DEF MayRetry
    <3> QED
      BY <3>2, <3>3
  <2>2. CASE ~MayRetry(f)
    BY <1>12, <2>2 DEF Unauthorized, IdleFlow
  <2> QED
    BY <2>1, <2>2
<1>13. ASSUME NEW f \in Flows, ReauthAccepted(f)
      PROVE  RetryOfFirstSend'
  BY <1>13 DEF ReauthAccepted, FlowType
<1>14. ASSUME NEW f \in Flows, ReauthUnauthorized(f)
      PROVE  RetryOfFirstSend'
  <2>1. CASE flow[f].pc = "reauth" /\ store.loggedIn
    <3>1. /\ flow[f].nest + 1 \in 0..MaxNest
          /\ flow[f].nest + 1 > 0
          /\ ReGenerateToken(f, flow[f].nest + 1)
      BY <1>14, <2>1, MaxNestAssumption DEF ReauthUnauthorized, FlowType
    <3>2. /\ \A g \in Flows \ {f} : flow'[g] = flow[g]
          /\ flow'[f].sends = flow[f].sends
          /\ flow'[f].pc \in {"reauth", "clearLoggedIn"}
          /\ flow'[f].pc = "reauth" => flow'[f].nest = flow[f].nest + 1
      BY <3>1, ReGenerateEffect
    <3>3. flow[f].sends = 1
      BY <2>1
    <3> QED
      BY <3>1, <3>2, <3>3
  <2>2. CASE ~(flow[f].pc = "reauth" /\ store.loggedIn)
    BY <1>14, <2>2 DEF ReauthUnauthorized, IdleFlow
  <2> QED
    BY <2>1, <2>2
<1>15. ASSUME NEW f \in Flows, Throws(f)
      PROVE  RetryOfFirstSend'
  BY <1>15 DEF Throws, IdleFlow
<1>16. ASSUME NEW f \in Flows, BookingAnswer(f)
      PROVE  RetryOfFirstSend'
  BY <1>16 DEF BookingAnswer, IdleFlow
<1>17. ASSUME NEW f \in Flows, LogoutAnswer(f)
      PROVE  RetryOfFirstSend'
  BY <1>17 DEF LogoutAnswer, IdleFlow
<1>18. ASSUME NEW f \in Flows, UserDetailAnswer(f)
      PROVE  RetryOfFirstSend'
  BY <1>18 DEF UserDetailAnswer
<1>19. ASSUME NEW f \in Flows, LoginAnswer(f)
      PROVE  RetryOfFirstSend'
  BY <1>19 DEF LoginAnswer
<1>20. ASSUME NEW f \in Flows, SaveToken(f)
      PROVE  RetryOfFirstSend'
  BY <1>20 DEF SaveToken
<1>21. ASSUME NEW f \in Flows, SaveLoggedIn(f)
      PROVE  RetryOfFirstSend'
  BY <1>21 DEF SaveLoggedIn
<1>22. ASSUME NEW f \in Flows, SaveEmail(f)
      PROVE  RetryOfFirstSend'
  BY <1>22 DEF SaveEmail, IdleFlow
<1>23. ASSUME NEW f \in Flows, NEW b \in BOOLEAN, SavePassword(f, b)
      PROVE  RetryOfFirstSend'
  BY <1>23 DEF SavePassword, IdleFlow
<1>24. ASSUME NEW t \in Token, ExpireToken(t)
       PROVE  RetryOfFirstSend'
  BY <1>24 DEF ExpireToken
<1>25. ASSUME Restart
       PROVE  RetryOfFirstSend'
  BY <1>25 DEF Restart, LoseFlows, IdleFlow
<1>26. ASSUME NEW f \in Flows, RestartInSave(f)
       PROVE  RetryOfFirstSend'
  BY <1>26 DEF RestartInSave, LoseFlows, IdleFlow
<1>27. CASE UNCHANGED vars
  BY <1>27 DEF vars
<1> QED
  BY <1>1, <1>2, <1>3, <1>4, <1>5, <1>6, <1>7, <1>8, <1>9, <1>10, <1>11, <1>12, <1>13,
     <1>14, <1>15, <1>16, <1>17, <1>18, <1>19, <1>20, <1>21, <1>22, <1>23, <1>24, <1>25,
     <1>26, <1>27 DEF Next, FlowStep

\* Type correctness: the session fields, the caches and every flow keep their types
\* through every step of the network layer and every restart, and a call is retried
\* only after its first send.
THEOREM TypeCorrect == Spec => [](TypeOK /\ RetryOfFirstSend)
<1>1. Init => TypeInv
  <2>1. Init => TypeOK
    <3>1. Init => /\ store \in StoreType /\ cached \in CachedType
                  /\ flow \in [Flows -> FlowType] /\ valid \in SUBSET Token
      BY IdleFlowType DEF Init, StoreType, CachedType
    <3>2. Init => issued \in 0..MaxTokens
      BY MaxTokensAssumption DEF Init
    <3>3. Init => outrun \in SUBSET Flows /\ setLate \in BOOLEAN
      BY Zenon DEF Init
    <3> QED
      BY <3>1, <3>2, <3>3 DEF TypeOK
  <2>2. Init => RetryOfFirstSend
    BY DEF Init, RetryOfFirstSend, IdleFlow, ReauthPcs, Idle
  <2> QED
    BY <2>1, <2>2 DEF TypeInv
<1>2. TypeInv /\ [Next]_vars => TypeInv'
  BY TypeStep, RetryStep DEF TypeInv
<1>3. TypeInv => TypeOK /\ RetryOfFirstSend
  BY DEF TypeInv
<1> QED
  BY <1>1, <1>2, <1>3, PTL DEF Spec

-----------------------------------------------------------------------------
(* Signed in means there is a token to send, and it is the account's own.   *)

OthersStay(f) == \A g \in Flows \ {f} : flow'[g] = flow[g]

\* A step of one flow that leaves the flag, the token and the history alone.
LEMMA FlowMoves ==
  ASSUME SessionInv, NEW f \in Flows, OthersStay(f),
         store'.loggedIn = store.loggedIn, store'.token = store.token,
         outrun' = outrun, setLate' = setLate,
         flow'[f].pc \in {"clearUserId", "clearToken"}
           => flow[f].pc \in {"clearUserId", "clearToken"},
         SaveIsKnown(f)',
         f \notin outrun => HasOwnToken(f)'
  PROVE  SessionInv'
<1> USE DEF SessionInv, OthersStay
<1>1. LoggedInHasToken'
  BY DEF LoggedInHasToken
<1>2. ClearedFlagFirst'
  BY DEF ClearedFlagFirst
<1>3. SavesAreKnown'
  BY DEF SavesAreKnown, SaveIsKnown
<1>4. ASSUME NEW g \in Flows \ outrun, g # f
      PROVE  HasOwnToken(g)'
  <2>1. flow'[g] = flow[g] /\ HasOwnToken(g)
    BY <1>4 DEF UndisturbedOwnToken
  <2> QED
    BY <2>1 DEF HasOwnToken, Idle
<1>5. UndisturbedOwnToken'
  BY <1>4 DEF UndisturbedOwnToken
<1> QED
  BY <1>1, <1>2, <1>3, <1>5

\* A flow that ends disturbs nothing.
LEMMA FlowEnds ==
  ASSUME SessionInv, NEW f \in Flows, OthersStay(f), flow'[f] = IdleFlow,
         store'.loggedIn = store.loggedIn, store'.token = store.token,
         outrun' = outrun, setLate' = setLate
  PROVE  SessionInv'
<1>1. flow'[f].pc = "idle"
  BY DEF IdleFlow
<1>2. SaveIsKnown(f)' /\ HasOwnToken(f)'
  BY <1>1 DEF SaveIsKnown, HasOwnToken, Idle
<1> QED
  BY <1>1, <1>2, FlowMoves

\* A flow f that stores the token t: the flows that save another user's data are outrun.
LEMMA TokenWritten ==
  ASSUME SessionInv, NEW f \in Flows, NEW t, OthersStay(f),
         store'.loggedIn = store.loggedIn, store'.token = t,
         t # NoToken \/ setLate \/ ~store.loggedIn,
         outrun' = Outrun(f, t), setLate' = setLate,
         flow'[f].pc \in {"clearUserId", "clearToken"}
           => flow[f].pc \in {"clearUserId", "clearToken"},
         SaveIsKnown(f)',
         t.owner = flow[f].user => HasOwnToken(f)'
  PROVE  SessionInv'
<1> USE DEF SessionInv, OthersStay
<1>1. LoggedInHasToken'
  BY DEF LoggedInHasToken
<1>2. ClearedFlagFirst'
  BY DEF ClearedFlagFirst
<1>3. SavesAreKnown'
  BY DEF SavesAreKnown, SaveIsKnown
<1>4. ASSUME NEW g \in Flows \ outrun', g # f
      PROVE  HasOwnToken(g)'
  <2>1. flow'[g] = flow[g] /\ SaveIsKnown(g)
    BY <1>4 DEF SavesAreKnown
  <2>2. ~(SavesUser(g) /\ (g \in outrun \/ t.owner # store.token.owner))
    BY <1>4 DEF Outrun
  <2>3. CASE SavesUser(g)
    <3>1. t.owner = store.token.owner /\ HasOwnToken(g)
      BY <2>2, <2>3 DEF UndisturbedOwnToken
    <3> QED
      BY <2>1, <3>1 DEF HasOwnToken, Idle
  <2>4. CASE ~SavesUser(g)
    BY <2>1, <2>4 DEF HasOwnToken, SavesUser, SaveIsKnown, Idle
  <2> QED
    BY <2>3, <2>4
<1>5. f \notin outrun' => HasOwnToken(f)'
  BY DEF Outrun
<1>6. UndisturbedOwnToken'
  BY <1>4, <1>5 DEF UndisturbedOwnToken
<1> QED
  BY <1>1, <1>2, <1>3, <1>6

\* reGenerateToken: the flow keeps its user and waits, or it starts to clear.
LEMMA ReGenerateSession ==
  ASSUME TypeOK, SessionInv, NEW f \in Flows, NEW d \in 0..MaxNest, ReGenerateToken(f, d),
         flow[f].pc \in {"sent", "reauth"}, outrun' = outrun, setLate' = setLate
  PROVE  SessionInv'
<1>1. /\ OthersStay(f)
      /\ flow'[f].pc \in {"reauth", "clearLoggedIn"}
      /\ flow'[f].kind = flow[f].kind
      /\ store'.loggedIn = store.loggedIn
      /\ store'.token = store.token
  BY ReGenerateEffect DEF OthersStay
<1>2. SaveIsKnown(f)'
  BY <1>1 DEF SaveIsKnown
<1>3. flow'[f].pc = "reauth" => flow'[f].user = flow[f].user
  <2>1. CASE CanReauthenticate
    BY <2>1 DEF ReGenerateToken, TypeOK, FlowType
  <2>2. CASE ~CanReauthenticate
    BY <2>2 DEF ReGenerateToken, TypeOK, IdleFlow
  <2> QED
    BY <2>1, <2>2
<1>4. f \notin outrun => HasOwnToken(f)'
  BY <1>1, <1>3 DEF SessionInv, UndisturbedOwnToken, HasOwnToken, Idle, ClearPcs
<1> QED
  BY <1>1, <1>2, <1>4, FlowMoves

\* Every step keeps SessionInv.
LEMMA SessionStep ==
  ASSUME TypeOK, SessionInv, [Next]_vars
  PROVE  SessionInv'
<1> USE DEF TypeOK
<1>1. ASSUME NEW f \in Flows, NEW k \in Requests, SendRequest(f, k)
      PROVE  SessionInv'
  <2>1. /\ OthersStay(f) /\ store' = store /\ setLate' = setLate
        /\ flow'[f].pc = "sent" /\ flow'[f].kind = k
        /\ flow'[f].user = store.userId /\ flow'[f].bearer = BearerHeader
    BY <1>1 DEF SendRequest, OthersStay, IdleFlow
  <2>2. SavesAreKnown'
    BY <2>1 DEF SessionInv, SavesAreKnown, SaveIsKnown, OthersStay
  <2>3. LoggedInHasToken' /\ ClearedFlagFirst'
    BY <2>1 DEF SessionInv, LoggedInHasToken, ClearedFlagFirst, OthersStay
  <2>4. ASSUME NEW g \in Flows \ outrun', g # f
        PROVE  HasOwnToken(g)'
    <3>1. flow'[g] = flow[g] /\ HasOwnToken(g)
      BY <1>1, <2>1, <2>4 DEF SendRequest, OthersStay, SessionInv, UndisturbedOwnToken
    <3> QED
      BY <2>1, <3>1 DEF HasOwnToken, Idle
  <2>5. ASSUME f \notin outrun'
        PROVE  HasOwnToken(f)'
    <3>1. store.token # NoToken /\ store.token.owner = store.userId
      BY <1>1, <2>5 DEF SendRequest
    <3>2. store.userId \in Users
      BY <3>1 DEF StoreType, Token
    <3>3. BearerHeader = NoToken \/ BearerHeader.owner = store.userId
      BY <3>1 DEF BearerHeader
    <3> QED
      BY <2>1, <3>1, <3>2, <3>3 DEF HasOwnToken
  <2>6. UndisturbedOwnToken'
    BY <2>4, <2>5 DEF UndisturbedOwnToken
  <2> QED
    BY <2>2, <2>3, <2>6 DEF SessionInv
<1>2. ASSUME NEW f \in Flows, NEW k \in SignIns, NEW u \in Users, SendLogin(f, k, u)
      PROVE  SessionInv'
  <2>1. /\ OthersStay(f) /\ store' = store /\ outrun' = outrun /\ setLate' = setLate
        /\ flow'[f].pc = "sent" /\ flow'[f].kind = k
    BY <1>2 DEF SendLogin, OthersStay, IdleFlow
  <2>2. SaveIsKnown(f)' /\ HasOwnToken(f)'
    BY <2>1 DEF SaveIsKnown, HasOwnToken, SignIns
  <2> QED
    BY <2>1, <2>2, FlowMoves
<1>3. ASSUME NEW f \in Flows, Resend(f)
      PROVE  SessionInv'
  <2>1. /\ OthersStay(f) /\ store' = store /\ outrun' = outrun /\ setLate' = setLate
        /\ flow[f].pc = "refreshed" /\ flow'[f].pc = "sent"
        /\ flow'[f].kind = flow[f].kind /\ flow'[f].user = flow[f].user
        /\ flow'[f].bearer = BearerHeader
    BY <1>3 DEF Resend, OthersStay, FlowType
  <2>2. SaveIsKnown(f)'
    BY <2>1 DEF SaveIsKnown
  <2>3. f \notin outrun => HasOwnToken(f)'
    BY <2>1 DEF SessionInv, UndisturbedOwnToken, HasOwnToken, Idle, ClearPcs, BearerHeader
  <2> QED
    BY <2>1, <2>2, <2>3, FlowMoves
<1>4. ASSUME NEW f \in Flows, ClearLoggedIn(f)
      PROVE  SessionInv'
  <2>1. /\ OthersStay(f) /\ ~store'.loggedIn /\ store'.token = store.token
        /\ outrun' = outrun /\ flow'[f].pc = "clearUserId"
    BY <1>4 DEF ClearLoggedIn, OthersStay, StoreType, FlowType
  <2>2. LoggedInHasToken' /\ ClearedFlagFirst'
    BY <2>1 DEF LoggedInHasToken, ClearedFlagFirst
  <2>3. SavesAreKnown'
    BY <2>1 DEF SessionInv, SavesAreKnown, SaveIsKnown, OthersStay
  <2>4. ASSUME NEW g \in Flows \ outrun
        PROVE  HasOwnToken(g)'
    <3>1. CASE g = f
      BY <2>1, <3>1 DEF HasOwnToken, ClearPcs
    <3>2. CASE g # f
      <4>1. flow'[g] = flow[g] /\ HasOwnToken(g)
        BY <2>1, <3>2 DEF OthersStay, SessionInv, UndisturbedOwnToken
      <4> QED
        BY <2>1, <4>1 DEF HasOwnToken, Idle
    <3> QED
      BY <3>1, <3>2
  <2>5. UndisturbedOwnToken'
    BY <2>1, <2>4 DEF UndisturbedOwnToken
  <2> QED
    BY <2>2, <2>3, <2>5 DEF SessionInv
<1>5. ASSUME NEW f \in Flows, ClearUserId(f)
      PROVE  SessionInv'
  <2>1. /\ OthersStay(f)
        /\ store'.loggedIn = store.loggedIn /\ store'.token = store.token
        /\ outrun' = outrun /\ setLate' = setLate
        /\ flow[f].pc = "clearUserId" /\ flow'[f].pc = "clearToken"
    BY <1>5 DEF ClearUserId, OthersStay, StoreType, FlowType
  <2>2. SaveIsKnown(f)' /\ HasOwnToken(f)'
    BY <2>1 DEF SaveIsKnown, HasOwnToken, ClearPcs
  <2> QED
    BY <2>1, <2>2, FlowMoves
<1>6. ASSUME NEW f \in Flows, ClearToken(f)
      PROVE  SessionInv'
  <2>1. /\ OthersStay(f)
        /\ store'.loggedIn = store.loggedIn /\ store'.token = NoToken
        /\ outrun' = Outrun(f, NoToken) /\ setLate' = setLate
        /\ flow[f].pc = "clearToken" /\ flow'[f].pc = "clearPassword"
    BY <1>6 DEF ClearToken, OthersStay, StoreType, FlowType
  <2>2. setLate \/ ~store.loggedIn
    BY <2>1 DEF SessionInv, ClearedFlagFirst
  <2>3. SaveIsKnown(f)' /\ HasOwnToken(f)'
    BY <2>1 DEF SaveIsKnown, HasOwnToken, ClearPcs
  <2> QED
    BY <2>1, <2>2, <2>3, TokenWritten
<1>7. ASSUME NEW f \in Flows, ClearPassword(f)
      PROVE  SessionInv'
  <2>1. /\ OthersStay(f) /\ flow'[f] = IdleFlow
        /\ store'.loggedIn = store.loggedIn /\ store'.token = store.token
        /\ outrun' = outrun /\ setLate' = setLate
    BY <1>7 DEF ClearPassword, OthersStay, StoreType
  <2> QED
    BY <2>1, FlowEnds
<1>8. ASSUME NEW f \in Flows, LogoutTap(f)
      PROVE  SessionInv'
  <2>1. /\ OthersStay(f) /\ store' = store /\ outrun' = outrun /\ setLate' = setLate
        /\ flow'[f].pc = "logoutCheck" /\ flow'[f].kind = "logout"
    BY <1>8 DEF LogoutTap, OthersStay, IdleFlow
  <2>2. SaveIsKnown(f)' /\ HasOwnToken(f)'
    BY <2>1 DEF SaveIsKnown, HasOwnToken
  <2> QED
    BY <2>1, <2>2, FlowMoves
<1>9. ASSUME NEW f \in Flows, LogoutOffline(f)
      PROVE  SessionInv'
  <2>1. /\ OthersStay(f) /\ flow'[f] = IdleFlow
        /\ store'.loggedIn = store.loggedIn /\ store'.token = store.token
        /\ outrun' = outrun /\ setLate' = setLate
    BY <1>9 DEF LogoutOffline, OthersStay, StoreType
  <2> QED
    BY <2>1, FlowEnds
<1>10. ASSUME NEW f \in Flows, NEW g \in Flows, Logout(f, g)
      PROVE  SessionInv'
  <2>1. /\ \A h \in Flows \ {f, g} : flow'[h] = flow[h]
        /\ flow'[g].pc = "sent" /\ flow'[g].kind = "logoutApi"
        /\ flow'[f].pc = "clearLoggedIn"
        /\ store'.loggedIn = store.loggedIn /\ store'.token = store.token
    BY <1>10, LogoutEffect
  <2>2. outrun' = outrun /\ setLate' = setLate
    BY <1>10 DEF Logout
  <2>3. LoggedInHasToken' /\ ClearedFlagFirst'
    BY <2>1, <2>2 DEF SessionInv, LoggedInHasToken, ClearedFlagFirst
  <2>4. SavesAreKnown'
    BY <2>1 DEF SessionInv, SavesAreKnown, SaveIsKnown
  <2>5. ASSUME NEW h \in Flows \ outrun
        PROVE  HasOwnToken(h)'
    <3>1. CASE h \in {f, g}
      BY <2>1, <3>1 DEF HasOwnToken, ClearPcs
    <3>2. CASE h \notin {f, g}
      <4>1. flow'[h] = flow[h] /\ HasOwnToken(h)
        BY <2>1, <3>2 DEF SessionInv, UndisturbedOwnToken
      <4> QED
        BY <2>1, <4>1 DEF HasOwnToken, Idle
    <3> QED
      BY <3>1, <3>2
  <2>6. UndisturbedOwnToken'
    BY <2>2, <2>5 DEF UndisturbedOwnToken
  <2> QED
    BY <2>3, <2>4, <2>6 DEF SessionInv
<1>11. ASSUME NEW f \in Flows, SplashUnauthorized(f)
      PROVE  SessionInv'
  <2>1. /\ OthersStay(f) /\ outrun' = outrun /\ setLate' = setLate
        /\ store'.loggedIn = store.loggedIn /\ store'.token = store.token
        /\ flow'[f].pc = "clearLoggedIn"
    BY <1>11 DEF SplashUnauthorized, OthersStay, IdleFlow, StoreType
  <2>2. SaveIsKnown(f)' /\ HasOwnToken(f)'
    BY <2>1 DEF SaveIsKnown, HasOwnToken, ClearPcs
  <2> QED
    BY <2>1, <2>2, FlowMoves
<1>12. ASSUME NEW f \in Flows, Unauthorized(f)
      PROVE  SessionInv'
  <2>1. CASE MayRetry(f)
    BY <1>12, <2>1, ReGenerateSession, MaxNestAssumption DEF Unauthorized
  <2>2. CASE ~MayRetry(f)
    <3>1. OthersStay(f) /\ flow'[f] = IdleFlow /\ store' = store /\ outrun' = outrun /\ setLate' = setLate
      BY <1>12, <2>2 DEF Unauthorized, OthersStay
    <3> QED
      BY <3>1, FlowEnds
  <2> QED
    BY <2>1, <2>2
<1>13. ASSUME NEW f \in Flows, ReauthAccepted(f)
      PROVE  SessionInv'
  <2> DEFINE t == NewToken(flow[f].account)
  <2>1. /\ OthersStay(f) /\ store'.loggedIn = store.loggedIn /\ store'.token = t
        /\ outrun' = Outrun(f, t) /\ setLate' = setLate
    BY <1>13 DEF ReauthAccepted, OthersStay, StoreType
  <2>2. /\ flow'[f].pc \in {"refreshed", "reauthAgain"}
        /\ flow'[f].kind = flow[f].kind /\ flow'[f].user = flow[f].user
    BY <1>13 DEF ReauthAccepted, FlowType
  <2>3. t # NoToken /\ t.owner \in Users
    BY <1>13, NewTokenType DEF ReauthAccepted, CanIssue, NewToken
  <2>4. SaveIsKnown(f)'
    BY <2>2 DEF SaveIsKnown
  <2>5. t.owner = flow[f].user => HasOwnToken(f)'
    BY <2>1, <2>2, <2>3 DEF HasOwnToken
  <2> HIDE DEF t
  <2> QED
    BY <2>1, <2>2, <2>3, <2>4, <2>5, TokenWritten
<1>14. ASSUME NEW f \in Flows, ReauthUnauthorized(f)
      PROVE  SessionInv'
  <2>1. CASE flow[f].pc = "reauth" /\ store.loggedIn
    <3>1. flow[f].nest + 1 \in 0..MaxNest /\ ReGenerateToken(f, flow[f].nest + 1)
      BY <1>14, <2>1, MaxNestAssumption DEF ReauthUnauthorized, FlowType
    <3>2. outrun' = outrun /\ setLate' = setLate
      BY <1>14 DEF ReauthUnauthorized
    <3> QED
      BY <2>1, <3>1, <3>2, ReGenerateSession
  <2>2. CASE ~(flow[f].pc = "reauth" /\ store.loggedIn)
    <3>1. OthersStay(f) /\ flow'[f] = IdleFlow /\ store' = store /\ outrun' = outrun /\ setLate' = setLate
      BY <1>14, <2>2 DEF ReauthUnauthorized, OthersStay
    <3> QED
      BY <3>1, FlowEnds
  <2> QED
    BY <2>1, <2>2
<1>15. ASSUME NEW f \in Flows, Throws(f)
      PROVE  SessionInv'
  <2>1. /\ OthersStay(f) /\ flow'[f] = IdleFlow
        /\ store'.loggedIn = store.loggedIn /\ store'.token = store.token
        /\ outrun' = outrun /\ setLate' = setLate
    BY <1>15 DEF Throws, OthersStay, StoreType
  <2> QED
    BY <2>1, FlowEnds
<1>16. ASSUME NEW f \in Flows, BookingAnswer(f)
      PROVE  SessionInv'
  <2>1. /\ OthersStay(f) /\ flow'[f] = IdleFlow
        /\ store'.loggedIn = store.loggedIn /\ store'.token = store.token
        /\ outrun' = outrun /\ setLate' = setLate
    BY <1>16 DEF BookingAnswer, OthersStay, StoreType
  <2> QED
    BY <2>1, FlowEnds
<1>17. ASSUME NEW f \in Flows, LogoutAnswer(f)
      PROVE  SessionInv'
  <2>1. /\ OthersStay(f) /\ flow'[f] = IdleFlow
        /\ store'.loggedIn = store.loggedIn /\ store'.token = store.token
        /\ outrun' = outrun /\ setLate' = setLate
    BY <1>17 DEF LogoutAnswer, OthersStay, StoreType
  <2> QED
    BY <2>1, FlowEnds
<1>18. ASSUME NEW f \in Flows, UserDetailAnswer(f)
      PROVE  SessionInv'
  <2>1. PICK t \in {NoToken, flow[f].bearer} :
          flow' = [flow EXCEPT ![f] = [@ EXCEPT !.pc = "saveToken", !.bearer = t]]
    BY <1>18 DEF UserDetailAnswer
  <2>2. /\ OthersStay(f) /\ store' = store /\ outrun' = outrun /\ setLate' = setLate
        /\ flow[f].pc = "sent" /\ flow[f].kind = "userDetail"
        /\ flow'[f].pc = "saveToken" /\ flow'[f].kind = "userDetail"
        /\ flow'[f].user = flow[f].user /\ flow'[f].bearer = t
    BY <1>18, <2>1 DEF UserDetailAnswer, Accepted, OthersStay, FlowType
  <2>3. SaveIsKnown(f)'
    BY <2>2 DEF SaveIsKnown
  <2>4. f \notin outrun => HasOwnToken(f)'
    BY <2>1, <2>2 DEF SessionInv, UndisturbedOwnToken, HasOwnToken, Idle, ClearPcs
  <2> QED
    BY <2>2, <2>3, <2>4, FlowMoves
<1>19. ASSUME NEW f \in Flows, LoginAnswer(f)
      PROVE  SessionInv'
  <2> DEFINE t == NewToken(flow[f].user)
  <2>1. /\ OthersStay(f) /\ store'.loggedIn = store.loggedIn /\ store'.token = t
        /\ outrun' = Outrun(f, t) /\ setLate' = setLate
    BY <1>19 DEF LoginAnswer, OthersStay, StoreType
  <2>2. /\ flow'[f].pc = "saveLoggedIn" /\ flow[f].kind \in SignIns
        /\ flow'[f].kind = flow[f].kind /\ flow'[f].user = flow[f].user
    BY <1>19 DEF LoginAnswer, FlowType
  <2>3. t # NoToken /\ t.owner \in Users
    BY <1>19, NewTokenType DEF LoginAnswer, CanIssue, NewToken
  <2>4. SaveIsKnown(f)'
    BY <2>2 DEF SaveIsKnown
  <2>5. t.owner = flow[f].user => HasOwnToken(f)'
    BY <2>1, <2>2, <2>3 DEF HasOwnToken
  <2> HIDE DEF t
  <2> QED
    BY <2>1, <2>2, <2>3, <2>4, <2>5, TokenWritten
<1>20. ASSUME NEW f \in Flows, SaveToken(f)
      PROVE  SessionInv'
  <2> DEFINE t == flow[f].bearer
  <2>1. /\ OthersStay(f) /\ store'.loggedIn = store.loggedIn /\ setLate' = setLate
        /\ flow[f].pc = "saveToken" /\ flow'[f].pc = "saveLoggedIn"
        /\ flow'[f].kind = flow[f].kind /\ flow'[f].user = flow[f].user
    BY <1>20 DEF SaveToken, OthersStay, StoreType, FlowType
  <2>2. flow[f].kind = "userDetail"
    BY <2>1 DEF SessionInv, SavesAreKnown, SaveIsKnown
  <2>3. SaveIsKnown(f)'
    BY <2>1, <2>2 DEF SaveIsKnown
  <2>4. CASE t = NoToken
    <3>1. store'.token = store.token /\ outrun' = outrun
      BY <1>20, <2>4 DEF SaveToken, StoreType
    <3>2. f \notin outrun => HasOwnToken(f)'
      BY <2>1, <2>2, <3>1 DEF SessionInv, UndisturbedOwnToken, HasOwnToken, Idle, ClearPcs
    <3> QED
      BY <2>1, <2>3, <3>1, <3>2, FlowMoves
  <2>5. CASE t # NoToken
    <3>1. store'.token = t /\ outrun' = Outrun(f, t)
      BY <1>20, <2>5 DEF SaveToken, StoreType
    <3>2. t.owner \in Users
      BY <2>5 DEF FlowType, Token
    <3>3. t.owner = flow[f].user => HasOwnToken(f)'
      BY <2>1, <3>1, <3>2 DEF HasOwnToken
    <3> HIDE DEF t
    <3> QED
      BY <2>1, <2>3, <2>5, <3>1, <3>3, TokenWritten
  <2> QED
    BY <2>4, <2>5
<1>21. ASSUME NEW f \in Flows, SaveLoggedIn(f)
      PROVE  SessionInv'
  <2>1. /\ OthersStay(f) /\ store'.loggedIn /\ store'.token = store.token
        /\ outrun' = outrun /\ setLate' = Late(f)
        /\ flow[f].pc = "saveLoggedIn" /\ flow'[f].pc = "saveEmail"
        /\ flow'[f].kind = flow[f].kind /\ flow'[f].user = flow[f].user
    BY <1>21 DEF SaveLoggedIn, OthersStay, StoreType, FlowType
  <2>2. f \notin outrun => store.token # NoToken
    BY <2>1, NoneAssumption DEF SessionInv, UndisturbedOwnToken, HasOwnToken, NoToken
  <2>3. LoggedInHasToken'
    BY <2>1, <2>2 DEF LoggedInHasToken, Late
  <2>4. ClearedFlagFirst'
    BY <2>1 DEF ClearedFlagFirst, Late, OthersStay
  <2>5. SavesAreKnown'
    BY <2>1 DEF SessionInv, SavesAreKnown, SaveIsKnown, OthersStay
  <2>6. ASSUME NEW g \in Flows \ outrun
        PROVE  HasOwnToken(g)'
    <3>1. HasOwnToken(g)
      BY DEF SessionInv, UndisturbedOwnToken
    <3>2. CASE g = f
      BY <2>1, <3>1, <3>2 DEF HasOwnToken, Idle, ClearPcs
    <3>3. CASE g # f
      <4>1. flow'[g] = flow[g]
        BY <2>1, <3>3 DEF OthersStay
      <4> QED
        BY <2>1, <3>1, <4>1 DEF HasOwnToken, Idle
    <3> QED
      BY <3>2, <3>3
  <2>7. UndisturbedOwnToken'
    BY <2>1, <2>6 DEF UndisturbedOwnToken
  <2> QED
    BY <2>3, <2>4, <2>5, <2>7 DEF SessionInv
<1>22. ASSUME NEW f \in Flows, SaveEmail(f)
      PROVE  SessionInv'
  <2>1. /\ OthersStay(f) /\ outrun' = outrun /\ setLate' = setLate
        /\ store'.loggedIn = store.loggedIn /\ store'.token = store.token
    BY <1>22 DEF SaveEmail, OthersStay, StoreType
  <2>2. CASE flow[f].kind = "login"
    <3>1. flow'[f].pc = "savePassword" /\ flow'[f].kind = "login"
      BY <1>22, <2>2 DEF SaveEmail, FlowType
    <3>2. SaveIsKnown(f)' /\ HasOwnToken(f)'
      BY <3>1 DEF SaveIsKnown, HasOwnToken
    <3> QED
      BY <2>1, <3>1, <3>2, FlowMoves
  <2>3. CASE flow[f].kind # "login"
    <3>1. flow'[f] = IdleFlow
      BY <1>22, <2>3 DEF SaveEmail
    <3> QED
      BY <2>1, <3>1, FlowEnds
  <2> QED
    BY <2>2, <2>3
<1>23. ASSUME NEW f \in Flows, NEW b \in BOOLEAN, SavePassword(f, b)
      PROVE  SessionInv'
  <2>1. /\ OthersStay(f) /\ flow'[f] = IdleFlow
        /\ store'.loggedIn = store.loggedIn /\ store'.token = store.token
        /\ outrun' = outrun /\ setLate' = setLate
    BY <1>23 DEF SavePassword, OthersStay, StoreType
  <2> QED
    BY <2>1, FlowEnds
<1>24. ASSUME store' = store, flow' = flow, outrun' = outrun, setLate' = setLate
       PROVE  SessionInv'
  BY <1>24 DEF SessionInv, LoggedInHasToken, ClearedFlagFirst, SavesAreKnown, SaveIsKnown,
               UndisturbedOwnToken, HasOwnToken, Idle
<1>25. ASSUME LoseFlows, LoggedInHasToken'
       PROVE  SessionInv'
  <2>1. \A g \in Flows : flow'[g].pc = "idle"
    BY <1>25 DEF LoseFlows, IdleFlow
  <2>2. ClearedFlagFirst' /\ SavesAreKnown'
    BY <2>1 DEF ClearedFlagFirst, SavesAreKnown, SaveIsKnown
  <2>3. UndisturbedOwnToken'
    BY <2>1 DEF UndisturbedOwnToken, HasOwnToken, Idle
  <2> QED
    BY <1>25, <2>2, <2>3 DEF SessionInv
<1>26. ASSUME NEW f \in Flows, RestartInSave(f)
       PROVE  SessionInv'
  <2>1. /\ store'.token = store.token /\ setLate' = Late(f) /\ LoseFlows
        /\ flow[f].pc = "saveLoggedIn"
    BY <1>26 DEF RestartInSave, StoreType
  <2>2. f \notin outrun => store.token # NoToken
    BY <2>1, NoneAssumption DEF SessionInv, UndisturbedOwnToken, HasOwnToken, NoToken
  <2>3. LoggedInHasToken'
    BY <2>1, <2>2 DEF LoggedInHasToken, Late
  <2> QED
    BY <1>25, <2>1, <2>3
<1>27. CASE Restart
  <2>1. LoseFlows /\ store' = store /\ setLate' = setLate
    BY <1>27 DEF Restart
  <2>2. LoggedInHasToken'
    BY <2>1 DEF SessionInv, LoggedInHasToken
  <2> QED
    BY <1>25, <2>1, <2>2
<1>28. ASSUME NEW t \in Token, ExpireToken(t)
       PROVE  SessionInv'
  BY <1>24, <1>28 DEF ExpireToken
<1>29. CASE UNCHANGED vars
  BY <1>24, <1>29 DEF vars
<1> QED
  BY <1>1, <1>2, <1>3, <1>4, <1>5, <1>6, <1>7, <1>8, <1>9, <1>10, <1>11, <1>12, <1>13,
     <1>14, <1>15, <1>16, <1>17, <1>18, <1>19, <1>20, <1>21, <1>22, <1>23, <1>26, <1>27,
     <1>28, <1>29 DEF Next, FlowStep

LEMMA SessionInit == Init => SessionInv
BY DEF Init, SessionInv, LoggedInHasToken, ClearedFlagFirst, SavesAreKnown, SaveIsKnown,
       UndisturbedOwnToken, HasOwnToken, Idle, IdleFlow

\* For any accounts, flows, requests and depth of silent logins, user-detail answers saved at
\* any time included: the app is signed in without a token only after a save that a sign-out
\* had overtaken.
THEOREM SignedInHasToken == Spec => []LoggedInHasToken
<1>1. Init => SessionInv
  BY SessionInit
<1>2. TypeOK /\ SessionInv /\ [Next]_vars => SessionInv'
  BY SessionStep
<1>3. SessionInv => LoggedInHasToken
  BY DEF SessionInv
<1> QED
  BY <1>1, <1>2, <1>3, TypeCorrect, PTL DEF Spec

-----------------------------------------------------------------------------
(* Whose token it is.                                                       *)

ForeignCause ==
  \E f \in Flows :
    /\ flow'[f] # flow[f]
    /\ \/ flow[f].pc \in ReauthPcs /\ flow[f].account # store.userId
       \/ flow[f].pc = "sent" /\ flow[f].kind \in SignIns /\ flow[f].user # store.userId
       \/ flow[f].pc \in {"saveToken", "saveLoggedIn"} /\ f \in outrun
       \/ flow[f].pc \in {"clearUserId", "clearToken"} /\ setLate
       \/ RestartInSave(f)

\* A step that leaves the flag, the token and the id alone leaves the token with its account.
LEMMA OwnStays ==
  ASSUME OwnToken, store'.loggedIn = store.loggedIn, store'.token = store.token,
         store'.userId = store.userId
  PROVE  OwnToken'
BY DEF OwnToken

\* Every step keeps the token with its account, but for the causes.
LEMMA OwnStep ==
  ASSUME TypeOK, SessionInv, OwnToken, Next
  PROVE  OwnToken' \/ ForeignCause
<1> USE DEF TypeOK
<1>1. ASSUME NEW f \in Flows, NEW k \in Requests, SendRequest(f, k)
      PROVE  OwnToken'
  BY <1>1, OwnStays DEF SendRequest
<1>2. ASSUME NEW f \in Flows, NEW k \in SignIns, NEW u \in Users, SendLogin(f, k, u)
      PROVE  OwnToken'
  BY <1>2, OwnStays DEF SendLogin
<1>3. ASSUME NEW f \in Flows, \/ Resend(f) \/ LogoutOffline(f) \/ Throws(f) \/ BookingAnswer(f)
                              \/ LogoutAnswer(f) \/ UserDetailAnswer(f) \/ LogoutTap(f)
      PROVE  OwnToken'
  <2>1. store' = store
    BY <1>3 DEF Resend, LogoutOffline, Throws, BookingAnswer, LogoutAnswer, UserDetailAnswer, LogoutTap
  <2> QED
    BY <2>1, OwnStays
<1>4. ASSUME NEW f \in Flows, ClearLoggedIn(f)
      PROVE  OwnToken'
  BY <1>4 DEF ClearLoggedIn, StoreType, OwnToken
<1>5. ASSUME NEW f \in Flows, ClearUserId(f) \/ ClearToken(f)
      PROVE  OwnToken' \/ ForeignCause
  <2>1. /\ flow[f].pc \in {"clearUserId", "clearToken"}
        /\ flow'[f].pc # flow[f].pc /\ store'.loggedIn = store.loggedIn
    BY <1>5 DEF ClearUserId, ClearToken, StoreType, FlowType
  <2>2. CASE store.loggedIn
    <3>1. setLate
      BY <2>1, <2>2 DEF SessionInv, ClearedFlagFirst
    <3>2. flow'[f] # flow[f]
      BY <2>1
    <3> QED
      BY <2>1, <3>1, <3>2 DEF ForeignCause
  <2>3. CASE ~store.loggedIn
    BY <2>1, <2>3 DEF OwnToken
  <2> QED
    BY <2>2, <2>3
<1>6. ASSUME NEW f \in Flows, \/ ClearPassword(f) \/ SplashUnauthorized(f) \/ SaveEmail(f)
                              \/ (\E r \in BOOLEAN : SavePassword(f, r))
      PROVE  OwnToken'
  <2>1. /\ store'.token = store.token
        /\ store'.loggedIn = store.loggedIn /\ store'.userId = store.userId
    BY <1>6 DEF ClearPassword, SplashUnauthorized, SaveEmail, SavePassword, StoreType
  <2> QED
    BY <2>1, OwnStays
<1>7. ASSUME NEW f \in Flows, NEW g \in Flows, Logout(f, g)
      PROVE  OwnToken'
  <2>1. /\ store'.token = store.token
        /\ store'.loggedIn = store.loggedIn /\ store'.userId = store.userId
    BY <1>7 DEF Logout, StoreType
  <2> QED
    BY <2>1, OwnStays
<1>8. ASSUME NEW f \in Flows, Unauthorized(f) \/ ReauthUnauthorized(f)
      PROVE  OwnToken'
  <2>1. /\ store'.token = store.token
        /\ store'.loggedIn = store.loggedIn /\ store'.userId = store.userId
    BY <1>8 DEF Unauthorized, ReauthUnauthorized, ReGenerateToken, StoreType
  <2> QED
    BY <2>1, OwnStays
<1>9. ASSUME NEW f \in Flows, ReauthAccepted(f)
      PROVE  OwnToken' \/ ForeignCause
  <2>1. /\ flow[f].pc \in ReauthPcs
        /\ store'.token.owner = flow[f].account
        /\ store'.loggedIn = store.loggedIn /\ store'.userId = store.userId
    BY <1>9 DEF ReauthAccepted, NewToken, StoreType
  <2>2. flow'[f] # flow[f]
    <3>1. CASE flow[f].nest = 1
      <4>1. flow'[f].pc = "refreshed"
        BY <1>9, <3>1 DEF ReauthAccepted, FlowType
      <4> QED
        BY <2>1, <4>1 DEF ReauthPcs
    <3>2. CASE flow[f].nest # 1
      <4>1. flow'[f].nest = flow[f].nest - 1 /\ flow[f].nest \in Nat
        BY <1>9, <3>2, MaxNestAssumption DEF ReauthAccepted, FlowType
      <4> QED
        BY <4>1
    <3> QED
      BY <3>1, <3>2
  <2>3. CASE flow[f].account = store.userId
    BY <2>1, <2>3 DEF OwnToken
  <2>4. CASE flow[f].account # store.userId
    BY <2>1, <2>2, <2>4 DEF ForeignCause
  <2> QED
    BY <2>3, <2>4
<1>10. ASSUME NEW f \in Flows, LoginAnswer(f)
       PROVE  OwnToken' \/ ForeignCause
  <2>1. /\ flow[f].pc = "sent" /\ flow[f].kind \in SignIns /\ flow'[f].pc = "saveLoggedIn"
        /\ store'.token.owner = flow[f].user
        /\ store'.loggedIn = store.loggedIn /\ store'.userId = store.userId
    BY <1>10 DEF LoginAnswer, NewToken, StoreType, FlowType
  <2>2. flow'[f] # flow[f]
    BY <2>1
  <2>3. CASE flow[f].user = store.userId
    BY <2>1, <2>3 DEF OwnToken
  <2>4. CASE flow[f].user # store.userId
    BY <2>1, <2>2, <2>4 DEF ForeignCause
  <2> QED
    BY <2>3, <2>4
<1>11. ASSUME NEW f \in Flows, SaveToken(f)
       PROVE  OwnToken' \/ ForeignCause
  <2>1. /\ flow[f].pc = "saveToken" /\ flow'[f].pc = "saveLoggedIn"
        /\ store'.token = IF flow[f].bearer = NoToken THEN store.token ELSE flow[f].bearer
        /\ store'.loggedIn = store.loggedIn /\ store'.userId = store.userId
    BY <1>11 DEF SaveToken, StoreType, FlowType
  <2>2. flow'[f] # flow[f]
    BY <2>1
  <2>3. CASE f \in outrun
    BY <2>1, <2>2, <2>3 DEF ForeignCause
  <2>4. CASE f \notin outrun
    <3>1. HasOwnToken(f) /\ flow[f].kind = "userDetail"
      BY <2>1, <2>4 DEF SessionInv, UndisturbedOwnToken, SavesAreKnown, SaveIsKnown
    <3>2. /\ store.token.owner = flow[f].user
          /\ flow[f].bearer = NoToken \/ flow[f].bearer.owner = flow[f].user
      BY <2>1, <3>1 DEF HasOwnToken, Idle, ClearPcs
    <3>3. store'.token.owner = store.token.owner
      BY <2>1, <3>2
    <3> QED
      BY <2>1, <3>3 DEF OwnToken
  <2> QED
    BY <2>3, <2>4
<1>12. ASSUME NEW f \in Flows, SaveLoggedIn(f)
       PROVE  OwnToken' \/ ForeignCause
  <2>1. /\ flow[f].pc = "saveLoggedIn" /\ flow'[f].pc = "saveEmail"
        /\ store'.token = store.token /\ store'.userId = flow[f].user
    BY <1>12 DEF SaveLoggedIn, StoreType, FlowType
  <2>2. flow'[f] # flow[f]
    BY <2>1
  <2>3. CASE f \in outrun
    BY <2>1, <2>2, <2>3 DEF ForeignCause
  <2>4. CASE f \notin outrun
    <3>1. HasOwnToken(f)
      BY <2>4 DEF SessionInv, UndisturbedOwnToken
    <3> QED
      BY <2>1, <3>1 DEF HasOwnToken, OwnToken
  <2> QED
    BY <2>3, <2>4
<1>13. ASSUME NEW t \in Token, ExpireToken(t)
       PROVE  OwnToken'
  BY <1>13, OwnStays DEF ExpireToken
<1>14. CASE Restart
  BY <1>14, OwnStays DEF Restart
<1>15. ASSUME NEW f \in Flows, RestartInSave(f)
       PROVE  ForeignCause
  <2>1. flow'[f] # flow[f]
    BY <1>15 DEF RestartInSave, LoseFlows, IdleFlow
  <2> QED
    BY <1>15, <2>1 DEF ForeignCause
<1> QED
  BY <1>1, <1>2, <1>3, <1>4, <1>5, <1>6, <1>7, <1>8, <1>9, <1>10, <1>11, <1>12, <1>13, <1>14,
     <1>15 DEF Next, FlowStep

\* For any accounts, flows, requests and depth of silent logins: the account signed in sends
\* its own token until one of the five named steps happens.
THEOREM ForeignTokenIsExplained == Spec => ForeignTokenHasCause
<1>1. Init => SessionInv
  BY SessionInit
<1>2. TypeOK /\ SessionInv /\ [Next]_vars => SessionInv'
  BY SessionStep
<1>3. TypeOK /\ SessionInv /\ [Next]_vars => [OwnToken /\ ~OwnToken' => ForeignCause]_vars
  BY OwnStep
<1> QED
  BY <1>1, <1>2, <1>3, TypeCorrect, PTL DEF Spec, ForeignTokenHasCause, ForeignCause

-----------------------------------------------------------------------------
(* The HTTP layer keeps the contract of HttpContract.                       *)

\* A step of the contract, in terms of the flow that makes the call.
LEMMA ContractStep ==
  ASSUME NEW c \in Flows,
         \/ Phase(c)' = Phase(c) /\ flow'[c].sends = flow[c].sends
         \/ Phase(c) = "none" /\ Phase(c)' = "waiting" /\ flow'[c].sends = 1
         \/ /\ Phase(c) = "waiting" /\ Phase(c)' = "refreshing"
            /\ flow[c].sends = 1 /\ flow'[c].sends = flow[c].sends
         \/ /\ Phase(c) = "refreshing" /\ Phase(c)' = "refreshed"
            /\ flow'[c].sends = flow[c].sends
         \/ /\ Phase(c) = "refreshed" /\ Phase(c)' = "waiting"
            /\ flow[c].sends = 1 /\ flow'[c].sends = 2
         \/ /\ Phase(c) # "refreshed" /\ Phase(c)' = "settling"
            /\ flow'[c].sends = flow[c].sends
         \/ Phase(c)' = "none" /\ flow'[c].sends = 0
  PROVE  Contract!Step(c)
BY DEF Contract!Step, Contract!Start, Contract!Refresh, Contract!Refreshed, Contract!Resend,
       Contract!Settle, Contract!End, Contract!Stutter, Contract!Moves, Contract!Keeps

\* It suffices to look at the one call that moves.
LEMMA OneCall ==
  ASSUME NEW f \in Flows, \A g \in Flows \ {f} : flow'[g] = flow[g], Contract!Step(f)
  PROVE  Contract!Next
<1>1. ASSUME NEW g \in Flows \ {f}
      PROVE  Contract!Step(g)
  <2>1. Phase(g)' = Phase(g) /\ flow'[g].sends = flow[g].sends
    BY DEF Phase, ReauthPcs
  <2> QED
    BY <2>1, ContractStep
<1> QED
  BY <1>1 DEF Contract!Next

\* A call may end anywhere.
LEMMA CallEnds ==
  ASSUME NEW f \in Flows, \A g \in Flows \ {f} : flow'[g] = flow[g], flow'[f] = IdleFlow
  PROVE  Contract!Next
<1>1. flow'[f].pc = "idle" /\ flow'[f].sends = 0
  BY DEF IdleFlow
<1>2. Phase(f)' = "none"
  BY <1>1 DEF Phase, ReauthPcs
<1> QED
  BY <1>1, <1>2, ContractStep, OneCall

\* A call that is not about to be sent again may hand on its answer or clear the session.
LEMMA CallSettles ==
  ASSUME NEW f \in Flows, \A g \in Flows \ {f} : flow'[g] = flow[g],
         flow[f].pc # "refreshed",
         flow'[f].pc \in ClearPcs \cup SavePcs \cup {"logoutCheck"},
         flow'[f].sends = flow[f].sends
  PROVE  Contract!Next
<1>1. Phase(f)' = "settling" /\ Phase(f) # "refreshed"
  BY DEF Phase, ClearPcs, SavePcs, ReauthPcs
<1> QED
  BY <1>1, ContractStep, OneCall

\* reGenerateToken of the first send, or of a silent login it started.
LEMMA CallRefreshes ==
  ASSUME TypeOK, NEW f \in Flows, NEW d \in 0..MaxNest, ReGenerateToken(f, d),
         flow[f].pc \in {"sent", "reauth"}, flow[f].sends = 1
  PROVE  Contract!Next
<1>1. /\ \A g \in Flows \ {f} : flow'[g] = flow[g]
      /\ flow'[f].pc \in {"reauth", "clearLoggedIn"}
      /\ flow'[f].sends = flow[f].sends
  BY ReGenerateEffect
<1>2. CASE flow'[f].pc = "reauth"
  <2>1. Phase(f) \in {"waiting", "refreshing"} /\ Phase(f)' = "refreshing"
    BY <1>2 DEF Phase, ReauthPcs
  <2> QED
    BY <1>1, <2>1, ContractStep, OneCall
<1>3. CASE flow'[f].pc = "clearLoggedIn"
  BY <1>1, <1>3, CallSettles DEF ClearPcs
<1> QED
  BY <1>1, <1>2, <1>3

\* A step that leaves every call alone.
LEMMA AllStutter ==
  ASSUME flow' = flow
  PROVE  Contract!Next
<1>1. ASSUME NEW g \in Flows
      PROVE  Contract!Step(g)
  <2>1. Phase(g)' = Phase(g) /\ flow'[g].sends = flow[g].sends
    BY DEF Phase, ReauthPcs
  <2> QED
    BY <2>1, ContractStep
<1> QED
  BY <1>1 DEF Contract!Next

\* The restart that ends every call.
LEMMA AllEnd ==
  ASSUME LoseFlows
  PROVE  Contract!Next
<1>1. ASSUME NEW g \in Flows
      PROVE  Contract!Step(g)
  <2>1. flow'[g].pc = "idle" /\ flow'[g].sends = 0
    BY DEF LoseFlows, IdleFlow
  <2>2. Phase(g)' = "none"
    BY <2>1 DEF Phase, ReauthPcs
  <2> QED
    BY <2>1, <2>2, ContractStep
<1> QED
  BY <1>1 DEF Contract!Next

\* Every step of the session is a step of the contract for every call.
LEMMA CallStep ==
  ASSUME TypeInv, [Next]_vars
  PROVE  Contract!Next
<1> USE DEF TypeInv, TypeOK
<1>1. ASSUME NEW f \in Flows, NEW k \in Requests, SendRequest(f, k)
       PROVE  Contract!Next
  <2>1. /\ \A g \in Flows \ {f} : flow'[g] = flow[g]
        /\ flow[f].pc = "idle" /\ flow'[f].pc = "sent" /\ flow'[f].sends = 1
    BY <1>1 DEF SendRequest, Idle, IdleFlow
  <2>2. Phase(f) = "none" /\ Phase(f)' = "waiting"
    BY <2>1 DEF Phase, ReauthPcs
  <2> QED
    BY <2>1, <2>2, ContractStep, OneCall
<1>2. ASSUME NEW f \in Flows, NEW k \in SignIns, NEW u \in Users, SendLogin(f, k, u)
       PROVE  Contract!Next
  <2>1. /\ \A g \in Flows \ {f} : flow'[g] = flow[g]
        /\ flow[f].pc = "idle" /\ flow'[f].pc = "sent" /\ flow'[f].sends = 1
    BY <1>2 DEF SendLogin, Idle, IdleFlow
  <2>2. Phase(f) = "none" /\ Phase(f)' = "waiting"
    BY <2>1 DEF Phase, ReauthPcs
  <2> QED
    BY <2>1, <2>2, ContractStep, OneCall
<1>3. ASSUME NEW f \in Flows, Resend(f)
       PROVE  Contract!Next
  <2>1. /\ \A g \in Flows \ {f} : flow'[g] = flow[g]
        /\ flow[f].pc = "refreshed" /\ flow'[f].pc = "sent"
        /\ flow'[f].sends = flow[f].sends + 1
    BY <1>3 DEF Resend
  <2>2. flow[f].sends = 1
    BY <2>1 DEF RetryOfFirstSend
  <2>3. Phase(f) = "refreshed" /\ Phase(f)' = "waiting"
    BY <2>1 DEF Phase, ReauthPcs
  <2>4. flow'[f].sends = 2
    BY <2>1, <2>2
  <2> QED
    BY <2>1, <2>2, <2>3, <2>4, ContractStep, OneCall
<1>4. ASSUME NEW f \in Flows, ClearLoggedIn(f)
       PROVE  Contract!Next
  <2>1. /\ \A g \in Flows \ {f} : flow'[g] = flow[g]
        /\ flow[f].pc # "refreshed"
        /\ flow'[f].pc \in ClearPcs \cup SavePcs \cup {"logoutCheck"}
        /\ flow'[f].sends = flow[f].sends
    BY <1>4 DEF ClearLoggedIn, ClearPcs, SavePcs
  <2> QED
    BY <2>1, CallSettles
<1>5. ASSUME NEW f \in Flows, ClearUserId(f)
       PROVE  Contract!Next
  <2>1. /\ \A g \in Flows \ {f} : flow'[g] = flow[g]
        /\ flow[f].pc # "refreshed"
        /\ flow'[f].pc \in ClearPcs \cup SavePcs \cup {"logoutCheck"}
        /\ flow'[f].sends = flow[f].sends
    BY <1>5 DEF ClearUserId, ClearPcs, SavePcs
  <2> QED
    BY <2>1, CallSettles
<1>6. ASSUME NEW f \in Flows, ClearToken(f)
       PROVE  Contract!Next
  <2>1. /\ \A g \in Flows \ {f} : flow'[g] = flow[g]
        /\ flow[f].pc # "refreshed"
        /\ flow'[f].pc \in ClearPcs \cup SavePcs \cup {"logoutCheck"}
        /\ flow'[f].sends = flow[f].sends
    BY <1>6 DEF ClearToken, ClearPcs, SavePcs
  <2> QED
    BY <2>1, CallSettles
<1>7. ASSUME NEW f \in Flows, ClearPassword(f)
       PROVE  Contract!Next
  <2>1. /\ \A g \in Flows \ {f} : flow'[g] = flow[g]
        /\ flow'[f] = IdleFlow
    BY <1>7 DEF ClearPassword
  <2> QED
    BY <2>1, CallEnds
<1>8. ASSUME NEW f \in Flows, LogoutTap(f)
       PROVE  Contract!Next
  <2>1. /\ \A g \in Flows \ {f} : flow'[g] = flow[g]
        /\ flow[f].pc = "idle" /\ flow'[f].pc = "logoutCheck" /\ flow'[f].sends = 0
    BY <1>8 DEF LogoutTap, Idle, IdleFlow
  <2>2. flow[f].sends = 0
    BY <2>1 DEF RetryOfFirstSend, Idle
  <2> QED
    BY <2>1, <2>2, CallSettles
<1>9. ASSUME NEW f \in Flows, LogoutOffline(f)
       PROVE  Contract!Next
  <2>1. /\ \A g \in Flows \ {f} : flow'[g] = flow[g]
        /\ flow'[f] = IdleFlow
    BY <1>9 DEF LogoutOffline
  <2> QED
    BY <2>1, CallEnds
<1>10. ASSUME NEW f \in Flows, NEW g \in Flows, Logout(f, g)
       PROVE  Contract!Next
  <2>1. /\ f # g
        /\ \A h \in Flows \ {f, g} : flow'[h] = flow[h]
        /\ flow'[g].pc = "sent" /\ flow'[g].sends = 1
        /\ flow'[f].pc = "clearLoggedIn" /\ flow'[f].sends = flow[f].sends
    BY <1>10, LogoutEffect
  <2>a. flow[g].pc = "idle" /\ flow[f].pc = "logoutCheck"
    BY <1>10 DEF Logout, Idle
  <2>2. Contract!Step(g)
    <3>1. Phase(g) = "none" /\ Phase(g)' = "waiting"
      BY <2>1, <2>a DEF Phase, ReauthPcs
    <3> QED
      BY <2>1, <3>1, ContractStep
  <2>3. Contract!Step(f)
    <3>1. Phase(f) = "settling" /\ Phase(f)' = "settling"
      BY <2>1, <2>a DEF Phase, ReauthPcs
    <3> QED
      BY <2>1, <3>1, ContractStep
  <2>4. ASSUME NEW h \in Flows \ {f, g}
        PROVE  Contract!Step(h)
    <3>1. Phase(h)' = Phase(h) /\ flow'[h].sends = flow[h].sends
      BY <2>1, <2>a DEF Phase, ReauthPcs
    <3> QED
      BY <3>1, ContractStep
  <2> QED
    BY <2>2, <2>3, <2>4 DEF Contract!Next
<1>11. ASSUME NEW f \in Flows, SplashUnauthorized(f)
       PROVE  Contract!Next
  <2>1. /\ \A g \in Flows \ {f} : flow'[g] = flow[g]
        /\ flow[f].pc = "idle" /\ flow'[f].pc = "clearLoggedIn" /\ flow'[f].sends = 0
    BY <1>11 DEF SplashUnauthorized, Idle, IdleFlow
  <2>2. flow[f].sends = 0
    BY <2>1 DEF RetryOfFirstSend, Idle
  <2> QED
    BY <2>1, <2>2, CallSettles DEF ClearPcs
<1>12. ASSUME NEW f \in Flows, Unauthorized(f)
       PROVE  Contract!Next
  <2>1. CASE MayRetry(f)
    <3>1. /\ 1 \in 0..MaxNest
          /\ ReGenerateToken(f, 1)
          /\ flow[f].pc = "sent" /\ flow[f].sends = 1
      BY <1>12, <2>1, MaxNestAssumption DEF Unauthorized, MayRetry
    <3> QED
      BY <3>1, CallRefreshes
  <2>2. CASE ~MayRetry(f)
    <3>1. /\ \A g \in Flows \ {f} : flow'[g] = flow[g]
          /\ flow'[f] = IdleFlow
      BY <1>12, <2>2 DEF Unauthorized
    <3> QED
      BY <3>1, CallEnds
  <2> QED
    BY <2>1, <2>2
<1>13. ASSUME NEW f \in Flows, ReauthAccepted(f)
       PROVE  Contract!Next
  <2>1. /\ \A g \in Flows \ {f} : flow'[g] = flow[g]
        /\ flow[f].pc \in ReauthPcs
        /\ flow'[f].pc \in {"refreshed", "reauthAgain"}
        /\ flow'[f].sends = flow[f].sends
    BY <1>13 DEF ReauthAccepted, FlowType
  <2>2. /\ Phase(f) = "refreshing"
        /\ Phase(f)' \in {"refreshing", "refreshed"}
    BY <2>1 DEF Phase, ReauthPcs
  <2> QED
    BY <2>1, <2>2, ContractStep, OneCall
<1>14. ASSUME NEW f \in Flows, ReauthUnauthorized(f)
       PROVE  Contract!Next
  <2>1. CASE flow[f].pc = "reauth" /\ store.loggedIn
    <3>1. flow[f].nest + 1 \in 0..MaxNest /\ ReGenerateToken(f, flow[f].nest + 1)
      BY <1>14, <2>1, MaxNestAssumption DEF ReauthUnauthorized, FlowType
    <3>2. flow[f].sends = 1
      BY <2>1 DEF RetryOfFirstSend, ReauthPcs
    <3> QED
      BY <2>1, <3>1, <3>2, CallRefreshes
  <2>2. CASE ~(flow[f].pc = "reauth" /\ store.loggedIn)
    <3>1. /\ \A g \in Flows \ {f} : flow'[g] = flow[g]
          /\ flow'[f] = IdleFlow
      BY <1>14, <2>2 DEF ReauthUnauthorized
    <3> QED
      BY <3>1, CallEnds
  <2> QED
    BY <2>1, <2>2
<1>15. ASSUME NEW f \in Flows, Throws(f)
       PROVE  Contract!Next
  <2>1. /\ \A g \in Flows \ {f} : flow'[g] = flow[g]
        /\ flow'[f] = IdleFlow
    BY <1>15 DEF Throws
  <2> QED
    BY <2>1, CallEnds
<1>16. ASSUME NEW f \in Flows, BookingAnswer(f)
       PROVE  Contract!Next
  <2>1. /\ \A g \in Flows \ {f} : flow'[g] = flow[g]
        /\ flow'[f] = IdleFlow
    BY <1>16 DEF BookingAnswer
  <2> QED
    BY <2>1, CallEnds
<1>17. ASSUME NEW f \in Flows, LogoutAnswer(f)
       PROVE  Contract!Next
  <2>1. /\ \A g \in Flows \ {f} : flow'[g] = flow[g]
        /\ flow'[f] = IdleFlow
    BY <1>17 DEF LogoutAnswer
  <2> QED
    BY <2>1, CallEnds
<1>18. ASSUME NEW f \in Flows, UserDetailAnswer(f)
       PROVE  Contract!Next
  <2>1. /\ \A g \in Flows \ {f} : flow'[g] = flow[g]
        /\ flow[f].pc # "refreshed"
        /\ flow'[f].pc \in ClearPcs \cup SavePcs \cup {"logoutCheck"}
        /\ flow'[f].sends = flow[f].sends
    BY <1>18 DEF UserDetailAnswer, Accepted, SavePcs, FlowType
  <2> QED
    BY <2>1, CallSettles
<1>19. ASSUME NEW f \in Flows, LoginAnswer(f)
       PROVE  Contract!Next
  <2>1. /\ \A g \in Flows \ {f} : flow'[g] = flow[g]
        /\ flow[f].pc # "refreshed"
        /\ flow'[f].pc \in ClearPcs \cup SavePcs \cup {"logoutCheck"}
        /\ flow'[f].sends = flow[f].sends
    BY <1>19 DEF LoginAnswer, ClearPcs, SavePcs
  <2> QED
    BY <2>1, CallSettles
<1>20. ASSUME NEW f \in Flows, SaveToken(f)
       PROVE  Contract!Next
  <2>1. /\ \A g \in Flows \ {f} : flow'[g] = flow[g]
        /\ flow[f].pc # "refreshed"
        /\ flow'[f].pc \in ClearPcs \cup SavePcs \cup {"logoutCheck"}
        /\ flow'[f].sends = flow[f].sends
    BY <1>20 DEF SaveToken, ClearPcs, SavePcs
  <2> QED
    BY <2>1, CallSettles
<1>21. ASSUME NEW f \in Flows, SaveLoggedIn(f)
       PROVE  Contract!Next
  <2>1. /\ \A g \in Flows \ {f} : flow'[g] = flow[g]
        /\ flow[f].pc # "refreshed"
        /\ flow'[f].pc \in ClearPcs \cup SavePcs \cup {"logoutCheck"}
        /\ flow'[f].sends = flow[f].sends
    BY <1>21 DEF SaveLoggedIn, ClearPcs, SavePcs
  <2> QED
    BY <2>1, CallSettles
<1>22. ASSUME NEW f \in Flows, SaveEmail(f)
       PROVE  Contract!Next
  <2>1. CASE flow[f].kind = "login"
    <3>1. /\ \A g \in Flows \ {f} : flow'[g] = flow[g]
          /\ flow[f].pc # "refreshed"
          /\ flow'[f].pc \in ClearPcs \cup SavePcs \cup {"logoutCheck"}
          /\ flow'[f].sends = flow[f].sends
      BY <1>22, <2>1 DEF SaveEmail, SavePcs
    <3> QED
      BY <3>1, CallSettles
  <2>2. CASE flow[f].kind # "login"
    <3>1. /\ \A g \in Flows \ {f} : flow'[g] = flow[g]
          /\ flow'[f] = IdleFlow
      BY <1>22, <2>2 DEF SaveEmail
    <3> QED
      BY <3>1, CallEnds
  <2> QED
    BY <2>1, <2>2
<1>23. ASSUME NEW f \in Flows, NEW b \in BOOLEAN, SavePassword(f, b)
       PROVE  Contract!Next
  <2>1. /\ \A g \in Flows \ {f} : flow'[g] = flow[g]
        /\ flow'[f] = IdleFlow
    BY <1>23 DEF SavePassword
  <2> QED
    BY <2>1, CallEnds
<1>24. ASSUME NEW t \in Token, ExpireToken(t)
       PROVE  Contract!Next
  BY <1>24, AllStutter DEF ExpireToken
<1>25. ASSUME Restart
       PROVE  Contract!Next
  BY <1>25, AllEnd DEF Restart
<1>26. ASSUME NEW f \in Flows, RestartInSave(f)
       PROVE  Contract!Next
  BY <1>26, AllEnd DEF RestartInSave
<1>27. CASE UNCHANGED vars
  BY <1>27, AllStutter DEF vars
<1> QED
  BY <1>1, <1>2, <1>3, <1>4, <1>5, <1>6, <1>7, <1>8, <1>9, <1>10, <1>11, <1>12, <1>13,
     <1>14, <1>15, <1>16, <1>17, <1>18, <1>19, <1>20, <1>21, <1>22, <1>23, <1>24, <1>25,
     <1>26, <1>27 DEF Next, FlowStep

\* The network layer implements its contract: every call of buildHttpResponse is sent
\* once, and a second time only after a silent login of its own succeeded, whatever the
\* other calls, sign-ins and sign-outs do meanwhile.
THEOREM CallsKeepContract == Spec => SendsAtMostTwice
<1>1. Init => Contract!Init
  <2>1. ASSUME Init, NEW f \in Flows
        PROVE  Phase(f) = "none" /\ flow[f].sends = 0
    <3>1. flow[f].pc = "idle" /\ flow[f].sends = 0
      BY <2>1 DEF Init, IdleFlow
    <3> QED
      BY <3>1 DEF Phase, ReauthPcs
  <2> QED
    BY <2>1 DEF Contract!Init
<1>2. TypeInv /\ [Next]_vars => Contract!Next
  BY CallStep
<1>3. TypeOK /\ RetryOfFirstSend => TypeInv
  BY DEF TypeInv
<1> QED
  BY <1>1, <1>2, <1>3, TypeCorrect, PTL DEF Spec, SendsAtMostTwice, Contract!Spec
=============================================================================
