--------------------------- MODULE PhoneAuthProofs ---------------------------
(***************************************************************************)
(* Two verifications are pending at once only after a third one has called   *)
(* back, for any number of calls and typed codes.                            *)
(*                                                                           *)
(* _otpVerifyInFlight is taken down by callbacks and by the end of automatic *)
(* logins, so the invariant says what a call that lost its flag owes it to.  *)
(*                                                                           *)
(* A user whose data has been saved is shown the dashboard, however many     *)
(* automatic and typed logins race: until then the screen has not been       *)
(* replaced, so the login that saved the data still finds it mounted.        *)
(*                                                                           *)
(* The loader of a screen that is there always has a call or a login that    *)
(* it waits for.                                                             *)
(***************************************************************************)
EXTENDS PhoneAuth, TLAPS

CallStates == {"unused", "probing", "refused", "pending",
               "failed", "ended", "codeSent", "completed"}

LoginStates == {"idle", "credential", "backend", "saving", "signingOut", "done"}

CallTypeOK ==
  /\ call \in [Calls -> CallStates]
  /\ inFlight \in BOOLEAN
  /\ login \in [Logins -> LoginStates]

\* A login that is no typed code is that of a call that has been completed.
AutoLoginIsCompleted == \A v \in Calls : login[v] # "idle" => call[v] = "completed"

\* A pending call without the flag has lost it to another one.
FlagLostToAnother ==
  \A v \in Calls : call[v] = "pending" /\ ~inFlight =>
    \E w \in Calls : w # v /\ HasCalledBack(w)

Inv == CallTypeOK /\ AutoLoginIsCompleted /\ FlagLostToAnother /\ OneVerificationAtATime

-----------------------------------------------------------------------------
LEMMA InitInv == Init => Inv
  BY DEF Init, Inv, CallTypeOK, CallStates, AutoLoginIsCompleted, FlagLostToAnother,
         OneVerificationAtATime, HasCalledBack, Logins, LoginStates

\* A call that is or becomes pending only by Probed, and calls that have called back stay so.
LEMMA CallbackKeeps ==
  ASSUME Inv, NEW v \in Calls, HasCalledBack(v)',
         call' = [call EXCEPT ![v] = call'[v]],
         call'[v] \in CallStates, inFlight' \in BOOLEAN,
         login' = login \/ (login' = [login EXCEPT ![v] = "credential"]
                              /\ call'[v] = "completed" /\ call[v] # "completed"),
         call[v] # "completed"
  PROVE  Inv'
<1> USE DEF Inv, HasCalledBack
<1>1. CallTypeOK'
  BY DEF CallTypeOK, Logins, LoginStates
<1>2. AutoLoginIsCompleted'
  BY DEF AutoLoginIsCompleted, CallTypeOK, Logins
<1>3. FlagLostToAnother'
  BY <1>1 DEF FlagLostToAnother, CallTypeOK
<1>4. OneVerificationAtATime'
  BY DEF OneVerificationAtATime, CallTypeOK
<1> QED  BY <1>1, <1>2, <1>3, <1>4

\* The end of a login, automatic or typed.
LEMMA EndLoginKeeps ==
  ASSUME Inv, NEW p \in Logins, login[p] # "idle", EndLogin(p)
  PROVE  Inv'
<1> USE DEF Inv, HasCalledBack, EndLogin
<1>1. CallTypeOK'
  BY DEF CallTypeOK, Logins, LoginStates
<1>2. AutoLoginIsCompleted'
  BY DEF AutoLoginIsCompleted, CallTypeOK, Logins
<1>3. FlagLostToAnother'
  <2>1. CASE inFlight' = inFlight
    BY <2>1 DEF FlagLostToAnother
  <2>2. CASE inFlight' # inFlight
    <3>1. p \in Calls
      BY <2>2 DEF CallTypeOK, Logins
    <3>2. call[p] = "completed"
      BY <3>1 DEF AutoLoginIsCompleted
    <3> QED  BY <3>1, <3>2 DEF FlagLostToAnother
  <2> QED  BY <2>1, <2>2
<1>4. OneVerificationAtATime'
  BY DEF OneVerificationAtATime
<1> QED  BY <1>1, <1>2, <1>3, <1>4

\* A step of a login that leaves Firebase's side alone.
LEMMA ContinueKeeps ==
  ASSUME Inv, NEW p \in Logins, NEW to \in LoginStates, login[p] # "idle", Continue(p, to)
  PROVE  Inv'
  BY DEF Inv, Continue, firebase, CallTypeOK, AutoLoginIsCompleted, FlagLostToAnother,
         OneVerificationAtATime, HasCalledBack, Logins, LoginStates

-----------------------------------------------------------------------------
LEMMA SendKeeps ==
  ASSUME Inv, NEW v \in Calls,
         SendOTP(v) \/ Probed(v) \/ ProbeReturns(v) \/ CodeAutoRetrievalTimeout(v)
  PROVE  Inv'
<1> USE DEF Inv, HasCalledBack, CallTypeOK, CallStates, backend
<1>1. CASE SendOTP(v)
  BY <1>1 DEF SendOTP, AutoLoginIsCompleted, FlagLostToAnother, OneVerificationAtATime
<1>2. CASE Probed(v)
  <2>1. CallTypeOK' /\ AutoLoginIsCompleted' /\ FlagLostToAnother'
    BY <1>2 DEF Probed, AutoLoginIsCompleted, FlagLostToAnother
  <2>2. OneVerificationAtATime'
    BY <1>2 DEF Probed, FlagLostToAnother, OneVerificationAtATime
  <2> QED  BY <2>1, <2>2
<1>3. CASE ProbeReturns(v)
  BY <1>3 DEF ProbeReturns, AutoLoginIsCompleted, FlagLostToAnother, OneVerificationAtATime
<1>4. CASE CodeAutoRetrievalTimeout(v)
  BY <1>4 DEF CodeAutoRetrievalTimeout, AutoLoginIsCompleted, FlagLostToAnother,
              OneVerificationAtATime
<1> QED  BY <1>1, <1>2, <1>3, <1>4

LEMMA CallsKeep ==
  ASSUME Inv, NEW v \in Calls, Callback(v) \/ SecondFailure(v)
  PROVE  Inv'
<1> USE DEF HasCalledBack, CallStates, backend
<1>0. call \in [Calls -> CallStates] /\ inFlight \in BOOLEAN
  BY DEF Inv, CallTypeOK
<1>1. CASE FirstFailure(v)
  <2>1. /\ call' = [call EXCEPT ![v] = call'[v]]
        /\ call'[v] \in {"failed", "ended"} /\ call[v] = "pending"
        /\ inFlight' = FALSE /\ login' = login
    BY <1>0, <1>1 DEF FirstFailure, VerificationFailed
  <2> QED  BY <2>1, CallbackKeeps
<1>2. CASE SecondFailure(v)
  <2>1. /\ call' = [call EXCEPT ![v] = call'[v]]
        /\ call'[v] = "ended" /\ call[v] = "failed"
        /\ inFlight' = FALSE /\ login' = login
    BY <1>0, <1>2 DEF SecondFailure, VerificationFailed
  <2> QED  BY <2>1, CallbackKeeps
<1>3. CASE VerifyThrows(v) \/ CodeSent(v)
  <2>1. /\ call' = [call EXCEPT ![v] = call'[v]]
        /\ call'[v] \in {"ended", "codeSent"} /\ call[v] = "pending"
        /\ inFlight' = FALSE /\ login' = login
    BY <1>0, <1>3 DEF VerifyThrows, CodeSent
  <2> QED  BY <2>1, CallbackKeeps
<1>4. CASE VerificationCompleted(v)
  <2>1. /\ call' = [call EXCEPT ![v] = call'[v]]
        /\ call'[v] = "completed" /\ call[v] # "completed"
        /\ inFlight' = inFlight
        /\ login' = login \/ login' = [login EXCEPT ![v] = "credential"]
    BY <1>0, <1>4 DEF VerificationCompleted
  <2> QED  BY <1>0, <2>1, CallbackKeeps
<1> QED  BY <1>1, <1>2, <1>3, <1>4 DEF Callback

LEMMA ProgressKeeps ==
  ASSUME Inv, NEW p \in Logins, Progress(p)
  PROVE  Inv'
<1>1. login[p] # "idle"
  BY DEF Progress, CredentialAccepted, CredentialRejected, BackendFails, BackendTooLate,
         BackendKnows, BackendUnknown, Land, BackToSignIn
<1>2. EndLogin(p) \/ \E to \in LoginStates : Continue(p, to)
  BY DEF Progress, CredentialAccepted, CredentialRejected, BackendFails, BackendTooLate,
         BackendKnows, BackendUnknown, Land, BackToSignIn, LoginStates
<1> QED  BY <1>1, <1>2, EndLoginKeeps, ContinueKeeps

LEMMA SubmitKeeps ==
  ASSUME Inv, NEW p \in Logins, SubmitOtp(p)
  PROVE  Inv'
<1>1. p \notin Calls
  BY LoginsAssumption DEF SubmitOtp
<1> QED
  BY <1>1 DEF SubmitOtp, firebase, Inv, CallTypeOK, AutoLoginIsCompleted, FlagLostToAnother,
              OneVerificationAtATime, HasCalledBack, Logins, LoginStates

LEMMA NextInv == Inv /\ [Next]_vars => Inv'
<1> SUFFICES ASSUME Inv, [Next]_vars PROVE Inv'
  OBVIOUS
<1>1. CASE \E v \in Calls : \/ SendOTP(v) \/ Probed(v) \/ ProbeReturns(v)
                            \/ Callback(v) \/ SecondFailure(v) \/ CodeAutoRetrievalTimeout(v)
  BY <1>1, SendKeeps, CallsKeep
<1>2. CASE \E p \in Logins : SubmitOtp(p) \/ Progress(p)
  BY <1>2, SubmitKeeps, ProgressKeeps
<1>3. CASE Back \/ Unmount \/ UNCHANGED vars
  BY <1>3 DEF Back, Unmount, vars, firebase, backend, Inv, CallTypeOK, AutoLoginIsCompleted,
              FlagLostToAnother, OneVerificationAtATime, HasCalledBack
<1> QED  BY <1>1, <1>2, <1>3 DEF Next

-----------------------------------------------------------------------------
\* For any number of calls, sendOTP never has two verifications pending unless a third one
\* has called back: the flag set after the probe is a lock, and only callbacks break it.
THEOREM OneVerification == Spec => []OneVerificationAtATime
<1>1. Spec => []Inv
  BY InitInv, NextInv, PTL DEF Spec
<1>2. Inv => OneVerificationAtATime
  BY DEF Inv
<1> QED  BY <1>1, <1>2, PTL

-----------------------------------------------------------------------------
(* The dashboard.                                                           *)

ScreenTypeOK ==
  /\ login \in [Logins -> LoginStates]
  /\ mounted \in BOOLEAN /\ signedIn \in BOOLEAN /\ failedLogin \in BOOLEAN
  /\ account \in [registered : BOOLEAN, left : BOOLEAN]

\* What a login does after the backend's answer, and what has been saved, agree with it.
AnswersAgree ==
  /\ \A p \in Logins : login[p] = "saving" => account.registered
  /\ \A p \in Logins : login[p] = "signingOut" => ~account.registered
  /\ signedIn => account.registered

Excused == account.left \/ failedLogin

\* For a registered number only the dashboard replaces the screen, unless the user or a
\* failed login has closed it.
ScreenStays ==
  account.registered /\ ~Excused =>
    routes = <<"dashboard">> \/ (routes = <<"home", "signIn", "otp">> /\ mounted)

\* Saved data has a login on its way to the dashboard, or has led there.
SavedLeadsOn ==
  signedIn => (\E p \in Logins : login[p] = "saving") \/ routes = <<"dashboard">> \/ Excused

ScreenInv == ScreenTypeOK /\ AnswersAgree /\ ScreenStays /\ SavedLeadsOn

LEMMA ScreenInit == Init => ScreenInv
  BY DEF Init, ScreenInv, ScreenTypeOK, AnswersAgree, ScreenStays, SavedLeadsOn, Excused,
         LoginStates

\* A step that starts a login, or goes on with one short of saving, in an open screen.
LEMMA LoginMoves ==
  ASSUME ScreenInv, NEW p \in Logins, NEW to \in {"credential", "backend", "done"},
         login[p] # "saving", login' = [login EXCEPT ![p] = to],
         UNCHANGED <<mounted, routes, signedIn, account, failedLogin>>
  PROVE  ScreenInv'
  BY DEF ScreenInv, ScreenTypeOK, AnswersAgree, ScreenStays, SavedLeadsOn, Excused, LoginStates

LEMMA ProgressKeepsScreen ==
  ASSUME ScreenInv, NEW p \in Logins, Progress(p)
  PROVE  ScreenInv'
<1> USE DEF ScreenInv, ScreenTypeOK, LoginStates, Excused
<1>1. CASE CredentialAccepted(p)
  BY <1>1, LoginMoves DEF CredentialAccepted, Continue, EndLogin
<1>2. CASE CredentialRejected(p)
  BY <1>2, LoginMoves DEF CredentialRejected, EndLogin
<1>3. CASE BackendTooLate(p)
  BY <1>3, LoginMoves DEF BackendTooLate, EndLogin
<1>4. CASE BackendFails(p)
  <2>1. CASE mounted
    <3>1. failedLogin' /\ ScreenTypeOK'
      BY <1>4, <2>1 DEF BackendFails, EndLogin
    <3>2. AnswersAgree'
      BY <1>4, <2>1 DEF BackendFails, EndLogin, AnswersAgree
    <3> QED  BY <3>1, <3>2 DEF ScreenStays, SavedLeadsOn
  <2>2. CASE ~mounted
    BY <1>4, <2>2, LoginMoves DEF BackendFails, EndLogin
  <2> QED  BY <2>1, <2>2
<1>5. CASE BackendKnows(p)
  <2>1. ScreenTypeOK' /\ AnswersAgree' /\ ScreenStays'
    BY <1>5 DEF BackendKnows, Continue, AnswersAgree, ScreenStays
  <2>2. login'[p] = "saving"
    BY <1>5 DEF BackendKnows, Continue
  <2> QED  BY <2>1, <2>2 DEF SavedLeadsOn
<1>6. CASE BackendUnknown(p)
  BY <1>6 DEF BackendUnknown, Continue, AnswersAgree, ScreenStays, SavedLeadsOn
<1>7. CASE Land(p)
  <2>1. account.registered
    BY <1>7 DEF Land, AnswersAgree
  <2>2. ScreenTypeOK' /\ AnswersAgree'
    BY <1>7 DEF Land, EndLogin, AnswersAgree
  <2>3. routes' = <<"dashboard">> \/ Excused'
    BY <1>7, <2>1 DEF Land, EndLogin, ScreenStays
  <2> QED  BY <2>2, <2>3 DEF ScreenStays, SavedLeadsOn
<1>8. CASE BackToSignIn(p)
  <2>1. ~account.registered /\ UNCHANGED <<account, signedIn>>
    BY <1>8 DEF BackToSignIn, EndLogin, AnswersAgree
  <2>2. ScreenTypeOK' /\ AnswersAgree'
    BY <1>8 DEF BackToSignIn, EndLogin, AnswersAgree
  <2> QED  BY <2>1, <2>2 DEF ScreenStays, SavedLeadsOn, AnswersAgree
<1> QED  BY <1>1, <1>2, <1>3, <1>4, <1>5, <1>6, <1>7, <1>8 DEF Progress

LEMMA CallsKeepScreen ==
  ASSUME ScreenInv, AutoLoginIsCompleted, NEW v \in Calls,
         \/ SendOTP(v) \/ Probed(v) \/ ProbeReturns(v)
         \/ Callback(v) \/ SecondFailure(v) \/ CodeAutoRetrievalTimeout(v)
  PROVE  ScreenInv'
<1>1. CASE VerificationCompleted(v)
  <2>1. CASE mounted
    <3>1. login[v] = "idle"
      BY <1>1 DEF VerificationCompleted, AutoLoginIsCompleted
    <3> QED  BY <1>1, <2>1, <3>1, LoginMoves DEF VerificationCompleted, Logins
  <2>2. CASE ~mounted
    BY <1>1, <2>2 DEF VerificationCompleted, ScreenInv, ScreenTypeOK, AnswersAgree,
                      ScreenStays, SavedLeadsOn, Excused
  <2> QED  BY <2>1, <2>2
<1>2. CASE ~VerificationCompleted(v)
  <2>1. UNCHANGED backend
    BY <1>2 DEF SendOTP, Probed, ProbeReturns, Callback, FirstFailure, VerifyThrows, CodeSent,
                SecondFailure, VerificationFailed, CodeAutoRetrievalTimeout
  <2> QED  BY <2>1 DEF backend, ScreenInv, ScreenTypeOK, AnswersAgree, ScreenStays,
                       SavedLeadsOn, Excused
<1> QED  BY <1>1, <1>2

LEMMA ScreenStep == ScreenInv /\ AutoLoginIsCompleted /\ [Next]_vars => ScreenInv'
<1> SUFFICES ASSUME ScreenInv, AutoLoginIsCompleted, [Next]_vars PROVE ScreenInv'
  OBVIOUS
<1> USE DEF ScreenInv, ScreenTypeOK, Excused
<1>1. CASE \E v \in Calls : \/ SendOTP(v) \/ Probed(v) \/ ProbeReturns(v)
                            \/ Callback(v) \/ SecondFailure(v) \/ CodeAutoRetrievalTimeout(v)
  BY <1>1, CallsKeepScreen
<1>2. CASE \E p \in Logins : SubmitOtp(p)
  BY <1>2, LoginMoves DEF SubmitOtp
<1>3. CASE \E p \in Logins : Progress(p)
  BY <1>3, ProgressKeepsScreen
<1>4. CASE Back
  <2>1. account'.left /\ ScreenTypeOK' /\ AnswersAgree'
    BY <1>4 DEF Back, AnswersAgree
  <2> QED  BY <2>1 DEF ScreenStays, SavedLeadsOn
<1>5. CASE Unmount
  <2>1. routes # <<"home", "signIn", "otp">>
    <3> SUFFICES ASSUME routes = <<"home", "signIn", "otp">> PROVE FALSE
      OBVIOUS
    <3>1. 3 \in 1..Len(routes) /\ routes[3] = "otp"
      OBVIOUS
    <3> QED  BY <1>5, <3>1 DEF Unmount
  <2> QED  BY <1>5, <2>1 DEF Unmount, AnswersAgree, ScreenStays, SavedLeadsOn
<1>6. CASE UNCHANGED vars
  BY <1>6 DEF vars, backend, AnswersAgree, ScreenStays, SavedLeadsOn
<1> QED  BY <1>1, <1>2, <1>3, <1>4, <1>5, <1>6 DEF Next

\* For any number of sent codes and submissions, a user whose data saveUserData has stored
\* ends up on the dashboard once no login runs, unless the screen was left or closed by a
\* failed login: no order of the automatic and the typed logins strands the user.
THEOREM SignedInReachesDashboard == Spec => []SignedInIsShown
<1>1. Spec => []Inv
  BY InitInv, NextInv, PTL DEF Spec
<1>2. Inv => AutoLoginIsCompleted
  BY DEF Inv
<1>3. ScreenInv => SignedInIsShown
  BY DEF ScreenInv, ScreenTypeOK, SavedLeadsOn, SignedInIsShown, Excused
<1> QED  BY <1>1, <1>2, <1>3, ScreenInit, ScreenStep, PTL DEF Spec

-----------------------------------------------------------------------------
(* The loader.                                                              *)

LEMMA CallsKeepLoader ==
  ASSUME CallTypeOK, LoaderIsWaiting, NEW v \in Calls,
         \/ SendOTP(v) \/ Probed(v) \/ ProbeReturns(v)
         \/ Callback(v) \/ SecondFailure(v) \/ CodeAutoRetrievalTimeout(v)
  PROVE  LoaderIsWaiting'
<1> USE DEF LoaderIsWaiting, CallTypeOK, backend
<1>1. CASE SendOTP(v) \/ ProbeReturns(v) \/ CodeAutoRetrievalTimeout(v)
  BY <1>1 DEF SendOTP, ProbeReturns, CodeAutoRetrievalTimeout
<1>2. CASE Probed(v)
  BY <1>2 DEF Probed
<1>3. CASE FirstFailure(v) \/ SecondFailure(v) \/ VerifyThrows(v) \/ CodeSent(v)
  <2>1. loader' = FALSE
    BY <1>3 DEF FirstFailure, SecondFailure, VerificationFailed, VerifyThrows, CodeSent
  <2> QED  BY <2>1
<1>4. CASE VerificationCompleted(v)
  BY <1>4 DEF VerificationCompleted, Logins
<1> QED  BY <1>1, <1>2, <1>3, <1>4 DEF Callback

LEMMA LoginsKeepLoader ==
  ASSUME CallTypeOK, LoaderIsWaiting, NEW p \in Logins, SubmitOtp(p) \/ Progress(p)
  PROVE  LoaderIsWaiting'
<1> USE DEF LoaderIsWaiting, CallTypeOK
<1>1. CASE SubmitOtp(p)
  BY <1>1 DEF SubmitOtp
<1>2. CASE CredentialAccepted(p)
  <2>1. CASE mounted
    BY <1>2, <2>1 DEF CredentialAccepted, Continue
  <2>2. CASE ~mounted
    BY <1>2, <2>2 DEF CredentialAccepted
  <2> QED  BY <2>1, <2>2
<1>3. CASE CredentialRejected(p) \/ BackendFails(p) \/ Land(p) \/ BackendUnknown(p)
  <2>1. loader' = FALSE
    BY <1>3 DEF CredentialRejected, BackendFails, Land, BackendUnknown
  <2> QED  BY <2>1
<1>4. CASE BackendTooLate(p)
  BY <1>4 DEF BackendTooLate
<1>5. CASE BackendKnows(p)
  BY <1>5 DEF BackendKnows, Continue
<1>6. CASE BackToSignIn(p)
  BY <1>6 DEF BackToSignIn, EndLogin
<1> QED  BY <1>1, <1>2, <1>3, <1>4, <1>5, <1>6 DEF Progress

LEMMA LoaderStep == Inv /\ LoaderIsWaiting /\ [Next]_vars => LoaderIsWaiting'
<1> SUFFICES ASSUME Inv, LoaderIsWaiting, [Next]_vars PROVE LoaderIsWaiting'
  OBVIOUS
<1>0. CallTypeOK
  BY DEF Inv
<1>1. CASE \E v \in Calls : \/ SendOTP(v) \/ Probed(v) \/ ProbeReturns(v)
                            \/ Callback(v) \/ SecondFailure(v) \/ CodeAutoRetrievalTimeout(v)
  BY <1>0, <1>1, CallsKeepLoader
<1>2. CASE \E p \in Logins : SubmitOtp(p) \/ Progress(p)
  BY <1>0, <1>2, LoginsKeepLoader
<1>3. CASE Back \/ Unmount \/ UNCHANGED vars
  BY <1>3 DEF Back, Unmount, vars, firebase, backend, LoaderIsWaiting
<1> QED  BY <1>1, <1>2, <1>3 DEF Next

\* For any number of sent codes and submissions, no order of callbacks and logins leaves the
\* loader on over a screen that waits for nothing.
THEOREM LoaderWaits == Spec => []LoaderIsWaiting
<1>1. Spec => []Inv
  BY InitInv, NextInv, PTL DEF Spec
<1>2. Init => LoaderIsWaiting
  BY DEF Init, LoaderIsWaiting
<1> QED  BY <1>1, <1>2, LoaderStep, PTL DEF Spec
=============================================================================
