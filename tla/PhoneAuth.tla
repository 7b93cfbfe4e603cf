------------------------------ MODULE PhoneAuth ------------------------------
(***************************************************************************)
(* Signing in with a code sent to a phone (lib/screens/auth/                 *)
(* otp_login_screen.dart): sendOTP with the callbacks of Firebase's          *)
(* verifyPhoneNumber, the code typed by the user, and the login at the       *)
(* backend that both the typed code and Android's automatic verification     *)
(* lead to (_completeBackendOtpLogin).                                       *)
(***************************************************************************)
EXTENDS Naturals, Sequences

CONSTANTS Calls,  \* taps on "send", each with its own verifyPhoneNumber
          Taps    \* submissions of a typed code

\* Each automatic verification and each typed code is a login of its own.
Logins == Calls \cup Taps
ASSUME LoginsAssumption == Calls \cap Taps = {}

VARIABLES call,       \* how far each tap on "send" has come
          shown,      \* error messages the user has seen of each call
          login,      \* how far each login has come
          inFlight,   \* _otpVerifyInFlight
          lastFailure,\* _lastOtpVerificationFailureCode, within the five seconds
          isCodeSent, \* the screen asks for the code instead of the number
          loader,     \* appStore.isLoading
          mounted,    \* the screen's State is mounted
          routes,     \* the navigator
          signedIn,   \* saveUserData has run
          account,    \* the backend's answer to this number, and whether the user went back
          failedLogin \* history: a login has failed at the backend and closed the screen

firebase == <<call, shown, inFlight, lastFailure, isCodeSent>>
backend == <<login, mounted, routes, signedIn, account, failedLogin>>
vars == <<firebase, loader, backend>>

TypeOK ==
  /\ call \in [Calls -> {"unused", "probing", "refused", "pending",
                         "failed", "ended", "codeSent", "completed"}]
  /\ shown \in [Calls -> 0..2]
  /\ login \in [Logins -> {"idle", "credential", "backend", "saving", "signingOut", "done"}]
  /\ inFlight \in BOOLEAN /\ isCodeSent \in BOOLEAN /\ loader \in BOOLEAN
  /\ lastFailure \in {"none", "rate", "internal", "other"}
  /\ mounted \in BOOLEAN /\ signedIn \in BOOLEAN /\ failedLogin \in BOOLEAN
  /\ account \in [registered : BOOLEAN, left : BOOLEAN]

Init ==
  /\ call = [v \in Calls |-> "unused"]
  /\ shown = [v \in Calls |-> 0]
  /\ login = [p \in Logins |-> "idle"]
  /\ inFlight = FALSE /\ lastFailure = "none" /\ isCodeSent = FALSE
  /\ loader = FALSE
  /\ mounted = TRUE
  /\ routes = <<"home", "signIn", "otp">>
  /\ signedIn = FALSE
  /\ account \in [registered : BOOLEAN, left : {FALSE}]
  /\ failedLogin = FALSE

OnTop(r) == routes[Len(routes)] = r
Popped == IF Len(routes) > 1 THEN SubSeq(routes, 1, Len(routes) - 1) ELSE routes

-----------------------------------------------------------------------------
(* sendOTP.                                                                 *)

\* A valid number: canReachIdentityToolkitHost is awaited.
SendOTP(v) ==
  /\ call[v] = "unused"
  /\ OnTop("otp") /\ ~isCodeSent
  /\ call' = [call EXCEPT ![v] = "probing"]
  /\ UNCHANGED <<shown, inFlight, lastFailure, isCodeSent, loader, backend>>

\* Mutant: the flag is not looked at again after the host has answered.
ProbedUnguarded(v) ==
  /\ call[v] = "probing"
  /\ call' = [call EXCEPT ![v] = "pending"]
  /\ inFlight' = TRUE /\ lastFailure' = "none" /\ loader' = TRUE
  /\ UNCHANGED <<shown, isCodeSent, backend>>

\* The host answers: verifyPhoneNumber is called, unless one is in flight.
Probed(v) ==
  /\ call[v] = "probing" /\ ~inFlight
  /\ call' = [call EXCEPT ![v] = "pending"]
  /\ inFlight' = TRUE /\ lastFailure' = "none" /\ loader' = TRUE
  /\ UNCHANGED <<shown, isCodeSent, backend>>

\* The host is out of reach, or a verification is in flight.
ProbeReturns(v) ==
  /\ call[v] = "probing"
  /\ call' = [call EXCEPT ![v] = "refused"]
  /\ UNCHANGED <<shown, inFlight, lastFailure, isCodeSent, loader, backend>>

-----------------------------------------------------------------------------
(* The callbacks of verifyPhoneNumber.                                      *)

\* shouldSuppressRedundantPhoneAuthFailure.
Redundant(code) == code = "internal" /\ lastFailure \in {"rate", "internal"}

VerificationFailed(v, code) ==
  /\ loader' = FALSE /\ inFlight' = FALSE
  /\ IF Redundant(code)
     THEN UNCHANGED <<lastFailure, shown>>
     ELSE lastFailure' = code /\ shown' = [shown EXCEPT ![v] = @ + 1]
  /\ UNCHANGED <<isCodeSent, backend>>

FirstFailure(v) ==
  /\ call[v] = "pending"
  /\ \E code \in {"rate", "internal", "other"} :
       /\ VerificationFailed(v, code)
       /\ call' = [call EXCEPT ![v] = IF code = "other" THEN "ended" ELSE "failed"]

\* After a rate limit or an internal error Firebase sometimes reports the same call a
\* second time, right after and as an internal error.
SecondFailure(v) ==
  /\ call[v] = "failed"
  /\ VerificationFailed(v, "internal")
  /\ call' = [call EXCEPT ![v] = "ended"]

\* verifyPhoneNumber itself throws.
VerifyThrows(v) ==
  /\ call[v] = "pending"
  /\ call' = [call EXCEPT ![v] = "ended"]
  /\ inFlight' = FALSE /\ loader' = FALSE
  /\ shown' = [shown EXCEPT ![v] = @ + 1]
  /\ UNCHANGED <<lastFailure, isCodeSent, backend>>

CodeSent(v) ==
  /\ call[v] = "pending"
  /\ call' = [call EXCEPT ![v] = "codeSent"]
  /\ inFlight' = FALSE /\ loader' = FALSE /\ isCodeSent' = TRUE
  /\ UNCHANGED <<shown, lastFailure, backend>>

\* The code can be typed although it was never reported as sent; flag and loader stay.
CodeAutoRetrievalTimeout(v) ==
  /\ call[v] = "pending" /\ ~isCodeSent
  /\ isCodeSent' = TRUE
  /\ UNCHANGED <<call, shown, inFlight, lastFailure, loader, backend>>

\* Android has read the message: a login starts by itself, if the screen is mounted.
VerificationCompleted(v) ==
  /\ call[v] \in {"pending", "codeSent"}
  /\ call' = [call EXCEPT ![v] = "completed"]
  /\ IF mounted THEN loader' = TRUE /\ login' = [login EXCEPT ![v] = "credential"]
                ELSE UNCHANGED <<loader, login>>
  /\ UNCHANGED <<shown, inFlight, lastFailure, isCodeSent,
                 mounted, routes, signedIn, account, failedLogin>>

-----------------------------------------------------------------------------
(* A login: submitOtp, signInWithCredential, _completeBackendOtpLogin.      *)

\* onCompleted of the text field and the confirm button; nothing guards the second.
SubmitOtp(p) ==
  /\ p \in Taps /\ login[p] = "idle"
  /\ OnTop("otp") /\ isCodeSent
  /\ login' = [login EXCEPT ![p] = "credential"]
  /\ loader' = TRUE
  /\ UNCHANGED <<firebase, mounted, routes, signedIn, account, failedLogin>>

\* The last line of a login; of an automatic one it includes `finally`.
EndLogin(p) ==
  /\ login' = [login EXCEPT ![p] = "done"]
  /\ inFlight' = (inFlight /\ p \in Taps)
  /\ UNCHANGED <<call, shown, lastFailure, isCodeSent, account>>

Continue(p, to) ==
  /\ login' = [login EXCEPT ![p] = to]
  /\ UNCHANGED <<firebase, account>>

\* Firebase accepts the credential; a screen that is gone ends the login here.
CredentialAccepted(p) ==
  /\ login[p] = "credential"
  /\ IF mounted THEN Continue(p, "backend") ELSE EndLogin(p)
  /\ UNCHANGED <<loader, mounted, routes, signedIn, failedLogin>>

\* Mutant: only a typed code's rejection resets the loader.
CredentialRejectedQuietly(p) ==
  /\ login[p] = "credential"
  /\ EndLogin(p)
  /\ loader' = (loader /\ p \in Calls)
  /\ UNCHANGED <<mounted, routes, signedIn, failedLogin>>

CredentialRejected(p) ==
  /\ login[p] = "credential"
  /\ EndLogin(p)
  /\ loader' = FALSE
  /\ UNCHANGED <<mounted, routes, signedIn, failedLogin>>

\* social-login fails or refuses the account: the screen is closed.
BackendFails(p) ==
  /\ login[p] = "backend"
  /\ EndLogin(p)
  /\ loader' = FALSE
  /\ routes' = IF mounted THEN Popped ELSE routes
  /\ failedLogin' = (failedLogin \/ mounted)
  /\ UNCHANGED <<mounted, signedIn>>

\* social-login answers after the screen has gone.
BackendTooLate(p) ==
  /\ login[p] = "backend" /\ ~mounted
  /\ EndLogin(p)
  /\ UNCHANGED <<loader, mounted, routes, signedIn, failedLogin>>

BackendKnows(p) ==
  /\ login[p] = "backend" /\ mounted /\ account.registered
  /\ Continue(p, "saving")
  /\ signedIn' = TRUE
  /\ UNCHANGED <<loader, mounted, routes, failedLogin>>

\* Mutant: the dashboard is launched only if nobody has reset the loader meanwhile.
LandIfLoading(p) ==
  /\ login[p] = "saving"
  /\ EndLogin(p)
  /\ loader' = FALSE
  /\ routes' = IF mounted /\ loader THEN <<"dashboard">> ELSE routes
  /\ UNCHANGED <<mounted, signedIn, failedLogin>>

\* saveUserData and setLoginType have ended: the dashboard replaces every route.
Land(p) ==
  /\ login[p] = "saving"
  /\ EndLogin(p)
  /\ loader' = FALSE
  /\ routes' = IF mounted THEN <<"dashboard">> ELSE routes
  /\ UNCHANGED <<mounted, signedIn, failedLogin>>

BackendUnknown(p) ==
  /\ login[p] = "backend" /\ mounted /\ ~account.registered
  /\ Continue(p, "signingOut")
  /\ loader' = FALSE
  /\ UNCHANGED <<mounted, routes, signedIn, failedLogin>>

\* FirebaseAuth.signOut has ended, or failed: the sign-in screen replaces every route.
BackToSignIn(p) ==
  /\ login[p] = "signingOut"
  /\ EndLogin(p)
  /\ routes' = IF mounted THEN <<"signIn">> ELSE routes
  /\ UNCHANGED <<loader, mounted, signedIn, failedLogin>>

-----------------------------------------------------------------------------
(* The screen.                                                              *)

Back ==
  /\ OnTop("otp")
  /\ routes' = Popped
  /\ account' = [account EXCEPT !.left = TRUE]
  /\ UNCHANGED <<firebase, loader, login, mounted, signedIn, failedLogin>>

\* The route's animation has ended: dispose.
Unmount ==
  /\ mounted /\ \A i \in 1..Len(routes) : routes[i] # "otp"
  /\ mounted' = FALSE
  /\ UNCHANGED <<firebase, loader, login, routes, signedIn, account, failedLogin>>

Callback(v) ==
  \/ FirstFailure(v) \/ VerifyThrows(v) \/ CodeSent(v) \/ VerificationCompleted(v)

Progress(p) ==
  \/ CredentialAccepted(p) \/ CredentialRejected(p)
  \/ BackendFails(p) \/ BackendTooLate(p) \/ BackendKnows(p) \/ BackendUnknown(p)
  \/ Land(p) \/ BackToSignIn(p)

Next ==
  \/ \E v \in Calls : \/ SendOTP(v) \/ Probed(v) \/ ProbeReturns(v)
                      \/ Callback(v) \/ SecondFailure(v) \/ CodeAutoRetrievalTimeout(v)
  \/ \E p \in Logins : SubmitOtp(p) \/ Progress(p)
  \/ Back \/ Unmount

Spec == Init /\ [][Next]_vars

-----------------------------------------------------------------------------
(* Properties.                                                              *)

HasCalledBack(v) == call[v] \in {"failed", "ended", "codeSent", "completed"}

\* Two verifications run at once, neither having called back, only after a third one has:
\* a second failure report or the end of an automatic login takes the flag of a later call
\* down.  The guard itself cannot be passed twice, though a request lies between the tap
\* and the guard.
OneVerificationAtATime ==
  \A u, v \in Calls :
    u # v /\ call[u] = "pending" /\ call[v] = "pending" =>
      \E w \in Calls \ {u, v} : HasCalledBack(w)

\* A user whose data has been saved gets to the dashboard, whichever of the automatic and
\* the typed login gets there first, unless the screen was left or closed by a failed login.
SignedInIsShown ==
  signedIn /\ (\A p \in Logins : login[p] \in {"idle", "done"}) =>
    routes = <<"dashboard">> \/ account.left \/ failedLogin

\* On a screen that is there, the loader turns only while something can still take it off: a
\* verification that has not called back, or a login that waits for Firebase or the backend.
\* Automatic and typed logins and repeated callbacks share the one flag, yet none that ends
\* leaves it on behind itself.  (Nothing bounds the wait: social-login has no timeout, and
\* after codeAutoRetrievalTimeout Firebase may never call back.)
LoaderIsWaiting ==
  loader /\ mounted =>
    \/ \E v \in Calls : call[v] = "pending"
    \/ \E p \in Logins : login[p] \in {"credential", "backend", "saving"}

\* firebase_auth_phone_utils.dart:142, "Suppress the extra snackbar so the user sees one
\* clear message.", for two failures of one verifyPhoneNumber call.
OneClearMessage == \A v \in Calls : shown[v] <= 1
=============================================================================
