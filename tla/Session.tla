------------------------------- MODULE Session -------------------------------
(***************************************************************************)
(* The signed-in session of the app and the HTTP layer that keeps it alive: *)
(* lib/network/network_utils.dart (bearer header, 401 -> silent login ->    *)
(* one resend), lib/network/rest_apis.dart (loginUser, saveUserData,        *)
(* clearPreferences, logout) and the session fields of lib/store/           *)
(* app_store.dart with their SharedPreferences copies.                      *)
(*                                                                         *)
(* Dart runs one isolate: code between two awaits is one step, and at every *)
(* await the other flows may run.  A flow is one such chain of awaits: a    *)
(* request started by a screen, a sign-in, or a sign-out.  Every setter of  *)
(* AppStore writes the memory field and its preference together, so store   *)
(* is both; a restart keeps it and loses every flow and every cache.        *)
(***************************************************************************)
EXTENDS Naturals

CONSTANTS Users,      \* accounts known to the backend
          Flows,      \* slots for concurrently running chains of awaits
          Requests,   \* kinds of request the screens send: see RequestKinds
          MaxTokens,  \* bound: tokens the backend issues
          MaxNest,    \* bound: silent logins nested inside one another
          None        \* empty string / 0 / no value

RequestKinds == {"bookingList", "bookingDetail", "userDetail"}

ASSUME RequestsAssumption == Requests \subseteq RequestKinds
ASSUME NoneAssumption == None \notin Users
ASSUME MaxTokensAssumption == MaxTokens \in Nat
ASSUME MaxNestAssumption == MaxNest \in Nat \ {0}

Token == [owner : Users, n : 1..MaxTokens]
NoToken == [owner |-> None, n |-> 0]

SignIns == {"login", "socialLogin"}
SignOuts == {"logout", "splash"}
Kinds == RequestKinds \cup SignIns \cup SignOuts \cup {"logoutApi"}

\* Where a flow is suspended (what it awaits), in the order of the code.
ClearPcs == {"clearLoggedIn", "clearUserId", "clearToken", "clearPassword"}
SavePcs == {"saveToken", "saveLoggedIn", "saveEmail", "savePassword"}
ReauthPcs == {"reauth", "reauthAgain"}
Pcs == {"idle", "sent", "refreshed", "logoutCheck"} \cup ReauthPcs \cup ClearPcs \cup SavePcs

VARIABLES store,   \* AppStore session fields and their preferences
          cached,  \* main.dart globals: whose data the list and detail caches hold
          flow,    \* the running chains of awaits
          valid,   \* backend: tokens it accepts
          issued,  \* backend: how many tokens it has issued
          outrun,  \* history: flows during whose run another flow changed the owner of
                   \* the stored token (or that were sent without a token of their user)
          setLate  \* history: isLoggedIn was last set by a save a sign-out had overtaken

vars == <<store, cached, flow, valid, issued, outrun, setLate>>

IdleFlow == [pc |-> "idle", kind |-> "logout", sends |-> 0, bearer |-> NoToken,
             user |-> None, account |-> None, nest |-> 0]

StoreType == [loggedIn : BOOLEAN, token : Token \cup {NoToken},
              userId : Users \cup {None}, userEmail : Users \cup {None},
              password : Users \cup {None}, remembered : BOOLEAN]

CachedType == [list : Users \cup {None}, details : SUBSET Users]

FlowType == [pc : Pcs, kind : Kinds, sends : 0..2,
             bearer : Token \cup {NoToken}, user : Users \cup {None},
             account : Users \cup {None}, nest : 0..MaxNest]

\* The session fields, the caches, the flows and the backend's tokens.
TypeOK ==
  /\ store \in StoreType
  /\ cached \in CachedType
  /\ flow \in [Flows -> FlowType]
  /\ valid \in SUBSET Token
  /\ issued \in 0..MaxTokens
  /\ outrun \in SUBSET Flows
  /\ setLate \in BOOLEAN

Init ==
  /\ store = [loggedIn |-> FALSE, token |-> NoToken, userId |-> None,
              userEmail |-> None, password |-> None, remembered |-> FALSE]
  /\ cached = [list |-> None, details |-> {}]
  /\ flow = [f \in Flows |-> IdleFlow]
  /\ valid = {}
  /\ issued = 0
  /\ outrun = {}
  /\ setLate = FALSE

Idle(f) == flow[f].pc = "idle"

(* The history variables, which no action reads.                            *)

SavesUser(f) == ~Idle(f) /\ flow[f].kind \in SignIns \cup {"userDetail"}

\* f replaces the stored token by t.
Outrun(f, t) ==
  {g \in Flows : IF g = f THEN t.owner # flow[f].user
                 ELSE SavesUser(g) /\ (g \in outrun \/ t.owner # store.token.owner)}

\* A save of f sets isLoggedIn although its token is gone or is about to be cleared.
Late(f) == f \in outrun \/ \E g \in Flows : flow[g].pc \in {"clearUserId", "clearToken"}

-----------------------------------------------------------------------------
(* Sending: buildHeaderTokens reads the store when the request is built.    *)

BearerHeader == IF store.loggedIn THEN store.token ELSE NoToken

\* A screen calls the API: buildHttpResponse up to its first await.
SendRequest(f, k) ==
  /\ Idle(f)
  /\ k \in Requests
  /\ k = "userDetail" => store.loggedIn
  /\ flow' = [flow EXCEPT ![f] = [IdleFlow EXCEPT !.pc = "sent", !.kind = k, !.sends = 1,
                                    !.bearer = BearerHeader, !.user = store.userId]]
  /\ outrun' = IF store.token # NoToken /\ store.token.owner = store.userId
               THEN outrun \ {f} ELSE outrun \cup {f}
  /\ UNCHANGED <<store, cached, valid, issued, setLate>>

\* The sign-in screen posts the typed (or social) credentials of u.  Its button tests
\* neither isLoading nor isLoggedIn: a second tap, or a tap while a sign-out or a late
\* save still runs, sends too.  The backend does not look at the bearer of a login.
SendLogin(f, k, u) ==
  /\ Idle(f)
  /\ k \in SignIns
  /\ flow' = [flow EXCEPT ![f] = [IdleFlow EXCEPT !.pc = "sent", !.kind = k,
                                    !.sends = 1, !.user = u]]
  /\ UNCHANGED <<store, cached, valid, issued, outrun, setLate>>

\* Second and last send, with retryOnUnauthorized: false and a header built anew.
Resend(f) ==
  /\ flow[f].pc = "refreshed"
  /\ flow' = [flow EXCEPT ![f] = [@ EXCEPT !.pc = "sent", !.sends = flow[f].sends + 1, !.bearer = BearerHeader]]
  /\ UNCHANGED <<store, cached, valid, issued, outrun, setLate>>

-----------------------------------------------------------------------------
(* clearPreferences: the caches and the e-mail go in the caller's own step, *)
(* then one awaited preference write after another.                         *)

ClearedCaches == [cached EXCEPT !.list = None]
ClearedEmail == IF store.remembered THEN store.userEmail ELSE None

\* Mutant: the flag is not reset.
ClearLoggedInForgets(f) ==
  /\ flow[f].pc = "clearLoggedIn"
  /\ flow' = [flow EXCEPT ![f].pc = "clearUserId"]
  /\ UNCHANGED <<store, cached, valid, issued, outrun, setLate>>

ClearLoggedIn(f) ==
  /\ flow[f].pc = "clearLoggedIn"
  /\ store' = [store EXCEPT !.loggedIn = FALSE]
  /\ flow' = [flow EXCEPT ![f].pc = "clearUserId"]
  /\ setLate' = FALSE
  /\ UNCHANGED <<cached, valid, issued, outrun>>

ClearUserId(f) ==
  /\ flow[f].pc = "clearUserId"
  /\ store' = [store EXCEPT !.userId = None]
  /\ flow' = [flow EXCEPT ![f].pc = "clearToken"]
  /\ UNCHANGED <<cached, valid, issued, outrun, setLate>>

ClearToken(f) ==
  /\ flow[f].pc = "clearToken"
  /\ store' = [store EXCEPT !.token = NoToken]
  /\ flow' = [flow EXCEPT ![f].pc = "clearPassword"]
  /\ outrun' = Outrun(f, NoToken)
  /\ UNCHANGED <<cached, valid, issued, setLate>>

ClearPassword(f) ==
  /\ flow[f].pc = "clearPassword"
  /\ store' = [store EXCEPT !.password = None]
  /\ flow' = [flow EXCEPT ![f] = IdleFlow]
  /\ UNCHANGED <<cached, valid, issued, outrun, setLate>>

\* "Yes" in the sign-out dialog, which tests nothing: isNetworkAvailable is awaited ...
LogoutTap(f) ==
  /\ Idle(f)
  /\ flow' = [flow EXCEPT ![f] = [IdleFlow EXCEPT !.pc = "logoutCheck", !.kind = "logout"]]
  /\ UNCHANGED <<store, cached, valid, issued, outrun, setLate>>

LogoutOffline(f) ==
  /\ flow[f].pc = "logoutCheck"
  /\ flow' = [flow EXCEPT ![f] = IdleFlow]
  /\ UNCHANGED <<store, cached, valid, issued, outrun, setLate>>

\* ... then the logout request g leaves with the old bearer, unawaited, and
\* clearPreferences starts in the same step.
Logout(f, g) ==
  /\ flow[f].pc = "logoutCheck"
  /\ Idle(g)
  /\ flow' = [flow EXCEPT
       ![g] = [IdleFlow EXCEPT !.pc = "sent", !.kind = "logoutApi", !.sends = 1,
                               !.bearer = BearerHeader],
       ![f].pc = "clearLoggedIn"]
  /\ cached' = ClearedCaches
  /\ store' = [store EXCEPT !.userEmail = ClearedEmail]
  /\ UNCHANGED <<valid, issued, outrun, setLate>>

\* The splash screen, shown again in the same process after a change of language,
\* finds in the fetched configuration that the signed-in user is not authorised.
SplashUnauthorized(f) ==
  /\ Idle(f)
  /\ store.loggedIn
  /\ flow' = [flow EXCEPT ![f] = [IdleFlow EXCEPT !.pc = "clearLoggedIn", !.kind = "splash"]]
  /\ cached' = ClearedCaches
  /\ store' = [store EXCEPT !.userEmail = ClearedEmail]
  /\ UNCHANGED <<valid, issued, outrun, setLate>>

-----------------------------------------------------------------------------
(* The backend accepts a login: every login yields a token of its own.      *)

NewToken(u) == [owner |-> u, n |-> issued + 1]
CanIssue(u) == u \in Users /\ issued < MaxTokens
Issue(u) ==
  /\ valid' = valid \cup {NewToken(u)}
  /\ issued' = issued + 1

-----------------------------------------------------------------------------
(* Answers with status 401, and reGenerateToken.                            *)

\* Mutant: retryOnUnauthorized is not switched off for the second send.
MayRetryAgain(f) == store.loggedIn

\* The condition of buildHttpResponse for a silent login and a resend.
MayRetry(f) == flow[f].sends = 1 /\ store.loggedIn

CanReauthenticate == store.userEmail # None /\ store.password # None

\* reGenerateToken up to its first await, nested d deep in f.
ReGenerateToken(f, d) ==
  \/ /\ CanReauthenticate
     /\ flow' = [flow EXCEPT ![f] = [@ EXCEPT !.pc = "reauth", !.nest = d, !.bearer = NoToken,
                                               !.account = store.userEmail]]
     /\ UNCHANGED <<store, cached>>
  \/ /\ ~CanReauthenticate
     /\ flow' = [flow EXCEPT ![f] = [IdleFlow EXCEPT !.pc = "clearLoggedIn", !.kind = flow[f].kind,
                                                     !.sends = flow[f].sends]]
     /\ cached' = ClearedCaches
     /\ store' = [store EXCEPT !.userEmail = ClearedEmail]

Unauthorized(f) ==
  /\ flow[f].pc = "sent"
  /\ flow[f].bearer \notin valid \/ flow[f].kind \in SignIns
  /\ \/ MayRetry(f) /\ ReGenerateToken(f, 1)
     \/ /\ ~MayRetry(f)
        /\ flow' = [flow EXCEPT ![f] = IdleFlow]
        /\ UNCHANGED <<store, cached>>
  /\ UNCHANGED <<valid, issued, outrun, setLate>>

\* The backend accepts the stored credentials: setToken, then the code goes one
\* level up: to the request itself, or to the login that was refused with 401
\* and is now sent again without a further retry.
ReauthAccepted(f) ==
  /\ flow[f].pc \in ReauthPcs
  /\ CanIssue(flow[f].account)
  /\ Issue(flow[f].account)
  /\ store' = [store EXCEPT !.token = NewToken(flow[f].account)]
  /\ flow' = IF flow[f].nest = 1
             THEN [flow EXCEPT ![f] = [@ EXCEPT !.pc = "refreshed", !.nest = 0,
                                                            !.account = None]]
             ELSE [flow EXCEPT ![f] = [@ EXCEPT !.pc = "reauthAgain", !.nest = flow[f].nest - 1]]
  /\ outrun' = Outrun(f, NewToken(flow[f].account))
  /\ UNCHANGED <<cached, setLate>>

\* loginUser goes through buildHttpResponse itself: a login refused with 401
\* while the app is signed in calls reGenerateToken once more.
ReauthUnauthorized(f) ==
  /\ \/ /\ flow[f].pc = "reauth"
        /\ store.loggedIn
        /\ flow[f].nest < MaxNest
        /\ ReGenerateToken(f, flow[f].nest + 1)
     \/ /\ flow[f].pc = "reauthAgain" \/ (flow[f].pc = "reauth" /\ ~store.loggedIn)
        /\ flow' = [flow EXCEPT ![f] = IdleFlow]
        /\ UNCHANGED <<store, cached>>
  /\ UNCHANGED <<valid, issued, outrun, setLate>>

\* Any other answer, or no answer, makes the call throw: the session stays.
Throws(f) ==
  /\ flow[f].pc \in {"sent"} \cup ReauthPcs
  /\ flow' = [flow EXCEPT ![f] = IdleFlow]
  /\ UNCHANGED <<store, cached, valid, issued, outrun, setLate>>

-----------------------------------------------------------------------------
(* Successful answers.                                                      *)

Accepted(f, k) == flow[f].pc = "sent" /\ flow[f].kind = k /\ flow[f].bearer \in valid

\* getBookingList and getBookingDetail store what they got in a global cache.
BookingAnswer(f) ==
  /\ Accepted(f, flow[f].kind)
  /\ flow[f].kind \in {"bookingList", "bookingDetail"}
  /\ cached' = IF flow[f].kind = "bookingList"
               THEN [cached EXCEPT !.list = flow[f].bearer.owner]
               ELSE [cached EXCEPT !.details = @ \cup {flow[f].bearer.owner}]
  /\ flow' = [flow EXCEPT ![f] = IdleFlow]
  /\ UNCHANGED <<store, valid, issued, outrun, setLate>>

\* The backend revokes the bearer; the app ignores the answer.
LogoutAnswer(f) ==
  /\ Accepted(f, "logoutApi")
  /\ valid' = valid \ {flow[f].bearer}
  /\ flow' = [flow EXCEPT ![f] = IdleFlow]
  /\ UNCHANGED <<store, cached, issued, outrun, setLate>>

\* Profile tab: user-detail answers, with or without an api_token, and
\* userDetailAPI goes on to saveUserData.
UserDetailAnswer(f) ==
  /\ Accepted(f, "userDetail")
  /\ flow[f].user # None
  /\ \E t \in {NoToken, flow[f].bearer} :
       flow' = [flow EXCEPT ![f] = [@ EXCEPT !.pc = "saveToken", !.bearer = t]]
  /\ UNCHANGED <<store, cached, valid, issued, outrun, setLate>>

\* A sign-in is accepted, whatever the app has done meanwhile: saveUserData up to the
\* await of setToken.
LoginAnswer(f) ==
  /\ flow[f].pc = "sent"
  /\ flow[f].kind \in SignIns
  /\ CanIssue(flow[f].user)
  /\ Issue(flow[f].user)
  /\ store' = [store EXCEPT !.token = NewToken(flow[f].user)]
  /\ flow' = [flow EXCEPT ![f] = [@ EXCEPT !.pc = "saveLoggedIn", !.bearer = NoToken]]
  /\ outrun' = Outrun(f, NewToken(flow[f].user))
  /\ UNCHANGED <<cached, setLate>>

-----------------------------------------------------------------------------
(* saveUserData, and what the sign-in screen stores after it.               *)

SaveToken(f) ==
  /\ flow[f].pc = "saveToken"
  /\ store' = [store EXCEPT !.token = IF flow[f].bearer = NoToken THEN @ ELSE flow[f].bearer]
  /\ flow' = [flow EXCEPT ![f] = [@ EXCEPT !.pc = "saveLoggedIn", !.bearer = NoToken]]
  /\ outrun' = IF flow[f].bearer = NoToken THEN outrun ELSE Outrun(f, flow[f].bearer)
  /\ UNCHANGED <<cached, valid, issued, setLate>>

\* Mutant: the id of the account is not stored.
SaveLoggedInOnly(f) ==
  /\ flow[f].pc = "saveLoggedIn"
  /\ store' = [store EXCEPT !.loggedIn = TRUE]
  /\ flow' = [flow EXCEPT ![f].pc = "saveEmail"]
  /\ setLate' = Late(f)
  /\ UNCHANGED <<cached, valid, issued, outrun>>

\* setLoggedIn is not awaited: setUserId follows in the same step.
SaveLoggedIn(f) ==
  /\ flow[f].pc = "saveLoggedIn"
  /\ store' = [store EXCEPT !.loggedIn = TRUE, !.userId = flow[f].user]
  /\ flow' = [flow EXCEPT ![f].pc = "saveEmail"]
  /\ setLate' = Late(f)
  /\ UNCHANGED <<cached, valid, issued, outrun>>

SaveEmail(f) ==
  /\ flow[f].pc = "saveEmail"
  /\ store' = [store EXCEPT !.userEmail = flow[f].user]
  /\ flow' = IF flow[f].kind = "login" THEN [flow EXCEPT ![f].pc = "savePassword"]
             ELSE [flow EXCEPT ![f] = IdleFlow]
  /\ UNCHANGED <<cached, valid, issued, outrun, setLate>>

\* _handleLoginUsers keeps the password and the "remember me" choice r.
SavePassword(f, r) ==
  /\ flow[f].pc = "savePassword"
  /\ store' = [store EXCEPT !.password = flow[f].user, !.remembered = r]
  /\ flow' = [flow EXCEPT ![f] = IdleFlow]
  /\ UNCHANGED <<cached, valid, issued, outrun, setLate>>

-----------------------------------------------------------------------------
(* Environment.                                                             *)

\* The backend stops accepting a token (expiry, password change, other device).
ExpireToken(t) ==
  /\ t \in valid
  /\ valid' = valid \ {t}
  /\ UNCHANGED <<store, cached, flow, issued, outrun, setLate>>

LoseFlows ==
  /\ flow' = [f \in Flows |-> IdleFlow]
  /\ cached' = [list |-> None, details |-> {}]
  /\ outrun' = {}
  /\ UNCHANGED <<valid, issued>>

\* The process is killed and started again between two awaited writes ...
Restart == LoseFlows /\ UNCHANGED <<store, setLate>>

\* ... or after the write of IS_LOGGED_IN and before the one of USER_ID, which
\* saveUserData issues without awaiting the first.
RestartInSave(f) ==
  /\ flow[f].pc = "saveLoggedIn"
  /\ store' = [store EXCEPT !.loggedIn = TRUE]
  /\ setLate' = Late(f)
  /\ LoseFlows

FlowStep(f) ==
  \/ Resend(f)
  \/ LogoutOffline(f)
  \/ ClearLoggedIn(f)
  \/ ClearUserId(f)
  \/ ClearToken(f)
  \/ ClearPassword(f)
  \/ Unauthorized(f)
  \/ ReauthAccepted(f)
  \/ ReauthUnauthorized(f)
  \/ Throws(f)
  \/ BookingAnswer(f)
  \/ LogoutAnswer(f)
  \/ UserDetailAnswer(f)
  \/ LoginAnswer(f)
  \/ SaveToken(f)
  \/ SaveLoggedIn(f)
  \/ SaveEmail(f)
  \/ \E r \in BOOLEAN : SavePassword(f, r)

Next ==
  \/ \E f \in Flows : FlowStep(f)
  \/ \E f \in Flows, k \in Requests : SendRequest(f, k)
  \/ \E f \in Flows, k \in SignIns, u \in Users : SendLogin(f, k, u)
  \/ \E f \in Flows : LogoutTap(f) \/ SplashUnauthorized(f)
  \/ \E f, g \in Flows : Logout(f, g)
  \/ \E t \in Token : ExpireToken(t)
  \/ Restart
  \/ \E f \in Flows : RestartInSave(f)

Spec == Init /\ [][Next]_vars

-----------------------------------------------------------------------------
(* Properties.                                                              *)

\* Signed in means there is a token to send, whatever interleaving of sign-ins, sign-outs,
\* profile openings, expired sessions, silent logins and restarts (saveUserData writes the
\* token first, clearPreferences resets the flag first), with one cause of the contrary:
\* setLoggedIn(true) of a save that a sign-out has overtaken, by having cleared the token
\* since the save began or by standing between setLoggedIn(false) and setToken('').
LoggedInHasToken == store.loggedIn => store.token # NoToken \/ setLate

\* The account signed in is the owner of the token it sends.
OwnToken == store.loggedIn => store.token.owner = store.userId

\* The account signed in keeps sending its own token until one of these happens: setToken of
\* reGenerateToken ends a silent login begun for another account (nothing ties its answer to
\* the session that asked); a sign-in is answered while another account is signed in; a
\* sign-in or a user-detail answer goes on saving although the session changed under it; a
\* clearing goes on although an overtaken save has set the flag again; or the process dies
\* in saveUserData between the flag and the id.
ForeignTokenHasCause ==
  [][OwnToken /\ ~OwnToken' =>
       \E f \in Flows :
         /\ flow'[f] # flow[f]
         /\ \/ flow[f].pc \in ReauthPcs /\ flow[f].account # store.userId
            \/ flow[f].pc = "sent" /\ flow[f].kind \in SignIns /\ flow[f].user # store.userId
            \/ flow[f].pc \in {"saveToken", "saveLoggedIn"} /\ f \in outrun
            \/ flow[f].pc \in {"clearUserId", "clearToken"} /\ setLate
            \/ RestartInSave(f)]_vars

\* A silent login belongs to the first send of its call, and an idle slot has sent nothing.
RetryOfFirstSend ==
  \A f \in Flows :
    /\ flow[f].pc \in ReauthPcs \cup {"refreshed"} => flow[f].sends = 1
    /\ flow[f].pc \in ReauthPcs => flow[f].nest > 0
    /\ Idle(f) => flow[f].sends = 0

\* Why these two hold, as an inductive invariant.  A clearing that has reset the flag finds
\* it set again only by a late save ...
ClearedFlagFirst ==
  store.loggedIn /\ (\E f \in Flows : flow[f].pc \in {"clearUserId", "clearToken"}) => setLate

\* ... only user-detail answers and sign-ins are saved ...
SaveIsKnown(f) ==
  /\ flow[f].pc = "saveToken" => flow[f].kind = "userDetail"
  /\ flow[f].pc = "saveLoggedIn" => flow[f].kind \in SignIns \cup {"userDetail"}

SavesAreKnown == \A f \in Flows : SaveIsKnown(f)

\* ... and a flow under which the session did not change still finds its user's token:
\* a user-detail call from its sending on, a sign-in from its answer on.
HasOwnToken(f) ==
  \/ flow[f].kind = "userDetail" /\ ~Idle(f) /\ flow[f].pc \notin ClearPcs
  \/ flow[f].pc = "saveLoggedIn"
  => /\ flow[f].user \in Users
     /\ store.token.owner = flow[f].user
     /\ flow[f].kind = "userDetail" /\ flow[f].pc \in {"sent", "saveToken"}
        => flow[f].bearer = NoToken \/ flow[f].bearer.owner = flow[f].user

UndisturbedOwnToken == \A f \in Flows \ outrun : HasOwnToken(f)

SessionInv ==
  /\ LoggedInHasToken
  /\ ClearedFlagFirst
  /\ SavesAreKnown
  /\ UndisturbedOwnToken

\* network_utils.dart:177, "If we cannot re-authenticate silently, clear stale
\* session and stop retry loop": one silent login per call, never one inside another.
SilentLoginDoesNotNest == \A f \in Flows : flow[f].nest <= 1

\* splash_screen.dart:151, "Check if the user is unauthorized and logged in, then
\* clear preferences and cached data": when the clearing that the splash screen
\* started ends, no user's booking is left in a cache.
UnauthorizedLeavesNoCache ==
  [][\A f \in Flows :
       /\ flow[f].pc = "clearPassword" /\ flow[f].kind = "splash" /\ flow'[f].pc = "idle"
       => cached'.details = {}]_vars

\* The call that a flow makes, as the contract of buildHttpResponse sees it.
Phase(f) ==
  CASE flow[f].pc = "idle" -> "none"
    [] flow[f].pc = "sent" -> "waiting"
    [] flow[f].pc \in ReauthPcs -> "refreshing"
    [] flow[f].pc = "refreshed" -> "refreshed"
    [] OTHER -> "settling"

Contract == INSTANCE HttpContract
              WITH Calls <- Flows,
                   phase <- [f \in Flows |-> Phase(f)],
                   sends <- [f \in Flows |-> flow[f].sends]

\* Every call of the HTTP layer keeps the contract of HttpContract: it is sent once,
\* and once more only after a silent login of its own succeeded.
SendsAtMostTwice == Contract!Spec
=============================================================================
