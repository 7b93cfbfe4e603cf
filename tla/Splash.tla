------------------------------- MODULE Splash -------------------------------
(***************************************************************************)
(* The start of the app: lib/screens/splash_screen.dart fetches the          *)
(* configuration with retries and timeouts, watches for an answer that comes *)
(* too late, and leaves for the first real screen.  Two chains of awaits can *)
(* leave: init() and the periodic watcher.  Future.timeout does not cancel   *)
(* the request, so every timed-out fetch may still answer, at any time, also *)
(* after the splash screen is gone.                                          *)
(*                                                                           *)
(* prefs are preferences (and their copies in the stores): they survive a    *)
(* kill of the process.  Of a configuration answer only what this screen     *)
(* reads is kept: whether the user is authorised, when the answer came, and  *)
(* that there was one.                                                       *)
(*                                                                           *)
(* The reload button is what the last frame shows: until the next one it can *)
(* be tapped again, and then two init() run at a time, also after dispose(). *)
(***************************************************************************)
EXTENDS Naturals

CONSTANTS MaxAttempts,  \* _configFetchMaxAttempts, 3 in the code
          MaxTicks,     \* maxTicks of the watcher, 60 in the code
          MaxStarts,    \* bound: how often the splash screen is shown
          Inits,        \* bound: calls of init() under way at a time
          MaxAgain      \* bound: taps on a button that the next frame would not show

ASSUME MaxAttemptsAssumption == MaxAttempts \in Nat \ {0}
ASSUME MaxTicksAssumption == MaxTicks \in Nat \ {0}
ASSUME MaxStartsAssumption == MaxStarts \in Nat \ {0}
ASSUME InitsAssumption == Inits # {}
ASSUME MaxAgainAssumption == MaxAgain \in Nat

VARIABLES prefs,    \* stored flags
          splash,   \* fields of _SplashScreenState, and what the last frame shows
          init,     \* each call of init(): where it is suspended
          loading,  \* appStore.isLoading
          leaving,  \* how many _navigateFromSplashAfterConfig await clearPreferences,
                    \* of this splash screen and of disposed ones
          launches, \* routes launched by this splash screen
          late,     \* unawaited or timed-out fetches: was the app signed in when sent?
          active,   \* backend: the admin has not marked the user as inactive
          starts,   \* how often the splash screen was shown
          again     \* history: taps on a button that the next frame would not show

vars == <<prefs, splash, init, loading, leaving, launches, late, active, starts, again>>

\* Where init() is suspended; "idle": it has returned.
Running == {"language", "fetching", "backoff", "failed", "fetched"}

PrefsType == [synced : BOOLEAN, fresh : BOOLEAN, authorized : BOOLEAN, loggedIn : BOOLEAN]
SplashType == [mounted : BOOLEAN, appNotSynced : BOOLEAN, button : BOOLEAN,
               watching : BOOLEAN, ticks : 0..MaxTicks]
InitType == [pc : Running \cup {"idle"}, attempt : 0..MaxAttempts, req : BOOLEAN,
             disposed : BOOLEAN]

\* The stored flags, the splash screen's fields and the fetches still under way.
TypeOK ==
  /\ prefs \in PrefsType
  /\ splash \in SplashType
  /\ init \in [Inits -> InitType]
  /\ loading \in BOOLEAN
  /\ leaving \in [own : Nat, old : Nat]
  /\ launches \in Nat
  /\ late \in SUBSET BOOLEAN
  /\ active \in BOOLEAN
  /\ starts \in 1..MaxStarts
  /\ again \in 0..MaxAgain

NewSplash == [mounted |-> TRUE, appNotSynced |-> FALSE, button |-> FALSE,
              watching |-> FALSE, ticks |-> 0]
NoInit == [pc |-> "idle", attempt |-> 0, req |-> FALSE, disposed |-> FALSE]
NewInit == [pc |-> "language", attempt |-> 0, req |-> FALSE, disposed |-> FALSE]
First == CHOOSE i \in Inits : TRUE
Alone(i) == [j \in Inits |-> IF j = i THEN NewInit ELSE NoInit]

\* First start after the installation.
Init ==
  /\ prefs = [synced |-> FALSE, fresh |-> FALSE, authorized |-> FALSE, loggedIn |-> FALSE]
  /\ splash = NewSplash
  /\ init = Alone(First)
  /\ loading = FALSE
  /\ leaving = [own |-> 0, old |-> 0]
  /\ launches = 0
  /\ late = {}
  /\ active = TRUE
  /\ starts = 1
  /\ again = 0

Mounted == splash.mounted
Launched == launches > 0
IsRunning(i) == init[i].pc # "idle"

\* What build shows; a launched route covers it before the screen is disposed.
ReloadDue == Mounted /\ ~Launched /\ splash.appNotSynced /\ ~loading
ReloadShown == splash.button /\ ReloadDue

-----------------------------------------------------------------------------
(* The configuration.                                                       *)

\* The end of setAppConfigurations for an answer to a request sent signed in or not.
\* For a request without a user the answer may leave is_user_authorized out: false.
Answers(signedIn) == IF signedIn THEN {active} ELSE BOOLEAN
SetAppConfigurations(a) ==
  prefs' = [prefs EXCEPT !.authorized = a, !.fresh = TRUE, !.synced = TRUE]

\* A straggler answers.  Several of one kind may be under way: it stays or goes.
LateAnswer(r) ==
  /\ r \in late
  /\ \E a \in Answers(r) : SetAppConfigurations(a)
  /\ late' \in {late, late \ {r}}
  /\ UNCHANGED <<splash, init, loading, leaving, launches, active, starts, again>>

LateFailure(r) ==
  /\ r \in late
  /\ late' = late \ {r}
  /\ UNCHANGED <<prefs, splash, init, loading, leaving, launches, active, starts, again>>

\* Five minutes after LAST_APP_CONFIGURATION_SYNCED_TIME.
SyncExpires ==
  /\ prefs.fresh
  /\ prefs' = [prefs EXCEPT !.fresh = FALSE]
  /\ UNCHANGED <<splash, init, loading, leaving, launches, late, active, starts, again>>

-----------------------------------------------------------------------------
(* init() and _fetchAppConfigurationsWithRetries.                           *)

\* The next attempt: skipped when the last sync is recent.
Attempt(i) ==
  /\ init[i].pc \in {"language", "backoff"}
  /\ init' = [init EXCEPT ![i].pc = IF prefs.fresh THEN "fetched" ELSE "fetching",
                          ![i].attempt = @ + 1,
                          ![i].req = ~prefs.fresh /\ prefs.loggedIn]
  /\ UNCHANGED <<prefs, splash, loading, leaving, launches, late, active, starts, again>>

FetchAnswer(i) ==
  /\ init[i].pc = "fetching"
  /\ \E a \in Answers(init[i].req) : SetAppConfigurations(a)
  /\ init' = [init EXCEPT ![i].pc = "fetched", ![i].req = FALSE]
  /\ UNCHANGED <<splash, loading, leaving, launches, late, active, starts, again>>

\* Mutant: one attempt too many.
AfterFailureOneMore(i) == IF init[i].attempt <= MaxAttempts THEN "backoff" ELSE "failed"

AfterFailure(i) == IF init[i].attempt < MaxAttempts THEN "backoff" ELSE "failed"

FetchFailure(i) ==
  /\ init[i].pc = "fetching"
  /\ init' = [init EXCEPT ![i].pc = AfterFailure(i), ![i].req = FALSE]
  /\ UNCHANGED <<prefs, splash, loading, leaving, launches, late, active, starts, again>>

\* Mutant: no timeout on the attempt.
FetchNeverTimesOut(i) == FALSE /\ UNCHANGED vars

\* 18 seconds are over; the request itself goes on.
FetchTimeout(i) ==
  /\ init[i].pc = "fetching"
  /\ init' = [init EXCEPT ![i].pc = AfterFailure(i), ![i].req = FALSE]
  /\ late' = late \cup {init[i].req}
  /\ UNCHANGED <<prefs, splash, loading, leaving, launches, active, starts, again>>

\* All attempts failed: init() asks for the network, tells the user and goes on.
NetworkChecked(i) ==
  /\ init[i].pc = "failed"
  /\ init' = [init EXCEPT ![i].pc = "fetched"]
  /\ UNCHANGED <<prefs, splash, loading, leaving, launches, late, active, starts, again>>

\* _navigateFromSplashAfterConfig up to its await, if there is one.
Navigate ==
  IF ~prefs.authorized /\ prefs.loggedIn
  THEN leaving' = [leaving EXCEPT !.own = @ + 1] /\ UNCHANGED launches
  ELSE launches' = launches + 1 /\ UNCHANGED leaving

\* The end of init(): leave, unless the screen is disposed ...
Synced(i) ==
  /\ init[i].pc = "fetched"
  /\ prefs.synced
  /\ loading' = FALSE
  /\ init' = [init EXCEPT ![i] = NoInit]
  /\ IF init[i].disposed THEN UNCHANGED <<leaving, launches>> ELSE Navigate
  /\ UNCHANGED <<prefs, splash, late, active, starts, again>>

\* ... or show the reload button and start the watcher.
NotSynced(i) ==
  /\ init[i].pc = "fetched"
  /\ ~prefs.synced
  /\ loading' = FALSE
  /\ init' = [init EXCEPT ![i] = NoInit]
  /\ splash' = [splash EXCEPT !.appNotSynced = TRUE, !.watching = TRUE, !.ticks = 0]
  /\ UNCHANGED <<prefs, leaving, launches, late, active, starts, again>>

\* The next frame.
Draw ==
  /\ Mounted
  /\ splash.button # ReloadDue
  /\ splash' = [splash EXCEPT !.button = ReloadDue]
  /\ UNCHANGED <<prefs, init, loading, leaving, launches, late, active, starts, again>>

\* Mutant: init() does not cancel the watcher.
ReloadKeepsWatcher(i) ==
  /\ Mounted /\ splash.button
  /\ ~IsRunning(i)
  /\ loading' = TRUE
  /\ init' = [init EXCEPT ![i] = NewInit]
  /\ IF ReloadDue THEN UNCHANGED again ELSE again < MaxAgain /\ again' = again + 1
  /\ UNCHANGED <<prefs, splash, leaving, launches, late, active, starts>>

\* The reload button: init() once more, which first cancels the watcher.
Reload(i) ==
  /\ Mounted /\ splash.button
  /\ ~IsRunning(i)
  /\ loading' = TRUE
  /\ init' = [init EXCEPT ![i] = NewInit]
  /\ splash' = [splash EXCEPT !.watching = FALSE]
  /\ IF ReloadDue THEN UNCHANGED again ELSE again < MaxAgain /\ again' = again + 1
  /\ UNCHANGED <<prefs, leaving, launches, late, active, starts>>

-----------------------------------------------------------------------------
(* The watcher, every 500 ms.                                               *)

\* Mutant: the limit of the ticks is looked at first.
TickGivesUpFirst ==
  /\ splash.watching
  /\ IF prefs.synced /\ splash.ticks + 1 < MaxTicks
     THEN /\ splash' = [splash EXCEPT !.watching = FALSE, !.appNotSynced = FALSE]
          /\ Navigate
     ELSE /\ splash' = [splash EXCEPT !.ticks = splash.ticks + 1,
                                      !.watching = splash.ticks + 1 < MaxTicks]
          /\ UNCHANGED <<leaving, launches>>
  /\ UNCHANGED <<prefs, init, loading, late, active, starts, again>>

Tick ==
  /\ splash.watching
  /\ IF prefs.synced
     THEN /\ splash' = [splash EXCEPT !.watching = FALSE, !.appNotSynced = FALSE]
          /\ Navigate
     ELSE /\ splash' = [splash EXCEPT !.ticks = splash.ticks + 1,
                                      !.watching = splash.ticks + 1 < MaxTicks]
          /\ UNCHANGED <<leaving, launches>>
  /\ UNCHANGED <<prefs, init, loading, late, active, starts, again>>

\* clearPreferences of the unauthorised user is done; a splash screen that is still
\* mounted launches its route.
Cleared ==
  /\ \/ /\ leaving.own > 0
        /\ leaving' = [leaving EXCEPT !.own = @ - 1]
        /\ launches' = launches + 1
     \/ /\ leaving.old > 0
        /\ leaving' = [leaving EXCEPT !.old = @ - 1]
        /\ UNCHANGED launches
  /\ prefs' = [prefs EXCEPT !.loggedIn = FALSE]
  /\ UNCHANGED <<splash, init, loading, late, active, starts, again>>

\* The launched route has replaced the splash screen: dispose().
Dispose ==
  /\ Mounted
  /\ Launched
  /\ splash' = [splash EXCEPT !.mounted = FALSE, !.watching = FALSE, !.button = FALSE]
  /\ init' = [i \in Inits |-> [init[i] EXCEPT !.disposed = IsRunning(i)]]
  /\ leaving' = [own |-> 0, old |-> leaving.old + leaving.own]
  /\ UNCHANGED <<prefs, loading, launches, late, active, starts, again>>

-----------------------------------------------------------------------------
(* After the splash screen.                                                 *)

\* saveUserData resets the sync time and fetches the configuration unawaited.
SignIn ==
  /\ ~Mounted
  /\ ~prefs.loggedIn
  /\ prefs' = [prefs EXCEPT !.loggedIn = TRUE, !.fresh = FALSE]
  /\ late' = late \cup {TRUE}
  /\ UNCHANGED <<splash, init, loading, leaving, launches, active, starts, again>>

SignOut ==
  /\ ~Mounted
  /\ prefs.loggedIn
  /\ prefs' = [prefs EXCEPT !.loggedIn = FALSE]
  /\ UNCHANGED <<splash, init, loading, leaving, launches, late, active, starts, again>>

\* userDashboard fetches the configuration unawaited, unless it is recent.
UserDashboard ==
  /\ ~Mounted
  /\ ~prefs.fresh
  /\ late' = late \cup {prefs.loggedIn}
  /\ UNCHANGED <<prefs, splash, init, loading, leaving, launches, active, starts, again>>

\* The admin panel marks the user as inactive.
Deactivate ==
  /\ active
  /\ active' = FALSE
  /\ UNCHANGED <<prefs, splash, init, loading, leaving, launches, late, starts, again>>

ShowSplash ==
  /\ starts < MaxStarts
  /\ starts' = starts + 1
  /\ splash' = NewSplash
  /\ launches' = 0
  /\ UNCHANGED active

\* RestartAppWidget after a change of language: same process, fetches go on, and so does
\* an init() of the disposed screen.
WarmRestart(i) ==
  /\ ~Mounted
  /\ ~IsRunning(i)
  /\ ShowSplash
  /\ init' = [init EXCEPT ![i] = NewInit]
  /\ again' = IF \E j \in Inits : IsRunning(j) THEN again ELSE 0
  /\ UNCHANGED <<prefs, loading, leaving, late>>

\* The process is killed and started again, between two writes ...
ProcessStart ==
  /\ ShowSplash
  /\ init' = Alone(First)
  /\ loading' = FALSE
  /\ leaving' = [own |-> 0, old |-> 0]
  /\ late' = {}
  /\ again' = 0

ColdRestart == ProcessStart /\ UNCHANGED prefs

\* ... or after the writes of the authorisation and the sync time and before that of
\* IS_APP_CONFIGURATION_SYNCED_AT_LEAST_ONCE.
ColdRestartInSync ==
  /\ \E r \in late \cup {init[i].req : i \in {j \in Inits : init[j].pc = "fetching"}} :
       \E a \in Answers(r) : prefs' = [prefs EXCEPT !.authorized = a, !.fresh = TRUE]
  /\ ProcessStart

InitStep(i) ==
  Attempt(i) \/ FetchTimeout(i) \/ NetworkChecked(i) \/ Synced(i) \/ NotSynced(i)

Next ==
  \/ \E i \in Inits : \/ InitStep(i) \/ FetchAnswer(i) \/ FetchFailure(i)
                      \/ Reload(i) \/ WarmRestart(i)
  \/ Tick \/ Cleared \/ Draw \/ Dispose
  \/ \E r \in BOOLEAN : LateAnswer(r) \/ LateFailure(r)
  \/ SyncExpires \/ Deactivate
  \/ SignIn \/ SignOut \/ UserDashboard
  \/ ColdRestart \/ ColdRestartInSync

Spec == Init /\ [][Next]_vars

\* What Dart's event loop owes: a finished await continues, a timer fires, a frame is
\* drawn.  No answer of the backend and no tap of the user is assumed.
FairSpec ==
  /\ Spec
  /\ \A i \in Inits : WF_vars(InitStep(i))
  /\ WF_vars(Tick)
  /\ WF_vars(Cleared)
  /\ WF_vars(Draw)
  /\ WF_vars(Dispose)

-----------------------------------------------------------------------------
(* Properties.                                                              *)

\* One splash screen launches at most one route, although init(), its watcher and the
\* reload button can all come to _navigateFromSplashAfterConfig, unless the button was
\* tapped once more before the frame that takes it away.
NavigatesOnce == launches + leaving.own <= 1 \/ again > 0

\* The counters stay below their limits where they are counted up, the watcher is that of
\* a mounted screen, what runs without one knows it, and whoever is signed in, leaves or has
\* left has seen a configuration.
InBounds ==
  /\ \A i \in Inits : init[i].pc \in {"language", "backoff"} => init[i].attempt < MaxAttempts
  /\ splash.watching => Mounted /\ splash.ticks < MaxTicks
  /\ prefs.loggedIn \/ ~Mounted \/ Launched \/ leaving.own > 0 => prefs.synced
  /\ ~Mounted => leaving.own = 0 /\ \A i \in Inits : IsRunning(i) => init[i].disposed
  /\ splash.appNotSynced /\ Mounted => ~prefs.loggedIn

\* Why NavigatesOnce holds: one init() runs at a time, the watcher only runs while none
\* does, nobody has left before either of them, and the button is due only once init() has
\* returned, never while the preferences of an unauthorised user are being cleared.
OneWayOut ==
  again = 0 =>
    /\ \A i \in Inits : IsRunning(i) =>
         /\ launches + leaving.own = 0 /\ ~splash.watching
         /\ Mounted /\ ~init[i].disposed
         /\ splash.appNotSynced => loading
         /\ \A j \in Inits : IsRunning(j) => j = i
    /\ splash.watching => launches + leaving.own = 0
    /\ leaving.own > 0 => ~splash.appNotSynced
    /\ launches + leaving.own <= 1

\* The splash screen never hangs: whatever the network does, in the end a route is
\* launched or the reload button can be tapped.
SplashSettles == Mounted ~> (Launched \/ ReloadShown)

\* splash_screen.dart:116, "covers straggler HTTP after timeout": an answer that comes
\* while the watcher runs takes the user off the splash screen.
LateSyncLeaves == (splash.watching /\ prefs.synced) ~> Launched

\* splash_screen.dart:152, "This condition occurs when the user is marked as inactive
\* from the admin panel": the splash screen signs out inactive users only.
OnlyInactiveIsSignedOut ==
  [][Cleared /\ prefs.loggedIn => ~active]_vars
=============================================================================
