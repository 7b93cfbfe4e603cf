---------------------------- MODULE SplashProofs ----------------------------
(***************************************************************************)
(* Proofs about Splash for every number of attempts, ticks and starts, of    *)
(* calls of init() under way and of taps on a button about to go.            *)
(***************************************************************************)
EXTENDS Splash, TLAPS

SplashInv == TypeOK /\ InBounds /\ OneWayOut

\* A splash screen that was just shown, and its init().
LEMMA NewTypes ==
  /\ NewSplash \in SplashType
  /\ NoInit \in InitType /\ NewInit \in InitType
  /\ NoInit.pc = "idle" /\ NewInit.pc = "language"
  /\ NewInit.attempt = 0 /\ ~NewInit.disposed
<1>1. NewSplash \in SplashType /\ NoInit \in InitType
  BY MaxAttemptsAssumption, MaxTicksAssumption DEF NewSplash, SplashType, NoInit, InitType
<1>2. NewInit \in InitType
  BY MaxAttemptsAssumption DEF NewInit, InitType, Running
<1> QED  BY <1>1, <1>2 DEF NoInit, NewInit

\* The first init() of a process runs alone.
LEMMA AloneFacts ==
  /\ Alone(First) \in [Inits -> InitType]
  /\ \A i \in Inits : Alone(First)[i] \in {NoInit, NewInit}
  /\ \A i \in Inits : Alone(First)[i].pc # "idle" => i = First
BY NewTypes DEF Alone

\* The steps of one init() up to its end: where it goes, the others stay where they are.
InitGoes(i, pc, attempt) ==
  /\ init' \in [Inits -> InitType]
  /\ init'[i].pc = pc /\ init'[i].attempt = attempt /\ init'[i].disposed = init[i].disposed
  /\ \A j \in Inits \ {i} : init'[j] = init[j]

LEMMA PutGoes ==
  ASSUME init \in [Inits -> InitType], NEW i \in Inits, NEW x \in InitType,
         init' = [init EXCEPT ![i] = x], x.disposed = init[i].disposed
  PROVE  InitGoes(i, x.pc, x.attempt)
BY DEF InitGoes

LEMMA FetchGoes ==
  ASSUME init \in [Inits -> InitType], NEW i \in Inits, NEW pc \in Running, NEW r \in BOOLEAN,
         NEW n \in 0..MaxAttempts,
         init' = [init EXCEPT ![i].pc = pc, ![i].attempt = n, ![i].req = r]
  PROVE  InitGoes(i, pc, n)
<1> DEFINE x == [init[i] EXCEPT !.pc = pc, !.attempt = n, !.req = r]
<1>1. init[i] \in InitType
  OBVIOUS
<1>2. x \in InitType /\ x.pc = pc /\ x.attempt = n /\ x.disposed = init[i].disposed
  BY <1>1 DEF InitType
<1>3. init' = [init EXCEPT ![i] = x]
  OBVIOUS
<1> HIDE DEF x
<1>4. InitGoes(i, x.pc, x.attempt)
  BY <1>2, <1>3, PutGoes
<1> QED  BY <1>2, <1>4

LEMMA PcGoes ==
  ASSUME init \in [Inits -> InitType], NEW i \in Inits, NEW pc \in Running, NEW r \in BOOLEAN,
         \/ init' = [init EXCEPT ![i].pc = pc, ![i].req = r]
         \/ init' = [init EXCEPT ![i].pc = pc]
  PROVE  InitGoes(i, pc, init[i].attempt)
<1>1. init[i] \in InitType
  OBVIOUS
<1>2. CASE init' = [init EXCEPT ![i].pc = pc, ![i].req = r]
  <2> DEFINE x == [init[i] EXCEPT !.pc = pc, !.req = r]
  <2>1. x \in InitType /\ x.pc = pc /\ x.attempt = init[i].attempt /\ x.disposed = init[i].disposed
    BY <1>1 DEF InitType
  <2>2. init' = [init EXCEPT ![i] = x]
    BY <1>2
  <2> HIDE DEF x
  <2> QED  BY <2>1, <2>2 DEF InitGoes
<1>3. CASE init' = [init EXCEPT ![i].pc = pc]
  <2> DEFINE x == [init[i] EXCEPT !.pc = pc]
  <2>1. x \in InitType /\ x.pc = pc /\ x.attempt = init[i].attempt /\ x.disposed = init[i].disposed
    BY <1>1 DEF InitType
  <2>2. init' = [init EXCEPT ![i] = x]
    BY <1>3
  <2> HIDE DEF x
  <2> QED  BY <2>1, <2>2 DEF InitGoes
<1> QED  BY <1>2, <1>3

\* An init() under way that goes on, while the screen stays as it is.
LEMMA GoingOnKeeps ==
  ASSUME SplashInv, NEW i \in Inits, IsRunning(i), NEW pc \in Running, NEW n \in 0..MaxAttempts,
         InitGoes(i, pc, n), pc = "backoff" => n < MaxAttempts, pc # "language",
         prefs' \in PrefsType, late' \in SUBSET BOOLEAN,
         prefs'.loggedIn = prefs.loggedIn, prefs.synced => prefs'.synced,
         UNCHANGED <<splash, loading, leaving, launches, active, starts, again>>
  PROVE  SplashInv'
<1> USE DEF SplashInv, IsRunning, Mounted, Launched, InitGoes
<1>1. TypeOK'
  BY DEF TypeOK
<1>2. InBounds'
  BY DEF InBounds
<1>3. \A j \in Inits : IsRunning(j)' => IsRunning(j)
  OBVIOUS
<1>4. \A j \in Inits : init'[j].disposed = init[j].disposed
  OBVIOUS
<1>5. OneWayOut'
  BY <1>3, <1>4 DEF OneWayOut
<1> QED  BY <1>1, <1>2, <1>5

\* A step that leaves every init() and the screen's own fields alone.
LEMMA ElsewhereKeeps ==
  ASSUME SplashInv, prefs' \in PrefsType, late' \in SUBSET BOOLEAN, active' \in BOOLEAN,
         prefs'.loggedIn => prefs.loggedIn, prefs.synced => prefs'.synced,
         UNCHANGED <<splash, init, loading, leaving, launches, starts, again>>
  PROVE  SplashInv'
<1> USE DEF SplashInv, IsRunning, Mounted, Launched
<1>1. TypeOK'
  BY DEF TypeOK
<1>2. InBounds'
  BY DEF InBounds
<1>3. OneWayOut'
  BY DEF OneWayOut
<1> QED  BY <1>1, <1>2, <1>3

\* _navigateFromSplashAfterConfig leaves once.
LEMMA NavigateOnce ==
  ASSUME TypeOK, Navigate
  PROVE  /\ leaving' \in [own : Nat, old : Nat] /\ launches' \in Nat
         /\ launches' + leaving'.own = launches + leaving.own + 1
         /\ leaving'.own > leaving.own => prefs.loggedIn
         /\ leaving'.own >= leaving.own /\ launches' >= launches
         /\ leaving'.own \in Nat /\ leaving.own \in Nat /\ launches \in Nat
<1> DEFINE n == leaving.own + 1
<1>0. leaving.own \in Nat /\ launches \in Nat
  BY DEF TypeOK
<1>1. n \in Nat
  BY <1>0
<1>2. CASE ~prefs.authorized /\ prefs.loggedIn
  <2>1. leaving' = [leaving EXCEPT !.own = n] /\ launches' = launches
    BY <1>2 DEF Navigate, TypeOK
  <2> HIDE DEF n
  <2>2. leaving' \in [own : Nat, old : Nat] /\ leaving'.own = n
    BY <1>1, <2>1 DEF TypeOK
  <2> QED  BY <1>0, <1>2, <2>1, <2>2 DEF n
<1>3. CASE ~(~prefs.authorized /\ prefs.loggedIn)
  BY <1>0, <1>3 DEF Navigate, TypeOK
<1> QED  BY <1>2, <1>3

\* The end of an init().
LEMMA EndedInit ==
  ASSUME TypeOK, NEW i \in Inits, init' = [init EXCEPT ![i] = NoInit]
  PROVE  /\ init' \in [Inits -> InitType] /\ init'[i].pc = "idle"
         /\ \A j \in Inits \ {i} : init'[j] = init[j]
BY NewTypes DEF TypeOK

LEMMA SyncedKeeps ==
  ASSUME SplashInv, NEW i \in Inits, Synced(i)
  PROVE  SplashInv'
<1>1. /\ init' \in [Inits -> InitType] /\ init'[i].pc = "idle"
      /\ \A j \in Inits \ {i} : init'[j] = init[j]
  BY EndedInit DEF Synced, SplashInv
<1>2. /\ init[i].pc = "fetched" /\ prefs.synced /\ loading' = FALSE
      /\ UNCHANGED <<prefs, splash, late, active, starts, again>>
      /\ (init[i].disposed /\ UNCHANGED <<leaving, launches>>) \/ (~init[i].disposed /\ Navigate)
  BY DEF Synced
<1>3. leaving' \in [own : Nat, old : Nat] /\ launches' \in Nat
  BY <1>2, NavigateOnce DEF SplashInv, TypeOK
<1>4. TypeOK'
  BY <1>1, <1>2, <1>3 DEF SplashInv, TypeOK
<1>5. InBounds'
  <2>1. ~Mounted => leaving'.own = 0
    BY <1>2 DEF SplashInv, InBounds, IsRunning
  <2>2. \A j \in Inits : init'[j].pc # "idle" => init'[j] = init[j]
    BY <1>1
  <2> QED  BY <1>2, <2>1, <2>2 DEF SplashInv, InBounds, IsRunning, Mounted, Launched
<1>6. OneWayOut'
  <2> SUFFICES ASSUME again = 0 PROVE OneWayOut'
    BY <1>2 DEF OneWayOut
  <2>1. /\ launches + leaving.own = 0 /\ ~splash.watching
        /\ Mounted /\ ~init[i].disposed
        /\ \A j \in Inits : IsRunning(j) => j = i
    BY <1>2 DEF SplashInv, OneWayOut, IsRunning
  <2>2. \A j \in Inits : ~IsRunning(j)'
    BY <1>1, <2>1 DEF IsRunning
  <2>0. TypeOK /\ Navigate /\ leaving.own \in Nat /\ launches \in Nat
    BY <1>2, <2>1 DEF SplashInv, TypeOK
  <2>a. leaving.own = 0 /\ launches = 0
    BY <2>0, <2>1
  <2>b. /\ launches' + leaving'.own = launches + leaving.own + 1
        /\ leaving'.own > leaving.own => prefs.loggedIn
    BY <2>0, NavigateOnce
  <2>3. launches' + leaving'.own <= 1 /\ (leaving'.own > 0 => prefs.loggedIn)
    BY <2>a, <2>b
  <2>4. leaving'.own > 0 => ~splash.appNotSynced
    BY <2>1, <2>3 DEF SplashInv, InBounds
  <2> QED  BY <1>2, <2>1, <2>2, <2>3, <2>4 DEF OneWayOut, IsRunning
<1> QED  BY <1>4, <1>5, <1>6 DEF SplashInv

LEMMA NotSyncedKeeps ==
  ASSUME SplashInv, NEW i \in Inits, NotSynced(i)
  PROVE  SplashInv'
<1>1. /\ init' \in [Inits -> InitType] /\ init'[i].pc = "idle"
      /\ \A j \in Inits \ {i} : init'[j] = init[j]
  BY EndedInit DEF NotSynced, SplashInv
<1>2. /\ init[i].pc = "fetched" /\ ~prefs.synced /\ loading' = FALSE
      /\ UNCHANGED <<prefs, leaving, launches, late, active, starts, again>>
  BY DEF NotSynced
<1>3. /\ splash' \in SplashType /\ splash'.mounted = splash.mounted
      /\ splash'.appNotSynced = TRUE /\ splash'.watching = TRUE /\ splash'.ticks = 0
  <2> DEFINE z == 0
  <2>1. z \in 0..MaxTicks
    BY MaxTicksAssumption
  <2>2. splash' = [splash EXCEPT !.appNotSynced = TRUE, !.watching = TRUE, !.ticks = z]
    BY DEF NotSynced
  <2> HIDE DEF z
  <2>3. /\ splash' \in SplashType /\ splash'.mounted = splash.mounted
        /\ splash'.appNotSynced = TRUE /\ splash'.watching = TRUE /\ splash'.ticks = z
    BY <2>1, <2>2 DEF SplashInv, TypeOK, SplashType
  <2> QED  BY <2>3 DEF z
<1>4. TypeOK'
  BY <1>1, <1>2, <1>3 DEF SplashInv, TypeOK
<1>5. Mounted /\ ~Launched /\ ~prefs.loggedIn
  BY <1>2 DEF SplashInv, InBounds
<1>6. \A j \in Inits : init'[j].pc # "idle" => init'[j] = init[j]
  BY <1>1
<1>7. InBounds'
  BY <1>2, <1>3, <1>5, <1>6, MaxTicksAssumption DEF SplashInv, InBounds, IsRunning, Mounted, Launched
<1>8. OneWayOut'
  <2> SUFFICES ASSUME again = 0 PROVE OneWayOut'
    BY <1>2 DEF OneWayOut
  <2>1. launches + leaving.own = 0 /\ \A j \in Inits : IsRunning(j) => j = i
    BY <1>2 DEF SplashInv, OneWayOut, IsRunning
  <2>2. \A j \in Inits : ~IsRunning(j)'
    BY <1>1, <2>1 DEF IsRunning
  <2>3. leaving.own = 0
    BY <2>1 DEF SplashInv, TypeOK
  <2> QED  BY <1>2, <1>3, <2>1, <2>2, <2>3 DEF OneWayOut
<1> QED  BY <1>4, <1>7, <1>8 DEF SplashInv

LEMMA ReloadKeeps ==
  ASSUME SplashInv, NEW i \in Inits, Reload(i)
  PROVE  SplashInv'
<1>1. /\ init' \in [Inits -> InitType] /\ init'[i] = NewInit
      /\ \A j \in Inits \ {i} : init'[j] = init[j]
  BY NewTypes DEF Reload, SplashInv, TypeOK
<1>2. /\ Mounted /\ ~IsRunning(i) /\ loading' = TRUE
      /\ UNCHANGED <<prefs, leaving, launches, late, active, starts>>
  BY DEF Reload
<1>3. /\ splash' \in SplashType /\ splash'.mounted = splash.mounted
      /\ splash'.appNotSynced = splash.appNotSynced /\ ~splash'.watching
      /\ splash'.ticks = splash.ticks
  BY DEF Reload, SplashInv, TypeOK, SplashType
<1>4. again' \in 0..MaxAgain /\ (again' = 0 => again = 0 /\ ReloadDue)
  BY MaxAgainAssumption DEF Reload, SplashInv, TypeOK
<1>5. TypeOK'
  BY <1>1, <1>2, <1>3, <1>4 DEF SplashInv, TypeOK
<1>6. InBounds'
  BY <1>1, <1>2, <1>3, NewTypes, MaxAttemptsAssumption
  DEF SplashInv, InBounds, IsRunning, Mounted, Launched
<1>7. OneWayOut'
  <2> SUFFICES ASSUME again' = 0 PROVE OneWayOut'
    BY DEF OneWayOut
  <2>1. again = 0 /\ Mounted /\ launches = 0 /\ splash.appNotSynced /\ ~loading
    BY <1>4 DEF ReloadDue, Launched, SplashInv, TypeOK
  <2>2. leaving.own = 0 /\ \A j \in Inits : ~IsRunning(j)
    BY <2>1 DEF SplashInv, OneWayOut, TypeOK
  <2>3. \A j \in Inits : IsRunning(j)' => j = i /\ ~init'[j].disposed
    BY <1>1, <2>2, NewTypes DEF IsRunning
  <2> QED  BY <1>2, <1>3, <2>1, <2>2, <2>3 DEF OneWayOut, Mounted
<1> QED  BY <1>5, <1>6, <1>7 DEF SplashInv

LEMMA TickKeeps ==
  ASSUME SplashInv, Tick
  PROVE  SplashInv'
<1>1. /\ splash.watching /\ Mounted /\ splash.ticks < MaxTicks /\ splash \in SplashType
      /\ UNCHANGED <<prefs, init, loading, late, active, starts, again>>
  BY DEF Tick, SplashInv, InBounds, TypeOK
<1>2. CASE prefs.synced
  <2>1. /\ splash' = [splash EXCEPT !.watching = FALSE, !.appNotSynced = FALSE] /\ Navigate
    BY <1>2 DEF Tick
  <2>2. /\ splash' \in SplashType /\ splash'.mounted = splash.mounted
        /\ ~splash'.watching /\ ~splash'.appNotSynced
    BY <1>1, <2>1 DEF SplashType
  <2>3. /\ leaving' \in [own : Nat, old : Nat] /\ launches' \in Nat
        /\ launches' + leaving'.own = launches + leaving.own + 1
    BY <2>1, NavigateOnce DEF SplashInv
  <2>4. TypeOK'
    BY <1>1, <2>2, <2>3 DEF SplashInv, TypeOK
  <2>5. InBounds'
    BY <1>1, <1>2, <2>2 DEF SplashInv, InBounds, IsRunning, Mounted, Launched
  <2>6. OneWayOut'
    <3> SUFFICES ASSUME again = 0 PROVE OneWayOut'
      BY <1>1 DEF OneWayOut
    <3>1. launches + leaving.own = 0 /\ \A i \in Inits : ~IsRunning(i)
      BY <1>1 DEF SplashInv, OneWayOut
    <3>2. launches' + leaving'.own <= 1 /\ \A i \in Inits : ~IsRunning(i)'
      BY <1>1, <2>3, <3>1 DEF IsRunning
    <3> QED  BY <2>2, <3>2 DEF OneWayOut
  <2> QED  BY <2>4, <2>5, <2>6 DEF SplashInv
<1>3. CASE ~prefs.synced
  <2> DEFINE n == splash.ticks + 1
             w == splash.ticks + 1 < MaxTicks
  <2>1. n \in 0..MaxTicks /\ w \in BOOLEAN /\ (w => n < MaxTicks)
    BY <1>1, MaxTicksAssumption DEF SplashType
  <2>2. splash' = [splash EXCEPT !.ticks = n, !.watching = w] /\ UNCHANGED <<leaving, launches>>
    BY <1>3 DEF Tick
  <2> HIDE DEF n, w
  <2>3. /\ splash' \in SplashType /\ splash'.mounted = splash.mounted
        /\ splash'.appNotSynced = splash.appNotSynced
        /\ splash'.watching = w /\ splash'.ticks = n
    BY <1>1, <2>1, <2>2 DEF SplashType
  <2>4. TypeOK'
    BY <1>1, <2>2, <2>3 DEF SplashInv, TypeOK
  <2>5. InBounds'
    BY <1>1, <2>1, <2>2, <2>3 DEF SplashInv, InBounds, IsRunning, Mounted, Launched
  <2>6. OneWayOut'
    BY <1>1, <2>2, <2>3 DEF SplashInv, OneWayOut, IsRunning, Mounted
  <2> QED  BY <2>4, <2>5, <2>6 DEF SplashInv
<1> QED  BY <1>2, <1>3

LEMMA ClearedKeeps ==
  ASSUME SplashInv, Cleared
  PROVE  SplashInv'
<1>0. leaving.own \in Nat /\ leaving.old \in Nat /\ launches \in Nat
  BY DEF SplashInv, TypeOK
<1>1. /\ prefs' \in PrefsType /\ ~prefs'.loggedIn /\ prefs'.synced = prefs.synced
      /\ UNCHANGED <<splash, init, loading, late, active, starts, again>>
  BY DEF Cleared, SplashInv, TypeOK, PrefsType
<1>2. /\ leaving' \in [own : Nat, old : Nat] /\ launches' \in Nat
      /\ launches' + leaving'.own = launches + leaving.own
      /\ leaving'.own <= leaving.own /\ (launches' # launches => leaving.own > 0)
  <2>1. CASE leaving.own > 0 /\ leaving' = [leaving EXCEPT !.own = @ - 1] /\ launches' = launches + 1
    <3> DEFINE n == leaving.own - 1
    <3>1. n \in Nat /\ leaving' = [leaving EXCEPT !.own = n]
      BY <1>0, <2>1 DEF SplashInv, TypeOK
    <3>2. n = leaving.own - 1
      OBVIOUS
    <3> HIDE DEF n
    <3>3. leaving' \in [own : Nat, old : Nat] /\ leaving'.own = n
      BY <3>1 DEF SplashInv, TypeOK
    <3> QED  BY <1>0, <2>1, <3>2, <3>3
  <2>2. CASE leaving.old > 0 /\ leaving' = [leaving EXCEPT !.old = @ - 1] /\ launches' = launches
    <3> DEFINE n == leaving.old - 1
    <3>1. n \in Nat /\ leaving' = [leaving EXCEPT !.old = n]
      BY <1>0, <2>2 DEF SplashInv, TypeOK
    <3> HIDE DEF n
    <3>2. leaving' \in [own : Nat, old : Nat] /\ leaving'.own = leaving.own
      BY <3>1 DEF SplashInv, TypeOK
    <3> QED  BY <1>0, <2>2, <3>2
  <2> QED  BY <2>1, <2>2 DEF Cleared
<1>3. TypeOK'
  BY <1>1, <1>2 DEF SplashInv, TypeOK
<1>a. leaving'.own \in Nat
  BY <1>2
<1>4. InBounds'
  <2>1. ~Mounted => leaving'.own = 0
    BY <1>0, <1>2, <1>a DEF SplashInv, InBounds
  <2>2. launches' > 0 \/ leaving'.own > 0 => launches > 0 \/ leaving.own > 0
    BY <1>0, <1>2, <1>a
  <2> QED  BY <1>1, <2>1, <2>2 DEF SplashInv, InBounds, IsRunning, Mounted, Launched
<1>5. OneWayOut'
  BY <1>0, <1>1, <1>2, <1>a DEF SplashInv, OneWayOut, IsRunning, Mounted
<1> QED  BY <1>3, <1>4, <1>5 DEF SplashInv

LEMMA DisposeKeeps ==
  ASSUME SplashInv, Dispose
  PROVE  SplashInv'
<1>0. leaving.own \in Nat /\ leaving.old \in Nat /\ launches \in Nat
  BY DEF SplashInv, TypeOK
<1>1. /\ Launched /\ UNCHANGED <<prefs, loading, launches, late, active, starts, again>>
      /\ leaving' = [own |-> 0, old |-> leaving.old + leaving.own]
  BY DEF Dispose
<1>2. leaving' \in [own : Nat, old : Nat] /\ leaving'.own = 0
  <2>1. leaving.old + leaving.own \in Nat
    BY <1>0
  <2> QED  BY <1>1, <2>1
<1>3. /\ splash' \in SplashType /\ ~splash'.mounted /\ ~splash'.watching
      /\ splash'.appNotSynced = splash.appNotSynced
  BY DEF Dispose, SplashInv, TypeOK, SplashType
<1>4. ASSUME NEW i \in Inits
      PROVE  /\ init'[i] \in InitType /\ init'[i].pc = init[i].pc
             /\ init'[i].attempt = init[i].attempt /\ init'[i].disposed = IsRunning(i)
  <2>1. init[i] \in InitType /\ init'[i] = [init[i] EXCEPT !.disposed = IsRunning(i)]
    BY DEF Dispose, SplashInv, TypeOK
  <2>2. IsRunning(i) \in BOOLEAN
    BY DEF IsRunning
  <2> QED  BY <2>1, <2>2 DEF InitType
<1>5. init' \in [Inits -> InitType]
  BY <1>4 DEF Dispose
<1>6. TypeOK'
  BY <1>1, <1>2, <1>3, <1>5 DEF SplashInv, TypeOK
<1>7. InBounds'
  BY <1>1, <1>2, <1>3, <1>4 DEF SplashInv, InBounds, IsRunning, Mounted, Launched
<1>8. OneWayOut'
  <2> SUFFICES ASSUME again = 0 PROVE OneWayOut'
    BY <1>1 DEF OneWayOut
  <2>1. launches + leaving.own <= 1 /\ \A i \in Inits : ~IsRunning(i)
    BY <1>0, <1>1 DEF SplashInv, OneWayOut, Launched
  <2>2. launches' + leaving'.own <= 1 /\ \A i \in Inits : ~IsRunning(i)'
    BY <1>0, <1>1, <1>2, <1>4, <2>1 DEF IsRunning
  <2> QED  BY <1>2, <1>3, <2>2 DEF OneWayOut
<1> QED  BY <1>6, <1>7, <1>8 DEF SplashInv

LEMMA DrawKeeps ==
  ASSUME SplashInv, Draw
  PROVE  SplashInv'
<1>0. ReloadDue \in BOOLEAN
  BY DEF ReloadDue, Mounted, SplashInv, TypeOK, SplashType
<1>1. /\ splash' \in SplashType /\ splash'.mounted = splash.mounted
      /\ splash'.appNotSynced = splash.appNotSynced
      /\ splash'.watching = splash.watching /\ splash'.ticks = splash.ticks
      /\ UNCHANGED <<prefs, init, loading, leaving, launches, late, active, starts, again>>
  BY <1>0 DEF Draw, SplashInv, TypeOK, SplashType
<1>2. TypeOK'
  BY <1>1 DEF SplashInv, TypeOK
<1>3. InBounds'
  BY <1>1 DEF SplashInv, InBounds, IsRunning, Mounted, Launched
<1>4. OneWayOut'
  BY <1>1 DEF SplashInv, OneWayOut, IsRunning, Mounted
<1> QED  BY <1>2, <1>3, <1>4 DEF SplashInv

\* A splash screen shown again, in the same process ...
LEMMA WarmRestartKeeps ==
  ASSUME SplashInv, NEW i \in Inits, WarmRestart(i)
  PROVE  SplashInv'
<1>1. /\ init' \in [Inits -> InitType] /\ init'[i] = NewInit
      /\ \A j \in Inits \ {i} : init'[j] = init[j]
  BY NewTypes DEF WarmRestart, SplashInv, TypeOK
<1>2. /\ ~Mounted /\ ~IsRunning(i) /\ launches' = 0 /\ splash' = NewSplash
      /\ UNCHANGED <<prefs, loading, leaving, late, active>>
  BY DEF WarmRestart, ShowSplash
<1>a. starts' \in 1..MaxStarts
  <2>1. starts \in 1..MaxStarts /\ starts < MaxStarts /\ starts' = starts + 1
    BY DEF WarmRestart, ShowSplash, SplashInv, TypeOK
  <2> QED  BY <2>1, MaxStartsAssumption
<1>b. active' \in BOOLEAN /\ prefs' \in PrefsType
  BY <1>2 DEF SplashInv, TypeOK
<1>3. again' \in 0..MaxAgain /\ (again' = 0 => again = 0 \/ \A j \in Inits : ~IsRunning(j))
  BY MaxAgainAssumption DEF WarmRestart, SplashInv, TypeOK
<1>4. leaving.own = 0
  BY <1>2 DEF SplashInv, InBounds
<1>5. TypeOK'
  <2>1. launches' \in Nat
    BY <1>2
  <2> QED  BY <1>1, <1>2, <1>3, <1>a, <1>b, <2>1, NewTypes DEF SplashInv, TypeOK
<1>6. InBounds'
  BY <1>1, <1>2, <1>4, NewTypes, MaxAttemptsAssumption, MaxTicksAssumption
  DEF SplashInv, InBounds, IsRunning, Mounted, Launched, NewSplash
<1>7. OneWayOut'
  <2> SUFFICES ASSUME again' = 0 PROVE OneWayOut'
    BY DEF OneWayOut
  <2>1. \A j \in Inits : ~IsRunning(j)
    BY <1>2, <1>3 DEF SplashInv, OneWayOut
  <2>2. \A j \in Inits : IsRunning(j)' => j = i /\ ~init'[j].disposed
    BY <1>1, <2>1, NewTypes DEF IsRunning
  <2> QED  BY <1>2, <1>4, <2>2 DEF OneWayOut, Mounted, NewSplash
<1> QED  BY <1>5, <1>6, <1>7 DEF SplashInv

\* ... or in a new one, in which nothing is under way.
LEMMA FreshScreen ==
  ASSUME prefs \in PrefsType, prefs.loggedIn => prefs.synced, splash = NewSplash,
         init = Alone(First), loading = FALSE, leaving = [own |-> 0, old |-> 0], launches = 0,
         late = {}, active \in BOOLEAN, starts \in 1..MaxStarts, again = 0
  PROVE  SplashInv
<1>1. TypeOK
  <2>1. /\ 0 \in 0..MaxAgain /\ 0 \in Nat /\ FALSE \in BOOLEAN
        /\ [own |-> 0, old |-> 0] \in [own : Nat, old : Nat]
    BY MaxAgainAssumption
  <2> QED  BY <2>1, NewTypes, AloneFacts DEF TypeOK
<1>2. InBounds
  BY NewTypes, AloneFacts, MaxAttemptsAssumption, MaxTicksAssumption
  DEF InBounds, IsRunning, Mounted, Launched, NewSplash
<1>3. \A i \in Inits : IsRunning(i) => i = First /\ ~init[i].disposed
  BY NewTypes, AloneFacts DEF IsRunning
<1>4. OneWayOut
  BY <1>3 DEF OneWayOut, Mounted, NewSplash
<1> QED  BY <1>1, <1>2, <1>4 DEF SplashInv

LEMMA ColdRestartKeeps ==
  ASSUME SplashInv, ColdRestart \/ ColdRestartInSync
  PROVE  SplashInv'
<1>1. /\ prefs' \in PrefsType /\ prefs'.loggedIn = prefs.loggedIn
      /\ prefs'.synced = prefs.synced
  <2>1. CASE ColdRestart
    BY <2>1 DEF ColdRestart, SplashInv, TypeOK
  <2>2. CASE ColdRestartInSync
    <3>1. PICK a \in BOOLEAN : prefs' = [prefs EXCEPT !.authorized = a, !.fresh = TRUE]
      BY <2>2 DEF ColdRestartInSync, Answers, SplashInv, TypeOK
    <3> QED  BY <3>1 DEF SplashInv, TypeOK, PrefsType
  <2> QED  BY <2>1, <2>2
<1>2. /\ splash' = NewSplash /\ init' = Alone(First) /\ loading' = FALSE
      /\ leaving' = [own |-> 0, old |-> 0] /\ launches' = 0 /\ late' = {}
      /\ active' \in BOOLEAN /\ again' = 0
  BY DEF ColdRestart, ColdRestartInSync, ProcessStart, ShowSplash, SplashInv, TypeOK
<1>a. starts' \in 1..MaxStarts
  <2>1. starts \in 1..MaxStarts /\ starts < MaxStarts /\ starts' = starts + 1
    BY DEF ColdRestart, ColdRestartInSync, ProcessStart, ShowSplash, SplashInv, TypeOK
  <2> QED  BY <2>1, MaxStartsAssumption
<1>3. prefs.loggedIn => prefs.synced
  BY DEF SplashInv, InBounds
<1>4. TypeOK'
  <2>1. /\ 0 \in 0..MaxAgain /\ 0 \in Nat /\ FALSE \in BOOLEAN
        /\ [own |-> 0, old |-> 0] \in [own : Nat, old : Nat]
    BY MaxAgainAssumption
  <2> QED  BY <1>1, <1>2, <1>a, <2>1, NewTypes, AloneFacts DEF TypeOK
<1>5. InBounds'
  BY <1>1, <1>2, <1>3, NewTypes, AloneFacts, MaxAttemptsAssumption, MaxTicksAssumption
  DEF InBounds, IsRunning, Mounted, Launched, NewSplash
<1>6. \A i \in Inits : IsRunning(i)' => i = First /\ ~init'[i].disposed
  BY <1>2, NewTypes, AloneFacts DEF IsRunning
<1>7. OneWayOut'
  BY <1>2, <1>6 DEF OneWayOut, Mounted, NewSplash
<1> QED  BY <1>4, <1>5, <1>7 DEF SplashInv

\* Every step of init(), the watcher, the stragglers, the user and the operating system
\* keeps the invariant.
LEMMA SplashStep == SplashInv /\ [Next]_vars => SplashInv'
<1> SUFFICES ASSUME SplashInv, [Next]_vars PROVE SplashInv'
  OBVIOUS
<1>0. /\ init \in [Inits -> InitType] /\ prefs \in PrefsType /\ late \in SUBSET BOOLEAN
      /\ active \in BOOLEAN /\ \A i \in Inits : init[i] \in InitType
  BY DEF SplashInv, TypeOK
<1>a. ASSUME NEW r \in BOOLEAN, NEW a \in Answers(r), SetAppConfigurations(a)
      PROVE  /\ prefs' \in PrefsType /\ prefs'.loggedIn = prefs.loggedIn /\ prefs'.synced
  <2>1. a \in BOOLEAN
    BY <1>0, <1>a DEF Answers
  <2> QED  BY <1>0, <1>a, <2>1 DEF SetAppConfigurations, PrefsType
<1>1. ASSUME NEW i \in Inits, Attempt(i)
      PROVE  SplashInv'
  <2> DEFINE pc == IF prefs.fresh THEN "fetched" ELSE "fetching"
             r == ~prefs.fresh /\ prefs.loggedIn
             n == init[i].attempt + 1
  <2>1. init[i].attempt \in 0..MaxAttempts /\ init[i].attempt < MaxAttempts
    BY <1>0, <1>1 DEF Attempt, InitType, SplashInv, InBounds
  <2>2. /\ n \in 0..MaxAttempts /\ r \in BOOLEAN
        /\ pc \in Running /\ pc # "backoff" /\ pc # "language"
    BY <1>0, <2>1, MaxAttemptsAssumption DEF Running, PrefsType
  <2>3. init' = [init EXCEPT ![i].pc = pc, ![i].attempt = n, ![i].req = r]
    BY <1>0, <1>1 DEF Attempt
  <2> HIDE DEF pc, r, n
  <2>4. InitGoes(i, pc, n)
    BY <1>0, <2>2, <2>3, FetchGoes
  <2>5. /\ IsRunning(i)
        /\ UNCHANGED <<prefs, splash, loading, leaving, launches, late, active, starts, again>>
    BY <1>1 DEF Attempt, IsRunning
  <2> QED  BY <1>0, <2>2, <2>4, <2>5, GoingOnKeeps
<1>2. ASSUME NEW i \in Inits, FetchTimeout(i) \/ FetchFailure(i)
      PROVE  SplashInv'
  <2>1. /\ AfterFailure(i) \in Running /\ AfterFailure(i) # "language"
        /\ AfterFailure(i) = "backoff" => init[i].attempt < MaxAttempts
    BY DEF AfterFailure, Running
  <2>2. InitGoes(i, AfterFailure(i), init[i].attempt)
    BY <1>0, <1>2, <2>1, PcGoes DEF FetchTimeout, FetchFailure
  <2>3. IsRunning(i) /\ init[i].attempt \in 0..MaxAttempts
    BY <1>0, <1>2 DEF FetchTimeout, FetchFailure, IsRunning, InitType
  <2>4. late' \in SUBSET BOOLEAN
    BY <1>0, <1>2 DEF FetchTimeout, FetchFailure, InitType
  <2>5. UNCHANGED <<prefs, splash, loading, leaving, launches, active, starts, again>>
    BY <1>2 DEF FetchTimeout, FetchFailure
  <2> QED  BY <1>0, <2>1, <2>2, <2>3, <2>4, <2>5, GoingOnKeeps
<1>3. ASSUME NEW i \in Inits, FetchAnswer(i) \/ NetworkChecked(i)
      PROVE  SplashInv'
  <2>1. InitGoes(i, "fetched", init[i].attempt)
    BY <1>0, <1>3, PcGoes DEF FetchAnswer, NetworkChecked, Running
  <2>2. IsRunning(i) /\ init[i].attempt \in 0..MaxAttempts /\ init[i].req \in BOOLEAN
    BY <1>0, <1>3 DEF FetchAnswer, NetworkChecked, IsRunning, InitType
  <2>3. /\ prefs' \in PrefsType /\ prefs'.loggedIn = prefs.loggedIn
        /\ prefs.synced => prefs'.synced
    BY <1>0, <1>3, <1>a, <2>2 DEF FetchAnswer, NetworkChecked
  <2>4. UNCHANGED <<splash, loading, leaving, launches, late, active, starts, again>>
    BY <1>3 DEF FetchAnswer, NetworkChecked
  <2>5. "fetched" \in Running
    BY DEF Running
  <2> QED  BY <1>0, <2>1, <2>2, <2>3, <2>4, <2>5, GoingOnKeeps
<1>4. ASSUME NEW r \in BOOLEAN, LateAnswer(r) \/ LateFailure(r)
      PROVE  SplashInv'
  <2>1. /\ prefs' \in PrefsType /\ prefs'.loggedIn = prefs.loggedIn
        /\ prefs.synced => prefs'.synced
    BY <1>0, <1>4, <1>a DEF LateAnswer, LateFailure
  <2>2. /\ late' \in SUBSET BOOLEAN
        /\ UNCHANGED <<splash, init, loading, leaving, launches, active, starts, again>>
    BY <1>0, <1>4 DEF LateAnswer, LateFailure
  <2> QED  BY <1>0, <2>1, <2>2, ElsewhereKeeps
<1>5. ASSUME SyncExpires \/ SignOut
      PROVE  SplashInv'
  <2>1. /\ prefs' \in PrefsType /\ (prefs'.loggedIn => prefs.loggedIn)
        /\ (prefs.synced => prefs'.synced)
    BY <1>0, <1>5 DEF SyncExpires, SignOut, PrefsType
  <2>2. UNCHANGED <<splash, init, loading, leaving, launches, late, active, starts, again>>
    BY <1>5 DEF SyncExpires, SignOut
  <2> QED  BY <1>0, <2>1, <2>2, ElsewhereKeeps
<1>6. ASSUME Deactivate \/ UserDashboard \/ UNCHANGED vars
      PROVE  SplashInv'
  <2>1. /\ UNCHANGED <<prefs, splash, init, loading, leaving, launches, starts, again>>
        /\ late' \in SUBSET BOOLEAN /\ active' \in BOOLEAN
    BY <1>0, <1>6 DEF Deactivate, UserDashboard, vars, PrefsType
  <2> QED  BY <1>0, <2>1, ElsewhereKeeps
<1>7. ASSUME SignIn
      PROVE  SplashInv'
  <2>1. /\ prefs' \in PrefsType /\ prefs'.synced = prefs.synced /\ late' \in SUBSET BOOLEAN
        /\ ~Mounted
        /\ UNCHANGED <<splash, init, loading, leaving, launches, active, starts, again>>
    BY <1>0, <1>7 DEF SignIn, PrefsType
  <2>2. TypeOK'
    BY <2>1 DEF SplashInv, TypeOK
  <2>3. InBounds'
    BY <2>1 DEF SplashInv, InBounds, IsRunning, Mounted, Launched
  <2>4. OneWayOut'
    BY <2>1 DEF SplashInv, OneWayOut, IsRunning, Mounted
  <2> QED  BY <2>2, <2>3, <2>4 DEF SplashInv
<1> QED
  BY <1>1, <1>2, <1>3, <1>4, <1>5, <1>6, <1>7, SyncedKeeps, NotSyncedKeeps, ReloadKeeps, TickKeeps,
     ClearedKeeps, DisposeKeeps, DrawKeeps, WarmRestartKeeps, ColdRestartKeeps
  DEF Next, InitStep

\* One splash screen launches at most one route, for every number of attempts and ticks,
\* through every restart and with any number of init() under way, unless the reload button
\* was tapped again before the frame that takes it away.
THEOREM SplashNavigatesOnce == Spec => [](TypeOK /\ NavigatesOnce)
<1>1. Init => SplashInv
  <2> SUFFICES ASSUME Init PROVE SplashInv
    OBVIOUS
  <2>1. prefs \in PrefsType /\ (prefs.loggedIn => prefs.synced)
    BY DEF Init, PrefsType
  <2>2. active \in BOOLEAN /\ starts \in 1..MaxStarts
    BY MaxStartsAssumption DEF Init
  <2> QED  BY <2>1, <2>2, FreshScreen DEF Init
<1>2. SplashInv => TypeOK /\ NavigatesOnce
  <2> SUFFICES ASSUME SplashInv PROVE NavigatesOnce
    BY DEF SplashInv
  <2>1. CASE again = 0
    BY <2>1 DEF SplashInv, OneWayOut, NavigatesOnce
  <2>2. CASE again # 0
    BY <2>2, MaxAgainAssumption DEF SplashInv, TypeOK, NavigatesOnce
  <2> QED  BY <2>1, <2>2
<1> QED
  BY <1>1, <1>2, SplashStep, PTL DEF Spec

\* For every number of attempts, ticks and starts the counters stay within their limits:
\* no attempt beyond the last one, no tick beyond the last one.
THEOREM SplashTypeCorrect == Spec => []TypeOK
  BY SplashNavigatesOnce, PTL
=============================================================================
