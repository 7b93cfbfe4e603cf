---------------------------- MODULE PaymentProofs ----------------------------
(***************************************************************************)
(* Proofs about Payment for every set of tries and gateways, every total    *)
(* and every advance percentage.                                             *)
(***************************************************************************)
EXTENDS Payment, TLAPS

\* A try is charged before FlutterWave verifies it and before it is saved.
ChargedFirst ==
  \A c \in Tries :
    tries[c].method \in Online /\ tries[c].pc \in SavePcs \cup {"verify"} => tries[c].charged

TriesOK == tries \in [Tries -> TryType] /\ loading \in BOOLEAN
RestOK ==
  /\ booking \in [advance : BOOLEAN, view : Views]
  /\ seen \in Views \cup {None}
  /\ screen \in ScreenType
\* A mounted try belongs to the open screen, and so does a dialog.
ShownOnScreen ==
  \A c \in Tries : /\ tries[c].mounted => screen.open /\ screen.method # None
                   /\ tries[c].pc = "confirm" => tries[c].mounted
ControlInv == TriesOK /\ ChargedFirst /\ LoaderHasReason

\* The opening arguments, the closed screen and the unused try have their types.
LEMMA BlankTypes ==
  /\ FreshView \in Views
  /\ DialogArgs \in Args
  /\ Closed \in ScreenType
  /\ NoTry \in TryType
<1>1. FreshView \in Views
  BY DEF FreshView, Views, PaymentStatuses
<1>2. DialogArgs \in Args
  BY <1>1 DEF DialogArgs, Args
<1> QED
  BY <1>1, <1>2 DEF Closed, ScreenType, NoTry, TryType, Pcs, SavePcs

\* One try changes: enough that it was charged if it is saved, and that it either keeps
\* the loader busy or was no reason for it.
LEMMA OneTry ==
  ASSUME ControlInv, NEW c \in Tries, NEW t \in TryType, NEW b \in BOOLEAN,
         tries' = [tries EXCEPT ![c] = t],
         loading' = b,
         t.method \in Online /\ t.pc \in SavePcs \cup {"verify"} => t.charged,
         b => \/ KeepsLoader(t)
              \/ loading /\ ~KeepsLoader(tries[c])
  PROVE  ControlInv'
<1>1. tries' \in [Tries -> TryType] /\ loading' \in BOOLEAN
  BY DEF ControlInv, TriesOK
<1>2. tries'[c] = t /\ \A d \in Tries \ {c} : tries'[d] = tries[d]
  BY DEF ControlInv, TriesOK
<1>3. ChargedFirst'
  BY <1>2 DEF ControlInv, ChargedFirst
<1>4. LoaderHasReason'
  BY <1>2 DEF ControlInv, LoaderHasReason
<1> QED
  BY <1>1, <1>3, <1>4 DEF ControlInv, TriesOK

\* A try moves to a state that needs no charge, with a loader that state accounts for.
LEMMA GoesTo ==
  ASSUME ControlInv, NEW c \in Tries, NEW p \in Pcs \ (SavePcs \cup {"verify"}),
         NEW b \in BOOLEAN, Goes(c, p), loading' = b,
         b => p \in BusyPcs \/ (loading /\ ~KeepsLoader(tries[c]))
  PROVE  ControlInv'
<1>1. tries[c] \in TryType
  BY DEF ControlInv, TriesOK
<1> DEFINE t == [tries[c] EXCEPT !.pc = p]
<1>2. t \in TryType /\ t.pc = p /\ t.method = tries[c].method /\ t.charged = tries[c].charged
  BY <1>1 DEF TryType
<1>3. tries' = [tries EXCEPT ![c] = t]
  BY DEF Goes
<1>4. p \in BusyPcs => KeepsLoader(t)
  BY <1>2 DEF KeepsLoader
<1> HIDE DEF t
<1> QED
  BY <1>2, <1>3, <1>4, OneTry

\* A charged try moves to being saved.
LEMMA GoesSaving ==
  ASSUME ControlInv, NEW c \in Tries, NEW p \in SavePcs, NEW b \in BOOLEAN,
         Goes(c, p), loading' = b,
         tries[c].charged \/ tries[c].method \notin Online,
         b => p \in BusyPcs \/ (loading /\ ~KeepsLoader(tries[c]))
  PROVE  ControlInv'
<1>1. tries[c] \in TryType
  BY DEF ControlInv, TriesOK
<1> DEFINE t == [tries[c] EXCEPT !.pc = p]
<1>2. t \in TryType /\ t.pc = p /\ t.method = tries[c].method /\ t.charged = tries[c].charged
  BY <1>1 DEF TryType, Pcs
<1>3. tries' = [tries EXCEPT ![c] = t]
  BY DEF Goes
<1>4. p \in BusyPcs => KeepsLoader(t)
  BY <1>2 DEF KeepsLoader
<1> HIDE DEF t
<1> QED
  BY <1>2, <1>3, <1>4, OneTry

\* The tries lose their screen, their pages or their dialogs, without being saved by it.
LEMMA AllTries ==
  ASSUME ControlInv, NEW b \in BOOLEAN, loading' = b,
         tries' \in [Tries -> TryType],
         \A c \in Tries : /\ tries'[c].method = tries[c].method
                          /\ tries'[c].charged = tries[c].charged
                          /\ tries'[c].pc \in SavePcs \cup {"verify"}
                               => tries[c].pc \in SavePcs \cup {"verify"},
         b => \/ loading /\ \A c \in Tries : tries'[c].pc = tries[c].pc
              \/ \E c \in Tries : KeepsLoader(tries'[c])
  PROVE  ControlInv'
<1>1. ChargedFirst'
  BY DEF ControlInv, ChargedFirst
<1>2. LoaderHasReason'
  BY DEF ControlInv, LoaderHasReason, KeepsLoader
<1> QED
  BY <1>1, <1>2 DEF ControlInv, TriesOK

\* Nothing about the tries or the loader changes.
LEMMA NoTryChanges ==
  ASSUME ControlInv, UNCHANGED <<tries, loading>>
  PROVE  ControlInv'
BY DEF ControlInv, TriesOK, ChargedFirst, LoaderHasReason

\* What _handleClick can leave behind: a state, a loader that state accounts for, and a
\* save only of a direct method.
LEMMA DispatchFacts ==
  ASSUME NEW m \in Methods, NEW d \in Dispatch(m), loading \in BOOLEAN
  PROVE  /\ d.pc \in Pcs
         /\ d.loader \in BOOLEAN
         /\ d.pc \in SavePcs \cup {"verify"} => m \notin Online
         /\ d.loader => \/ d.pc \in BusyPcs
                        \/ d.pc = "checkout" /\ m \notin Unloaded
                        \/ loading
         /\ d.pc \notin {"confirm", "verify"}
<1>1. CASE m \in Direct
  <2>1. Dispatch(m) = {To("saving", TRUE)}
    BY <1>1 DEF Dispatch, Direct, Unavailable
  <2>2. (d.pc = "saving" /\ d.loader = TRUE)
    BY <2>1 DEF To
  <2> QED
    BY <1>1, <2>2 DEF Pcs, SavePcs, BusyPcs, Direct, Online, CallbackDropped, Paged, Unavailable
<1>2. CASE m = "stripe"
  <2>1. Dispatch(m) = {To("settings", loading), To("failed", FALSE)}
    BY <1>2 DEF Dispatch, Direct, Unavailable
  <2>2. (d.pc = "settings" /\ d.loader = loading) \/ (d.pc = "failed" /\ d.loader = FALSE)
    BY <2>1 DEF To
  <2> QED
    BY <1>2, <2>2 DEF Pcs, SavePcs, BusyPcs
<1>3. CASE m = "razor"
  <2>1. Dispatch(m) = {To("checkout", TRUE), To("failed", FALSE)}
    BY <1>3 DEF Dispatch, Direct, Unavailable
  <2>2. (d.pc = "checkout" /\ d.loader = TRUE) \/ (d.pc = "failed" /\ d.loader = FALSE)
    BY <2>1 DEF To
  <2> QED
    BY <1>3, <2>2 DEF Pcs, SavePcs, BusyPcs, Unloaded
<1>4. CASE m \in {"cinetpay", "paypal"}
  <2>1. Dispatch(m) = {To("checkout", TRUE), To("stuck", TRUE)}
    BY <1>4 DEF Dispatch, Direct, Unavailable
  <2>2. (d.pc = "checkout" /\ d.loader = TRUE) \/ (d.pc = "stuck" /\ d.loader = TRUE)
    BY <2>1 DEF To
  <2> QED
    BY <1>4, <2>2 DEF Pcs, SavePcs, BusyPcs, Unloaded
<1>5. CASE m \in {"flutterwave", "airtel"}
  <2>1. Dispatch(m) = {To("checkout", TRUE)}
    BY <1>5 DEF Dispatch, Direct, Unavailable
  <2>2. (d.pc = "checkout" /\ d.loader = TRUE)
    BY <2>1 DEF To
  <2> QED
    BY <1>5, <2>2 DEF Pcs, SavePcs, BusyPcs, Unloaded
<1>6. CASE m \in Unavailable
  <2>1. Dispatch(m) = {To("delay", TRUE)}
    BY <1>6 DEF Dispatch, Direct, Unavailable
  <2>2. (d.pc = "delay" /\ d.loader = TRUE)
    BY <2>1 DEF To
  <2> QED
    BY <1>6, <2>2 DEF Pcs, SavePcs, BusyPcs
<1>7. CASE m = "sadad"
  <2>1. Dispatch(m) = {To("invoice", TRUE), To("failed", FALSE)}
    BY <1>7 DEF Dispatch, Direct, Unavailable
  <2>2. (d.pc = "invoice" /\ d.loader = TRUE) \/ (d.pc = "failed" /\ d.loader = FALSE)
    BY <2>1 DEF To
  <2> QED
    BY <1>7, <2>2 DEF Pcs, SavePcs, BusyPcs, Unloaded
<1>8. CASE m = "phonepe"
  <2>1. Dispatch(m) = {To("sdk", TRUE)}
    BY <1>8 DEF Dispatch, Direct, Unavailable
  <2>2. (d.pc = "sdk" /\ d.loader = TRUE)
    BY <2>1 DEF To
  <2> QED
    BY <1>8, <2>2 DEF Pcs, SavePcs, BusyPcs, Unloaded
<1> QED
  BY <1>1, <1>2, <1>3, <1>4, <1>5, <1>6, <1>7, <1>8
  DEF Methods, Online, CallbackDropped, Paged, Unavailable

\* _handleClick: a direct method is saved at once, an online one goes to its gateway.
LEMMA HandleClickControl ==
  ASSUME ControlInv, screen \in ScreenType, screen.method # None,
         NEW c \in Tries, HandleClick(c), ~KeepsLoader(tries[c])
  PROVE  /\ ControlInv'
         /\ tries'[c].mounted /\ tries'[c].pc # "confirm" /\ tries'[c].args = screen.args
         /\ \A d \in Tries \ {c} : tries'[d] = tries[d]
<1>1. screen.method \in Methods /\ screen.args \in Args
  BY DEF ScreenType
<1>2. PICK d \in Dispatch(screen.method) :
        /\ tries' = [tries EXCEPT ![c] =
                   [pc |-> d.pc, method |-> screen.method, args |-> screen.args,
                    mounted |-> TRUE, page |-> d.pc = "checkout", charged |-> FALSE]]
        /\ loading' = d.loader
  BY DEF HandleClick
<1> DEFINE p == d.pc
           b == d.loader
<1>3. /\ p \in Pcs
      /\ b \in BOOLEAN
      /\ p \in SavePcs \cup {"verify"} => screen.method \notin Online
      /\ b => \/ p \in BusyPcs
              \/ p = "checkout" /\ screen.method \notin Unloaded
              \/ loading
      /\ p # "confirm"
  BY <1>1, DispatchFacts DEF ControlInv, TriesOK
<1> DEFINE t == [pc |-> p, method |-> screen.method, args |-> screen.args,
                 mounted |-> TRUE, page |-> p = "checkout", charged |-> FALSE]
<1>4. tries' = [tries EXCEPT ![c] = t] /\ loading' = b
  BY <1>2
<1> HIDE DEF p, b
<1>5. t \in TryType
  BY <1>1, <1>3 DEF TryType
<1>6. t.pc = p /\ t.method = screen.method /\ t.mounted /\ t.args = screen.args
  OBVIOUS
<1> HIDE DEF t
<1>9. b => KeepsLoader(t) \/ loading
  BY <1>3, <1>6 DEF KeepsLoader
<1>7. ControlInv'
  BY <1>3, <1>4, <1>5, <1>6, <1>9, OneTry
<1>8. tries'[c] = t /\ \A e \in Tries \ {c} : tries'[e] = tries[e]
  BY <1>4 DEF ControlInv, TriesOK
<1> QED
  BY <1>3, <1>6, <1>7, <1>8

\* A route that is popped ends its dialog or its checkout and changes nothing else.
LEMMA PoppedFacts ==
  ASSUME NEW t \in TryType
  PROVE  /\ Popped(t) \in TryType
         /\ Popped(t).method = t.method
         /\ Popped(t).args = t.args
         /\ Popped(t).charged = t.charged
         /\ Popped(t).mounted = t.mounted
         /\ Popped(t).pc \in {t.pc, "stuck", "failed"}
         /\ Popped(t).pc # "confirm"
         /\ t.pc \notin {"confirm", "checkout"} => Popped(t).pc = t.pc
         /\ t.pc = "checkout" /\ t.method = "phonepe" => Popped(t).pc = "stuck"
<1> DEFINE p == IF t.pc \notin {"confirm", "checkout"} THEN t.pc
                ELSE IF t.method = "phonepe" THEN "stuck" ELSE "failed"
<1>1. /\ p \in Pcs /\ p \in {t.pc, "stuck", "failed"} /\ p # "confirm"
      /\ t.pc \notin {"confirm", "checkout"} => p = t.pc
      /\ t.pc = "checkout" /\ t.method = "phonepe" => p = "stuck"
  BY DEF TryType, Pcs
<1>2. Popped(t) = [t EXCEPT !.page = FALSE, !.pc = p]
  BY DEF Popped
<1> HIDE DEF p
<1>3. /\ Popped(t) \in TryType
      /\ Popped(t).method = t.method
      /\ Popped(t).args = t.args
      /\ Popped(t).charged = t.charged
      /\ Popped(t).mounted = t.mounted
  BY <1>1, <1>2 DEF TryType
<1>4. Popped(t).pc = p
  BY <1>2 DEF TryType
<1> QED
  BY <1>1, <1>3, <1>4

\* Where a try is once save-payment may have counted it.
CountedPcs == {"applied", "recorded", "unsaved", "killed"}

\* What a step does to the tries that may pop a route or all of them.
RouteEffect ==
  /\ tries' \in [Tries -> TryType]
  /\ \A d \in Tries :
       /\ tries'[d].method = tries[d].method
       /\ tries'[d].args = tries[d].args
       /\ tries'[d].charged = tries[d].charged
       /\ tries'[d].mounted \in {tries[d].mounted, FALSE}
       /\ tries'[d].pc \in SavePcs \cup {"verify"} => tries[d].pc \in SavePcs \cup {"verify"}
       /\ tries'[d].pc = "confirm" => tries[d].pc = "confirm" /\ tries'[d].mounted = tries[d].mounted
       /\ tries[d].pc \in CountedPcs => tries'[d].pc \in CountedPcs
  /\ \/ screen' = screen
     \/ screen' = Closed /\ \A d \in Tries : ~tries'[d].mounted /\ tries'[d].pc # "confirm"

\* A try is recorded or stuck, and a route or all of them may be popped.
LEMMA PopEffect ==
  ASSUME ControlInv, NEW c \in Tries, NEW q \in {"recorded", "stuck"},
         q = "recorded" => tries[c].pc = "applied",
         q = "stuck" => tries[c].pc = "sdk",
         LET done == [tries EXCEPT ![c].pc = q]
         IN  \/ tries' = done /\ screen' = screen
             \/ /\ \E d \in Tries : /\ IsRoute(done[d])
                                    /\ tries' = [done EXCEPT ![d] = Popped(done[d])]
                /\ screen' = screen
             \/ tries' = Left(done) /\ screen' = Closed
  PROVE  RouteEffect /\ tries'[c].pc = q
<1> USE DEF Pcs, SavePcs, CountedPcs
<1> DEFINE done == [tries EXCEPT ![c].pc = q]
           routes == {d \in Tries : IsRoute(done[d])}
           gone(d) == IF IsRoute(done[d]) THEN Popped(done[d]) ELSE done[d]
           left == [d \in Tries |-> [gone(d) EXCEPT !.mounted = FALSE]]
<1>1. /\ done \in [Tries -> TryType]
      /\ done[c].pc = q
      /\ \A d \in Tries :
           /\ done[d].method = tries[d].method
           /\ done[d].args = tries[d].args
           /\ done[d].charged = tries[d].charged
           /\ done[d].mounted = tries[d].mounted
           /\ done[d].pc = tries[d].pc \/ (d = c /\ done[d].pc = q)
  BY DEF ControlInv, TriesOK, TryType
<1>2. /\ q = "recorded" => tries[c].pc = "applied"
      /\ q = "stuck" => tries[c].pc = "sdk"
  OBVIOUS
<1>3. \/ tries' = done /\ screen' = screen
      \/ /\ \E d \in routes : tries' = [done EXCEPT ![d] = Popped(done[d])]
         /\ screen' = screen
      \/ tries' = left /\ screen' = Closed
  BY Zenon DEF Left
<1>4. \A d \in Tries : done[d].pc = "confirm" => IsRoute(done[d])
  BY DEF IsRoute
<1>5. routes \subseteq Tries
  OBVIOUS
<1> HIDE DEF done, routes
<1>6. CASE tries' = done /\ screen' = screen
  BY <1>1, <1>2, <1>6 DEF RouteEffect
<1>7. ASSUME NEW d \in routes, tries' = [done EXCEPT ![d] = Popped(done[d])], screen' = screen
      PROVE  RouteEffect /\ tries'[c].pc = q
  <2>1. done[d] \in TryType /\ d \in Tries
    BY <1>1, <1>5
  <2> DEFINE t == Popped(done[d])
  <2>2. /\ t \in TryType
        /\ t.method = done[d].method /\ t.args = done[d].args /\ t.charged = done[d].charged
        /\ t.mounted = done[d].mounted /\ t.pc \in {done[d].pc, "stuck", "failed"}
        /\ t.pc # "confirm"
        /\ done[d].pc \notin {"confirm", "checkout"} => t.pc = done[d].pc
    BY <2>1, PoppedFacts
  <2>3. tries' = [done EXCEPT ![d] = t]
    BY <1>7
  <2> HIDE DEF t
  <2>4. tries' \in [Tries -> TryType] /\ tries'[d] = t
        /\ \A e \in Tries \ {d} : tries'[e] = done[e]
    BY <1>1, <2>1, <2>2, <2>3
  <2>5. ASSUME NEW e \in Tries
        PROVE  /\ tries'[e].method = tries[e].method
               /\ tries'[e].args = tries[e].args
               /\ tries'[e].charged = tries[e].charged
               /\ tries'[e].mounted = tries[e].mounted
               /\ tries'[e].pc \in {done[e].pc, "stuck", "failed"}
               /\ done[e].pc \notin {"confirm", "checkout"} => tries'[e].pc = done[e].pc
    BY <1>1, <2>1, <2>2, <2>4
  <2>6. ASSUME NEW e \in Tries
        PROVE  /\ tries'[e].pc \in SavePcs \cup {"verify"}
                    => tries[e].pc \in SavePcs \cup {"verify"}
               /\ tries'[e].pc = "confirm" => tries[e].pc = "confirm"
               /\ tries[e].pc \in CountedPcs => tries'[e].pc \in CountedPcs
    BY <1>1, <1>2, <2>5
  <2> QED
    BY <1>1, <1>7, <2>4, <2>5, <2>6 DEF RouteEffect
<1>8. CASE tries' = left /\ screen' = Closed
  <2>1. ASSUME NEW d \in Tries
        PROVE  /\ gone(d) \in TryType
               /\ gone(d).method = done[d].method
               /\ gone(d).args = done[d].args
               /\ gone(d).charged = done[d].charged
               /\ gone(d).pc \in {done[d].pc, "stuck", "failed"}
               /\ gone(d).pc # "confirm"
               /\ done[d].pc \notin {"confirm", "checkout"} => gone(d).pc = done[d].pc
    <3>1. done[d] \in TryType
      BY <1>1
    <3> QED
      BY <1>4, <3>1, PoppedFacts
  <2> HIDE DEF gone
  <2>2. ASSUME NEW d \in Tries
        PROVE  /\ left[d] \in TryType
               /\ left[d].method = gone(d).method
               /\ left[d].args = gone(d).args
               /\ left[d].charged = gone(d).charged
               /\ left[d].mounted = FALSE
               /\ left[d].pc = gone(d).pc
    BY <2>1 DEF TryType
  <2>3. left \in [Tries -> TryType]
    BY <2>2
  <2> HIDE DEF left
  <2>4. ASSUME NEW e \in Tries
        PROVE  /\ left[e].method = tries[e].method
               /\ left[e].args = tries[e].args
               /\ left[e].charged = tries[e].charged
               /\ left[e].mounted = FALSE
               /\ left[e].pc \in {done[e].pc, "stuck", "failed"}
               /\ left[e].pc # "confirm"
               /\ done[e].pc \notin {"confirm", "checkout"} => left[e].pc = done[e].pc
    BY <1>1, <2>1, <2>2
  <2>5. ASSUME NEW e \in Tries
        PROVE  /\ left[e].pc \in SavePcs \cup {"verify"}
                    => tries[e].pc \in SavePcs \cup {"verify"}
               /\ tries[e].pc \in CountedPcs => left[e].pc \in CountedPcs
    BY <1>1, <1>2, <2>4
  <2> QED
    BY <1>1, <1>8, <2>3, <2>4, <2>5 DEF RouteEffect
<1> QED
  BY <1>3, <1>6, <1>7, <1>8

\* The answer of save-payment, in each of its outcomes.
LEMMA SaveAnsweredEffect ==
  ASSUME ControlInv, NEW c \in Tries, SaveAnswered(c)
  PROVE  RouteEffect /\ loading' = FALSE
<1>1. tries[c].pc = "applied"
  BY DEF SaveAnswered, At
<1> DEFINE done == [tries EXCEPT ![c].pc = "recorded"]
<1>2. /\ \/ tries' = done /\ screen' = screen
         \/ Finish(done, FALSE)
         \/ tries' = Left(done) /\ screen' = Closed
      /\ loading' = FALSE \/ Finish(done, FALSE)
  BY Zenon DEF SaveAnswered
<1>3. /\ \/ tries' = done /\ screen' = screen
         \/ /\ \E d \in Tries : IsRoute(done[d]) /\ tries' = [done EXCEPT ![d] = Popped(done[d])]
            /\ screen' = screen
         \/ tries' = Left(done) /\ screen' = Closed
      /\ loading' = FALSE
  BY <1>2, Zenon DEF Finish
<1> QED
  BY <1>1, <1>3, PopEffect, Zenon

\* The end of PhonePe's initialisation: whatever keeps the loader on is this try.
LEMMA PhonePeEffect ==
  ASSUME ControlInv, NEW c \in Tries, PhonePeInit(c)
  PROVE  /\ RouteEffect
         /\ loading' \in BOOLEAN
         /\ loading' => KeepsLoader(tries'[c])
<1>1. tries[c] \in TryType /\ tries \in [Tries -> TryType] /\ loading \in BOOLEAN
  BY DEF ControlInv, TriesOK
<1>2. tries[c].pc = "sdk" /\ tries[c].method = "phonepe"
  BY DEF PhonePeInit, At
<1>3. CASE tries' = [tries EXCEPT ![c].pc = "checkout", ![c].page = TRUE]
           /\ UNCHANGED <<screen, loading>>
  BY <1>1, <1>2, <1>3 DEF RouteEffect, KeepsLoader, Unloaded, TryType, Pcs, SavePcs,
     CountedPcs
<1>4. CASE Goes(c, "stuck") /\ UNCHANGED <<screen, loading>>
  BY <1>1, <1>2, <1>4 DEF Goes, RouteEffect, KeepsLoader, BusyPcs, TryType, Pcs, SavePcs,
     CountedPcs
<1>5. CASE Goes(c, "failed") /\ loading' = FALSE /\ UNCHANGED screen
  BY <1>1, <1>2, <1>5 DEF Goes, RouteEffect, TryType, Pcs, SavePcs, CountedPcs
<1>6. CASE Finish([tries EXCEPT ![c].pc = "stuck"], loading)
  <2> DEFINE done == [tries EXCEPT ![c].pc = "stuck"]
  <2>1. \/ /\ \E d \in Tries : IsRoute(done[d]) /\ tries' = [done EXCEPT ![d] = Popped(done[d])]
           /\ screen' = screen
        \/ tries' = Left(done) /\ screen' = Closed
    BY <1>6, Zenon DEF Finish
  <2>2. loading' \in BOOLEAN
    BY <1>1, <1>6 DEF Finish
  <2>3. RouteEffect /\ tries'[c].pc = "stuck"
    BY <1>2, <2>1, PopEffect, Zenon
  <2> QED
    BY <2>2, <2>3 DEF KeepsLoader, BusyPcs
<1> QED
  BY <1>3, <1>4, <1>5, <1>6 DEF PhonePeInit

\* Every step of a try keeps what is known of the tries and the loader.
LEMMA TryControl ==
  ASSUME ControlInv, RestOK, ShownOnScreen, NEW c \in Tries, TryStep(c)
  PROVE  ControlInv'
<1> USE DEF Pcs, SavePcs, BusyPcs, At
<1>0. tries[c] \in TryType /\ loading \in BOOLEAN /\ screen \in ScreenType
  BY DEF ControlInv, TriesOK, RestOK
<1>1. ASSUME Tap(c)
       PROVE  ControlInv'
  <2>1. CASE screen.method \in Direct
    <3> DEFINE p == IF screen.method = "wallet" THEN "balance" ELSE "confirm"
               b == IF screen.method = "wallet" THEN TRUE ELSE loading
               t == [NoTry EXCEPT !.pc = p, !.args = screen.args, !.mounted = TRUE]
    <3>1. tries' = [tries EXCEPT ![c] = t] /\ loading' = b
      BY <1>1, <2>1 DEF Tap
    <3>2. p \in {"balance", "confirm"} /\ b \in BOOLEAN /\ screen.args \in Args
      BY <1>0 DEF ScreenType
    <3>3. b => p \in BusyPcs \/ loading
      OBVIOUS
    <3>4. ~KeepsLoader(tries[c])
      BY <1>1 DEF Tap, KeepsLoader
    <3> HIDE DEF p, b
    <3>5. t \in TryType /\ t.pc = p
      BY <3>2, BlankTypes DEF TryType
    <3> HIDE DEF t
    <3>6. b => KeepsLoader(t) \/ loading
      BY <3>3, <3>5 DEF KeepsLoader
    <3> QED
      BY <3>1, <3>2, <3>4, <3>5, <3>6, OneTry
  <2>2. CASE screen.method \notin Direct
    <3>1. ~KeepsLoader(tries[c])
      BY <1>1 DEF Tap, KeepsLoader
    <3> QED
      BY <1>0, <1>1, <2>2, <3>1, HandleClickControl DEF Tap
  <2> QED
    BY <2>1, <2>2
<1>2. ASSUME BalanceKnown(c)
       PROVE  ControlInv'
  BY <1>2, GoesTo DEF BalanceKnown
<1>3. ASSUME Accept(c)
       PROVE  ControlInv'
  <2>1. screen.method # None /\ ~KeepsLoader(tries[c])
    BY <1>3 DEF Accept, ShownOnScreen, KeepsLoader
  <2> QED
    BY <1>0, <1>3, <2>1, HandleClickControl DEF Accept
<1>4. ASSUME Decline(c)
       PROVE  ControlInv'
  <2>1. ~KeepsLoader(tries[c])
    BY <1>4 DEF Decline, KeepsLoader
  <2> QED
    BY <1>0, <1>4, <2>1, GoesTo DEF Decline
<1>5. ASSUME StripeSettings(c)
       PROVE  ControlInv'
  BY <1>5, GoesTo DEF StripeSettings
<1>6. ASSUME StripeIntent(c)
       PROVE  ControlInv'
  BY <1>6, GoesTo DEF StripeIntent
<1>7. ASSUME StripePresent(c)
       PROVE  ControlInv'
  <2>1. CASE Goes(c, "failed") /\ loading' = FALSE
    BY <2>1, GoesTo
  <2>2. CASE /\ tries' = [tries EXCEPT ![c].pc = "checkout", ![c].page = TRUE]
             /\ UNCHANGED loading
    <3> DEFINE t == [tries[c] EXCEPT !.pc = "checkout", !.page = TRUE]
    <3>1. tries' = [tries EXCEPT ![c] = t]
      BY <1>0, <2>2
    <3>2. t \in TryType /\ t.pc = "checkout"
      BY <1>0 DEF TryType
    <3> HIDE DEF t
    <3>3. ~KeepsLoader(tries[c])
      BY <1>7 DEF StripePresent, KeepsLoader
    <3> QED
      BY <1>0, <2>2, <3>1, <3>2, <3>3, OneTry
  <2> QED
    BY <1>7, <2>1, <2>2 DEF StripePresent
<1>8. ASSUME DelayEnds(c)
       PROVE  ControlInv'
  BY <1>8, GoesTo DEF DelayEnds
<1>9. ASSUME GatewayCharges(c)
       PROVE  ControlInv'
  <2> DEFINE p == CASE tries[c].method \in CallbackDropped -> "lost"
                    [] tries[c].method = "flutterwave" -> "verify"
                    [] OTHER -> "saving"
             g == tries[c].method \in Paged \cup {"phonepe"}
             b == p # "lost"
             t == [tries[c] EXCEPT !.pc = p, !.charged = TRUE, !.page = g]
  <2>1. tries' = [tries EXCEPT ![c] = t] /\ loading' = b
    <3>1. tries' = [tries EXCEPT ![c].pc = p, ![c].charged = TRUE, ![c].page = g]
      BY <1>9 DEF GatewayCharges
    <3>2. loading' = (p # "lost")
      BY <1>9, Zenon DEF GatewayCharges
    <3> HIDE DEF p, g
    <3> QED
      BY <1>0, <3>1, <3>2
  <2>2. p \in {"lost", "verify", "saving"} /\ g \in BOOLEAN /\ b \in BOOLEAN
    BY DEF CallbackDropped
  <2>3. b => p \in BusyPcs
    BY <2>2
  <2> HIDE DEF p, g, b
  <2>4. t \in TryType /\ t.pc = p /\ t.charged
    BY <1>0, <2>2 DEF TryType
  <2> HIDE DEF t
  <2>5. b => KeepsLoader(t)
    BY <2>3, <2>4 DEF KeepsLoader
  <2> QED
    BY <2>1, <2>2, <2>4, <2>5, OneTry
<1>10. ASSUME GatewayFails(c)
       PROVE  ControlInv'
  <2> DEFINE g == tries[c].method = "cinetpay"
             b == loading /\ tries[c].method = "sadad"
             t == [tries[c] EXCEPT !.pc = "failed", !.page = g]
  <2>1. tries' = [tries EXCEPT ![c] = t] /\ loading' = b
    BY <1>0, <1>10 DEF GatewayFails
  <2>2. g \in BOOLEAN /\ b \in BOOLEAN /\ (b => loading /\ tries[c].method = "sadad")
    BY <1>0
  <2>3. b => ~KeepsLoader(tries[c])
    BY <1>10, <2>2 DEF GatewayFails, KeepsLoader, Unloaded
  <2> HIDE DEF g, b
  <2>4. t \in TryType /\ t.pc = "failed"
    BY <1>0, <2>2 DEF TryType
  <2> HIDE DEF t
  <2> QED
    BY <2>1, <2>2, <2>3, <2>4, OneTry
<1>11. ASSUME Verify(c)
       PROVE  ControlInv'
  <2>1. tries[c].charged \/ tries[c].method \notin Online
    BY <1>11 DEF Verify, ControlInv, ChargedFirst
  <2>2. CASE Goes(c, "saving") /\ loading' = TRUE
    BY <2>1, <2>2, GoesSaving
  <2>3. CASE Goes(c, "lost") /\ loading' = FALSE
    BY <2>3, GoesTo
  <2> QED
    BY <1>11, <2>2, <2>3 DEF Verify
<1>12. ASSUME AirtelRequest(c)
       PROVE  ControlInv'
  <2>1. tries' = tries /\ loading' = TRUE
    BY <1>12 DEF AirtelRequest
  <2>2. KeepsLoader(tries[c])
    BY <1>12 DEF AirtelRequest, KeepsLoader, Unloaded
  <2> QED
    BY <2>1, <2>2 DEF ControlInv, TriesOK, ChargedFirst, LoaderHasReason, KeepsLoader
<1>15. ASSUME PageCloses(c)
       PROVE  ControlInv'
  <2> DEFINE t == Popped(tries[c])
             b == loading /\ tries[c].method = "phonepe"
  <2>1. tries' = [tries EXCEPT ![c] = t] /\ loading' = b
    BY <1>15 DEF PageCloses
  <2>2. b \in BOOLEAN /\ (b => loading /\ tries[c].method = "phonepe")
    BY <1>0
  <2>3. /\ t \in TryType /\ t.method = tries[c].method /\ t.charged = tries[c].charged
        /\ t.pc \in {tries[c].pc, "stuck", "failed"}
        /\ tries[c].pc \notin {"confirm", "checkout"} => t.pc = tries[c].pc
        /\ tries[c].pc = "checkout" /\ tries[c].method = "phonepe" => t.pc = "stuck"
    BY <1>0, PoppedFacts
  <2> HIDE DEF t, b
  <2>4. t.method \in Online /\ t.pc \in SavePcs \cup {"verify"} => t.charged
    BY <2>3 DEF ControlInv, ChargedFirst
  <2>5. b => KeepsLoader(t) \/ ~KeepsLoader(tries[c])
    BY <2>2, <2>3 DEF KeepsLoader
  <2> QED
    BY <2>1, <2>2, <2>3, <2>4, <2>5, OneTry
<1>16. ASSUME SaveApplies(c)
       PROVE  ControlInv'
  BY <1>0, <1>16, GoesSaving DEF SaveApplies, ControlInv, ChargedFirst
<1>17. ASSUME SaveAnswered(c)
       PROVE  ControlInv'
  <2>1. RouteEffect /\ loading' = FALSE
    BY <1>17, SaveAnsweredEffect
  <2> QED
    BY <2>1, AllTries DEF RouteEffect
<1>18. ASSUME SaveFails(c)
       PROVE  ControlInv'
  BY <1>18, GoesSaving DEF SaveFails, ControlInv, ChargedFirst
<1>19. ASSUME SadadInvoice(c)
       PROVE  ControlInv'
  <2>1. CASE Goes(c, "failed") /\ loading' = FALSE
    BY <2>1, GoesTo
  <2>2. CASE /\ tries' = [tries EXCEPT ![c].pc = "checkout", ![c].page = TRUE]
             /\ loading' = FALSE
    <3> DEFINE t == [tries[c] EXCEPT !.pc = "checkout", !.page = TRUE]
    <3>1. tries' = [tries EXCEPT ![c] = t]
      BY <1>0, <2>2
    <3>2. t \in TryType /\ t.pc = "checkout"
      BY <1>0 DEF TryType
    <3> HIDE DEF t
    <3> QED
      BY <2>2, <3>1, <3>2, OneTry
  <2> QED
    BY <1>19, <2>1, <2>2 DEF SadadInvoice
<1>20. ASSUME PhonePeInit(c)
       PROVE  ControlInv'
  <2>1. /\ RouteEffect
        /\ loading' \in BOOLEAN
        /\ loading' => KeepsLoader(tries'[c])
    BY <1>20, PhonePeEffect
  <2> QED
    BY <2>1, AllTries DEF RouteEffect
<1> QED
  BY <1>1, <1>2, <1>3, <1>4, <1>5, <1>6, <1>7, <1>8, <1>9, <1>10, <1>11, <1>12, <1>15,
     <1>16, <1>17, <1>18, <1>19, <1>20 DEF TryStep

\* Most steps of a try touch neither the screen nor the other tries.
Local(c) ==
  /\ screen' = screen /\ seen' = seen
  /\ \A d \in Tries \ {c} : tries'[d] = tries[d]
  /\ tries'[c].args = tries[c].args
  /\ tries'[c].mounted = tries[c].mounted
  /\ tries'[c].pc = "confirm" => tries[c].mounted

\* A try that only moves on is such a step.
LEMMA GoesLocal ==
  ASSUME TriesOK, NEW c \in Tries, NEW p, Goes(c, p), p = "confirm" => tries[c].mounted,
         screen' = screen, seen' = seen
  PROVE  Local(c)
BY DEF TriesOK, TryType, Goes, Local

\* All steps of a try but the tap, the accepted dialog, the answer of save-payment and the
\* end of PhonePe's initialisation.
LEMMA LocalSteps ==
  ASSUME ControlInv, ShownOnScreen, NEW c \in Tries,
         \/ BalanceKnown(c)
         \/ Decline(c)
         \/ StripeSettings(c)
         \/ StripeIntent(c)
         \/ StripePresent(c)
         \/ DelayEnds(c)
         \/ SadadInvoice(c)
         \/ GatewayCharges(c)
         \/ GatewayFails(c)
         \/ Verify(c)
         \/ AirtelRequest(c)
         \/ PageCloses(c)
         \/ SaveApplies(c)
         \/ SaveFails(c)
  PROVE  Local(c)
<1> USE DEF Untouched
<1>0. TriesOK
  BY DEF ControlInv
<1>1. ASSUME BalanceKnown(c)
       PROVE  Local(c)
  BY <1>0, <1>1, GoesLocal DEF BalanceKnown
<1>2. ASSUME Decline(c)
       PROVE  Local(c)
  BY <1>0, <1>2, GoesLocal DEF Decline
<1>3. ASSUME StripeSettings(c)
       PROVE  Local(c)
  BY <1>0, <1>3, GoesLocal DEF StripeSettings
<1>4. ASSUME StripeIntent(c)
       PROVE  Local(c)
  BY <1>0, <1>4, GoesLocal DEF StripeIntent
<1>5. ASSUME StripePresent(c)
       PROVE  Local(c)
  <2>1. CASE Goes(c, "failed")
    BY <1>0, <1>5, <2>1, GoesLocal DEF StripePresent
  <2>2. CASE tries' = [tries EXCEPT ![c].pc = "checkout", ![c].page = TRUE]
    BY <1>0, <1>5, <2>2 DEF StripePresent, TriesOK, TryType, Local
  <2> QED
    BY <1>5, <2>1, <2>2 DEF StripePresent
<1>6. ASSUME DelayEnds(c)
       PROVE  Local(c)
  BY <1>0, <1>6, GoesLocal DEF DelayEnds
<1>7. ASSUME GatewayCharges(c)
       PROVE  Local(c)
  <2> DEFINE p == CASE tries[c].method \in CallbackDropped -> "lost"
                    [] tries[c].method = "flutterwave" -> "verify"
                    [] OTHER -> "saving"
             g == tries[c].method \in Paged \cup {"phonepe"}
  <2>1. tries' = [tries EXCEPT ![c].pc = p, ![c].charged = TRUE, ![c].page = g]
    BY <1>7 DEF GatewayCharges
  <2>2. p # "confirm"
    BY DEF CallbackDropped
  <2> HIDE DEF p, g
  <2> QED
    BY <1>0, <1>7, <2>1, <2>2 DEF GatewayCharges, TriesOK, TryType, Local
<1>8. ASSUME GatewayFails(c)
       PROVE  Local(c)
  BY <1>0, <1>8 DEF GatewayFails, At, TriesOK, TryType, Local
<1>9. ASSUME Verify(c)
       PROVE  Local(c)
  BY <1>0, <1>9, GoesLocal DEF Verify
<1>10. ASSUME AirtelRequest(c)
       PROVE  Local(c)
  BY <1>0, <1>10 DEF AirtelRequest, At, TriesOK, TryType, Local
<1>13. ASSUME PageCloses(c)
       PROVE  Local(c)
  <2>1. tries' = [tries EXCEPT ![c] = Popped(tries[c])] /\ screen' = screen /\ seen' = seen
    BY <1>13 DEF PageCloses
  <2>2. /\ Popped(tries[c]).args = tries[c].args
        /\ Popped(tries[c]).mounted = tries[c].mounted
        /\ Popped(tries[c]).pc # "confirm"
    BY <1>0, PoppedFacts DEF TriesOK
  <2> QED
    BY <1>0, <2>1, <2>2 DEF TriesOK, Local
<1>14. ASSUME SaveApplies(c)
       PROVE  Local(c)
  BY <1>0, <1>14, GoesLocal DEF SaveApplies
<1>15. ASSUME SaveFails(c)
       PROVE  Local(c)
  BY <1>0, <1>15, GoesLocal DEF SaveFails
<1>16. ASSUME SadadInvoice(c)
       PROVE  Local(c)
  <2>1. CASE Goes(c, "failed")
    BY <1>0, <1>16, <2>1, GoesLocal DEF SadadInvoice
  <2>2. CASE tries' = [tries EXCEPT ![c].pc = "checkout", ![c].page = TRUE]
    BY <1>0, <1>16, <2>2 DEF SadadInvoice, TriesOK, TryType, Local
  <2> QED
    BY <1>16, <2>1, <2>2 DEF SadadInvoice
<1> QED
  BY <1>1, <1>2, <1>3, <1>4, <1>5, <1>6, <1>7, <1>8, <1>9, <1>10, <1>13, <1>14,
     <1>15, <1>16

\* What a step does to the screen and to the tries on it.
LEMMA ShownStep ==
  ASSUME ControlInv, RestOK, ShownOnScreen, Next
  PROVE  ShownOnScreen'
<1>1. ASSUME NEW c \in Tries, Local(c)
      PROVE  ShownOnScreen'
  BY <1>1 DEF ShownOnScreen, Local
<1>2. ASSUME NEW c \in Tries, Tap(c)
      PROVE  ShownOnScreen'
  <2>1. CASE screen.method \in Direct
    <3>1. screen' = screen /\ screen.open /\ screen.method # None
      BY <1>2 DEF Tap, Untouched
    <3>2. tries'[c].mounted /\ \A d \in Tries \ {c} : tries'[d] = tries[d]
      BY <1>2, <2>1, BlankTypes DEF Tap, ControlInv, TriesOK, TryType
    <3> QED
      BY <3>1, <3>2 DEF ShownOnScreen
  <2>2. CASE screen.method \notin Direct
    <3>1. /\ tries'[c].mounted
          /\ \A d \in Tries \ {c} : tries'[d] = tries[d]
      BY <1>2, <2>2, HandleClickControl DEF Tap, RestOK, At, BusyPcs, KeepsLoader
    <3> QED
      BY <1>2, <3>1 DEF Tap, Untouched, ShownOnScreen
  <2> QED
    BY <2>1, <2>2
<1>3. ASSUME NEW c \in Tries, Accept(c)
      PROVE  ShownOnScreen'
  <2>1. screen.open /\ screen.method # None
    BY <1>3 DEF Accept, At, ShownOnScreen
  <2>2. /\ tries'[c].mounted
        /\ \A d \in Tries \ {c} : tries'[d] = tries[d]
    BY <1>3, <2>1, HandleClickControl DEF Accept, RestOK, At, BusyPcs, KeepsLoader
  <2> QED
    BY <1>3, <2>1, <2>2 DEF Accept, Untouched, ShownOnScreen
<1>4. ASSUME NEW c \in Tries, SaveAnswered(c) \/ PhonePeInit(c)
      PROVE  ShownOnScreen'
  <2>1. RouteEffect
    BY <1>4, SaveAnsweredEffect, PhonePeEffect
  <2>2. CASE screen' = screen
    BY <2>1, <2>2 DEF RouteEffect, ShownOnScreen
  <2>3. CASE \A d \in Tries : ~tries'[d].mounted /\ tries'[d].pc # "confirm"
    BY <2>3 DEF ShownOnScreen
  <2> QED
    BY <2>1, <2>2, <2>3 DEF RouteEffect
<1>5. ASSUME NEW m \in Gateways, Choose(m)
      PROVE  ShownOnScreen'
  BY <1>5, GatewaysAssumption, NoneAssumption DEF Choose, ShownOnScreen, RestOK, ScreenType
<1>6. ASSUME CloseScreen
      PROVE  ShownOnScreen'
  <2>1. \A d \in Tries : tries[d].pc # "confirm"
    BY <1>6 DEF CloseScreen, OnTop, IsRoute
  <2>2. \A d \in Tries : ~tries'[d].mounted /\ tries'[d].pc = tries[d].pc
    BY <1>6 DEF CloseScreen, Unmounted, ControlInv, TriesOK, TryType
  <2> QED
    BY <2>1, <2>2 DEF ShownOnScreen
<1>7. ASSUME OpenFromDetail
      PROVE  ShownOnScreen'
  BY <1>7 DEF OpenFromDetail, ShownOnScreen
<1>8. ASSUME SwipeRefresh
      PROVE  ShownOnScreen'
  BY <1>8 DEF SwipeRefresh, ShownOnScreen, RestOK, ScreenType
<1>9. ASSUME Kill
      PROVE  ShownOnScreen'
  <2>1. ASSUME NEW d \in Tries
        PROVE  ~tries'[d].mounted /\ tries'[d].pc # "confirm"
    <3> DEFINE p == IF tries[d].pc \in {"none", "recorded", "unsaved", "failed", "lost"}
                    THEN tries[d].pc ELSE "killed"
    <3>1. tries'[d] = [tries[d] EXCEPT !.pc = p, !.mounted = FALSE, !.page = FALSE]
      BY <1>9 DEF Kill
    <3>2. p # "confirm"
      OBVIOUS
    <3> HIDE DEF p
    <3> QED
      BY <3>1, <3>2 DEF ControlInv, TriesOK, TryType
  <2> QED
    BY <2>1 DEF ShownOnScreen
<1>10. ASSUME ReadBooking \/ BookingCompletes
      PROVE  ShownOnScreen'
  BY <1>10 DEF ReadBooking, BookingCompletes, ShownOnScreen
<1> QED
  BY <1>1, <1>2, <1>3, <1>4, <1>5, <1>6, <1>7, <1>8, <1>9, <1>10, LocalSteps DEF Next, TryStep

\* Every step keeps what is known of the tries and the loader.
LEMMA ControlStep ==
  ASSUME ControlInv, RestOK, ShownOnScreen, Next
  PROVE  ControlInv'
<1>1. ASSUME NEW c \in Tries, TryStep(c)
      PROVE  ControlInv'
  BY <1>1, TryControl
<1>2. ASSUME CloseScreen
      PROVE  ControlInv'
  <2>1. tries' \in [Tries -> TryType]
    BY <1>2 DEF CloseScreen, Unmounted, ControlInv, TriesOK, TryType
  <2>2. ASSUME NEW d \in Tries
        PROVE  /\ tries'[d].method = tries[d].method
               /\ tries'[d].charged = tries[d].charged
               /\ tries'[d].pc = tries[d].pc
    BY <1>2 DEF CloseScreen, Unmounted, ControlInv, TriesOK, TryType
  <2> QED
    BY <1>2, <2>1, <2>2, AllTries DEF CloseScreen, ControlInv, TriesOK
<1>3. ASSUME Kill
      PROVE  ControlInv'
  <2> DEFINE p(d) == IF tries[d].pc \in {"none", "recorded", "unsaved", "failed", "lost"}
                     THEN tries[d].pc ELSE "killed"
             t(d) == [tries[d] EXCEPT !.pc = p(d), !.mounted = FALSE, !.page = FALSE]
  <2>1. tries' = [d \in Tries |-> t(d)]
    BY <1>3 DEF Kill
  <2>2. ASSUME NEW d \in Tries
        PROVE  p(d) \in Pcs /\ p(d) \in {tries[d].pc, "killed"}
    BY DEF ControlInv, TriesOK, TryType, Pcs
  <2> HIDE DEF p
  <2>3. ASSUME NEW d \in Tries
        PROVE  /\ t(d) \in TryType
               /\ t(d).method = tries[d].method
               /\ t(d).charged = tries[d].charged
               /\ t(d).pc = p(d)
    BY <2>2 DEF ControlInv, TriesOK, TryType
  <2> HIDE DEF t
  <2>4. tries' \in [Tries -> TryType] /\ \A d \in Tries : tries'[d] = t(d)
    BY <2>1, <2>3
  <2>5. \A d \in Tries : tries'[d].pc \in SavePcs \cup {"verify"}
                           => tries[d].pc \in SavePcs \cup {"verify"}
    BY <2>2, <2>3, <2>4 DEF SavePcs
  <2> QED
    BY <1>3, <2>3, <2>4, <2>5, AllTries DEF Kill
<1>4. ASSUME \/ \E m \in Gateways : Choose(m)
             \/ ReadBooking \/ BookingCompletes \/ OpenFromDetail \/ SwipeRefresh
      PROVE  ControlInv'
  BY <1>4, NoTryChanges DEF Choose, ReadBooking, BookingCompletes, OpenFromDetail, SwipeRefresh
<1> QED
  BY <1>1, <1>2, <1>3, <1>4 DEF Next

\* Amount and status of a request made with usable arguments: the whole total while
\* nothing is paid, nothing to add once it is, and never the percentage.
LEMMA RequestFacts ==
  ASSUME NEW args \in Args, NEW m, booking.advance \in BOOLEAN, Usable(args)
  PROVE  LET amount == TotalAmount(args, booking.advance)
             status == RequestStatus(m, args, booking.advance)
         IN  /\ amount \in Int
             /\ status \in {"pending", "advance_paid", "paid"}
             /\ amount = Total \/ (amount <= 0 /\ args.view.paid >= Total)
<1> USE AmountAssumption DEF Args, Views
<1>1. args.view.paid \in Int /\ (args.view.paid = 0 \/ args.view.paid >= Total)
  BY DEF Usable, Old
<1>2. args.forAdvance \in BOOLEAN /\ (args.forAdvance \/ ~booking.advance)
  BY DEF Usable
<1>3. \/ TotalAmount(args, booking.advance) = Total
      \/ /\ TotalAmount(args, booking.advance) = Total - args.view.paid
         /\ args.view.paid # 0
  BY <1>2 DEF TotalAmount
<1>4. RequestStatus(m, args, booking.advance) \in {"pending", "advance_paid", "paid"}
  BY DEF RequestStatus
<1> QED
  BY <1>1, <1>3, <1>4

BookingOK == booking \in [advance : BOOLEAN, view : Views]

\* save-payment with usable arguments: the paid amount grows, to nothing less than the
\* total if the booking is marked as paid or paid in advance.
LEMMA AccountedFacts ==
  ASSUME BookingOK, Old(booking.view), NEW t \in TryType, Usable(t.args)
  PROVE  /\ Accounted(t) \in [advance : BOOLEAN, view : Views]
         /\ Accounted(t).advance = booking.advance
         /\ Accounted(t).view.paid >= booking.view.paid
         /\ Accounted(t).view.paid = 0 \/ Accounted(t).view.paid >= Total
         /\ Accounted(t).view.status \in {"advance_paid", "paid"}
              => Accounted(t).view.paid >= Total
<1> DEFINE a == TotalAmount(t.args, booking.advance)
           s == RequestStatus(t.method, t.args, booking.advance)
           n == IF s # "pending" /\ a > 0 THEN booking.view.paid + a ELSE booking.view.paid
<1>1. /\ booking.advance \in BOOLEAN /\ booking.view \in Views /\ t.args \in Args
      /\ booking.view.paid \in Int /\ t.args.view.paid \in Int
  BY DEF BookingOK, Views, TryType, Args
<1>2. /\ a \in Int
      /\ s \in {"pending", "advance_paid", "paid"}
      /\ a = Total \/ (a <= 0 /\ t.args.view.paid >= Total)
  BY <1>1, RequestFacts
<1>3. t.args.view.paid <= booking.view.paid /\ (booking.view.paid = 0 \/ booking.view.paid >= Total)
  BY DEF Usable, Old
<1>4. Accounted(t) = [booking EXCEPT !.view.status = s, !.view.paid = n]
  BY DEF Accounted
<1> HIDE DEF a, s
<1>5. /\ n \in Int
      /\ n >= booking.view.paid
      /\ n = 0 \/ n >= Total
      /\ s # "pending" => n >= Total
  BY <1>1, <1>2, <1>3, AmountAssumption
<1> HIDE DEF n
<1>6. /\ Accounted(t) \in [advance : BOOLEAN, view : Views]
      /\ Accounted(t).advance = booking.advance
      /\ Accounted(t).view.paid = n
      /\ Accounted(t).view.status = s
  <2> DEFINE w == [booking.view EXCEPT !.status = s, !.paid = n]
  <2>1. w \in Views /\ w.paid = n /\ w.status = s
    BY <1>1, <1>2, <1>5 DEF Views, PaymentStatuses
  <2>2. Accounted(t) = [booking EXCEPT !.view = w]
    BY <1>1, <1>4 DEF BookingOK
  <2> HIDE DEF w
  <2> QED
    BY <2>1, <2>2 DEF BookingOK
<1> QED
  BY <1>2, <1>5, <1>6

\* A step keeps the types of the booking and the screens.
LEMMA RestStep ==
  ASSUME ControlInv, RestOK, MoneyInv, Next
  PROVE  RestOK'
<1>1. ASSUME NEW c \in Tries, SaveApplies(c)
      PROVE  RestOK'
  <2>1. tries[c] \in TryType /\ BookingOK /\ Old(booking.view) /\ Usable(tries[c].args)
    BY DEF ControlInv, TriesOK, RestOK, BookingOK, MoneyInv
  <2>2. booking' \in [advance : BOOLEAN, view : Views]
    BY <1>1, <2>1, AccountedFacts DEF SaveApplies
  <2> QED
    BY <1>1, <2>2 DEF SaveApplies, RestOK
<1>3. ASSUME NEW c \in Tries, SaveAnswered(c) \/ PhonePeInit(c)
      PROVE  RestOK'
  <2>1. screen' \in ScreenType
    BY <1>3, SaveAnsweredEffect, PhonePeEffect, BlankTypes DEF RouteEffect, RestOK
  <2>2. seen' \in {seen, None} /\ booking' = booking
    BY <1>3, Zenon DEF SaveAnswered, PhonePeInit
  <2> QED
    BY <2>1, <2>2 DEF RestOK
<1>4. ASSUME NEW c \in Tries, TryStep(c), ~SaveApplies(c), ~SaveAnswered(c), ~PhonePeInit(c)
      PROVE  RestOK'
  <2>1. UNCHANGED <<booking, seen, screen>>
    BY <1>4 DEF TryStep, Tap, BalanceKnown, Accept, Decline, StripeSettings, StripeIntent,
       StripePresent, DelayEnds, SadadInvoice, GatewayCharges, GatewayFails, Verify,
       AirtelRequest, PageCloses, SaveFails, Untouched
  <2> QED
    BY <2>1 DEF RestOK
<1>5. ASSUME NEW m \in Gateways, Choose(m)
      PROVE  RestOK'
  <2>1. screen' \in ScreenType
    BY <1>5, GatewaysAssumption DEF Choose, RestOK, ScreenType, ControlInv, TriesOK
  <2> QED
    BY <1>5, <2>1 DEF Choose, RestOK
<1>6. ASSUME OpenFromDetail
      PROVE  RestOK'
  <2>1. seen \in Views /\ PayAdvanceShown \in BOOLEAN /\ (~loading) \in BOOLEAN
    <3>1. seen \in Views
      BY <1>6 DEF OpenFromDetail, RestOK
    <3>2. booking.advance \in BOOLEAN
      BY DEF RestOK
    <3>3. PayAdvanceShown \in BOOLEAN
      BY <3>2, Zenon DEF PayAdvanceShown
    <3>4. (~loading) \in BOOLEAN
      BY DEF ControlInv, TriesOK
    <3> QED
      BY <3>1, <3>3, <3>4
  <2> HIDE DEF PayAdvanceShown
  <2>2. [forAdvance |-> PayAdvanceShown, onSuccess |-> FALSE, view |-> seen] \in Args
    BY <2>1 DEF Args
  <2>3. screen' \in ScreenType
    BY <1>6, <2>1, <2>2 DEF OpenFromDetail, Launched, ScreenType
  <2> QED
    BY <1>6, <2>3 DEF OpenFromDetail, RestOK
<1>7. ASSUME SwipeRefresh \/ CloseScreen
      PROVE  RestOK'
  <2>1. screen' \in ScreenType
    BY <1>7, BlankTypes DEF SwipeRefresh, CloseScreen, RestOK, ScreenType
  <2> QED
    BY <1>7, <2>1 DEF SwipeRefresh, CloseScreen, RestOK
<1>8. ASSUME ReadBooking
      PROVE  RestOK'
  BY <1>8 DEF ReadBooking, RestOK
<1>9. ASSUME BookingCompletes
      PROVE  RestOK'
  <2>1. booking' \in [advance : BOOLEAN, view : Views]
    BY <1>9 DEF BookingCompletes, RestOK, Views
  <2> QED
    BY <1>9, <2>1 DEF BookingCompletes, RestOK
<1>10. ASSUME Kill
      PROVE  RestOK'
  <2>1. screen' \in ScreenType /\ seen' = None /\ booking' = booking
    BY <1>10, BlankTypes DEF Kill
  <2> QED
    BY <2>1 DEF RestOK
<1> QED
  BY <1>1, <1>3, <1>4, <1>5, <1>6, <1>7, <1>8, <1>9, <1>10 DEF Next

\* The arguments of the booking dialog are usable at any time.
LEMMA DialogUsable ==
  ASSUME BookingOK, Old(booking.view)
  PROVE  Usable(DialogArgs)
<1>1. booking.view.paid \in Int /\ booking.view.paid >= 0
  BY AmountAssumption DEF BookingOK, Views, Old
<1> QED
  BY <1>1 DEF Usable, Old, DialogArgs, FreshView

\* While the booking stays as it is, so do the amounts, if views and arguments are only
\* passed on.
LEMMA MoneyKeep ==
  ASSUME RestOK, MoneyInv, booking' = booking,
         seen' \in {seen, None, booking.view},
         screen'.args \in {screen.args, DialogArgs},
         \A c \in Tries : tries'[c].args \in {tries[c].args, screen.args}
  PROVE  MoneyInv'
<1>1. Usable(DialogArgs)
  BY DialogUsable DEF RestOK, BookingOK, MoneyInv
<1>2. (seen # None => Old(seen))'
  BY DEF MoneyInv, Old
<1>3. Usable(screen.args)'
  BY <1>1 DEF MoneyInv, Usable, Old
<1>4. ASSUME NEW c \in Tries
      PROVE  Usable(tries[c].args)'
  BY DEF MoneyInv, Usable, Old
<1>5. Old(booking.view)' /\ (booking.view.status \in {"advance_paid", "paid"}
                               => booking.view.paid >= Total)'
  BY DEF MoneyInv, Old
<1> QED
  BY <1>2, <1>3, <1>4, <1>5 DEF MoneyInv

\* The booking changes: its paid amount grows and the views of it get older.
LEMMA MoneyGrows ==
  ASSUME RestOK, ControlInv, MoneyInv, NEW v \in Views,
         booking' = [booking EXCEPT !.view = v],
         v.paid >= booking.view.paid,
         v.paid = 0 \/ v.paid >= Total,
         v.status \in {"advance_paid", "paid"} => v.paid >= Total,
         seen' = seen, screen' = screen,
         \A c \in Tries : tries'[c].args = tries[c].args
  PROVE  MoneyInv'
<1>1. booking'.view = v /\ booking'.advance = booking.advance /\ booking.view.paid \in Int /\ v.paid \in Int
  BY DEF RestOK, Views
<1>2. (seen # None => Old(seen))'
  BY <1>1 DEF MoneyInv, Old, RestOK, Views
<1>3. Usable(screen.args)'
  <2>1. screen.args.view.paid \in Int
    BY DEF RestOK, ScreenType, Args, Views
  <2> QED
    BY <1>1, <2>1 DEF MoneyInv, Usable, Old
<1>4. ASSUME NEW c \in Tries
      PROVE  Usable(tries[c].args)'
  <2>1. tries[c].args.view.paid \in Int
    BY DEF ControlInv, TriesOK, TryType, Args, Views
  <2> QED
    BY <1>1, <2>1 DEF MoneyInv, Usable, Old
<1>5. Old(booking.view)' /\ (booking.view.status \in {"advance_paid", "paid"}
                               => booking.view.paid >= Total)'
  BY <1>1 DEF Old
<1> QED
  BY <1>2, <1>3, <1>4, <1>5 DEF MoneyInv

\* What a step does to the arguments of the tries and to those that are counted.
PassedOn ==
  \A d \in Tries :
    /\ tries'[d].args \in {tries[d].args, screen.args}
    /\ tries[d].pc \in CountedPcs => tries'[d].pc \in CountedPcs /\ tries'[d].args = tries[d].args

\* Arguments are only passed on, from the screen to a try, and a try that is counted stays so.
LEMMA ArgsStep ==
  ASSUME ControlInv, RestOK, ShownOnScreen, Next
  PROVE  PassedOn
<1> USE DEF CountedPcs
<1>1. ASSUME NEW c \in Tries, Local(c), tries[c].pc \in CountedPcs => tries'[c].pc \in CountedPcs
      PROVE  PassedOn
  BY <1>1 DEF Local, PassedOn
<1>2. ASSUME NEW c \in Tries, tries[c].pc \notin CountedPcs, tries'[c].args = screen.args,
             \A d \in Tries \ {c} : tries'[d] = tries[d]
      PROVE  PassedOn
  BY <1>2 DEF PassedOn
<1>3. ASSUME NEW c \in Tries, Tap(c)
      PROVE  PassedOn
  <2>1. CASE screen.method \in Direct
    <3> DEFINE p == IF screen.method = "wallet" THEN "balance" ELSE "confirm"
               t == [NoTry EXCEPT !.pc = p, !.args = screen.args, !.mounted = TRUE]
    <3>1. tries' = [tries EXCEPT ![c] = t] /\ tries[c].pc = "none"
      BY <1>3, <2>1 DEF Tap, At
    <3> HIDE DEF p
    <3>2. t.args = screen.args
      BY BlankTypes DEF TryType
    <3> HIDE DEF t
    <3> QED
      BY <1>2, <3>1, <3>2 DEF ControlInv, TriesOK
  <2>2. CASE screen.method \notin Direct
    BY <1>2, <1>3, <2>2, HandleClickControl DEF Tap, RestOK, At, BusyPcs, KeepsLoader
  <2> QED
    BY <2>1, <2>2
<1>4. ASSUME NEW c \in Tries, Accept(c)
      PROVE  PassedOn
  <2>1. screen.method # None
    BY <1>4 DEF Accept, At, ShownOnScreen
  <2> QED
    BY <1>2, <1>4, <2>1, HandleClickControl DEF Accept, RestOK, At, BusyPcs, KeepsLoader
<1>5. ASSUME NEW c \in Tries, SaveAnswered(c) \/ PhonePeInit(c)
      PROVE  PassedOn
  BY <1>5, SaveAnsweredEffect, PhonePeEffect DEF RouteEffect, PassedOn
<1>6. ASSUME CloseScreen
      PROVE  PassedOn
  BY <1>6 DEF CloseScreen, Unmounted, ControlInv, TriesOK, TryType, PassedOn
<1>7. ASSUME Kill
      PROVE  PassedOn
  <2> SUFFICES ASSUME NEW d \in Tries
               PROVE  /\ tries'[d].args = tries[d].args
                      /\ tries[d].pc \in CountedPcs => tries'[d].pc \in CountedPcs
    BY DEF PassedOn
  <2> DEFINE p == IF tries[d].pc \in {"none", "recorded", "unsaved", "failed", "lost"}
                  THEN tries[d].pc ELSE "killed"
  <2>1. tries'[d] = [tries[d] EXCEPT !.pc = p, !.mounted = FALSE, !.page = FALSE]
    BY <1>7 DEF Kill
  <2>2. p \in {tries[d].pc, "killed"}
    OBVIOUS
  <2> HIDE DEF p
  <2> QED
    BY <2>1, <2>2 DEF ControlInv, TriesOK, TryType
<1>8. ASSUME NEW c \in Tries, PageCloses(c)
      PROVE  PassedOn
  <2>1. tries[c].pc \in CountedPcs => tries'[c].pc = tries[c].pc
    <3>1. tries[c] \in TryType /\ tries'[c] = Popped(tries[c])
      BY <1>8 DEF PageCloses, ControlInv, TriesOK
    <3> QED
      BY <3>1, PoppedFacts
  <2> QED
    BY <1>1, <1>8, <2>1, LocalSteps
<1>9. ASSUME NEW c \in Tries, SaveFails(c)
      PROVE  PassedOn
  <2>1. tries'[c].pc = "unsaved"
    BY <1>9 DEF SaveFails, Goes, ControlInv, TriesOK, TryType
  <2> QED
    BY <1>1, <1>9, <2>1, LocalSteps
<1>10. ASSUME NEW c \in Tries, TryStep(c), ~Tap(c), ~Accept(c), ~SaveAnswered(c), ~PhonePeInit(c),
              ~PageCloses(c), ~SaveFails(c)
       PROVE  PassedOn
  <2>1. Local(c)
    BY <1>10, LocalSteps DEF TryStep
  <2>2. tries[c].pc \notin CountedPcs
    BY <1>10 DEF TryStep, BalanceKnown, Decline, StripeSettings, StripeIntent,
       StripePresent, DelayEnds, SadadInvoice, GatewayCharges, GatewayFails, Verify,
       AirtelRequest, SaveApplies, At
  <2> QED
    BY <1>1, <2>1, <2>2
<1>11. ASSUME tries' = tries
       PROVE  PassedOn
  BY <1>11 DEF PassedOn
<1> QED
  BY <1>3, <1>4, <1>5, <1>6, <1>7, <1>8, <1>9, <1>10, <1>11 DEF Next, Choose, ReadBooking,
     BookingCompletes, OpenFromDetail, SwipeRefresh

\* The booking changes when a payment is saved or the booking completes, the arguments of
\* the screen when it is opened or closed, and what the detail screen has seen is read.
LEMMA ViewsStep ==
  ASSUME ControlInv, RestOK, ShownOnScreen, Next
  PROVE  /\ booking' = booking \/ BookingCompletes \/ \E c \in Tries : SaveApplies(c)
         /\ screen'.args \in {screen.args, DialogArgs} \/ OpenFromDetail
         /\ seen' \in {seen, None, booking.view}
<1> DEFINE Views3 == /\ booking' = booking \/ BookingCompletes \/ \E c \in Tries : SaveApplies(c)
                     /\ screen'.args \in {screen.args, DialogArgs} \/ OpenFromDetail
                     /\ seen' \in {seen, None, booking.view}
<1>0. Closed.args = DialogArgs
  BY DEF Closed
<1>1. ASSUME NEW c \in Tries, TryStep(c), ~SaveAnswered(c), ~PhonePeInit(c)
      PROVE  Views3
  <2>1. UNCHANGED <<screen, seen>> /\ (booking' = booking \/ SaveApplies(c))
    BY <1>1 DEF TryStep, Tap, BalanceKnown, Accept, Decline, StripeSettings, StripeIntent,
       StripePresent, DelayEnds, SadadInvoice, GatewayCharges, GatewayFails, Verify,
       AirtelRequest, PageCloses, SaveApplies, SaveFails, Untouched
  <2> QED
    BY <2>1
<1>2. ASSUME NEW c \in Tries, SaveAnswered(c) \/ PhonePeInit(c)
      PROVE  Views3
  <2>1. screen'.args \in {screen.args, DialogArgs}
    BY <1>0, <1>2, SaveAnsweredEffect, PhonePeEffect DEF RouteEffect
  <2>2. seen' \in {seen, None} /\ booking' = booking
    BY <1>2, Zenon DEF SaveAnswered, PhonePeInit
  <2> QED
    BY <2>1, <2>2
<1>3. ASSUME CloseScreen \/ Kill
      PROVE  Views3
  BY <1>0, <1>3 DEF CloseScreen, Kill
<1>4. ASSUME \/ \E m \in Gateways : Choose(m)
             \/ ReadBooking \/ SwipeRefresh \/ BookingCompletes \/ OpenFromDetail
      PROVE  Views3
  BY <1>4 DEF Choose, ReadBooking, SwipeRefresh, BookingCompletes, OpenFromDetail, RestOK, ScreenType
<1> QED
  BY <1>1, <1>2, <1>3, <1>4 DEF Next

\* Every step keeps the amounts.
LEMMA MoneyStep ==
  ASSUME ControlInv, RestOK, ShownOnScreen, MoneyInv, Next
  PROVE  MoneyInv'
<1>1. ASSUME NEW c \in Tries, SaveApplies(c)
      PROVE  MoneyInv'
  <2>1. tries[c] \in TryType /\ BookingOK /\ Old(booking.view) /\ Usable(tries[c].args)
    BY DEF ControlInv, TriesOK, RestOK, BookingOK, MoneyInv
  <2> DEFINE v == Accounted(tries[c]).view
  <2>2. /\ v \in Views
        /\ v.paid >= booking.view.paid
        /\ v.paid = 0 \/ v.paid >= Total
        /\ v.status \in {"advance_paid", "paid"} => v.paid >= Total
    BY <2>1, AccountedFacts
  <2>3. booking' = [booking EXCEPT !.view = v]
    <3>1. booking' = Accounted(tries[c])
      BY <1>1 DEF SaveApplies
    <3> QED
      BY <2>1, <3>1, AccountedFacts DEF BookingOK
  <2>4. Local(c)
    BY <1>1, LocalSteps
  <2> HIDE DEF v
  <2> QED
    BY <2>2, <2>3, <2>4, MoneyGrows DEF Local
<1>2. ASSUME BookingCompletes
      PROVE  MoneyInv'
  <2> DEFINE v == [booking.view EXCEPT !.complete = TRUE]
  <2>1. booking.view \in Views /\ booking.view.paid \in Int
    BY DEF RestOK, Views
  <2>2. v \in Views /\ v.paid = booking.view.paid /\ v.status = booking.view.status
    BY <2>1 DEF Views
  <2>3. booking' = [booking EXCEPT !.view = v]
    BY <1>2, <2>1 DEF BookingCompletes, RestOK
  <2> HIDE DEF v
  <2>4. /\ v.paid >= booking.view.paid
        /\ v.paid = 0 \/ v.paid >= Total
        /\ v.status \in {"advance_paid", "paid"} => v.paid >= Total
    BY <2>1, <2>2 DEF MoneyInv, Old
  <2> QED
    BY <1>2, <2>2, <2>3, <2>4, MoneyGrows DEF BookingCompletes
<1>3. ASSUME OpenFromDetail
      PROVE  MoneyInv'
  <2>1. Old(seen) /\ seen \in Views /\ booking.advance \in BOOLEAN
    BY <1>3 DEF OpenFromDetail, MoneyInv, RestOK
  <2>2. PayAdvanceShown \/ ~booking.advance
    BY <1>3, <2>1 DEF OpenFromDetail, PayAdvanceShown, PayNowShown
  <2>3. screen'.args.view = seen /\ screen'.args.forAdvance = PayAdvanceShown
    BY <1>3 DEF OpenFromDetail, Launched
  <2>4. Usable(screen.args)'
    BY <1>3, <2>1, <2>2, <2>3 DEF OpenFromDetail, Usable, Old
  <2> QED
    BY <1>3, <2>4 DEF OpenFromDetail, MoneyInv, Usable, Old
<1>4. ASSUME booking' = booking, ~OpenFromDetail
      PROVE  MoneyInv'
  BY <1>4, ArgsStep, ViewsStep, MoneyKeep DEF PassedOn
<1> QED
  BY <1>1, <1>2, <1>3, <1>4, ViewsStep

PaymentInv == ControlInv /\ RestOK /\ ShownOnScreen /\ MoneyInv

\* The invariant holds when the booking dialog has launched the payment screen.
LEMMA PaymentInit ==
  ASSUME Init
  PROVE  PaymentInv
<1>1. PICK a \in BOOLEAN : booking = [advance |-> a, view |-> FreshView]
  BY DEF Init
<1>2. RestOK
  BY <1>1, BlankTypes DEF Init, RestOK, ScreenType
<1>3. tries \in [Tries -> TryType] /\ \A c \in Tries : tries[c] = NoTry
  BY BlankTypes DEF Init
<1>4. ControlInv
  BY <1>3 DEF Init, ControlInv, TriesOK, ChargedFirst, LoaderHasReason, NoTry, SavePcs
<1>5. ShownOnScreen
  <2>1. ~NoTry.mounted /\ NoTry.pc = "none"
    BY DEF NoTry
  <2> HIDE DEF NoTry
  <2>2. ASSUME NEW c \in Tries
        PROVE  ~tries[c].mounted /\ tries[c].pc # "confirm"
    BY <1>3, <2>1
  <2> QED
    BY <2>2 DEF ShownOnScreen
<1>6. Old(booking.view) /\ booking.view.status = "none"
  BY <1>1 DEF Old, FreshView
<1>7. Usable(DialogArgs)
  BY <1>2, <1>6, DialogUsable DEF RestOK, BookingOK
<1>8. MoneyInv
  BY <1>3, <1>6, <1>7 DEF Init, MoneyInv, NoTry
<1> QED
  BY <1>2, <1>4, <1>5, <1>8 DEF PaymentInv

\* And every step keeps it.
LEMMA PaymentStep ==
  ASSUME PaymentInv, [Next]_vars
  PROVE  PaymentInv'
<1>1. CASE Next
  BY <1>1, ControlStep, RestStep, ShownStep, MoneyStep DEF PaymentInv
<1>2. CASE UNCHANGED vars
  BY <1>2 DEF vars, PaymentInv, ControlInv, TriesOK, ChargedFirst, LoaderHasReason, RestOK,
     ShownOnScreen, MoneyInv, Usable, Old
<1> QED
  BY <1>1, <1>2

\* Whatever the gateways answer, however tries interleave, what save-payment is asked to
\* record as paid online was charged, and the loader is on for a reason.
THEOREM PaymentsAreReal == Spec => [](TypeOK /\ RecordedWasCharged /\ LoaderHasReason)
<1>1. ASSUME PaymentInv
      PROVE  TypeOK /\ RecordedWasCharged /\ LoaderHasReason
  <2>1. TypeOK
    BY <1>1 DEF PaymentInv, ControlInv, TriesOK, RestOK, TypeOK
  <2>2. RecordedWasCharged
    BY <1>1 DEF PaymentInv, ControlInv, ChargedFirst, RecordedWasCharged
  <2> QED
    BY <1>1, <2>1, <2>2 DEF PaymentInv, ControlInv
<1> QED
  BY <1>1, PaymentInit, PaymentStep, PTL DEF Spec

\* For every set of tries and gateways, the global loader is on only while some try is under
\* way or has returned early without taking it off.
THEOREM LoaderIsExplained == Spec => []LoaderHasReason
  BY PaymentsAreReal, PTL

\* For every total and every advance percentage, a booking that the app has marked as paid
\* is paid in full, however stale the views that its payments were computed from.
THEOREM PaidIsPaidInFull == Spec => []PaidMeansPaidInFull
<1>1. ASSUME PaymentInv
      PROVE  PaidMeansPaidInFull
  BY <1>1 DEF PaymentInv, MoneyInv, PaidMeansPaidInFull
<1> QED
  BY <1>1, PaymentInit, PaymentStep, PTL DEF Spec

-----------------------------------------------------------------------------
(* What becomes of a charge.                                                *)

\* Only FlutterWave's charges are verified; a charged try is being followed up or was lost by a gateway that loses charges.
LossOK(t) ==
  /\ t.pc = "verify" => t.method = "flutterwave"
  /\ t.charged => t.pc \in FollowedPcs \/ (t.pc = "lost" /\ t.method \in Losing)

LossInv == \A c \in Tries : LossOK(tries[c])

\* One try changes.
LEMMA LossOne ==
  ASSUME TriesOK, LossInv, NEW c \in Tries, NEW t, tries' = [tries EXCEPT ![c] = t], LossOK(t)
  PROVE  LossInv'
<1>1. tries'[c] = t /\ \A d \in Tries \ {c} : tries'[d] = tries[d]
  BY DEF TriesOK
<1>2. ASSUME NEW d \in Tries
      PROVE  LossOK(tries'[d])
  BY <1>1 DEF LossInv
<1> QED
  BY <1>2 DEF LossInv, LossOK

\* One try moves on.
LEMMA LossGoes ==
  ASSUME TriesOK, LossInv, NEW c \in Tries, NEW p, Goes(c, p),
         p # "verify",
         tries[c].charged => p \in FollowedPcs \/ (p = "lost" /\ tries[c].method \in Losing)
  PROVE  LossInv'
<1> DEFINE t == [tries[c] EXCEPT !.pc = p]
<1>1. t.pc = p /\ t.method = tries[c].method /\ t.charged = tries[c].charged
  BY DEF TriesOK, TryType
<1>2. tries' = [tries EXCEPT ![c] = t]
  BY DEF Goes
<1> HIDE DEF t
<1>3. LossOK(t)
  BY <1>1 DEF LossOK
<1> QED
  BY <1>2, <1>3, LossOne

\* A try that waits for nothing the gateway reports after a charge has not been charged.
LEMMA Uncharged ==
  ASSUME TriesOK, LossInv, NEW c \in Tries, tries[c].pc \notin FollowedPcs \cup {"lost"}
  PROVE  ~tries[c].charged
BY DEF LossInv, LossOK

\* Routes that are popped, one or all of them, lose no charge.
LEMMA LossPopped ==
  ASSUME NEW ts \in [Tries -> TryType], \A d \in Tries : LossOK(ts[d])
  PROVE  \A d \in Tries : LossOK(Popped(ts[d])) /\ LossOK(Left(ts)[d])
<1> SUFFICES ASSUME NEW d \in Tries
             PROVE  LossOK(Popped(ts[d])) /\ LossOK(Left(ts)[d])
  OBVIOUS
<1>1. LossOK(Popped(ts[d]))
  <2>1. /\ Popped(ts[d]).method = ts[d].method
        /\ Popped(ts[d]).charged = ts[d].charged
        /\ Popped(ts[d]).pc \in {ts[d].pc, "stuck", "failed"}
        /\ ts[d].pc \notin {"confirm", "checkout"} => Popped(ts[d]).pc = ts[d].pc
    BY PoppedFacts
  <2>2. ts[d].pc \in {"confirm", "checkout"} => ~ts[d].charged
    BY DEF LossOK, FollowedPcs, SavePcs
  <2> QED
    BY <2>1, <2>2 DEF LossOK
<1> DEFINE g == IF IsRoute(ts[d]) THEN Popped(ts[d]) ELSE ts[d]
<1>2. g \in TryType /\ LossOK(g)
  BY <1>1, PoppedFacts
<1>3. Left(ts)[d] = [g EXCEPT !.mounted = FALSE]
  BY DEF Left
<1> HIDE DEF g
<1>4. /\ Left(ts)[d].pc = g.pc
      /\ Left(ts)[d].method = g.method
      /\ Left(ts)[d].charged = g.charged
  BY <1>2, <1>3 DEF TryType
<1> QED
  BY <1>1, <1>2, <1>4 DEF LossOK

\* A try moves on, and a route or all of them may be popped.
LEMMA LossRoutes ==
  ASSUME TriesOK, LossInv, NEW c \in Tries, NEW q \in {"recorded", "stuck"},
         q = "stuck" => ~tries[c].charged,
         LET done == [tries EXCEPT ![c].pc = q]
         IN  \/ tries' = done
             \/ \E d \in Tries : tries' = [done EXCEPT ![d] = Popped(done[d])]
             \/ tries' = Left(done)
  PROVE  LossInv'
<1> DEFINE done == [tries EXCEPT ![c].pc = q]
           t == [tries[c] EXCEPT !.pc = q]
<1>1. t \in TryType /\ t.pc = q /\ t.method = tries[c].method /\ t.charged = tries[c].charged
  BY DEF TriesOK, TryType, Pcs, SavePcs
<1>2. LossOK(t)
  <2> HIDE DEF t
  <2> QED
    BY <1>1 DEF LossOK, FollowedPcs, SavePcs
<1>3. done = [tries EXCEPT ![c] = t]
  OBVIOUS
<1> HIDE DEF t
<1>4. done \in [Tries -> TryType] /\ \A d \in Tries : LossOK(done[d])
  <2>1. done[c] = t /\ \A d \in Tries \ {c} : done[d] = tries[d]
    BY <1>3 DEF TriesOK
  <2>2. done \in [Tries -> TryType]
    BY <1>1, <1>3 DEF TriesOK
  <2> HIDE DEF done
  <2>3. ASSUME NEW d \in Tries
        PROVE  LossOK(done[d])
    BY <1>2, <2>1 DEF LossInv
  <2> QED
    BY <2>2, <2>3
<1>5. \/ tries' = done
      \/ \E d \in Tries : tries' = [done EXCEPT ![d] = Popped(done[d])]
      \/ tries' = Left(done)
  OBVIOUS
<1> HIDE DEF done
<1>6. \A d \in Tries : LossOK(Popped(done[d])) /\ LossOK(Left(done)[d])
  BY <1>4, LossPopped
<1>7. ASSUME NEW d \in Tries
      PROVE  LossOK(tries'[d])
  BY <1>4, <1>5, <1>6
<1> QED
  BY <1>7 DEF LossInv, LossOK

\* No step of a try loses a charge but in the ways named.
LEMMA LossTryStep ==
  ASSUME TriesOK, RestOK, ShownOnScreen, LossInv, NEW c \in Tries, TryStep(c)
  PROVE  LossInv'
<1> USE DEF At
<1>0. tries[c] \in TryType /\ LossOK(tries[c])
  BY DEF TriesOK, LossInv
<1>1. ASSUME tries[c].pc \in {"balance", "confirm", "settings", "intent", "init", "delay", "invoice",
                              "sdk", "checkout", "none"}
      PROVE  ~tries[c].charged
  BY <1>1, Uncharged DEF FollowedPcs, SavePcs
<1>2. ASSUME HandleClick(c), screen.method # None
      PROVE  LossInv'
  <2>1. PICK d \in Dispatch(screen.method) :
          tries' = [tries EXCEPT ![c] =
                     [pc |-> d.pc, method |-> screen.method, args |-> screen.args,
                      mounted |-> TRUE, page |-> d.pc = "checkout", charged |-> FALSE]]
    BY <1>2 DEF HandleClick
  <2>2. d.pc # "verify"
    BY <1>2, <2>1, DispatchFacts DEF TriesOK, RestOK, ScreenType
  <2> DEFINE t == [pc |-> d.pc, method |-> screen.method, args |-> screen.args,
                   mounted |-> TRUE, page |-> d.pc = "checkout", charged |-> FALSE]
  <2>3. LossOK(t)
    BY <2>2 DEF LossOK
  <2> QED
    BY <2>1, <2>3, LossOne
<1>3. ASSUME Tap(c)
      PROVE  LossInv'
  <2>1. CASE screen.method \in Direct
    <3> DEFINE p == IF screen.method = "wallet" THEN "balance" ELSE "confirm"
               t == [NoTry EXCEPT !.pc = p, !.args = screen.args, !.mounted = TRUE]
    <3>1. tries' = [tries EXCEPT ![c] = t]
      BY <1>3, <2>1 DEF Tap
    <3>2. t.pc = p /\ ~t.charged /\ p \in {"balance", "confirm"}
      BY DEF NoTry
    <3> HIDE DEF t
    <3>3. LossOK(t)
      BY <3>2 DEF LossOK
    <3> QED
      BY <3>1, <3>3, LossOne
  <2> QED
    BY <1>2, <1>3, <2>1 DEF Tap
<1>4. ASSUME \/ BalanceKnown(c) \/ Decline(c) \/ StripeSettings(c) \/ StripeIntent(c)
             \/ DelayEnds(c)
      PROVE  LossInv'
  <2>1. ~tries[c].charged
    BY <1>1, <1>4 DEF BalanceKnown, Decline, StripeSettings, StripeIntent, DelayEnds
  <2>2. \E p \in {"confirm", "failed", "intent", "init"} : Goes(c, p)
    BY <1>4 DEF BalanceKnown, Decline, StripeSettings, StripeIntent, DelayEnds
  <2> QED
    BY <2>1, <2>2, LossGoes
<1>5. ASSUME StripePresent(c) \/ SadadInvoice(c) \/ GatewayFails(c)
      PROVE  LossInv'
  <2>1. ~tries[c].charged
    BY <1>1, <1>5 DEF StripePresent, SadadInvoice, GatewayFails
  <2>2. CASE Goes(c, "failed")
    BY <2>1, <2>2, LossGoes
  <2>3. CASE \E p \in {"checkout", "failed"}, g \in BOOLEAN :
               tries' = [tries EXCEPT ![c].pc = p, ![c].page = g]
    <3>1. PICK p \in {"checkout", "failed"}, g \in BOOLEAN :
            tries' = [tries EXCEPT ![c].pc = p, ![c].page = g]
      BY <2>3
    <3> DEFINE t == [tries[c] EXCEPT !.pc = p, !.page = g]
    <3>2. tries' = [tries EXCEPT ![c] = t]
      BY <3>1
    <3>3. t.pc = p /\ t.charged = tries[c].charged
      BY <1>0 DEF TryType
    <3> HIDE DEF t
    <3>4. LossOK(t)
      BY <2>1, <3>3 DEF LossOK
    <3> QED
      BY <3>2, <3>4, LossOne
  <2> DEFINE g == tries[c].method = "cinetpay"
  <2>4. \/ Goes(c, "failed")
        \/ tries' = [tries EXCEPT ![c].pc = "checkout", ![c].page = TRUE]
        \/ tries' = [tries EXCEPT ![c].pc = "failed", ![c].page = g]
    BY <1>5 DEF StripePresent, SadadInvoice, GatewayFails
  <2>5. g \in BOOLEAN
    OBVIOUS
  <2> QED
    BY <2>2, <2>3, <2>4, <2>5
<1>6. ASSUME GatewayCharges(c)
      PROVE  LossInv'
  <2> DEFINE m == tries[c].method
             p == CASE m \in CallbackDropped -> "lost"
                    [] m = "flutterwave" -> "verify"
                    [] OTHER -> "saving"
             g == m \in Paged \cup {"phonepe"}
             t == [tries[c] EXCEPT !.pc = p, !.charged = TRUE, !.page = g]
  <2>0. tries' = [tries EXCEPT ![c].pc = p, ![c].charged = TRUE, ![c].page = g]
    BY <1>6 DEF GatewayCharges
  <2>2. \/ p = "lost" /\ m \in CallbackDropped
        \/ p = "verify" /\ m = "flutterwave"
        \/ p = "saving"
    BY DEF CallbackDropped
  <2> HIDE DEF p, g
  <2>1. tries' = [tries EXCEPT ![c] = t]
    BY <2>0
  <2>3. t.pc = p /\ t.method = m
    BY <1>0 DEF TryType
  <2> HIDE DEF t
  <2>4. LossOK(t)
    BY <2>2, <2>3 DEF LossOK, FollowedPcs, SavePcs, Losing
  <2> QED
    BY <2>1, <2>4, LossOne
<1>7. ASSUME Verify(c)
      PROVE  LossInv'
  <2>1. tries[c].method = "flutterwave" /\ \E p \in {"saving", "lost"} : Goes(c, p)
    BY <1>0, <1>7 DEF Verify, LossOK
  <2> QED
    BY <2>1, LossGoes DEF FollowedPcs, SavePcs, Losing
<1>8. ASSUME AirtelRequest(c)
      PROVE  LossInv'
  <2>1. tries' = tries
    BY <1>8 DEF AirtelRequest
  <2> QED
    BY <2>1 DEF LossInv, LossOK
<1>10. ASSUME PageCloses(c)
       PROVE  LossInv'
  <2>1. tries' = [tries EXCEPT ![c] = Popped(tries[c])]
    BY <1>10 DEF PageCloses
  <2>2. LossOK(Popped(tries[c]))
    BY LossPopped DEF TriesOK, LossInv
  <2> QED
    BY <2>1, <2>2, LossOne
<1>11. ASSUME SaveApplies(c) \/ SaveFails(c)
       PROVE  LossInv'
  <2>1. \E p \in {"applied", "unsaved"} : Goes(c, p)
    BY <1>11 DEF SaveApplies, SaveFails
  <2> QED
    BY <2>1, LossGoes DEF FollowedPcs, SavePcs
<1>12. ASSUME SaveAnswered(c)
       PROVE  LossInv'
  <2> DEFINE done == [tries EXCEPT ![c].pc = "recorded"]
  <2>1. \/ tries' = done
        \/ Finish(done, FALSE)
        \/ tries' = Left(done)
    BY <1>12, Zenon DEF SaveAnswered
  <2>2. \/ tries' = done
        \/ \E d \in Tries : tries' = [done EXCEPT ![d] = Popped(done[d])]
        \/ tries' = Left(done)
    BY <2>1, Zenon DEF Finish
  <2> QED
    BY <2>2, LossRoutes, Zenon
<1>13. ASSUME PhonePeInit(c)
       PROVE  LossInv'
  <2>1. ~tries[c].charged
    BY <1>1, <1>13 DEF PhonePeInit
  <2>2. CASE \E p \in {"stuck", "failed"} : Goes(c, p)
    BY <2>1, <2>2, LossGoes
  <2>3. CASE tries' = [tries EXCEPT ![c].pc = "checkout", ![c].page = TRUE]
    <3> DEFINE t == [tries[c] EXCEPT !.pc = "checkout", !.page = TRUE]
    <3>1. tries' = [tries EXCEPT ![c] = t]
      BY <2>3
    <3>2. t.pc = "checkout" /\ t.charged = tries[c].charged
      BY <1>0 DEF TryType
    <3> HIDE DEF t
    <3> QED
      BY <2>1, <3>1, <3>2, LossOne DEF LossOK
  <2>4. CASE Finish([tries EXCEPT ![c].pc = "stuck"], loading)
    <3> DEFINE done == [tries EXCEPT ![c].pc = "stuck"]
    <3>1. \/ \E d \in Tries : tries' = [done EXCEPT ![d] = Popped(done[d])]
          \/ tries' = Left(done)
      BY <2>4, Zenon DEF Finish
    <3> QED
      BY <2>1, <3>1, LossRoutes, Zenon
  <2> QED
    BY <1>13, <2>2, <2>3, <2>4 DEF PhonePeInit
<1>14. ASSUME Accept(c)
       PROVE  LossInv'
  BY <1>2, <1>14 DEF Accept, ShownOnScreen
<1> QED
  BY <1>3, <1>4, <1>5, <1>6, <1>7, <1>8, <1>10, <1>11, <1>12, <1>13, <1>14 DEF TryStep

\* And no other step does.
LEMMA LossStep ==
  ASSUME TriesOK, RestOK, ShownOnScreen, LossInv, [Next]_vars
  PROVE  LossInv'
<1>1. ASSUME NEW c \in Tries, TryStep(c)
      PROVE  LossInv'
  BY <1>1, LossTryStep
<1>2. ASSUME CloseScreen
      PROVE  LossInv'
  <2>1. ASSUME NEW d \in Tries
        PROVE  /\ tries'[d].method = tries[d].method
               /\ tries'[d].charged = tries[d].charged
               /\ tries'[d].pc = tries[d].pc
    BY <1>2 DEF CloseScreen, Unmounted, TriesOK, TryType
  <2> QED
    BY <2>1 DEF LossInv, LossOK
<1>3. ASSUME Kill
      PROVE  LossInv'
  <2> DEFINE p(d) == IF tries[d].pc \in {"none", "recorded", "unsaved", "failed", "lost"}
                     THEN tries[d].pc ELSE "killed"
  <2>1. tries' = [d \in Tries |-> [tries[d] EXCEPT !.pc = p(d), !.mounted = FALSE, !.page = FALSE]]
    BY <1>3 DEF Kill
  <2>2. ASSUME NEW d \in Tries
        PROVE  p(d) \in {tries[d].pc, "killed"}
    OBVIOUS
  <2> HIDE DEF p
  <2>3. ASSUME NEW d \in Tries
        PROVE  /\ tries'[d].method = tries[d].method
               /\ tries'[d].charged = tries[d].charged
               /\ tries'[d].pc = p(d)
    BY <2>1 DEF TriesOK, TryType
  <2> QED
    BY <2>2, <2>3 DEF LossInv, LossOK, FollowedPcs
<1>4. ASSUME tries' = tries
      PROVE  LossInv'
  BY <1>4 DEF LossInv, LossOK
<1> QED
  BY <1>1, <1>2, <1>3, <1>4 DEF Next, Choose, ReadBooking, BookingCompletes, OpenFromDetail,
     SwipeRefresh, vars

\* For every set of tries and gateways, a charge gets to save-payment or is lost in one of the
\* ways the code has: a kill, a verification that fails, a last status check that comes too
\* early, or a service that has dropped its callback.
THEOREM LostChargesAreExplained == Spec => []ChargeLossHasCause
<1>1. ASSUME Init
      PROVE  LossInv
  <2>1. \A c \in Tries : tries[c].pc = "none" /\ ~tries[c].charged
    BY <1>1 DEF Init, NoTry
  <2> QED
    BY <2>1 DEF LossInv, LossOK
<1>2. LossInv => ChargeLossHasCause
  BY DEF LossInv, LossOK, ChargeLossHasCause
<1>3. PaymentInv => TriesOK /\ RestOK /\ ShownOnScreen
  BY DEF PaymentInv, ControlInv
<1>4. PaymentInv /\ LossInv /\ [Next]_vars => PaymentInv' /\ LossInv'
  BY <1>3, PaymentStep, LossStep
<1>5. Init => PaymentInv /\ LossInv
  BY <1>1, PaymentInit
<1> QED
  BY <1>2, <1>4, <1>5, PTL DEF Spec

-----------------------------------------------------------------------------
(* Payments beyond the total.                                               *)

\* A try that save-payment may have counted, computed while nothing was paid.
Counted(c) == tries[c].pc \in CountedPcs /\ tries[c].args.view.paid = 0

\* The whole total is asked for again only by a screen opened while nothing was paid: a
\* booking without a payment status has no payment, and only such a booking is opened for
\* anything but the advance.
FreshUnpaid(view) == view.status = "none" => view.paid = 0
FullUnpaid(args) == args.forAdvance \/ args.view.paid = 0

SnapshotArgs ==
  /\ FreshUnpaid(booking.view)
  /\ seen # None => FreshUnpaid(seen)
  /\ FullUnpaid(screen.args)
  /\ \A c \in Tries : FullUnpaid(tries[c].args)

\* What is paid was counted, and what is paid beyond the total was counted twice.
CountedTries ==
  /\ booking.view.paid > 0 => \E c \in Tries : Counted(c)
  /\ booking.view.paid > Total => \E c, d \in Tries : c # d /\ Counted(c) /\ Counted(d)

\* What save-payment does to a booking, exactly.
LEMMA SavedAmount ==
  ASSUME PaymentInv, SnapshotArgs, NEW c \in Tries, SaveApplies(c)
  PROVE  /\ booking'.view.status # "none"
         /\ \/ booking'.view.paid = booking.view.paid
            \/ booking'.view.paid = booking.view.paid + Total /\ tries[c].args.view.paid = 0
<1> DEFINE t == tries[c]
           a == TotalAmount(t.args, booking.advance)
           s == RequestStatus(t.method, t.args, booking.advance)
           n == IF s # "pending" /\ a > 0 THEN booking.view.paid + a ELSE booking.view.paid
<1>1. /\ t \in TryType /\ t.args \in Args /\ t.args.view.paid \in Int
      /\ booking \in [advance : BOOLEAN, view : Views] /\ booking.advance \in BOOLEAN
      /\ t.args.forAdvance \in BOOLEAN
      /\ Usable(t.args) /\ FullUnpaid(t.args)
  BY DEF PaymentInv, ControlInv, TriesOK, RestOK, MoneyInv, SnapshotArgs, TryType, Args, Views
<1>2. a \in Int /\ s \in {"pending", "advance_paid", "paid"}
      /\ (a = Total \/ (a <= 0 /\ t.args.view.paid >= Total))
  BY <1>1, RequestFacts
<1>3. t.args.view.paid # 0 => a <= 0
  <2> SUFFICES ASSUME t.args.view.paid # 0
               PROVE  a <= 0
    OBVIOUS
  <2>1. t.args.forAdvance /\ t.args.view.paid >= Total
    BY <1>1 DEF FullUnpaid, Usable, Old
  <2>2. a = Total - t.args.view.paid
    BY <2>1 DEF TotalAmount
  <2> QED
    BY <1>1, <2>1, <2>2, AmountAssumption
<1>4. booking' = [booking EXCEPT !.view.status = s, !.view.paid = n]
  BY DEF SaveApplies, Accounted
<1> HIDE DEF a, s
<1>5. n = booking.view.paid \/ (n = booking.view.paid + Total /\ t.args.view.paid = 0)
  BY <1>1, <1>2, <1>3, AmountAssumption
<1> HIDE DEF n
<1>6. booking'.view.status = s /\ booking'.view.paid = n
  BY <1>1, <1>4 DEF Views
<1> QED
  BY <1>2, <1>5, <1>6

\* Every step keeps the arguments.
LEMMA SnapshotStep ==
  ASSUME PaymentInv, SnapshotArgs, Next
  PROVE  SnapshotArgs'
<1>0. ControlInv /\ RestOK /\ ShownOnScreen
  BY DEF PaymentInv
<1>1. PassedOn
  BY <1>0, ArgsStep
<1>2. /\ booking' = booking \/ BookingCompletes \/ \E c \in Tries : SaveApplies(c)
      /\ screen'.args \in {screen.args, DialogArgs} \/ OpenFromDetail
      /\ seen' \in {seen, None, booking.view}
  BY <1>0, ViewsStep
<1>3. FreshUnpaid(booking'.view)
  <2>1. ASSUME BookingCompletes
        PROVE  booking'.view.paid = booking.view.paid /\ booking'.view.status = booking.view.status
    BY <1>0, <2>1 DEF BookingCompletes, RestOK, Views
  <2>2. ASSUME NEW c \in Tries, SaveApplies(c)
        PROVE  booking'.view.status # "none"
    BY <2>2, SavedAmount
  <2> QED
    BY <1>2, <2>1, <2>2 DEF SnapshotArgs, FreshUnpaid
<1>4. seen' # None => FreshUnpaid(seen')
  BY <1>2 DEF SnapshotArgs
<1>5. FullUnpaid(screen'.args)
  <2>1. FullUnpaid(DialogArgs)
    BY DEF FullUnpaid, DialogArgs
  <2>2. ASSUME OpenFromDetail
        PROVE  FullUnpaid(screen'.args)
    <3>1. screen'.args.view = seen /\ screen'.args.forAdvance = PayAdvanceShown
      BY <2>2 DEF OpenFromDetail, Launched
    <3>2. PayAdvanceShown \/ seen.status = "none"
      BY <2>2 DEF OpenFromDetail, PayNowShown
    <3>3. FreshUnpaid(seen)
      BY <2>2 DEF OpenFromDetail, SnapshotArgs
    <3> QED
      BY <3>1, <3>2, <3>3 DEF FullUnpaid, FreshUnpaid
  <2> QED
    BY <1>2, <2>1, <2>2 DEF SnapshotArgs
<1>6. ASSUME NEW c \in Tries
      PROVE  FullUnpaid(tries'[c].args)
  BY <1>1 DEF PassedOn, SnapshotArgs
<1> QED
  BY <1>3, <1>4, <1>5, <1>6 DEF SnapshotArgs, FreshUnpaid, FullUnpaid

\* Every step keeps the count.
LEMMA CountedStep ==
  ASSUME PaymentInv, SnapshotArgs, CountedTries, Next
  PROVE  CountedTries'
<1>0. ControlInv /\ RestOK /\ ShownOnScreen /\ booking.view.paid \in Int
  BY DEF PaymentInv, RestOK, Views
<1>1. ASSUME NEW d \in Tries, Counted(d)
      PROVE  Counted(d)'
  BY <1>0, <1>1, ArgsStep DEF PassedOn, Counted
<1>2. ASSUME booking'.view.paid = booking.view.paid
      PROVE  CountedTries'
  BY <1>1, <1>2 DEF CountedTries
<1>3. ASSUME NEW c \in Tries, SaveApplies(c)
      PROVE  CountedTries'
  <2>1. CASE booking'.view.paid = booking.view.paid
    BY <1>2, <2>1
  <2>2. CASE booking'.view.paid = booking.view.paid + Total /\ tries[c].args.view.paid = 0
    <3>1. tries[c].pc = "saving" /\ tries'[c].pc = "applied" /\ tries'[c].args = tries[c].args
      BY <1>0, <1>3 DEF SaveApplies, At, Goes, ControlInv, TriesOK, TryType
    <3>2. Counted(c)' /\ ~Counted(c)
      BY <2>2, <3>1 DEF Counted, CountedPcs
    <3>3. booking'.view.paid > Total => booking.view.paid > 0
      BY <1>0, <2>2, AmountAssumption
    <3>4. booking.view.paid > 0 => \E d \in Tries : d # c /\ Counted(d)'
      BY <1>1, <3>2 DEF CountedTries
    <3> QED
      BY <3>2, <3>3, <3>4 DEF CountedTries
  <2> QED
    BY <1>3, <2>1, <2>2, SavedAmount
<1>4. ASSUME BookingCompletes
      PROVE  CountedTries'
  BY <1>0, <1>2, <1>4 DEF BookingCompletes, RestOK, Views
<1> QED
  BY <1>0, <1>2, <1>3, <1>4, ViewsStep

\* For every set of tries and every total, percentage and sequence of reads, screens and
\* kills, more than the total is recorded only when two tries were computed from the same
\* paid amount.
THEOREM OverpaymentSharesSnapshot == Spec => []OverpaidSharesSnapshot
<1> DEFINE Inv == PaymentInv /\ SnapshotArgs /\ CountedTries
<1>1. Init => Inv
  <2> SUFFICES ASSUME Init
               PROVE  SnapshotArgs /\ CountedTries
    BY PaymentInit
  <2>1. booking.view = FreshView /\ screen.args = DialogArgs /\ seen = None
        /\ \A c \in Tries : tries[c].args = DialogArgs
    BY DEF Init, NoTry
  <2>2. FullUnpaid(DialogArgs) /\ FreshUnpaid(FreshView) /\ FreshView.paid = 0
    BY DEF FullUnpaid, FreshUnpaid, DialogArgs, FreshView
  <2> HIDE DEF DialogArgs, FreshView
  <2>3. SnapshotArgs
    BY <2>1, <2>2 DEF SnapshotArgs
  <2> QED
    BY <2>1, <2>2, <2>3, AmountAssumption DEF CountedTries
<1>2. Inv /\ [Next]_vars => Inv'
  <2>1. Inv /\ Next => Inv'
    BY PaymentStep, SnapshotStep, CountedStep
  <2>2. Inv /\ UNCHANGED vars => Inv'
    <3> SUFFICES ASSUME Inv, UNCHANGED vars
                 PROVE  SnapshotArgs' /\ CountedTries'
      BY PaymentStep
    <3> QED
      BY DEF vars, SnapshotArgs, CountedTries, Counted, FreshUnpaid, FullUnpaid
  <2> QED
    BY <2>1, <2>2
<1>3. Inv => OverpaidSharesSnapshot
  BY DEF CountedTries, Counted, CountedPcs, OverpaidSharesSnapshot
<1> QED
  BY <1>1, <1>2, <1>3, PTL DEF Spec
=============================================================================
