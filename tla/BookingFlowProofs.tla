-------------------------- MODULE BookingFlowProofs --------------------------
(***************************************************************************)
(* The two invariants of the booking flow, for any number of dialogs and     *)
(* tries.                                                                    *)
(*                                                                           *)
(* The loader is what keeps the button from a second tap, and everything     *)
(* that ends takes it off: the invariant says what a customer who waits      *)
(* without a loader owes it to.                                              *)
(***************************************************************************)
EXTENDS BookingFlow, SequenceTheorems, TLAPS

Route == {Book} \cup {DialogRoute(d) : d \in Dialogs} \cup {PaymentRoute(t) : t \in Tries}

FlowTypeOK ==
  /\ SaveTypeOK
  /\ locating \in {"none", "asking", "pending", "ended"}
  /\ tap \in [Tries -> [of : Dialogs \cup {None}, overLoader : BOOLEAN, lists : Nat]]
  /\ selected \in [Dialogs -> Nat]
  /\ routes \in Seq(Route)

\* A try is waited for, or its wait has ended, from the moment it is sent.
SentMeansWaited == \A t \in Tries : call[t] = "idle" <=> wait[t] = "idle"

\* A customer who waits without the loader has lost it to another try or to the lookup.
LoaderLostToAnother ==
  \A t \in Tries : wait[t] = "waiting" /\ ~loader =>
    locating = "ended" \/ \E w \in Tries : w # t /\ Ended(w)

OverlapInv == FlowTypeOK /\ SentMeansWaited /\ LoaderLostToAnother /\ OverlapHasCause

-----------------------------------------------------------------------------
(* Sequences.                                                               *)

LEMMA Shorter ==
  ASSUME NEW S, NEW s \in Seq(S), Len(s) > 0
  PROVE  /\ SubSeq(s, 1, Len(s) - 1) \in Seq(S)
         /\ Len(SubSeq(s, 1, Len(s) - 1)) = Len(s) - 1
         /\ \A i \in 1..(Len(s) - 1) : SubSeq(s, 1, Len(s) - 1)[i] = s[i]
<1> DEFINE n == Len(s) - 1
<1>1. n \in Nat /\ \A i \in 1..n : s[i] \in S
  OBVIOUS
<1>2. /\ SubSeq(s, 1, n) \in Seq(S)
      /\ Len(SubSeq(s, 1, n)) = IF 1 <= n THEN n - 1 + 1 ELSE 0
      /\ \A i \in 1..(n - 1 + 1) : SubSeq(s, 1, n)[i] = s[1 + i - 1]
  BY <1>1, SubSeqProperties
<1>3. Len(s) - 1 = n
  OBVIOUS
<1> HIDE DEF n
<1>4. n - 1 + 1 = n /\ (1 <= n \/ n = 0) /\ \A i \in 1..n : 1 + i - 1 = i
  BY <1>1
<1>5. Len(SubSeq(s, 1, n)) = n
  BY <1>2, <1>4
<1>6. \A i \in 1..n : SubSeq(s, 1, n)[i] = s[i]
  BY <1>2, <1>4
<1> QED  BY <1>2, <1>3, <1>5, <1>6

LEMMA Longer ==
  ASSUME NEW S, NEW s \in Seq(S), NEW e \in S
  PROVE  /\ Append(s, e) \in Seq(S)
         /\ Len(Append(s, e)) = Len(s) + 1
         /\ \A i \in 1..Len(s) : Append(s, e)[i] = s[i]
         /\ Append(s, e)[Len(s) + 1] = e
  OBVIOUS

\* What finish(context) and launch leave on the navigator.
LEMMA PopThenPayRoutes ==
  ASSUME routes \in Seq(Route), NEW t \in Tries, PopThenPay(t)
  PROVE  \E n \in Nat : /\ n <= Len(routes)
                        /\ routes' \in Seq(Route) /\ Len(routes') = n + 1
                        /\ \A i \in 1..n : routes'[i] = routes[i]
                        /\ routes'[n + 1] = PaymentRoute(t)
<1> DEFINE s == IF routes = <<>> THEN <<>> ELSE SubSeq(routes, 1, Len(routes) - 1)
<1>1. routes' = Append(s, PaymentRoute(t)) /\ PaymentRoute(t) \in Route
  BY DEF PopThenPay, Route
<1>2. s \in Seq(Route) /\ Len(s) <= Len(routes) /\ \A i \in 1..Len(s) : s[i] = routes[i]
  <2>1. CASE routes = <<>>
    BY <2>1
  <2>2. CASE routes # <<>>
    <3>1. Len(routes) > 0
      BY <2>2
    <3> QED  BY <2>2, <3>1, Shorter
  <2> QED  BY <2>1, <2>2
<1>3. Len(s) \in Nat
  BY <1>2
<1> HIDE DEF s
<1> QED  BY <1>1, <1>2, <1>3, Longer

-----------------------------------------------------------------------------
LEMMA InitOverlap == Init => OverlapInv
<1> SUFFICES ASSUME Init PROVE OverlapInv
  OBVIOUS
<1>1. routes \in Seq(Route)
  BY DEF Init, Route
<1> QED
  BY <1>1 DEF Init, SaveInit, OverlapInv, FlowTypeOK, SaveTypeOK, SentMeansWaited,
              LoaderLostToAnother, OverlapHasCause, Ended

\* A step of saveBooking that may end try t and take the loader off, but starts nothing.
LEMMA EndKeeps ==
  ASSUME OverlapInv, NEW t \in Tries,
         SaveTypeOK', routes' \in Seq(Route),
         UNCHANGED <<tap, selected, locating>>,
         call[t] # "idle", call'[t] # "idle",
         wait'[t] = wait[t] \/ (wait[t] = "waiting" /\ Ended(t)'),
         \A w \in Tries \ {t} : call'[w] = call[w] /\ wait'[w] = wait[w],
         loader' = loader \/ Ended(t)'
  PROVE  OverlapInv'
<1> USE DEF OverlapInv, Ended
<1>1. FlowTypeOK'
  BY DEF FlowTypeOK
<1>2. SentMeansWaited'
  BY DEF SentMeansWaited, FlowTypeOK, SaveTypeOK
<1>3. LoaderLostToAnother'
  BY DEF LoaderLostToAnother, FlowTypeOK, SaveTypeOK
<1>4. \A w \in Tries : Ended(w) => Ended(w)'
  OBVIOUS
<1>5. \A w \in Tries : wait'[w] = "waiting" => wait[w] = "waiting"
  OBVIOUS
<1> HIDE DEF Ended
<1>6. OverlapHasCause'
  BY <1>4, <1>5 DEF OverlapHasCause
<1> QED  BY <1>1, <1>2, <1>3, <1>6

\* What the steps of saveBooking do to the parts the invariant is about.
LEMMA SaveSteps ==
  ASSUME OverlapInv, NEW t \in Tries, NEW outcome \in {"ok", "failed"},
         BackendSaves(t) \/ SaveAnswered(t) \/ CallFails(t) \/ TimesOut(t)
           \/ ReadAnswered(t, outcome)
  PROVE  /\ SaveTypeOK'
         /\ call[t] # "idle" /\ call'[t] # "idle"
         /\ wait'[t] = wait[t] \/ (wait[t] = "waiting" /\ Ended(t)')
         /\ \A w \in Tries \ {t} : call'[w] = call[w] /\ wait'[w] = wait[w]
         /\ loader' = loader \/ Ended(t)'
<1> USE DEF OverlapInv, FlowTypeOK, SaveTypeOK, SentMeansWaited, Ended
<1>1. CASE BackendSaves(t) \/ SaveAnswered(t)
  BY <1>1 DEF BackendSaves, SaveAnswered
<1>2. CASE CallFails(t)
  BY <1>2 DEF CallFails
<1>3. CASE TimesOut(t)
  BY <1>3 DEF TimesOut
<1>4. CASE ReadAnswered(t, outcome)
  BY <1>4 DEF ReadAnswered
<1> QED  BY <1>1, <1>2, <1>3, <1>4

LEMMA ConfirmOverlap ==
  ASSUME OverlapInv, NEW d \in Dialogs, NEW t \in Tries, Confirm(d, t)
  PROVE  OverlapInv'
<1> USE DEF OverlapInv, Ended, Confirm, StartSave
<1>1. FlowTypeOK'
  BY DEF FlowTypeOK, SaveTypeOK
<1>2. SentMeansWaited'
  BY DEF SentMeansWaited, FlowTypeOK, SaveTypeOK
<1>3. LoaderLostToAnother'
  BY DEF LoaderLostToAnother, FlowTypeOK, SaveTypeOK
<1>4. wait[t] = "idle"
  BY DEF SentMeansWaited
<1>5. ASSUME NEW u \in Tries, u # t, wait[u] = "waiting"
      PROVE  tap'[t].overLoader \/ locating = "ended" \/ \E w \in Tries \ {t, u} : Ended(w)'
  <2>1. CASE loader
    BY <2>1 DEF FlowTypeOK
  <2>2. CASE ~loader
    BY <2>2, <1>4, <1>5 DEF LoaderLostToAnother, FlowTypeOK, SaveTypeOK
  <2> QED  BY <2>1, <2>2
<1>6. OverlapHasCause'
  BY <1>4, <1>5 DEF OverlapHasCause, FlowTypeOK, SaveTypeOK
<1> QED  BY <1>1, <1>2, <1>3, <1>6

LEMMA NextOverlap == OverlapInv /\ [Next]_vars => OverlapInv'
<1> SUFFICES ASSUME OverlapInv, [Next]_vars PROVE OverlapInv'
  OBVIOUS
<1>0. routes \in Seq(Route)
  BY DEF OverlapInv, FlowTypeOK
<1>1. CASE \E d \in Dialogs, t \in Tries : Confirm(d, t)
  BY <1>1, ConfirmOverlap
<1>2. ASSUME NEW t \in Tries, Request(t) PROVE OverlapInv'
  <2>1. UNCHANGED flowVars
    BY <1>2 DEF Request
  <2>2. BackendSaves(t) \/ SaveAnswered(t) \/ CallFails(t) \/ TimesOut(t)
    BY <1>2 DEF Request
  <2> QED  BY <1>0, <2>1, <2>2, SaveSteps, EndKeeps DEF flowVars
<1>3. ASSUME NEW t \in Tries, Saved(t) PROVE OverlapInv'
  <2>1. (\E o \in {"ok", "failed"} : ReadAnswered(t, o)) /\ UNCHANGED <<tap, selected, locating>>
    BY <1>3 DEF Saved
  <2>2. routes' \in Seq(Route)
    BY <1>0, <1>3, PopThenPayRoutes DEF Saved
  <2> QED  BY <2>1, <2>2, SaveSteps, EndKeeps
<1>4. ASSUME UNCHANGED <<saveVars, selected, locating, tap>>, routes' \in Seq(Route)
      PROVE  OverlapInv'
  BY <1>4 DEF saveVars, OverlapInv, FlowTypeOK, SaveTypeOK, SentMeansWaited,
              LoaderLostToAnother, OverlapHasCause, Ended
<1>5. ASSUME NEW r, IsTop(r)
      PROVE  SubSeq(routes, 1, Len(routes) - 1) \in Seq(Route)
  BY <1>0, <1>5, Shorter DEF IsTop
<1>6. CASE \E d \in Dialogs : OpenDialog(d) \/ TickTerms(d) \/ Dismiss(d) \/ Unmount(d)
  <2>1. PICK d \in Dialogs : OpenDialog(d) \/ TickTerms(d) \/ Dismiss(d) \/ Unmount(d)
    BY <1>6
  <2>2. DialogRoute(d) \in Route
    BY DEF Route
  <2>3. routes' \in Seq(Route)
    BY <1>0, <1>5, <2>1, <2>2, Longer DEF OpenDialog, TickTerms, Dismiss, Unmount
  <2> QED  BY <1>4, <2>1, <2>3 DEF OpenDialog, TickTerms, Dismiss, Unmount
<1>7. CASE \E t \in Tries : LeavePayment(t)
  BY <1>4, <1>5, <1>7 DEF LeavePayment
<1>8. CASE LeaveBook \/ Rebuild
  BY <1>0, <1>4, <1>5, <1>8 DEF LeaveBook, Rebuild
<1>9. CASE Locate \/ LocationAllowed \/ LocationDenied \/ LocationEnds
  <2> USE DEF saveVars, OverlapInv, FlowTypeOK, SaveTypeOK, SentMeansWaited,
              LoaderLostToAnother, OverlapHasCause, Ended
  <2>1. CASE Locate \/ LocationDenied
    BY <2>1 DEF Locate, LocationDenied
  <2>2. CASE LocationAllowed \/ LocationEnds
    BY <2>2 DEF LocationAllowed, LocationEnds
  <2> QED  BY <1>9, <2>1, <2>2
<1>10. CASE UNCHANGED vars
  BY <1>0, <1>4, <1>10 DEF vars, flowVars
<1> QED  BY <1>1, <1>2, <1>3, <1>6, <1>7, <1>8, <1>9, <1>10 DEF Next

\* However many dialogs are opened and however often the button is tapped, two requests
\* overlap only if the tap came before the loader was drawn or something else took it off.
THEOREM OverlapIsExplained == Spec => []OverlapHasCause
<1>1. Spec => []OverlapInv
  BY InitOverlap, NextOverlap, PTL DEF Spec
<1>2. OverlapInv => OverlapHasCause
  BY DEF OverlapInv
<1> QED  BY <1>1, <1>2, PTL
-----------------------------------------------------------------------------
(* Payment screens.                                                         *)

\* A payment screen on the navigator is that of a try that has ended well.
ScreensOfEndedTries ==
  \A i \in 1..Len(routes), t \in Tries :
    routes[i] = PaymentRoute(t) => t \in bookings /\ wait[t] = "ok" /\ call[t] = "done"

NoScreenTwice ==
  \A i, j \in 1..Len(routes), t \in Tries :
    routes[i] = PaymentRoute(t) /\ routes[j] = PaymentRoute(t) => i = j

\* A booking is read only once the backend has it.
ReadsWhatIsSaved == \A t \in Tries : call[t] \in {"saved", "reading"} => t \in bookings

ScreensInv ==
  FlowTypeOK /\ SentMeansWaited /\ ReadsWhatIsSaved /\ ScreensOfEndedTries /\ NoScreenTwice

LEMMA PaymentIsOfATry ==
  ASSUME NEW r \in Route, r.kind = "payment"
  PROVE  \E t \in Tries : r = PaymentRoute(t) /\ r.of = t
  BY DEF Route, Book, DialogRoute, PaymentRoute

LEMMA PaymentDiffers ==
  /\ \A t \in Tries : Book # PaymentRoute(t)
  /\ \A d \in Dialogs, t \in Tries : DialogRoute(d) # PaymentRoute(t)
  /\ \A t, u \in Tries : PaymentRoute(t) = PaymentRoute(u) => t = u
<1>1. Book.kind = "book" /\ \A d : DialogRoute(d).kind = "dialog"
  BY DEF Book, DialogRoute
<1>2. \A t : PaymentRoute(t).kind = "payment" /\ PaymentRoute(t).of = t
  BY DEF PaymentRoute
<1> QED  BY <1>1, <1>2

LEMMA ScreensImply == ScreensInv => PaymentScreensAreDue
<1> SUFFICES ASSUME ScreensInv, NEW i \in 1..Len(routes), routes[i].kind = "payment"
             PROVE  /\ routes[i].of \in bookings /\ wait[routes[i].of] = "ok"
                    /\ \A j \in 1..Len(routes) : routes[j] = routes[i] => j = i
  BY DEF PaymentScreensAreDue
<1>1. routes[i] \in Route
  BY DEF ScreensInv, FlowTypeOK
<1>2. PICK t \in Tries : routes[i] = PaymentRoute(t) /\ routes[i].of = t
  BY <1>1, PaymentIsOfATry
<1> QED  BY <1>2 DEF ScreensInv, ScreensOfEndedTries, NoScreenTwice

LEMMA InitScreens == Init => ScreensInv
<1> SUFFICES ASSUME Init PROVE ScreensInv
  OBVIOUS
<1>1. FlowTypeOK /\ SentMeansWaited
  BY InitOverlap DEF OverlapInv
<1>2. routes = <<Book>>
  BY DEF Init
<1>3. ScreensOfEndedTries /\ NoScreenTwice
  BY <1>2, PaymentDiffers DEF ScreensOfEndedTries, NoScreenTwice
<1>4. ReadsWhatIsSaved
  BY DEF Init, SaveInit, ReadsWhatIsSaved
<1> QED  BY <1>1, <1>3, <1>4 DEF ScreensInv

\* Tries that have ended stay ended, and what the backend has it keeps.
LEMMA DoneStays ==
  ASSUME ScreensInv, [Next]_vars
  PROVE  /\ bookings \subseteq bookings'
         /\ \A t \in Tries : wait[t] = "ok" /\ call[t] = "done" =>
                             wait'[t] = "ok" /\ call'[t] = "done"
         /\ ReadsWhatIsSaved'
<1> USE DEF ScreensInv, FlowTypeOK, SaveTypeOK, ReadsWhatIsSaved
<1>1. CASE \E d \in Dialogs, t \in Tries : Confirm(d, t)
  BY <1>1 DEF Confirm, StartSave
<1>2. CASE \E t \in Tries : Request(t)
  BY <1>2 DEF Request, BackendSaves, SaveAnswered, CallFails, TimesOut
<1>3. CASE \E t \in Tries : Saved(t)
  BY <1>3 DEF Saved, ReadAnswered
<1>4. CASE UNCHANGED <<call, wait, bookings>>
  BY <1>4
<1>5. CASE \/ \E d \in Dialogs : OpenDialog(d) \/ TickTerms(d) \/ Dismiss(d) \/ Unmount(d)
           \/ \E t \in Tries : LeavePayment(t)
           \/ Rebuild \/ Locate \/ LocationAllowed \/ LocationDenied \/ LocationEnds \/ LeaveBook
           \/ UNCHANGED vars
  BY <1>4, <1>5 DEF OpenDialog, TickTerms, Dismiss, Unmount, LeavePayment, Rebuild, Locate,
                    LocationAllowed, LocationDenied, LocationEnds, LeaveBook, vars, saveVars
<1> QED  BY <1>1, <1>2, <1>3, <1>5 DEF Next

\* Routes only go, or come without being payment screens.
LEMMA OtherRoutesKeep ==
  ASSUME ScreensInv, [Next]_vars, NEW n \in Nat, n <= Len(routes),
         \A i \in 1..n : routes'[i] = routes[i],
         \/ Len(routes') = n
         \/ Len(routes') = n + 1 /\ \A t \in Tries : routes'[n + 1] # PaymentRoute(t)
  PROVE  ScreensOfEndedTries' /\ NoScreenTwice'
<1>1. \A i \in 1..Len(routes'), t \in Tries :
        routes'[i] = PaymentRoute(t) => i \in 1..Len(routes) /\ routes[i] = PaymentRoute(t)
  BY DEF ScreensInv, FlowTypeOK
<1>2. ScreensOfEndedTries'
  BY <1>1, DoneStays DEF ScreensInv, ScreensOfEndedTries, PaymentRoute
<1>3. NoScreenTwice'
  BY <1>1 DEF ScreensInv, NoScreenTwice, PaymentRoute
<1> QED  BY <1>2, <1>3

\* The payment screen of a try that ends now joins the ones that stay.
LEMMA PopThenPayKeeps ==
  ASSUME ScreensInv, [Next]_vars, NEW t \in Tries, Saved(t), PopThenPay(t),
         call[t] = "reading", wait'[t] = "ok", call'[t] = "done"
  PROVE  ScreensOfEndedTries' /\ NoScreenTwice'
<1>0. routes \in Seq(Route)
  BY DEF ScreensInv, FlowTypeOK
<1>1. PICK n \in Nat : /\ n <= Len(routes)
                       /\ routes' \in Seq(Route) /\ Len(routes') = n + 1
                       /\ \A i \in 1..n : routes'[i] = routes[i]
                       /\ routes'[n + 1] = PaymentRoute(t)
  BY <1>0, PopThenPayRoutes
<1>2. \A i \in 1..Len(routes') :
        i = n + 1 \/ (i \in 1..n /\ i \in 1..Len(routes) /\ routes'[i] = routes[i])
  BY <1>0, <1>1
<1>3. \A i \in 1..Len(routes) : routes[i] # PaymentRoute(t)
  BY DEF ScreensInv, ScreensOfEndedTries
<1>4. t \in bookings'
  BY DoneStays DEF ScreensInv, ReadsWhatIsSaved
<1>5. \A i \in 1..Len(routes'), u \in Tries : routes'[i] = PaymentRoute(u) =>
        \/ i = n + 1 /\ u = t
        \/ i # n + 1 /\ u # t /\ i \in 1..Len(routes) /\ routes[i] = PaymentRoute(u)
  BY <1>1, <1>2, <1>3, PaymentDiffers
<1>6. ScreensOfEndedTries'
  BY <1>4, <1>5, DoneStays DEF ScreensInv, ScreensOfEndedTries, PaymentRoute
<1>7. NoScreenTwice'
  BY <1>5 DEF ScreensInv, NoScreenTwice, PaymentRoute
<1> QED  BY <1>6, <1>7

LEMMA NextScreens == OverlapInv /\ ScreensInv /\ [Next]_vars => ScreensInv'
<1> SUFFICES ASSUME OverlapInv, ScreensInv, [Next]_vars PROVE ScreensInv'
  OBVIOUS
<1>0. routes \in Seq(Route) /\ Len(routes) \in Nat
  BY DEF ScreensInv, FlowTypeOK
<1>1. FlowTypeOK' /\ SentMeansWaited'
  BY NextOverlap DEF OverlapInv
<1>2. ReadsWhatIsSaved'
  BY DoneStays
<1> DEFINE Goal == ScreensOfEndedTries' /\ NoScreenTwice'
<1>3. ASSUME UNCHANGED routes PROVE Goal
  BY <1>0, <1>3, OtherRoutesKeep
<1>4. ASSUME Len(routes) > 0, routes' = SubSeq(routes, 1, Len(routes) - 1) PROVE Goal
  <2>1. /\ Len(routes') = Len(routes) - 1
        /\ \A i \in 1..(Len(routes) - 1) : routes'[i] = routes[i]
    BY <1>0, <1>4, Shorter
  <2>2. Len(routes) - 1 \in Nat /\ Len(routes) - 1 <= Len(routes)
    BY <1>0, <1>4
  <2> QED  BY <2>1, <2>2, OtherRoutesKeep
<1>5. ASSUME \E d \in Dialogs : OpenDialog(d) PROVE Goal
  <2>1. PICK d \in Dialogs : routes' = Append(routes, DialogRoute(d))
    BY <1>5 DEF OpenDialog
  <2>2. DialogRoute(d) \in Route
    BY DEF Route
  <2>3. /\ Len(routes') = Len(routes) + 1
        /\ \A i \in 1..Len(routes) : routes'[i] = routes[i]
        /\ routes'[Len(routes) + 1] = DialogRoute(d)
    BY <1>0, <2>1, <2>2, Longer
  <2> QED  BY <1>0, <2>3, PaymentDiffers, OtherRoutesKeep
<1>6. ASSUME NEW t \in Tries, Saved(t), PopThenPay(t), wait[t] = "waiting", ReadAnswered(t, "ok")
      PROVE  Goal
  <2>1. call[t] = "reading" /\ wait'[t] = "ok" /\ call'[t] = "done"
    BY <1>6 DEF ReadAnswered, ScreensInv, FlowTypeOK, SaveTypeOK
  <2> QED  BY <1>6, <2>1, PopThenPayKeeps
<1>7. \/ UNCHANGED routes
      \/ Len(routes) > 0 /\ routes' = SubSeq(routes, 1, Len(routes) - 1)
      \/ \E d \in Dialogs : OpenDialog(d)
      \/ \E t \in Tries : Saved(t) /\ PopThenPay(t) /\ wait[t] = "waiting" /\ ReadAnswered(t, "ok")
  BY DEF Next, Confirm, Request, flowVars, Saved, LeavePayment, TickTerms, Dismiss, Unmount,
         Rebuild, Locate, LocationAllowed, LocationDenied, LocationEnds, LeaveBook, vars, IsTop
<1>8. Goal
  BY <1>3, <1>4, <1>5, <1>6, <1>7 DEF ScreensInv
<1> QED  BY <1>1, <1>2, <1>8 DEF ScreensInv

\* Whatever calls are given up and answered late, and whatever finish(context) pops, each
\* payment screen is that of a booking the backend holds, reported as saved, and the only one.
THEOREM PaymentScreensDue == Spec => []PaymentScreensAreDue
<1>1. Spec => [](OverlapInv /\ ScreensInv)
  BY InitOverlap, NextOverlap, InitScreens, NextScreens, PTL DEF Spec
<1>2. OverlapInv /\ ScreensInv => PaymentScreensAreDue
  BY ScreensImply
<1> QED  BY <1>1, <1>2, PTL
=============================================================================
