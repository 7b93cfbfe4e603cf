----------------------------- MODULE BookingFlow -----------------------------
(***************************************************************************)
(* From the booking screen to the payment screen: the confirmation dialog    *)
(* (lib/screens/booking/component/confirm_booking_dialog.dart), its button,  *)
(* saveBooking and the routes that are pushed and popped on the way.         *)
(*                                                                           *)
(* A dialog is closed by its buttons, by the back key, or by the end of a    *)
(* try, and its context stays mounted for the time of the closing animation. *)
(***************************************************************************)
EXTENDS SaveBooking, Naturals, Sequences

CONSTANTS Dialogs,  \* confirmation dialogs, opened one after the other
          None      \* a try that has not been started belongs to no dialog

ASSUME NoneAssumption == None \notin Dialogs

VARIABLES dialog,   \* of each dialog: closed, open, terms accepted, closing, gone
          selected, \* how often the package's services are in selectedService
          routes,   \* the routes from the booking screen upwards
          built,    \* isLoading as of the dialog's last build
          locating, \* the booking screen's "use current location"
          tap       \* of each try: its dialog, whether the loader was on, the list it sent

flowVars == <<dialog, selected, routes, built, locating, tap>>
vars == <<saveVars, flowVars>>

Book == [kind |-> "book"]
DialogRoute(d) == [kind |-> "dialog", of |-> d]
PaymentRoute(t) == [kind |-> "payment", of |-> t]
Top == routes[Len(routes)]
IsTop(r) == Len(routes) > 0 /\ Top = r

\* State.context can be used.
Mounted(d) == dialog[d] \in {"open", "ticked", "closing"}

Init ==
  /\ SaveInit
  /\ dialog = [d \in Dialogs |-> "unopened"]
  /\ selected = [d \in Dialogs |-> 0]
  /\ routes = <<Book>>
  /\ built = FALSE
  /\ loader = FALSE
  /\ locating = "none"
  /\ tap = [t \in Tries |-> [of |-> None, overLoader |-> FALSE, lists |-> 0]]

-----------------------------------------------------------------------------
(* The dialog.                                                              *)

OpenDialog(d) ==
  /\ dialog[d] = "unopened"
  /\ IsTop(Book)
  /\ dialog' = [dialog EXCEPT ![d] = "open"]
  /\ routes' = Append(routes, DialogRoute(d))
  /\ built' = loader
  /\ UNCHANGED <<saveVars, selected, locating, tap>>

\* The Observer builds the dialog again.
Rebuild ==
  /\ \E d \in Dialogs : Mounted(d)
  /\ built # loader
  /\ built' = loader
  /\ UNCHANGED <<saveVars, dialog, selected, routes, locating, tap>>

\* The check box of the terms.
TickTerms(d) ==
  /\ IsTop(DialogRoute(d)) /\ ~built
  /\ dialog' = [dialog EXCEPT ![d] = IF @ = "open" THEN "ticked" ELSE "open"]
  /\ UNCHANGED <<saveVars, selected, routes, built, locating, tap>>

\* Mutant: the services of the package are collected anew, as in a fresh dialog, but the
\* loader is not set.
ConfirmQuietly(d, t) ==
  /\ IsTop(DialogRoute(d)) /\ ~built
  /\ dialog[d] = "ticked"
  /\ selected' = [selected EXCEPT ![d] = @ + 1]
  /\ call[t] = "idle"
  /\ call' = [call EXCEPT ![t] = "saving"]
  /\ wait' = [wait EXCEPT ![t] = "waiting"]
  /\ tap' = [tap EXCEPT ![t] = [of |-> d, overLoader |-> loader, lists |-> selected[d] + 1]]
  /\ UNCHANGED <<loader, bookings, dialog, routes, built, locating>>

\* bookServices: the package's services are appended to selectedService, the request is
\* put together, and saveBooking is called.
Confirm(d, t) ==
  /\ IsTop(DialogRoute(d)) /\ ~built
  /\ dialog[d] = "ticked"
  /\ selected' = [selected EXCEPT ![d] = @ + 1]
  /\ StartSave(t)
  /\ tap' = [tap EXCEPT ![t] = [of |-> d, overLoader |-> loader, lists |-> selected[d] + 1]]
  /\ UNCHANGED <<dialog, routes, built, locating>>

\* The cancel button and the cross, hidden while loading; the back key, never hidden.
Dismiss(d) ==
  /\ IsTop(DialogRoute(d))
  /\ routes' = SubSeq(routes, 1, Len(routes) - 1)
  /\ dialog' = [dialog EXCEPT ![d] = "closing"]
  /\ UNCHANGED <<saveVars, selected, built, locating, tap>>

\* The closing animation ends.
Unmount(d) ==
  /\ dialog[d] = "closing"
  /\ dialog' = [dialog EXCEPT ![d] = "gone"]
  /\ UNCHANGED <<saveVars, selected, routes, built, locating, tap>>

-----------------------------------------------------------------------------
(* The end of a try.                                                        *)

\* finish(context) pops whatever route is on top, then the payment screen is launched.
PopThenPay(t) ==
  /\ dialog' = [d \in Dialogs |->
                  IF IsTop(DialogRoute(d)) THEN "closing" ELSE dialog[d]]
  /\ routes' = Append(IF routes = <<>> THEN <<>> ELSE SubSeq(routes, 1, Len(routes) - 1),
                      PaymentRoute(t))

\* Mutant: the straggler of a call given up opens the payment screen too.
SavedLate(t) ==
  /\ ReadAnswered(t, "ok")
  /\ PopThenPay(t)
  /\ UNCHANGED <<selected, built, locating, tap>>

\* The booking is saved and read.  If the dialog is gone its context throws, and
\* catchError shows an error for a booking that exists.
Saved(t) ==
  /\ \/ /\ wait[t] = "waiting" /\ Mounted(tap[t].of)
        /\ ReadAnswered(t, "ok")
        /\ PopThenPay(t)
     \/ /\ ReadAnswered(t, "failed")
        /\ wait[t] = "waiting" => ~Mounted(tap[t].of)
        /\ UNCHANGED <<dialog, routes>>
  /\ UNCHANGED <<selected, built, locating, tap>>

\* The customer leaves the payment screen, paid or not.
LeavePayment(t) ==
  /\ IsTop(PaymentRoute(t))
  /\ routes' = SubSeq(routes, 1, Len(routes) - 1)
  /\ UNCHANGED <<saveVars, dialog, selected, built, locating, tap>>

-----------------------------------------------------------------------------
(* The booking screen underneath.                                           *)

\* "Use current location" first asks for the permission, without the loader.
Locate ==
  /\ IsTop(Book)
  /\ locating = "none"
  /\ locating' = "asking"
  /\ UNCHANGED <<saveVars, dialog, selected, routes, built, tap>>

\* Permitted, the lookup sets the loader, whatever route is on top by now and whether or not
\* the screen is still there; it may be in the midst of a try.
LocationAllowed ==
  /\ locating = "asking"
  /\ locating' = "pending"
  /\ loader' = TRUE
  /\ UNCHANGED <<call, wait, bookings, dialog, selected, routes, built, tap>>

\* Denied: a toast.
LocationDenied ==
  /\ locating = "asking"
  /\ locating' = "none"
  /\ UNCHANGED <<saveVars, dialog, selected, routes, built, tap>>

\* The position is there; the loader is reset if the screen is still mounted.
LocationEnds ==
  /\ locating = "pending"
  /\ locating' = "ended"
  /\ loader' = (loader /\ \A i \in 1..Len(routes) : routes[i] # Book)
  /\ UNCHANGED <<call, wait, bookings, dialog, selected, routes, built, tap>>

LeaveBook ==
  /\ IsTop(Book)
  /\ routes' = SubSeq(routes, 1, Len(routes) - 1)
  /\ UNCHANGED <<saveVars, dialog, selected, built, locating, tap>>

Request(t) ==
  /\ BackendSaves(t) \/ SaveAnswered(t) \/ CallFails(t) \/ TimesOut(t)
  /\ UNCHANGED flowVars

Next ==
  \/ \E d \in Dialogs : OpenDialog(d) \/ TickTerms(d) \/ Dismiss(d) \/ Unmount(d)
  \/ \E d \in Dialogs, t \in Tries : Confirm(d, t)
  \/ \E t \in Tries : Request(t) \/ Saved(t) \/ LeavePayment(t)
  \/ Rebuild \/ Locate \/ LocationAllowed \/ LocationDenied \/ LocationEnds \/ LeaveBook

Spec == Init /\ [][Next]_vars

\* Future.timeout fires whatever becomes of the requests.
FairSpec == Spec /\ \A t \in Tries : WF_vars(TimesOut(t) /\ UNCHANGED flowVars)

-----------------------------------------------------------------------------
(* Properties.                                                              *)

Ended(t) == wait[t] \notin {"idle", "waiting"}

\* A second booking request goes out while the customer still waits for one only if the
\* button was tapped before the dialog was built with the loader, or if the loader was
\* taken off by something else: another try that has ended, or the position lookup.
OverlapHasCause ==
  \A t, u \in Tries :
    t # u /\ wait[t] = "waiting" /\ wait[u] = "waiting" =>
      \/ tap[t].overLoader \/ tap[u].overLoader
      \/ locating = "ended"
      \/ \E w \in Tries \ {t, u} : Ended(w)

\* A payment screen is opened for a booking that exists and of which the customer was not
\* told that it failed, and never two of them for one booking, whichever stragglers answer
\* and whatever they find on top.
PaymentScreensAreDue ==
  \A i \in 1..Len(routes) :
    routes[i].kind = "payment" =>
      /\ routes[i].of \in bookings /\ wait[routes[i].of] = "ok"
      /\ \A j \in 1..Len(routes) : routes[j] = routes[i] => j = i

\* constant.dart:31, "Max seconds for booking save + booking detail and other heavy flows
\* (avoids endless loading)": a customer who waits for a booking sees the loader go off.
LoadingEnds == (\E t \in Tries : wait[t] = "waiting") ~> ~loader

\* rest_apis.dart:884, "Request took too long. Please try again.": trying again sends the
\* package with its services once, as the first try did.
RetrySendsSamePackage == \A t \in Tries : tap[t].lists <= 1
=============================================================================
