---------------------------- MODULE BookingDetail ----------------------------
(***************************************************************************)
(* One life of the booking detail screen (lib/screens/booking/               *)
(* booking_detail_screen.dart): it reads the booking, follows the provider   *)
(* on the map with a periodic timer while the booking is on-going, stops and *)
(* starts with the app's life cycle, and lets the customer cancel.           *)
(*                                                                           *)
(* A read that is under way outlives the screen and is answered in any       *)
(* order.  The status callback of every read changes bookingStatus and the   *)
(* timer; the shown snapshot follows the latest read only (FutureBuilder).   *)
(***************************************************************************)
EXTENDS Naturals

CONSTANTS Reads,    \* slots for booking-detail requests under way
          MaxPolls, \* bound: location requests under way at once
          None      \* no snapshot, no status yet

ASSUME MaxPollsAssumption == MaxPolls \in Nat

\* BookingStatusKeys, as far as this screen tells them apart.
Cancellable == {"pending", "accept"}
Statuses == Cancellable \cup {"on_going", "in_progress", "completed", "cancelled"}

ASSUME NoneAssumption == None \notin Statuses

\* What the provider's app does to a booking.
ProviderMoves == {<<"pending", "accept">>, <<"accept", "on_going">>,
                  <<"on_going", "in_progress">>, <<"in_progress", "completed">>}

VARIABLES backend,  \* status of the booking
          screen,   \* fields of _BookingDetailScreenState
          reads,    \* "idle", "sent", or the status the backend answered with
          timer,    \* the timer in _locationUpdateTimer runs; another one still runs
          location, \* isLocationLoader, and location requests under way
          cancel    \* the cancel dialog and its update request

vars == <<backend, screen, reads, timer, location, cancel>>

\* The screen's fields, its reads, its timers and its dialog.
TypeOK ==
  /\ backend \in Statuses
  /\ screen \in [mounted : BOOLEAN, foreground : BOOLEAN,
                 bookingStatus : Statuses \cup {None},
                 snap : Statuses \cup {None}, latest : Reads]
  /\ reads \in [Reads -> Statuses \cup {"idle", "sent"}]
  /\ timer \in [current : BOOLEAN, stray : BOOLEAN]
  /\ location \in [loader : BOOLEAN, inFlight : 0..MaxPolls]
  /\ cancel \in {"none", "dialog", "sent"}

\* initState has just sent the first read; a booking seen before is shown from
\* cachedBookingDetailList meanwhile.
Init ==
  /\ backend \in Statuses
  /\ \E r \in Reads, s \in {None, "pending", backend} :
       /\ screen = [mounted |-> TRUE, foreground |-> TRUE, bookingStatus |-> None,
                    snap |-> s, latest |-> r]
       /\ reads = [q \in Reads |-> IF q = r THEN "sent" ELSE "idle"]
  /\ timer = [current |-> FALSE, stray |-> FALSE]
  /\ location = [loader |-> FALSE, inFlight |-> 0]
  /\ cancel = "none"

-----------------------------------------------------------------------------
(* Location updates.                                                        *)

\* Timer.periodic replaces the handle without cancelling the timer it held.
StartLocationUpdates ==
  timer' = [current |-> TRUE, stray |-> timer.stray \/ timer.current]

StopLocationUpdates == timer' = [timer EXCEPT !.current = FALSE]

RefreshProviderLocation ==
  /\ location.inFlight < MaxPolls
  /\ location' = [loader |-> TRUE, inFlight |-> location.inFlight + 1]

\* A timer fires, of the handle or a stray one: both look at bookingStatus.
TimerFires ==
  /\ timer.current \/ timer.stray
  /\ screen.bookingStatus = "on_going"
  /\ RefreshProviderLocation
  /\ UNCHANGED <<backend, screen, reads, timer, cancel>>

\* Mutant: the loader is reset by an answer, not by a failure.
LocationEndsOnSuccess ==
  /\ location.inFlight > 0
  /\ \E ok \in BOOLEAN :
       location' = [loader |-> IF ok THEN FALSE ELSE location.loader,
                    inFlight |-> location.inFlight - 1]
  /\ UNCHANGED <<backend, screen, reads, timer, cancel>>

\* A location request is answered, fails or times out after 15 seconds: whenComplete.
LocationEnds ==
  /\ location.inFlight > 0
  /\ location' = [loader |-> FALSE, inFlight |-> location.inFlight - 1]
  /\ UNCHANGED <<backend, screen, reads, timer, cancel>>

-----------------------------------------------------------------------------
(* Reading the booking.                                                     *)

SendRead(r) ==
  /\ reads[r] = "idle"
  /\ reads' = [reads EXCEPT ![r] = "sent"]
  /\ screen' = [screen EXCEPT !.latest = r]

\* init(): pull to refresh, reload, a change of an add-on, the end of a dialog.
Refresh(r) ==
  /\ screen.mounted
  /\ cancel = "none"
  /\ SendRead(r)
  /\ UNCHANGED <<backend, timer, location, cancel>>

\* The backend answers with the status of the moment.
Serve(r) ==
  /\ reads[r] = "sent"
  /\ reads' = [reads EXCEPT ![r] = backend]
  /\ UNCHANGED <<backend, screen, timer, location, cancel>>

Shown(r, s) == IF r = screen.latest /\ screen.mounted THEN s ELSE screen.snap

\* The answer arrives: callbackForStatus, then the snapshot.
Arrive(r) ==
  /\ reads[r] \in Statuses
  /\ screen' = [screen EXCEPT !.bookingStatus = reads[r], !.snap = Shown(r, reads[r])]
  /\ reads' = [reads EXCEPT ![r] = "idle"]
  /\ IF reads[r] = "on_going"
     THEN RefreshProviderLocation /\ StartLocationUpdates
     ELSE StopLocationUpdates /\ UNCHANGED location
  /\ UNCHANGED <<backend, cancel>>

\* The read fails; the screen shows the error, and bookingStatus stays.
ReadFails(r) ==
  /\ reads[r] = "sent"
  /\ screen' = [screen EXCEPT !.snap = Shown(r, None)]
  /\ reads' = [reads EXCEPT ![r] = "idle"]
  /\ UNCHANGED <<backend, timer, location, cancel>>

-----------------------------------------------------------------------------
(* Life cycle: didChangeAppLifecycleState and dispose.                      *)

Paused ==
  /\ screen.mounted /\ screen.foreground
  /\ screen' = [screen EXCEPT !.foreground = FALSE]
  /\ StopLocationUpdates
  /\ UNCHANGED <<backend, reads, location, cancel>>

\* Mutant: the updates are not started again.
ResumedWithoutTimer ==
  /\ screen.mounted /\ ~screen.foreground
  /\ screen' = [screen EXCEPT !.foreground = TRUE]
  /\ RefreshProviderLocation
  /\ UNCHANGED <<backend, reads, timer, cancel>>

Resumed ==
  /\ screen.mounted /\ ~screen.foreground
  /\ screen' = [screen EXCEPT !.foreground = TRUE]
  /\ RefreshProviderLocation
  /\ StartLocationUpdates
  /\ UNCHANGED <<backend, reads, cancel>>

Dispose ==
  /\ screen.mounted /\ screen.foreground
  /\ cancel = "none"
  /\ screen' = [screen EXCEPT !.mounted = FALSE]
  /\ StopLocationUpdates
  /\ UNCHANGED <<backend, reads, location, cancel>>

-----------------------------------------------------------------------------
(* Cancelling.                                                              *)

\* _handleCancelClick looks at the snapshot it is shown with.
OpenCancel ==
  /\ screen.mounted /\ screen.foreground
  /\ cancel = "none"
  /\ screen.snap \in Cancellable
  /\ cancel' = "dialog"
  /\ UNCHANGED <<backend, screen, reads, timer, location>>

\* saveCancelClick posts the new status; the dialog holds the snapshot it was opened with.
SubmitCancel ==
  /\ cancel = "dialog" /\ screen.foreground
  /\ cancel' = "sent"
  /\ UNCHANGED <<backend, screen, reads, timer, location>>

DismissCancel ==
  /\ cancel = "dialog" /\ screen.foreground
  /\ cancel' = "none"
  /\ UNCHANGED <<backend, screen, reads, timer, location>>

\* booking-update is accepted: the dialog closes and the booking is read again.
CancelAccepted(r) ==
  /\ cancel = "sent"
  /\ cancel' = "none"
  /\ backend' = "cancelled"
  /\ SendRead(r)
  /\ UNCHANGED <<timer, location>>

\* It fails: the dialog stays.
CancelFails ==
  /\ cancel = "sent"
  /\ cancel' = "dialog"
  /\ UNCHANGED <<backend, screen, reads, timer, location>>

ProviderMove(m) ==
  /\ backend = m[1]
  /\ backend' = m[2]
  /\ UNCHANGED <<screen, reads, timer, location, cancel>>

Next ==
  \/ \E r \in Reads : Refresh(r) \/ Serve(r) \/ Arrive(r) \/ ReadFails(r) \/ CancelAccepted(r)
  \/ \E m \in ProviderMoves : ProviderMove(m)
  \/ TimerFires \/ LocationEnds
  \/ Paused \/ Resumed \/ Dispose
  \/ OpenCancel \/ SubmitCancel \/ DismissCancel \/ CancelFails

Spec == Init /\ [][Next]_vars

\* get-location carries a timeout of 15 seconds, so every location request ends.
FairSpec == Spec /\ WF_vars(LocationEnds)

-----------------------------------------------------------------------------
(* Properties.                                                              *)

\* While the screen is up, in front, and believes the booking to be on-going, the timer
\* it holds runs: no order of reads, pauses and resumes leaves the map standing still.
TrackingAlive ==
  screen.mounted /\ screen.foreground /\ screen.bookingStatus = "on_going" => timer.current

\* The spinner on the map goes off again, whatever becomes of the location request.
LocationLoaderEnds == location.loader ~> ~location.loader

\* booking_detail_screen.dart:1618, "Only allow cancellation before provider starts
\* (pending or accept status)": a cancellation is only posted for such a booking.
CancelsBeforeStart ==
  [][cancel = "dialog" /\ cancel' = "sent" => backend \in Cancellable]_vars
=============================================================================
