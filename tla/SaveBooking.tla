----------------------------- MODULE SaveBooking -----------------------------
(***************************************************************************)
(* saveBooking of lib/network/rest_apis.dart: booking-save followed by       *)
(* booking-detail, under one time limit that gives up without cancelling.    *)
(* Both screens that book use it: the confirmation dialog of a service       *)
(* (BookingFlow) and the booking screen of a job request (JobRequest).       *)
(*                                                                           *)
(* A call given up goes on as a straggler: the backend may still save the    *)
(* booking, and the end of the detail read still resets the global loader.   *)
(***************************************************************************)
CONSTANTS Tries     \* taps that book, each with its own call of saveBooking

VARIABLES loader,   \* appStore.isLoading
          call,     \* where the requests of a try are
          wait,     \* what the caller has seen of a try
          bookings  \* the tries whose booking the backend has saved

saveVars == <<loader, call, wait, bookings>>

SaveTypeOK ==
  /\ loader \in BOOLEAN
  /\ call \in [Tries -> {"idle", "saving", "saved", "reading", "done"}]
  /\ wait \in [Tries -> {"idle", "waiting", "gaveUp", "failed", "ok"}]
  /\ bookings \in SUBSET Tries

SaveInit ==
  /\ call = [t \in Tries |-> "idle"]
  /\ wait = [t \in Tries |-> "idle"]
  /\ bookings = {}

-----------------------------------------------------------------------------
(* The caller.                                                              *)

\* setLoading(true), then saveBooking.
StartSave(t) ==
  /\ call[t] = "idle"
  /\ call' = [call EXCEPT ![t] = "saving"]
  /\ wait' = [wait EXCEPT ![t] = "waiting"]
  /\ loader' = TRUE
  /\ UNCHANGED bookings

\* Mutant: catchError without the reset.
TimesOutLoading(t) ==
  /\ wait[t] = "waiting"
  /\ wait' = [wait EXCEPT ![t] = "gaveUp"]
  /\ UNCHANGED <<loader, call, bookings>>

\* BOOKING_API_TIMEOUT_SECONDS have passed: catchError of the caller, toast.
TimesOut(t) ==
  /\ wait[t] = "waiting"
  /\ wait' = [wait EXCEPT ![t] = "gaveUp"]
  /\ loader' = FALSE
  /\ UNCHANGED <<call, bookings>>

-----------------------------------------------------------------------------
(* The requests.                                                            *)

BackendSaves(t) ==
  /\ call[t] = "saving"
  /\ call' = [call EXCEPT ![t] = "saved"]
  /\ bookings' = bookings \cup {t}
  /\ UNCHANGED <<loader, wait>>

\* booking-save answers; getBookingDetail is sent.
SaveAnswered(t) ==
  /\ call[t] = "saved"
  /\ call' = [call EXCEPT ![t] = "reading"]
  /\ UNCHANGED <<loader, wait, bookings>>

\* A request is refused, or its answer is lost.  getBookingDetail resets the loader
\* itself; the error reaches catchError of the caller unless it has given up.
CallFails(t) ==
  /\ call[t] \in {"saving", "saved", "reading"}
  /\ call' = [call EXCEPT ![t] = "done"]
  /\ wait' = [wait EXCEPT ![t] = IF @ = "waiting" THEN "failed" ELSE @]
  /\ loader' = (loader /\ call[t] # "reading" /\ wait[t] # "waiting")
  /\ UNCHANGED bookings

\* booking-detail answers.  What the caller's then() makes of it, if it has not given up,
\* is the outcome: "ok", or "failed" if then() throws and catchError ends the try.
ReadAnswered(t, outcome) ==
  /\ call[t] = "reading"
  /\ call' = [call EXCEPT ![t] = "done"]
  /\ wait' = [wait EXCEPT ![t] = IF @ = "waiting" THEN outcome ELSE @]
  /\ loader' = FALSE
  /\ UNCHANGED bookings
=============================================================================
