------------------------------- MODULE Payment -------------------------------
(***************************************************************************)
(* Paying for one booking: the payment screen (lib/screens/payment/          *)
(* payment_screen.dart) with its pay button, the gateways it calls           *)
(* (lib/services), save-payment, and the two ways the screen is opened.      *)
(*                                                                           *)
(* A try is one tap on the pay button.  The button is hidden while           *)
(* appStore.isLoading, but only as of the last build of the screen, so       *)
(* several tries can be under way.  Gateways, wallet and backend are         *)
(* external and answer whatever they like.                                   *)
(***************************************************************************)
EXTENDS Integers

CONSTANTS Tries,     \* slots for tries
          Gateways,  \* the payment methods the backend offers (getPaymentGateways)
          Total,     \* totalAmount of the booking
          Percent,   \* advancePaymentPercentage of the service
          None       \* nothing chosen, nothing read

Direct == {"cod", "wallet"}
\* Services whose constructor drops the onComplete it is given: the late field
\* stays unset, and calling it throws.
CallbackDropped == {"cinetpay", "sadad"}
\* Checkouts on a page of the app's own navigator; closing it resets the loader.
Paged == {"cinetpay", "paypal", "airtel"}
\* Checkouts that the loader does not cover.
Unloaded == {"stripe", "sadad"}
Unavailable == {"paystack", "midtrans"}
Online == {"stripe", "razor", "flutterwave", "phonepe"} \cup CallbackDropped
            \cup Paged \cup Unavailable
Methods == Direct \cup Online

PaymentStatuses == {"none", "pending", "advance_paid", "paid"}

SavePcs == {"saving", "applied", "recorded", "unsaved"}
Pcs == SavePcs \cup {"none", "balance", "confirm", "settings", "intent", "init", "delay",
                     "sdk", "invoice", "checkout", "verify", "failed", "lost", "stuck", "killed"}
\* Where a try may leave the loader on.
BusyPcs == {"balance", "intent", "delay", "sdk", "invoice", "verify", "saving", "applied",
            "stuck"}

ASSUME AmountAssumption == Total \in Nat \ {0} /\ Percent \in 0..100
ASSUME GatewaysAssumption == Gateways \subseteq Methods
ASSUME NoneAssumption == None \notin Methods

VARIABLES booking,  \* backend: paid amount, payment status, completed, advance service
          seen,     \* the booking as the detail screen last read it
          screen,   \* PaymentScreen: open, its arguments, chosen method, button shown
          tries,    \* the tries
          loading   \* appStore.isLoading

vars == <<booking, seen, screen, tries, loading>>

Views == [paid : Int, status : PaymentStatuses, complete : BOOLEAN]
Args == [forAdvance : BOOLEAN, onSuccess : BOOLEAN, view : Views]
ScreenType == [open : BOOLEAN, args : Args, method : Methods \cup {None}, pay : BOOLEAN]
TryType == [pc : Pcs, method : Methods \cup {None}, args : Args,
            mounted : BOOLEAN, page : BOOLEAN, charged : BOOLEAN]

\* The backend's booking, the screens, the tries and the loader.
TypeOK ==
  /\ booking \in [advance : BOOLEAN, view : Views]
  /\ seen \in Views \cup {None}
  /\ screen \in ScreenType
  /\ tries \in [Tries -> TryType]
  /\ loading \in BOOLEAN

-----------------------------------------------------------------------------
(* Amounts and statuses.                                                    *)

\* Mutant: the percentage is taken of every payment.
TotalAmountPercent(args, advance) == (Total * Percent) \div 100

\* Mutant: what was paid already is not subtracted.
TotalAmountAgain(args, advance) == Total

\* initState of the payment screen.
TotalAmount(args, advance) ==
  CASE args.forAdvance /\ args.view.paid = 0 -> Total
    [] args.forAdvance /\ args.view.paid # 0 -> Total - args.view.paid
    [] ~args.forAdvance /\ advance /\ args.view.paid = 0 -> (Total * Percent) \div 100
    [] ~args.forAdvance /\ advance /\ args.view.paid # 0 -> Total - args.view.paid
    [] OTHER -> Total

\* The payment status savePay puts into its request.
RequestStatus(method, args, advance) ==
  CASE (args.forAdvance \/ advance) /\ args.view.paid <= 0 -> "advance_paid"
    [] (args.forAdvance \/ advance) /\ args.view.paid > 0
         /\ args.view.status = "advance_paid" -> "paid"
    [] OTHER -> IF args.forAdvance THEN "advance_paid"
                ELSE IF method = "cod" THEN "pending" ELSE "paid"

\* save-payment at the backend: the status is stored, a positive amount counts as paid.
Accounted(t) ==
  LET status == RequestStatus(t.method, t.args, booking.advance)
      amount == TotalAmount(t.args, booking.advance)
  IN  [booking EXCEPT
         !.view.status = status,
         !.view.paid = IF status # "pending" /\ amount > 0 THEN @ + amount ELSE @]

-----------------------------------------------------------------------------
(* Opening and closing the screen.                                          *)

FreshView == [paid |-> 0, status |-> "none", complete |-> FALSE]
DialogArgs == [forAdvance |-> TRUE, onSuccess |-> TRUE, view |-> FreshView]
NoTry == [pc |-> "none", method |-> None, args |-> DialogArgs,
          mounted |-> FALSE, page |-> FALSE, charged |-> FALSE]

Closed == [open |-> FALSE, args |-> DialogArgs, method |-> None, pay |-> FALSE]
Launched(args) == [open |-> TRUE, args |-> args, method |-> None, pay |-> ~loading]

\* bookServices has saved the booking and launched the payment screen.
Init ==
  /\ \E a \in BOOLEAN : booking = [advance |-> a, view |-> FreshView]
  /\ seen = None
  /\ loading = FALSE
  /\ screen = [open |-> TRUE, args |-> DialogArgs, method |-> None, pay |-> TRUE]
  /\ tries = [c \in Tries |-> NoTry]

\* Routes of the app's navigator above the payment screen; Stripe's and RazorPay's sheets
\* are native.
IsRoute(t) == t.pc = "confirm" \/ (t.page /\ t.method \notin {"stripe", "razor"})
OnTop == \E c \in Tries : IsRoute(tries[c]) \/ tries[c].page

Unmounted == [c \in Tries |-> [tries[c] EXCEPT !.mounted = FALSE]]

\* Mutant: closing the page of a gateway ends the try, a payment being saved included.
PoppedEndsTry(t) ==
  [t EXCEPT !.page = FALSE,
            !.pc = IF @ \in {"confirm", "checkout", "saving", "applied"} THEN "failed" ELSE @]

\* A dialog or a checkout that is popped ends as if the customer had left it.
Popped(t) ==
  [t EXCEPT !.page = FALSE,
            !.pc = IF @ \notin {"confirm", "checkout"} THEN @
                   ELSE IF t.method = "phonepe" THEN "stuck" ELSE "failed"]

\* Every route above the screen goes with it.
Left(ts) ==
  [d \in Tries |-> [(IF IsRoute(ts[d]) THEN Popped(ts[d]) ELSE ts[d]) EXCEPT !.mounted = FALSE]]

\* finish(context) pops the topmost route: a dialog or a page above the payment screen,
\* else the screen itself; the end of a gateway's page resets the loader l.
Finish(ts, l) ==
  \/ /\ \E d \in Tries : /\ IsRoute(ts[d])
                         /\ tries' = [ts EXCEPT ![d] = Popped(ts[d])]
                         /\ loading' = (l /\ ts[d].method \notin Paged)
     /\ UNCHANGED screen
  \/ /\ \A d \in Tries : ~IsRoute(ts[d])
     /\ tries' = Left(ts)
     /\ loading' = l
     /\ screen' = Closed

CloseScreen ==
  /\ screen.open /\ ~OnTop
  /\ screen' = Closed
  /\ tries' = Unmounted
  /\ UNCHANGED <<booking, seen, loading>>

\* The detail screen reads the booking.
ReadBooking ==
  /\ ~screen.open
  /\ seen' = booking.view
  /\ UNCHANGED <<booking, screen, tries, loading>>

BookingCompletes ==
  /\ ~booking.view.complete
  /\ booking' = [booking EXCEPT !.view.complete = TRUE]
  /\ UNCHANGED <<seen, screen, tries, loading>>

\* _action of the detail screen: the pay buttons.
PayAdvanceShown ==
  booking.advance /\ (seen.status = "none" \/ (seen.status = "advance_paid" /\ seen.complete))
PayNowShown == ~PayAdvanceShown /\ seen.complete /\ seen.status = "none"

OpenFromDetail ==
  /\ ~screen.open /\ ~OnTop
  /\ seen # None
  /\ PayAdvanceShown \/ PayNowShown
  /\ screen' = Launched([forAdvance |-> PayAdvanceShown, onSuccess |-> FALSE, view |-> seen])
  /\ UNCHANGED <<booking, seen, tries, loading>>

\* A radio button is tapped; setState builds the screen again.
Choose(m) ==
  /\ screen.open /\ ~OnTop
  /\ screen' = [screen EXCEPT !.method = m, !.pay = ~loading]
  /\ UNCHANGED <<booking, seen, tries, loading>>

SwipeRefresh ==
  /\ screen.open /\ ~OnTop /\ ~loading /\ ~screen.pay
  /\ screen' = [screen EXCEPT !.pay = TRUE]
  /\ UNCHANGED <<booking, seen, tries, loading>>

-----------------------------------------------------------------------------
(* A try: the pay button, and _handleClick for the chosen method.           *)

At(c, p) == tries[c].pc = p
Goes(c, p) == tries' = [tries EXCEPT ![c].pc = p]
Untouched == UNCHANGED <<booking, seen, screen>>

To(p, l) == [pc |-> p, loader |-> l]

\* Which state _handleClick leaves a try in, and the loader with it.  The keys of a
\* gateway may be missing, the amount or the currency outside what CinetPay takes.
Dispatch(m) ==
  CASE m \in Direct -> {To("saving", TRUE)}
    [] m = "stripe" -> {To("settings", loading), To("failed", FALSE)}
    [] m = "razor" -> {To("checkout", TRUE), To("failed", FALSE)}
    [] m = "sadad" -> {To("invoice", TRUE), To("failed", FALSE)}
    [] m = "phonepe" -> {To("sdk", TRUE)}
    [] m \in {"cinetpay", "paypal"} -> {To("checkout", TRUE), To("stuck", TRUE)}
    [] m \in {"flutterwave", "airtel"} -> {To("checkout", TRUE)}
    [] m \in Unavailable -> {To("delay", TRUE)}

HandleClick(c) ==
  \E d \in Dispatch(screen.method) :
    /\ tries' = [tries EXCEPT ![c] =
                   [pc |-> d.pc, method |-> screen.method, args |-> screen.args,
                    mounted |-> TRUE, page |-> d.pc = "checkout", charged |-> FALSE]]
    /\ loading' = d.loader

\* onTap of the pay button, as long as the last build shows it.
Tap(c) ==
  /\ screen.open /\ screen.pay /\ screen.method # None
  /\ ~OnTop
  /\ At(c, "none")
  /\ IF screen.method \in Direct
     THEN /\ tries' = [tries EXCEPT ![c] =
                [NoTry EXCEPT !.pc = IF screen.method = "wallet" THEN "balance" ELSE "confirm",
                              !.args = screen.args, !.mounted = TRUE]]
          /\ loading' = IF screen.method = "wallet" THEN TRUE ELSE loading
     ELSE HandleClick(c)
  /\ Untouched

\* The wallet balance is known: the dialog, or the message that it is too small.
BalanceKnown(c) ==
  /\ At(c, "balance")
  /\ \E enough \in BOOLEAN :
       Goes(c, IF enough /\ tries[c].mounted THEN "confirm" ELSE "failed")
  /\ loading' = FALSE
  /\ Untouched

\* onAccept looks at the method chosen by now.
Accept(c) ==
  /\ At(c, "confirm")
  /\ HandleClick(c)
  /\ Untouched

Decline(c) ==
  /\ At(c, "confirm")
  /\ Goes(c, "failed")
  /\ UNCHANGED <<booking, seen, screen, loading>>

-----------------------------------------------------------------------------
(* The gateways.                                                            *)

\* stripePay: the settings are applied, then the payment intent is asked for.
StripeSettings(c) ==
  /\ At(c, "settings")
  /\ \E ok \in BOOLEAN : Goes(c, IF ok THEN "intent" ELSE "failed") /\ loading' = ok
  /\ Untouched

\* The intent is answered; the loader goes off before the sheet.
StripeIntent(c) ==
  /\ At(c, "intent")
  /\ \E ok \in BOOLEAN : Goes(c, IF ok THEN "init" ELSE "failed")
  /\ loading' = FALSE
  /\ Untouched

\* initPaymentSheet, then the sheet, unless the screen was closed meanwhile.
StripePresent(c) ==
  /\ At(c, "init")
  /\ \/ /\ tries[c].mounted
        /\ tries' = [tries EXCEPT ![c].pc = "checkout", ![c].page = TRUE]
        /\ UNCHANGED loading
     \/ Goes(c, "failed") /\ loading' = FALSE
  /\ Untouched

\* PayStack and Midtrans end with an error after a second.
DelayEnds(c) ==
  /\ At(c, "delay")
  /\ Goes(c, "failed")
  /\ loading' = FALSE
  /\ Untouched

\* Sadad: login and invoice; the loader goes off before its page.
SadadInvoice(c) ==
  /\ At(c, "invoice")
  /\ \/ tries[c].mounted /\ tries' = [tries EXCEPT ![c].pc = "checkout", ![c].page = TRUE]
     \/ Goes(c, "failed")
  /\ loading' = FALSE
  /\ Untouched

\* PhonePe: the SDK is initialised and offers its sheet, or is not, and the loader stays;
\* an error pops the topmost route as well.
PhonePeInit(c) ==
  /\ At(c, "sdk") /\ tries[c].method = "phonepe"
  /\ \/ /\ tries[c].mounted
        /\ tries' = [tries EXCEPT ![c].pc = "checkout", ![c].page = TRUE]
        /\ UNCHANGED <<screen, loading>>
     \/ Goes(c, "stuck") /\ UNCHANGED <<screen, loading>>
     \/ ~tries[c].mounted /\ Goes(c, "failed") /\ loading' = FALSE /\ UNCHANGED screen
     \/ tries[c].mounted /\ Finish([tries EXCEPT ![c].pc = "stuck"], loading)
  /\ UNCHANGED <<booking, seen>>

\* The customer has paid at the gateway.  savePay follows where onComplete is called, and
\* the pages of the app stay until they are closed.
GatewayCharges(c) ==
  LET m == tries[c].method
      next == CASE m \in CallbackDropped -> "lost"
                [] m = "flutterwave" -> "verify"
                [] OTHER -> "saving"
  IN  /\ At(c, "checkout") /\ m \in Online \ (Unavailable \cup {"airtel"})
      /\ tries' = [tries EXCEPT ![c].pc = next, ![c].charged = TRUE,
                                ![c].page = m \in Paged \cup {"phonepe"}]
      /\ loading' = (next # "lost")
      /\ Untouched

\* Mutant: presentPaymentSheet returns after a cancellation too, and onComplete follows.
GatewayFailsSaves(c) ==
  /\ At(c, "checkout") /\ tries[c].method \notin {"phonepe", "airtel"}
  /\ tries' = [tries EXCEPT ![c].pc = IF tries[c].method = "stripe" THEN "saving" ELSE "failed",
                            ![c].page = tries[c].method = "cinetpay"]
  /\ loading' = (loading /\ tries[c].method = "sadad")
  /\ Untouched

\* Mutant: a payment error leaves the loader on.
GatewayFailsLoading(c) ==
  /\ At(c, "checkout") /\ tries[c].method \notin {"phonepe", "airtel"}
  /\ tries' = [tries EXCEPT ![c].pc = "failed",
                            ![c].page = tries[c].method = "cinetpay"]
  /\ loading' = loading
  /\ Untouched

\* It was refused or cancelled.  PhonePe's sheet stays as it is, CinetPay's page stays
\* until it is closed (a payment CinetPay refuses changes nothing before that), Airtel's
\* dialog can only be closed; Sadad does not touch the loader.
GatewayFails(c) ==
  /\ At(c, "checkout") /\ tries[c].method \notin {"phonepe", "airtel"}
  /\ tries' = [tries EXCEPT ![c].pc = "failed",
                            ![c].page = tries[c].method = "cinetpay"]
  /\ loading' = (loading /\ tries[c].method = "sadad")
  /\ Untouched

\* FlutterWave's charge is verified before it is saved.
Verify(c) ==
  /\ At(c, "verify")
  /\ \E ok \in BOOLEAN : Goes(c, IF ok THEN "saving" ELSE "lost") /\ loading' = ok
  /\ Untouched

\* The number is submitted in Airtel's dialog: the loader goes on, and the request of the
\* access token throws before it is sent (it is made without the extraKeys that
\* airtelPayBuildHttpResponse unwraps).  Nothing is charged, the dialog stays.
AirtelRequest(c) ==
  /\ At(c, "checkout") /\ tries[c].method = "airtel"
  /\ loading' = TRUE
  /\ UNCHANGED tries
  /\ Untouched

\* The page of a gateway is closed: whenComplete, then.  Before the end of the checkout
\* this is a cancellation.  Nothing waits for the end of PhonePe's sheet.
PageCloses(c) ==
  /\ tries[c].page /\ tries[c].method \in Paged \cup {"phonepe"}
  /\ tries' = [tries EXCEPT ![c] = Popped(tries[c])]
  /\ loading' = (loading /\ tries[c].method = "phonepe")
  /\ Untouched

-----------------------------------------------------------------------------
(* save-payment.                                                            *)

SaveApplies(c) ==
  /\ At(c, "saving")
  /\ Goes(c, "applied")
  /\ booking' = Accounted(tries[c])
  /\ UNCHANGED <<seen, screen, loading>>

\* The answer arrives: finish where a callback was given, else the dashboard replaces
\* every route.
SaveAnswered(c) ==
  /\ At(c, "applied")
  /\ LET done == [tries EXCEPT ![c].pc = "recorded"]
     IN  \/ /\ ~tries[c].mounted
            /\ tries' = done
            /\ loading' = FALSE
            /\ UNCHANGED <<seen, screen>>
         \/ /\ tries[c].mounted /\ tries[c].args.onSuccess
            /\ Finish(done, FALSE)
            /\ UNCHANGED seen
         \/ /\ tries[c].mounted /\ ~tries[c].args.onSuccess
            /\ tries' = Left(done)
            /\ loading' = FALSE
            /\ screen' = Closed
            /\ seen' = None
  /\ UNCHANGED booking

\* save-payment failed, or its answer was lost.
SaveFails(c) ==
  /\ tries[c].pc \in {"saving", "applied"}
  /\ Goes(c, "unsaved")
  /\ loading' = FALSE
  /\ Untouched

\* The process is killed and started again.
Kill ==
  /\ screen' = Closed
  /\ seen' = None
  /\ tries' = [c \in Tries |->
                 [tries[c] EXCEPT !.pc = IF @ \in {"none", "recorded", "unsaved", "failed", "lost"}
                                         THEN @ ELSE "killed",
                                  !.mounted = FALSE, !.page = FALSE]]
  /\ loading' = FALSE
  /\ UNCHANGED booking

TryStep(c) ==
  \/ Tap(c) \/ BalanceKnown(c) \/ Accept(c) \/ Decline(c)
  \/ StripeSettings(c) \/ StripeIntent(c) \/ StripePresent(c) \/ DelayEnds(c)
  \/ SadadInvoice(c) \/ PhonePeInit(c)
  \/ GatewayCharges(c) \/ GatewayFails(c) \/ Verify(c)
  \/ AirtelRequest(c) \/ PageCloses(c)
  \/ SaveApplies(c) \/ SaveAnswered(c) \/ SaveFails(c)

Next ==
  \/ \E c \in Tries : TryStep(c)
  \/ \E m \in Gateways : Choose(m)
  \/ CloseScreen \/ ReadBooking \/ BookingCompletes \/ OpenFromDetail
  \/ SwipeRefresh \/ Kill

Spec == Init /\ [][Next]_vars

-----------------------------------------------------------------------------
(* The inductive invariant of the amounts.                                  *)

\* A view of the booking is from the past, and is of nothing or of all of the total paid.
Old(view) ==
  /\ view.paid <= booking.view.paid
  /\ view.paid = 0 \/ view.paid >= Total

\* An advance service is only ever paid through a screen opened for the advance, so the
\* branch of initState that takes a percentage is never the one in use.
Usable(args) == Old(args.view) /\ (args.forAdvance \/ ~booking.advance)

MoneyInv ==
  /\ Old(booking.view)
  /\ booking.view.status \in {"advance_paid", "paid"} => booking.view.paid >= Total
  /\ seen # None => Old(seen)
  /\ Usable(screen.args)
  /\ \A c \in Tries : Usable(tries[c].args)

-----------------------------------------------------------------------------
(* Properties.                                                              *)

\* No gateway's failure, cancellation or missing answer makes the app ask the backend to
\* record a payment: what is saved as paid online was charged.
RecordedWasCharged ==
  \A c \in Tries :
    tries[c].method \in Online /\ tries[c].pc \in SavePcs => tries[c].charged

\* Where a charge is on its way to save-payment, has got there, or ended with the process.
FollowedPcs == SavePcs \cup {"verify", "killed"}
\* Gateways whose charge may be lost to the app.
Losing == CallbackDropped \cup {"flutterwave"}

\* A gateway's charge is on its way to save-payment or has got there, or it was lost in one
\* of the ways the code has: the process was killed, FlutterWave's verification failed,
\* or the service dropped its callback.  Closing a page or the screen, another try's
\* finish(context) or another method chosen meanwhile does not lose it.
ChargeLossHasCause ==
  \A c \in Tries : tries[c].charged =>
    \/ tries[c].pc \in FollowedPcs
    \/ tries[c].pc = "lost" /\ tries[c].method \in Losing

\* A try that keeps the loader on: it waits for something other than the checkouts the
\* loader was taken off for, or has met one of the early returns that never reset it
\* (CinetPay, PayPal, PhonePe: "stuck").
KeepsLoader(t) == t.pc \in BusyPcs \/ (t.pc = "checkout" /\ t.method \notin Unloaded)

\* The global loader is on only while some try keeps it on: no ending of a payment, alone
\* or overlapping with another one, leaves the app covered by a spinner for no reason.
LoaderHasReason == loading => \E c \in Tries : KeepsLoader(tries[c])

\* A booking the app has marked as paid has been paid in full, through whichever
\* combination of advance, remaining amount, stale views and parallel tries.
PaidMeansPaidInFull == booking.view.status = "paid" => booking.view.paid >= Total

\* More than the total is recorded only when two tries were computed from the same paid
\* amount: payments made one after the other, each from a fresh booking, never exceed it.
OverpaidSharesSnapshot ==
  booking.view.paid > Total =>
    \E c, d \in Tries :
      /\ c # d
      /\ {tries[c].pc, tries[d].pc} \subseteq {"applied", "recorded", "unsaved", "killed"}
      /\ tries[c].args.view.paid = tries[d].args.view.paid

\* "Your payment has been made successfully" is shown for an accepted CinetPay payment,
\* and onComplete is to save it (cinet_pay_services_new.dart:65-71).
AcceptedByCinetPayIsSaved ==
  \A c \in Tries :
    tries[c].method = "cinetpay" /\ tries[c].charged => tries[c].pc \in SavePcs
=============================================================================
