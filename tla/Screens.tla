------------------------------- MODULE Screens -------------------------------
(***************************************************************************)
(* Five parts of the app in one specification: the booking list, the push   *)
(* topics, the wallet, the add-ons and the price.  A behaviour uses one of   *)
(* them, chosen at the start: the parts are checked separately.              *)
(*                                                                           *)
(* What the app shares between them is left open in each part.  Topics and   *)
(* Wallet both have appStore's session, and in each every save of a user and *)
(* every await of clearPreferences comes at any time; clearPreferences also  *)
(* empties the list's cache, which it does at any time in the list; and the  *)
(* global loader, which every part sets and resets, guards no step of any.   *)
(***************************************************************************)
EXTENDS Naturals, FiniteSets

CONSTANTS Filters, NoFilter, Rows, PerPage, MaxRequests, \* PagedList
          Users, Nobody, Runs,                         \* Topics and, for Users, Wallet
          Amounts, TopUps, BalanceReads, Clears,       \* Wallet
          Pages, Slots, Answers, NoAnswer, MaxDepth,   \* ServiceAddons
          Services, Coupons, NoCoupon, NoPackage, AddonPrices, Taxes, Grains,
          MaxItems                                     \* Pricing

VARIABLES open, req, page, isLastPage, bookings, shows, cached, filter, applied,
          userId, signedIn, clearing, run, queue, topics, isSubscribedForPushNotification,
          seen,
          isLoggedIn, token, clears, walletAmountCont, topUp, balance, userWalletAmount, read,
          past,
          routes, answerOf, isSelected, selectedServiceAddon, booked,
          service, grain, tiesUp, itemCount, appliedCouponData, addons,
          bookingAmountModel, advancePaymentAmount,
          part   \* the part this behaviour uses

List == INSTANCE PagedList
Push == INSTANCE Topics
Purse == INSTANCE Wallet WITH Accounts <- Users, NoAccount <- Nobody, Reads <- BalanceReads,
                              clearing <- clears
Addons == INSTANCE ServiceAddons WITH Services <- Pages, None <- NoAnswer
Price == INSTANCE Pricing

\* What the models assume of their constants.
ASSUME ListAssumption ==
  /\ NoFilter \in Filters /\ Rows \in [Filters -> Nat]
  /\ PerPage \in Nat \ {0} /\ MaxRequests \in Nat
ASSUME UsersAssumption == Nobody \notin Users
ASSUME AmountsAssumption == Amounts \subseteq Nat /\ 0 \in Amounts
ASSUME AddonsAssumption == NoAnswer \notin Answers \cup Pages /\ MaxDepth \in Nat \ {0}
ASSUME PricesAssumption ==
  /\ Grains \subseteq {1, 10, 100} /\ MaxItems \in Nat
  /\ \A s \in Services : /\ s.price \in Nat /\ s.discount \in 0..100 /\ s.advance \in 0..100
                         /\ s.package # NoPackage => s.package \in Nat
  /\ \A c \in Coupons : c.discount \in Nat /\ (c.type # "fixed" => c.discount <= 100)
  /\ IsFiniteSet(Taxes) /\ \A t \in Taxes : t.value \in Nat
  /\ IsFiniteSet(DOMAIN AddonPrices) /\ AddonPrices \in [DOMAIN AddonPrices -> Nat]

listVars == <<open, req, page, isLastPage, bookings, shows, cached, filter, applied>>
pushVars == <<userId, signedIn, clearing, run, queue, topics,
              isSubscribedForPushNotification, seen>>
walletVars == <<isLoggedIn, token, clears, walletAmountCont, topUp, balance,
                userWalletAmount, read, past>>
addonVars == <<routes, answerOf, isSelected, selectedServiceAddon, booked>>
priceVars == <<service, grain, tiesUp, itemCount, appliedCouponData, addons,
               bookingAmountModel, advancePaymentAmount>>
screensVars == <<listVars, pushVars, walletVars, addonVars, priceVars, part>>

ScreensInit ==
  /\ part \in {"list", "push", "wallet", "addons", "price"}
  /\ List!Init /\ Push!Init /\ Purse!Init /\ Addons!Init /\ Price!Init
  /\ part # "price" => /\ service = CHOOSE s \in Services : TRUE
                       /\ grain = CHOOSE g \in Grains : TRUE
                       /\ tiesUp = {} /\ addons = {}

ScreensNext ==
  \/ /\ part = "list" /\ List!Next
     /\ UNCHANGED <<pushVars, walletVars, addonVars, priceVars, part>>
  \/ /\ part = "push" /\ Push!Next
     /\ UNCHANGED <<listVars, walletVars, addonVars, priceVars, part>>
  \/ /\ part = "wallet" /\ Purse!Next
     /\ UNCHANGED <<listVars, pushVars, addonVars, priceVars, part>>
  \/ /\ part = "addons" /\ Addons!Next
     /\ UNCHANGED <<listVars, pushVars, walletVars, priceVars, part>>
  \/ /\ part = "price" /\ Price!Next
     /\ UNCHANGED <<listVars, pushVars, walletVars, addonVars, part>>

ScreensSpec == ScreensInit /\ [][ScreensNext]_screensVars

-----------------------------------------------------------------------------
(* The properties of the five modules.  The amounts are looked at where they are *)
(* used: they do not change in the other behaviours.                         *)

\* The booking list holds each of the backend's bookings once, up to its page.
ListIsWhole == List!ListIsWhole

\* The device ends up subscribed to the topics of the user signed in.
SubscribedWhenSettled == Push!SubscribedWhenSettled

\* The device keeps the topic of a user who left only after a subscription in the midst of a
\* sign-out or after another account was saved over the user.
NoTopicLeftBehind == Push!NoTopicLeftBehind

\* The balance shown is that of the account signed in, but for an answer asked for with
\* another token and a token or a clearing that left the balance as it was.
ShownIsOwn == Purse!ShownIsOwn

\* A top-up credits what was charged, to the account that was charged.
CreditIsCharge == Purse!CreditIsCharge

\* A top-up that is shown disappears only with the session, or when an overtaken answer or
\* one for another account arrives.
LosesOnlyByOvertaking == Purse!LosesOnlyByOvertaking

\* A booking nobody disturbed sends the add-ons that are in its price.
UndisturbedBookingIsConsistent == Addons!UndisturbedBookingIsConsistent

\* The amounts are those of the quantity, coupon and add-ons shown.
QuoteOfPresentInputs == part = "price" => Price!QuoteOfPresentInputs

\* The total is the exact one up to the roundings on the way.
QuoteIsNearExact == part = "price" => Price!QuoteIsNearExact

\* The total moves with the quantity.
QuoteFollowsQuantity == Price!QuoteFollowsQuantity
=============================================================================
