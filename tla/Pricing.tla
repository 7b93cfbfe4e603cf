------------------------------- MODULE Pricing -------------------------------
(***************************************************************************)
(* The price of the booking screen: finalCalculations of                     *)
(* lib/utils/booking_calculations_logic.dart and the handlers of             *)
(* lib/screens/booking/book_service_screen.dart that call it.                *)
(*                                                                           *)
(* Amounts are integers in hundredths of the currency.  toStringAsFixed      *)
(* rounds to the decimals of the configuration, that is to a multiple of     *)
(* grain hundredths (1, 10 or 100 for two, one or no decimals).  Which way a *)
(* tie goes depends on its binary form: tiesUp holds the parities of the     *)
(* lower neighbour at which it goes up.  The screen never passes a service   *)
(* type, a duration or extra charges, so the hourly branch and the charges   *)
(* of finalCalculations are not reached.                                     *)
(***************************************************************************)
EXTENDS Integers, FiniteSets, Functions

CONSTANTS Services,  \* what is booked: price, discount in %, advance in %, package price
          Coupons,   \* coupons of the list: type and discount
          NoCoupon,  \* no coupon is applied
          NoPackage, \* the service is booked without a package
          AddonPrices, \* the add-ons of the service page, each with its price
          Taxes,     \* the taxes of the service: type and value
          Grains,    \* the smallest amounts the configuration may show
          MaxItems   \* bound: the largest quantity

VARIABLES service, grain, tiesUp, \* widget.data, priceDecimalPoint, the ties
          itemCount, appliedCouponData, addons, \* what the customer chooses
          bookingAmountModel,   \* the amounts shown and sent
          advancePaymentAmount  \* the advance shown, in hundredths of a hundredth

vars == <<service, grain, tiesUp, itemCount, appliedCouponData, addons,
          bookingAmountModel, advancePaymentAmount>>

Magnitude(x) == IF x < 0 THEN -x ELSE x

\* toStringAsFixed and toDouble of n/d.
Rounded(n, d) ==
  LET step == d * grain
      q == n \div step
      twice == 2 * (n - q * step)
  IN IF twice > step \/ (twice = step /\ q % 2 \in tiesUp)
       THEN (q + 1) * grain ELSE q * grain

-----------------------------------------------------------------------------
(* finalCalculations.                                                       *)

TotalServicePrice(q) ==
  IF service.package # NoPackage THEN Rounded(service.package, 1)
                                 ELSE Rounded(service.price * q, 1)

\* Mutant: the percentage is not divided by a hundred.
DiscountAmountWhole(total) ==
  IF service.package = NoPackage /\ service.discount # 0
    THEN Rounded(total * service.discount, 1) ELSE 0

DiscountAmount(total) ==
  IF service.package = NoPackage /\ service.discount # 0
    THEN Rounded(total * service.discount, 100) ELSE 0

CalculateCouponDiscount(c, total) ==
  IF c = NoCoupon THEN 0
  ELSE IF c.type = "fixed" THEN Rounded(c.discount, 1)
  ELSE Rounded(total * c.discount, 100)

\* Mutant: every tax is a percentage.
TaxAmountPercent(t, subTotal) == Rounded(subTotal * t.value, 100)

\* Each tax is rounded by itself before they are summed.
TaxAmount(t, subTotal) ==
  IF t.type = "percent" THEN Rounded(subTotal * t.value, 100) ELSE Rounded(t.value, 1)

CalculateTotalTaxAmount(subTotal) ==
  Rounded(SumFunction([t \in Taxes |-> TaxAmount(t, subTotal)]), 1)

FinalCalculations(q, c, ad) ==
  LET total == TotalServicePrice(q)
      discount == DiscountAmount(total)
      coupon == CalculateCouponDiscount(c, total)
      addonAmount == SumFunctionOnSet(AddonPrices, ad)
      subTotal == Rounded(total - discount - coupon + addonAmount, 1)
      tax == CalculateTotalTaxAmount(subTotal)
  IN [total |-> total, discount |-> discount, coupon |-> coupon,
      addonAmount |-> addonAmount, subTotal |-> subTotal, tax |-> tax,
      grandTotal |-> Rounded(subTotal + tax, 1)]

-----------------------------------------------------------------------------
(* The handlers.                                                            *)

\* finalSubTotal.isNegative, which holds of the -0.0 that an amount below zero rounds to.
\* Amounts that cancel may be just below zero in floating point, unless only one of them
\* is taken off: a coupon with a discount, or with add-ons.
IsNegative(m) ==
  LET left == m.total - m.discount - m.coupon + m.addonAmount IN
    IF left = 0 /\ m.coupon # 0 /\ (m.discount # 0 \/ m.addonAmount # 0)
      THEN BOOLEAN ELSE {left < 0}

\* The percentage, not the amount, is rounded to the decimals of a price.
Advance(grandTotal) == grandTotal * Rounded(service.advance, 1)

Priced(m) ==
  /\ bookingAmountModel' = m
  /\ advancePaymentAmount' = Advance(m.grandTotal)

\* Mutant: the coupon is dropped and the amounts are kept.
SetPriceOnce(q, c, ad) ==
  LET m == FinalCalculations(q, c, ad) IN
  /\ itemCount' = q /\ addons' = ad
  /\ \E n \in IsNegative(m) : appliedCouponData' = IF n THEN NoCoupon ELSE c
  /\ Priced(m)
  /\ UNCHANGED <<service, grain, tiesUp>>

\* setPrice: a negative subtotal drops the coupon and computes once more.
SetPrice(q, c, ad) ==
  LET m == FinalCalculations(q, c, ad) IN
  /\ itemCount' = q /\ addons' = ad
  /\ \/ FALSE \in IsNegative(m) /\ appliedCouponData' = c /\ Priced(m)
     \/ /\ TRUE \in IsNegative(m)
        /\ appliedCouponData' = NoCoupon
        /\ Priced(FinalCalculations(q, NoCoupon, ad))
  /\ UNCHANGED <<service, grain, tiesUp>>

\* init() of the screen, with the add-ons chosen on the service page.
Init ==
  /\ service \in Services /\ grain \in Grains /\ tiesUp \in SUBSET {0, 1}
  /\ itemCount = 1 /\ appliedCouponData = NoCoupon
  /\ addons \in SUBSET DOMAIN AddonPrices
  /\ bookingAmountModel = FinalCalculations(1, NoCoupon, addons)
  /\ advancePaymentAmount = Advance(bookingAmountModel.grandTotal)

Increment == itemCount < MaxItems /\ SetPrice(itemCount + 1, appliedCouponData, addons)

\* At one item the button computes the price again and nothing else.
Decrement ==
  SetPrice(IF itemCount # 1 THEN itemCount - 1 ELSE itemCount, appliedCouponData, addons)

\* applyCoupon: the list of coupons gives one back; no coupon row with a package.
ApplyCoupon(c) == service.package = NoPackage /\ SetPrice(itemCount, c, addons)

RemoveCoupon == appliedCouponData # NoCoupon /\ SetPrice(itemCount, NoCoupon, addons)

\* The add-on component of the screen only takes add-ons away.
RemoveAddon(a) == a \in addons /\ SetPrice(itemCount, appliedCouponData, addons \ {a})

Next ==
  \/ Increment \/ Decrement \/ RemoveCoupon
  \/ \E c \in Coupons : ApplyCoupon(c)
  \/ \E a \in DOMAIN AddonPrices : RemoveAddon(a)

Spec == Init /\ [][Next]_vars

-----------------------------------------------------------------------------

\* The amounts shown, and sent with the booking, are those of the quantity, coupon
\* and add-ons shown, and never negative, also when setPrice had to drop the coupon
\* and call itself.
QuoteOfPresentInputs ==
  /\ bookingAmountModel = FinalCalculations(itemCount, appliedCouponData, addons)
  /\ bookingAmountModel.subTotal >= 0

\* What is taken off the price in percent, when the coupon is a percentage too.
PercentOff ==
  (IF service.package # NoPackage THEN 0 ELSE service.discount)
  + (IF appliedCouponData = NoCoupon \/ appliedCouponData.type = "fixed" THEN 0
     ELSE appliedCouponData.discount)
FixedOff ==
  IF appliedCouponData # NoCoupon /\ appliedCouponData.type = "fixed"
    THEN appliedCouponData.discount ELSE 0

PercentTaxes == SumFunction([t \in Taxes |-> IF t.type = "percent" THEN t.value ELSE 0])
FixedTaxes == SumFunction([t \in Taxes |-> IF t.type = "percent" THEN 0 ELSE t.value])

\* Ten thousand times the total without any rounding: discount and coupon of the
\* price, the add-ons, the percentages on the sum and the fixed taxes.
ExactTotal ==
  LET base == IF service.package # NoPackage THEN service.package
              ELSE service.price * itemCount
      sub == base * (100 - PercentOff) - 100 * FixedOff
               + 100 * SumFunctionOnSet(AddonPrices, addons)
  IN sub * (100 + PercentTaxes) + 10000 * FixedTaxes

\* Ten thousand times what rounding can amount to: half a grain each for the price, the
\* discount, the coupon and the subtotal, taxed, and half a grain for every tax.  Rounding
\* the sum of the taxes and the total changes nothing.
Allowance == grain * (200 * (100 + PercentTaxes) + 5000 * Cardinality(Taxes))

\* The total is the exact one up to the roundings of the calculation.
QuoteIsNearExact ==
  Magnitude(10000 * bookingAmountModel.grandTotal - ExactTotal) <= Allowance

\* Up to the roundings the total moves with the quantity, unless discount and coupon are
\* together more than the price and only the add-ons keep it positive; it rises on a
\* smaller quantity only when setPrice drops a coupon the smaller price no longer covers.
QuoteFollowsQuantity ==
  [][ PercentOff <= 100 =>
        LET before == 10000 * bookingAmountModel.grandTotal
            after == 10000 * bookingAmountModel'.grandTotal
        IN  /\ itemCount' > itemCount => after + 2 * Allowance >= before
            /\ itemCount' < itemCount =>
                 \/ after <= before + 2 * Allowance
                 \/ appliedCouponData # NoCoupon /\ appliedCouponData' = NoCoupon ]_vars

\* The row of the advance shows the percentage of the provider next to the amount:
\* the amount is that percentage of the total, up to the rounding of a price.
AdvanceIsPercentage ==
  2 * Magnitude(advancePaymentAmount - bookingAmountModel.grandTotal * service.advance)
    <= 100 * grain
=============================================================================
