SPECIFICATION Spec
CHECK_DEADLOCK FALSE
CONSTANTS
  Tries = {c1, c2}
  Gateways = {"cod", "wallet", "stripe", "flutterwave", "paypal", "sadad", "phonepe", "airtel", "cinetpay", "midtrans"}
  Total = 10
  Percent = 20
  None = None
SYMMETRY Symmetry
INVARIANTS RecordedWasCharged PaidMeansPaidInFull OverpaidSharesSnapshot LoaderHasReason ChargeLossHasCause
