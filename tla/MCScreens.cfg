SPECIFICATION ScreensSpec
CONSTANTS
  Filters = {none, paid}
  NoFilter = none
  Rows <- SmallRows
  PerPage = 2
  MaxRequests = 4
  Users = {ada, bob}
  Nobody = nobody
  Runs = {x1, x2, x3}
  Amounts = {0, 1}
  TopUps = {t1}
  BalanceReads = {r1, r2}
  Clears = {k1}
  Pages = {cleaning, painting}
  Slots = {window, oven}
  Answers = {g1, g2}
  NoAnswer = noanswer
  MaxDepth = 3
  Services <- SmallServices
  Coupons <- SmallCoupons
  Taxes <- SmallTaxes
  NoCoupon = nocoupon
  NoPackage = nopackage
  AddonPrices <- SmallAddonPrices
  Grains = {1, 10, 100}
  MaxItems = 4
INVARIANTS
  ListIsWhole
  SubscribedWhenSettled
  NoTopicLeftBehind
  ShownIsOwn
  CreditIsCharge
  UndisturbedBookingIsConsistent
  QuoteOfPresentInputs
  QuoteIsNearExact
PROPERTIES
  LosesOnlyByOvertaking
  QuoteFollowsQuantity
SYMMETRY Alike
CHECK_DEADLOCK FALSE
