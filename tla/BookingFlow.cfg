CONSTANTS
  Tries = {t1, t2}
  Dialogs = {d1, d2}
  None = None
SPECIFICATION FairSpec

INVARIANTS OverlapHasCause PaymentScreensAreDue
PROPERTY LoadingEnds
CHECK_DEADLOCK FALSE
