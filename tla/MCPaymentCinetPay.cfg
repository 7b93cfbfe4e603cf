SPECIFICATION Spec
CHECK_DEADLOCK FALSE
CONSTANTS
  Tries = {c1, c2}
  Gateways = {"cinetpay", "cod"}
  Total = 10
  Percent = 20
  None = None
SYMMETRY Symmetry
INVARIANT AcceptedByCinetPayIsSaved
