CONSTANTS
  Calls = {v1, v2, v3}
  Taps = {p1, p2}
SPECIFICATION Spec
INVARIANTS OneVerificationAtATime SignedInIsShown LoaderIsWaiting
CHECK_DEADLOCK FALSE
