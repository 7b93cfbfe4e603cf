CONSTANTS
  Tries = {t1, t2}
  Dialogs = {d1}
  None = None
SPECIFICATION Spec
INVARIANT RetrySendsSamePackage
CHECK_DEADLOCK FALSE
