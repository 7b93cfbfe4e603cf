CONSTANTS
  Messages = {m1}
  FromCustomer = {m1}
  MaxWrites = 2
  MaxOpens = 2
SPECIFICATION Spec
INVARIANTS  ReadMeansOpened
CHECK_DEADLOCK FALSE
