SPECIFICATION Spec
CONSTANTS
  Users = {u1}
  Flows = {f1, f2}
  Requests = {"bookingList", "userDetail"}
  MaxTokens = 3
  MaxNest = 2
  None = None
INVARIANT TypeOK
PROPERTY SendsAtMostTwice
SYMMETRY Symmetry
