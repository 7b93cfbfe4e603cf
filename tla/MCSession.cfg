SPECIFICATION Spec
CONSTANTS
  Users = {u1, u2}
  Flows = {f1, f2}
  Requests = {"userDetail"}
  MaxTokens = 3
  MaxNest = 1
  None = None
SYMMETRY Symmetry
INVARIANT LoggedInHasToken
PROPERTY ForeignTokenHasCause
