CONSTANTS
  Tries = {t1}
  Bidders = {b1, b2}
  Reads = {r1, r2, r3}
  MaxRoutes = 3
  None = None
SPECIFICATION Spec
SYMMETRY Symmetry
INVARIANT BooksAssignedOnly
CHECK_DEADLOCK FALSE
