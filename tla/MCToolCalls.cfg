SPECIFICATION CallsSpec
CONSTANTS
  Calls = {c1, c2}
  Paths = {p, q}
  Other = Other
  None = None
  ReadsOn = TRUE
  MaxChanges = 1
  MaxCallFaults = 1
SYMMETRY SymBoth
INVARIANT
  LogAccountsForWrites
CHECK_DEADLOCK FALSE
