SPECIFICATION Spec
SYMMETRY PathsSymmetry
CONSTANTS
  Paths = {p, q}
  Loop = Loop
  Scheduler = Scheduler
  Plain = Plain
  None = None
  MaxVersions = 3
  MaxTime = 1
  MaxFaults = 1
INVARIANTS
  TypeOK
  ReadableAgain
PROPERTIES
  RepliesTellTheTruth
  NoUnexplainedLoss
CHECK_DEADLOCK FALSE
