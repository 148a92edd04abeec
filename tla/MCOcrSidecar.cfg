SPECIFICATION FairSpec
CONSTANTS
  Readers = {r1, r2}
  Versions = {v, w, x}
  v = v
  w = w
  x = x
  Fingerprint <- Prints
  None = None
  Dead = Dead
  Pages = {1, 2}
  TextPages = {1}
  Timeout = 1
  MaxBlocks = 2
  MaxChanges = 1
  MaxReads = 3
  MaxCrashes = 1
INVARIANTS
  RecognisedOnce
  AnswersAreCurrent
  WaitIsLongEnough
PROPERTY
  ReadsEnd
CHECK_DEADLOCK FALSE
