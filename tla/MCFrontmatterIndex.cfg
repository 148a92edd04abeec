SPECIFICATION FairSpec
CONSTANTS
  Paths = {p, q}
  Contents = {a}
  Unreadable = Unreadable
  None = None
  Timers = {t1, t2}
  Writers = {loop}
  MaxChanges = 2
INVARIANTS
  TypeOK
  PendingHasTimer
  FreshOrComing
  AnswerIsFresh
PROPERTIES
  QuietSettles
CHECK_DEADLOCK FALSE
