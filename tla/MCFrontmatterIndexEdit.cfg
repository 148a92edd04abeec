SPECIFICATION Spec
CONSTANTS
  Paths = {p}
  Contents = {a, b}
  Unreadable = Unreadable
  None = None
  Timers = {t1}
  Writers = {loop}
  MaxChanges = 1
INVARIANTS
  EditIsFresh
CHECK_DEADLOCK FALSE
