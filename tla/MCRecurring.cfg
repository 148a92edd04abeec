SPECIFICATION Spec
CONSTANTS
  SafetyLimit = 2
  MaxSteps = 16
  Templates <- MCTemplates
  Days <- MCDays
  Scheduler = scheduler
  Tools = {}
  Cli = cli
  MaxRuns = 1
  MaxEvents = 1
INVARIANTS
  TypeOK
  NoSilentSkip
  CalendarIsRight
PROPERTIES
  CleanRunIsComplete
  WritesOnce
CHECK_DEADLOCK FALSE
