SPECIFICATION FairSpec
CONSTANTS
  Uploads = {u1}
  Requests = {r1, r2}
  Contents = {a, b}
  BadBody = BadBody
  Nothing = Nothing
  MaxCrashes = 1
INVARIANTS
  TypeOK
  WrittenOnce
  RepliesTellTheTruth
  RefusalKeepsTheUrl
  NoLitter
  HooksFollowWrites
PROPERTIES
  KeepsPromise
  StagedIsAnswered
CHECK_DEADLOCK FALSE
