SPECIFICATION Spec
CONSTANTS
  Clients = {c1, c2, c3}
  EnvClient = env
  Codes = {d1}
  Flows = {f}
  Nothing = Nothing
  MaxRegistered = 3
  ClientTTL = 0
  CodeTTL = 1
  MaxTime = 1
  MaxFaults = 0
  MaxRestarts = 1
INVARIANTS
  ReconnectsSurviveRestart
CHECK_DEADLOCK FALSE
