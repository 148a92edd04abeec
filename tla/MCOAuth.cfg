SPECIFICATION Spec
CONSTANTS
  Clients = {c1, c2, c3}
  EnvClient = env
  Codes = {d1}
  Flows = {f, g}
  Nothing = Nothing
  MaxRegistered = 2
  ClientTTL = 1
  CodeTTL = 1
  MaxTime = 3
  MaxFaults = 1
  MaxRestarts = 2
SYMMETRY Interchangeable
INVARIANTS
  TypeOK
  CodeBuysOneToken
  TokenGoesToTheGrantee
  AtMostMaxRegistered
  StoreMirrorsRegistry
  KeepsRecentClients
PROPERTIES
  NoLateToken
CHECK_DEADLOCK FALSE
