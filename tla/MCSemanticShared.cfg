SPECIFICATION FairSpec
CONSTANTS
  Paths = {p}
  Texts = {a}
  a = a
  b = b
  Pieces <- JustOne
  Unparsable = {x}
  Undecodable = {}
  None = None
  Torn = Torn
  Engines = {server, cli}
  Server = server
  Embedders = {m}
  Timers = {t}
  BuildOnDemand = TRUE
  McpReindex = FALSE
  MaxChanges = 2
  MaxFaults = 0
  Lengths = {1}
  Sizes = {1}
  Overlaps = {0}
PROPERTY
  CatchesUp
CHECK_DEADLOCK FALSE
