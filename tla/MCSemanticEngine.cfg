SPECIFICATION Spec
CONSTANTS
  Paths = {p, q}
  Texts = {a, b}
  a = a
  b = b
  Pieces <- TwoSizes
  Unparsable = {}
  Undecodable = {}
  None = None
  Torn = Torn
  Engines = {server}
  Server = server
  Embedders = {m, n}
  Timers = {t}
  BuildOnDemand = TRUE
  McpReindex = TRUE
  MaxChanges = 2
  MaxFaults = 1
  Lengths = {1, 5, 8}
  Sizes = {0, 1, 3, 4}
  Overlaps = {0, 1, 2, 5}
INVARIANTS
  RowsMatchChunks
  ManifestTellsChunks
  WordsAreFound
SYMMETRY SymEmbedders
CHECK_DEADLOCK FALSE
