SPECIFICATION Spec
CONSTANTS
  Urls = {u1, u2}
  Versions = {v, w, x, e}
  v = v
  w = w
  x = x
  e = e
  Size <- Sizes
  Headers <- Slices
  Nothing = Nothing
  MaxChanges = 2
  MaxFaults = 1
SYMMETRY SymUrls
INVARIANTS
  UrlIsSpentByOneBody
  ServedIsPromised
CHECK_DEADLOCK FALSE
