SPECIFICATION Spec
CONSTANTS
  Turns = {t1, t2}
  Fenced = {}
  Routes = {}
  Wakes = {w1, w2}
  ClearSlots = {s1}
  t1 = t1
  t2 = t2
  w1 = w1
  w2 = w2
  s1 = s1
  NoOne = NoOne
  MaxRetries = 1
  MaxClaims = 3
  StopEnabled = TRUE
SYMMETRY Symmetry
INVARIANTS
  WaitersNeverMissRelease
PROPERTIES
  MarkerNamesLiveClaim
