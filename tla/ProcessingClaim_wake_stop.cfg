SPECIFICATION Spec
CONSTANTS
  Turns = {t1}
  Fenced = {}
  Routes = {}
  Wakes = {w1}
  ClearSlots = {s1}
  t1 = t1
  w1 = w1
  s1 = s1
  NoOne = NoOne
  MaxRetries = 1
  MaxClaims = 3
  StopEnabled = TRUE
INVARIANTS
  TurnExclusion
