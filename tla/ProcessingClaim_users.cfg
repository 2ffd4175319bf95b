SPECIFICATION FairSpec
CONSTANTS
  Turns = {t1, t2}
  Fenced = {f1}
  Routes = {r1}
  Wakes = {}
  ClearSlots = {s1}
  t1 = t1
  t2 = t2
  f1 = f1
  r1 = r1
  s1 = s1
  NoOne = NoOne
  MaxRetries = 1
  MaxClaims = 3
  StopEnabled = TRUE
INVARIANTS
  TypeOK
  LiveClaimMarked
  TurnExclusion
  HeldFlagHasHolder
PROPERTIES
  StopReleasesClaim
