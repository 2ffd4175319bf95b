SPECIFICATION Spec
CONSTANTS
  j1 = j1
  j2 = j2
  j3 = j3
  Workers = {w1, w2}
  NoWorker = NoWorker
  Jobs = {j1, j2, j3}
  Key <- PageRows
  Lane <- PageLanes
  Budget <- Budgets
  MaxAttempts = 2
  MaxDeferrals = 2
  Postponed = {j3}
  Racing = FALSE
  Signals = FALSE
INVARIANTS WriteNotLost
SYMMETRY Symmetry
CHECK_DEADLOCK FALSE
