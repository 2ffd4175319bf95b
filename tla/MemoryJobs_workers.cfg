SPECIFICATION FairSpec
CONSTANTS
  j1 = j1
  j2 = j2
  j3 = j3
  Workers = {w1, w2, w3}
  NoWorker = NoWorker
  Jobs = {j1}
  Key <- PageRows
  Lane <- PageLanes
  Budget <- Budgets
  MaxAttempts = 2
  MaxDeferrals = 1
  Postponed = {}
  Racing = TRUE
  Signals = TRUE
INVARIANTS TypeOK
PROPERTY TerminalStays
PROPERTY ClaimIsExclusive
PROPERTY NamedWorkerKeepsItsRows
CHECK_DEADLOCK FALSE
PROPERTY JobEnds
PROPERTY SupersededWorkerEnds
