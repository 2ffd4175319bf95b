SPECIFICATION Spec
CONSTANTS
  Jobs = {"a", "b"}
  Kinds <- Pairs
  Workers = {1, 2}
  MaxRetries = 1
  WakeMaxRetries = 1
  Occurrences = 0
  MaxOps = 1
  MaxRestarts = 1
  Faults = {"death", "throw"}
INVARIANT DeferredComesBack
PROPERTY EveryOneShotEnds
CHECK_DEADLOCK FALSE
