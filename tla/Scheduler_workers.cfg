SPECIFICATION Spec
CONSTANTS
  Jobs = {"a"}
  Kinds <- EachAlone
  Workers = {1, 2}
  MaxRetries = 1
  WakeMaxRetries = 1
  Occurrences = 1
  MaxOps = 0
  MaxRestarts = 1
  Faults = {"orphan", "overlap"}
INVARIANTS TypeOK ClaimedOnce GivenUpWhenSpent
PROPERTIES EndedStaysEnded
CHECK_DEADLOCK FALSE
