SPECIFICATION Spec
CONSTANTS
  Nobody = Nobody
  Workers = {w1}
  Slots = {1, 2}
  Periods = {2}
  LeaseTtl = 2
  RetryDelay = 1
  BeatLimit = 0
  Horizon = 2
INVARIANTS
  StopEndsRuns
CHECK_DEADLOCK FALSE
