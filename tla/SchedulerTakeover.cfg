SPECIFICATION Spec
CONSTANTS
  Nobody = Nobody
  Workers = {w1, w2}
  Slots = {1, 2}
  Periods = {2}
  LeaseTtl = 1
  RetryDelay = 1
  BeatLimit = 1
  Horizon = 1
INVARIANTS
  LeaseIsOfRun
PROPERTIES
  DueJobIsTaken
CHECK_DEADLOCK FALSE
