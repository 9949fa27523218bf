SPECIFICATION Spec
SYMMETRY ProcessSymmetry
CONSTANTS
  Nobody = Nobody
  Workers = {w1, w2}
  Slots = {1}
  Periods = {2, 3}
  LeaseTtl = 2
  RetryDelay = 1
  BeatLimit = 0
  Horizon = 3
INVARIANTS
  TypeOK
PROPERTIES
  OccurrenceDoneOnce
CHECK_DEADLOCK FALSE
