CONSTANTS
  Workers = {w1, w2}
  BaseDelay = 1000
  MaxDelay = 10000
  MaxExponent = 1024
  MaxAttempts = 6
SPECIFICATION WorkerSpec
INVARIANTS
  WorkerTypeOK
PROPERTIES
  Backoff
  StopEnds
CHECK_DEADLOCK FALSE
