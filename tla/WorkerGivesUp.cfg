CONSTANTS
  Workers = {w1}
  BaseDelay = 1000
  MaxDelay = 10000
  MaxExponent = 1024
  MaxAttempts = 1100
SPECIFICATION WorkerSpec
INVARIANTS
  KeepsReconnecting
CHECK_DEADLOCK FALSE
