CONSTANTS
  MaxRequests = 3
  MaxWorkers = 3
  SlowDeath = TRUE
SPECIFICATION Spec
INVARIANT RetryReloads
CHECK_DEADLOCK FALSE
