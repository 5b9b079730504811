CONSTANTS
  MaxAttempt = 4
  MaxShard = 16
  Capacity = 2
  Retention = 0
  Warmup = 1
  ShardBudget = 2
  BatchSize = 1
  ValidationSteps = 2
  ReportCap = 2
  DebtResume = 1
  ShardsPerBatch = 1
  DebtPause = 2
  CandidateLimit = 2
  MaxInvocations = 1
  Interruptions = FALSE
SPECIFICATION FairSpec
INVARIANT FreshGamesCountOnce
PROPERTIES InvocationReturns PauseEnds
CHECK_DEADLOCK FALSE
