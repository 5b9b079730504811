CONSTANTS
  MaxAttempt = 4
  MaxShard = 16
  Capacity = 4
  Retention = 0
  Warmup = 3
  ShardBudget = 2
  BatchSize = 3
  ValidationSteps = 2
  ReportCap = 2
  DebtResume = 1
  ShardsPerBatch = 1
  DebtPause = 2
  CandidateLimit = 1
  MaxInvocations = 1
  Interruptions = FALSE
SPECIFICATION FairSpec
PROPERTY PauseEnds
CHECK_DEADLOCK FALSE
