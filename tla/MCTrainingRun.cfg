CONSTANTS
  MaxAttempt = 3
  MaxShard = 6
  Capacity = 3
  Retention = 0
  Warmup = 2
  ShardBudget = 1
  BatchSize = 1
  ValidationSteps = 1
  ReportCap = 1
  DebtResume = 1
  ShardsPerBatch = 2
  DebtPause = 2
  CandidateLimit = 1
  MaxInvocations = 2
  Interruptions = TRUE
SPECIFICATION Spec
INVARIANTS FilesExist OneAtATime StopIsDurable
PROPERTY LadderSpec
CHECK_DEADLOCK FALSE
