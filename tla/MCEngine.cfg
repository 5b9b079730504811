CONSTANTS
  Games = {"g1", "g2"}
  Workers = {"w1", "w2"}
  Neural = "neural"
  Main = "main"
  Leaves = {1, 2}
  Moves = 1
  Iterations = 2
  MaxBatch = 1
  Players <- Swapped
  Processes = {"p", "q"}
  Requests <- SolverRequests
  ChunkSize = 1
  Capacity = 1
  MaxLines = 2
  Start = 1
  Strays <- StrayLines
  MaxCalls = 2
SPECIFICATION EngineSpec
INVARIANTS GamesAreConserved RightEvaluation RulesAreKept CacheIsTrue PipesNeverBlock
PROPERTIES SelfPlayTerminates StoredTogether
CHECK_DEADLOCK FALSE
