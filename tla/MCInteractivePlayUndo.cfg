CONSTANTS
  a = a
  b = b
  c1 = c1
  c2 = c2
  Moves <- MCMoves
  Boards <- MCBoards
  Callers = {c1}
  IterationLimit = 2
  MaxRevision = 2
  UndoAtStart = TRUE
SPECIFICATION FairSpec
PROPERTY SearchReachesTarget
CHECK_DEADLOCK FALSE
