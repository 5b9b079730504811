CONSTANTS
  a = a
  b = b
  c1 = c1
  c2 = c2
  Moves <- MCMoves
  Boards <- MCBoards
  Callers = {c1, c2}
  IterationLimit = 2
  MaxRevision = 2
  UndoAtStart = FALSE
SPECIFICATION FairSpec
PROPERTIES SearchReachesTarget CallsReturn
CHECK_DEADLOCK FALSE
