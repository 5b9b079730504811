CONSTANTS
  a = a
  b = b
  c1 = c1
  c2 = c2
  Moves <- MCMoves
  Boards <- MCBoards
  Callers = {c1, c2}
  IterationLimit = 3
  MaxRevision = 3
  UndoAtStart = TRUE
SPECIFICATION Spec
INVARIANTS TreeIsSound FreshEvaluation RunningIsHonest NoLostWakeup
PROPERTY SearchedSpec
CHECK_DEADLOCK FALSE
