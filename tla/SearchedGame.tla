---------------------------- MODULE SearchedGame ----------------------------
(***************************************************************************)
(* What InteractivePlay promises its callers: one game, searched one       *)
(* evaluation at a time, each of them the evaluation of the leaf the tree  *)
(* waits for, until the target is reached.  There is no thread, no lock    *)
(* and no revision here: every step is atomic.                             *)
(***************************************************************************)
EXTENDS MctsGame

CONSTANT IterationLimit   \* the largest value of the iteration counter

VARIABLES maxIterations,  \* max_mcts_iterations
          failed,         \* background_error is set
          evaluated       \* the position whose evaluation came last

absVars == <<gameVars, maxIterations, failed, evaluated>>

Unfinished == ~failed /\ visits < maxIterations /\ ~Terminal(moves)

Init ==
  /\ GameInit
  /\ maxIterations \in 1..IterationLimit
  /\ failed = FALSE
  /\ evaluated = <<>>

Evaluate ==
  /\ Unfinished
  /\ ReceiveEvaluation
  /\ evaluated' = leaf
  /\ UNCHANGED <<maxIterations, failed>>

Fail ==
  /\ Unfinished
  /\ failed' = TRUE
  /\ UNCHANGED <<gameVars, maxIterations, evaluated>>

Extend ==
  /\ ~failed
  /\ maxIterations' \in (maxIterations + 1)..IterationLimit
  /\ UNCHANGED <<gameVars, failed, evaluated>>

Play ==
  /\ ~failed
  /\ \E m \in Moves : MakeMove(m)
  /\ UNCHANGED <<maxIterations, failed, evaluated>>

\* Taking moves back, or retrying on the same board, forgives a failure.
Forgive ==
  /\ Undo \/ Reset \/ UNCHANGED gameVars
  /\ failed' = FALSE
  /\ UNCHANGED <<maxIterations, evaluated>>

Next == Evaluate \/ Fail \/ Extend \/ Play \/ Forgive

Spec == Init /\ [][Next]_absVars
=============================================================================
