-------------------------- MODULE InteractivePlay --------------------------
(***************************************************************************)
(* The interactive game (cpp/src/interactive.cpp): a background thread     *)
(* that searches the board, API callers that change the board, one mutex   *)
(* and one condition variable.  The evaluator runs outside the mutex, so   *)
(* the board can change under it; a revision number tells.                 *)
(*                                                                         *)
(* An action is one critical section of a thread.  A thread inside         *)
(* condition_variable::wait is "asleep"; notify_all makes it "woken", and  *)
(* its next critical section evaluates the wait predicate again.           *)
(***************************************************************************)
EXTENDS MctsGame

CONSTANTS
  Callers,          \* threads that call the API
  IterationLimit,   \* std::numeric_limits<std::size_t>::max()
  MaxRevision,      \* bound: API calls that change the revision
  UndoAtStart       \* whether callers may call undo() without a move played

ASSUME InteractiveAssumption ==
  /\ IterationLimit \in Nat \ {0}
  /\ MaxRevision \in Nat
  /\ UndoAtStart \in BOOLEAN
  /\ Moves \cap {"random", "best"} = {}

VARIABLES
  maxIterations,    \* max_mcts_iterations
  failed,           \* background_error is set
  revision,         \* revision
  running,          \* background_running, what a snapshot shows
  stop,             \* the stop token was requested (destructor)
  bg,               \* where the background thread is
  bgRevision,       \* evaluation_revision: the revision at its last capture
  bgLeaf,           \* leaf: the position it captured
  caller,           \* where each caller is
  request,          \* the call a waiting caller has to finish
  evaluated         \* history: the position whose evaluation came last

searchVars == <<maxIterations, failed, revision, running, stop>>
bgVars     == <<bg, bgRevision, bgLeaf>>
callerVars == <<caller, request>>
vars       == <<gameVars, searchVars, bgVars, callerVars, evaluated>>

RandomMove == "random"
BestMove   == "best"
Requests   == Moves \cup {RandomMove}   \* those that may have to wait

----------------------------------------------------------------------------
(* Conditions, evaluated under the mutex.                                  *)

ShouldSearch == ~failed /\ visits < maxIterations /\ ~Terminal(moves)

\* The predicate of wait_until_root_is_expanded_locked.
RootReady == failed \/ visits # 0 \/ Terminal(moves)

NotifyCallers ==
  caller' = [c \in Callers |-> IF caller[c] = "asleep" THEN "woken"
                                                       ELSE caller[c]]

\* Faulty variant: the background thread is left asleep.
NotifyNobody == bg' = bg

NotifyBackground == bg' = IF bg = "asleep" THEN "woken" ELSE bg

\* Faulty variant: a call that forgets to notify.
ReturnSilently(c) ==
  /\ caller' = [caller EXCEPT ![c] = "idle"]
  /\ bg' = bg

\* notify_all by a caller, which ends its call.
ReturnAndNotify(c) ==
  /\ caller' = [d \in Callers |-> IF d = c THEN "idle"
                                  ELSE IF caller[d] = "asleep" THEN "woken"
                                  ELSE caller[d]]
  /\ NotifyBackground

\* Faulty variant: evaluations in flight are not invalidated.
SignalWithoutBump(c) ==
  /\ revision' = revision
  /\ running' = ShouldSearch'
  /\ ReturnAndNotify(c)

\* Every call that changes the board, or retries it, ends like this.
BumpAndSignal(c) ==
  /\ revision' = revision + 1
  /\ running' = ShouldSearch'
  /\ ReturnAndNotify(c)

----------------------------------------------------------------------------
Init ==
  /\ GameInit
  /\ maxIterations \in 1..IterationLimit
  /\ failed = FALSE
  /\ revision = 0
  /\ running = ShouldSearch
  /\ stop = FALSE
  /\ bg = "ready" /\ bgRevision = 0 /\ bgLeaf = <<>>
  /\ caller = [c \in Callers |-> "idle"]
  /\ request = [c \in Callers |-> RandomMove]
  /\ evaluated = <<>>

----------------------------------------------------------------------------
(* The background thread.                                                  *)

Stop ==
  /\ stop
  /\ running' = FALSE
  /\ NotifyCallers
  /\ bg' = "stopped"
  /\ UNCHANGED <<bgRevision, bgLeaf>>

FallAsleep ==
  /\ ~stop /\ ~ShouldSearch
  /\ running' = FALSE
  /\ NotifyCallers
  /\ bg' = "asleep"
  /\ UNCHANGED <<bgRevision, bgLeaf>>

Capture ==
  /\ ~stop /\ ShouldSearch
  /\ running' = TRUE
  /\ bg' = "evaluating"
  /\ bgRevision' = revision
  /\ bgLeaf' = leaf
  /\ UNCHANGED caller

LoopHead == Stop \/ FallAsleep \/ Capture

BgLoop ==
  /\ bg = "ready"
  /\ LoopHead
  /\ UNCHANGED <<gameVars, maxIterations, failed, revision, stop, request,
                 evaluated>>

\* The predicate of the background wait: still false, it sleeps on.
BgWake ==
  /\ bg = "woken"
  /\ \/ Stop
     \/ Capture
     \/ /\ ~stop /\ ~ShouldSearch
        /\ bg' = "asleep"
        /\ UNCHANGED <<running, bgRevision, bgLeaf, caller>>
  /\ UNCHANGED <<gameVars, maxIterations, failed, revision, stop, request,
                 evaluated>>

\* Faulty variant: the revision is not compared after relocking.
StaleOnlyWhenStopped == stop

Stale == bgRevision # revision \/ stop

\* Whatever the evaluator returned or threw is dropped, and the loop goes on
\* without releasing the mutex.
BgDiscard ==
  /\ bg = "evaluating" /\ Stale
  /\ LoopHead
  /\ UNCHANGED <<gameVars, maxIterations, failed, revision, stop, request,
                 evaluated>>

BgReceive ==
  /\ bg = "evaluating" /\ ~Stale
  /\ UNCHANGED <<maxIterations, failed, revision, stop, bgRevision, bgLeaf,
                 request>>
  /\ ReceiveEvaluation
  /\ evaluated' = bgLeaf
  /\ running' = (running /\ ShouldSearch')
  /\ NotifyCallers
  /\ bg' = "ready"

\* Faulty variant: the flag a snapshot shows is not cleared.
BgFailStillRunning ==
  /\ bg = "evaluating" /\ ~Stale
  /\ failed' = TRUE
  /\ NotifyCallers
  /\ bg' = "asleep"
  /\ UNCHANGED <<gameVars, maxIterations, revision, running, stop, bgRevision,
                 bgLeaf, request, evaluated>>

\* Faulty variant: callers waiting for the root are not told of the error.
BgFailSilently ==
  /\ bg = "evaluating" /\ ~Stale
  /\ failed' = TRUE
  /\ running' = FALSE
  /\ bg' = "asleep"
  /\ UNCHANGED <<gameVars, maxIterations, revision, stop, bgRevision, bgLeaf,
                 callerVars, evaluated>>

\* The evaluator threw, or returned the wrong number of results, or values
\* validate_evaluation rejects.
BgFail ==
  /\ bg = "evaluating" /\ ~Stale
  /\ failed' = TRUE
  /\ running' = FALSE
  /\ NotifyCallers
  /\ bg' = "asleep"
  /\ UNCHANGED <<gameVars, maxIterations, revision, stop, bgRevision, bgLeaf,
                 request, evaluated>>

----------------------------------------------------------------------------
(* The API.  A call that finds background_error set rethrows it, changes   *)
(* nothing and is no step; so is one that returns false.                   *)

CanCall(c) == caller[c] = "idle" /\ ~stop /\ revision < MaxRevision

\* What no call touches.
Frame == UNCHANGED <<stop, bgRevision, bgLeaf, evaluated>>

IncreaseIterations(c) ==
  /\ CanCall(c) /\ ~failed
  /\ Frame /\ UNCHANGED <<gameVars, failed, revision, request>>
  /\ maxIterations' \in (maxIterations + 1)..IterationLimit
  /\ running' = ShouldSearch'
  /\ ReturnAndNotify(c)

Perform(r) ==
  \/ r \in Moves /\ MakeMove(r)
  \/ r = RandomMove /\ MakeRandomMove
  \/ r = BestMove /\ MakeBestMove

\* make_move wants a free column, the other two an ongoing game.
Acceptable(r) ==
  IF r \in Moves THEN r \in LegalMoves(moves) ELSE ~Terminal(moves)

Play(c, r) ==
  /\ Frame /\ UNCHANGED <<maxIterations, failed, request>>
  /\ Perform(r)
  /\ BumpAndSignal(c)

Await(c, r) ==
  /\ caller' = [caller EXCEPT ![c] = "asleep"]
  /\ request' = [request EXCEPT ![c] = r]
  /\ Frame
  /\ UNCHANGED <<gameVars, maxIterations, failed, revision, running, bg>>

\* make_move, make_random_move: the request is checked against the board of
\* the call, and played on the board found after the wait.
RequestMove(c, r) ==
  /\ CanCall(c) /\ ~failed
  /\ Acceptable(r)
  /\ IF visits # 0 THEN Play(c, r) ELSE Await(c, r)

\* The wait ends with the error rethrown, or with MctsGame refusing the move
\* on the board it finds, or with the move.
Throw(c) ==
  /\ failed \/ ~(Expanded /\ Acceptable(request[c]))
  /\ caller' = [caller EXCEPT ![c] = "idle"]
  /\ Frame
  /\ UNCHANGED <<gameVars, maxIterations, failed, revision, running, bg, request>>

CallerWake(c) ==
  /\ caller[c] = "woken"
  /\ \/ ~RootReady /\ Await(c, request[c])
     \/ RootReady /\ Throw(c)
     \/ RootReady /\ ~failed /\ Play(c, request[c])

MakeBestMoveIfReady(c) ==
  /\ CanCall(c) /\ ~failed
  /\ visits >= maxIterations
  /\ Play(c, BestMove)

\* reset, undo of a move and retry_evaluation forget the error.
Forget(c) ==
  /\ CanCall(c)
  /\ failed' = FALSE
  /\ Frame /\ UNCHANGED <<maxIterations, request>>

ResetCall(c)       == Forget(c) /\ Reset /\ BumpAndSignal(c)
UndoCall(c)        == Forget(c) /\ Undo /\ BumpAndSignal(c)
RetryEvaluation(c) == Forget(c) /\ UNCHANGED gameVars /\ BumpAndSignal(c)

\* undo() without a move to take back clears the error and invalidates the
\* evaluation in flight, but signals nobody.
UndoNothing(c) ==
  /\ UndoAtStart /\ moves = <<>>
  /\ Forget(c)
  /\ revision' = revision + 1
  /\ UNCHANGED <<gameVars, running, bg, caller>>

\* The destructor, which no call may overlap.
Destroy ==
  /\ ~stop
  /\ \A c \in Callers : caller[c] = "idle"
  /\ stop' = TRUE
  /\ NotifyBackground
  /\ UNCHANGED <<gameVars, maxIterations, failed, revision, running,
                 bgRevision, bgLeaf, callerVars, evaluated>>

\* A condition variable may wake a thread that nobody notified.
SpuriousWakeup ==
  /\ \/ /\ bg = "asleep" /\ bg' = "woken"
        /\ UNCHANGED caller
     \/ /\ \E c \in Callers : /\ caller[c] = "asleep"
                              /\ caller' = [caller EXCEPT ![c] = "woken"]
        /\ UNCHANGED bg
  /\ UNCHANGED <<gameVars, searchVars, bgRevision, bgLeaf, request, evaluated>>

----------------------------------------------------------------------------
Evaluator == BgDiscard \/ BgReceive \/ BgFail

Call(c) ==
  \/ IncreaseIterations(c)
  \/ \E r \in Requests : RequestMove(c, r)
  \/ MakeBestMoveIfReady(c)
  \/ ResetCall(c)
  \/ UndoCall(c)
  \/ UndoNothing(c)
  \/ RetryEvaluation(c)

Next ==
  \/ BgLoop \/ BgWake \/ Evaluator
  \/ \E c \in Callers : Call(c) \/ CallerWake(c)
  \/ Destroy
  \/ SpuriousWakeup

Spec == Init /\ [][Next]_vars

(***************************************************************************)
(* The scheduler runs every thread that can run, an evaluator call returns *)
(* or throws (the inference process has a request deadline), and a caller  *)
(* that was notified gets the mutex.  Nothing makes a caller call.         *)
(***************************************************************************)
Fairness ==
  /\ WF_vars(BgLoop) /\ WF_vars(BgWake) /\ WF_vars(Evaluator)
  /\ \A c \in Callers : WF_vars(CallerWake(c))

FairSpec == Spec /\ Fairness

----------------------------------------------------------------------------
(* Properties.                                                             *)

\* Type correctness; "moves \in Boards" is the game's own rule: whatever
\* callers race for, the line played is a legal one.
TypeOK ==
  /\ GameTypeOK
  /\ maxIterations \in 1..IterationLimit
  /\ failed \in BOOLEAN /\ running \in BOOLEAN /\ stop \in BOOLEAN
  /\ revision \in Nat /\ bgRevision \in Nat
  /\ bg \in {"ready", "evaluating", "asleep", "woken", "stopped"}
  /\ bgLeaf \in Boards
  /\ caller \in [Callers -> {"idle", "asleep", "woken"}]
  /\ request \in [Callers -> Requests]
  /\ evaluated \in Boards

\* The leaf the tree waits for lies in the subtree of the board on display.
LeafBelowRoot == leaf \in Leaves(moves, visits)

\* An evaluation that the revision check lets through was asked for the leaf
\* that is now selected, in a search that still wants it
\* (background_loop: the check of evaluation_revision after relocking).
FreshEvaluation ==
  bg = "evaluating" /\ ~Stale => bgLeaf = leaf /\ ShouldSearch

\* The search stops exactly at its target, however boards are promoted,
\* dropped and extended around it.
VisitsWithinTarget == visits <= maxIterations

\* The shared tree stays sound whichever calls race for it: the line played is
\* legal, the leaf in flight hangs below the board on display, and the search
\* does not run past its target (make_move, undo, background_loop).
TreeIsSound == TypeOK /\ LeafBelowRoot /\ VisitsWithinTarget

\* A snapshot that shows a running search is of a board that is being
\* searched: the background thread is on its way to it, not asleep.
RunningIsHonest ==
  running => ShouldSearch /\ bg \notin {"asleep", "stopped"}

\* A thread sleeps only while its predicate is false, so no notification is
\* lost; the one exception is the background thread of a board without moves,
\* when callers call undo() there.
NoLostWakeup ==
  /\ ShouldSearch /\ ~stop /\ bg = "asleep" => UndoAtStart /\ moves = <<>>
  /\ \A c \in Callers : RootReady => caller[c] # "asleep"

\* The threads together do what one atomic loop would do: an evaluation
\* counts for the very leaf it was computed from.
Searched == INSTANCE SearchedGame
SearchedSpec == Searched!Spec

\* A search reaches its target, unless the evaluator fails, the game ends or
\* the object is destroyed.
SearchReachesTarget == ShouldSearch ~> (~ShouldSearch \/ stop)

\* No caller waits forever for the root to be expanded.
WaitersReturn == \A c \in Callers : caller[c] # "idle" ~> caller[c] = "idle"

\* The destructor's join returns.
DestroyReturns == stop ~> bg = "stopped"

\* Every call comes back: those that wait for the root of the tree, whatever
\* other callers do to it, and the destructor
\* (wait_until_root_is_expanded_locked, ~Impl).
CallsReturn == WaitersReturn /\ DestroyReturns
=============================================================================
