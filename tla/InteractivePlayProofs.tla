----------------------- MODULE InteractivePlayProofs -----------------------
(***************************************************************************)
(* Proofs about InteractivePlay, for every game tree, every set of callers *)
(* and every bound.                                                        *)
(***************************************************************************)
EXTENDS InteractivePlay, TLAPS

(***************************************************************************)
(* The inductive invariant: the checked invariants, and what they need to  *)
(* be preserved: a captured revision is not a future one, the destructor   *)
(* runs alone, and only it stops the background thread.                    *)
(***************************************************************************)
Lifetime ==
  /\ bgRevision <= revision
  /\ stop => \A c \in Callers : caller[c] = "idle"
  /\ bg = "stopped" => stop

IInv ==
  /\ TypeOK
  /\ LeafBelowRoot
  /\ VisitsWithinTarget
  /\ Lifetime
  /\ FreshEvaluation
  /\ RunningIsHonest
  /\ NoLostWakeup

----------------------------------------------------------------------------
(* The game.                                                               *)

\* A selected leaf is a position of the game tree.
LEMMA LeavesAreBoards ==
  ASSUME NEW b \in Boards, NEW v \in Nat
  PROVE  Leaves(b, v) \subseteq Boards
BY DEF Leaves, Below

\* An expanded root passes on fewer visits than it had.
LEMMA ChildVisitsDecrease ==
  ASSUME NEW b \in Boards, NEW v \in Nat, v > 0, NEW n \in ChildVisits(b, v)
  PROVE  n \in Nat /\ n < v
BY DEF ChildVisits

\* A move leads to a board of the game tree, with fewer visits and a leaf
\* below it.
LEMMA PromoteLemma ==
  ASSUME GameTypeOK, NEW m \in Moves, Promote(m, ChildVisits(moves, visits))
  PROVE  GameTypeOK' /\ LeafBelowRoot' /\ visits' < visits /\ moves' # <<>>
<1>1. moves' \in Boards
  BY DEF Promote, LegalMoves
<1>2. visits' \in Nat /\ visits' < visits
  BY ChildVisitsDecrease DEF Promote, Expanded, GameTypeOK
<1>3. leaf' \in Leaves(moves', visits')
  BY DEF Promote, SelectLeaf
<1>4. moves \in Seq(Moves)
  BY BoardsAssumption DEF GameTypeOK
<1>5. moves' # <<>>
  BY <1>4 DEF Promote
<1>6. QED
  BY <1>1, <1>2, <1>3, <1>5, LeavesAreBoards DEF GameTypeOK, LeafBelowRoot

\* Every way to pick a move promotes a child of the root.
LEMMA PerformPromotes ==
  ASSUME NEW r, Perform(r)
  PROVE  \E m \in Moves : Promote(m, ChildVisits(moves, visits))
BY DEF Perform, MakeMove, MakeRandomMove, MakeBestMove, Promote, SampledVisits,
       BestVisits

\* Going back to an earlier board starts a fresh tree there.
LEMMA ReturnLemma ==
  ASSUME NEW b \in Boards, ReturnTo(b)
  PROVE  GameTypeOK' /\ LeafBelowRoot' /\ visits' = 0
BY DEF ReturnTo, GameTypeOK, LeafBelowRoot, Leaves

LEMMA UndoLemma ==
  ASSUME GameTypeOK, Undo
  PROVE  GameTypeOK' /\ LeafBelowRoot' /\ visits' = 0
<1>1. moves \in Seq(Moves) /\ moves # <<>>
  BY BoardsAssumption DEF GameTypeOK, Undo
<1>2. Len(moves) - 1 \in 0..Len(moves)
  BY <1>1
<1>3. SubSeq(moves, 1, Len(moves) - 1) \in Boards
  BY <1>2, BoardsAssumption DEF GameTypeOK
<1>4. QED
  BY <1>3, ReturnLemma DEF Undo

LEMMA ResetLemma ==
  ASSUME GameTypeOK, LeafBelowRoot, Reset
  PROVE  /\ GameTypeOK' /\ LeafBelowRoot'
         /\ visits' = 0 \/ visits' = visits
<1>1. CASE moves = <<>>
  BY <1>1 DEF Reset, gameVars, GameTypeOK, LeafBelowRoot
<1>2. CASE moves # <<>>
  BY <1>2, ReturnLemma, BoardsAssumption DEF Reset
<1>3. QED
  BY <1>1, <1>2

----------------------------------------------------------------------------
(* Initially.                                                              *)

LEMMA InitIInv == Init => IInv
<1> SUFFICES ASSUME Init PROVE IInv
  OBVIOUS
<1> USE InteractiveAssumption
<1>1. TypeOK
  BY BoardsAssumption DEF Init, GameInit, TypeOK, GameTypeOK, ShouldSearch,
     Requests
<1>2. LeafBelowRoot /\ VisitsWithinTarget /\ Lifetime
  BY DEF Init, GameInit, LeafBelowRoot, Leaves, VisitsWithinTarget, Lifetime
<1>3. FreshEvaluation /\ RunningIsHonest /\ NoLostWakeup
  BY DEF Init, FreshEvaluation, RunningIsHonest, NoLostWakeup
<1>4. QED
  BY <1>1, <1>2, <1>3 DEF IInv
----------------------------------------------------------------------------
(* Callers.                                                                *)

\* A notified object has no sleeper left, and its flag tells the truth.
LEMMA NotifyLemma ==
  ASSUME TypeOK, NEW c \in Callers, ReturnAndNotify(c)
  PROVE  /\ caller' \in [Callers -> {"idle", "asleep", "woken"}]
         /\ \A d \in Callers : caller'[d] # "asleep"
         /\ bg' \in {"ready", "evaluating", "woken", "stopped"}
         /\ bg' = "stopped" <=> bg = "stopped"
         /\ bg' = "evaluating" <=> bg = "evaluating"
BY DEF TypeOK, ReturnAndNotify, NotifyBackground

\* Whatever a call did to the game, ending it with BumpAndSignal restores the
\* invariant: the evaluation in flight has become stale and everyone is awake.
LEMMA SignalLemma ==
  ASSUME IInv, NEW c \in Callers, Frame, BumpAndSignal(c), ~stop,
         GameTypeOK', LeafBelowRoot', visits' <= maxIterations',
         failed' \in BOOLEAN, maxIterations' = maxIterations,
         request' = request
  PROVE  IInv'
<1> USE DEF IInv, BumpAndSignal, Frame
<1>1. TypeOK'
  BY NotifyLemma DEF TypeOK, ShouldSearch
<1>2. Lifetime' /\ FreshEvaluation'
  BY NotifyLemma DEF TypeOK, Lifetime, FreshEvaluation, Stale
<1>3. RunningIsHonest' /\ NoLostWakeup'
  BY NotifyLemma DEF Lifetime, RunningIsHonest, NoLostWakeup
<1>4. QED
  BY <1>1, <1>2, <1>3 DEF VisitsWithinTarget

LEMMA PlayStep ==
  ASSUME IInv, NEW c \in Callers, NEW r, ~stop, Play(c, r)
  PROVE  IInv'
<1>1. PICK m \in Moves : Promote(m, ChildVisits(moves, visits))
  BY PerformPromotes DEF Play
<1>2. GameTypeOK' /\ LeafBelowRoot' /\ visits' < visits
  BY <1>1, PromoteLemma DEF IInv, TypeOK
<1>3. visits' <= maxIterations'
  BY <1>2, InteractiveAssumption
     DEF IInv, TypeOK, GameTypeOK, VisitsWithinTarget, Play
<1>4. QED
  BY <1>2, <1>3, SignalLemma DEF Play, IInv, TypeOK

\* Nothing but one caller's own place changes, and it goes to sleep only while
\* its predicate is false.
LEMMA AwaitStep ==
  ASSUME IInv, NEW c \in Callers, NEW r \in Requests, ~stop, ~RootReady,
         Await(c, r)
  PROVE  IInv'
<1> USE DEF IInv, Await, Frame, gameVars
<1>1. TypeOK' /\ LeafBelowRoot' /\ VisitsWithinTarget'
  BY DEF TypeOK, GameTypeOK, LeafBelowRoot, VisitsWithinTarget
<1>2. Lifetime' /\ FreshEvaluation'
  BY DEF Lifetime, FreshEvaluation, Stale, ShouldSearch
<1>3. RunningIsHonest' /\ NoLostWakeup'
  BY DEF TypeOK, RunningIsHonest, NoLostWakeup, ShouldSearch, RootReady
<1>4. QED
  BY <1>1, <1>2, <1>3

LEMMA ThrowStep ==
  ASSUME IInv, NEW c \in Callers, ~stop, Throw(c)
  PROVE  IInv'
<1> USE DEF IInv, Throw, Frame, gameVars
<1>1. TypeOK' /\ LeafBelowRoot' /\ VisitsWithinTarget'
  BY DEF TypeOK, GameTypeOK, LeafBelowRoot, VisitsWithinTarget
<1>2. Lifetime' /\ FreshEvaluation'
  BY DEF Lifetime, FreshEvaluation, Stale, ShouldSearch
<1>3. RunningIsHonest' /\ NoLostWakeup'
  BY DEF TypeOK, RunningIsHonest, NoLostWakeup, ShouldSearch, RootReady
<1>4. QED
  BY <1>1, <1>2, <1>3

LEMMA RequestStep ==
  ASSUME IInv, NEW c \in Callers, NEW r \in Requests, RequestMove(c, r)
  PROVE  IInv'
<1>1. CASE visits # 0
  BY <1>1, PlayStep DEF RequestMove, CanCall
<1>2. CASE visits = 0
  <2>1. ~Terminal(moves)
    BY DEF RequestMove, Acceptable, Terminal
  <2>2. ~RootReady
    BY <1>2, <2>1 DEF RequestMove, RootReady
  <2>3. QED
    BY <1>2, <2>2, AwaitStep DEF RequestMove, CanCall
<1>3. QED
  BY <1>1, <1>2

LEMMA CallerWakeStep ==
  ASSUME IInv, NEW c \in Callers, CallerWake(c)
  PROVE  IInv'
<1>1. ~stop
  BY DEF IInv, Lifetime, CallerWake
<1>2. request[c] \in Requests
  BY DEF IInv, TypeOK
<1>3. QED
  BY <1>1, <1>2, AwaitStep, ThrowStep, PlayStep DEF CallerWake

LEMMA IncreaseStep ==
  ASSUME IInv, NEW c \in Callers, IncreaseIterations(c)
  PROVE  IInv'
<1> USE DEF IInv, IncreaseIterations, CanCall, Frame, gameVars
<1>1. maxIterations' \in 1..IterationLimit /\ maxIterations' > maxIterations
  BY InteractiveAssumption DEF TypeOK
<1>2. TypeOK'
  BY <1>1, NotifyLemma DEF TypeOK, GameTypeOK, ShouldSearch
<1>3. LeafBelowRoot' /\ VisitsWithinTarget'
  BY <1>1, InteractiveAssumption
     DEF LeafBelowRoot, VisitsWithinTarget, TypeOK, GameTypeOK
<1>4. Lifetime'
  BY NotifyLemma DEF Lifetime
<1>5. FreshEvaluation'
  BY <1>1, NotifyLemma, InteractiveAssumption
     DEF FreshEvaluation, Stale, ShouldSearch, TypeOK, GameTypeOK
<1>6. RunningIsHonest' /\ NoLostWakeup'
  BY NotifyLemma DEF RunningIsHonest, NoLostWakeup, Lifetime
<1>7. QED
  BY <1>2, <1>3, <1>4, <1>5, <1>6

LEMMA ForgetStep ==
  ASSUME IInv, NEW c \in Callers,
         ResetCall(c) \/ UndoCall(c) \/ RetryEvaluation(c)
  PROVE  IInv'
<1> USE DEF Forget, CanCall
<1>1. /\ GameTypeOK' /\ LeafBelowRoot'
      /\ visits' = 0 \/ visits' = visits
  <2>1. CASE ResetCall(c)
    BY <2>1, ResetLemma DEF ResetCall, IInv, TypeOK
  <2>2. CASE UndoCall(c)
    BY <2>2, UndoLemma DEF UndoCall, IInv, TypeOK
  <2>3. CASE RetryEvaluation(c)
    BY <2>3 DEF RetryEvaluation, gameVars, IInv, TypeOK, GameTypeOK,
       LeafBelowRoot
  <2>4. QED
    BY <2>1, <2>2, <2>3
<1>2. /\ Frame /\ BumpAndSignal(c) /\ ~stop /\ failed' \in BOOLEAN
      /\ maxIterations' = maxIterations /\ request' = request
  BY DEF ResetCall, UndoCall, RetryEvaluation
<1>3. visits' <= maxIterations'
  BY <1>1, <1>2, InteractiveAssumption
     DEF IInv, TypeOK, VisitsWithinTarget
<1>4. QED
  BY <1>1, <1>2, <1>3, SignalLemma

\* The call that signals nobody: it leaves nothing stale behind, and the only
\* sleeper it can forget is the one NoLostWakeup excepts.
LEMMA UndoNothingStep ==
  ASSUME IInv, NEW c \in Callers, UndoNothing(c)
  PROVE  IInv'
<1>1. /\ UNCHANGED <<moves, visits, leaf, maxIterations, running, stop, bg,
                     bgRevision, bgLeaf, caller, request, evaluated>>
      /\ failed' = FALSE /\ revision' = revision + 1
  BY Zenon DEF UndoNothing, Forget, Frame, gameVars
<1>2. TypeOK' /\ LeafBelowRoot' /\ VisitsWithinTarget'
  <2>1. failed' \in BOOLEAN
    BY <1>1, Zenon
  <2>2. revision' \in Nat
    BY <1>1 DEF IInv, TypeOK
  <2>3. QED
    BY <1>1, <2>1, <2>2
       DEF IInv, TypeOK, GameTypeOK, LeafBelowRoot, VisitsWithinTarget
<1>3. Lifetime' /\ FreshEvaluation'
  BY <1>1 DEF IInv, TypeOK, Lifetime, FreshEvaluation, Stale
<1>4. UndoAtStart /\ moves' = <<>>
  BY <1>1 DEF UndoNothing
<1>5. RunningIsHonest' /\ NoLostWakeup'
  BY <1>1, <1>4
     DEF IInv, RunningIsHonest, NoLostWakeup, ShouldSearch, RootReady
<1>6. QED
  BY <1>2, <1>3, <1>5 DEF IInv

LEMMA DestroyStep ==
  ASSUME IInv, Destroy
  PROVE  IInv'
<1> USE DEF IInv, Destroy, NotifyBackground, gameVars, callerVars
<1>1. TypeOK' /\ LeafBelowRoot' /\ VisitsWithinTarget'
  BY DEF TypeOK, GameTypeOK, LeafBelowRoot, VisitsWithinTarget
<1>2. Lifetime' /\ FreshEvaluation'
  BY DEF Lifetime, FreshEvaluation, Stale
<1>3. RunningIsHonest' /\ NoLostWakeup'
  BY DEF RunningIsHonest, NoLostWakeup, ShouldSearch, RootReady, Lifetime
<1>4. QED
  BY <1>1, <1>2, <1>3

LEMMA SpuriousStep ==
  ASSUME IInv, SpuriousWakeup
  PROVE  IInv'
<1> USE DEF IInv, SpuriousWakeup, gameVars, searchVars
<1>1. TypeOK' /\ LeafBelowRoot' /\ VisitsWithinTarget'
  BY DEF TypeOK, GameTypeOK, LeafBelowRoot, VisitsWithinTarget
<1>2. Lifetime' /\ FreshEvaluation'
  BY DEF TypeOK, Lifetime, FreshEvaluation, Stale, ShouldSearch
<1>3. RunningIsHonest' /\ NoLostWakeup'
  BY DEF TypeOK, RunningIsHonest, NoLostWakeup, ShouldSearch, RootReady
<1>4. QED
  BY <1>1, <1>2, <1>3

----------------------------------------------------------------------------
(* The background thread.                                                  *)

\* Steps of the loop head change neither the game nor any condition on it.
LEMMA LoopStep ==
  ASSUME IInv, LoopHead \/ BgWake,
         bg # "stopped",
         UNCHANGED <<gameVars, maxIterations, failed, revision, stop, request,
                     evaluated>>
  PROVE  IInv'
<1> USE DEF IInv, LoopHead, BgWake, Stop, FallAsleep, Capture, NotifyCallers,
        gameVars
<1>1. TypeOK' /\ LeafBelowRoot' /\ VisitsWithinTarget'
  BY DEF TypeOK, GameTypeOK, LeafBelowRoot, VisitsWithinTarget
<1>2. Lifetime'
  BY DEF TypeOK, Lifetime
<1>3. FreshEvaluation'
  BY DEF TypeOK, FreshEvaluation, Stale, ShouldSearch
<1>4. RunningIsHonest'
  BY DEF TypeOK, RunningIsHonest, ShouldSearch
<1>5. NoLostWakeup'
  BY DEF TypeOK, NoLostWakeup, ShouldSearch, RootReady
<1>6. QED
  BY <1>1, <1>2, <1>3, <1>4, <1>5

LEMMA ReceiveStep ==
  ASSUME IInv, BgReceive
  PROVE  IInv'
<1> USE DEF IInv, BgReceive, ReceiveEvaluation, NotifyCallers
<1>1. moves' = moves /\ visits' \in Nat /\ leaf' \in Leaves(moves', visits')
  BY DEF TypeOK, GameTypeOK, SelectLeaf
<1>2. leaf' \in Boards
  BY <1>1, LeavesAreBoards DEF TypeOK, GameTypeOK
<1>3. TypeOK' /\ LeafBelowRoot'
  BY <1>1, <1>2 DEF TypeOK, GameTypeOK, LeafBelowRoot, ShouldSearch
<1>4. VisitsWithinTarget'
  BY InteractiveAssumption
     DEF FreshEvaluation, ShouldSearch, VisitsWithinTarget, TypeOK, GameTypeOK
<1>5. Lifetime' /\ FreshEvaluation' /\ RunningIsHonest'
  BY DEF TypeOK, Lifetime, FreshEvaluation, RunningIsHonest
<1>6. NoLostWakeup'
  BY DEF TypeOK, NoLostWakeup
<1>7. QED
  BY <1>3, <1>4, <1>5, <1>6

LEMMA FailStep ==
  ASSUME IInv, BgFail
  PROVE  IInv'
<1> USE DEF IInv, BgFail, NotifyCallers, gameVars
<1>1. TypeOK' /\ LeafBelowRoot' /\ VisitsWithinTarget'
  BY DEF TypeOK, GameTypeOK, LeafBelowRoot, VisitsWithinTarget
<1>2. Lifetime' /\ FreshEvaluation' /\ RunningIsHonest'
  BY DEF TypeOK, Lifetime, FreshEvaluation, RunningIsHonest
<1>3. NoLostWakeup'
  BY DEF TypeOK, NoLostWakeup, ShouldSearch
<1>4. QED
  BY <1>1, <1>2, <1>3

----------------------------------------------------------------------------
(* Every step.                                                             *)

LEMMA NextIInv == IInv /\ [Next]_vars => IInv'
<1> SUFFICES ASSUME IInv, [Next]_vars PROVE IInv'
  OBVIOUS
<1>1. CASE BgLoop \/ BgWake \/ BgDiscard
  BY <1>1, LoopStep DEF BgLoop, BgWake, BgDiscard
<1>2. CASE BgReceive
  BY <1>2, ReceiveStep
<1>3. CASE BgFail
  BY <1>3, FailStep
<1>4. ASSUME NEW c \in Callers, Call(c)
      PROVE  IInv'
  <2>1. CASE IncreaseIterations(c)
    BY <2>1, IncreaseStep
  <2>2. CASE \E r \in Requests : RequestMove(c, r)
    BY <2>2, RequestStep
  <2>3. CASE MakeBestMoveIfReady(c)
    BY <2>3, PlayStep DEF MakeBestMoveIfReady, CanCall
  <2>4. CASE ResetCall(c) \/ UndoCall(c) \/ RetryEvaluation(c)
    BY <2>4, ForgetStep
  <2>5. CASE UndoNothing(c)
    BY <2>5, UndoNothingStep
  <2>6. QED
    BY <1>4, <2>1, <2>2, <2>3, <2>4, <2>5 DEF Call
<1>5. ASSUME NEW c \in Callers, CallerWake(c)
      PROVE  IInv'
  BY <1>5, CallerWakeStep
<1>6. CASE Destroy
  BY <1>6, DestroyStep
<1>7. CASE SpuriousWakeup
  BY <1>7, SpuriousStep
<1>8. CASE UNCHANGED vars
  BY <1>8 DEF vars, gameVars, searchVars, bgVars, callerVars, IInv, TypeOK,
     GameTypeOK, LeafBelowRoot, VisitsWithinTarget, Lifetime, FreshEvaluation,
     RunningIsHonest, NoLostWakeup, ShouldSearch, RootReady, Stale
<1>9. QED
  BY <1>1, <1>2, <1>3, <1>4, <1>5, <1>6, <1>7, <1>8 DEF Next, Evaluator

\* The inductive invariant holds in every reachable state.
THEOREM Invariance == Spec => []IInv
BY InitIInv, NextIInv, PTL DEF Spec

\* The line of play is always a line the rules allow, whoever races for the
\* next move; the leaf in flight lies below the board on display, and no
\* search runs past its target.
THEOREM TreeStaysSound == Spec => []TreeIsSound
<1>1. IInv => TreeIsSound
  BY DEF IInv, TreeIsSound
<1>2. QED
  BY <1>1, Invariance, PTL

\* An evaluation let through by the revision check is the one the tree waits
\* for.
THEOREM StaleEvaluationsAreDropped == Spec => []FreshEvaluation
<1>1. IInv => FreshEvaluation
  BY DEF IInv
<1>2. QED
  BY <1>1, Invariance, PTL

\* Nobody sleeps while there is something to do, except after undo() on a
\* board without moves.
THEOREM NoLostWakeups == Spec => []NoLostWakeup
<1>1. IInv => NoLostWakeup
  BY DEF IInv
<1>2. QED
  BY <1>1, Invariance, PTL

\* A snapshot that shows a running search is of a board being searched.
THEOREM RunningFlagIsHonest == Spec => []RunningIsHonest
<1>1. IInv => RunningIsHonest
  BY DEF IInv
<1>2. QED
  BY <1>1, Invariance, PTL
----------------------------------------------------------------------------
(* Refinement.                                                             *)

\* The game operators are the same on both sides.
LEMMA SameGame ==
  /\ \A m \in Moves : Promote(m, ChildVisits(moves, visits))
                        => Searched!MakeMove(m)
  /\ ReceiveEvaluation => Searched!ReceiveEvaluation
  /\ Undo => Searched!Undo
  /\ Reset => Searched!Reset
<1> USE DEF SelectLeaf, Searched!SelectLeaf, Leaves, Searched!Leaves, Below,
            Searched!Below, Terminal, Searched!Terminal, LegalMoves,
            Searched!LegalMoves
<1>1. ASSUME NEW m \in Moves, Promote(m, ChildVisits(moves, visits))
      PROVE  Searched!MakeMove(m)
  BY <1>1, Zenon DEF Promote, Searched!MakeMove, Searched!Promote, ChildVisits,
     Searched!ChildVisits, Expanded, Searched!Expanded
<1>2. ReceiveEvaluation => Searched!ReceiveEvaluation
  BY Zenon DEF ReceiveEvaluation, Searched!ReceiveEvaluation
<1>3. Undo => Searched!Undo
  BY Zenon DEF Undo, Searched!Undo, ReturnTo, Searched!ReturnTo
<1>4. Reset => Searched!Reset
  BY Zenon DEF Reset, Searched!Reset, ReturnTo, Searched!ReturnTo, gameVars,
     Searched!gameVars
<1>5. QED
  BY <1>1, <1>2, <1>3, <1>4

LEMMA InitRefines == Init => Searched!Init
BY DEF Init, GameInit, Searched!Init, Searched!GameInit

\* An evaluation that is not stale is an atomic evaluation of the leaf.
LEMMA ReceiveRefines ==
  ASSUME IInv, BgReceive
  PROVE  Searched!Evaluate
<1>1. bgLeaf = leaf /\ ShouldSearch
  BY DEF IInv, FreshEvaluation, BgReceive
<1>2. Searched!Unfinished
  BY <1>1, Zenon DEF ShouldSearch, Searched!Unfinished, Terminal,
     Searched!Terminal, LegalMoves, Searched!LegalMoves
<1>3. QED
  BY <1>1, <1>2, SameGame DEF BgReceive, Searched!Evaluate

LEMMA FailRefines ==
  ASSUME IInv, BgFail
  PROVE  Searched!Fail
<1>1. ShouldSearch
  BY DEF IInv, FreshEvaluation, BgFail
<1>2. Searched!Unfinished
  BY <1>1, Zenon DEF ShouldSearch, Searched!Unfinished, Terminal,
     Searched!Terminal, LegalMoves, Searched!LegalMoves
<1>3. QED
  BY <1>2, Zenon DEF BgFail, Searched!Fail, gameVars, Searched!gameVars

LEMMA PlayRefines ==
  ASSUME NEW c, NEW r, ~failed, Play(c, r)
  PROVE  Searched!Play
<1>1. \E m \in Moves : Searched!MakeMove(m)
  BY PerformPromotes, SameGame DEF Play
<1>2. QED
  BY <1>1 DEF Play, Frame, Searched!Play

LEMMA CallRefines ==
  ASSUME IInv, NEW c \in Callers, Call(c)
  PROVE  [Searched!Next]_(Searched!absVars)
<1>1. CASE IncreaseIterations(c)
  <2>1. Searched!Extend
    BY <1>1, Zenon DEF IncreaseIterations, Frame, Searched!Extend, gameVars,
       Searched!gameVars
  <2>2. QED
    BY <2>1 DEF Searched!Next
<1>2. CASE \E r \in Requests : RequestMove(c, r)
  <2>1. PICK r \in Requests : RequestMove(c, r)
    BY <1>2
  <2>2. CASE Play(c, r)
    BY <2>1, <2>2, PlayRefines DEF RequestMove, Searched!Next
  <2>3. CASE Await(c, r)
    BY <2>3, Zenon DEF Await, Frame, gameVars, Searched!absVars,
       Searched!gameVars
  <2>4. QED
    BY <2>1, <2>2, <2>3 DEF RequestMove
<1>3. CASE MakeBestMoveIfReady(c)
  BY <1>3, PlayRefines DEF MakeBestMoveIfReady, Searched!Next
<1>4. CASE ResetCall(c) \/ UndoCall(c) \/ RetryEvaluation(c) \/ UndoNothing(c)
  <2>1. /\ failed' = FALSE
        /\ maxIterations' = maxIterations /\ evaluated' = evaluated
    BY <1>4, Zenon DEF ResetCall, UndoCall, RetryEvaluation, UndoNothing,
       Forget, Frame
  <2>2. Reset \/ Undo \/ UNCHANGED gameVars
    BY <1>4, Zenon DEF ResetCall, UndoCall, RetryEvaluation, UndoNothing,
       gameVars
  <2>3. Searched!Reset \/ Searched!Undo \/ UNCHANGED Searched!gameVars
    BY <2>2, SameGame, Zenon DEF gameVars, Searched!gameVars
  <2>4. Searched!Forgive
    BY <2>1, <2>3, Zenon DEF Searched!Forgive
  <2>5. QED
    BY <2>4 DEF Searched!Next
<1>5. QED
  BY <1>1, <1>2, <1>3, <1>4 DEF Call

LEMMA StepRefines ==
  IInv /\ [Next]_vars => [Searched!Next]_(Searched!absVars)
<1> SUFFICES ASSUME IInv, [Next]_vars
             PROVE  [Searched!Next]_(Searched!absVars)
  OBVIOUS
<1> USE DEF Searched!absVars, Searched!gameVars, gameVars
<1>1. CASE BgLoop \/ BgWake \/ BgDiscard \/ Destroy \/ SpuriousWakeup
  BY <1>1, Zenon DEF BgLoop, BgWake, BgDiscard, Destroy, SpuriousWakeup,
     searchVars
<1>2. CASE BgReceive
  BY <1>2, ReceiveRefines DEF Searched!Next
<1>3. CASE BgFail
  BY <1>3, FailRefines DEF Searched!Next
<1>4. ASSUME NEW c \in Callers, Call(c)
      PROVE  [Searched!Next]_(Searched!absVars)
  BY <1>4, CallRefines
<1>5. ASSUME NEW c \in Callers, CallerWake(c)
      PROVE  [Searched!Next]_(Searched!absVars)
  <2>1. CASE Await(c, request[c]) \/ Throw(c)
    BY <2>1, Zenon DEF Await, Throw, Frame
  <2>2. CASE ~failed /\ Play(c, request[c])
    BY <2>2, PlayRefines DEF Searched!Next
  <2>3. QED
    BY <1>5, <2>1, <2>2 DEF CallerWake
<1>6. CASE UNCHANGED vars
  BY <1>6, Zenon DEF vars, searchVars
<1>7. QED
  BY <1>1, <1>2, <1>3, <1>4, <1>5, <1>6 DEF Next, Evaluator

\* The threaded object implements the atomic one: every behaviour of threads,
\* callers and revisions is one of the sequential searched game.
THEOREM Refinement == Spec => SearchedSpec
BY InitRefines, Invariance, StepRefines, PTL
   DEF Spec, SearchedSpec, Searched!Spec
=============================================================================
