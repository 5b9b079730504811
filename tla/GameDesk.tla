------------------------------ MODULE GameDesk ------------------------------
(***************************************************************************)
(* The Play page of the desktop (gui/app.py, GameController): games are    *)
(* loaded and closed by a pool of threads, their results come back through *)
(* the event loop, and a timer copies what the native game says into what  *)
(* the page shows.                                                         *)
(*                                                                         *)
(* An action is one slot of the GUI thread, run to its end, or one step of *)
(* a pool thread or of the search.  A load has the number _load_revision   *)
(* had when it was asked for, and names its game.  The native game         *)
(* (InteractivePlay) is kept as far as the page can tell: how many moves   *)
(* were made, how far the root is searched, and its evaluation error; the  *)
(* search of a game that was replaced is left out, nobody looks at it.     *)
(***************************************************************************)
EXTENDS Integers, Sequences, FiniteSets, SequencesExt

CONSTANTS
  MaxLoads,     \* bound: values of _load_revision
  MaxPlies,     \* bound: the game is over after so many moves
  MaxTarget,    \* bound: iterations a game may be told to search
  PoolSize,     \* threads of the pool (2)
  Computer      \* the sides the computer may play: sets of 0 (red), 1 (gold)

ASSUME GameDeskAssumption ==
  /\ MaxLoads \in Nat /\ MaxPlies \in Nat /\ MaxTarget \in Nat \ {0}
  /\ PoolSize \in Nat /\ Computer \subseteq SUBSET {0, 1}

VARIABLES
  loads,     \* _load_revision
  tasks,     \* the pool's queue: builds and closes, by game
  running,   \* what its threads work on
  posted,    \* results of builds on their way to the GUI thread
  open,      \* games built and not closed
  game,      \* _game, or None
  engine,    \* the native game of the last load
  shown,     \* what the page shows: the game, its moves and iterations
  error,     \* _error is not empty
  auto,      \* _auto: the sides the computer plays
  blocked,   \* the move the GUI thread is in, when it waits for the root
  ended      \* the event loop has ended

poolVars == <<tasks, running, posted, open>>
pageVars == <<game, shown, error, auto, blocked>>
vars     == <<loads, poolVars, pageVars, engine, ended>>

None  == 0
Loads == 1..MaxLoads
Tasks == [kind : {"build", "close"}, of : Loads]
Moves == {"column", "best"}

\* background_error; "forgotten": cleared by an undo that changed nothing and
\* did not wake the search up.
Failures == {"no", "error", "forgotten"}
Engines  == [plies : 0..MaxPlies, visits : 0..MaxTarget, target : 1..MaxTarget,
             failure : Failures]
NewGame(target) == [plies |-> 0, visits |-> 0, target |-> target, failure |-> "no"]
Blank == [of |-> None, plies |-> 0, visits |-> 0, target |-> 1]

Ongoing(e)   == e.plies < MaxPlies
AutoTurn(e)  == (e.plies % 2) \in auto

TypeOK ==
  /\ loads \in 0..MaxLoads /\ tasks \in Seq(Tasks) /\ running \subseteq Tasks
  /\ posted \in Seq([of : Loads, ok : BOOLEAN]) /\ open \subseteq Loads
  /\ game \in Loads \cup {None} /\ engine \in Engines
  /\ shown \in [of : Loads \cup {None}, plies : 0..MaxPlies, visits : 0..MaxTarget,
                target : 1..MaxTarget]
  /\ error \in BOOLEAN /\ auto \subseteq {0, 1}
  /\ blocked \in Moves \cup {"no"} /\ ended \in BOOLEAN

Init ==
  /\ loads = 0 /\ tasks = <<>> /\ running = {} /\ posted = <<>> /\ open = {}
  /\ game = None /\ engine = NewGame(1) /\ shown = Blank
  /\ error = FALSE /\ auto = {1} /\ blocked = "no" /\ ended = FALSE

\* The GUI thread is free to run a slot.
Free == ~ended /\ blocked = "no"

-----------------------------------------------------------------------------
(* Loading and closing.                                                    *)

Build(g) == [kind |-> "build", of |-> g]
Close(g) == [kind |-> "close", of |-> g]

\* shutdown: a load that has not begun is cancelled, the game's closing queued.
AfterShutdown ==
  LET uncancelled == RemoveFirst(tasks, Build(loads)) IN
  IF game = None THEN uncancelled ELSE Append(uncancelled, Close(game))

Load(sides, target) ==
  /\ loads < MaxLoads /\ loads' = loads + 1
  /\ tasks' = Append(AfterShutdown, Build(loads + 1))
  /\ game' = None /\ error' = FALSE /\ auto' = sides
  /\ engine' = NewGame(target)
  /\ UNCHANGED <<running, posted, open, shown, blocked, ended>>

StartGame == Free /\ \E sides \in Computer : Load(sides, 1)

SwapSides == Free /\ game # None /\ Load({1 - s : s \in auto}, shown.target)

\* Back to the setup: everything shown but the iterations and side is cleared.
EndGame ==
  /\ Free /\ loads < MaxLoads /\ loads' = loads + 1
  /\ tasks' = AfterShutdown /\ game' = None
  /\ error' = FALSE
  /\ shown' = [shown EXCEPT !.of = None, !.plies = 0]
  /\ UNCHANGED <<running, posted, open, engine, auto, blocked, ended>>

\* run_gui after the event loop: shutdown, and nothing is delivered any more.
Quit ==
  /\ Free /\ ended' = TRUE
  /\ tasks' = AfterShutdown /\ game' = None
  /\ UNCHANGED <<loads, running, posted, open, engine, shown, error, auto, blocked>>

\* A thread takes a task; a build that was superseded returns at once, and its
\* empty result is dropped when it is delivered.
TakeTask ==
  /\ tasks # <<>> /\ Cardinality(running) < PoolSize
  /\ tasks' = Tail(tasks)
  /\ running' = IF Head(tasks).kind = "build" /\ Head(tasks).of # loads
                THEN running ELSE running \cup {Head(tasks)}
  /\ UNCHANGED <<loads, posted, open, pageVars, engine, ended>>

EndBuild(t) ==
  /\ t \in running /\ t.kind = "build"
  /\ running' = running \ {t}
  /\ \E ok \in BOOLEAN :
       /\ posted' = Append(posted, [of |-> t.of, ok |-> ok])
       /\ open' = IF ok THEN open \cup {t.of} ELSE open
  /\ UNCHANGED <<loads, tasks, pageVars, engine, ended>>

\* _close_game: the evaluator first, so that the search the game waits for ends.
EndClose(t) ==
  /\ t \in running /\ t.kind = "close"
  /\ running' = running \ {t} /\ open' = open \ {t.of}
  /\ UNCHANGED <<loads, tasks, posted, pageVars, engine, ended>>

-----------------------------------------------------------------------------
(* What the page shows.                                                    *)

\* The computer moves when the snapshot says that its search is done; the root
\* then is a child, searched less than its parent was.
AutoMoves(e) ==
  IF Ongoing(e) /\ AutoTurn(e) /\ e.visits >= e.target
  THEN {[e EXCEPT !.plies = @ + 1, !.visits = v] : v \in 0..(e.visits - 1)}
  ELSE {e}

\* _poll of game g whose native state is e.
Poll(g, e, paused) ==
  IF paused \/ e.failure = "error"
  THEN error' = TRUE /\ engine' = e /\ UNCHANGED shown
  ELSE /\ error' = FALSE /\ engine' \in AutoMoves(e)
       /\ shown' = [of |-> g, plies |-> e.plies, visits |-> e.visits,
                    target |-> e.target]

Timer ==
  /\ Free /\ game # None /\ ~error /\ Poll(game, engine, FALSE)
  /\ UNCHANGED <<loads, poolVars, game, auto, blocked, ended>>

ApplyLoaded ==
  /\ Free /\ posted # <<>> /\ Head(posted).of = loads
  /\ posted' = Tail(posted)
  /\ IF Head(posted).ok
     THEN game' = loads /\ Poll(loads, engine, error)
     ELSE game' = None /\ error' = TRUE /\ UNCHANGED <<engine, shown>>
  /\ UNCHANGED <<loads, tasks, running, open, auto, blocked, ended>>

\* Faulty variant: a superseded game is dropped, but not closed.
ForgetSuperseded ==
  /\ Free /\ posted # <<>> /\ Head(posted).of # loads
  /\ posted' = Tail(posted)
  /\ UNCHANGED <<loads, tasks, running, open, pageVars, engine, ended>>

\* A result that was superseded: its game is closed.
DropLoaded ==
  /\ Free /\ posted # <<>> /\ Head(posted).of # loads
  /\ posted' = Tail(posted)
  /\ tasks' = IF Head(posted).ok THEN Append(tasks, Close(Head(posted).of)) ELSE tasks
  /\ UNCHANGED <<loads, running, open, pageVars, engine, ended>>

-----------------------------------------------------------------------------
(* What the player does.                                                   *)

\* Faulty variant: the column is taken whoever's turn it is.
HumanTurnAnySide == game # None /\ Ongoing(shown) /\ shown.visits > 0

HumanTurn == game # None /\ Ongoing(shown) /\ ~AutoTurn(shown) /\ shown.visits > 0

Moved(e) == {[e EXCEPT !.plies = @ + 1, !.visits = v, !.failure = "no"] :
               v \in 0..(e.visits - 1)}

\* A move of the native game, which waits for its root: an error is thrown and
\* shown, a move of a game that is over is refused.
Play(move) ==
  \/ /\ engine.failure = "error" /\ error' = TRUE /\ blocked' = "no"
     /\ UNCHANGED <<engine, shown>>
  \/ /\ engine.failure # "error" /\ ~Ongoing(engine) /\ blocked' = "no"
     /\ Poll(game, engine, error)
  \/ /\ engine.failure # "error" /\ Ongoing(engine) /\ engine.visits > 0
     /\ blocked' = "no" /\ \E e \in Moved(engine) : Poll(game, e, error)
  \/ /\ engine.failure # "error" /\ Ongoing(engine) /\ engine.visits = 0
     /\ blocked' = move /\ UNCHANGED <<engine, shown, error>>

MakeMove ==
  /\ Free /\ HumanTurn /\ Play("column")
  /\ UNCHANGED <<loads, poolVars, game, auto, ended>>

\* bestMove and randomMove.
BestMove ==
  /\ Free /\ game # None /\ Ongoing(shown) /\ shown.visits > 0 /\ Play("best")
  /\ UNCHANGED <<loads, poolVars, game, auto, ended>>

\* Faulty variant: only an evaluation wakes the waiting move up.
ResumeOnEvaluation ==
  /\ blocked # "no" /\ engine.visits > 0
  /\ Play(blocked)
  /\ UNCHANGED <<loads, poolVars, game, auto, ended>>

\* The root was expanded, or its evaluation failed: the move goes on.
Resume ==
  /\ blocked # "no" /\ (engine.visits > 0 \/ engine.failure = "error")
  /\ Play(blocked)
  /\ UNCHANGED <<loads, poolVars, game, auto, ended>>

\* A slot that changes the native game to e, then polls.
Slot(e) ==
  /\ Free /\ game # None /\ Poll(game, e, error)
  /\ UNCHANGED <<loads, poolVars, game, auto, blocked, ended>>

AddIterations ==
  \/ /\ engine.failure # "error" /\ engine.target < MaxTarget
     /\ Slot([engine EXCEPT !.target = @ + 1, !.failure = "no"])
  \/ engine.failure = "error" /\ Slot(engine)

\* An undo clears the error and searches from a new root; one that has nothing
\* to undo clears the error, too, but wakes nobody.
Undo ==
  \/ /\ engine.plies > 0
     /\ Slot([engine EXCEPT !.plies = @ - 1, !.visits = 0, !.failure = "no"])
  \/ /\ engine.plies = 0
     /\ Slot([engine EXCEPT !.failure = IF @ = "no" THEN "no" ELSE "forgotten"])

\* Undoes every move; without any, the tree is kept.
Rematch ==
  Slot([engine EXCEPT !.plies = 0, !.failure = "no",
          !.visits = IF engine.plies = 0 THEN @ ELSE 0])

Retry ==
  /\ Free /\ game # None /\ error
  /\ Poll(game, [engine EXCEPT !.failure = "no"], FALSE)
  /\ UNCHANGED <<loads, poolVars, game, auto, blocked, ended>>

-----------------------------------------------------------------------------
(* The search of the last load's game: what the evaluator promises is that *)
(* an evaluation ends, with a result or an error (Evaluator).              *)

Searching ==
  loads \in open /\ engine.failure = "no" /\ Ongoing(engine)
  /\ engine.visits < engine.target

Search ==
  /\ Searching
  /\ \/ engine' = [engine EXCEPT !.visits = @ + 1]
     \/ engine' = [engine EXCEPT !.failure = "error"]
  /\ UNCHANGED <<loads, poolVars, pageVars, ended>>

Pool == TakeTask \/ \E t \in running : EndBuild(t) \/ EndClose(t)

Player ==
  StartGame \/ SwapSides \/ EndGame \/ Quit \/ MakeMove \/ BestMove
  \/ AddIterations \/ Undo \/ Rematch \/ Retry

Next == Player \/ Pool \/ Timer \/ ApplyLoaded \/ DropLoaded \/ Resume \/ Search

Spec == Init /\ [][Next]_vars

\* The event loop delivers what was posted and fires the timer, the pool's
\* threads run, and an evaluation ends.  A player need not do anything.
Fairness ==
  /\ WF_vars(ApplyLoaded \/ DropLoaded) /\ WF_vars(Timer) /\ WF_vars(Resume)
  /\ WF_vars(TakeTask) /\ \A t \in Tasks : WF_vars(EndBuild(t) \/ EndClose(t))
  /\ WF_vars(Search)

FairSpec == Spec /\ Fairness

-----------------------------------------------------------------------------
(* Properties.                                                             *)

\* "Superseded game loads are cancelled": the game on the page is that of the
\* last start, however the builds and their results interleave, and it is open.
CurrentIsLatest == game # None => game = loads /\ game \in open

\* Unless the page shows an error, its board is that of the current game, at most
\* the computer's last move behind, and with that move, too, when it takes a column:
\* whatever was done under an error, once it is gone the board is true.
\* Under an error nothing of this holds.  No poll renews the page, and an undo or a
\* rematch goes on in the native game: humanTurn and the moves do not look at
\* _error, so a column then lands on a board that was never shown.
BoardIsTrue ==
  game # None /\ ~error =>
    /\ shown.of = game
    /\ shown.plies = engine.plies \/ (AutoTurn(shown) /\ engine.plies = shown.plies + 1)
    /\ Free /\ HumanTurn => shown.plies = engine.plies

\* No game is lost, whatever comes late: an open one is on the page, or on its way
\* there, or its closing is queued or under way.
NoGameIsLeft ==
  \A g \in open :
    \/ game = g \/ [of |-> g, ok |-> TRUE] \in ToSet(posted)
    \/ Close(g) \in ToSet(tasks) \cup running

\* What the Play page shows and takes is that of the last thing asked for: the
\* game on the page is the one started last, and open, no other game stays open,
\* and unless an error is shown a column is taken only on the board of that game
\* with all its moves.
PageIsTrue == TypeOK /\ CurrentIsLatest /\ BoardIsTrue /\ NoGameIsLeft

\* A game that was loaded and replaced is closed, and its inference process
\* with it, unless the GUI thread hangs or the application ends first.
SupersededGamesEnd ==
  \A g \in Loads :
    (g \in open /\ g < loads) ~> (g \notin open \/ blocked # "no" \/ ended)

\* Once the player leaves the page alone, a computer player moves, or the page
\* shows an error. An undo at the start of a game may lose the error and leave
\* the search asleep (InteractivePlay.SearchReachesTarget), which is set aside.
ComputerMoves ==
  <>[][~Player]_vars =>
    \A p \in 0..(MaxPlies - 1) :
      (game # None /\ engine.plies = p /\ AutoTurn(engine))
        ~> (error \/ game = None \/ engine.plies # p \/ ~AutoTurn(engine)
              \/ engine.failure = "forgotten")

\* The GUI thread, once it waits for the root of the game, is released by its
\* evaluation or by the error that ends it (but for a lost error, as above).
GuiIsResponsive == (blocked # "no") ~> (blocked = "no" \/ engine.failure = "forgotten")
=============================================================================
