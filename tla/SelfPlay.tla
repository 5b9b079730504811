------------------------------ MODULE SelfPlay ------------------------------
(***************************************************************************)
(* Native self-play (cpp/src/self_play.cpp): games travel between one      *)
(* neural thread, which evaluates their leaves in batches, and the MCTS    *)
(* workers, which feed the evaluations to the searches and play the moves. *)
(* Two bounded queues connect them; a stop source and the closing of both  *)
(* queues end everything, after the last game or the first error.          *)
(*                                                                         *)
(* An action is one critical section of a queue together with the work on  *)
(* a game its thread owns before it.  A thread inside a queue's pop is     *)
(* "asleep" until it is notified and then "woken", to look again.  Each    *)
(* queue holds as many games as there are, so no push ever waits for room: *)
(* here it could not proceed, and the properties say that it always can.   *)
(***************************************************************************)
EXTENDS Integers, Sequences, FiniteSets, SequencesExt

CONSTANTS
  Games,
  Workers,        \* the MCTS threads
  Neural,         \* the neural thread
  Main,           \* the thread that called self_play
  Leaves,      \* the leaf positions, numbered in the order position_less
  Players,        \* Players[g][p]: the model to play game g at position p
  Moves,          \* bound: how long a game lasts
  Iterations,     \* n_mcts_iterations
  MaxBatch        \* max_nn_batch_size

\* The threads and their names are different.
ASSUME SelfPlayAssumption ==
  /\ IsFiniteSet(Games) /\ IsFiniteSet(Workers)
  /\ Neural \notin Workers /\ Main \notin Workers \cup {Neural}
  /\ Leaves \subseteq Nat
  /\ Players \in [Games -> [Leaves -> Nat]]
  /\ Moves \in Nat /\ Iterations \in Nat \ {0} /\ MaxBatch \in Nat \ {0}

VARIABLES
  game,        \* each game: the moves it will still last, the visits of its
               \* root and its selected leaf
  neuralQ,     \* neural_queue
  pending,     \* pending_games, of the neural thread
  mctsQ,       \* mcts_queue: jobs
  held,        \* the job each worker has popped
  results,
  remaining,   \* games_remaining
  place,       \* where each thread is
  error,       \* first_error is set
  stop,        \* the stop source was asked to stop
  closed       \* the queues that are closed

queueVars == <<neuralQ, mctsQ>>
vars == <<game, neuralQ, pending, mctsQ, held, results, remaining, place,
          error, stop, closed>>

Threads == Workers \cup {Neural, Main}
NoJob   == [game |-> CHOOSE g \in Games : TRUE, model |-> -1, position |-> -1]

Leaf(g)  == game[g].leaf
Model(g) == Players[g][game[g].leaf]

----------------------------------------------------------------------------
(* Threads and queues.                                                     *)

Goto(t, where) == place' = [place EXCEPT ![t] = where]

\* The thread moves on, and the sleepers among those notified wake up.
GotoAndNotify(t, where, notified) ==
  place' = [u \in Threads |-> IF u = t THEN where
                              ELSE IF u \in notified /\ place[u] = "asleep"
                              THEN "woken" ELSE place[u]]

At(t, where) == place[t] = where

Room(queue) == Len(queue) < Cardinality(Games)

\* The stop token, or the closing of the queue, lets a pop return nothing.
PopsNothing(queue, name) == stop \/ (queue = <<>> /\ name \in closed)
PopsItem(queue)          == ~stop /\ queue # <<>>
PopWaits(queue, name)    == ~stop /\ queue = <<>> /\ name \notin closed

----------------------------------------------------------------------------
Init ==
  /\ game \in [Games -> [left : 0..Moves, visits : {0}, leaf : Leaves]]
  /\ neuralQ \in SetToSeqs(Games)
  /\ pending = <<>>
  /\ mctsQ = <<>>
  /\ held = [w \in Workers |-> NoJob]
  /\ results = <<>>
  /\ remaining = Cardinality(Games)
  /\ place = [t \in Threads |-> IF t = Main THEN "spawning" ELSE "unborn"]
  /\ error = FALSE /\ stop = FALSE /\ closed = {}

Unborn == {t \in Threads : place[t] = "unborn"}

\* The main thread starts the neural thread, then the workers; after that it
\* only joins them.
Spawn(t) ==
  /\ At(Main, "spawning")
  /\ t \in Unborn /\ (Neural \in Unborn => t = Neural)
  /\ place' = [place EXCEPT ![t] = "head",
                            ![Main] = IF Unborn = {t} THEN "exited" ELSE @]
  /\ UNCHANGED <<game, queueVars, pending, held, results, remaining, error,
                 stop, closed>>

----------------------------------------------------------------------------
(* Failure, and the closing of the queues, one after the other.            *)

\* Faulty variant: the stop request is taken to wake the sleepers.
FailWithoutClosing(t) ==
  /\ error' = TRUE /\ stop' = TRUE
  /\ Goto(t, "exited")
  /\ UNCHANGED <<game, queueVars, pending, held, results, remaining, closed>>

Fail(t) ==
  /\ error' = TRUE /\ stop' = TRUE
  /\ Goto(t, "closing")
  /\ UNCHANGED <<game, queueVars, pending, held, results, remaining, closed>>

\* The evaluator, a callback or the cancellation throws, or a thread cannot be
\* created: then those after it never start.
Throw(t) ==
  /\ \/ At(t, "spawning")
     \/ t = Neural /\ place[t] \in {"head", "evaluating"}
     \/ t \in Workers /\ place[t] \in {"head", "busy", "told", "toldLast"}
  /\ ~(stop /\ At(t, "head"))
  /\ Fail(t)

CloseNeural(t) ==
  /\ At(t, "closing")
  /\ closed' = closed \cup {"neural"}
  /\ GotoAndNotify(t, "closing2", {Neural})
  /\ UNCHANGED <<game, queueVars, pending, held, results, remaining, error,
                 stop>>

CloseMcts(t) ==
  /\ At(t, "closing2")
  /\ closed' = closed \cup {"mcts"}
  /\ GotoAndNotify(t, "exited", Workers)
  /\ UNCHANGED <<game, queueVars, pending, held, results, remaining, error,
                 stop>>

Exit(t) ==
  /\ Goto(t, "exited")
  /\ UNCHANGED <<game, queueVars, pending, held, results, remaining, error,
                 stop, closed>>

----------------------------------------------------------------------------
(* The neural thread.                                                      *)

\* Games left over from the last batch are evaluated before any is awaited.
NeuralHead ==
  /\ place[Neural] \in {"head", "woken"}
  /\ \/ /\ At(Neural, "head") /\ stop
        /\ Exit(Neural)
     \/ /\ At(Neural, "head") /\ ~stop /\ pending # <<>>
        /\ Goto(Neural, "draining")
        /\ UNCHANGED <<neuralQ, pending>>
        /\ UNCHANGED <<game, mctsQ, held, results, remaining, error, stop,
                       closed>>
     \/ /\ pending = <<>> /\ PopsNothing(neuralQ, "neural")
        /\ Exit(Neural)
     \/ /\ pending = <<>> /\ PopsItem(neuralQ)
        /\ pending' = <<Head(neuralQ)>>
        /\ neuralQ' = Tail(neuralQ)
        /\ Goto(Neural, "draining")
        /\ UNCHANGED <<game, mctsQ, held, results, remaining, error, stop,
                       closed>>
     \/ /\ pending = <<>> /\ PopWaits(neuralQ, "neural")
        /\ Goto(Neural, "asleep")
        /\ UNCHANGED <<game, queueVars, pending, held, results, remaining,
                       error, stop, closed>>

NeuralDrain ==
  /\ At(Neural, "draining")
  /\ pending' = pending \o neuralQ
  /\ neuralQ' = <<>>
  /\ Goto(Neural, "evaluating")
  /\ UNCHANGED <<game, mctsQ, held, results, remaining, error, stop, closed>>

Waiting == {pending[i] : i \in DOMAIN pending}

\* Games at the same position of the same model share one evaluation.
PositionsOf(m) == {Leaf(g) : g \in {h \in Waiting : Model(h) = m}}

\* The model with the most positions, the larger number when they tie.
SelectedModel ==
  CHOOSE m \in {Model(g) : g \in Waiting} :
    \A n \in {Model(g) : g \in Waiting} \ {m} :
      \/ Cardinality(PositionsOf(m)) > Cardinality(PositionsOf(n))
      \/ /\ Cardinality(PositionsOf(m)) = Cardinality(PositionsOf(n))
         /\ m > n

\* The first positions of the selected model, as many as a batch takes.
Batch == {p \in PositionsOf(SelectedModel) :
            Cardinality({q \in PositionsOf(SelectedModel) : q < p}) < MaxBatch}

\* Faulty variant: the model to play is not compared.
EvaluatedAnyModel(g) == Leaf(g) \in Batch

Evaluated(g) == Model(g) = SelectedModel /\ Leaf(g) \in Batch

\* The games of a queue that are in S, in their order: those at the places I.
PlacesIn(queue, S) == {i \in DOMAIN queue : queue[i] \in S}
Rank(I, i)       == Cardinality({j \in I : j <= i})
Among(queue, S)  ==
  LET I == PlacesIn(queue, S)
  IN [k \in 1..Cardinality(I) |-> queue[CHOOSE i \in I : Rank(I, i) = k]]

Job(g) == [game |-> g, model |-> SelectedModel, position |-> Leaf(g)]

\* Faulty variant: what the batch had no room for is forgotten.
LeftoverDropped == <<>>

Leftover == Among(pending, {g \in Waiting : ~Evaluated(g)})

ReadyJobs ==
  LET ready == Among(pending, {g \in Waiting : Evaluated(g)})
  IN [i \in DOMAIN ready |-> Job(ready[i])]

\* evaluate() returned: the games evaluated become jobs, the others stay.
NeuralHandsOver ==
  /\ At(Neural, "evaluating")
  /\ IF stop \/ "mcts" \in closed
     THEN /\ Goto(Neural, "exited")
          /\ UNCHANGED <<mctsQ, pending>>
     ELSE /\ Len(mctsQ) + Len(ReadyJobs) <= Cardinality(Games)
          /\ mctsQ' = mctsQ \o ReadyJobs
          /\ pending' = Leftover
          /\ GotoAndNotify(Neural, "head", Workers)
  /\ UNCHANGED <<game, neuralQ, held, results, remaining, error, stop, closed>>

----------------------------------------------------------------------------
(* The MCTS workers.                                                       *)

WorkerHead(w) ==
  /\ place[w] \in {"head", "woken"}
  /\ \/ /\ PopsNothing(mctsQ, "mcts")
        /\ Exit(w)
     \/ /\ PopsItem(mctsQ)
        /\ held' = [held EXCEPT ![w] = Head(mctsQ)]
        /\ mctsQ' = Tail(mctsQ)
        /\ Goto(w, "busy")
        /\ UNCHANGED <<game, neuralQ, pending, results, remaining, error,
                       stop, closed>>
     \/ /\ PopWaits(mctsQ, "mcts")
        /\ Goto(w, "asleep")
        /\ UNCHANGED <<game, queueVars, pending, held, results, remaining,
                       error, stop, closed>>

\* The search of the game a worker holds receives its evaluation.
Game(w) == held[w].game

Searched(w) == game[Game(w)].visits + 1 >= Iterations
Over(w)     == Searched(w) /\ game[Game(w)].left = 0

\* Another iteration, or a move: the new root keeps its visits, and it was
\* visited if anything below the old root was.
Continued(g) ==
  IF game[g].visits + 1 < Iterations
  THEN [left : {game[g].left}, visits : {game[g].visits + 1}, leaf : Leaves]
  ELSE [left : {game[g].left - 1}, leaf : Leaves,
        visits : IF Iterations > 1 THEN 1..(Iterations - 1) ELSE {0}]

PushNotifies == {Neural}

\* The game goes back to the neural thread, unless everything is stopping.
WorkerContinues(w) ==
  /\ At(w, "busy") /\ ~Over(w)
  /\ \E after \in Continued(Game(w)) :
       game' = [game EXCEPT ![Game(w)] = after]
  /\ held' = [held EXCEPT ![w] = NoJob]
  /\ IF stop \/ "neural" \in closed
     THEN Goto(w, "exited") /\ UNCHANGED neuralQ
     ELSE /\ Room(neuralQ)
          /\ neuralQ' = Append(neuralQ, Game(w))
          /\ GotoAndNotify(w, "head", PushNotifies)
  /\ UNCHANGED <<pending, mctsQ, results, remaining, error, stop, closed>>

LastGame == remaining = 1

\* The result is recorded and the count of games taken down.
WorkerFinishes(w) ==
  /\ At(w, "busy") /\ Over(w)
  /\ game' = [game EXCEPT ![Game(w)].visits = @ + 1]
  /\ held' = [held EXCEPT ![w] = NoJob]
  /\ results' = Append(results, Game(w))
  /\ remaining' = remaining - 1
  /\ Goto(w, IF LastGame THEN "toldLast" ELSE "told")
  /\ UNCHANGED <<queueVars, pending, error, stop, closed>>

\* The progress callback was called; the last game closes the queues.
WorkerReports(w) ==
  /\ place[w] \in {"told", "toldLast"}
  /\ Goto(w, IF At(w, "toldLast") THEN "closing" ELSE "head")
  /\ UNCHANGED <<game, queueVars, pending, held, results, remaining, error,
                 stop, closed>>

\* A condition variable may wake a thread that nobody notified.
SpuriousWakeup(t) ==
  /\ At(t, "asleep")
  /\ Goto(t, "woken")
  /\ UNCHANGED <<game, queueVars, pending, held, results, remaining, error,
                 stop, closed>>

----------------------------------------------------------------------------
Close(t)  == CloseNeural(t) \/ CloseMcts(t)
Worker(w) == \/ WorkerHead(w) \/ WorkerContinues(w) \/ WorkerFinishes(w)
             \/ WorkerReports(w)
NeuralStep == NeuralHead \/ NeuralDrain \/ NeuralHandsOver

Next ==
  \/ \E t \in Threads : Spawn(t) \/ Throw(t) \/ Close(t) \/ SpuriousWakeup(t)
  \/ NeuralStep
  \/ \E w \in Workers : Worker(w)

Spec == Init /\ [][Next]_vars

(***************************************************************************)
(* Threads that can run do run, and the evaluator and the callbacks return *)
(* or throw.  Nothing has to throw.                                        *)
(***************************************************************************)
Fairness ==
  /\ WF_vars(NeuralStep)
  /\ \A t \in Threads : WF_vars(Spawn(t)) /\ WF_vars(Close(t))
  /\ \A w \in Workers : WF_vars(Worker(w))

FairSpec == Spec /\ Fairness

----------------------------------------------------------------------------
(* Properties.                                                             *)

Jobs == [game : Games, model : Nat, position : Leaves]

\* Type correctness.
TypeOK ==
  /\ game \in [Games -> [left : 0..Moves, visits : 0..Iterations,
                         leaf : Leaves]]
  /\ neuralQ \in Seq(Games) /\ pending \in Seq(Games)
  /\ mctsQ \in Seq(Jobs)
  /\ held \in [Workers -> Jobs \cup {NoJob}]
  /\ results \in Seq(Games)
  /\ remaining \in 0..Cardinality(Games)
  /\ place \in [Threads -> {"unborn", "spawning", "head", "asleep", "woken",
                            "draining", "evaluating", "busy", "told",
                            "toldLast", "closing", "closing2", "exited"}]
  /\ error \in BOOLEAN /\ stop \in BOOLEAN
  /\ closed \subseteq {"neural", "mcts"}

Occurrences(queue, g) == Cardinality({i \in DOMAIN queue : queue[i] = g})

\* In how many places a game is.
Copies(g) ==
  Occurrences(neuralQ, g) + Occurrences(pending, g) + Occurrences(results, g)
  + Cardinality({i \in DOMAIN mctsQ : mctsQ[i].game = g})
  + Cardinality({w \in Workers : At(w, "busy") /\ held[w].game = g})

\* Between queues, threads and batches no game is ever duplicated, and none is
\* lost unless the whole batch is stopping.
NoGameIsLost ==
  \A g \in Games : Copies(g) <= 1 /\ (~stop => Copies(g) = 1)

\* A search receives the evaluation of its own leaf, by the model whose turn
\* it is there, however games were batched and left over.
RightEvaluation ==
  /\ \A i \in DOMAIN mctsQ :
       /\ mctsQ[i].model = Model(mctsQ[i].game)
       /\ mctsQ[i].position = Leaf(mctsQ[i].game)
  /\ \A w \in Workers : At(w, "busy") =>
       /\ held[w].model = Model(Game(w))
       /\ held[w].position = Leaf(Game(w))

\* No thread sleeps over what it waits for, nor through a closing: a stop that
\* has not reached a sleeper is still being announced by some thread.
NoLostWakeup ==
  LET announcing(name) == \E t \in Threads :
        At(t, "closing") \/ (name = "mcts" /\ At(t, "closing2"))
  IN /\ At(Neural, "asleep") =>
          /\ neuralQ = <<>> /\ pending = <<>>
          /\ "neural" \notin closed
          /\ stop => announcing("neural")
     /\ \A w \in Workers : At(w, "asleep") =>
          /\ mctsQ = <<>> /\ "mcts" \notin closed
          /\ stop => announcing("mcts")

Ended == \A t \in Threads : At(t, "exited") \/ (At(t, "unborn") /\ error)

\* self_play returns every result or rethrows an error: "self-play stopped
\* before every game completed" is never the way it ends.
AllResultsOrError ==
  Ended /\ At(Main, "exited") =>
    error \/ \A g \in Games : Occurrences(results, g) = 1

\* No game is lost or doubled on its way, no thread sleeps over what it waits
\* for, and self_play ends with all results or an error.
GamesAreConserved ==
  TypeOK /\ NoGameIsLost /\ NoLostWakeup /\ AllResultsOrError

\* The joins return: every thread ends, whatever was thrown and when.
Terminates == <>(Ended /\ At(Main, "exited"))
=============================================================================
