--------------------------- MODULE SelfPlayProofs ---------------------------
(***************************************************************************)
(* What native self-play promises, for any number of games, workers,       *)
(* positions, moves and iterations: no game is lost or doubled, each       *)
(* search receives its own evaluation, no thread sleeps through what it    *)
(* waits for, and all ends with every result or an error.  The run of      *)
(* MCEngine checks the same on a small instance.                           *)
(*                                                                         *)
(* There are two invariants.  IInv is about sleep: NoLostWakeup is nearly  *)
(* inductive, as a thread falls asleep only when its queue is empty, open  *)
(* and not stopped, each push and each closing wakes the queue's sleepers, *)
(* and a stop is requested by a thread that goes on to close both queues.  *)
(* All it needs beside that is where threads can be.  Sound, further down, *)
(* is about the games.                                                     *)
(***************************************************************************)
EXTENDS SelfPlay, FiniteSetTheorems, TLAPS

\* The names of the threads are different.
Distinct == Neural \notin Workers /\ Main \notin Workers \cup {Neural}

Places == {"unborn", "spawning", "head", "asleep", "woken", "draining",
           "evaluating", "busy", "told", "toldLast", "closing", "closing2",
           "exited"}

Placed == place \in [Threads -> Places]

\* The last closing is still to be done, or the last two.
Announcing(name) ==
  \E t \in Threads : At(t, "closing") \/ (name = "mcts" /\ At(t, "closing2"))

NeuralSleeps ==
  At(Neural, "asleep") =>
    /\ neuralQ = <<>> /\ pending = <<>>
    /\ "neural" \notin closed
    /\ stop => Announcing("neural")

WorkerSleeps(w) ==
  At(w, "asleep") =>
    /\ mctsQ = <<>> /\ "mcts" \notin closed
    /\ stop => Announcing("mcts")

IInv == /\ Placed
        /\ NeuralSleeps
        /\ \A w \in Workers : WorkerSleeps(w)

----------------------------------------------------------------------------
LEMMA ThreadsDiffer == Distinct
  BY SelfPlayAssumption DEF Distinct

LEMMA Sleepers == NoLostWakeup <=> NeuralSleeps /\ \A w \in Workers : WorkerSleeps(w)
  BY DEF NoLostWakeup, NeuralSleeps, WorkerSleeps, Announcing

\* Where a step of one thread, without and with a notification, puts them.
LEMMA GotoPlaces ==
  ASSUME Placed, NEW t \in Threads, NEW where \in Places, Goto(t, where)
  PROVE  /\ Placed'
         /\ place'[t] = where
         /\ \A u \in Threads \ {t} : place'[u] = place[u]
  BY DEF Placed, Goto

LEMMA NotifyPlaces ==
  ASSUME Placed, NEW t \in Threads, NEW where \in Places, NEW notified,
         GotoAndNotify(t, where, notified)
  PROVE  /\ Placed'
         /\ place'[t] = where
         /\ \A u \in Threads \ {t} :
              IF u \in notified /\ place[u] = "asleep"
              THEN place'[u] = "woken" ELSE place'[u] = place[u]
<1>1. "woken" \in Places
  BY DEF Places
<1>2. QED
  BY <1>1 DEF Placed, GotoAndNotify, At

\* A step of a thread that announces nothing: what is announced still is.
LEMMA StillAnnounced ==
  ASSUME NEW t \in Threads, place[t] \notin {"closing", "closing2"},
         \A u \in Threads \ {t} :
           place'[u] = place[u] \/ place[u] \notin {"closing", "closing2"},
         NEW name, Announcing(name)
  PROVE  Announcing(name)'
<1>1. PICK u \in Threads : At(u, "closing") \/ (name = "mcts" /\ At(u, "closing2"))
  BY DEF Announcing
<1>2. u # t /\ place'[u] = place[u]
  BY <1>1 DEF At
<1>3. QED
  BY <1>1, <1>2 DEF Announcing, At

\* Such a step, when no stop or closing comes with it, keeps the invariant if
\* the thread itself sleeps with good reason, and if the sleepers on a queue
\* that changes are awake afterwards.
LEMMA StepAside ==
  ASSUME IInv, Placed', NEW t \in Threads,
         place[t] \notin {"closing", "closing2"},
         \A u \in Threads \ {t} : \/ place'[u] = place[u]
                                  \/ place[u] = "asleep" /\ place'[u] = "woken",
         UNCHANGED <<stop, closed>>,
         \/ place'[Neural] # "asleep"
         \/ t # Neural /\ UNCHANGED <<neuralQ, pending>>
         \/ neuralQ' = <<>> /\ pending' = <<>> /\ "neural" \notin closed /\ ~stop,
         \A w \in Workers :
           \/ place'[w] # "asleep"
           \/ t # w /\ UNCHANGED mctsQ
           \/ mctsQ' = <<>> /\ "mcts" \notin closed /\ ~stop
  PROVE  IInv'
<1>1. \A name : Announcing(name) => Announcing(name)'
  BY StillAnnounced
<1>2. NeuralSleeps'
  BY <1>1 DEF IInv, NeuralSleeps, At, Threads
<1>3. \A w \in Workers : WorkerSleeps(w)'
  BY <1>1 DEF IInv, WorkerSleeps, At, Threads
<1>4. QED
  BY <1>2, <1>3 DEF IInv

----------------------------------------------------------------------------
LEMMA InitInv == ASSUME Distinct, Init PROVE IInv
<1>1. \A t \in Threads : place[t] \in {"spawning", "unborn"}
  BY DEF Init
<1>2. Placed
  BY DEF Init, Placed, Places
<1>3. QED
  BY <1>1, <1>2 DEF IInv, NeuralSleeps, WorkerSleeps, At, Threads

LEMMA SpawnInv == ASSUME Distinct, IInv, NEW t \in Threads, Spawn(t) PROVE IInv'
<1>1. Placed' /\ \A u \in Threads : place'[u] = place[u] \/ place'[u] \in {"head", "exited"}
  BY DEF IInv, Spawn, Placed, Places
<1>2. \A u \in Threads : At(u, "closing") \/ At(u, "closing2") => place'[u] = place[u]
  BY DEF IInv, Placed, Spawn, At, Unborn
<1>3. \A name : Announcing(name) => Announcing(name)'
  BY <1>2 DEF Announcing, At
<1>4. NeuralSleeps'
  BY <1>1, <1>3 DEF IInv, NeuralSleeps, At, Threads, Spawn, queueVars
<1>5. \A w \in Workers : WorkerSleeps(w)'
  BY <1>1, <1>3 DEF IInv, WorkerSleeps, At, Threads, Spawn, queueVars
<1>6. QED
  BY <1>1, <1>4, <1>5 DEF IInv

\* The thread that requests the stop announces it.
LEMMA ThrowInv == ASSUME Distinct, IInv, NEW t \in Threads, Throw(t) PROVE IInv'
<1>1. /\ Placed' /\ place'[t] = "closing"
      /\ \A u \in Threads \ {t} : place'[u] = place[u]
  BY GotoPlaces DEF IInv, Throw, Fail, Places
<1>2. \A name : Announcing(name)'
  BY <1>1 DEF Announcing, At
<1>3. NeuralSleeps'
  BY <1>1, <1>2 DEF IInv, NeuralSleeps, At, Threads, Throw, Fail, queueVars
<1>4. \A w \in Workers : WorkerSleeps(w)'
  BY <1>1, <1>2 DEF IInv, WorkerSleeps, At, Threads, Throw, Fail, queueVars
<1>5. QED
  BY <1>1, <1>3, <1>4 DEF IInv

\* Closing the first queue wakes the neural thread, and the second is still to
\* be closed.
LEMMA CloseNeuralInv == ASSUME Distinct, IInv, NEW t \in Threads, CloseNeural(t) PROVE IInv'
<1>1. /\ Placed' /\ place'[t] = "closing2"
      /\ \A u \in Threads \ {t} :
           IF u \in {Neural} /\ place[u] = "asleep"
           THEN place'[u] = "woken" ELSE place'[u] = place[u]
  BY NotifyPlaces DEF IInv, CloseNeural, Places
<1>2. Announcing("mcts")'
  BY <1>1 DEF Announcing, At
<1>3. NeuralSleeps'
  BY <1>1 DEF NeuralSleeps, At, Threads
<1>4. \A w \in Workers : WorkerSleeps(w)'
  BY <1>1, <1>2 DEF IInv, WorkerSleeps, At, Threads, CloseNeural, queueVars, Distinct
<1>5. QED
  BY <1>1, <1>3, <1>4 DEF IInv

\* Closing the second wakes all the workers.
LEMMA CloseMctsInv == ASSUME Distinct, IInv, NEW t \in Threads, CloseMcts(t) PROVE IInv'
<1>1. /\ Placed' /\ place'[t] = "exited"
      /\ \A u \in Threads \ {t} :
           IF u \in Workers /\ place[u] = "asleep"
           THEN place'[u] = "woken" ELSE place'[u] = place[u]
  BY NotifyPlaces DEF IInv, CloseMcts, Places
<1>2. Announcing("neural") => Announcing("neural")'
  BY <1>1 DEF Announcing, At, CloseMcts
<1>3. NeuralSleeps'
  BY <1>1, <1>2 DEF IInv, NeuralSleeps, At, Threads, CloseMcts, queueVars, Distinct
<1>4. \A w \in Workers : WorkerSleeps(w)'
  BY <1>1 DEF WorkerSleeps, At, Threads
<1>5. QED
  BY <1>1, <1>3, <1>4 DEF IInv

LEMMA SpuriousWakeupInv ==
  ASSUME Distinct, IInv, NEW t \in Threads, SpuriousWakeup(t) PROVE IInv'
<1>1. /\ Placed' /\ place'[t] = "woken"
      /\ \A u \in Threads \ {t} : place'[u] = place[u]
  BY GotoPlaces DEF IInv, SpuriousWakeup, Places
<1>2. QED
  BY <1>1, StepAside DEF SpuriousWakeup, At, queueVars, Threads

----------------------------------------------------------------------------
(* The neural thread.                                                      *)

\* It waits only when nothing was left over and nothing is queued.
LEMMA NeuralHeadInv == ASSUME Distinct, IInv, NeuralHead PROVE IInv'
<1>1. Neural \in Threads /\ place[Neural] \notin {"closing", "closing2"}
  BY DEF Threads, NeuralHead
<1>2. PICK where \in {"exited", "draining", "asleep"} : Goto(Neural, where)
  BY DEF NeuralHead, Exit
<1>3. /\ Placed' /\ place'[Neural] = where
      /\ \A u \in Threads \ {Neural} : place'[u] = place[u]
  BY <1>1, <1>2, GotoPlaces DEF IInv, Places
<1>4. UNCHANGED <<mctsQ, stop, closed>>
  BY DEF NeuralHead, Exit, queueVars
<1>5. \/ place'[Neural] # "asleep"
      \/ neuralQ' = <<>> /\ pending' = <<>> /\ "neural" \notin closed /\ ~stop
  BY <1>1 DEF NeuralHead, Exit, Goto, PopWaits, queueVars, IInv, Placed
<1>6. QED
  BY <1>1, <1>3, <1>4, <1>5, StepAside DEF Distinct

LEMMA NeuralDrainInv == ASSUME Distinct, IInv, NeuralDrain PROVE IInv'
<1>1. Neural \in Threads /\ place[Neural] \notin {"closing", "closing2"}
  BY DEF Threads, NeuralDrain, At
<1>2. /\ Placed' /\ place'[Neural] = "evaluating"
      /\ \A u \in Threads \ {Neural} : place'[u] = place[u]
  BY <1>1, GotoPlaces DEF IInv, NeuralDrain, Places
<1>3. QED
  BY <1>1, <1>2, StepAside DEF NeuralDrain, Distinct

\* The jobs it pushes wake every worker that sleeps.
LEMMA NeuralHandsOverInv == ASSUME Distinct, IInv, NeuralHandsOver PROVE IInv'
<1>1. Neural \in Threads /\ place[Neural] \notin {"closing", "closing2"}
  BY DEF Threads, NeuralHandsOver, At
<1>2. UNCHANGED <<neuralQ, stop, closed>>
  BY DEF NeuralHandsOver
<1>3. CASE Goto(Neural, "exited") /\ UNCHANGED <<mctsQ, pending>>
  <2>1. /\ Placed' /\ place'[Neural] = "exited"
        /\ \A u \in Threads \ {Neural} : place'[u] = place[u]
    BY <1>1, <1>3, GotoPlaces DEF IInv, Places
  <2>2. QED
    BY <1>1, <1>2, <1>3, <2>1, StepAside DEF Distinct
<1>4. CASE GotoAndNotify(Neural, "head", Workers)
  <2>1. /\ Placed' /\ place'[Neural] = "head"
        /\ \A u \in Threads \ {Neural} :
             IF u \in Workers /\ place[u] = "asleep"
             THEN place'[u] = "woken" ELSE place'[u] = place[u]
    BY <1>1, <1>4, NotifyPlaces DEF IInv, Places
  <2>2. \A w \in Workers : place'[w] # "asleep"
    BY <2>1 DEF Threads, Distinct
  <2>3. QED
    BY <1>1, <1>2, <2>1, <2>2, StepAside
<1>5. QED
  BY <1>3, <1>4 DEF NeuralHandsOver

----------------------------------------------------------------------------
(* The workers.                                                            *)

LEMMA WorkerHeadInv == ASSUME Distinct, IInv, NEW w \in Workers, WorkerHead(w) PROVE IInv'
<1>1. w \in Threads /\ w # Neural /\ place[w] \notin {"closing", "closing2"}
  BY DEF Threads, WorkerHead, Distinct
<1>2. PICK where \in {"exited", "busy", "asleep"} : Goto(w, where)
  BY DEF WorkerHead, Exit
<1>3. /\ Placed' /\ place'[w] = where
      /\ \A u \in Threads \ {w} : place'[u] = place[u]
  BY <1>1, <1>2, GotoPlaces DEF IInv, Places
<1>4. UNCHANGED <<neuralQ, pending, stop, closed>>
  BY DEF WorkerHead, Exit, queueVars
<1>5. /\ \/ place'[w] # "asleep"
         \/ mctsQ' = <<>> /\ "mcts" \notin closed /\ ~stop
      /\ mctsQ' = mctsQ \/ mctsQ # <<>>
  BY <1>1 DEF WorkerHead, Exit, Goto, PopWaits, PopsItem, queueVars, IInv, Placed
<1>6. \A v \in Workers \ {w} : place'[v] # "asleep" \/ UNCHANGED mctsQ
  BY <1>3, <1>5 DEF IInv, WorkerSleeps, At, Threads
<1>7. QED
  BY <1>1, <1>3, <1>4, <1>5, <1>6, StepAside

\* The game it gives back wakes the neural thread if that sleeps.
LEMMA WorkerContinuesInv ==
  ASSUME Distinct, IInv, NEW w \in Workers, WorkerContinues(w) PROVE IInv'
<1>1. w \in Threads /\ w # Neural /\ place[w] \notin {"closing", "closing2"}
  BY DEF Threads, WorkerContinues, Distinct, At
<1>2. UNCHANGED <<pending, mctsQ, stop, closed>>
  BY DEF WorkerContinues
<1>3. CASE Goto(w, "exited") /\ UNCHANGED neuralQ
  <2>1. /\ Placed' /\ place'[w] = "exited"
        /\ \A u \in Threads \ {w} : place'[u] = place[u]
    BY <1>1, <1>3, GotoPlaces DEF IInv, Places
  <2>2. QED
    BY <1>1, <1>2, <1>3, <2>1, StepAside
<1>4. CASE GotoAndNotify(w, "head", PushNotifies)
  <2>1. /\ Placed' /\ place'[w] = "head"
        /\ \A u \in Threads \ {w} :
             IF u \in {Neural} /\ place[u] = "asleep"
             THEN place'[u] = "woken" ELSE place'[u] = place[u]
    BY <1>1, <1>4, NotifyPlaces DEF IInv, Places, PushNotifies
  <2>2. place'[Neural] # "asleep"
    BY <1>1, <2>1 DEF Threads
  <2>3. QED
    BY <1>1, <1>2, <2>1, <2>2, StepAside
<1>5. QED
  BY <1>3, <1>4 DEF WorkerContinues

LEMMA WorkerFinishesInv ==
  ASSUME Distinct, IInv, NEW w \in Workers, WorkerFinishes(w) PROVE IInv'
<1>1. w \in Threads /\ w # Neural /\ place[w] \notin {"closing", "closing2"}
  BY DEF Threads, WorkerFinishes, Distinct, At
<1>2. PICK where \in {"told", "toldLast"} : Goto(w, where)
  BY DEF WorkerFinishes
<1>3. /\ Placed' /\ place'[w] = where
      /\ \A u \in Threads \ {w} : place'[u] = place[u]
  BY <1>1, <1>2, GotoPlaces DEF IInv, Places
<1>4. QED
  BY <1>1, <1>2, <1>3, StepAside DEF WorkerFinishes, queueVars

LEMMA WorkerReportsInv ==
  ASSUME Distinct, IInv, NEW w \in Workers, WorkerReports(w) PROVE IInv'
<1>1. w \in Threads /\ w # Neural /\ place[w] \notin {"closing", "closing2"}
  BY DEF Threads, WorkerReports, Distinct
<1>2. PICK where \in {"closing", "head"} : Goto(w, where)
  BY DEF WorkerReports
<1>3. /\ Placed' /\ place'[w] = where
      /\ \A u \in Threads \ {w} : place'[u] = place[u]
  BY <1>1, <1>2, GotoPlaces DEF IInv, Places
<1>4. QED
  BY <1>1, <1>2, <1>3, StepAside DEF WorkerReports, queueVars

----------------------------------------------------------------------------
LEMMA StutterInv == ASSUME IInv, UNCHANGED vars PROVE IInv'
  BY DEF IInv, Placed, NeuralSleeps, WorkerSleeps, Announcing, At, vars, queueVars

LEMMA StepInv == ASSUME Distinct, IInv, Next PROVE IInv'
<1>1. CASE \E t \in Threads : Spawn(t) \/ Throw(t) \/ Close(t) \/ SpuriousWakeup(t)
  BY <1>1, SpawnInv, ThrowInv, CloseNeuralInv, CloseMctsInv, SpuriousWakeupInv DEF Close
<1>2. CASE NeuralStep
  BY <1>2, NeuralHeadInv, NeuralDrainInv, NeuralHandsOverInv DEF NeuralStep
<1>3. CASE \E w \in Workers : Worker(w)
  BY <1>3, WorkerHeadInv, WorkerContinuesInv, WorkerFinishesInv, WorkerReportsInv
     DEF Worker
<1>4. QED
  BY <1>1, <1>2, <1>3 DEF Next

\* No thread of self-play sleeps while its queue holds something, is closed, or
\* while a stop has been requested that nobody is about to announce
\* (cpp/src/self_play.cpp, the queues' push, pop and close).
THEOREM NobodySleepsThrough == Spec => []NoLostWakeup
<1>1. Init => IInv
  BY InitInv, ThreadsDiffer
<1>2. IInv /\ [Next]_vars => IInv'
  BY StepInv, StutterInv, ThreadsDiffer
<1>3. IInv => NoLostWakeup
  BY Sleepers DEF IInv
<1>4. QED
  BY <1>1, <1>2, <1>3, PTL DEF Spec
----------------------------------------------------------------------------
(***************************************************************************)
(* No game is lost or doubled, and each search receives its own            *)
(* evaluation.  The five places where a game can be hold no game twice and *)
(* share none, and unless a stop was asked for they hold every game.  A    *)
(* step takes games out of one place and puts the same ones into another.  *)
(* Two things are needed beside that: a queue that is closed although no   *)
(* stop was asked for is closed by the worker that finished the last game, *)
(* and a search that still runs has not had all its visits.                *)
(***************************************************************************)

\* The games in jobs that wait, and in the hands of workers.
GamesOf(jobs) == [i \in DOMAIN jobs |-> jobs[i].game]
JobGames == ToSet(GamesOf(mctsQ))
Busy     == {w \in Workers : At(w, "busy")}
InHands  == {held[w].game : w \in Busy}

Apart(N, P, M, H, R) ==
  /\ N \cap P = {} /\ N \cap M = {} /\ N \cap H = {} /\ N \cap R = {}
  /\ P \cap M = {} /\ P \cap H = {} /\ P \cap R = {}
  /\ M \cap H = {} /\ M \cap R = {}
  /\ H \cap R = {}

\* No place holds a game twice, and no game is in two places.
Once ==
  /\ IsInjective(neuralQ) /\ IsInjective(pending) /\ IsInjective(results)
  /\ IsInjective(GamesOf(mctsQ))
  /\ \A v, w \in Busy : held[v].game = held[w].game => v = w
  /\ Apart(ToSet(neuralQ), ToSet(pending), JobGames, InHands, ToSet(results))

Everywhere ==
  ToSet(neuralQ) \cup ToSet(pending) \cup JobGames \cup InHands \cup ToSet(results)

\* A game that is not over has not had the last visits of its search.
Unfinished ==
  \A g \in Games : game[g].visits < Iterations \/ g \in ToSet(results)

\* The queues are closed by a failure or after the last game.
Told == {t \in Threads : place[t] \in {"toldLast", "closing", "closing2"}}

Counted ==
  /\ remaining = Cardinality(Games) - Len(results)
  /\ ~stop /\ (closed # {} \/ Told # {}) => remaining = 0
  /\ ~stop /\ At(Neural, "exited") => closed # {}

\* Every job has the evaluation its game waits for.
Right(job) == job.model = Model(job.game) /\ job.position = Leaf(job.game)

AllRight ==
  /\ \A job \in ToSet(mctsQ) : Right(job)
  /\ \A w \in Busy : Right(held[w])

Sound ==
  /\ TypeOK
  /\ stop = error
  /\ \A w \in Busy : held[w] \in Jobs
  /\ Once
  /\ ~stop => Games \subseteq Everywhere
  /\ Unfinished
  /\ Counted
  /\ AllRight

----------------------------------------------------------------------------
(* Queues that hold nothing twice.                                         *)

LEMMA PutInQueue ==
  ASSUME NEW S, NEW queue \in Seq(S), NEW g \in S
  PROVE  /\ ToSet(Append(queue, g)) = ToSet(queue) \cup {g}
         /\ IsInjective(queue) /\ g \notin ToSet(queue) => IsInjective(Append(queue, g))
<1> DEFINE q == Append(queue, g)
<1>1. /\ q \in Seq(S) /\ Len(q) = Len(queue) + 1 /\ q[Len(queue) + 1] = g
      /\ \A i \in 1..Len(queue) : q[i] = queue[i]
  OBVIOUS
<1>2. DOMAIN q = 1..(Len(queue) + 1) /\ DOMAIN queue = 1..Len(queue) /\ Len(queue) \in Nat
  BY <1>1
<1> HIDE DEF q
<1>3. ToSet(q) = ToSet(queue) \cup {g}
  BY <1>1, <1>2 DEF ToSet
<1>4. IsInjective(queue) /\ g \notin ToSet(queue) => IsInjective(q)
  BY <1>1, <1>2 DEF ToSet, IsInjective
<1>5. QED
  BY <1>3, <1>4 DEF q

LEMMA TakeFromQueue ==
  ASSUME NEW S, NEW queue \in Seq(S), queue # <<>>, IsInjective(queue)
  PROVE  /\ Head(queue) \in ToSet(queue)
         /\ Tail(queue) \in Seq(S)
         /\ ToSet(Tail(queue)) = ToSet(queue) \ {Head(queue)}
         /\ IsInjective(Tail(queue))
<1> DEFINE q == Tail(queue)
<1>1. /\ q \in Seq(S) /\ Len(queue) \in Nat \ {0} /\ Len(q) = Len(queue) - 1
      /\ \A i \in 1..Len(q) : q[i] = queue[i + 1]
      /\ Head(queue) = queue[1]
  OBVIOUS
<1>2. DOMAIN q = 1..(Len(queue) - 1) /\ DOMAIN queue = 1..Len(queue)
  BY <1>1
<1> HIDE DEF q
<1>3. \A i \in DOMAIN queue \ {1} : i - 1 \in DOMAIN q /\ q[i - 1] = queue[i]
  BY <1>1, <1>2
<1>4. ToSet(q) = ToSet(queue) \ {queue[1]}
  <2>1. ASSUME NEW x \in ToSet(q) PROVE x \in ToSet(queue) \ {queue[1]}
    BY <1>1, <1>2 DEF ToSet, IsInjective
  <2>2. ASSUME NEW x \in ToSet(queue) \ {queue[1]} PROVE x \in ToSet(q)
    BY <1>3 DEF ToSet
  <2>3. QED
    BY <2>1, <2>2
<1>5. IsInjective(q)
  BY <1>1, <1>2 DEF IsInjective
<1>6. Head(queue) \in ToSet(queue)
  BY <1>1, <1>2 DEF ToSet
<1>7. QED
  BY <1>1, <1>4, <1>5, <1>6 DEF q

LEMMA JoinQueues ==
  ASSUME NEW S, NEW first \in Seq(S), NEW second \in Seq(S)
  PROVE  /\ ToSet(first \o second) = ToSet(first) \cup ToSet(second)
         /\ IsInjective(first) /\ IsInjective(second)
            /\ ToSet(first) \cap ToSet(second) = {} => IsInjective(first \o second)
<1> DEFINE q == first \o second
<1>1. /\ Len(first) \in Nat /\ Len(second) \in Nat
      /\ DOMAIN first = 1..Len(first) /\ DOMAIN second = 1..Len(second)
      /\ q \in Seq(S) /\ Len(q) = Len(first) + Len(second)
      /\ DOMAIN q = 1..(Len(first) + Len(second))
      /\ \A i \in 1..Len(q) : q[i] = IF i <= Len(first) THEN first[i] ELSE second[i - Len(first)]
  OBVIOUS
<1> HIDE DEF q
<1>2. /\ \A i \in DOMAIN first : i \in DOMAIN q /\ q[i] = first[i]
      /\ \A i \in DOMAIN second :
           i + Len(first) \in DOMAIN q /\ q[i + Len(first)] = second[i]
  BY <1>1
<1>3. ToSet(q) = ToSet(first) \cup ToSet(second)
  <2>1. ASSUME NEW i \in DOMAIN q PROVE q[i] \in ToSet(first) \cup ToSet(second)
    <3>1. CASE i <= Len(first)
      BY <1>1, <3>1 DEF ToSet
    <3>2. CASE i > Len(first)
      <4>1. i - Len(first) \in DOMAIN second /\ q[i] = second[i - Len(first)]
        BY <1>1, <3>2
      <4>2. QED
        BY <4>1 DEF ToSet
    <3>3. QED
      BY <1>1, <3>1, <3>2
  <2>2. QED
    BY <1>2, <2>1 DEF ToSet
<1>4. ASSUME IsInjective(first), IsInjective(second), ToSet(first) \cap ToSet(second) = {}
      PROVE  IsInjective(q)
  <2>1. \A i \in DOMAIN first, j \in DOMAIN second : first[i] # second[j]
    BY <1>4 DEF ToSet
  <2>2. ASSUME NEW i \in DOMAIN q, NEW j \in DOMAIN q, q[i] = q[j], i <= Len(first)
        PROVE  i = j
    <3>1. CASE j <= Len(first)
      BY <1>1, <1>4, <2>2, <3>1 DEF IsInjective
    <3>2. CASE j > Len(first)
      <4>1. j - Len(first) \in DOMAIN second /\ q[j] = second[j - Len(first)]
        BY <1>1, <3>2
      <4>2. i \in DOMAIN first /\ q[i] = first[i]
        BY <1>1, <2>2
      <4>3. QED
        BY <2>1, <2>2, <4>1, <4>2
    <3>3. QED
      BY <1>1, <2>2, <3>1, <3>2
  <2>3. ASSUME NEW i \in DOMAIN q, NEW j \in DOMAIN q, q[i] = q[j],
               i > Len(first), j > Len(first)
        PROVE  i = j
    <3>1. /\ i - Len(first) \in DOMAIN second /\ q[i] = second[i - Len(first)]
          /\ j - Len(first) \in DOMAIN second /\ q[j] = second[j - Len(first)]
      BY <1>1, <2>3
    <3>2. i - Len(first) = j - Len(first)
      BY <1>4, <2>3, <3>1 DEF IsInjective
    <3>3. QED
      BY <1>1, <3>2
  <2>4. QED
    BY <1>1, <2>2, <2>3 DEF IsInjective
<1>5. QED
  BY <1>3, <1>4 DEF q

\* A queue without repetitions is no longer than there are games, and when it
\* is as long it holds them all.
LEMMA FullLength ==
  ASSUME NEW S, IsFiniteSet(S), NEW queue \in Seq(S), IsInjective(queue)
  PROVE  /\ Len(queue) \in Nat /\ Cardinality(S) \in Nat
         /\ Len(queue) <= Cardinality(S)
         /\ Len(queue) = Cardinality(S) => ToSet(queue) = S
<1>1. /\ Len(queue) \in Nat /\ DOMAIN queue = 1..Len(queue)
      /\ queue \in [1..Len(queue) -> S]
  OBVIOUS
<1>2. queue \in Injection(1..Len(queue), S)
  BY <1>1 DEF Injection, IsInjective, IsInjective
<1>3. Cardinality(1..Len(queue)) = Len(queue)
  BY <1>1, FS_Interval
<1>4. /\ Len(queue) <= Cardinality(S)
      /\ Len(queue) = Cardinality(S) => queue \in Surjection(1..Len(queue), S)
  BY <1>2, <1>3, FS_Injection
<1>5. queue \in Surjection(1..Len(queue), S) => ToSet(queue) = S
  BY <1>1 DEF Surjection, ToSet
<1>6. QED
  BY <1>1, <1>4, <1>5, FS_CardinalityType

LEMMA OccursOnce ==
  ASSUME NEW S, NEW queue \in Seq(S), IsInjective(queue), NEW g
  PROVE  Occurrences(queue, g) = IF g \in ToSet(queue) THEN 1 ELSE 0
<1>1. CASE g \notin ToSet(queue)
  <2>1. {i \in DOMAIN queue : queue[i] = g} = {}
    BY <1>1 DEF ToSet
  <2>2. QED
    BY <1>1, <2>1, FS_EmptySet DEF Occurrences
<1>2. CASE g \in ToSet(queue)
  <2>1. PICK i \in DOMAIN queue : queue[i] = g
    BY <1>2 DEF ToSet
  <2>2. {j \in DOMAIN queue : queue[j] = g} = {i}
    BY <2>1 DEF IsInjective
  <2>3. QED
    BY <1>2, <2>2, FS_Singleton DEF Occurrences
<1>3. QED
  BY <1>1, <1>2

\* Ranks count the places, each once, in their order.
LEMMA RankCounts ==
  ASSUME NEW I, I \subseteq Nat, IsFiniteSet(I)
  PROVE  /\ \A i \in I : Rank(I, i) \in 1..Cardinality(I)
         /\ \A i, j \in I : i < j => Rank(I, i) < Rank(I, j)
         /\ \A k \in 1..Cardinality(I) : \E i \in I : Rank(I, i) = k
<1> DEFINE Upto(i) == {j \in I : j <= i}
           rank    == [i \in I |-> Rank(I, i)]
<1>1. ASSUME NEW i \in I
      PROVE  Upto(i) \subseteq I /\ i \in Upto(i) /\ IsFiniteSet(Upto(i))
  <2>1. Upto(i) \in SUBSET I /\ i \in Upto(i)
    OBVIOUS
  <2>2. QED
    BY <2>1, FS_Subset
<1>2. ASSUME NEW i \in I PROVE Rank(I, i) \in 1..Cardinality(I)
  <2>1. Cardinality(Upto(i)) <= Cardinality(I)
    BY <1>1, FS_Subset
  <2>2. Cardinality(Upto(i)) \in Nat /\ Cardinality(Upto(i)) # 0
    BY <1>1, FS_CardinalityType, FS_EmptySet
  <2>3. Cardinality(I) \in Nat
    BY FS_CardinalityType
  <2>4. QED
    BY <2>1, <2>2, <2>3 DEF Rank
<1>3. ASSUME NEW i \in I, NEW j \in I, i < j PROVE Rank(I, i) < Rank(I, j)
  <2>1. Upto(i) \in SUBSET Upto(j) /\ j \in Upto(j) /\ j \notin Upto(i)
    <3>1. \A k \in I : k \in Nat
      OBVIOUS
    <3>2. \A k \in I : k <= i => k <= j
      BY <1>3, <3>1
    <3>3. j <= j /\ ~(j <= i)
      BY <1>3, <3>1
    <3>4. QED
      BY <3>2, <3>3
  <2>2. /\ Cardinality(Upto(i)) <= Cardinality(Upto(j))
        /\ Cardinality(Upto(j)) = Cardinality(Upto(i)) => Upto(j) = Upto(i)
    BY <1>1, <2>1, FS_Subset
  <2>3. Cardinality(Upto(i)) \in Nat /\ Cardinality(Upto(j)) \in Nat
    BY <1>1, FS_CardinalityType
  <2>4. QED
    BY <2>1, <2>2, <2>3 DEF Rank
<1>4. rank \in Injection(I, 1..Cardinality(I))
  <2>1. \A i, j \in I : Rank(I, i) = Rank(I, j) => i = j
    <3>1. \A i, j \in I : i < j \/ j < i \/ i = j
      OBVIOUS
    <3>2. \A i \in I : Rank(I, i) \in Nat
      BY <1>2
    <3>3. QED
      BY <1>3, <3>1, <3>2
  <2>2. rank \in [I -> 1..Cardinality(I)]
    BY <1>2
  <2>3. QED
    BY <2>1, <2>2 DEF Injection, IsInjective
<1>5. rank \in Surjection(I, 1..Cardinality(I))
  <2>1. /\ Cardinality(I) \in Nat
        /\ IsFiniteSet(1..Cardinality(I))
        /\ Cardinality(1..Cardinality(I)) = Cardinality(I)
    BY FS_CardinalityType, FS_Interval
  <2>2. QED
    BY <1>4, <2>1, FS_Injection
<1>6. \A k \in 1..Cardinality(I) : \E i \in I : Rank(I, i) = k
  BY <1>5 DEF Surjection
<1>7. QED
  BY <1>2, <1>3, <1>6

\* Among picks out the games that are in S, each place of the queue once.
LEMMA AmongPicks ==
  ASSUME NEW T, NEW queue \in Seq(T), NEW S
  PROVE  /\ Among(queue, S) \in Seq(T)
         /\ ToSet(Among(queue, S)) = ToSet(queue) \cap S
         /\ IsInjective(queue) => IsInjective(Among(queue, S))
<1> DEFINE I     == PlacesIn(queue, S)
           at(k) == CHOOSE i \in I : Rank(I, i) = k
           n     == Cardinality(I)
           q     == [k \in 1..n |-> queue[at(k)]]
<1>1. /\ DOMAIN queue = 1..Len(queue) /\ Len(queue) \in Nat
      /\ \A i \in DOMAIN queue : queue[i] \in T
  OBVIOUS
<1>2. I \in SUBSET (1..Len(queue)) /\ I \subseteq Nat
  BY <1>1 DEF PlacesIn
<1>3. IsFiniteSet(I) /\ n \in Nat
  <2>1. IsFiniteSet(1..Len(queue))
    BY <1>1, FS_Interval
  <2>2. IsFiniteSet(I)
    BY <1>2, <2>1, FS_Subset
  <2>3. QED
    BY <2>2, FS_CardinalityType
<1>4. /\ \A k \in 1..n : at(k) \in I /\ Rank(I, at(k)) = k
      /\ \A i \in I : Rank(I, i) \in 1..n
      /\ \A i, j \in I : Rank(I, i) = Rank(I, j) => i = j
  <2>1. /\ \A i \in I : Rank(I, i) \in 1..n
        /\ \A i, j \in I : i < j => Rank(I, i) < Rank(I, j)
        /\ \A k \in 1..n : \E i \in I : Rank(I, i) = k
    BY <1>2, <1>3, RankCounts
  <2>2. \A i, j \in I : i < j \/ j < i \/ i = j
    BY <1>2
  <2>3. \A i, j \in I : Rank(I, i) = Rank(I, j) => i = j
    BY <1>3, <2>1, <2>2
  <2>4. QED
    BY <2>1, <2>3
<1>5. Among(queue, S) = q
  BY DEF Among
<1>6. \A i \in I : i \in DOMAIN queue /\ queue[i] \in S
  BY DEF PlacesIn
<1>7. \A i \in DOMAIN queue : queue[i] \in S => i \in I
  BY DEF PlacesIn
<1> HIDE DEF I, at, n
<1>8. q \in [1..n -> T]
  BY <1>1, <1>4, <1>6
<1>9. q \in Seq(T)
  BY <1>3, <1>8
<1>10. ToSet(q) = ToSet(queue) \cap S
  <2>1. ASSUME NEW k \in 1..n PROVE q[k] \in ToSet(queue) \cap S
    BY <1>4, <1>6 DEF ToSet
  <2>2. ASSUME NEW i \in DOMAIN queue, queue[i] \in S PROVE \E k \in 1..n : q[k] = queue[i]
    <3>1. i \in I
      BY <1>7, <2>2
    <3>2. Rank(I, i) \in 1..n /\ at(Rank(I, i)) = i
      BY <1>4, <3>1
    <3>3. q[Rank(I, i)] = queue[i]
      BY <3>2
    <3>4. QED
      BY <3>2, <3>3
  <2>3. DOMAIN q = 1..n
    OBVIOUS
  <2> HIDE DEF q
  <2>4. QED
    BY <2>1, <2>2, <2>3 DEF ToSet
<1>11. IsInjective(queue) => IsInjective(q)
  <2>1. ASSUME IsInjective(queue), NEW k \in 1..n, NEW l \in 1..n, q[k] = q[l]
        PROVE  k = l
    <3>1. at(k) = at(l)
      BY <1>4, <1>6, <2>1 DEF IsInjective
    <3>2. QED
      BY <1>4, <3>1
  <2>2. DOMAIN q = 1..n
    OBVIOUS
  <2>3. QED
    BY <2>1, <2>2 DEF IsInjective
<1>12. QED
  BY <1>5, <1>9, <1>10, <1>11

----------------------------------------------------------------------------
(* Steps that move no game.                                                *)

LEMMA BusyStay ==
  ASSUME NEW t \in Threads, t \notin Busy, place'[t] # "busy",
         \A u \in Threads \ {t} : \/ place'[u] = place[u]
                                  \/ place[u] = "asleep" /\ place'[u] = "woken"
  PROVE  Busy' = Busy
  BY DEF Busy, At, Threads

LEMMA CountedStays ==
  ASSUME Counted, UNCHANGED <<results, remaining, stop, closed>>,
         \A t \in Threads : place'[t] \in {"toldLast", "closing", "closing2"} =>
                            place[t] \in {"toldLast", "closing", "closing2"},
         place'[Neural] = "exited" => \/ place[Neural] = "exited"
                                      \/ stop \/ closed # {}
  PROVE  Counted'
<1>1. Told' \subseteq Told
  BY DEF Told
<1>2. At(Neural, "exited")' => At(Neural, "exited") \/ stop \/ closed # {}
  BY DEF At
<1>3. QED
  BY <1>1, <1>2 DEF Counted

\* A worker may drop its game only over a stop.
LEMMA QuietStep ==
  ASSUME Sound, Placed', Counted',
         UNCHANGED <<game, neuralQ, pending, mctsQ, held, results, remaining>>,
         error' \in BOOLEAN, stop' = error', closed' \subseteq {"neural", "mcts"},
         Busy' \subseteq Busy,
         ~stop' => ~stop /\ Busy' = Busy
  PROVE  Sound'
<1>1. TypeOK'
  BY DEF Sound, TypeOK, Placed, Places
<1>2. /\ InHands' \subseteq InHands
      /\ ~stop' => InHands' = InHands
      /\ JobGames' = JobGames
  BY DEF InHands, JobGames
<1>3. Once'
  BY <1>2 DEF Sound, Once, Apart
<1>4. ~stop' => Games \subseteq Everywhere'
  BY <1>2 DEF Sound, Everywhere
<1>5. Unfinished'
  BY DEF Sound, Unfinished
<1>6. \A w \in Busy' : held'[w] \in Jobs
  BY DEF Sound
<1>7. AllRight'
  BY DEF Sound, AllRight, Right, Model, Leaf
<1>8. QED
  BY <1>1, <1>3, <1>4, <1>5, <1>6, <1>7 DEF Sound

LEMMA SpawnSound == ASSUME Distinct, Sound, NEW t \in Threads, Spawn(t) PROVE Sound'
<1>1. /\ Placed'
      /\ \A u \in Threads : \/ place'[u] = place[u]
                            \/ place[u] = "unborn" /\ place'[u] = "head"
                            \/ u = Main /\ place[u] = "spawning"
                               /\ place'[u] \in {"spawning", "exited"}
  BY DEF Sound, TypeOK, Spawn, Placed, Places, Unborn, At
<1>2. Counted'
  BY <1>1, CountedStays DEF Sound, Spawn, Distinct, Threads, At
<1>3. Busy' = Busy
  BY <1>1 DEF Busy, At, Threads, Distinct
<1>4. QED
  BY <1>1, <1>2, <1>3, QuietStep DEF Spawn, queueVars, Sound, TypeOK

LEMMA ThrowSound == ASSUME Sound, NEW t \in Threads, Throw(t) PROVE Sound'
<1>1. Placed
  BY DEF Sound, TypeOK, Placed, Places
<1>2. /\ Placed' /\ place'[t] = "closing"
      /\ \A u \in Threads \ {t} : place'[u] = place[u]
  BY <1>1, GotoPlaces DEF Throw, Fail, Places
<1>3. Busy' \subseteq Busy
  BY <1>2 DEF Busy, At, Threads
<1>4. /\ UNCHANGED <<game, neuralQ, pending, mctsQ, held, results, remaining, closed>>
      /\ error' = TRUE /\ stop' = TRUE
  BY DEF Throw, Fail, queueVars
<1>5. Counted'
  BY <1>4 DEF Sound, Counted
<1>6. QED
  BY <1>2, <1>3, <1>4, <1>5, QuietStep DEF Sound, TypeOK

\* Whoever closes the queues failed, or finished the last game.
LEMMA CloseSound == ASSUME Sound, NEW t \in Threads, Close(t) PROVE Sound'
<1>1. Placed /\ Counted
  BY DEF Sound, TypeOK, Placed, Places
<1>2. PICK where \in {"closing2", "exited"}, notified \in {{Neural}, Workers} :
        GotoAndNotify(t, where, notified)
  BY DEF Close, CloseNeural, CloseMcts
<1>3. /\ Placed' /\ place'[t] = where
      /\ \A u \in Threads \ {t} :
           IF u \in notified /\ place[u] = "asleep"
           THEN place'[u] = "woken" ELSE place'[u] = place[u]
  BY <1>1, <1>2, NotifyPlaces DEF Places
<1>4. /\ place[t] \in {"closing", "closing2"}
      /\ closed' # {} /\ closed' \subseteq {"neural", "mcts"}
      /\ UNCHANGED <<game, neuralQ, pending, mctsQ, held, results, remaining, error, stop>>
  BY DEF Close, CloseNeural, CloseMcts, At, queueVars, Sound, TypeOK
<1>5. Busy' = Busy
  BY <1>3, <1>4, BusyStay DEF Busy, At
<1>6. Counted'
  <2>1. t \in Told
    BY <1>4 DEF Told
  <2>2. ~stop => remaining = 0
    BY <1>1, <2>1 DEF Counted
  <2>3. QED
    BY <1>1, <1>4, <2>2 DEF Counted
<1>7. QED
  BY <1>3, <1>4, <1>5, <1>6, QuietStep DEF Sound, TypeOK

\* Every other step of a thread that moves no game.
LEMMA ThreadMoves ==
  ASSUME Sound, NEW t \in Threads, NEW where \in Places, Goto(t, where),
         where \notin {"busy", "toldLast", "closing2"},
         where = "closing" => place[t] = "toldLast",
         where = "exited" /\ t = Neural => stop \/ closed # {},
         t \in Busy => stop,
         UNCHANGED <<game, neuralQ, pending, mctsQ, held, results, remaining,
                     error, stop, closed>>
  PROVE  Sound'
<1>1. Placed /\ Counted
  BY DEF Sound, TypeOK, Placed, Places
<1>2. /\ Placed' /\ place'[t] = where
      /\ \A u \in Threads \ {t} : place'[u] = place[u]
  BY <1>1, GotoPlaces
<1>3. Busy' \subseteq Busy /\ (t \notin Busy => Busy' = Busy)
  BY <1>2 DEF Busy, At, Threads
<1>4. Counted'
  BY <1>1, <1>2, CountedStays DEF Threads
<1>5. QED
  BY <1>2, <1>3, <1>4, QuietStep DEF Sound, TypeOK

----------------------------------------------------------------------------
(* Steps that move games.                                                  *)

\* Between the queue of the neural thread and its batch.
LEMMA Rebatched ==
  ASSUME Sound, Placed', Counted',
         UNCHANGED <<game, mctsQ, held, results, remaining, error, stop, closed>>,
         Busy' = Busy,
         neuralQ' \in Seq(Games), pending' \in Seq(Games),
         IsInjective(neuralQ'), IsInjective(pending'),
         ToSet(neuralQ') \cap ToSet(pending') = {},
         ToSet(neuralQ') \cup ToSet(pending') = ToSet(neuralQ) \cup ToSet(pending)
  PROVE  Sound'
<1>1. TypeOK'
  BY DEF Sound, TypeOK, Placed, Places
<1>2. InHands' = InHands /\ JobGames' = JobGames
  BY DEF InHands, JobGames
<1>3. Once'
  <2>1. Apart(ToSet(neuralQ), ToSet(pending), JobGames, InHands, ToSet(results))'
    BY <1>2 DEF Sound, Once, Apart
  <2>2. QED
    BY <2>1 DEF Sound, Once
<1>4. ~stop' => Games \subseteq Everywhere'
  BY <1>2 DEF Sound, Everywhere
<1>5. Unfinished' /\ \A w \in Busy' : held'[w] \in Jobs
  BY DEF Sound, Unfinished
<1>6. AllRight'
  BY DEF Sound, AllRight, Right, Model, Leaf
<1>7. QED
  BY <1>1, <1>3, <1>4, <1>5, <1>6 DEF Sound

LEMMA NeuralHeadSound == ASSUME Distinct, Sound, NeuralHead PROVE Sound'
<1>1. /\ Neural \in Threads /\ Neural \notin Busy
      /\ Placed /\ Counted
  BY DEF Threads, Sound, TypeOK, Placed, Places, Distinct, Busy
<1>2. CASE PopsItem(neuralQ) /\ pending = <<>> /\ pending' = <<Head(neuralQ)>>
           /\ neuralQ' = Tail(neuralQ) /\ Goto(Neural, "draining")
           /\ UNCHANGED <<game, mctsQ, held, results, remaining, error, stop, closed>>
  <2>1. /\ Placed' /\ place'[Neural] = "draining"
        /\ \A u \in Threads \ {Neural} : place'[u] = place[u]
    BY <1>1, <1>2, GotoPlaces DEF Places
  <2>2. Busy' = Busy /\ Counted'
    BY <1>1, <1>2, <2>1, BusyStay, CountedStays
  <2>3. neuralQ \in Seq(Games) /\ neuralQ # <<>> /\ IsInjective(neuralQ)
    BY <1>2 DEF PopsItem, Sound, TypeOK, Once
  <2>4. /\ Head(neuralQ) \in ToSet(neuralQ) /\ Head(neuralQ) \in Games
        /\ neuralQ' \in Seq(Games) /\ IsInjective(neuralQ')
        /\ ToSet(neuralQ') = ToSet(neuralQ) \ {Head(neuralQ)}
    BY <1>2, <2>3, TakeFromQueue
  <2>5. /\ pending' \in Seq(Games) /\ IsInjective(pending')
        /\ ToSet(pending') = {Head(neuralQ)} /\ ToSet(pending) = {}
    BY <1>2, <2>4 DEF IsInjective, ToSet
  <2>6. QED
    BY <1>2, <2>1, <2>2, <2>4, <2>5, Rebatched
<1>3. CASE UNCHANGED <<neuralQ, pending>>
  <2>1. PICK where \in {"exited", "draining", "asleep"} : Goto(Neural, where)
    BY DEF NeuralHead, Exit
  <2>2. UNCHANGED <<game, neuralQ, pending, mctsQ, held, results, remaining,
                    error, stop, closed>>
    BY <1>3 DEF NeuralHead, Exit, queueVars
  <2>3. place'[Neural] = where
    BY <1>1, <2>1, GotoPlaces DEF Places
  <2>4. where = "exited" => stop \/ closed # {}
    BY <1>1, <2>1, <2>3 DEF NeuralHead, Goto, Exit, PopsNothing, Placed
  <2>5. QED
    BY <1>1, <2>1, <2>2, <2>4, ThreadMoves DEF Places
<1>4. QED
  BY <1>2, <1>3 DEF NeuralHead, Exit, queueVars

LEMMA NeuralDrainSound == ASSUME Distinct, Sound, NeuralDrain PROVE Sound'
<1>1. /\ Neural \in Threads /\ Neural \notin Busy
      /\ Placed /\ Counted
  BY DEF Threads, Sound, TypeOK, Placed, Places, Distinct, Busy
<1>2. /\ Placed' /\ place'[Neural] = "evaluating"
      /\ \A u \in Threads \ {Neural} : place'[u] = place[u]
  BY <1>1, GotoPlaces DEF NeuralDrain, Places
<1>3. Busy' = Busy /\ Counted'
  BY <1>1, <1>2, BusyStay, CountedStays DEF NeuralDrain
<1>4. /\ neuralQ \in Seq(Games) /\ pending \in Seq(Games)
      /\ IsInjective(neuralQ) /\ IsInjective(pending)
      /\ ToSet(pending) \cap ToSet(neuralQ) = {}
  BY DEF Sound, TypeOK, Once, Apart
<1>5. /\ pending' = pending \o neuralQ /\ pending' \in Seq(Games)
      /\ IsInjective(pending') /\ ToSet(pending') = ToSet(pending) \cup ToSet(neuralQ)
  BY <1>4, JoinQueues DEF NeuralDrain
<1>6. /\ neuralQ' = <<>> /\ neuralQ' \in Seq(Games)
      /\ IsInjective(neuralQ') /\ ToSet(neuralQ') = {}
  BY DEF NeuralDrain, ToSet, IsInjective
<1>7. QED
  BY <1>2, <1>3, <1>5, <1>6, Rebatched DEF NeuralDrain

----------------------------------------------------------------------------
(* The jobs.                                                               *)

LEMMA RightJobs == RightEvaluation <=> AllRight
<1>1. (\A i \in DOMAIN mctsQ : Right(mctsQ[i])) <=> \A job \in ToSet(mctsQ) : Right(job)
  BY DEF ToSet
<1>2. (\A w \in Workers : At(w, "busy") => Right(held[w])) <=> \A w \in Busy : Right(held[w])
  BY DEF Busy
<1>3. QED
  BY <1>1, <1>2 DEF RightEvaluation, AllRight, Right, Game

LEMMA SameSequence ==
  ASSUME NEW S, NEW s \in Seq(S), NEW t \in Seq(S), Len(s) = Len(t),
         \A i \in 1..Len(t) : s[i] = t[i]
  PROVE  s = t
  OBVIOUS

LEMMA JoinedAt ==
  ASSUME NEW S, NEW first \in Seq(S), NEW second \in Seq(S)
  PROVE  /\ first \o second \in Seq(S)
         /\ Len(first \o second) = Len(first) + Len(second)
         /\ \A i \in 1..(Len(first) + Len(second)) :
              (first \o second)[i] =
                IF i <= Len(first) THEN first[i] ELSE second[i - Len(first)]
  OBVIOUS

LEMMA GamesOfJobs ==
  ASSUME NEW jobs \in Seq(Jobs)
  PROVE  /\ GamesOf(jobs) \in Seq(Games) /\ Len(GamesOf(jobs)) = Len(jobs)
         /\ DOMAIN GamesOf(jobs) = 1..Len(jobs)
         /\ \A i \in 1..Len(jobs) : GamesOf(jobs)[i] = jobs[i].game
<1>1. DOMAIN jobs = 1..Len(jobs) /\ Len(jobs) \in Nat /\ \A i \in 1..Len(jobs) : jobs[i] \in Jobs
  OBVIOUS
<1>2. \A i \in 1..Len(jobs) : jobs[i].game \in Games
  BY <1>1 DEF Jobs
<1>3. GamesOf(jobs) = [i \in 1..Len(jobs) |-> jobs[i].game]
  BY <1>1 DEF GamesOf
<1>4. GamesOf(jobs) \in [1..Len(jobs) -> Games]
  BY <1>2, <1>3
<1>5. QED
  BY <1>1, <1>3, <1>4

LEMMA GamesOfJoined ==
  ASSUME NEW first \in Seq(Jobs), NEW second \in Seq(Jobs)
  PROVE  GamesOf(first \o second) = GamesOf(first) \o GamesOf(second)
<1> DEFINE q == first \o second
<1>1. /\ q \in Seq(Jobs) /\ Len(q) = Len(first) + Len(second)
      /\ Len(first) \in Nat /\ Len(second) \in Nat
      /\ \A i \in 1..Len(q) : q[i] = IF i <= Len(first) THEN first[i] ELSE second[i - Len(first)]
  OBVIOUS
<1>2. /\ GamesOf(first) \in Seq(Games) /\ Len(GamesOf(first)) = Len(first)
      /\ \A i \in 1..Len(first) : GamesOf(first)[i] = first[i].game
  BY GamesOfJobs
<1>3. /\ GamesOf(second) \in Seq(Games) /\ Len(GamesOf(second)) = Len(second)
      /\ \A i \in 1..Len(second) : GamesOf(second)[i] = second[i].game
  BY GamesOfJobs
<1>4. /\ GamesOf(q) \in Seq(Games) /\ Len(GamesOf(q)) = Len(q)
      /\ \A i \in 1..Len(q) : GamesOf(q)[i] = q[i].game
  BY <1>1, GamesOfJobs
<1> DEFINE f == GamesOf(first)
           s == GamesOf(second)
           a == GamesOf(q)
<1>5. \A i \in 1..Len(q) :
        a[i] = IF i <= Len(first) THEN f[i] ELSE s[i - Len(first)]
  <2>1. ASSUME NEW i \in 1..Len(q), i <= Len(first) PROVE a[i] = f[i]
    <3>1. i \in 1..Len(first) /\ q[i] = first[i]
      BY <1>1, <2>1
    <3>2. QED
      BY <1>2, <1>4, <3>1
  <2>2. ASSUME NEW i \in 1..Len(q), ~(i <= Len(first)) PROVE a[i] = s[i - Len(first)]
    <3>1. i - Len(first) \in 1..Len(second) /\ q[i] = second[i - Len(first)]
      BY <1>1, <2>2
    <3>2. QED
      BY <1>3, <1>4, <3>1
  <2>3. QED
    BY <2>1, <2>2
<1> HIDE DEF q, f, s, a
<1>6. f \in Seq(Games) /\ s \in Seq(Games) /\ a \in Seq(Games)
      /\ Len(f) = Len(first) /\ Len(s) = Len(second) /\ Len(a) = Len(first) + Len(second)
  BY <1>1, <1>2, <1>3, <1>4 DEF f, s, a
<1>7. /\ f \o s \in Seq(Games) /\ Len(f \o s) = Len(a)
      /\ \A i \in 1..Len(a) : (f \o s)[i] = IF i <= Len(first) THEN f[i] ELSE s[i - Len(first)]
  <2>0. f \in Seq(Games) /\ s \in Seq(Games)
    BY <1>6
  <2>1. /\ f \o s \in Seq(Games) /\ Len(f \o s) = Len(f) + Len(s)
        /\ \A i \in 1..(Len(f) + Len(s)) :
             (f \o s)[i] = IF i <= Len(f) THEN f[i] ELSE s[i - Len(f)]
    BY ONLY <2>0, JoinedAt
  <2>2. Len(f) = Len(first) /\ Len(f) + Len(s) = Len(a)
    BY <1>6
  <2>3. QED
    BY <2>1, <2>2, Zenon
<1>8. a = f \o s
  <2>1. Len(q) = Len(a)
    BY <1>1, <1>6
  <2>2. \A i \in 1..Len(a) : a[i] = (f \o s)[i]
    BY <1>5, <1>7, <2>1
  <2>3. QED
    BY <1>6, <1>7, <2>2, SameSequence
<1>9. QED
  BY <1>8 DEF a, f, s, q

LEMMA GamesOfTail ==
  ASSUME NEW jobs \in Seq(Jobs), jobs # <<>>
  PROVE  /\ GamesOf(jobs) # <<>> /\ Head(GamesOf(jobs)) = Head(jobs).game
         /\ GamesOf(Tail(jobs)) = Tail(GamesOf(jobs))
<1> DEFINE q == Tail(jobs)
<1>1. /\ q \in Seq(Jobs) /\ Len(jobs) \in Nat \ {0} /\ Len(q) = Len(jobs) - 1
      /\ \A i \in 1..Len(q) : q[i] = jobs[i + 1]
      /\ Head(jobs) = jobs[1]
  OBVIOUS
<1>2. /\ GamesOf(jobs) \in Seq(Games) /\ Len(GamesOf(jobs)) = Len(jobs)
      /\ \A i \in 1..Len(jobs) : GamesOf(jobs)[i] = jobs[i].game
  BY GamesOfJobs
<1>3. /\ GamesOf(q) \in Seq(Games) /\ Len(GamesOf(q)) = Len(q)
      /\ \A i \in 1..Len(q) : GamesOf(q)[i] = q[i].game
  BY <1>1, GamesOfJobs
<1> DEFINE f == GamesOf(jobs)
           a == GamesOf(q)
<1>4. f # <<>> /\ Head(f) = f[1] /\ f[1] = jobs[1].game
  BY <1>1, <1>2
<1>5. \A i \in 1..Len(q) : a[i] = f[i + 1]
  BY <1>1, <1>2, <1>3
<1> HIDE DEF q, f, a
<1>6. f \in Seq(Games) /\ a \in Seq(Games) /\ Len(a) = Len(f) - 1 /\ Len(f) \in Nat \ {0}
  BY <1>1, <1>2, <1>3 DEF f, a
<1>7. Tail(f) \in Seq(Games) /\ Len(Tail(f)) = Len(a) /\ \A i \in 1..Len(a) : Tail(f)[i] = f[i + 1]
  BY <1>6
<1>8. a = Tail(f)
  BY <1>1, <1>3, <1>5, <1>6, <1>7 DEF a
<1>9. QED
  BY <1>1, <1>4, <1>8 DEF a, f, q

\* What a batch hands over: jobs for the games it evaluated, each once, with
\* the evaluation they wait for; the other games stay.
LEMMA HandedOver ==
  ASSUME TypeOK, IsInjective(pending)
  PROVE  LET E == {g \in ToSet(pending) : Evaluated(g)}
         IN  /\ ReadyJobs \in Seq(Jobs)
             /\ ToSet(GamesOf(ReadyJobs)) = E
             /\ IsInjective(GamesOf(ReadyJobs))
             /\ \A job \in ToSet(ReadyJobs) : Right(job)
             /\ Leftover \in Seq(Games)
             /\ ToSet(Leftover) = ToSet(pending) \ E
             /\ IsInjective(Leftover)
<1> DEFINE E     == {g \in ToSet(pending) : Evaluated(g)}
           ready == Among(pending, E)
<1>1. pending \in Seq(Games) /\ ToSet(pending) \subseteq Games
  <2>1. pending \in Seq(Games)
    BY DEF TypeOK
  <2>2. QED
    BY <2>1 DEF ToSet
<1>2. Waiting = ToSet(pending)
  BY DEF Waiting, ToSet
<1>3. ready \in Seq(Games) /\ ToSet(ready) = E /\ IsInjective(ready)
  BY <1>1, AmongPicks
<1>4. Leftover = Among(pending, ToSet(pending) \ E)
  <2>1. {g \in Waiting : ~Evaluated(g)} = ToSet(pending) \ E
    BY <1>2
  <2>2. QED
    BY <2>1 DEF Leftover
<1>5. /\ Leftover \in Seq(Games) /\ ToSet(Leftover) = ToSet(pending) \ E
      /\ IsInjective(Leftover)
  BY <1>1, <1>4, AmongPicks
<1>6. \A g \in E : Job(g) \in Jobs /\ Job(g).game = g /\ Right(Job(g))
  <2>1. ASSUME NEW g \in E
        PROVE  Job(g) \in Jobs /\ Job(g).game = g /\ Right(Job(g))
    <3>1. g \in Games /\ Model(g) = SelectedModel
      BY <1>1 DEF Evaluated
    <3>2. Leaf(g) \in Leaves
      BY <3>1 DEF TypeOK, Leaf
    <3>3. Model(g) \in Nat
      BY <3>1, <3>2, SelfPlayAssumption DEF Model, Leaf
    <3>4. QED
      BY <3>1, <3>2, <3>3 DEF Job, Jobs, Right
  <2>2. QED
    BY <2>1
<1>7. ReadyJobs = [i \in 1..Len(ready) |-> Job(ready[i])]
  <2>1. {g \in Waiting : Evaluated(g)} = E
    BY <1>2
  <2>2. DOMAIN ready = 1..Len(ready)
    BY <1>3
  <2>3. ReadyJobs = [i \in DOMAIN ready |-> Job(ready[i])]
    BY <2>1 DEF ReadyJobs
  <2>4. QED
    BY <2>2, <2>3
<1> HIDE DEF ready
<1>8. /\ Len(ready) \in Nat /\ DOMAIN ready = 1..Len(ready)
      /\ \A i \in 1..Len(ready) : ready[i] \in E
  <2>1. Len(ready) \in Nat /\ DOMAIN ready = 1..Len(ready)
    BY <1>3
  <2>2. QED
    BY <1>3, <2>1 DEF ToSet
<1> HIDE DEF E
<1>9. ReadyJobs \in Seq(Jobs) /\ Len(ReadyJobs) = Len(ready)
  <2>1. ReadyJobs \in [1..Len(ready) -> Jobs]
    BY <1>6, <1>7, <1>8
  <2>2. QED
    BY <1>8, <2>1
<1>10. GamesOf(ReadyJobs) = ready
  <2>1. /\ GamesOf(ReadyJobs) \in Seq(Games) /\ Len(GamesOf(ReadyJobs)) = Len(ready)
        /\ \A i \in 1..Len(ready) : GamesOf(ReadyJobs)[i] = ReadyJobs[i].game
    BY <1>9, GamesOfJobs
  <2>2. \A i \in 1..Len(ready) : ReadyJobs[i].game = ready[i]
    BY <1>6, <1>7, <1>8
  <2>3. \A i \in 1..Len(ready) : GamesOf(ReadyJobs)[i] = ready[i]
    BY <2>1, <2>2
  <2>4. QED
    BY <1>3, <2>1, <2>3, SameSequence
<1>11. \A job \in ToSet(ReadyJobs) : Right(job)
  <2>1. \A i \in 1..Len(ready) : Right(ReadyJobs[i])
    BY <1>6, <1>7, <1>8
  <2>2. DOMAIN ReadyJobs = 1..Len(ready)
    BY <1>7
  <2>3. QED
    BY <2>1, <2>2 DEF ToSet
<1>12. QED
  BY <1>3, <1>5, <1>9, <1>10, <1>11 DEF E

LEMMA NeuralHandsOverSound ==
  ASSUME Distinct, Sound, NeuralHandsOver PROVE Sound'
<1>1. /\ Neural \in Threads /\ Neural \notin Busy
      /\ Placed /\ Counted /\ TypeOK
  BY DEF Threads, Sound, TypeOK, Placed, Places, Distinct, Busy
<1>2. UNCHANGED <<game, neuralQ, held, results, remaining, error, stop, closed>>
  BY DEF NeuralHandsOver
<1>3. CASE stop \/ "mcts" \in closed
  <2>1. Goto(Neural, "exited") /\ UNCHANGED <<mctsQ, pending>>
    BY <1>3 DEF NeuralHandsOver
  <2>2. stop \/ closed # {}
    BY <1>3
  <2>3. QED
    BY <1>1, <1>2, <2>1, <2>2, ThreadMoves DEF Places
<1>4. CASE /\ ~stop
           /\ mctsQ' = mctsQ \o ReadyJobs /\ pending' = Leftover
           /\ GotoAndNotify(Neural, "head", Workers)
  <2>1. /\ Placed' /\ place'[Neural] = "head"
        /\ \A u \in Threads \ {Neural} :
             IF u \in Workers /\ place[u] = "asleep"
             THEN place'[u] = "woken" ELSE place'[u] = place[u]
    BY <1>1, <1>4, NotifyPlaces DEF Places
  <2>2. Busy' = Busy /\ Counted'
    BY <1>1, <1>2, <2>1, BusyStay, CountedStays
  <2> DEFINE E == {g \in ToSet(pending) : Evaluated(g)}
  <2>3. /\ ReadyJobs \in Seq(Jobs)
        /\ ToSet(GamesOf(ReadyJobs)) = E
        /\ IsInjective(GamesOf(ReadyJobs))
        /\ \A job \in ToSet(ReadyJobs) : Right(job)
        /\ Leftover \in Seq(Games)
        /\ ToSet(Leftover) = ToSet(pending) \ E
        /\ IsInjective(Leftover)
    BY <1>1, HandedOver DEF Sound, Once
  <2>4. E \subseteq ToSet(pending)
    OBVIOUS
  <2> HIDE DEF E
  <2>5. /\ mctsQ \in Seq(Jobs) /\ GamesOf(mctsQ) \in Seq(Games)
        /\ IsInjective(GamesOf(mctsQ)) /\ JobGames \cap ToSet(pending) = {}
        /\ GamesOf(ReadyJobs) \in Seq(Games)
    BY <2>3, GamesOfJobs DEF Sound, TypeOK, Once, Apart
  <2>6. /\ mctsQ' \in Seq(Jobs)
        /\ ToSet(mctsQ') = ToSet(mctsQ) \cup ToSet(ReadyJobs)
    BY <1>4, <2>3, <2>5, JoinQueues
  <2>7. /\ GamesOf(mctsQ)' = GamesOf(mctsQ) \o GamesOf(ReadyJobs)
        /\ JobGames' = JobGames \cup E
        /\ IsInjective(GamesOf(mctsQ))'
    <3>1. GamesOf(mctsQ') = GamesOf(mctsQ) \o GamesOf(ReadyJobs)
      BY <1>4, <2>3, <2>5, GamesOfJoined
    <3>2. ToSet(GamesOf(mctsQ)) \cap ToSet(GamesOf(ReadyJobs)) = {}
      BY <2>3, <2>4, <2>5 DEF JobGames
    <3>3. /\ ToSet(GamesOf(mctsQ')) = ToSet(GamesOf(mctsQ)) \cup E
          /\ IsInjective(GamesOf(mctsQ'))
      BY <2>3, <2>5, <3>1, <3>2, JoinQueues
    <3>4. QED
      BY <3>1, <3>3 DEF JobGames
  <2>8. TypeOK'
    BY <1>1, <1>2, <1>4, <2>1, <2>3, <2>6 DEF TypeOK, Placed, Places
  <2>9. InHands' = InHands
    BY <1>2, <2>2 DEF InHands
  <2>10. Once'
    <3>1. Apart(ToSet(neuralQ), ToSet(pending), JobGames, InHands, ToSet(results))'
      BY <1>2, <1>4, <2>3, <2>4, <2>7, <2>9 DEF Sound, Once, Apart
    <3>2. QED
      BY <1>2, <1>4, <2>2, <2>3, <2>7, <3>1 DEF Sound, Once
  <2>11. Games \subseteq Everywhere'
    BY <1>2, <1>4, <2>3, <2>7, <2>9 DEF Sound, Everywhere
  <2>12. Unfinished' /\ \A w \in Busy' : held'[w] \in Jobs
    BY <1>2, <2>2 DEF Sound, Unfinished
  <2>13. AllRight'
    <3>1. \A job : Right(job)' <=> Right(job)
      BY <1>2 DEF Right, Model, Leaf
    <3>2. \A job \in ToSet(mctsQ') : Right(job)
      BY <2>3, <2>6 DEF Sound, AllRight
    <3>3. \A w \in Busy : Right(held[w])
      BY DEF Sound, AllRight
    <3>4. (\A job \in ToSet(mctsQ) : Right(job))'
      BY <3>1, <3>2
    <3>5. (\A w \in Busy : Right(held[w]))'
      BY <1>2, <2>2, <3>3 DEF Right, Model, Leaf
    <3>6. QED
      BY <3>4, <3>5 DEF AllRight
  <2>14. QED
    BY <1>2, <2>2, <2>8, <2>10, <2>11, <2>12, <2>13 DEF Sound
<1>5. QED
  BY <1>3, <1>4 DEF NeuralHandsOver

----------------------------------------------------------------------------
(* The workers' steps.                                                     *)

LEMMA WorkerHeadSound ==
  ASSUME Distinct, Sound, NEW w \in Workers, WorkerHead(w) PROVE Sound'
<1>1. /\ w \in Threads /\ w # Neural /\ w \notin Busy
      /\ Placed /\ Counted
  BY DEF Threads, Sound, TypeOK, Placed, Places, Distinct, Busy, WorkerHead, At
<1>2. CASE UNCHANGED <<mctsQ, held>>
  <2>1. PICK where \in {"exited", "asleep"} : Goto(w, where)
    <3>1. ASSUME PopsItem(mctsQ), mctsQ' = Tail(mctsQ) PROVE FALSE
      <4>1. mctsQ \in Seq(Jobs) /\ mctsQ # <<>>
        BY <3>1 DEF PopsItem, Sound, TypeOK
      <4>2. Len(Tail(mctsQ)) # Len(mctsQ)
        BY <4>1
      <4>3. QED
        BY <1>2, <3>1, <4>2
    <3>2. QED
      BY <3>1 DEF WorkerHead, Exit
  <2>2. UNCHANGED <<game, neuralQ, pending, mctsQ, held, results, remaining,
                    error, stop, closed>>
    BY <1>2 DEF WorkerHead, Exit, queueVars
  <2>3. QED
    BY <1>1, <2>1, <2>2, ThreadMoves DEF Places
<1>3. CASE /\ PopsItem(mctsQ)
           /\ held' = [held EXCEPT ![w] = Head(mctsQ)] /\ mctsQ' = Tail(mctsQ)
           /\ Goto(w, "busy")
           /\ UNCHANGED <<game, neuralQ, pending, results, remaining, error, stop, closed>>
  <2>1. /\ Placed' /\ place'[w] = "busy"
        /\ \A u \in Threads \ {w} : place'[u] = place[u]
    BY <1>1, <1>3, GotoPlaces DEF Places
  <2>2. Busy' = Busy \cup {w}
    BY <1>1, <2>1 DEF Busy, At, Threads
  <2>3. Counted'
    BY <1>1, <1>3, <2>1, CountedStays DEF Threads
  <2> DEFINE g == Head(mctsQ).game
  <2>4. /\ mctsQ \in Seq(Jobs) /\ mctsQ # <<>>
        /\ held \in [Workers -> Jobs \cup {NoJob}]
    BY <1>3 DEF PopsItem, Sound, TypeOK
  <2>5. /\ Head(mctsQ) \in Jobs /\ mctsQ' \in Seq(Jobs)
        /\ \A job \in ToSet(mctsQ') : job \in ToSet(mctsQ)
        /\ Head(mctsQ) \in ToSet(mctsQ)
    <3>1. /\ Head(mctsQ) = mctsQ[1] /\ 1 \in DOMAIN mctsQ
          /\ mctsQ' \in Seq(Jobs)
          /\ \A i \in DOMAIN mctsQ' : i + 1 \in DOMAIN mctsQ /\ mctsQ'[i] = mctsQ[i + 1]
      BY <1>3, <2>4
    <3>2. Head(mctsQ) \in Jobs
      BY <2>4
    <3>3. QED
      BY <3>1, <3>2 DEF ToSet
  <2>6. /\ GamesOf(mctsQ)' = Tail(GamesOf(mctsQ))
        /\ JobGames' = JobGames \ {g} /\ g \in JobGames
        /\ IsInjective(GamesOf(mctsQ))'
    <3>1. /\ GamesOf(mctsQ) \in Seq(Games) /\ IsInjective(GamesOf(mctsQ))
      BY <2>4, GamesOfJobs DEF Sound, Once
    <3>2. /\ GamesOf(mctsQ) # <<>> /\ Head(GamesOf(mctsQ)) = g
          /\ GamesOf(mctsQ') = Tail(GamesOf(mctsQ))
      BY <1>3, <2>4, GamesOfTail
    <3>3. /\ g \in ToSet(GamesOf(mctsQ))
          /\ ToSet(GamesOf(mctsQ')) = ToSet(GamesOf(mctsQ)) \ {g}
          /\ IsInjective(GamesOf(mctsQ'))
      BY <3>1, <3>2, TakeFromQueue
    <3>4. QED
      BY <3>2, <3>3 DEF JobGames
  <2>7. /\ held'[w] = Head(mctsQ)
        /\ \A v \in Busy : held'[v] = held[v]
        /\ held' \in [Workers -> Jobs \cup {NoJob}]
    BY <1>1, <1>3, <2>4, <2>5 DEF Busy
  <2>8. InHands' = InHands \cup {g} /\ g \notin InHands
    BY <2>2, <2>6, <2>7 DEF InHands, Sound, Once, Apart
  <2> HIDE DEF g
  <2>9. TypeOK'
    BY <1>3, <2>1, <2>5, <2>7 DEF Sound, TypeOK, Placed, Places
  <2>10. Once'
    <3>1. Apart(ToSet(neuralQ), ToSet(pending), JobGames, InHands, ToSet(results))'
      BY <1>3, <2>6, <2>8 DEF Sound, Once, Apart
    <3>2. \A u, v \in Busy' : held'[u].game = held'[v].game => u = v
      <4>1. \A v \in Busy : held'[v].game \in InHands /\ held'[v].game # g
        BY <2>7, <2>8 DEF InHands
      <4>2. held'[w].game = g
        BY <2>7 DEF g
      <4>3. QED
        BY <2>2, <2>7, <4>1, <4>2 DEF Sound, Once
    <3>3. QED
      BY <1>3, <2>6, <3>1, <3>2 DEF Sound, Once
  <2>11. ~stop' => Games \subseteq Everywhere'
    BY <1>3, <2>6, <2>8 DEF Sound, Everywhere
  <2>12. Unfinished' /\ \A v \in Busy' : held'[v] \in Jobs
    BY <1>3, <2>2, <2>5, <2>7 DEF Sound, Unfinished
  <2>13. AllRight'
    <3>1. \A job \in ToSet(mctsQ') : Right(job)
      BY <2>5 DEF Sound, AllRight
    <3>2. Right(Head(mctsQ)) /\ \A v \in Busy : Right(held[v])
      BY <2>5 DEF Sound, AllRight
    <3>3. (\A job \in ToSet(mctsQ) : Right(job))'
      BY <1>3, <3>1 DEF Right, Model, Leaf
    <3>4. (\A v \in Busy : Right(held[v]))'
      BY <1>3, <2>2, <2>7, <3>2 DEF Right, Model, Leaf
    <3>5. QED
      BY <3>3, <3>4 DEF AllRight
  <2>14. QED
    BY <1>3, <2>3, <2>9, <2>10, <2>11, <2>12, <2>13 DEF Sound
<1>4. QED
  BY <1>2, <1>3 DEF WorkerHead, Exit, queueVars

\* A game in a worker's hands is not finished, so nobody has closed a queue or
\* is about to, unless a stop was asked for.
LEMMA NotAllDone ==
  ASSUME Sound, NEW w \in Busy
  PROVE  /\ w \in Workers /\ held[w] \in Jobs /\ Game(w) \in Games
         /\ Game(w) \in InHands /\ Game(w) \notin ToSet(results)
         /\ remaining \in Nat \ {0}
         /\ stop \/ (closed = {} /\ Told = {})
<1>1. w \in Workers /\ held[w] \in Jobs /\ Game(w) \in Games /\ Game(w) \in InHands
  BY DEF Sound, Busy, Game, Jobs, InHands
<1>2. Game(w) \notin ToSet(results)
  BY <1>1 DEF Sound, Once, Apart
<1>3. results \in Seq(Games) /\ IsInjective(results)
  BY DEF Sound, TypeOK, Once
<1>4. /\ Len(results) \in Nat /\ Cardinality(Games) \in Nat
      /\ Len(results) <= Cardinality(Games)
      /\ Len(results) # Cardinality(Games)
  BY <1>1, <1>2, <1>3, FullLength, SelfPlayAssumption
<1>5. remaining = Cardinality(Games) - Len(results)
  BY DEF Sound, Counted
<1>6. remaining \in Nat \ {0}
  BY <1>4, <1>5
<1>7. stop \/ (closed = {} /\ Told = {})
  BY <1>6 DEF Sound, Counted
<1>8. QED
  BY <1>1, <1>2, <1>6, <1>7

\* What a worker leaves in the hands of the others when it is done with a game.
LEMMA HandsEmptied ==
  ASSUME Sound, NEW w \in Busy, w \in Threads, held' = [held EXCEPT ![w] = NoJob],
         place'[w] # "busy",
         \A u \in Threads \ {w} : \/ place'[u] = place[u]
                                  \/ place[u] = "asleep" /\ place'[u] = "woken"
  PROVE  /\ Busy' = Busy \ {w}
         /\ \A v \in Busy' : held'[v] = held[v] /\ held[v].game # Game(w)
         /\ InHands' = InHands \ {Game(w)}
         /\ held' \in [Workers -> Jobs \cup {NoJob}]
<1>1. Busy' = Busy \ {w}
  BY DEF Busy, At, Threads
<1>2. held \in [Workers -> Jobs \cup {NoJob}] /\ w \in Workers
  BY DEF Sound, TypeOK, Busy
<1>3. held' \in [Workers -> Jobs \cup {NoJob}]
  BY <1>2
<1>4. \A v \in Busy' : held'[v] = held[v] /\ held[v].game # Game(w)
  BY <1>1, <1>2 DEF Sound, Once, Busy, Game
<1>5. InHands' = InHands \ {Game(w)}
  BY <1>1, <1>4 DEF InHands, Game
<1>6. QED
  BY <1>1, <1>3, <1>4, <1>5

\* The jobs of the others do not see the game that changes.
LEMMA OthersStayRight ==
  ASSUME Sound, NEW w \in Busy, UNCHANGED mctsQ,
         \A g \in Games \ {Game(w)} : game'[g] = game[g],
         Busy' = Busy \ {w},
         \A v \in Busy' : held'[v] = held[v] /\ held[v].game # Game(w)
  PROVE  AllRight' /\ \A v \in Busy' : held'[v] \in Jobs
<1>1. mctsQ \in Seq(Jobs)
  BY DEF Sound, TypeOK
<1>2. \A job \in ToSet(mctsQ) : job \in Jobs /\ job.game \in JobGames
  <2>1. DOMAIN GamesOf(mctsQ) = DOMAIN mctsQ
    BY DEF GamesOf
  <2>2. \A i \in DOMAIN mctsQ : mctsQ[i] \in Jobs /\ GamesOf(mctsQ)[i] = mctsQ[i].game
    BY <1>1 DEF GamesOf
  <2>3. QED
    BY <2>1, <2>2 DEF ToSet, JobGames
<1>3. Game(w) \in InHands
  BY DEF InHands, Game
<1>4. \A job \in ToSet(mctsQ) : job.game \in Games \ {Game(w)}
  BY <1>2, <1>3 DEF Sound, Once, Apart, Jobs
<1>5. \A v \in Busy' : held'[v] \in Jobs /\ held'[v].game \in Games \ {Game(w)}
  BY DEF Sound, Jobs
<1>6. \A job : job.game \in Games \ {Game(w)} /\ Right(job) => Right(job)'
  BY DEF Right, Model, Leaf
<1>7. (\A job \in ToSet(mctsQ) : Right(job))'
  BY <1>4, <1>6 DEF Sound, AllRight
<1>8. \A v \in Busy' : Right(held[v])
  BY DEF Sound, AllRight
<1>9. (\A v \in Busy : Right(held[v]))'
  BY <1>5, <1>8 DEF Right, Model, Leaf
<1>10. QED
  BY <1>5, <1>7, <1>9 DEF AllRight

LEMMA WorkerContinuesSound ==
  ASSUME Distinct, Sound, NEW w \in Workers, WorkerContinues(w)
  PROVE  Sound'
<1>1. /\ w \in Threads /\ w # Neural /\ w \in Busy
      /\ Placed /\ Counted
  BY DEF Threads, Sound, TypeOK, Placed, Places, Distinct, Busy, WorkerContinues
<1>2. /\ held[w] \in Jobs /\ Game(w) \in Games
      /\ Game(w) \in InHands /\ Game(w) \notin ToSet(results)
      /\ stop \/ closed = {}
  BY <1>1, NotAllDone
<1>3. /\ UNCHANGED <<pending, mctsQ, results, remaining, error, stop, closed>>
      /\ held' = [held EXCEPT ![w] = NoJob]
  BY DEF WorkerContinues
<1>4. PICK after \in Continued(Game(w)) : game' = [game EXCEPT ![Game(w)] = after]
  BY DEF WorkerContinues
<1>5. /\ after \in [left : 0..Moves, visits : 0..Iterations, leaf : Leaves]
      /\ after.visits < Iterations
  <2>1. /\ game[Game(w)].left \in 0..Moves /\ game[Game(w)].visits \in 0..Iterations
    BY <1>2 DEF Sound, TypeOK
  <2>2. Iterations \in Nat \ {0} /\ Moves \in Nat
    BY SelfPlayAssumption
  <2>3. CASE game[Game(w)].visits + 1 < Iterations
    <3>1. after \in [left : {game[Game(w)].left}, visits : {game[Game(w)].visits + 1},
                     leaf : Leaves]
      BY <1>4, <2>3 DEF Continued
    <3>2. /\ after.visits = game[Game(w)].visits + 1 /\ after.left = game[Game(w)].left
          /\ after.leaf \in Leaves
          /\ after = [left |-> after.left, visits |-> after.visits, leaf |-> after.leaf]
      BY <3>1
    <3>3. after.visits \in 0..Iterations /\ after.visits < Iterations
      BY <2>1, <2>2, <2>3, <3>2
    <3>4. QED
      BY <2>1, <3>2, <3>3
  <2>4. CASE ~(game[Game(w)].visits + 1 < Iterations)
    <3>1. game[Game(w)].left # 0
      BY <2>1, <2>2, <2>4 DEF WorkerContinues, Over, Searched
    <3>2. after \in [left : {game[Game(w)].left - 1}, leaf : Leaves,
                     visits : IF Iterations > 1 THEN 1..(Iterations - 1) ELSE {0}]
      BY <1>4, <2>4 DEF Continued
    <3>3. /\ after.left = game[Game(w)].left - 1
          /\ after.visits \in IF Iterations > 1 THEN 1..(Iterations - 1) ELSE {0}
          /\ after.leaf \in Leaves
          /\ after = [left |-> after.left, visits |-> after.visits, leaf |-> after.leaf]
      BY <3>2
    <3>4. after.left \in 0..Moves
      BY <2>1, <2>2, <3>1, <3>3
    <3>5. after.visits \in 0..Iterations /\ after.visits < Iterations
      <4>1. CASE Iterations > 1
        BY <2>2, <3>3, <4>1
      <4>2. CASE ~(Iterations > 1)
        BY <2>2, <3>3, <4>2
      <4>3. QED
        BY <4>1, <4>2
    <3>6. QED
      BY <3>3, <3>4, <3>5
  <2>5. QED
    BY <2>3, <2>4
<1>6. /\ game' \in [Games -> [left : 0..Moves, visits : 0..Iterations, leaf : Leaves]]
      /\ game'[Game(w)] = after
      /\ \A g \in Games \ {Game(w)} : game'[g] = game[g]
  BY <1>2, <1>4, <1>5 DEF Sound, TypeOK
<1>7. Unfinished'
  BY <1>3, <1>5, <1>6 DEF Sound, Unfinished
<1>8. PICK where \in {"exited", "head"} :
        /\ place'[w] = where /\ Placed'
        /\ \A u \in Threads \ {w} : \/ place'[u] = place[u]
                                    \/ place[u] = "asleep" /\ place'[u] = "woken"
  <2>1. CASE Goto(w, "exited")
    BY <1>1, <2>1, GotoPlaces DEF Places
  <2>2. CASE GotoAndNotify(w, "head", PushNotifies)
    BY <1>1, <2>2, NotifyPlaces DEF Places
  <2>3. QED
    BY <2>1, <2>2 DEF WorkerContinues
<1>9. Counted'
  BY <1>1, <1>3, <1>8, CountedStays DEF Threads
<1>10. /\ Busy' = Busy \ {w}
       /\ \A v \in Busy' : held'[v] = held[v] /\ held[v].game # Game(w)
       /\ InHands' = InHands \ {Game(w)}
       /\ held' \in [Workers -> Jobs \cup {NoJob}]
  BY <1>1, <1>3, <1>8, HandsEmptied
<1>11. AllRight' /\ \A v \in Busy' : held'[v] \in Jobs
  BY <1>1, <1>3, <1>6, <1>10, OthersStayRight
<1>12. JobGames' = JobGames
  BY <1>3 DEF JobGames
<1>13. /\ neuralQ' \in Seq(Games) /\ IsInjective(neuralQ')
       /\ \/ stop /\ ToSet(neuralQ') = ToSet(neuralQ)
          \/ ToSet(neuralQ') = ToSet(neuralQ) \cup {Game(w)}
  <2>1. neuralQ \in Seq(Games) /\ IsInjective(neuralQ) /\ Game(w) \notin ToSet(neuralQ)
    BY <1>2 DEF Sound, TypeOK, Once, Apart
  <2>2. CASE UNCHANGED neuralQ /\ stop
    BY <2>1, <2>2
  <2>3. CASE neuralQ' = Append(neuralQ, Game(w))
    <3>1. neuralQ' \in Seq(Games)
      BY <1>2, <2>1, <2>3
    <3>2. QED
      BY <1>2, <2>1, <2>3, <3>1, PutInQueue
  <2>4. QED
    BY <1>2, <2>2, <2>3 DEF WorkerContinues
<1>14. TypeOK'
  BY <1>3, <1>6, <1>8, <1>10, <1>13 DEF Sound, TypeOK, Placed, Places
<1>15. Once'
  <2>1. Apart(ToSet(neuralQ), ToSet(pending), JobGames, InHands, ToSet(results))'
    BY <1>2, <1>3, <1>10, <1>12, <1>13 DEF Sound, Once, Apart
  <2>2. \A u, v \in Busy' : held'[u].game = held'[v].game => u = v
    BY <1>10 DEF Sound, Once
  <2>3. QED
    BY <1>3, <1>13, <2>1, <2>2 DEF Sound, Once
<1>16. ~stop' => Games \subseteq Everywhere'
  BY <1>3, <1>10, <1>12, <1>13 DEF Sound, Everywhere
<1>17. QED
  BY <1>3, <1>7, <1>9, <1>11, <1>14, <1>15, <1>16 DEF Sound

\* Only the last game brings the worker to close the queues.
LEMMA WorkerFinishesSound ==
  ASSUME Distinct, Sound, NEW w \in Workers, WorkerFinishes(w)
  PROVE  Sound'
<1>1. /\ w \in Threads /\ w # Neural /\ w \in Busy
      /\ Placed /\ Counted
  BY DEF Threads, Sound, TypeOK, Placed, Places, Distinct, Busy, WorkerFinishes
<1>2. /\ held[w] \in Jobs /\ Game(w) \in Games
      /\ Game(w) \in InHands /\ Game(w) \notin ToSet(results)
      /\ remaining \in Nat \ {0}
      /\ stop \/ (closed = {} /\ Told = {})
  BY <1>1, NotAllDone
<1>3. /\ UNCHANGED <<neuralQ, pending, mctsQ, error, stop, closed>>
      /\ held' = [held EXCEPT ![w] = NoJob]
      /\ results' = Append(results, Game(w))
      /\ remaining' = remaining - 1
      /\ game' = [game EXCEPT ![Game(w)].visits = @ + 1]
  BY DEF WorkerFinishes, queueVars
<1>4. /\ game' \in [Games -> [left : 0..Moves, visits : 0..Iterations, leaf : Leaves]]
      /\ \A g \in Games \ {Game(w)} : game'[g] = game[g]
  <2>1. game[Game(w)].visits \in Nat /\ game[Game(w)].visits < Iterations
    BY <1>2 DEF Sound, TypeOK, Unfinished
  <2>2. game[Game(w)].visits + 1 \in 0..Iterations
    BY <2>1, SelfPlayAssumption
  <2>3. QED
    BY <1>2, <1>3, <2>2 DEF Sound, TypeOK
<1>5. /\ results \in Seq(Games) /\ IsInjective(results)
      /\ results' \in Seq(Games) /\ IsInjective(results')
      /\ ToSet(results') = ToSet(results) \cup {Game(w)}
      /\ Len(results') = Len(results) + 1
  <2>1. results \in Seq(Games) /\ IsInjective(results)
    BY DEF Sound, TypeOK, Once
  <2>2. results' \in Seq(Games) /\ Len(results') = Len(results) + 1
    BY <1>2, <1>3, <2>1
  <2>3. QED
    BY <1>2, <1>3, <2>1, <2>2, PutInQueue
<1>6. PICK where \in {"told", "toldLast"} :
        /\ Goto(w, where)
        /\ where = "toldLast" => remaining = 1
  BY DEF WorkerFinishes, LastGame
<1>7. /\ Placed' /\ place'[w] = where
      /\ \A u \in Threads \ {w} : place'[u] = place[u]
  BY <1>1, <1>6, GotoPlaces DEF Places
<1>8. Counted'
  <2>1. Cardinality(Games) \in Nat /\ Len(results) \in Nat
    BY <1>5, FS_CardinalityType, SelfPlayAssumption
  <2>2. remaining' = Cardinality(Games) - Len(results')
    BY <1>1, <1>3, <1>5, <2>1 DEF Counted
  <2>3. ASSUME ~stop', closed' # {} \/ Told' # {} PROVE remaining' = 0
    <3>1. closed' = {} /\ Told = {}
      BY <1>2, <1>3, <2>3
    <3>2. w \in Told'
      BY <1>7, <2>3, <3>1 DEF Told
    <3>3. where = "toldLast"
      BY <1>7, <3>2 DEF Told
    <3>4. QED
      BY <1>3, <1>6, <3>3
  <2>4. ~stop' /\ At(Neural, "exited")' => closed' # {}
    BY <1>1, <1>3, <1>7 DEF Counted, At, Threads
  <2>5. QED
    BY <2>2, <2>3, <2>4 DEF Counted
<1>9. /\ Busy' = Busy \ {w}
      /\ \A v \in Busy' : held'[v] = held[v] /\ held[v].game # Game(w)
      /\ InHands' = InHands \ {Game(w)}
      /\ held' \in [Workers -> Jobs \cup {NoJob}]
  BY <1>1, <1>3, <1>7, HandsEmptied
<1>10. AllRight' /\ \A v \in Busy' : held'[v] \in Jobs
  BY <1>1, <1>3, <1>4, <1>9, OthersStayRight
<1>11. JobGames' = JobGames
  BY <1>3 DEF JobGames
<1>12. remaining' \in 0..Cardinality(Games)
  <2>1. remaining \in 0..Cardinality(Games) /\ Cardinality(Games) \in Nat
    BY FS_CardinalityType, SelfPlayAssumption DEF Sound, TypeOK
  <2>2. QED
    BY <1>2, <1>3, <2>1
<1>13. TypeOK'
  BY <1>3, <1>4, <1>5, <1>7, <1>9, <1>12 DEF Sound, TypeOK, Placed, Places
<1>14. Once'
  <2>1. Apart(ToSet(neuralQ), ToSet(pending), JobGames, InHands, ToSet(results))'
    BY <1>2, <1>3, <1>5, <1>9, <1>11 DEF Sound, Once, Apart
  <2>2. \A u, v \in Busy' : held'[u].game = held'[v].game => u = v
    BY <1>9 DEF Sound, Once
  <2>3. QED
    BY <1>3, <1>5, <2>1, <2>2 DEF Sound, Once
<1>15. ~stop' => Games \subseteq Everywhere'
  BY <1>3, <1>5, <1>9, <1>11 DEF Sound, Everywhere
<1>16. Unfinished'
  BY <1>4, <1>5 DEF Sound, Unfinished
<1>17. QED
  BY <1>3, <1>8, <1>10, <1>13, <1>14, <1>15, <1>16 DEF Sound

LEMMA WorkerReportsSound ==
  ASSUME Distinct, Sound, NEW w \in Workers, WorkerReports(w) PROVE Sound'
<1>1. w \in Threads /\ w # Neural /\ w \notin Busy
  BY DEF Threads, Distinct, WorkerReports, Busy, At
<1>2. PICK where \in {"closing", "head"} :
        Goto(w, where) /\ (where = "closing" => place[w] = "toldLast")
  BY DEF WorkerReports, At
<1>3. QED
  BY <1>1, <1>2, ThreadMoves DEF WorkerReports, Places, queueVars

LEMMA SpuriousWakeupSound ==
  ASSUME Sound, NEW t \in Threads, SpuriousWakeup(t) PROVE Sound'
<1>1. t \notin Busy
  BY DEF SpuriousWakeup, Busy, At
<1>2. QED
  BY <1>1, ThreadMoves DEF SpuriousWakeup, Places, queueVars

----------------------------------------------------------------------------
LEMMA InitSound == ASSUME Distinct, Init PROVE Sound
<1>1. /\ neuralQ \in [1..Cardinality(Games) -> Games]
      /\ \A i, j \in 1..Cardinality(Games) : i # j => neuralQ[i] # neuralQ[j]
  BY DEF Init, SetToSeqs
<1>2. Cardinality(Games) \in Nat
  BY FS_CardinalityType, SelfPlayAssumption
<1>3. /\ neuralQ \in Seq(Games) /\ IsInjective(neuralQ)
      /\ Len(neuralQ) = Cardinality(Games)
  BY <1>1, <1>2 DEF IsInjective
<1>4. ToSet(neuralQ) = Games
  BY <1>3, FullLength, SelfPlayAssumption
<1>5. \A t \in Threads : place[t] \in {"spawning", "unborn"}
  BY DEF Init
<1>6. Busy = {} /\ Told = {} /\ ~At(Neural, "exited")
  BY <1>5 DEF Busy, Told, At, Threads
<1>7. /\ pending = <<>> /\ mctsQ = <<>> /\ results = <<>> /\ remaining = Cardinality(Games)
      /\ ~error /\ ~stop /\ stop = error /\ closed = {}
  BY DEF Init
<1>8. /\ ToSet(pending) = {} /\ JobGames = {} /\ ToSet(results) = {} /\ InHands = {}
      /\ IsInjective(pending) /\ IsInjective(GamesOf(mctsQ)) /\ IsInjective(results)
  BY <1>6, <1>7 DEF ToSet, JobGames, GamesOf, InHands, IsInjective
<1>9. TypeOK
  <2>1. game \in [Games -> [left : 0..Moves, visits : 0..Iterations, leaf : Leaves]]
    <3>1. 0 \in 0..Iterations
      BY SelfPlayAssumption
    <3>2. QED
      BY <3>1 DEF Init
  <2>2. held \in [Workers -> Jobs \cup {NoJob}]
    BY DEF Init
  <2>3. place \in [Threads -> {"unborn", "spawning", "head", "asleep", "woken",
                               "draining", "evaluating", "busy", "told",
                               "toldLast", "closing", "closing2", "exited"}]
    BY DEF Init
  <2>4. error \in BOOLEAN /\ stop \in BOOLEAN
    BY DEF Init
  <2>5. QED
    BY <1>2, <1>3, <1>7, <2>1, <2>2, <2>3, <2>4 DEF TypeOK
<1>10. Unfinished
  BY SelfPlayAssumption DEF Init, Unfinished
<1>11. Once
  BY <1>3, <1>6, <1>8 DEF Once, Apart
<1>12. Counted
  BY <1>2, <1>6, <1>7 DEF Counted
<1>13. AllRight
  BY <1>6, <1>7 DEF AllRight, ToSet
<1>14. Games \subseteq Everywhere
  BY <1>4 DEF Everywhere
<1>15. QED
  BY <1>6, <1>7, <1>9, <1>10, <1>11, <1>12, <1>13, <1>14 DEF Sound

LEMMA StutterSound == ASSUME Sound, UNCHANGED vars PROVE Sound'
<1>1. Placed /\ Counted
  BY DEF Sound, TypeOK, Placed, Places
<1>2. Placed' /\ Busy' = Busy /\ Told' = Told
  BY <1>1 DEF vars, Placed, Busy, Told, At
<1>3. Counted'
  BY <1>1, <1>2 DEF vars, Counted, At
<1>4. QED
  BY <1>2, <1>3, QuietStep DEF vars, queueVars, Sound, TypeOK

LEMMA StepSound == ASSUME Distinct, Sound, Next PROVE Sound'
<1>1. CASE \E t \in Threads : Spawn(t) \/ Throw(t) \/ Close(t) \/ SpuriousWakeup(t)
  BY <1>1, SpawnSound, ThrowSound, CloseSound, SpuriousWakeupSound
<1>2. CASE NeuralStep
  BY <1>2, NeuralHeadSound, NeuralDrainSound, NeuralHandsOverSound DEF NeuralStep
<1>3. CASE \E w \in Workers : Worker(w)
  BY <1>3, WorkerHeadSound, WorkerContinuesSound, WorkerFinishesSound, WorkerReportsSound
     DEF Worker
<1>4. QED
  BY <1>1, <1>2, <1>3 DEF Next

----------------------------------------------------------------------------
(* What follows from it.                                                   *)

LEMMA EachIsOnce == ASSUME Sound PROVE NoGameIsLost
<1>1. ASSUME NEW g \in Games
      PROVE  /\ Occurrences(neuralQ, g) = IF g \in ToSet(neuralQ) THEN 1 ELSE 0
             /\ Occurrences(pending, g) = IF g \in ToSet(pending) THEN 1 ELSE 0
             /\ Occurrences(results, g) = IF g \in ToSet(results) THEN 1 ELSE 0
  BY OccursOnce DEF Sound, TypeOK, Once
<1>2. ASSUME NEW g \in Games
      PROVE  Cardinality({i \in DOMAIN mctsQ : mctsQ[i].game = g})
               = IF g \in JobGames THEN 1 ELSE 0
  <2>1. mctsQ \in Seq(Jobs) /\ IsInjective(GamesOf(mctsQ))
    BY DEF Sound, TypeOK, Once
  <2>2. GamesOf(mctsQ) \in Seq(Games)
    BY <2>1, GamesOfJobs
  <2>3. {i \in DOMAIN mctsQ : mctsQ[i].game = g}
          = {i \in DOMAIN GamesOf(mctsQ) : GamesOf(mctsQ)[i] = g}
    BY DEF GamesOf
  <2>4. Cardinality({i \in DOMAIN mctsQ : mctsQ[i].game = g}) = Occurrences(GamesOf(mctsQ), g)
    BY <2>3 DEF Occurrences
  <2>5. QED
    BY <2>1, <2>2, <2>4, OccursOnce DEF JobGames
<1>3. ASSUME NEW g \in Games
      PROVE  Cardinality({w \in Workers : At(w, "busy") /\ held[w].game = g})
               = IF g \in InHands THEN 1 ELSE 0
  <2> DEFINE W == {w \in Workers : At(w, "busy") /\ held[w].game = g}
  <2>1. W = {w \in Busy : held[w].game = g}
    BY DEF Busy
  <2>2. CASE g \notin InHands
    <3>1. W = {}
      BY <2>1, <2>2 DEF InHands
    <3>2. QED
      BY <2>2, <3>1, FS_EmptySet
  <2>3. CASE g \in InHands
    <3>1. PICK w \in Busy : held[w].game = g
      BY <2>3 DEF InHands
    <3>2. W = {w}
      BY <2>1, <3>1 DEF Sound, Once
    <3>3. QED
      BY <2>3, <3>2, FS_Singleton
  <2>4. QED
    BY <2>2, <2>3
<1>4. ASSUME NEW g \in Games
      PROVE  Copies(g) <= 1 /\ (~stop => Copies(g) = 1)
  <2>1. Apart(ToSet(neuralQ), ToSet(pending), JobGames, InHands, ToSet(results))
    BY DEF Sound, Once
  <2>2. /\ ~(g \in ToSet(neuralQ) /\ g \in ToSet(pending))
        /\ ~(g \in ToSet(neuralQ) /\ g \in JobGames)
        /\ ~(g \in ToSet(neuralQ) /\ g \in InHands)
        /\ ~(g \in ToSet(neuralQ) /\ g \in ToSet(results))
        /\ ~(g \in ToSet(pending) /\ g \in JobGames)
        /\ ~(g \in ToSet(pending) /\ g \in InHands)
        /\ ~(g \in ToSet(pending) /\ g \in ToSet(results))
        /\ ~(g \in JobGames /\ g \in InHands)
        /\ ~(g \in JobGames /\ g \in ToSet(results))
        /\ ~(g \in InHands /\ g \in ToSet(results))
    BY <2>1 DEF Apart
  <2>3. ~stop => \/ g \in ToSet(neuralQ) \/ g \in ToSet(pending) \/ g \in JobGames
                 \/ g \in InHands \/ g \in ToSet(results)
    BY DEF Sound, Everywhere
  <2>4. Copies(g) = (IF g \in ToSet(neuralQ) THEN 1 ELSE 0)
                    + (IF g \in ToSet(pending) THEN 1 ELSE 0)
                    + (IF g \in ToSet(results) THEN 1 ELSE 0)
                    + (IF g \in JobGames THEN 1 ELSE 0)
                    + (IF g \in InHands THEN 1 ELSE 0)
    BY <1>1, <1>2, <1>3 DEF Copies
  <2>5. QED
    BY <2>2, <2>3, <2>4
<1>5. QED
  BY <1>4 DEF NoGameIsLost

\* When all threads have ended without an error, the neural thread saw a queue
\* closed, so the last game was finished, so every game was.
LEMMA EndsWithAll == ASSUME Sound PROVE AllResultsOrError
<1>1. SUFFICES ASSUME Ended, ~error
               PROVE  \A g \in Games : Occurrences(results, g) = 1
  BY DEF AllResultsOrError
<1>2. At(Neural, "exited") /\ ~stop
  BY <1>1 DEF Ended, Threads, Sound
<1>3. remaining = 0 /\ remaining = Cardinality(Games) - Len(results)
  BY <1>2 DEF Sound, Counted
<1>4. results \in Seq(Games) /\ IsInjective(results)
  BY DEF Sound, TypeOK, Once
<1>5. /\ Cardinality(Games) \in Nat /\ Len(results) \in Nat
      /\ Len(results) = Cardinality(Games) => ToSet(results) = Games
  BY <1>4, FullLength, SelfPlayAssumption
<1>6. ToSet(results) = Games
  BY <1>3, <1>5
<1>7. QED
  BY <1>4, <1>6, OccursOnce

LEMMA SoundForever == Spec => []Sound
<1>1. Init => Sound
  BY InitSound, ThreadsDiffer
<1>2. Sound /\ [Next]_vars => Sound'
  BY StepSound, StutterSound, ThreadsDiffer
<1>3. QED
  BY <1>1, <1>2, PTL DEF Spec

\* No game is lost or doubled between the queues, the batches and the threads
\* of self-play, no thread sleeps over what it waits for, and it ends with every
\* result or an error (cpp/src/self_play.cpp, self_play).
THEOREM NothingIsLost == Spec => []GamesAreConserved
<1>1. Sound /\ NoLostWakeup => GamesAreConserved
  BY EachIsOnce, EndsWithAll DEF GamesAreConserved, Sound
<1>2. QED
  BY <1>1, SoundForever, NobodySleepsThrough, PTL

\* Every search receives the evaluation of its own leaf by the model whose turn
\* it is there (cpp/src/self_play.cpp, neural_thread).
THEOREM SearchesGetTheirOwn == Spec => []RightEvaluation
<1>1. Sound => RightEvaluation
  BY RightJobs DEF Sound
<1>2. QED
  BY <1>1, SoundForever, PTL
=============================================================================
