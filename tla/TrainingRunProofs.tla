------------------------- MODULE TrainingRunProofs --------------------------
(***************************************************************************)
(* Proofs about TrainingRun, for any bounds and sizes: the inductive       *)
(* invariant of a V2 run; that the start and the end of an invocation, the *)
(* actor, the trainer and the coordinator's handlers keep it; and what a   *)
(* run promises, which follows from it.                                    *)
(***************************************************************************)
EXTENDS TrainingRun, FiniteSetTheorems, TLAPS

-----------------------------------------------------------------------------
(***************************************************************************)
(* The inductive invariant.  The variables fall into four groups, the rows *)
(* and checkpoints, the candidate on its way through the trainer, the      *)
(* actor's commands and events, and the shards; each part below says what  *)
(* holds within one group, or what one group owes to another.              *)
(***************************************************************************)

\* The places of the coordinator at which its children are alive.
Awake == {"loop", "retire", "decided", "prune", "register"}

\* The children, their queues and the schedule end with the coordinator.
ChildrenSleep ==
  coordinator \notin Awake =>
    /\ trainer = NoTrainer
    /\ trainerQ = <<>> /\ trainerEvents = <<>>
    /\ actorQ = <<>> /\ actorEvents = <<>> /\ written = 0
    /\ ~arenaWaiting /\ ~stopRequested
    /\ lifecycle = {} /\ decisions = 0 /\ deletions = {}

ChildrenRun ==
  coordinator \in Awake => trainer.on /\ champion # NoAttempt

-----------------------------------------------------------------------------
(* Rows and checkpoints.                                                   *)

\* n is the number the next candidate gets.
IsNextRow(n) == \A m \in Attempts : status[m] = "none" <=> m >= n

RowsAreContiguous == \E n \in 0..(MaxAttempt + 1) : IsNextRow(n)

RootIsFirst ==
  IF champion = NoAttempt
  THEN /\ \A m \in Attempts : status[m] = "none"
       /\ acceptedCount = 0 /\ candidateFile = NoFile
  ELSE status[0] = "accepted" /\ status[champion] = "accepted"

\* The candidate on trial has the last number given, so there is only one.
LatestIsOnTrial ==
  \A n \in Having("pending") : \A m \in Attempts : m > n => status[m] = "none"

RowsAreBacked == Having("accepted") \cup Having("pending") \subseteq Saved

PromotionsAreCounted ==
  acceptedCount + 1 = Cardinality(Having("accepted") \cup {0})

Rows ==
  /\ RowsAreContiguous
  /\ RootIsFirst
  /\ LatestIsOnTrial
  /\ RowsAreBacked
  /\ PromotionsAreCounted

\* A checkpoint without a row has the next number, and after the first start
\* it is the only candidate there is.
OrphanIsNext == \A n \in Orphans : IsNextRow(n)

OrphanIsAlone ==
  champion # NoAttempt => \A n \in Orphans :
    /\ candidateFile = NoFile /\ Having("pending") = {}
    /\ weights[n].parent = champion
    /\ coordinator \in {"down", "starting", "register", "interrupted"}

FileIsAlone ==
  candidateFile # NoFile =>
    Having("pending") = {} /\ candidateFile.parent = champion

RowIsDue ==
  coordinator \in {"register", "interrupted"} =>
    Orphans # {} /\ champion # NoAttempt

Checkpoints == OrphanIsNext /\ OrphanIsAlone /\ FileIsAlone /\ RowIsDue

-----------------------------------------------------------------------------
(* The candidate's way through the trainer.                                *)

OnTrial  == Having("pending") # {}
Told     == Queued(trainerQ, "decision") # {}
Offered  == Queued(trainerEvents, "candidate") # {}
Answered == Queued(trainerEvents, "applied") # {}

\* A trainer that has heard the last verdict learns under the champion.
TrainerFollows ==
  trainer.on =>
    /\ trainer.champion # NoAttempt
    /\ ~Told /\ ~At("decided") => trainer.champion = champion
    /\ trainer.best # NoFile => trainer.best.parent = trainer.champion

\* From the offer of a candidate to its verdict the trainer waits.
TrainerWaits ==
  coordinator \in Awake /\ (OnTrial \/ Told \/ Offered \/ At("decided"))
    => trainer.pending

\* A candidate is offered, on trial, judged, and its verdict told and
\* answered, in that order and no two at a time.
OneStage ==
  /\ Told => ~OnTrial /\ ~Offered /\ ~Answered /\ ~At("decided")
             /\ "trainer" \in lifecycle /\ candidateFile = NoFile
  /\ Offered => ~OnTrial /\ ~At("decided")
  /\ Answered => ~OnTrial /\ ~At("decided")
  /\ At("decided") => ~OnTrial /\ candidateFile = NoFile

OneMessage ==
  /\ \A i, j \in Queued(trainerQ, "decision") : i = j
  /\ \A i, j \in Queued(trainerEvents, "candidate") : i = j
  /\ \A i \in Queued(trainerEvents, "applied") :
       \A j \in Queued(trainerEvents, "candidate") : i < j

\* What the verdict tells the trainer to load is kept by the next pruning.
VerdictIsBacked ==
  \A i \in Queued(trainerQ, "decision") :
    /\ trainerQ[i].champion = champion
    /\ trainerQ[i].learner \in {champion, incumbent}
    /\ trainerQ[i].learner \in Saved

OfferIsAtHand ==
  At("register") => trainerEvents # <<>> /\ Head(trainerEvents).type = "candidate"

StopFollowsVerdict ==
  /\ stopRequested => ~OnTrial
  /\ decisions >= CandidateLimit => stopRequested
  /\ stopRequested /\ ~Told /\ ~At("decided") => learnerFile.champion = champion

Trial ==
  /\ TrainerFollows
  /\ TrainerWaits
  /\ OneStage
  /\ OneMessage
  /\ VerdictIsBacked
  /\ OfferIsAtHand
  /\ StopFollowsVerdict

-----------------------------------------------------------------------------
(* The actor's commands and events.                                        *)

\* Nothing but an arena is queued behind another command, and while the actor
\* has another one, everything it said has been handled.
CommandsInOrder ==
  \A i \in DOMAIN actorQ :
    IF actorQ[i].type = "arena" THEN i = Len(actorQ)
    ELSE i = 1 /\ actorEvents = <<>>

\* A batch of shards or a reload comes first, the arena's result last.
EventsInOrder ==
  \A i \in DOMAIN actorEvents :
    /\ actorEvents[i].type = "shard" =>
         \A j \in 1..(i - 1) : actorEvents[j].type = "shard"
    /\ actorEvents[i].type = "reload" => i = 1
    /\ actorEvents[i].type = "arena" => i = Len(actorEvents) /\ actorQ = <<>>

\* One batch: it starts at the next number, and the mark ends it.
BatchInOrder ==
  /\ \A i \in Queued(actorEvents, "shard") :
       /\ actorEvents[i].shard =
            IF At("retire") THEN nextShard + i - 2 ELSE nextShard + i - 1
       /\ actorEvents[i].final => i + 1 \notin Queued(actorEvents, "shard")
  /\ ~actorBusy =>
       /\ Queued(actorQ, "generate") = {}
       /\ Queued(actorEvents, "shard") \subseteq IF At("retire") THEN {1} ELSE {}

GenerationIsDue ==
  \A i \in Queued(actorQ, "generate") :
    /\ actorQ[i].first = nextShard
    /\ actorQ[i].champion = champion
    /\ lifecycle = {}

ReloadIsDue ==
  /\ \A i \in Queued(actorQ, "reload") :
       actorQ[i].champion = champion /\ "actor" \in lifecycle
  /\ Queued(actorEvents, "reload") # {} => "actor" \in lifecycle

ArenaIsDue ==
  /\ \A i \in Queued(actorQ, "arena") :
       arenaWaiting /\ Having("pending") = {actorQ[i].attempt}
  /\ ~At("decided") => \A i \in Queued(actorEvents, "arena") :
       arenaWaiting /\ Having("pending") = {actorEvents[i].attempt}

\* The event the coordinator is handling.
EventIsAtHand ==
  /\ At("retire") => actorEvents # <<>> /\ Head(actorEvents).type = "shard"
  /\ At("decided") =>
       /\ actorEvents # <<>> /\ Head(actorEvents).type = "arena"
       /\ status[Head(actorEvents).attempt] \in {"accepted", "rejected"}
       /\ Head(actorEvents).attempt \in Saved

Duties ==
  /\ CommandsInOrder
  /\ EventsInOrder
  /\ BatchInOrder
  /\ GenerationIsDue
  /\ ReloadIsDue
  /\ ArenaIsDue
  /\ EventIsAtHand

-----------------------------------------------------------------------------
(* Shards.                                                                 *)

ActiveIsBacked ==
  /\ active \subseteq files
  /\ \A s \in active : s < nextShard

\* What the actor saved of a batch, and what it announced, is on disk.
BatchIsBacked ==
  /\ written # 0 => Queued(actorQ, "generate") # {}
  /\ Queued(actorQ, "generate") # {} =>
       \A k \in 0..(written - 1) : nextShard + k \in files
  /\ \A i \in Queued(actorEvents, "shard") : actorEvents[i].shard \in files
  /\ At("retire") => Head(actorEvents).shard \in active

\* The trainer is told of a shard before it is told to forget it, and a shard
\* it forgot is in nobody's hands.
Retired(s) == s \notin active /\ s < nextShard

RemovalIsLast ==
  /\ \A i \in Queued(trainerQ, "remove") :
       /\ Retired(trainerQ[i].shard)
       /\ \A j \in Queued(trainerQ, "add") :
            j > i => trainerQ[j].shard # trainerQ[i].shard
  /\ \A i \in Queued(trainerEvents, "remove") :
       /\ Retired(trainerEvents[i].shard)
       /\ trainerEvents[i].shard \notin trainer.pool
       /\ \A j \in Queued(trainerQ, "add") :
            trainerQ[j].shard # trainerEvents[i].shard

Files ==
  /\ ActiveIsBacked
  /\ BatchIsBacked
  /\ PoolIsReadable
  /\ RemovalIsLast

IInv ==
  /\ TypeOK
  /\ ChildrenSleep /\ ChildrenRun
  /\ Rows /\ Checkpoints
  /\ Trial
  /\ Duties
  /\ Files

-----------------------------------------------------------------------------
(* Queues.                                                                 *)

\* A queue without its head.
LEMMA TailOf ==
  ASSUME NEW S, NEW q \in Seq(S), q # <<>>
  PROVE  /\ Tail(q) \in Seq(S) /\ Head(q) = q[1] /\ q[1] \in S
         /\ 1 \in DOMAIN q
         /\ DOMAIN Tail(q) \subseteq Nat
         /\ \A i \in Nat : i \in DOMAIN Tail(q) <=> i # 0 /\ i + 1 \in DOMAIN q
         /\ \A i \in DOMAIN Tail(q) : Tail(q)[i] = q[i + 1]
         /\ Len(Tail(q)) = Len(q) - 1 /\ Len(q) \in Nat
  OBVIOUS

\* A queue with one more message.
LEMMA AppendOf ==
  ASSUME NEW S, NEW q \in Seq(S), NEW e \in S
  PROVE  /\ Append(q, e) \in Seq(S)
         /\ DOMAIN Append(q, e) = DOMAIN q \cup {Len(q) + 1}
         /\ Len(q) + 1 \notin DOMAIN q
         /\ \A i \in DOMAIN q : Append(q, e)[i] = q[i]
         /\ Append(q, e)[Len(q) + 1] = e
         /\ Len(Append(q, e)) = Len(q) + 1 /\ Len(q) \in Nat
  OBVIOUS

\* A queue of one message.
LEMMA OnlyOne ==
  ASSUME NEW S, NEW e \in S
  PROVE  /\ <<e>> \in Seq(S) /\ Len(<<e>>) = 1
         /\ DOMAIN <<e>> = {1} /\ <<e>>[1] = e
  OBVIOUS

\* One queue after another.
LEMMA ConcatOf ==
  ASSUME NEW S, NEW q \in Seq(S), NEW c \in Seq(S)
  PROVE  /\ q \o c \in Seq(S) /\ Len(q \o c) = Len(q) + Len(c)
         /\ DOMAIN q = 1..Len(q) /\ DOMAIN (q \o c) = 1..Len(q \o c)
         /\ Len(q) \in Nat /\ Len(c) \in Nat
         /\ \A i \in 1..Len(q) : (q \o c)[i] = q[i]
         /\ \A i \in (Len(q) + 1)..Len(q \o c) : (q \o c)[i] = c[i - Len(q)]
  OBVIOUS

\* Taking the head moves every message of a type up by one.
LEMMA QueuedTail ==
  ASSUME NEW S, NEW q \in Seq(S), q # <<>>, NEW t
  PROVE  Queued(Tail(q), t) = {i \in Nat \ {0} : i + 1 \in Queued(q, t)}
  BY TailOf DEF Queued

\* A message counts among those of its type, and of no other.
LEMMA QueuedAppend ==
  ASSUME NEW S, NEW q \in Seq(S), NEW e \in S, NEW t
  PROVE  /\ e.type = t => Queued(Append(q, e), t) = Queued(q, t) \cup {Len(q) + 1}
         /\ e.type # t => Queued(Append(q, e), t) = Queued(q, t)
  BY AppendOf DEF Queued

-----------------------------------------------------------------------------
(* Numbers.                                                                *)

\* The larger and the smaller of two numbers.
LEMMA MaxOfTwo ==
  ASSUME NEW m \in Int, NEW n \in Int
  PROVE  /\ Max({m, n}) \in {m, n} /\ Max({m, n}) >= m /\ Max({m, n}) >= n
         /\ Min({m, n}) \in {m, n}
<1>1. \E x \in {m, n} : \A y \in {m, n} : x >= y
  OBVIOUS
<1>2. \E x \in {m, n} : \A y \in {m, n} : x =< y
  OBVIOUS
<1> QED
  BY <1>1, <1>2 DEF Max, Min

\* What is cut off at zero is a natural number.
LEMMA AtLeastZero == ASSUME NEW n \in Int PROVE Max({0, n}) \in Nat
<1>1. Max({0, n}) \in {0, n} /\ Max({0, n}) >= 0
  BY MaxOfTwo
<1> QED
  BY <1>1

\* The trainer counts its steps modulo a positive number.
LEMMA StepsCycle == StepCycle \in Nat \ {0}
<1>1. ValidationSteps \in Nat \ {0} /\ ReportSteps \in Nat \ {0}
  BY LearnerAssumption, MaxOfTwo DEF ReportSteps
<1>2. ValidationSteps * ReportSteps \in Nat \ {0}
  BY <1>1
<1> QED
  BY <1>1, <1>2 DEF StepCycle

\* The least of one number.
LEMMA MinOfOne == ASSUME NEW n \in Int PROVE Min({n}) = n
  BY DEF Min

-----------------------------------------------------------------------------
(* Attempts.                                                               *)

\* The number the next candidate gets is the first without a row.
LEMMA NextAttemptIs ==
  ASSUME ManifestTypeOK, NEW n \in 0..(MaxAttempt + 1), IsNextRow(n)
  PROVE  NextAttempt = n
<1>1. {NoAttempt} \cup (Attempts \ Having("none")) = -1..(n - 1)
  BY ManifestAssumption DEF IsNextRow, Having, Attempts, NoAttempt
<1>2. Max(-1..(n - 1)) = n - 1
  <2>1. n - 1 \in -1..(n - 1) /\ \A y \in -1..(n - 1) : n - 1 >= y
    OBVIOUS
  <2> QED
    BY <2>1 DEF Max
<1>3. NextAttempt = 1 + Max(-1..(n - 1))
  BY <1>1, Zenon DEF NextAttempt
<1> QED
  BY <1>2, <1>3

\* A candidate on trial is the only one.
LEMMA PendingIsOne ==
  ASSUME LatestIsOnTrial, NEW n \in Having("pending")
  PROVE  Having("pending") = {n} /\ Min(Having("pending")) = n /\ n \in Attempts
<1>1. Having("pending") = {n}
  BY ManifestAssumption DEF LatestIsOnTrial, Having, Attempts
<1> QED
  BY <1>1, MinOfOne, ManifestAssumption DEF Having, Attempts

\* A checkpoint without a row is the only one, and the next attempt.
LEMMA OrphanIsOne ==
  ASSUME ManifestTypeOK, OrphanIsNext, NEW n \in Orphans
  PROVE  /\ Orphans = {n} /\ Min(Orphans) = n /\ n \in Attempts
         /\ NextAttempt = n /\ IsNextRow(n) /\ status[n] = "none"
<1>1. n \in Attempts /\ IsNextRow(n) /\ status[n] = "none"
  BY DEF OrphanIsNext, Orphans, Having
<1>2. Orphans = {n}
  BY <1>1, ManifestAssumption DEF OrphanIsNext, IsNextRow, Orphans, Having, Attempts
<1>3. NextAttempt = n
  BY <1>1, NextAttemptIs, ManifestAssumption DEF Attempts
<1> QED
  BY <1>1, <1>2, <1>3, MinOfOne, ManifestAssumption DEF Attempts

-----------------------------------------------------------------------------
(* What an action that leaves the variables of a part alone owes it: nothing.  *)

LEMMA RowsFrame ==
  ASSUME Rows, UNCHANGED <<status, weights, champion, acceptedCount, candidateFile>>
  PROVE  Rows'
BY DEF Rows, RowsAreContiguous, IsNextRow, RootIsFirst, LatestIsOnTrial,
       RowsAreBacked, PromotionsAreCounted, Having, Saved

LEMMA CheckpointsFrame ==
  ASSUME Checkpoints, UNCHANGED <<status, weights, champion, candidateFile>>,
         coordinator' \in {"register", "interrupted"} => coordinator' = coordinator,
         \/ coordinator' \in {"down", "starting", "register", "interrupted"}
         \/ coordinator \notin {"down", "starting", "register", "interrupted"}
         \/ Orphans = {}
  PROVE  Checkpoints'
BY DEF Checkpoints, OrphanIsNext, OrphanIsAlone, FileIsAlone, RowIsDue,
       IsNextRow, Orphans, Having, Saved

\* The place of the coordinator matters to the candidate only when it is
\* "decided" or "register".
LEMMA TrialFrame ==
  ASSUME Trial,
         UNCHANGED <<status, weights, champion, incumbent, trainerVars,
                     lifecycle, stopRequested, decisions>>,
         coordinator' \in Awake => coordinator \in Awake,
         coordinator' \in {"decided", "register"} => coordinator' = coordinator,
         coordinator = "decided" => coordinator' = coordinator
  PROVE  Trial'
BY DEF Trial, TrainerFollows, TrainerWaits, OneStage, OneMessage, VerdictIsBacked,
       OfferIsAtHand, StopFollowsVerdict, OnTrial, Told, Offered, Answered, At,
       Queued, Having, Saved, trainerVars

\* Nor to the actor, except when it is "decided" or "retire".
LEMMA DutiesFrame ==
  ASSUME Duties,
         UNCHANGED <<status, champion, nextShard, actorBusy, arenaWaiting, lifecycle,
                     actorQ, actorEvents>>,
         weights' = weights \/ coordinator # "decided",
         coordinator \in {"decided", "retire"} => coordinator' = coordinator,
         coordinator' \in {"decided", "retire"} => coordinator' = coordinator
  PROVE  Duties'
<1>1. CommandsInOrder' /\ EventsInOrder'
  BY DEF Duties, CommandsInOrder, EventsInOrder
<1>2. BatchInOrder'
  BY DEF Duties, BatchInOrder, At, Queued
<1>3. GenerationIsDue' /\ ReloadIsDue'
  BY DEF Duties, GenerationIsDue, ReloadIsDue, Queued
<1>4. ArenaIsDue' /\ EventIsAtHand'
  BY DEF Duties, ArenaIsDue, EventIsAtHand, At, Queued, Having, Saved
<1> QED
  BY <1>1, <1>2, <1>3, <1>4 DEF Duties

LEMMA FilesFrame ==
  ASSUME Files,
         UNCHANGED <<nextShard, active, files, trainer, trainerQ, trainerEvents,
                     actorQ, actorEvents, written>>,
         coordinator' = "retire" => coordinator = "retire"
  PROVE  Files'
BY DEF Files, ActiveIsBacked, BatchIsBacked, PoolIsReadable, RemovalIsLast,
       Retired, At, Queued

\* Where the children sleep there is nothing to say of them.
LEMMA Asleep ==
  ASSUME ChildrenSleep', coordinator' \notin Awake, ActiveIsBacked'
  PROVE  ChildrenRun' /\ Trial' /\ Duties' /\ Files'
<1>1. Trial'
  BY RunAssumption
     DEF ChildrenSleep, Awake, Trial, TrainerFollows, TrainerWaits, OneStage,
       OneMessage, VerdictIsBacked, OfferIsAtHand, StopFollowsVerdict, Told,
       Offered, Answered, At, Queued, NoTrainer
<1>2. Duties'
  BY DEF ChildrenSleep, Awake, Duties, CommandsInOrder, EventsInOrder, BatchInOrder,
       GenerationIsDue, ReloadIsDue, ArenaIsDue, EventIsAtHand, At, Queued
<1>3. Files'
  BY DEF ChildrenSleep, Awake, Files, BatchIsBacked, PoolIsReadable, RemovalIsLast,
       At, Queued, NoTrainer
<1> QED
  BY <1>1, <1>2, <1>3 DEF ChildrenRun

LEMMA ManifestTypeFrame ==
  ASSUME ManifestTypeOK, UNCHANGED manifestVars
  PROVE  ManifestTypeOK'
BY DEF ManifestTypeOK, manifestVars, attemptVars, shardVars

LEMMA LearnerTypeFrame ==
  ASSUME LearnerTypeOK, UNCHANGED trainerVars
  PROVE  LearnerTypeOK'
BY DEF LearnerTypeOK, trainerVars

LEMMA ActorTypeFrame ==
  ASSUME ActorTypeOK, UNCHANGED actorVars
  PROVE  ActorTypeOK'
BY DEF ActorTypeOK, actorVars

-----------------------------------------------------------------------------
(* The start of a run, and what the attempts go through.                   *)

\* The invariant holds before the first start.
LEMMA InitInv == Init => IInv
<1> SUFFICES ASSUME Init PROVE IInv
  OBVIOUS
<1>1. TypeOK
  <2>1. ManifestTypeOK
    BY ManifestAssumption
       DEF Init, ManifestInit, ManifestTypeOK, Attempts, Payloads
  <2>2. LearnerTypeOK
    BY StepsCycle DEF Init, LearnerInit, LearnerTypeOK, NoTrainer, NoLearner
  <2>3. ScheduleTypeOK
    <3>1. /\ actorBusy \in BOOLEAN /\ arenaWaiting \in BOOLEAN
          /\ pausedForDebt \in BOOLEAN /\ stopRequested \in BOOLEAN
      BY DEF Init
    <3> QED
      BY <3>1, RunAssumption DEF Init, ScheduleTypeOK, Places
  <2>4. ActorTypeOK
    BY RunAssumption DEF Init, ActorTypeOK
  <2> QED
    BY <2>1, <2>2, <2>3, <2>4 DEF TypeOK
<1>2. Rows
  <2>1. IsNextRow(0)
    BY ManifestAssumption DEF Init, ManifestInit, IsNextRow, Attempts
  <2>2. Cardinality(Having("accepted") \cup {0}) = 1
    <3>1. Having("accepted") \cup {0} = {0}
      BY DEF Init, ManifestInit, Having
    <3> QED
      BY <3>1, FS_Singleton
  <2> QED
    BY <2>1, <2>2, ManifestAssumption
       DEF Init, ManifestInit, LearnerInit, Rows, RowsAreContiguous, RootIsFirst,
         LatestIsOnTrial, RowsAreBacked, PromotionsAreCounted, Having, Saved,
         Attempts, NoAttempt
<1>3. Checkpoints
  BY DEF Init, ManifestInit, LearnerInit, Checkpoints, OrphanIsNext, OrphanIsAlone,
    FileIsAlone, RowIsDue, Orphans, Saved
<1>4. ChildrenSleep /\ ChildrenRun /\ Trial /\ Duties /\ Files
  BY RunAssumption
     DEF Init, ManifestInit, LearnerInit, ChildrenSleep, ChildrenRun, Awake,
       Trial, TrainerFollows, TrainerWaits, OneStage, OneMessage, VerdictIsBacked,
       OfferIsAtHand, StopFollowsVerdict, Told, Offered, Answered, At, Queued,
       NoTrainer, Duties, CommandsInOrder, EventsInOrder, BatchInOrder,
       GenerationIsDue, ReloadIsDue, ArenaIsDue, EventIsAtHand, Files,
       ActiveIsBacked, BatchIsBacked, PoolIsReadable, RemovalIsLast
<1> QED
  BY <1>1, <1>2, <1>3, <1>4 DEF IInv

\* A candidate's file becomes the checkpoint of the next attempt.
LEMMA CandidateMoves ==
  ASSUME TypeOK, Rows, Checkpoints, Orphans = {}, MoveCandidate, UNCHANGED shardVars,
         coordinator' \in {"down", "starting", "register", "interrupted"}
  PROVE  /\ ManifestTypeOK' /\ Rows' /\ Checkpoints'
         /\ candidateFile' = NoFile
<1>1. PICK n \in 0..(MaxAttempt + 1) : IsNextRow(n)
  BY DEF Rows, RowsAreContiguous
<1>2. NextAttempt = n /\ n \in Attempts
  BY <1>1, NextAttemptIs DEF MoveCandidate, TypeOK
<1>3. /\ weights' = [weights EXCEPT ![n] = candidateFile]
      /\ UNCHANGED <<status, submitted, champion, acceptedCount, incumbent>>
      /\ candidateFile # NoFile /\ candidateFile' = NoFile
  BY <1>2 DEF MoveCandidate, SaveAttempt
<1>4. /\ champion # NoAttempt /\ Having("pending") = {}
      /\ candidateFile.parent = champion
  BY <1>3 DEF Rows, RootIsFirst, Checkpoints, FileIsAlone
<1>5. ManifestTypeOK'
  BY <1>3 DEF TypeOK, ManifestTypeOK, LearnerTypeOK, shardVars
<1>6. Rows'
  <2>1. Saved' = Saved \cup {n}
    BY <1>2, <1>3 DEF Saved, TypeOK, ManifestTypeOK
  <2> QED
    BY <1>3, <1>4, <2>1
       DEF Rows, RowsAreContiguous, IsNextRow, RootIsFirst, LatestIsOnTrial,
         RowsAreBacked, PromotionsAreCounted, Having
<1>7. Orphans' = {n} /\ weights'[n] = candidateFile
  BY <1>1, <1>2, <1>3, ManifestAssumption
     DEF Orphans, Saved, Having, TypeOK, ManifestTypeOK, IsNextRow, Attempts
<1>8. Checkpoints'
  BY <1>1, <1>3, <1>4, <1>7
     DEF Checkpoints, OrphanIsNext, OrphanIsAlone, FileIsAlone, RowIsDue,
       IsNextRow, Having
<1> QED
  BY <1>3, <1>5, <1>6, <1>8

\* A checkpoint gets its row.
LEMMA RowIsAdded ==
  ASSUME TypeOK, Rows, Checkpoints, NEW n \in Orphans, champion # NoAttempt,
         AddInterrupted(n) \/ \E fresh \in Nat : AddPending(n, fresh),
         UNCHANGED <<shardVars, candidateFile>>,
         coordinator' \notin {"register", "interrupted"}
  PROVE  /\ ManifestTypeOK' /\ Rows' /\ Checkpoints'
         /\ Having("pending") = {}
         /\ AddInterrupted(n) => Having("pending")' = {}
         /\ ~AddInterrupted(n) => Having("pending")' = {n}
<1>1. /\ n \in Attempts /\ IsNextRow(n) /\ status[n] = "none" /\ Orphans = {n}
      /\ Having("pending") = {} /\ n \in Saved
  BY OrphanIsOne DEF TypeOK, Checkpoints, OrphanIsAlone, Orphans
<1>2. /\ UNCHANGED <<weights, champion, acceptedCount, incumbent, candidateFile>>
      /\ \/ AddInterrupted(n) /\ status' = [status EXCEPT ![n] = "interrupted"]
         \/ status' = [status EXCEPT ![n] = "pending"]
  BY DEF AddInterrupted, AddPending
<1>3. ManifestTypeOK'
  BY <1>1 DEF AddInterrupted, AddPending, TypeOK, ManifestTypeOK, shardVars
<1>4. /\ AddInterrupted(n) => Having("pending")' = {}
      /\ ~AddInterrupted(n) => Having("pending")' = {n}
  BY <1>1, <1>2 DEF Having, TypeOK, ManifestTypeOK, AddInterrupted
<1>5. Rows'
  <2>1. IsNextRow(n + 1)' /\ n + 1 \in 0..(MaxAttempt + 1)
    BY <1>1, <1>2, ManifestAssumption
       DEF IsNextRow, Attempts, TypeOK, ManifestTypeOK
  <2>2. Having("accepted")' = Having("accepted")
    BY <1>1, <1>2 DEF Having, TypeOK, ManifestTypeOK
  <2>3. RootIsFirst'
    <3>1. \A m \in Attempts : status[m] = "accepted" => status'[m] = "accepted"
      BY <1>1, <1>2 DEF TypeOK, ManifestTypeOK
    <3>2. 0 \in Attempts /\ champion \in Attempts
      BY ManifestAssumption DEF Attempts, TypeOK, ManifestTypeOK
    <3> QED
      BY <1>2, <3>1, <3>2 DEF Rows, RootIsFirst
  <2>6. PromotionsAreCounted'
    BY <1>2, <2>2 DEF Rows, PromotionsAreCounted
  <2>4. LatestIsOnTrial'
    BY <1>1, <1>2, <1>4, ManifestAssumption
       DEF LatestIsOnTrial, IsNextRow, TypeOK, ManifestTypeOK, Attempts
  <2>5. RowsAreBacked'
    BY <1>1, <1>2, <1>4, <2>2 DEF Rows, RowsAreBacked, Saved
  <2> QED
    BY <2>1, <2>3, <2>4, <2>5, <2>6 DEF Rows, RowsAreContiguous
<1>6. Orphans' = {}
  BY <1>1, <1>2 DEF Orphans, Having, Saved, TypeOK, ManifestTypeOK
<1>7. Checkpoints'
  BY <1>1, <1>2, <1>6
     DEF Checkpoints, OrphanIsNext, OrphanIsAlone, FileIsAlone, RowIsDue
<1> QED
  BY <1>1, <1>3, <1>4, <1>5, <1>7

-----------------------------------------------------------------------------
(* The coordinator starts.                                                 *)

\* A start brings nothing but the coordinator.
LEMMA StartInv == ASSUME IInv, Start PROVE IInv'
<1>1. /\ UNCHANGED <<manifestVars, trainerVars, actorVars, schedule>>
      /\ coordinator = "down" /\ coordinator' = "starting"
  BY DEF Start, At, Goto
<1>2. TypeOK'
  <2>1. ScheduleTypeOK'
    BY <1>1, RunAssumption
       DEF Start, IInv, TypeOK, ScheduleTypeOK, Places, schedule
  <2> QED
    BY <1>1, <2>1, ManifestTypeFrame, LearnerTypeFrame, ActorTypeFrame DEF IInv, TypeOK
<1>3. Rows' /\ Checkpoints' /\ ActiveIsBacked'
  BY <1>1, RowsFrame, CheckpointsFrame
     DEF IInv, Files, ActiveIsBacked, manifestVars, attemptVars, shardVars, trainerVars
<1>4. ChildrenSleep' /\ coordinator' \notin Awake
  BY <1>1 DEF IInv, ChildrenSleep, Awake, trainerVars, actorVars, schedule
<1> QED
  BY <1>2, <1>3, <1>4, Asleep DEF IInv

\* What the coordinator repairs at its start and its end leaves the children,
\* the schedule and the shards alone.
LEMMA Repairs ==
  ASSUME IInv, coordinator \notin Awake, coordinator' \in Places \ Awake,
         UNCHANGED <<shardVars, trainer, trainerQ, trainerEvents, learnerFile,
                     schedule, actorVars, invocations>>,
         candidateFile' \in Payloads \cup {NoFile},
         ManifestTypeOK', Rows', Checkpoints'
  PROVE  IInv'
<1>1. LearnerTypeOK' /\ ScheduleTypeOK'
  BY DEF IInv, TypeOK, LearnerTypeOK, ScheduleTypeOK, schedule
<1>2. TypeOK'
  BY <1>1, ActorTypeFrame DEF IInv, TypeOK
<1>3. ChildrenSleep' /\ ActiveIsBacked'
  BY DEF IInv, ChildrenSleep, Files, ActiveIsBacked, shardVars, actorVars, schedule
<1> QED
  BY <1>2, <1>3, Asleep DEF IInv

\* The first model is saved, then crowned.
LEMMA InitializeRootInv == ASSUME IInv, InitializeRoot PROVE IInv'
<1>1. /\ champion = NoAttempt /\ 0 \in Attempts
      /\ \A m \in Attempts : status[m] = "none"
      /\ acceptedCount = 0 /\ candidateFile = NoFile
      /\ UNCHANGED <<shardVars, trainerVars, coordinator, schedule, actorVars,
                     invocations>>
      /\ coordinator = "starting"
  BY ManifestAssumption DEF InitializeRoot, IInv, Rows, RootIsFirst, Attempts, At
<1>2. Orphans \subseteq {0}
  BY <1>1, ManifestAssumption
     DEF IInv, Checkpoints, OrphanIsNext, IsNextRow, Orphans, Having, Attempts
<1>3. CASE 0 \in Saved
  <2>1. /\ status' = [status EXCEPT ![0] = "accepted"] /\ champion' = 0
        /\ UNCHANGED <<submitted, weights, acceptedCount, incumbent>>
    BY <1>1, <1>3 DEF InitializeRoot, AddRoot
  <2>2. ManifestTypeOK'
    BY <1>1, <2>1 DEF IInv, TypeOK, ManifestTypeOK, shardVars
  <2>3. Having("accepted")' = {0} /\ Having("pending")' = {}
    BY <1>1, <2>1 DEF Having, IInv, TypeOK, ManifestTypeOK
  <2>4. Rows'
    <3>1. IsNextRow(1)' /\ 1 \in 0..(MaxAttempt + 1)
      BY <1>1, <2>1, ManifestAssumption
         DEF IsNextRow, Attempts, IInv, TypeOK, ManifestTypeOK
    <3>2. PromotionsAreCounted'
      <4>1. Having("accepted")' \cup {0} = {0}
        BY <2>3
      <4> QED
        BY <1>1, <2>1, <4>1, FS_Singleton DEF PromotionsAreCounted
    <3>3. RootIsFirst' /\ LatestIsOnTrial' /\ RowsAreBacked'
      BY <1>1, <1>3, <2>1, <2>3
         DEF RootIsFirst, LatestIsOnTrial, RowsAreBacked, Saved, NoAttempt,
           IInv, TypeOK, ManifestTypeOK
    <3> QED
      BY <3>1, <3>2, <3>3 DEF Rows, RowsAreContiguous
  <2>5. Orphans' = {}
    BY <1>1, <1>2, <2>1 DEF Orphans, Having, Saved, IInv, TypeOK, ManifestTypeOK
  <2>6. Checkpoints'
    BY <1>1, <2>5
       DEF Checkpoints, OrphanIsNext, OrphanIsAlone, FileIsAlone, RowIsDue, trainerVars
  <2> QED
    BY <1>1, <2>2, <2>4, <2>6, Repairs
       DEF IInv, TypeOK, LearnerTypeOK, Places, Awake, trainerVars
<1>4. CASE 0 \notin Saved
  <2>1. /\ weights' = [weights EXCEPT ![0] = [parent |-> 0, fresh |-> 0]]
        /\ UNCHANGED <<status, submitted, champion, acceptedCount, incumbent>>
    BY <1>1, <1>4 DEF InitializeRoot, SaveRoot
  <2>2. ManifestTypeOK'
    BY <1>1, <2>1 DEF IInv, TypeOK, ManifestTypeOK, shardVars, Payloads
  <2>3. Rows'
    <3>1. Having("accepted") = {} /\ Having("pending") = {}
      BY <1>1 DEF Having
    <3> QED
      BY <1>1, <2>1, <3>1
         DEF IInv, Rows, RowsAreContiguous, IsNextRow, RootIsFirst, LatestIsOnTrial,
           RowsAreBacked, PromotionsAreCounted, Having, trainerVars
  <2>4. Orphans' \subseteq {0}
    BY <1>1, <1>2, <2>1 DEF Orphans, Having, Saved, IInv, TypeOK, ManifestTypeOK
  <2>5. Checkpoints'
    BY <1>1, <2>1, <2>4, ManifestAssumption
       DEF Checkpoints, OrphanIsNext, OrphanIsAlone, FileIsAlone, RowIsDue, IsNextRow,
         Attempts, trainerVars
  <2> QED
    BY <1>1, <2>2, <2>3, <2>5, Repairs
       DEF IInv, TypeOK, LearnerTypeOK, Places, Awake, trainerVars
<1> QED
  BY <1>3, <1>4

\* A checkpoint that a crash left without a row gets one.
LEMMA RecoverOrphanInv == ASSUME IInv, RecoverOrphan PROVE IInv'
<1>1. PICK n : n \in Orphans /\ n = Min(Orphans)
  BY OrphanIsOne DEF RecoverOrphan, IInv, TypeOK, Checkpoints
<1>2. /\ champion # NoAttempt /\ RecoverRow(n)
      /\ UNCHANGED <<shardVars, trainerVars, coordinator, schedule, actorVars,
                     invocations>>
      /\ coordinator = "starting"
  BY <1>1 DEF RecoverOrphan, At
<1>3. n \in Attempts /\ weights[n].fresh \in Nat
  BY <1>1 DEF Orphans, Saved, IInv, TypeOK, ManifestTypeOK, Payloads
<1>4. AddInterrupted(n) \/ \E fresh \in Nat : AddPending(n, fresh)
  BY <1>2, <1>3 DEF RecoverRow
<1>5. ManifestTypeOK' /\ Rows' /\ Checkpoints'
  BY <1>1, <1>2, <1>4, RowIsAdded DEF IInv, trainerVars
<1> QED
  BY <1>2, <1>5, Repairs
     DEF IInv, TypeOK, LearnerTypeOK, Places, Awake, trainerVars

\* A candidate that a crash left in its file is moved to its attempt.
LEMMA RecoverCandidateInv == ASSUME IInv, RecoverCandidate PROVE IInv'
<1>1. /\ MoveCandidate /\ Orphans = {} /\ coordinator = "starting"
      /\ UNCHANGED <<shardVars, trainer, trainerQ, trainerEvents, learnerFile,
                     coordinator, schedule, actorVars, invocations>>
  BY DEF RecoverCandidate, At
<1>2. ManifestTypeOK' /\ Rows' /\ Checkpoints' /\ candidateFile' = NoFile
  BY <1>1, CandidateMoves DEF IInv
<1> QED
  BY <1>1, <1>2, Repairs DEF IInv, Places, Awake

-----------------------------------------------------------------------------
(* The children start.                                                     *)

\* There are finitely many active shards.
LEMMA ShardsAreFinite ==
  ASSUME ManifestTypeOK
  PROVE  /\ IsFiniteSet(active) /\ Cardinality(active) \in Nat
         /\ Cardinality(active) * ShardBudget \in Nat
<1>1. IsFiniteSet(Shards)
  BY ManifestAssumption, FS_Interval DEF Shards
<1>2. IsFiniteSet(active) /\ Cardinality(active) \in Nat
  BY <1>1, FS_Subset, FS_CardinalityType DEF ManifestTypeOK
<1> QED
  BY <1>2, LearnerAssumption

\* The trainer starts under the champion, with the active shards.
LEMMA StartedIs ==
  ASSUME TypeOK, champion # NoAttempt, NEW p \in BOOLEAN
  PROVE  LET t == Started(champion, active, p)
         IN /\ t \in [on : BOOLEAN, pending : BOOLEAN, fresh : Nat, budget : Nat,
                      steps : 0..(StepCycle - 1), champion : Attempts \cup {NoAttempt},
                      pool : SUBSET Shards, best : Payloads \cup {NoFile}]
            /\ t.on /\ t.pending = p /\ t.champion = champion
            /\ t.pool = active /\ t.best = NoFile
<1> DEFINE t0 == FromShards(champion, active, p)
<1>1. /\ t0 \in [on : BOOLEAN, pending : BOOLEAN, fresh : Nat, budget : Nat,
                 steps : 0..(StepCycle - 1), champion : Attempts \cup {NoAttempt},
                 pool : SUBSET Shards, best : Payloads \cup {NoFile}]
      /\ t0.on /\ t0.pending = p /\ t0.champion = champion
      /\ t0.pool = active /\ t0.best = NoFile
  <2>1. /\ Cardinality(active) \in Nat /\ Cardinality(active) * ShardBudget \in Nat
        /\ 0 \in 0..(StepCycle - 1) /\ active \in SUBSET Shards
        /\ champion \in Attempts \cup {NoAttempt}
    BY ShardsAreFinite, StepsCycle DEF TypeOK, ManifestTypeOK
  <2> QED
    BY <2>1 DEF FromShards
<1>2. CASE learnerFile.champion # champion
  BY <1>1, <1>2 DEF Started
<1>3. CASE learnerFile.champion = champion
  <2>1. Started(champion, active, p) =
          [t0 EXCEPT !.fresh = learnerFile.fresh, !.budget = learnerFile.budget,
                     !.steps = learnerFile.steps]
    BY <1>3 DEF Started
  <2>2. /\ learnerFile.fresh \in Nat /\ learnerFile.budget \in Nat
        /\ learnerFile.steps \in 0..(StepCycle - 1)
    BY DEF TypeOK, LearnerTypeOK
  <2> HIDE DEF t0
  <2> QED
    BY <1>1, <2>1, <2>2
<1> QED
  BY <1>2, <1>3

\* The children start, with the arena a crash interrupted or a new batch.
LEMMA LaunchInv == ASSUME IInv, Launch PROVE IInv'
<1> DEFINE pending == Having("pending")
<1> DEFINE t == Started(champion, active, pending # {})
<1>1. /\ coordinator = "starting" /\ coordinator' = "loop" /\ champion # NoAttempt
      /\ Orphans = {} /\ candidateFile = NoFile
      /\ trainer' = t /\ trainerEvents' = <<Progress(t)>>
      /\ actorBusy' = TRUE
      /\ UNCHANGED <<manifestVars, learnerFile, candidateFile, pausedForDebt,
                     trainerBudget, trainerFresh, stopRequested, lifecycle,
                     decisions, deletions, actorEvents, written, invocations>>
  BY DEF Launch, At, Goto
<1>2. /\ arenaWaiting' = (pending # {})
      /\ pending # {} => /\ trainerQ' = <<[type |-> "pending"]>>
                         /\ actorQ' = <<Arena(Min(pending))>>
      /\ pending = {} => trainerQ' = <<>> /\ actorQ' = <<Generate>>
  BY DEF Launch
<1>3. /\ actorEvents = <<>> /\ written = 0 /\ lifecycle = {} /\ ~stopRequested
      /\ decisions = 0 /\ coordinator \notin Awake
  BY <1>1 DEF IInv, ChildrenSleep, Awake
<1>4. pending # {} => /\ pending = {Min(pending)}
                      /\ Min(pending) \in Attempts
  BY PendingIsOne DEF IInv, Rows
<1>5. /\ t \in [on : BOOLEAN, pending : BOOLEAN, fresh : Nat, budget : Nat,
                steps : 0..(StepCycle - 1), champion : Attempts \cup {NoAttempt},
                pool : SUBSET Shards, best : Payloads \cup {NoFile}]
      /\ t.on /\ t.pending = (pending # {}) /\ t.champion = champion
      /\ t.pool = active /\ t.best = NoFile
  BY <1>1, StartedIs DEF IInv
<1>6. Progress(t) \in TrainerMessages /\ Progress(t).type = "progress"
  BY <1>5 DEF Progress, TrainerMessages
<1> HIDE DEF t, pending
<1>7. /\ \A i \in DOMAIN trainerQ' : trainerQ'[i].type = "pending"
      /\ \A i \in DOMAIN trainerEvents' : trainerEvents'[i].type = "progress"
      /\ trainerQ' \in Seq(TrainerCommands) /\ trainerEvents' \in Seq(TrainerMessages)
  <2>1. [type |-> "pending"] \in TrainerCommands
    BY DEF TrainerCommands
  <2>2. CASE pending # {}
    <3>1. PICK e : e \in TrainerCommands /\ e.type = "pending" /\ trainerQ' = <<e>>
      BY <1>2, <2>1, <2>2
    <3> QED
      BY <1>1, <1>6, <3>1, OnlyOne
  <2>3. CASE pending = {}
    BY <1>1, <1>2, <1>6, <2>3, OnlyOne
  <2> QED
    BY <2>2, <2>3
<1>8. \A type \in {"decision", "add", "remove"} : Queued(trainerQ', type) = {}
  BY <1>7 DEF Queued
<1>9. \A type \in {"candidate", "applied", "remove"} : Queued(trainerEvents', type) = {}
  BY <1>7 DEF Queued
<1>10. TypeOK'
  <2>1. LearnerTypeOK'
    BY <1>1, <1>5, <1>7 DEF IInv, TypeOK, LearnerTypeOK
  <2>2. ScheduleTypeOK'
    BY <1>1, <1>2 DEF IInv, TypeOK, ScheduleTypeOK, Places
  <2>3. ActorTypeOK'
    <3>1. pending # {} => Arena(Min(pending)) \in ActorCommands
      BY <1>4 DEF Arena, ActorCommands
    <3>2. Generate \in ActorCommands
      BY <1>1 DEF Generate, ActorCommands, IInv, TypeOK, ManifestTypeOK
    <3>3. actorQ' \in Seq(ActorCommands)
      <4>1. CASE pending # {}
        BY <1>2, <3>1, <4>1, OnlyOne
      <4>2. CASE pending = {}
        BY <1>2, <3>2, <4>2, OnlyOne
      <4> QED
        BY <4>1, <4>2
    <3> QED
      BY <1>1, <3>3 DEF IInv, TypeOK, ActorTypeOK
  <2> QED
    BY <1>1, <2>1, <2>2, <2>3, ManifestTypeFrame DEF IInv, TypeOK
<1>11. ChildrenSleep' /\ ChildrenRun'
  BY <1>1, <1>5 DEF ChildrenSleep, ChildrenRun, Awake, manifestVars, attemptVars
<1>12. Rows' /\ Checkpoints'
  BY <1>1, RowsFrame, CheckpointsFrame DEF IInv, manifestVars, attemptVars
<1>13. Trial'
  <2>1. /\ ~Told' /\ ~Offered' /\ ~Answered' /\ ~At("decided")' /\ ~At("register")'
        /\ OnTrial' = (pending # {}) /\ champion' = champion
    BY <1>1, <1>8, <1>9
       DEF pending, Told, Offered, Answered, At, OnTrial, Having, manifestVars, attemptVars
  <2>2. TrainerFollows' /\ TrainerWaits' /\ OneStage'
    BY <1>1, <1>5, <2>1 DEF TrainerFollows, TrainerWaits, OneStage
  <2>3. OneMessage' /\ VerdictIsBacked' /\ OfferIsAtHand'
    BY <1>8, <1>9, <2>1 DEF OneMessage, VerdictIsBacked, OfferIsAtHand
  <2>4. StopFollowsVerdict'
    BY <1>1, <1>3, RunAssumption DEF StopFollowsVerdict
  <2> QED
    BY <2>2, <2>3, <2>4 DEF Trial
<1>14. Duties'
  <2>1. /\ DOMAIN actorQ' = {1} /\ Len(actorQ') = 1
        /\ pending # {} => actorQ'[1] = Arena(Min(pending))
        /\ pending = {} => actorQ'[1] = Generate
    BY <1>2
  <2>2. /\ pending # {} => actorQ'[1].type = "arena" /\ actorQ'[1].attempt = Min(pending)
        /\ pending = {} => /\ actorQ'[1].type = "generate" /\ actorQ'[1].first = nextShard
                           /\ actorQ'[1].champion = champion
    BY <2>1 DEF Arena, Generate
  <2>3. /\ UNCHANGED <<status, champion, nextShard>> /\ actorEvents' = <<>>
        /\ lifecycle' = {} /\ coordinator' = "loop" /\ Having("pending")' = pending
    BY <1>1, <1>3 DEF pending, Having, manifestVars, attemptVars, shardVars
  <2>4. CommandsInOrder' /\ EventsInOrder' /\ BatchInOrder'
    BY <1>1, <2>1, <2>2, <2>3 DEF CommandsInOrder, EventsInOrder, BatchInOrder, Queued
  <2>5. GenerationIsDue' /\ ReloadIsDue'
    BY <2>1, <2>2, <2>3 DEF GenerationIsDue, ReloadIsDue, Queued
  <2>6. ArenaIsDue' /\ EventIsAtHand'
    <3>1. \A i \in Queued(actorQ', "arena") :
            arenaWaiting' /\ pending = {actorQ'[i].attempt}
      BY <1>2, <1>4, <2>1, <2>2 DEF Queued
    <3> QED
      BY <2>3, <3>1 DEF ArenaIsDue, EventIsAtHand, Queued, At
  <2> QED
    BY <2>4, <2>5, <2>6 DEF Duties
<1>15. Files'
  <2>1. ActiveIsBacked' /\ BatchIsBacked'
    BY <1>1, <1>3
       DEF IInv, Files, ActiveIsBacked, BatchIsBacked, Queued, At, manifestVars, shardVars
  <2>2. PoolIsReadable' /\ RemovalIsLast'
    BY <1>1, <1>5, <1>8, <1>9
       DEF IInv, Files, ActiveIsBacked, PoolIsReadable, RemovalIsLast, manifestVars,
         shardVars
  <2> QED
    BY <2>1, <2>2 DEF Files
<1> QED
  BY <1>10, <1>11, <1>12, <1>13, <1>14, <1>15 DEF IInv

-----------------------------------------------------------------------------
(* An invocation ends.                                                     *)

\* The same at the end of an invocation,
LEMMA CloseCandidateInv == ASSUME IInv, CloseCandidate PROVE IInv'
<1>1. /\ MoveCandidate /\ coordinator = "closing" /\ coordinator' = "interrupted"
      /\ UNCHANGED <<shardVars, trainer, trainerQ, trainerEvents, learnerFile,
                     schedule, actorVars, invocations>>
  BY DEF CloseCandidate, At, Goto
<1>2. Orphans = {}
  BY <1>1 DEF IInv, Checkpoints, OrphanIsAlone, Rows, RootIsFirst, MoveCandidate
<1>3. ManifestTypeOK' /\ Rows' /\ Checkpoints' /\ candidateFile' = NoFile
  BY <1>1, <1>2, CandidateMoves DEF IInv
<1> QED
  BY <1>1, <1>3, Repairs DEF IInv, Places, Awake

\* where it is put on record as interrupted,
LEMMA CloseRowInv == ASSUME IInv, CloseRow PROVE IInv'
<1>1. /\ coordinator = "interrupted" /\ coordinator' = "down"
      /\ AddInterrupted(NextAttempt)
      /\ UNCHANGED <<shardVars, trainerVars, schedule, actorVars, invocations>>
  BY DEF CloseRow, At, Goto
<1>2. champion # NoAttempt /\ NextAttempt \in Orphans
  BY <1>1, OrphanIsOne DEF IInv, TypeOK, Checkpoints, RowIsDue
<1>3. ManifestTypeOK' /\ Rows' /\ Checkpoints'
  BY <1>1, <1>2, RowIsAdded DEF IInv, trainerVars
<1> QED
  BY <1>1, <1>3, Repairs
     DEF IInv, TypeOK, LearnerTypeOK, Places, Awake, trainerVars

\* if there is one.
LEMMA CloseInv == ASSUME IInv, Close PROVE IInv'
<1>1. /\ coordinator = "closing" /\ coordinator' = "down"
      /\ UNCHANGED <<manifestVars, trainerVars, schedule, actorVars, invocations>>
  BY DEF Close, At, Goto
<1>2. ManifestTypeOK' /\ Rows' /\ Checkpoints'
  BY <1>1, ManifestTypeFrame, RowsFrame, CheckpointsFrame
     DEF IInv, TypeOK, manifestVars, attemptVars, trainerVars
<1> QED
  BY <1>1, <1>2, Repairs
     DEF IInv, TypeOK, LearnerTypeOK, Places, Awake, trainerVars, manifestVars

\* The children are gone, in order or not.
LEMMA ChildrenEnd ==
  ASSUME IInv, ProcessesGone, coordinator' \in {"down", "closing"},
         coordinator' = "closing" => coordinator = "loop",
         learnerFile' = learnerFile \/ (trainer.on /\ learnerFile' = Checkpoint(trainer)),
         UNCHANGED <<manifestVars, candidateFile, invocations>>
  PROVE  IInv'
<1>1. TypeOK'
  <2>1. LearnerTypeOK'
    BY StepsCycle
       DEF IInv, TypeOK, LearnerTypeOK, ProcessesGone, NoTrainer, Checkpoint
  <2>2. ScheduleTypeOK'
    <3>1. /\ actorBusy' \in BOOLEAN /\ arenaWaiting' \in BOOLEAN
          /\ pausedForDebt' \in BOOLEAN /\ stopRequested' \in BOOLEAN
      BY DEF ProcessesGone, ScheduleReset
    <3> QED
      BY <3>1, RunAssumption
         DEF IInv, TypeOK, ScheduleTypeOK, Places, ProcessesGone, ScheduleReset
  <2>3. ActorTypeOK'
    BY RunAssumption DEF ActorTypeOK, ProcessesGone
  <2> QED
    BY <2>1, <2>2, <2>3, ManifestTypeFrame DEF IInv, TypeOK
<1>2. Rows' /\ Checkpoints' /\ ActiveIsBacked'
  BY RowsFrame, CheckpointsFrame
     DEF IInv, Files, ActiveIsBacked, manifestVars, attemptVars, shardVars
<1>3. ChildrenSleep' /\ coordinator' \notin Awake
  BY DEF ChildrenSleep, ProcessesGone, ScheduleReset, Awake
<1> QED
  BY <1>1, <1>2, <1>3, Asleep DEF IInv

\* The children are stopped by the coordinator,
LEMMA StopChildrenInv ==
  ASSUME IInv, coordinator = "loop", StopChildren
  PROVE  IInv'
<1>1. trainer.on
  BY DEF IInv, ChildrenRun, Awake
<1> QED
  BY <1>1, ChildrenEnd DEF StopChildren, Goto, Awake

\* or die with it.
LEMMA CrashInv == ASSUME IInv, Crash PROVE IInv'
BY ChildrenEnd DEF Crash, Goto

-----------------------------------------------------------------------------
(* The actor works.                                                        *)

\* What the actor does leaves the trainer and the manifest's rows alone.
LEMMA ActorWorks ==
  ASSUME IInv, actorQ # <<>>,
         UNCHANGED <<attemptVars, nextShard, active, trainerVars, coordinator,
                     schedule, invocations>>,
         files' \in SUBSET Shards, ActorTypeOK', Duties', Files'
  PROVE  IInv'
<1>1. coordinator \in Awake /\ coordinator' = coordinator
  BY DEF IInv, ChildrenSleep
<1>2. TypeOK'
  <2>1. ManifestTypeOK' /\ ScheduleTypeOK'
    BY DEF IInv, TypeOK, ManifestTypeOK, ScheduleTypeOK, attemptVars, schedule
  <2> QED
    BY <2>1, LearnerTypeFrame DEF IInv, TypeOK
<1>3. ChildrenSleep' /\ ChildrenRun'
  BY <1>1 DEF IInv, ChildrenSleep, ChildrenRun, attemptVars, trainerVars
<1>4. Rows' /\ Checkpoints' /\ Trial'
  BY RowsFrame, CheckpointsFrame, TrialFrame
     DEF IInv, attemptVars, trainerVars, schedule
<1> QED
  BY <1>2, <1>3, <1>4 DEF IInv

\* A shard of the batch at hand is saved.
LEMMA ActorSavesShardInv ==
  ASSUME IInv, ActorSavesShard,
         UNCHANGED <<trainerVars, coordinator, schedule, invocations>>
  PROVE  IInv'
<1>1. /\ actorQ # <<>> /\ 1 \in Queued(actorQ, "generate")
      /\ Head(actorQ) = actorQ[1] /\ actorQ[1].first = nextShard
  BY TailOf DEF ActorSavesShard, ActorCommand, Queued, IInv, TypeOK, ActorTypeOK,
    Duties, GenerationIsDue
<1>2. /\ written < ShardsPerBatch /\ written' = written + 1
      /\ nextShard + written \in Shards /\ files' = files \cup {nextShard + written}
      /\ UNCHANGED <<attemptVars, nextShard, active, actorQ, actorEvents>>
  BY <1>1 DEF ActorSavesShard
<1>3. files' \in SUBSET Shards /\ ActorTypeOK'
  BY <1>2, RunAssumption DEF IInv, TypeOK, ManifestTypeOK, ActorTypeOK
<1>4. Duties'
  BY <1>2, DutiesFrame DEF IInv, attemptVars, schedule
<1>5. Files'
  <2>1. BatchIsBacked'
    <3>1. \A k \in 0..written : nextShard + k \in files'
      <4>1. \A k \in 0..(written - 1) : nextShard + k \in files
        BY <1>1 DEF IInv, Files, BatchIsBacked
      <4>2. nextShard + written \in files' /\ files \subseteq files'
        BY <1>2
      <4> QED
        BY <4>1, <4>2 DEF IInv, TypeOK, ActorTypeOK
    <3>2. written' - 1 = written
      BY <1>2 DEF IInv, TypeOK, ActorTypeOK
    <3> QED
      BY <1>1, <1>2, <3>1, <3>2 DEF IInv, Files, BatchIsBacked, Queued, At
  <2>2. ActiveIsBacked' /\ PoolIsReadable' /\ RemovalIsLast'
    BY <1>2 DEF IInv, Files, ActiveIsBacked, PoolIsReadable, RemovalIsLast, Retired,
      Queued, trainerVars
  <2> QED
    BY <2>1, <2>2 DEF Files
<1> QED
  BY <1>1, <1>2, <1>3, <1>4, <1>5, ActorWorks

\* The messages that announce a batch.
LEMMA ShardMessage ==
  ASSUME NEW s \in Shards, NEW b \in BOOLEAN
  PROVE  [type |-> "shard", shard |-> s, final |-> b] \in ActorMessages
BY DEF ActorMessages

\* A saved batch is announced, shard by shard, and its last one marked.
LEMMA ActorAnnouncesInv ==
  ASSUME IInv, ActorAnnounces,
         UNCHANGED <<trainerVars, coordinator, schedule, invocations>>
  PROVE  IInv'
<1>1. /\ actorQ # <<>> /\ 1 \in Queued(actorQ, "generate")
      /\ Head(actorQ) = actorQ[1] /\ actorQ[1].first = nextShard
      /\ actorEvents = <<>> /\ actorQ \in Seq(ActorCommands)
  BY TailOf DEF ActorAnnounces, ActorCommand, Queued, IInv, TypeOK, ActorTypeOK,
    Duties, GenerationIsDue, CommandsInOrder
<1>2. /\ written = ShardsPerBatch /\ written' = 0
      /\ actorQ' = Tail(actorQ) /\ actorEvents' = Announcements(nextShard)
      /\ UNCHANGED <<status, submitted, weights, champion, acceptedCount, incumbent,
                     nextShard, active, files>>
  BY <1>1, RunAssumption
     DEF ActorAnnounces, Announcements, manifestVars, attemptVars, shardVars
<1>3. \A k \in 0..(ShardsPerBatch - 1) : nextShard + k \in files
  BY <1>1, <1>2 DEF IInv, Files, BatchIsBacked
<1>4. /\ DOMAIN actorEvents' = 1..ShardsPerBatch
      /\ Len(actorEvents') = ShardsPerBatch
      /\ \A i \in 1..ShardsPerBatch :
           actorEvents'[i] = [type |-> "shard", shard |-> nextShard + i - 1,
                              final |-> i = ShardsPerBatch]
      /\ Queued(actorEvents', "shard") = 1..ShardsPerBatch
  BY <1>2, RunAssumption DEF Announcements, Queued
<1>5. \A i \in 1..ShardsPerBatch : actorEvents'[i].shard \in files
  <2> TAKE i \in 1..ShardsPerBatch
  <2>1. i - 1 \in 0..(ShardsPerBatch - 1) /\ nextShard + (i - 1) = nextShard + i - 1
    BY RunAssumption DEF IInv, TypeOK, ManifestTypeOK
  <2>2. nextShard + i - 1 \in files
    BY <1>3, <2>1
  <2> QED
    BY <1>4, <2>2
<1>6. ActorTypeOK'
  <2>1. \A i \in 1..ShardsPerBatch : actorEvents'[i] \in ActorMessages
    <3> TAKE i \in 1..ShardsPerBatch
    <3>1. nextShard + i - 1 \in Shards /\ (i = ShardsPerBatch) \in BOOLEAN
      BY <1>4, <1>5 DEF IInv, TypeOK, ManifestTypeOK
    <3>2. [type |-> "shard", shard |-> nextShard + i - 1, final |-> i = ShardsPerBatch]
            \in ActorMessages
      BY <3>1, ShardMessage
    <3> QED
      BY <1>4, <3>2
  <2>2. actorEvents' \in Seq(ActorMessages)
    BY <1>2, <2>1, RunAssumption DEF Announcements
  <2> QED
    BY <1>1, <1>2, <2>2, TailOf, RunAssumption DEF ActorTypeOK
<1>7. ~At("retire") /\ ~At("decided") /\ actorBusy
  BY <1>1 DEF IInv, Duties, EventIsAtHand, BatchInOrder
<1>8. /\ DOMAIN actorQ' \subseteq Nat \ {0}
      /\ \A i \in DOMAIN actorQ' : /\ actorQ'[i] = actorQ[i + 1]
                                   /\ i + 1 \in DOMAIN actorQ
                                   /\ actorQ'[i].type = "arena"
      /\ Len(actorQ') = Len(actorQ) - 1
  BY <1>1, <1>2, TailOf DEF IInv, Duties, CommandsInOrder
<1>9. Duties'
  <2>1. CommandsInOrder' /\ EventsInOrder'
    BY <1>1, <1>4, <1>8 DEF IInv, Duties, CommandsInOrder, EventsInOrder
  <2>2. BatchInOrder'
    <3>1. \A i \in 1..ShardsPerBatch :
            actorEvents'[i].final => i + 1 \notin 1..ShardsPerBatch
      <4> TAKE i \in 1..ShardsPerBatch
      <4>1. actorEvents'[i].final = (i = ShardsPerBatch)
        BY <1>4
      <4>2. (i = ShardsPerBatch) => i + 1 \notin 1..ShardsPerBatch
        BY RunAssumption
      <4> QED
        BY <4>1, <4>2, Zenon
    <3>2. \A i \in 1..ShardsPerBatch : actorEvents'[i].shard = nextShard + i - 1
      BY <1>4
    <3> QED
      BY <1>2, <1>4, <1>7, <3>1, <3>2 DEF BatchInOrder, At, schedule
  <2>3. GenerationIsDue' /\ ReloadIsDue'
    BY <1>4, <1>8 DEF GenerationIsDue, ReloadIsDue, Queued
  <2>4. ArenaIsDue' /\ EventIsAtHand'
    BY <1>2, <1>4, <1>7, <1>8
       DEF IInv, Duties, ArenaIsDue, EventIsAtHand, Queued, Having, At, schedule
  <2> QED
    BY <2>1, <2>2, <2>3, <2>4 DEF Duties
<1>10. Files'
  <2>1. BatchIsBacked'
    BY <1>2, <1>4, <1>5, <1>7, <1>8 DEF BatchIsBacked, Queued, At
  <2>2. ActiveIsBacked' /\ PoolIsReadable' /\ RemovalIsLast'
    BY <1>2 DEF IInv, Files, ActiveIsBacked, PoolIsReadable, RemovalIsLast, Retired,
      Queued, trainerVars
  <2> QED
    BY <2>1, <2>2 DEF Files
<1>11. files' \in SUBSET Shards
  BY <1>2 DEF IInv, TypeOK, ManifestTypeOK
<1> QED
  BY <1>1, <1>2, <1>6, <1>9, <1>10, <1>11, ActorWorks DEF attemptVars

\* A result or a reload is said when nothing else is left to do before it.
LEMMA ActorPlaysArenaInv ==
  ASSUME IInv, ActorPlaysArena,
         UNCHANGED <<trainerVars, coordinator, schedule, invocations>>
  PROVE  IInv'
<1>1. /\ actorQ # <<>> /\ 1 \in Queued(actorQ, "arena")
      /\ Head(actorQ) = actorQ[1] /\ Len(actorQ) = 1
      /\ actorQ \in Seq(ActorCommands) /\ actorEvents \in Seq(ActorMessages)
  BY TailOf DEF ActorPlaysArena, ActorCommand, Queued, IInv, TypeOK, ActorTypeOK,
    Duties, CommandsInOrder
<1>2. /\ actorQ' = <<>> /\ actorEvents' = Append(actorEvents, actorQ[1])
      /\ written' = written
      /\ UNCHANGED <<status, submitted, weights, champion, acceptedCount, incumbent,
                     nextShard, active, files>>
  BY <1>1 DEF ActorPlaysArena, manifestVars, attemptVars, shardVars
<1>3. actorQ[1].type = "arena" /\ actorQ[1] \in ActorMessages
  <2>1. actorQ[1] \in ActorCommands /\ actorQ[1].type = "arena"
    BY <1>1, TailOf DEF Queued
  <2> QED
    BY <2>1 DEF ActorCommands, ActorMessages
<1>4. ActorTypeOK'
  BY <1>1, <1>2, <1>3, AppendOf DEF IInv, TypeOK, ActorTypeOK
<1>5. /\ DOMAIN actorEvents' = DOMAIN actorEvents \cup {Len(actorEvents) + 1}
      /\ DOMAIN actorEvents = 1..Len(actorEvents) /\ Len(actorEvents) \in Nat
      /\ \A i \in DOMAIN actorEvents : actorEvents'[i] = actorEvents[i]
      /\ actorEvents'[Len(actorEvents) + 1] = actorQ[1]
      /\ Len(actorEvents') = Len(actorEvents) + 1
  BY <1>1, <1>2, <1>3, AppendOf
<1>6. /\ ~At("retire") => ~At("retire")'
      /\ ~At("decided")
      /\ At("retire")' => At("retire")
  BY <1>1 DEF IInv, Duties, EventIsAtHand, EventsInOrder, At
<1>7. Queued(actorEvents', "shard") = Queued(actorEvents, "shard")
  BY <1>3, <1>5 DEF Queued
<1>8. Duties'
  <2>1. CommandsInOrder' /\ EventsInOrder'
    <3>1. ~\E i \in DOMAIN actorEvents : actorEvents[i].type = "arena"
      BY <1>1 DEF IInv, Duties, EventsInOrder
    <3> QED
      BY <1>2, <1>3, <1>5, <3>1 DEF IInv, Duties, CommandsInOrder, EventsInOrder
  <2>2. BatchInOrder'
    BY <1>2, <1>5, <1>7 DEF IInv, Duties, BatchInOrder, Queued, At, schedule
  <2>3. GenerationIsDue' /\ ReloadIsDue'
    BY <1>2, <1>3, <1>5 DEF IInv, Duties, GenerationIsDue, ReloadIsDue, Queued, schedule
  <2>4. ArenaIsDue' /\ EventIsAtHand'
    BY <1>1, <1>2, <1>3, <1>5, <1>6
       DEF IInv, Duties, ArenaIsDue, EventIsAtHand, Queued, Having, At, schedule
  <2> QED
    BY <2>1, <2>2, <2>3, <2>4 DEF Duties
<1>9. Files'
  <2>1. BatchIsBacked'
    BY <1>1, <1>2, <1>5, <1>6, <1>7
       DEF IInv, Files, BatchIsBacked, Queued, At, Duties, EventIsAtHand, CommandsInOrder
  <2>2. ActiveIsBacked' /\ PoolIsReadable' /\ RemovalIsLast'
    BY <1>2 DEF IInv, Files, ActiveIsBacked, PoolIsReadable, RemovalIsLast, Retired,
      Queued, trainerVars
  <2> QED
    BY <2>1, <2>2 DEF Files
<1>10. files' \in SUBSET Shards
  BY <1>2 DEF IInv, TypeOK, ManifestTypeOK
<1> QED
  BY <1>1, <1>2, <1>4, <1>8, <1>9, <1>10, ActorWorks DEF attemptVars

\* The actor loads the champion it was told of.
LEMMA ActorReloadsInv ==
  ASSUME IInv, ActorReloads,
         UNCHANGED <<trainerVars, coordinator, schedule, invocations>>
  PROVE  IInv'
<1>1. /\ actorQ # <<>> /\ 1 \in Queued(actorQ, "reload")
      /\ Head(actorQ) = actorQ[1]
      /\ actorEvents = <<>> /\ actorQ \in Seq(ActorCommands)
  BY TailOf DEF ActorReloads, ActorCommand, Queued, IInv, TypeOK, ActorTypeOK,
    Duties, CommandsInOrder
<1>2. /\ actorQ' = Tail(actorQ) /\ actorEvents' = <<actorQ[1]>>
      /\ written' = written
      /\ UNCHANGED <<status, submitted, weights, champion, acceptedCount, incumbent,
                     nextShard, active, files>>
  BY <1>1 DEF ActorReloads, manifestVars, attemptVars, shardVars
<1>3. actorQ[1].type = "reload" /\ actorQ[1] \in ActorMessages
  <2>1. actorQ[1] \in ActorCommands /\ actorQ[1].type = "reload"
    BY <1>1, TailOf DEF Queued
  <2> QED
    BY <2>1 DEF ActorCommands, ActorMessages
<1>4. ActorTypeOK'
  BY <1>1, <1>2, <1>3, TailOf DEF IInv, TypeOK, ActorTypeOK
<1>5. /\ DOMAIN actorEvents' = {1} /\ Len(actorEvents') = 1
      /\ actorEvents'[1] = actorQ[1] /\ Queued(actorEvents', "shard") = {}
  BY <1>2, <1>3 DEF Queued
<1>6. ~At("retire") /\ ~At("decided") /\ "actor" \in lifecycle
  BY <1>1 DEF IInv, Duties, EventIsAtHand, ReloadIsDue
<1>7. /\ DOMAIN actorQ' \subseteq Nat \ {0}
      /\ \A i \in DOMAIN actorQ' : /\ actorQ'[i] = actorQ[i + 1]
                                   /\ i + 1 \in DOMAIN actorQ
                                   /\ actorQ'[i].type = "arena"
      /\ Len(actorQ') = Len(actorQ) - 1
  BY <1>1, <1>2, TailOf DEF IInv, Duties, CommandsInOrder
<1>8. Duties'
  <2>1. CommandsInOrder' /\ EventsInOrder'
    BY <1>1, <1>3, <1>5, <1>7 DEF IInv, Duties, CommandsInOrder, EventsInOrder
  <2>2. BatchInOrder'
    BY <1>5, <1>7 DEF BatchInOrder, Queued
  <2>3. GenerationIsDue' /\ ReloadIsDue'
    BY <1>6, <1>7 DEF GenerationIsDue, ReloadIsDue, Queued, schedule
  <2>4. ArenaIsDue' /\ EventIsAtHand'
    BY <1>2, <1>3, <1>5, <1>6, <1>7
       DEF IInv, Duties, ArenaIsDue, EventIsAtHand, Queued, Having, At, schedule
  <2> QED
    BY <2>1, <2>2, <2>3, <2>4 DEF Duties
<1>9. Files'
  <2>1. BatchIsBacked'
    <3>1. Queued(actorQ, "generate") = {}
      BY <1>1, TailOf DEF IInv, Duties, CommandsInOrder, Queued
    <3> QED
      BY <1>2, <1>5, <1>6, <1>7, <3>1 DEF IInv, Files, BatchIsBacked, Queued, At
  <2>2. ActiveIsBacked' /\ PoolIsReadable' /\ RemovalIsLast'
    BY <1>2 DEF IInv, Files, ActiveIsBacked, PoolIsReadable, RemovalIsLast, Retired,
      Queued, trainerVars
  <2> QED
    BY <2>1, <2>2 DEF Files
<1>10. files' \in SUBSET Shards
  BY <1>2 DEF IInv, TypeOK, ManifestTypeOK
<1> QED
  BY <1>1, <1>2, <1>4, <1>8, <1>9, <1>10, ActorWorks DEF attemptVars

-----------------------------------------------------------------------------
(* The trainer works.                                                      *)

\* What the trainer does leaves the actor and the manifest alone.
LEMMA TrainerWorks ==
  ASSUME IInv, trainer.on,
         UNCHANGED <<manifestVars, coordinator, schedule, actorVars, invocations>>,
         LearnerTypeOK', trainer'.on, Trial', PoolIsReadable', RemovalIsLast',
         candidateFile' = candidateFile
           \/ (candidateFile'.parent = champion /\ ~OnTrial /\ coordinator # "register")
  PROVE  IInv'
<1>1. coordinator \in Awake /\ coordinator' = coordinator /\ champion # NoAttempt
  BY DEF IInv, ChildrenSleep, ChildrenRun, NoTrainer
<1>2. TypeOK'
  <2>1. ScheduleTypeOK'
    BY DEF IInv, TypeOK, ScheduleTypeOK, schedule
  <2> QED
    BY <2>1, ManifestTypeFrame, ActorTypeFrame DEF IInv, TypeOK
<1>3. ChildrenSleep' /\ ChildrenRun'
  BY <1>1 DEF IInv, ChildrenSleep, ChildrenRun, manifestVars, attemptVars
<1>4. Rows'
  BY <1>1 DEF IInv, Rows, RowsAreContiguous, IsNextRow, RootIsFirst, LatestIsOnTrial,
    RowsAreBacked, PromotionsAreCounted, Having, Saved, manifestVars, attemptVars
<1>5. Checkpoints'
  BY <1>1 DEF IInv, Checkpoints, OrphanIsNext, OrphanIsAlone, FileIsAlone, RowIsDue,
    IsNextRow, Orphans, Having, Saved, OnTrial, Awake, manifestVars, attemptVars
<1>6. Duties'
  BY <1>1, DutiesFrame
     DEF IInv, manifestVars, attemptVars, shardVars, schedule, actorVars
<1>7. Files'
  BY DEF IInv, Files, ActiveIsBacked, BatchIsBacked, Queued, At, manifestVars,
    attemptVars, shardVars, actorVars
<1> QED
  BY <1>2, <1>3, <1>4, <1>5, <1>6, <1>7 DEF IInv

\* The trainer takes a command from its queue.
LEMMA CommandTaken ==
  ASSUME IInv, NEW type, Command(type)
  PROVE  /\ trainer.on /\ trainerQ # <<>> /\ trainerQ' = Tail(trainerQ)
         /\ trainerQ' \in Seq(TrainerCommands)
         /\ Head(trainerQ) = trainerQ[1] /\ 1 \in Queued(trainerQ, type)
         /\ trainerQ[1] \in TrainerCommands /\ trainerQ[1].type = type
         /\ \A i \in DOMAIN trainerQ' : /\ i \in Nat \ {0} /\ i + 1 \in DOMAIN trainerQ
                                        /\ trainerQ'[i] = trainerQ[i + 1]
         /\ DOMAIN trainerQ = 1..Len(trainerQ) /\ Len(trainerQ) \in Nat
         /\ type # "decision" => Told' = Told
<1>1. trainerQ \in Seq(TrainerCommands)
  BY DEF IInv, TypeOK, LearnerTypeOK
<1>2. /\ trainer.on /\ trainerQ # <<>> /\ trainerQ' = Tail(trainerQ)
      /\ Head(trainerQ) = trainerQ[1] /\ trainerQ[1].type = type
  BY <1>1, TailOf DEF Command
<1>3. Queued(trainerQ', "decision")
        = {i \in Nat \ {0} : i + 1 \in Queued(trainerQ, "decision")}
  BY <1>1, <1>2, QueuedTail
<1>4. type # "decision" => Told' = Told
  <2> SUFFICES ASSUME type # "decision"
               PROVE  Queued(trainerQ', "decision") = {}
                        <=> Queued(trainerQ, "decision") = {}
    BY DEF Told
  <2>1. \A i \in Queued(trainerQ, "decision") :
          i - 1 \in Nat \ {0} /\ (i - 1) + 1 \in Queued(trainerQ, "decision")
    BY <1>1, <1>2 DEF Queued
  <2> QED
    BY <1>3, <2>1
<1> QED
  BY <1>1, <1>2, <1>4, TailOf DEF Queued

\* A command about shards leaves the candidate alone.
LEMMA TrialBesides ==
  ASSUME IInv, NEW type, Command(type), type # "decision",
         UNCHANGED <<manifestVars, coordinator, schedule, learnerFile, candidateFile>>,
         trainer'.on, trainer.pending => trainer'.pending,
         trainer'.champion = trainer.champion, trainer'.best = trainer.best,
         \/ trainerEvents' = trainerEvents
         \/ \E s \in Shards :
              trainerEvents' = Append(trainerEvents, [type |-> "remove", shard |-> s])
  PROVE  Trial'
<1>1. /\ trainer.on /\ Told' = Told
      /\ \A i \in Queued(trainerQ, "decision")' :
           /\ i \in Nat /\ i + 1 \in Queued(trainerQ, "decision")
           /\ trainerQ'[i] = trainerQ[i + 1]
  BY CommandTaken DEF Queued
<1>2. /\ Queued(trainerEvents', "candidate") = Queued(trainerEvents, "candidate")
      /\ Queued(trainerEvents', "applied") = Queued(trainerEvents, "applied")
      /\ trainerEvents # <<>> =>
           trainerEvents' # <<>> /\ Head(trainerEvents') = Head(trainerEvents)
  <2>1. trainerEvents \in Seq(TrainerMessages)
    BY DEF IInv, TypeOK, LearnerTypeOK
  <2>2. CASE trainerEvents' = trainerEvents
    BY <2>2
  <2>3. CASE trainerEvents' # trainerEvents
    <3>1. PICK e \in TrainerMessages :
            e.type = "remove" /\ trainerEvents' = Append(trainerEvents, e)
      BY <2>3 DEF TrainerMessages
    <3>2. /\ Queued(trainerEvents', "candidate") = Queued(trainerEvents, "candidate")
          /\ Queued(trainerEvents', "applied") = Queued(trainerEvents, "applied")
      <4>1. e.type # "candidate" /\ e.type # "applied"
        BY <3>1
      <4> QED
        BY <2>1, <3>1, <4>1, QueuedAppend
    <3> QED
      BY <2>1, <3>1, <3>2, AppendOf
  <2> QED
    BY <2>2, <2>3
<1>3. /\ Offered' = Offered /\ Answered' = Answered /\ OnTrial' = OnTrial
      /\ At("decided")' = At("decided") /\ At("register")' = At("register")
      /\ Saved' = Saved /\ champion' = champion /\ incumbent' = incumbent
      /\ UNCHANGED <<stopRequested, decisions, lifecycle>>
  BY <1>2 DEF Offered, Answered, OnTrial, Having, Saved, At, manifestVars, attemptVars,
    schedule
<1>4. TrainerFollows' /\ TrainerWaits' /\ OneStage' /\ StopFollowsVerdict'
  BY <1>1, <1>3
     DEF IInv, Trial, TrainerFollows, TrainerWaits, OneStage, StopFollowsVerdict
<1>5. OneMessage'
  <2>1. \A i, j \in Queued(trainerQ, "decision")' : i = j
    BY <1>1 DEF IInv, Trial, OneMessage
  <2> QED
    BY <1>2, <2>1 DEF IInv, Trial, OneMessage
<1>6. VerdictIsBacked' /\ OfferIsAtHand'
  BY <1>1, <1>2, <1>3 DEF IInv, Trial, VerdictIsBacked, OfferIsAtHand
<1> QED
  BY <1>4, <1>5, <1>6 DEF Trial

\* The trainer takes a shard into its pool.
LEMMA AddShardInv ==
  ASSUME IInv, AddShard,
         UNCHANGED <<manifestVars, coordinator, schedule, actorVars, invocations>>
  PROVE  IInv'
<1> DEFINE s == trainerQ[1].shard
<1>1. /\ Command("add")
      /\ trainer' = [trainer EXCEPT !.pool = @ \cup {s}, !.fresh = @ + 1,
                                    !.budget = @ + ShardBudget]
      /\ UNCHANGED <<trainerEvents, learnerFile, candidateFile>>
  BY CommandTaken DEF AddShard
<1>2. /\ trainerQ[1] \in TrainerCommands /\ trainerQ[1].type = "add"
      /\ 1 \in Queued(trainerQ, "add")
      /\ trainerQ' \in Seq(TrainerCommands)
      /\ \A i \in DOMAIN trainerQ' : /\ i \in Nat \ {0} /\ i + 1 \in DOMAIN trainerQ
                                     /\ trainerQ'[i] = trainerQ[i + 1]
      /\ trainer.on
  BY <1>1, CommandTaken
<1>3. s \in Shards
  BY <1>2 DEF TrainerCommands
<1>4. LearnerTypeOK'
  <2>1. /\ trainer.pool \cup {s} \in SUBSET Shards
        /\ trainer.fresh + 1 \in Nat /\ trainer.budget + ShardBudget \in Nat
    BY <1>3, LearnerAssumption DEF IInv, TypeOK, LearnerTypeOK
  <2> QED
    BY <1>1, <1>2, <2>1 DEF IInv, TypeOK, LearnerTypeOK
<1>5. /\ trainer'.on /\ trainer'.pending = trainer.pending
      /\ trainer'.champion = trainer.champion /\ trainer'.best = trainer.best
      /\ trainer'.pool = trainer.pool \cup {s}
  BY <1>1, <1>2 DEF IInv, TypeOK, LearnerTypeOK
<1>6. Trial'
  BY <1>1, <1>5, TrialBesides
<1>7. PoolIsReadable'
  BY <1>2, <1>5 DEF IInv, Files, PoolIsReadable, Queued, manifestVars, shardVars
<1>8. RemovalIsLast'
  <2>1. \A i \in Queued(trainerQ', "remove") :
          /\ Retired(trainerQ'[i].shard)
          /\ \A j \in Queued(trainerQ', "add") :
               j > i => trainerQ'[j].shard # trainerQ'[i].shard
    BY <1>2 DEF IInv, Files, RemovalIsLast, Queued
  <2>2. \A i \in Queued(trainerEvents, "remove") :
          /\ Retired(trainerEvents[i].shard)
          /\ trainerEvents[i].shard \notin trainer'.pool
          /\ \A j \in Queued(trainerQ', "add") :
               trainerQ'[j].shard # trainerEvents[i].shard
    BY <1>2, <1>5 DEF IInv, Files, RemovalIsLast, Queued
  <2> QED
    BY <1>1, <2>1, <2>2 DEF RemovalIsLast, Retired, manifestVars, shardVars
<1> QED
  BY <1>1, <1>2, <1>4, <1>5, <1>6, <1>7, <1>8, TrainerWorks

\* The trainer lets go of a shard, and says so.
LEMMA RemoveShardInv ==
  ASSUME IInv, RemoveShard,
         UNCHANGED <<manifestVars, coordinator, schedule, actorVars, invocations>>
  PROVE  IInv'
<1> DEFINE s == trainerQ[1].shard
<1>1. /\ Command("remove")
      /\ trainer' = [trainer EXCEPT !.pool = @ \ {s}]
      /\ trainerEvents' = Append(trainerEvents, trainerQ[1])
      /\ UNCHANGED <<learnerFile, candidateFile>>
  BY CommandTaken DEF RemoveShard
<1>2. /\ trainerQ[1] \in TrainerCommands /\ trainerQ[1].type = "remove"
      /\ 1 \in Queued(trainerQ, "remove")
      /\ trainerQ' \in Seq(TrainerCommands)
      /\ \A i \in DOMAIN trainerQ' : /\ i \in Nat \ {0} /\ i + 1 \in DOMAIN trainerQ
                                     /\ trainerQ'[i] = trainerQ[i + 1]
      /\ trainer.on
  BY <1>1, CommandTaken
<1>3. s \in Shards /\ trainerQ[1] = [type |-> "remove", shard |-> s]
  BY <1>2 DEF TrainerCommands
<1>4. trainerQ[1] \in TrainerMessages /\ trainerEvents \in Seq(TrainerMessages)
  BY <1>3 DEF TrainerMessages, IInv, TypeOK, LearnerTypeOK
<1>5. LearnerTypeOK'
  BY <1>1, <1>2, <1>4, AppendOf DEF IInv, TypeOK, LearnerTypeOK
<1>6. /\ trainer'.on /\ trainer'.pending = trainer.pending
      /\ trainer'.champion = trainer.champion /\ trainer'.best = trainer.best
      /\ trainer'.pool = trainer.pool \ {s}
  BY <1>1, <1>2 DEF IInv, TypeOK, LearnerTypeOK
<1>7. Trial'
  BY <1>1, <1>3, <1>6, TrialBesides
<1>8. PoolIsReadable'
  BY <1>2, <1>6 DEF IInv, Files, PoolIsReadable, Queued, manifestVars, shardVars
<1>9. RemovalIsLast'
  <2>1. \A i \in Queued(trainerEvents', "remove") :
          \/ i \in Queued(trainerEvents, "remove") /\ trainerEvents'[i] = trainerEvents[i]
          \/ trainerEvents'[i] = trainerQ[1]
    BY <1>1, <1>4, AppendOf DEF Queued
  <2>2. \A j \in Queued(trainerQ', "add") :
          /\ j + 1 > 1 /\ j + 1 \in Queued(trainerQ, "add")
          /\ trainerQ'[j] = trainerQ[j + 1]
    BY <1>2 DEF Queued
  <2>3. \A i \in Queued(trainerQ', "remove") :
          /\ Retired(trainerQ'[i].shard)
          /\ \A j \in Queued(trainerQ', "add") :
               j > i => trainerQ'[j].shard # trainerQ'[i].shard
    BY <1>2 DEF IInv, Files, RemovalIsLast, Queued
  <2>4. \A i \in Queued(trainerEvents', "remove") :
          /\ Retired(trainerEvents'[i].shard)
          /\ trainerEvents'[i].shard \notin trainer'.pool
          /\ \A j \in Queued(trainerQ', "add") :
               trainerQ'[j].shard # trainerEvents'[i].shard
    BY <1>2, <1>6, <2>1, <2>2 DEF IInv, Files, RemovalIsLast
  <2> QED
    BY <2>3, <2>4 DEF RemovalIsLast, Retired, manifestVars, shardVars
<1> QED
  BY <1>1, <1>2, <1>5, <1>6, <1>7, <1>8, <1>9, TrainerWorks

\* The trainer waits for an arena that a restart resumed.
LEMMA SuspendInv ==
  ASSUME IInv, Suspend,
         UNCHANGED <<manifestVars, coordinator, schedule, actorVars, invocations>>
  PROVE  IInv'
<1>1. /\ Command("pending") /\ trainer' = [trainer EXCEPT !.pending = TRUE]
      /\ UNCHANGED <<trainerEvents, learnerFile, candidateFile>>
  BY DEF Suspend
<1>2. /\ trainerQ' \in Seq(TrainerCommands)
      /\ \A i \in DOMAIN trainerQ' : /\ i \in Nat \ {0} /\ i + 1 \in DOMAIN trainerQ
                                     /\ trainerQ'[i] = trainerQ[i + 1]
      /\ trainer.on
  BY <1>1, CommandTaken
<1>3. LearnerTypeOK'
  BY <1>1, <1>2 DEF IInv, TypeOK, LearnerTypeOK
<1>4. /\ trainer'.on /\ trainer'.pending /\ trainer'.champion = trainer.champion
      /\ trainer'.best = trainer.best /\ trainer'.pool = trainer.pool
  BY <1>1, <1>2 DEF IInv, TypeOK, LearnerTypeOK
<1>5. Trial'
  BY <1>1, <1>4, TrialBesides
<1>6. PoolIsReadable' /\ RemovalIsLast'
  BY <1>1, <1>2, <1>4
     DEF IInv, Files, PoolIsReadable, RemovalIsLast, Retired, Queued, manifestVars,
       shardVars
<1> QED
  BY <1>1, <1>2, <1>3, <1>4, <1>5, <1>6, TrainerWorks

\* The trainer takes in a verdict, saves itself, and answers.
LEMMA ApplyDecisionInv ==
  ASSUME IInv, ApplyDecision,
         UNCHANGED <<manifestVars, coordinator, schedule, actorVars, invocations>>
  PROVE  IInv'
<1> DEFINE d == trainerQ[1]
<1> DEFINE fresh == Max({0, trainer.fresh - d.submitted})
<1> DEFINE e == [type |-> "applied", fresh |-> fresh]
<1>1. /\ Command("decision")
      /\ trainer' = [trainer EXCEPT !.pending = d.pause, !.fresh = fresh,
                                    !.champion = d.champion, !.best = NoFile]
      /\ learnerFile' = Checkpoint(trainer')
      /\ trainerEvents' = Append(trainerEvents, [type |-> "applied", fresh |-> trainer'.fresh])
      /\ candidateFile' = candidateFile
  BY CommandTaken DEF ApplyDecision
<1>2. /\ d \in TrainerCommands /\ d.type = "decision"
      /\ 1 \in Queued(trainerQ, "decision")
      /\ trainerQ' \in Seq(TrainerCommands)
      /\ \A i \in DOMAIN trainerQ' : /\ i \in Nat \ {0} /\ i + 1 \in DOMAIN trainerQ
                                     /\ trainerQ'[i] = trainerQ[i + 1]
      /\ trainer.on
  BY <1>1, CommandTaken
<1>3. d.submitted \in Nat /\ d.champion \in Attempts /\ d.pause \in BOOLEAN
  BY <1>2 DEF TrainerCommands
<1>4. fresh \in Nat
  <2>1. trainer.fresh - d.submitted \in Int
    BY <1>3 DEF IInv, TypeOK, LearnerTypeOK
  <2> QED
    BY <2>1, AtLeastZero, Zenon
<1>5. /\ trainer'.on /\ trainer'.champion = d.champion /\ trainer'.best = NoFile
      /\ trainer'.pool = trainer.pool /\ trainer'.fresh = fresh
      /\ learnerFile'.champion = d.champion
      /\ trainerEvents' = Append(trainerEvents, e)
  BY <1>1, <1>2 DEF IInv, TypeOK, LearnerTypeOK, Checkpoint
<1>6. /\ e \in TrainerMessages /\ trainerEvents \in Seq(TrainerMessages)
      /\ e.type = "applied"
  BY <1>4 DEF TrainerMessages, IInv, TypeOK, LearnerTypeOK
<1>7. LearnerTypeOK'
  <2>1. trainer' \in [on : BOOLEAN, pending : BOOLEAN, fresh : Nat, budget : Nat,
                      steps : 0..(StepCycle - 1), champion : Attempts \cup {NoAttempt},
                      pool : SUBSET Shards, best : Payloads \cup {NoFile}]
    BY <1>1, <1>3, <1>4 DEF IInv, TypeOK, LearnerTypeOK
  <2>2. learnerFile' \in [champion : Attempts \cup {NoAttempt}, fresh : Nat,
                          budget : Nat, steps : 0..(StepCycle - 1)]
    BY <1>1, <2>1 DEF Checkpoint
  <2>3. trainerEvents' \in Seq(TrainerMessages)
    BY <1>5, <1>6, AppendOf
  <2> QED
    BY <1>1, <1>2, <2>1, <2>2, <2>3 DEF IInv, TypeOK, LearnerTypeOK
<1>8. /\ Queued(trainerQ, "decision") = {1} /\ Told
      /\ d.champion = champion /\ ~OnTrial /\ ~Offered /\ ~Answered /\ ~At("decided")
  BY <1>2 DEF IInv, Trial, OneMessage, VerdictIsBacked, OneStage, Told
<1>9. Queued(trainerQ', "decision") = {}
  BY <1>2, <1>8 DEF Queued
<1>10. /\ Queued(trainerEvents', "candidate") = {}
       /\ Queued(trainerEvents', "applied") = {Len(trainerEvents) + 1}
  <2>1. e.type # "candidate"
    BY <1>6
  <2>2. /\ Queued(Append(trainerEvents, e), "candidate")
             = Queued(trainerEvents, "candidate")
        /\ Queued(Append(trainerEvents, e), "applied")
             = Queued(trainerEvents, "applied") \cup {Len(trainerEvents) + 1}
    <3> HIDE DEF e
    <3> QED
      BY <1>6, <2>1, QueuedAppend
  <2> QED
    BY <1>5, <1>8, <2>2 DEF Offered, Answered
<1>11. /\ OnTrial' = OnTrial /\ ~At("decided")' /\ champion' = champion
       /\ At("register")' = At("register")
       /\ UNCHANGED <<stopRequested, decisions>>
  BY <1>8 DEF OnTrial, Having, At, manifestVars, attemptVars, schedule
<1>12. ~At("register")
  BY <1>8, TailOf DEF IInv, TypeOK, LearnerTypeOK, Trial, OfferIsAtHand, Offered, Queued
<1>13. Trial'
  <2>0. ~Told' /\ ~Offered' /\ ~OnTrial'
    BY <1>8, <1>9, <1>10, <1>11 DEF Told, Offered
  <2>1. TrainerFollows' /\ TrainerWaits'
    BY <1>3, <1>5, <1>8, <1>10, <1>11, <2>0, ManifestAssumption
       DEF TrainerFollows, TrainerWaits, Attempts, NoAttempt
  <2>2. OneStage' /\ OneMessage'
    BY <1>8, <1>9, <1>10, <1>11, <2>0 DEF OneStage, OneMessage
  <2>3. VerdictIsBacked' /\ OfferIsAtHand'
    BY <1>9, <1>11, <1>12 DEF VerdictIsBacked, OfferIsAtHand
  <2>4. StopFollowsVerdict'
    BY <1>5, <1>8, <1>11 DEF IInv, Trial, StopFollowsVerdict
  <2> QED
    BY <2>1, <2>2, <2>3, <2>4 DEF Trial
<1>14. PoolIsReadable'
  BY <1>2, <1>5 DEF IInv, Files, PoolIsReadable, Queued, manifestVars, shardVars
<1>15. RemovalIsLast'
  <2>1. \A i \in Queued(trainerEvents', "remove") :
          i \in Queued(trainerEvents, "remove") /\ trainerEvents'[i] = trainerEvents[i]
    BY <1>5, <1>6, AppendOf DEF Queued
  <2>2. \A t \in {"add", "remove"} : \A i \in Queued(trainerQ', t) :
          i + 1 \in Queued(trainerQ, t) /\ trainerQ'[i] = trainerQ[i + 1] /\ i \in Nat
    BY <1>2 DEF Queued
  <2>3. \A i \in Queued(trainerQ', "remove") :
          /\ Retired(trainerQ'[i].shard)
          /\ \A j \in Queued(trainerQ', "add") :
               j > i => trainerQ'[j].shard # trainerQ'[i].shard
    BY <2>2 DEF IInv, Files, RemovalIsLast
  <2>4. \A i \in Queued(trainerEvents', "remove") :
          /\ Retired(trainerEvents'[i].shard)
          /\ trainerEvents'[i].shard \notin trainer'.pool
          /\ \A j \in Queued(trainerQ', "add") :
               trainerQ'[j].shard # trainerEvents'[i].shard
    BY <1>5, <2>1, <2>2 DEF IInv, Files, RemovalIsLast, Queued
  <2> QED
    BY <2>3, <2>4 DEF RemovalIsLast, Retired, manifestVars, shardVars
<1> QED
  BY <1>1, <1>2, <1>5, <1>7, <1>13, <1>14, <1>15, TrainerWorks

\* A training step leaves a well-formed trainer, under the same champion.
LEMMA TrainedIs ==
  ASSUME IInv, trainer.on, ~trainer.pending,
         NEW t \in IF Trained.steps % ValidationSteps = 0 THEN Validated(Trained)
                                                        ELSE {Trained}
  PROVE  /\ t \in [on : BOOLEAN, pending : BOOLEAN, fresh : Nat, budget : Nat,
                   steps : 0..(StepCycle - 1), champion : Attempts \cup {NoAttempt},
                   pool : SUBSET Shards, best : Payloads \cup {NoFile}]
         /\ t.on /\ t.champion = champion /\ champion \in Attempts
         /\ t.pool = trainer.pool
         /\ t.best # NoFile => t.best.parent = champion
<1>1. trainer.champion = champion /\ champion \in Attempts
  <2>1. ~Told /\ ~At("decided") /\ coordinator \in Awake
    BY DEF IInv, Trial, TrainerWaits, ChildrenSleep, NoTrainer
  <2> QED
    BY <2>1 DEF IInv, TypeOK, ManifestTypeOK, Trial, TrainerFollows
<1>2. /\ Max({0, trainer.budget - BatchSize}) \in Nat
      /\ (trainer.steps + 1) % StepCycle \in 0..(StepCycle - 1)
  <2>1. trainer.budget - BatchSize \in Int /\ trainer.steps + 1 \in Nat
    BY LearnerAssumption, StepsCycle DEF IInv, TypeOK, LearnerTypeOK
  <2>2. Max({0, trainer.budget - BatchSize}) \in Nat
    BY <2>1, AtLeastZero, Zenon
  <2> QED
    BY <2>1, <2>2, StepsCycle
<1>3. /\ Trained \in [on : BOOLEAN, pending : BOOLEAN, fresh : Nat, budget : Nat,
                   steps : 0..(StepCycle - 1), champion : Attempts \cup {NoAttempt},
                   pool : SUBSET Shards, best : Payloads \cup {NoFile}]
      /\ Trained.on /\ Trained.champion = champion /\ Trained.pool = trainer.pool
      /\ Trained.best = trainer.best
  BY <1>1, <1>2 DEF Trained, IInv, TypeOK, LearnerTypeOK
<1>4. Payload(Trained) \in Payloads /\ Payload(Trained).parent = champion
  BY <1>1, <1>3 DEF Payload, Payloads
<1>5. trainer.best # NoFile => trainer.best.parent = champion
  BY <1>1 DEF IInv, Trial, TrainerFollows
<1>6. CASE t = Trained
  BY <1>1, <1>3, <1>5, <1>6
<1>7. CASE t = [Trained EXCEPT !.best = Payload(Trained)]
  BY <1>1, <1>3, <1>4, <1>7
<1> QED
  BY <1>6, <1>7 DEF Validated

\* The trainer trains, saves itself, or offers a candidate.
LEMMA TrainStepInv ==
  ASSUME IInv, TrainStep,
         UNCHANGED <<manifestVars, coordinator, schedule, actorVars, invocations>>
  PROVE  IInv'
<1> DEFINE Trainers == [on : BOOLEAN, pending : BOOLEAN, fresh : Nat, budget : Nat,
                   steps : 0..(StepCycle - 1), champion : Attempts \cup {NoAttempt},
                   pool : SUBSET Shards, best : Payloads \cup {NoFile}]
<1>1. trainer.on /\ ~trainer.pending /\ trainerQ' = trainerQ
  BY DEF TrainStep
<1>2. PICK t \in IF Trained.steps % ValidationSteps = 0 THEN Validated(Trained)
                                                        ELSE {Trained} :
        LET events == IF t.steps % ReportSteps = 0
                      THEN Append(trainerEvents, Progress(t)) ELSE trainerEvents
        IN /\ learnerFile' = IF t.steps % ValidationSteps = 0
                             THEN Checkpoint(t) ELSE learnerFile
           /\ IF Enough(t) THEN HandOver(t, events)
              ELSE /\ trainer' = t
                   /\ trainerEvents' = events
                   /\ UNCHANGED candidateFile
  BY DEF TrainStep
<1> DEFINE events == IF t.steps % ReportSteps = 0
                     THEN Append(trainerEvents, Progress(t)) ELSE trainerEvents
<1>3. /\ t \in Trainers /\ t.on /\ t.champion = champion /\ champion \in Attempts
      /\ t.pool = trainer.pool /\ (t.best # NoFile => t.best.parent = champion)
  BY <1>1, TrainedIs
<1>4. ~Told /\ ~OnTrial /\ ~Offered /\ ~At("decided") /\ ~At("register")
  <2>1. coordinator \in Awake
    BY <1>1 DEF IInv, ChildrenSleep, NoTrainer
  <2>2. ~Told /\ ~OnTrial /\ ~Offered /\ ~At("decided")
    BY <1>1, <2>1 DEF IInv, Trial, TrainerWaits
  <2> QED
    BY <2>2, TailOf
       DEF IInv, TypeOK, LearnerTypeOK, Trial, OfferIsAtHand, Offered, Queued
<1>5. /\ events \in Seq(TrainerMessages)
      /\ Queued(events, "candidate") = {}
      /\ Queued(events, "applied") = Queued(trainerEvents, "applied")
      /\ \A i \in Queued(events, "remove") :
           i \in Queued(trainerEvents, "remove") /\ events[i] = trainerEvents[i]
  <2>1. /\ Progress(t) \in TrainerMessages /\ Progress(t).type = "progress"
        /\ trainerEvents \in Seq(TrainerMessages)
    BY <1>3 DEF Progress, TrainerMessages, IInv, TypeOK, LearnerTypeOK
  <2>2. /\ Progress(t).type # "candidate" /\ Progress(t).type # "applied"
        /\ Progress(t).type # "remove"
    BY <2>1
  <2>3. /\ Queued(Append(trainerEvents, Progress(t)), "candidate") = {}
        /\ Queued(Append(trainerEvents, Progress(t)), "applied")
             = Queued(trainerEvents, "applied")
        /\ Queued(Append(trainerEvents, Progress(t)), "remove")
             = Queued(trainerEvents, "remove")
    BY <1>4, <2>1, <2>2, QueuedAppend DEF Offered
  <2> QED
    BY <1>4, <2>1, <2>3, AppendOf DEF Offered, Queued
<1>6. /\ learnerFile' = learnerFile \/ learnerFile' = Checkpoint(t)
      /\ Checkpoint(t) \in [champion : Attempts \cup {NoAttempt}, fresh : Nat,
                            budget : Nat, steps : 0..(StepCycle - 1)]
      /\ Checkpoint(t).champion = champion
  BY <1>2, <1>3 DEF Checkpoint
<1>7. /\ trainer' \in Trainers /\ trainer'.on /\ trainer'.champion = champion
      /\ trainer'.pool = trainer.pool
      /\ trainer'.best # NoFile => trainer'.best.parent = champion
      /\ candidateFile' \in Payloads \cup {NoFile}
      /\ trainerEvents' \in Seq(TrainerMessages)
      /\ Queued(trainerEvents', "applied") = Queued(trainerEvents, "applied")
      /\ \A i \in Queued(trainerEvents', "remove") :
           i \in Queued(trainerEvents, "remove") /\ trainerEvents'[i] = trainerEvents[i]
      /\ \/ /\ candidateFile' = candidateFile
            /\ Queued(trainerEvents', "candidate") = {}
         \/ /\ candidateFile'.parent = champion /\ trainer'.pending
            /\ \E k \in Nat : /\ Queued(trainerEvents', "candidate") = {k}
                              /\ \A i \in Queued(trainerEvents, "applied") : i < k
  <2>1. CASE ~Enough(t)
    <3>1. trainer' = t /\ trainerEvents' = events /\ candidateFile' = candidateFile
      BY <1>2, <2>1
    <3> QED
      BY <1>3, <1>5, <3>1 DEF IInv, TypeOK, LearnerTypeOK
  <2>2. CASE Enough(t)
    <3> DEFINE best == IF t.best = NoFile THEN Payload(t) ELSE t.best
    <3> DEFINE e == [type |-> "candidate", fresh |-> t.fresh]
    <3>1. /\ candidateFile' = best
          /\ trainer' = [t EXCEPT !.best = best, !.pending = TRUE]
          /\ trainerEvents' = events \o <<e>>
      BY <1>2, <2>2 DEF HandOver
    <3>2. best \in Payloads /\ best.parent = champion
      BY <1>3 DEF Payload, Payloads
    <3>3. /\ e \in TrainerMessages /\ e.type = "candidate"
          /\ e.type # "applied" /\ e.type # "remove"
      BY <1>3 DEF TrainerMessages
    <3>4. trainerEvents' = Append(events, e)
      BY <1>5, <3>1, <3>3
    <3>5. /\ trainerEvents' \in Seq(TrainerMessages)
          /\ Queued(trainerEvents', "candidate") = {Len(events) + 1}
          /\ Queued(trainerEvents', "applied") = Queued(trainerEvents, "applied")
          /\ Queued(trainerEvents', "remove") = Queued(events, "remove")
      <4>1. /\ Queued(Append(events, e), "candidate")
                 = Queued(events, "candidate") \cup {Len(events) + 1}
            /\ Queued(Append(events, e), "applied") = Queued(events, "applied")
            /\ Queued(Append(events, e), "remove") = Queued(events, "remove")
        <5> HIDE DEF e, events
        <5>1. events \in Seq(TrainerMessages)
          BY <1>5
        <5>2. Queued(Append(events, e), "candidate")
                = Queued(events, "candidate") \cup {Len(events) + 1}
          BY <3>3, <5>1, QueuedAppend
        <5>3. /\ Queued(Append(events, e), "applied") = Queued(events, "applied")
              /\ Queued(Append(events, e), "remove") = Queued(events, "remove")
          BY <3>3, <5>1, QueuedAppend
        <5> QED
          BY <5>2, <5>3
      <4>2. Append(events, e) \in Seq(TrainerMessages)
        BY <1>5, <3>3, AppendOf, Zenon
      <4> QED
        BY <1>5, <3>4, <4>1, <4>2
    <3>6. \A i \in Queued(trainerEvents', "remove") :
            i \in Queued(trainerEvents, "remove") /\ trainerEvents'[i] = trainerEvents[i]
      BY <1>5, <3>3, <3>4, <3>5, AppendOf DEF Queued
    <3>7. /\ Len(events) + 1 \in Nat
          /\ \A i \in Queued(trainerEvents, "applied") : i < Len(events) + 1
      BY <1>5 DEF Queued
    <3> QED
      BY <1>3, <3>1, <3>2, <3>5, <3>6, <3>7
  <2> QED
    BY <2>1, <2>2
<1>8. LearnerTypeOK'
  BY <1>1, <1>6, <1>7 DEF IInv, TypeOK, LearnerTypeOK
<1>9. Trial'
  <2>1. /\ ~Told' /\ ~OnTrial' /\ ~At("decided")' /\ ~At("register")'
        /\ champion' = champion /\ Answered' = Answered
        /\ Queued(trainerQ', "decision") = {}
        /\ UNCHANGED <<stopRequested, decisions>>
    BY <1>1, <1>4, <1>7
       DEF Told, OnTrial, Having, At, Answered, manifestVars, attemptVars, schedule
  <2>2. TrainerFollows' /\ TrainerWaits'
    BY <1>3, <1>7, <2>1, ManifestAssumption
       DEF TrainerFollows, TrainerWaits, Offered, Attempts, NoAttempt
  <2>3. OneStage' /\ OneMessage'
    BY <1>7, <2>1 DEF OneStage, OneMessage
  <2>4. VerdictIsBacked' /\ OfferIsAtHand'
    BY <2>1 DEF VerdictIsBacked, OfferIsAtHand
  <2>5. StopFollowsVerdict'
    BY <1>4, <1>6, <2>1 DEF IInv, Trial, StopFollowsVerdict
  <2> QED
    BY <2>2, <2>3, <2>4, <2>5 DEF Trial
<1>10. PoolIsReadable' /\ RemovalIsLast'
  BY <1>1, <1>7
     DEF IInv, Files, PoolIsReadable, RemovalIsLast, Retired, Queued, manifestVars,
       shardVars
<1> QED
  BY <1>1, <1>4, <1>7, <1>8, <1>9, <1>10, TrainerWorks DEF At

-----------------------------------------------------------------------------
(* The coordinator handles the actor's events.                             *)

\* A handler leaves the children awake.
LEMMA Handled ==
  ASSUME IInv, coordinator \in Awake, coordinator' \in Awake, UNCHANGED trainer,
         champion' # NoAttempt,
         TypeOK', Rows', Checkpoints', Trial', Duties', Files'
  PROVE  IInv'
<1>1. ChildrenSleep' /\ ChildrenRun'
  BY DEF IInv, ChildrenSleep, ChildrenRun
<1> QED
  BY <1>1 DEF IInv

\* The coordinator takes an event of the actor.
LEMMA EventTaken ==
  ASSUME IInv, actorEvents # <<>>, actorEvents' = Tail(actorEvents)
  PROVE  /\ actorEvents \in Seq(ActorMessages) /\ actorEvents' \in Seq(ActorMessages)
         /\ Head(actorEvents) = actorEvents[1] /\ actorEvents[1] \in ActorMessages
         /\ DOMAIN actorEvents = 1..Len(actorEvents) /\ Len(actorEvents) \in Nat \ {0}
         /\ DOMAIN actorEvents' = 1..Len(actorEvents')
         /\ Len(actorEvents') = Len(actorEvents) - 1
         /\ \A i \in DOMAIN actorEvents' :
              /\ i \in Nat \ {0} /\ i + 1 \in DOMAIN actorEvents
              /\ actorEvents'[i] = actorEvents[i + 1]
         /\ \A type : \A i \in Nat : i \in Queued(actorEvents', type)
              <=> i # 0 /\ i + 1 \in Queued(actorEvents, type)
<1>1. actorEvents \in Seq(ActorMessages)
  BY DEF IInv, TypeOK, ActorTypeOK
<1> QED
  BY <1>1, TailOf DEF Queued

\* While an event waits, the actor has nothing but an arena to do.
LEMMA EventsFirst ==
  ASSUME IInv, actorEvents # <<>>
  PROVE  /\ \A i \in DOMAIN actorQ : actorQ[i].type = "arena"
         /\ Queued(actorQ, "generate") = {} /\ Queued(actorQ, "reload") = {}
         /\ written = 0
<1>1. \A i \in DOMAIN actorQ : actorQ[i].type = "arena"
  BY DEF IInv, Duties, CommandsInOrder
<1> QED
  BY <1>1 DEF IInv, Files, BatchIsBacked, Queued

\* A shard that was announced gets its row.
LEMMA RegisterShardInv == ASSUME IInv, RegisterShard PROVE IInv'
<1> DEFINE s == actorEvents[1].shard
<1>1. /\ coordinator = "loop" /\ coordinator' = "retire"
      /\ actorEvents # <<>> /\ Head(actorEvents) = actorEvents[1]
      /\ actorEvents[1] \in ActorMessages /\ actorEvents[1].type = "shard"
      /\ 1 \in Queued(actorEvents, "shard")
      /\ actorEvents \in Seq(ActorMessages)
  BY TailOf DEF RegisterShard, ActorEvent, At, Goto, Queued, IInv, TypeOK, ActorTypeOK
<1>2. /\ active' = active \cup {s} /\ nextShard' = s + 1 /\ files' = files
      /\ actorBusy' = ~actorEvents[1].final
      /\ trainerBudget' = trainerBudget + ShardBudget
      /\ UNCHANGED <<attemptVars, trainerVars, arenaWaiting, pausedForDebt,
                     trainerFresh, stopRequested, lifecycle, decisions, deletions,
                     actorVars, invocations>>
  BY <1>1 DEF RegisterShard, InsertShard
<1>3. /\ s = nextShard /\ s \in files /\ s \in Shards /\ s \in Nat
      /\ actorEvents[1].final \in BOOLEAN
  <2>1. s = nextShard + 1 - 1 /\ s \in files
    BY <1>1 DEF IInv, Duties, BatchInOrder, Files, BatchIsBacked, At
  <2>2. s \in Shards /\ actorEvents[1].final \in BOOLEAN
    BY <1>1 DEF ActorMessages
  <2> QED
    BY <2>1, <2>2, ManifestAssumption DEF Shards, IInv, TypeOK, ManifestTypeOK
<1>4. /\ Queued(actorQ, "generate") = {} /\ Queued(actorQ, "reload") = {}
      /\ written = 0
  BY <1>1, EventsFirst
<1>5. TypeOK'
  <2>1. ManifestTypeOK'
    BY <1>2, <1>3, ManifestAssumption
       DEF IInv, TypeOK, ManifestTypeOK, Shards, attemptVars
  <2>2. actorBusy' \in BOOLEAN
    BY <1>2
  <2>3. ScheduleTypeOK'
    BY <1>1, <1>2, <2>2, LearnerAssumption DEF IInv, TypeOK, ScheduleTypeOK, Places
  <2> QED
    BY <1>2, <2>1, <2>3, LearnerTypeFrame, ActorTypeFrame DEF IInv, TypeOK
<1>6. Rows' /\ Checkpoints'
  BY <1>1, <1>2, RowsFrame, CheckpointsFrame DEF IInv, attemptVars, trainerVars
<1>7. Trial'
  BY <1>1, <1>2, TrialFrame DEF IInv, Awake, attemptVars
<1>8. Duties'
  <2>1. /\ actorQ' = actorQ /\ actorEvents' = actorEvents /\ lifecycle' = lifecycle
        /\ arenaWaiting' = arenaWaiting /\ status' = status /\ champion' = champion
    BY <1>2 DEF actorVars, attemptVars
  <2>2. CommandsInOrder' /\ EventsInOrder'
    BY <2>1 DEF IInv, Duties, CommandsInOrder, EventsInOrder
  <2>3. BatchInOrder'
    <3>1. \A i \in Queued(actorEvents, "shard") :
            /\ actorEvents[i].shard = nextShard' + i - 2
            /\ actorEvents[i].final => i + 1 \notin Queued(actorEvents, "shard")
      BY <1>1, <1>2, <1>3 DEF IInv, TypeOK, ManifestTypeOK, Duties, BatchInOrder, At, Queued
    <3>2. actorEvents[1].final => Queued(actorEvents, "shard") \subseteq {1}
      <4> SUFFICES ASSUME actorEvents[1].final,
                          NEW i \in Queued(actorEvents, "shard"), i # 1
                   PROVE  FALSE
        OBVIOUS
      <4>1. 2 \notin Queued(actorEvents, "shard")
        BY <1>1, <3>1
      <4>2. i \in DOMAIN actorEvents /\ actorEvents[i].type = "shard" /\ 2 \in 1..i
            /\ 2 \in DOMAIN actorEvents
        BY <1>1 DEF Queued
      <4>3. actorEvents[2].type = "shard"
        BY <1>1, <4>2 DEF IInv, Duties, EventsInOrder
      <4> QED
        BY <4>1, <4>2, <4>3 DEF Queued
    <3>3. ~actorBusy' => actorEvents[1].final
      BY <1>2, <1>3
    <3> QED
      BY <1>1, <1>4, <2>1, <3>1, <3>2, <3>3 DEF BatchInOrder, At
  <2>4. GenerationIsDue' /\ ReloadIsDue'
    BY <1>4, <2>1 DEF IInv, Duties, GenerationIsDue, ReloadIsDue
  <2>5. ArenaIsDue' /\ EventIsAtHand'
    BY <1>1, <2>1 DEF IInv, Duties, ArenaIsDue, EventIsAtHand, Having, At
  <2> QED
    BY <2>2, <2>3, <2>4, <2>5 DEF Duties
<1>9. Files'
  <2>1. ActiveIsBacked'
    BY <1>2, <1>3 DEF IInv, TypeOK, ManifestTypeOK, Files, ActiveIsBacked, Shards
  <2>2. BatchIsBacked'
    BY <1>1, <1>2, <1>4 DEF IInv, Files, BatchIsBacked, At, actorVars
  <2>3. PoolIsReadable'
    BY <1>2 DEF IInv, Files, PoolIsReadable, trainerVars
  <2>4. \A r \in Shards : Retired(r) => Retired(r)'
    BY <1>2, <1>3 DEF Retired, Shards
  <2>5. /\ \A i \in Queued(trainerQ, "remove") : trainerQ[i].shard \in Shards
        /\ \A i \in Queued(trainerEvents, "remove") : trainerEvents[i].shard \in Shards
    <3>1. /\ \A i \in DOMAIN trainerQ : trainerQ[i] \in TrainerCommands
          /\ \A i \in DOMAIN trainerEvents : trainerEvents[i] \in TrainerMessages
      BY DEF IInv, TypeOK, LearnerTypeOK
    <3> QED
      BY <3>1 DEF Queued, TrainerCommands, TrainerMessages
  <2>6. RemovalIsLast'
    BY <1>2, <2>4, <2>5 DEF IInv, Files, RemovalIsLast, trainerVars
  <2> QED
    BY <2>1, <2>2, <2>3, <2>6 DEF Files
<1> QED
  BY <1>1, <1>2, <1>5, <1>6, <1>7, <1>8, <1>9, Handled
     DEF IInv, ChildrenRun, Awake, attemptVars, trainerVars

\* What the trainer is told of shards is of no concern to its candidate.
LEMMA ShardsAreTold ==
  ASSUME IInv, NEW s \in Shards, NEW retired \in Seq(Overflow),
         trainerQ' = trainerQ \o ShardCommands(s, retired)
  PROVE  /\ trainerQ' \in Seq(TrainerCommands)
         /\ Queued(trainerQ', "decision") = Queued(trainerQ, "decision")
         /\ \A i \in DOMAIN trainerQ :
              i \in DOMAIN trainerQ' /\ trainerQ'[i] = trainerQ[i]
         /\ Len(trainerQ) \in Nat /\ DOMAIN trainerQ = 1..Len(trainerQ)
         /\ \A i \in DOMAIN trainerQ' \ DOMAIN trainerQ :
              /\ i \in Nat /\ i > Len(trainerQ)
              /\ \/ i = Len(trainerQ) + 1 /\ trainerQ'[i] = AddCommand(s)
                 \/ /\ i > Len(trainerQ) + 1
                    /\ \E r \in Overflow : trainerQ'[i] = RemoveCommand(r)
<1> DEFINE c == ShardCommands(s, retired)
<1>1. trainerQ \in Seq(TrainerCommands) /\ Overflow \subseteq Shards
  BY DEF IInv, TypeOK, LearnerTypeOK, ManifestTypeOK, Overflow
<1>2. AddCommand(s) \in TrainerCommands /\ AddCommand(s).type = "add"
  BY DEF AddCommand, TrainerCommands
<1>3. \A r \in Overflow :
        RemoveCommand(r) \in TrainerCommands /\ RemoveCommand(r).type = "remove"
  BY <1>1 DEF RemoveCommand, TrainerCommands
<1> DEFINE removals == [i \in DOMAIN retired |-> RemoveCommand(retired[i])]
<1>4. /\ removals \in Seq(TrainerCommands) /\ Len(removals) = Len(retired)
      /\ \A i \in 1..Len(retired) : \E r \in Overflow : removals[i] = RemoveCommand(r)
  BY <1>3
<1>5. /\ c \in Seq(TrainerCommands) /\ Len(c) = Len(retired) + 1
      /\ c[1] = AddCommand(s)
      /\ \A i \in 2..Len(c) : \E r \in Overflow : c[i] = RemoveCommand(r)
  <2>1. c = <<AddCommand(s)>> \o removals
    BY DEF ShardCommands
  <2>2. <<AddCommand(s)>> \in Seq(TrainerCommands) /\ Len(<<AddCommand(s)>>) = 1
        /\ <<AddCommand(s)>>[1] = AddCommand(s)
    BY <1>2
  <2> HIDE DEF c, removals
  <2>3. /\ c \in Seq(TrainerCommands) /\ Len(c) = Len(retired) + 1
        /\ c[1] = AddCommand(s)
        /\ \A i \in 2..Len(c) : c[i] = removals[i - 1] /\ i - 1 \in 1..Len(retired)
    BY <1>4, <2>1, <2>2
  <2> QED
    BY <1>4, <2>3
<1>6. trainerQ' = trainerQ \o c
  OBVIOUS
<1> HIDE DEF c
<1>7. /\ trainerQ' \in Seq(TrainerCommands) /\ Len(trainerQ') = Len(trainerQ) + Len(c)
      /\ DOMAIN trainerQ = 1..Len(trainerQ) /\ DOMAIN trainerQ' = 1..Len(trainerQ')
      /\ Len(trainerQ) \in Nat /\ Len(c) \in Nat
      /\ \A i \in 1..Len(trainerQ) : trainerQ'[i] = trainerQ[i]
      /\ \A i \in (Len(trainerQ) + 1)..Len(trainerQ') : trainerQ'[i] = c[i - Len(trainerQ)]
  <2>1. trainerQ \in Seq(TrainerCommands) /\ c \in Seq(TrainerCommands)
    BY <1>1, <1>5
  <2>2. /\ trainerQ \o c \in Seq(TrainerCommands)
        /\ Len(trainerQ \o c) = Len(trainerQ) + Len(c)
        /\ DOMAIN trainerQ = 1..Len(trainerQ)
        /\ DOMAIN (trainerQ \o c) = 1..Len(trainerQ \o c)
        /\ Len(trainerQ) \in Nat /\ Len(c) \in Nat
        /\ \A i \in 1..Len(trainerQ) : (trainerQ \o c)[i] = trainerQ[i]
        /\ \A i \in (Len(trainerQ) + 1)..Len(trainerQ \o c) :
             (trainerQ \o c)[i] = c[i - Len(trainerQ)]
    BY <2>1, ConcatOf, Zenon
  <2> QED
    BY <1>6, <2>2
<1>8. \A i \in DOMAIN trainerQ' \ DOMAIN trainerQ :
        /\ i \in Nat /\ i > Len(trainerQ)
        /\ \/ i = Len(trainerQ) + 1 /\ trainerQ'[i] = AddCommand(s)
           \/ /\ i > Len(trainerQ) + 1
              /\ \E r \in Overflow : trainerQ'[i] = RemoveCommand(r)
  <2> TAKE i \in DOMAIN trainerQ' \ DOMAIN trainerQ
  <2>1. i \in (Len(trainerQ) + 1)..Len(trainerQ') /\ trainerQ'[i] = c[i - Len(trainerQ)]
    BY <1>7
  <2>2. CASE i = Len(trainerQ) + 1
    BY <1>5, <1>7, <2>1, <2>2
  <2>3. CASE i # Len(trainerQ) + 1
    <3>1. i - Len(trainerQ) \in 2..Len(c)
      BY <1>7, <2>1, <2>3
    <3> QED
      BY <1>5, <1>7, <2>1, <2>3, <3>1
  <2> QED
    BY <2>2, <2>3
<1>9. Queued(trainerQ', "decision") = Queued(trainerQ, "decision")
  <2>1. \A i \in DOMAIN trainerQ' \ DOMAIN trainerQ : trainerQ'[i].type # "decision"
    BY <1>2, <1>3, <1>8
  <2>2. \A i \in DOMAIN trainerQ : i \in DOMAIN trainerQ' /\ trainerQ'[i] = trainerQ[i]
    BY <1>7
  <2> QED
    BY <2>1, <2>2 DEF Queued
<1> QED
  BY <1>7, <1>8, <1>9

\* The oldest shards retire, and the trainer is told.
LEMMA RetireShardsInv == ASSUME IInv, RetireShards PROVE IInv'
<1> DEFINE s == actorEvents[1].shard
<1>1. /\ coordinator = "retire" /\ coordinator' = "loop"
      /\ actorEvents # <<>> /\ actorEvents' = Tail(actorEvents)
      /\ active' = active \ Overflow /\ files' = files /\ nextShard' = nextShard
      /\ deletions' = deletions \cup Overflow
      /\ UNCHANGED <<attemptVars, trainer, trainerEvents, learnerFile,
                     candidateFile, actorBusy, arenaWaiting, pausedForDebt,
                     trainerBudget, trainerFresh, stopRequested, lifecycle,
                     decisions, actorQ, written, invocations>>
  BY DEF RetireShards, Retire, At, Goto, IInv, Duties, EventIsAtHand
<1>2. /\ Head(actorEvents) = actorEvents[1] /\ actorEvents[1] \in ActorMessages
      /\ actorEvents[1].type = "shard"
      /\ actorEvents \in Seq(ActorMessages) /\ actorEvents' \in Seq(ActorMessages)
      /\ Len(actorEvents') = Len(actorEvents) - 1 /\ Len(actorEvents) \in Nat
      /\ DOMAIN actorEvents = 1..Len(actorEvents)
      /\ \A i \in DOMAIN actorEvents' : /\ i \in Nat \ {0} /\ i + 1 \in DOMAIN actorEvents
                                        /\ actorEvents'[i] = actorEvents[i + 1]
      /\ \A type : \A i \in Nat : i \in Queued(actorEvents', type)
           <=> i # 0 /\ i + 1 \in Queued(actorEvents, type)
  BY <1>1, EventTaken DEF IInv, Duties, EventIsAtHand, At
<1>3. s \in Shards /\ s \in active
  BY <1>1, <1>2 DEF ActorMessages, IInv, Files, BatchIsBacked, At
<1>4. PICK retired \in Seq(Overflow) : trainerQ' = trainerQ \o ShardCommands(s, retired)
  <2>1. PICK q \in OldestFirst(Overflow) : trainerQ' = trainerQ \o ShardCommands(s, q)
    BY <1>2 DEF RetireShards
  <2>2. Cardinality(Overflow) \in Nat
    BY ShardsAreFinite, FS_Subset, FS_CardinalityType DEF Overflow, IInv, TypeOK
  <2>3. q \in Seq(Overflow)
    BY <2>2 DEF OldestFirst
  <2> QED
    BY <2>1, <2>3
<1>5. /\ trainerQ' \in Seq(TrainerCommands)
      /\ Queued(trainerQ', "decision") = Queued(trainerQ, "decision")
      /\ \A i \in DOMAIN trainerQ : i \in DOMAIN trainerQ' /\ trainerQ'[i] = trainerQ[i]
      /\ Len(trainerQ) \in Nat /\ DOMAIN trainerQ = 1..Len(trainerQ)
      /\ \A i \in DOMAIN trainerQ' \ DOMAIN trainerQ :
           /\ i \in Nat /\ i > Len(trainerQ)
           /\ \/ i = Len(trainerQ) + 1 /\ trainerQ'[i] = AddCommand(s)
              \/ /\ i > Len(trainerQ) + 1
                 /\ \E r \in Overflow : trainerQ'[i] = RemoveCommand(r)
  BY <1>3, <1>4, ShardsAreTold
<1>6. TypeOK'
  <2>1. ManifestTypeOK'
    BY <1>1 DEF IInv, TypeOK, ManifestTypeOK, attemptVars
  <2>2. LearnerTypeOK'
    BY <1>1, <1>5 DEF IInv, TypeOK, LearnerTypeOK
  <2>3. Overflow \subseteq Shards
    BY DEF Overflow, IInv, TypeOK, ManifestTypeOK
  <2>4. ScheduleTypeOK'
    BY <1>1, <2>3 DEF IInv, TypeOK, ScheduleTypeOK, Places
  <2>5. ActorTypeOK'
    BY <1>1, <1>2 DEF IInv, TypeOK, ActorTypeOK
  <2> QED
    BY <2>1, <2>2, <2>4, <2>5 DEF TypeOK
<1>7. Rows' /\ Checkpoints'
  BY <1>1, RowsFrame, CheckpointsFrame DEF IInv, attemptVars
<1>8. Trial'
  <2>1. /\ Told' = Told /\ Offered' = Offered /\ Answered' = Answered
        /\ OnTrial' = OnTrial /\ ~At("decided") /\ ~At("decided")'
        /\ ~At("register")' /\ champion' = champion /\ Saved' = Saved
        /\ coordinator \in Awake /\ coordinator' \in Awake
    BY <1>1, <1>5
       DEF Told, Offered, Answered, OnTrial, Having, Saved, At, Awake, attemptVars
  <2>2. TrainerFollows' /\ TrainerWaits' /\ OneStage' /\ StopFollowsVerdict'
    BY <1>1, <2>1
       DEF IInv, Trial, TrainerFollows, TrainerWaits, OneStage, StopFollowsVerdict
  <2>3. OneMessage' /\ OfferIsAtHand'
    BY <1>1, <1>5, <2>1 DEF IInv, Trial, OneMessage, OfferIsAtHand
  <2>4. VerdictIsBacked'
    <3>1. \A i \in Queued(trainerQ, "decision") : trainerQ'[i] = trainerQ[i]
      BY <1>5 DEF Queued
    <3> QED
      BY <1>1, <1>5, <2>1, <3>1 DEF IInv, Trial, VerdictIsBacked, attemptVars
  <2> QED
    BY <2>2, <2>3, <2>4 DEF Trial
<1>9. /\ Queued(actorQ, "generate") = {} /\ Queued(actorQ, "reload") = {}
      /\ \A i \in DOMAIN actorQ : actorQ[i].type = "arena"
      /\ written = 0
  BY <1>1, EventsFirst
<1>10. Duties'
  <2>1. /\ UNCHANGED <<status, champion, nextShard, actorBusy, arenaWaiting, lifecycle,
                       actorQ>>
        /\ Having("pending")' = Having("pending")
    BY <1>1 DEF Having, attemptVars
  <2>2. CommandsInOrder' /\ EventsInOrder'
    BY <1>2, <1>9, <2>1 DEF IInv, Duties, CommandsInOrder, EventsInOrder
  <2>3. BatchInOrder'
    <3>1. \A i \in Queued(actorEvents', "shard") :
            /\ i \in Nat \ {0} /\ i + 1 \in Queued(actorEvents, "shard")
            /\ actorEvents'[i] = actorEvents[i + 1]
      BY <1>2 DEF Queued
    <3>2. \A i \in Queued(actorEvents', "shard") :
            /\ actorEvents'[i].shard = nextShard + i - 1
            /\ actorEvents'[i].final => i + 1 \notin Queued(actorEvents', "shard")
      <4> TAKE i \in Queued(actorEvents', "shard")
      <4>1. /\ actorEvents[i + 1].shard = nextShard + (i + 1) - 2
            /\ actorEvents[i + 1].final => (i + 1) + 1 \notin Queued(actorEvents, "shard")
        BY <1>1, <3>1 DEF IInv, Duties, BatchInOrder, At
      <4> QED
        BY <3>1, <4>1 DEF IInv, TypeOK, ManifestTypeOK
    <3>3. ~actorBusy => Queued(actorEvents', "shard") = {}
      BY <1>1, <3>1 DEF IInv, Duties, BatchInOrder, At
    <3>4. ~At("retire")' /\ actorQ' = actorQ /\ actorBusy' = actorBusy
          /\ nextShard' = nextShard
      BY <1>1 DEF At
    <3> QED
      BY <1>9, <3>2, <3>3, <3>4 DEF BatchInOrder
  <2>4. GenerationIsDue' /\ ReloadIsDue'
    <3>1. Queued(actorEvents', "reload") = {}
      BY <1>2 DEF IInv, Duties, EventsInOrder, Queued
    <3> QED
      BY <1>9, <2>1, <3>1 DEF GenerationIsDue, ReloadIsDue
  <2>5. ArenaIsDue' /\ EventIsAtHand'
    <3>1. \A i \in Queued(actorEvents', "arena") :
            /\ i + 1 \in Queued(actorEvents, "arena")
            /\ actorEvents'[i] = actorEvents[i + 1]
      BY <1>2 DEF Queued
    <3>2. /\ \A i \in Queued(actorQ, "arena") :
               arenaWaiting /\ Having("pending") = {actorQ[i].attempt}
          /\ \A i \in Queued(actorEvents, "arena") :
               arenaWaiting /\ Having("pending") = {actorEvents[i].attempt}
      BY <1>1 DEF IInv, Duties, ArenaIsDue, At
    <3>3. ~At("retire")' /\ ~At("decided")'
      BY <1>1 DEF At
    <3>4. EventIsAtHand'
      BY <3>3 DEF EventIsAtHand
    <3>5. ArenaIsDue'
      BY <2>1, <3>1, <3>2 DEF ArenaIsDue
    <3> QED
      BY <3>4, <3>5
  <2> QED
    BY <2>2, <2>3, <2>4, <2>5 DEF Duties
<1>11. Files'
  <2>1. ActiveIsBacked'
    BY <1>1 DEF IInv, Files, ActiveIsBacked
  <2>2. BatchIsBacked'
    <3>1. \A i \in Queued(actorEvents', "shard") :
            /\ i + 1 \in Queued(actorEvents, "shard")
            /\ actorEvents'[i] = actorEvents[i + 1]
      BY <1>2 DEF Queued
    <3> QED
      BY <1>1, <1>9, <3>1 DEF IInv, Files, BatchIsBacked, At
  <2>3. /\ \A r \in Overflow : r \notin active' /\ r < nextShard'
        /\ \A r : Retired(r) => r \notin active' /\ r < nextShard' /\ r # s
    BY <1>1, <1>3 DEF IInv, Files, ActiveIsBacked, Overflow, Retired
  <2>4. PoolIsReadable'
    <3>1. s \in files
      BY <1>3 DEF IInv, Files, ActiveIsBacked
    <3>2. \A i \in Queued(trainerQ', "add") :
            \/ i \in Queued(trainerQ, "add") /\ trainerQ'[i] = trainerQ[i]
            \/ trainerQ'[i].shard = s
      BY <1>5 DEF Queued, AddCommand, RemoveCommand
    <3> QED
      BY <1>1, <3>1, <3>2 DEF IInv, Files, PoolIsReadable
  <2>5. RemovalIsLast'
    <3>1. \A j \in Queued(trainerQ', "add") :
            \/ j \in Queued(trainerQ, "add") /\ trainerQ'[j] = trainerQ[j]
            \/ j = Len(trainerQ) + 1 /\ trainerQ'[j].shard = s
      BY <1>5 DEF Queued, AddCommand, RemoveCommand
    <3>2. \A i \in Queued(trainerQ', "remove") :
            \/ i \in Queued(trainerQ, "remove") /\ trainerQ'[i] = trainerQ[i]
            \/ /\ i > Len(trainerQ) + 1
               /\ trainerQ'[i].shard \notin active' /\ trainerQ'[i].shard < nextShard'
      BY <1>5, <2>3 DEF Queued, AddCommand, RemoveCommand
    <3>3. \A i \in Queued(trainerQ', "remove") :
            trainerQ'[i].shard \notin active' /\ trainerQ'[i].shard < nextShard'
      BY <2>3, <3>2 DEF IInv, Files, RemovalIsLast
    <3>4. ASSUME NEW i \in Queued(trainerQ', "remove"),
                 NEW j \in Queued(trainerQ', "add"), j > i
          PROVE  trainerQ'[j].shard # trainerQ'[i].shard
      <4>1. CASE i \in Queued(trainerQ, "remove") /\ trainerQ'[i] = trainerQ[i]
        <5>1. trainerQ[i].shard # s
          BY <2>3, <4>1 DEF IInv, Files, RemovalIsLast
        <5> QED
          BY <3>1, <3>4, <4>1, <5>1 DEF IInv, Files, RemovalIsLast
      <4>2. CASE i > Len(trainerQ) + 1
        <5>1. j \in Nat /\ i \in Nat /\ j \notin 1..Len(trainerQ) /\ j # Len(trainerQ) + 1
          BY <1>5, <3>4, <4>2 DEF Queued
        <5> QED
          BY <1>5, <3>1, <5>1 DEF Queued
      <4> QED
        BY <3>2, <4>1, <4>2
    <3>5. \A i \in Queued(trainerEvents, "remove") :
            /\ trainerEvents[i].shard \notin active'
            /\ trainerEvents[i].shard < nextShard'
            /\ trainerEvents[i].shard \notin trainer.pool
            /\ \A j \in Queued(trainerQ', "add") :
                 trainerQ'[j].shard # trainerEvents[i].shard
      BY <2>3, <3>1 DEF IInv, Files, RemovalIsLast
    <3>6. trainerEvents' = trainerEvents /\ trainer' = trainer
      BY <1>1
    <3> QED
      BY <3>3, <3>4, <3>5, <3>6 DEF RemovalIsLast, Retired
  <2> QED
    BY <2>1, <2>2, <2>4, <2>5 DEF Files
<1> QED
  BY <1>1, <1>6, <1>7, <1>8, <1>10, <1>11, Handled
     DEF IInv, ChildrenRun, Awake, attemptVars

\* The verdict on the candidate on trial, and the new champion with it.
LEMMA DecideCandidateInv == ASSUME IInv, DecideCandidate PROVE IInv'
<1> DEFINE n == actorEvents[1].attempt
<1>1. /\ coordinator = "loop" /\ coordinator' = "decided"
      /\ actorEvents # <<>> /\ Head(actorEvents) = actorEvents[1]
      /\ actorEvents[1].type = "arena" /\ 1 \in DOMAIN actorEvents
      /\ 1 \in Queued(actorEvents, "arena")
      /\ Having("pending") # {} /\ n = Min(Having("pending"))
  BY TailOf DEF DecideCandidate, ActorEvent, At, Goto, Queued, IInv, TypeOK, ActorTypeOK
<1>2. PICK accepted \in BOOLEAN : Decide(n, accepted)
  BY <1>1 DEF DecideCandidate
<1> DEFINE verdict == IF accepted THEN "accepted" ELSE "rejected"
<1>3. /\ UNCHANGED <<submitted, weights, incumbent>>
      /\ status' = [status EXCEPT ![n] = verdict]
      /\ champion' = IF accepted THEN n ELSE champion
      /\ acceptedCount' = IF accepted THEN acceptedCount + 1 ELSE acceptedCount
  BY <1>2 DEF Decide
<1>4. /\ actorBusy' = FALSE /\ arenaWaiting' = FALSE /\ decisions' = decisions + 1
      /\ stopRequested' \in IF decisions' >= CandidateLimit THEN {TRUE} ELSE BOOLEAN
      /\ UNCHANGED <<shardVars, trainerVars, pausedForDebt, trainerBudget,
                     trainerFresh, lifecycle, deletions, actorVars, invocations>>
  BY DEF DecideCandidate, LimitReached
<1>5. /\ Having("pending") = {n} /\ n \in Attempts /\ n # champion /\ n # 0
      /\ champion \in Attempts /\ status[n] = "pending" /\ n \in Saved
  <2>1. Having("pending") = {n} /\ n \in Attempts
    BY <1>1, PendingIsOne DEF IInv, Rows
  <2>2. champion \in Attempts /\ status[0] = "accepted" /\ status[champion] = "accepted"
    BY <1>1 DEF IInv, TypeOK, ManifestTypeOK, ChildrenRun, Awake, Rows, RootIsFirst
  <2> QED
    BY <2>1, <2>2 DEF IInv, Rows, RowsAreBacked, Having
<1>6. /\ actorQ = <<>> /\ DOMAIN actorEvents = {1} /\ Len(actorEvents) = 1
      /\ written = 0
  <2>1. 1 = Len(actorEvents) /\ actorQ = <<>> /\ actorEvents \in Seq(ActorMessages)
    BY <1>1 DEF IInv, TypeOK, ActorTypeOK, Duties, EventsInOrder
  <2> QED
    BY <1>1, <2>1, EventsFirst
<1>7. Orphans = {} /\ candidateFile = NoFile
  BY <1>1 DEF IInv, ChildrenRun, Awake, Checkpoints, OrphanIsAlone, FileIsAlone
<1>8. /\ OnTrial /\ ~Told /\ ~Offered /\ ~Answered /\ trainer.pending
      /\ ~stopRequested /\ decisions < CandidateLimit
  <2>1. OnTrial /\ coordinator \in Awake
    BY <1>1 DEF OnTrial, Awake
  <2>2. /\ ~Told /\ ~Offered /\ ~Answered /\ trainer.pending /\ ~stopRequested
        /\ ~(decisions >= CandidateLimit)
    BY <2>1 DEF IInv, Trial, TrainerWaits, OneStage, StopFollowsVerdict
  <2> QED
    BY <2>1, <2>2, RunAssumption DEF IInv, TypeOK, ScheduleTypeOK
<1>9. TypeOK'
  <2>1. ManifestTypeOK'
    BY <1>3, <1>4, <1>5 DEF IInv, TypeOK, ManifestTypeOK, shardVars
  <2>2. stopRequested' \in BOOLEAN /\ actorBusy' \in BOOLEAN /\ arenaWaiting' \in BOOLEAN
    BY <1>4
  <2>3. decisions' \in 0..CandidateLimit
    BY <1>4, <1>8, RunAssumption DEF IInv, TypeOK, ScheduleTypeOK
  <2>4. ScheduleTypeOK'
    BY <1>1, <1>4, <2>2, <2>3 DEF IInv, TypeOK, ScheduleTypeOK, Places
  <2> QED
    BY <1>4, <2>1, <2>4, LearnerTypeFrame, ActorTypeFrame DEF IInv, TypeOK
<1>10. /\ Having("pending")' = {}
       /\ Having("accepted")' = IF accepted THEN Having("accepted") \cup {n}
                                ELSE Having("accepted")
       /\ Having("none")' = Having("none") /\ Saved' = Saved
       /\ \A m \in Attempts : (status'[m] = "none") = (status[m] = "none")
       /\ \A m \in Attempts : m # n => status'[m] = status[m]
       /\ status'[n] = verdict
  BY <1>3, <1>5 DEF Having, Saved, IInv, TypeOK, ManifestTypeOK
<1>11. Rows'
  <2>1. RowsAreContiguous'
    BY <1>10 DEF IInv, Rows, RowsAreContiguous, IsNextRow
  <2>2. RootIsFirst'
    BY <1>3, <1>5, <1>10, ManifestAssumption
       DEF IInv, Rows, RootIsFirst, Attempts, NoAttempt
  <2>3. LatestIsOnTrial' /\ RowsAreBacked'
    BY <1>5, <1>10 DEF IInv, Rows, LatestIsOnTrial, RowsAreBacked
  <2>4. PromotionsAreCounted'
    <3>1. CASE ~accepted
      BY <1>3, <1>10, <3>1 DEF IInv, Rows, PromotionsAreCounted
    <3>2. CASE accepted
      <4> DEFINE promoted == Having("accepted") \cup {0}
      <4>1. IsFiniteSet(promoted)
        <5>1. IsFiniteSet(Attempts) /\ promoted \subseteq Attempts
          BY ManifestAssumption, FS_Interval DEF Attempts, Having
        <5> QED
          BY <5>1, FS_Subset
      <4>2. n \notin promoted
        BY <1>5 DEF Having
      <4>3. Cardinality(promoted \cup {n}) = Cardinality(promoted) + 1
        BY <4>1, <4>2, FS_AddElement
      <4>4. Having("accepted")' \cup {0} = promoted \cup {n}
        BY <1>10, <3>2
      <4>5. acceptedCount + 1 = Cardinality(promoted) /\ acceptedCount' = acceptedCount + 1
        BY <1>3, <3>2 DEF IInv, Rows, PromotionsAreCounted
      <4> QED
        BY <4>3, <4>4, <4>5 DEF PromotionsAreCounted
    <3> QED
      BY <3>1, <3>2
  <2> QED
    BY <2>1, <2>2, <2>3, <2>4 DEF Rows
<1>12. Checkpoints'
  <2>1. Orphans' = {} /\ candidateFile' = NoFile
    BY <1>4, <1>7, <1>10 DEF Orphans, trainerVars
  <2> QED
    BY <1>1, <2>1 DEF Checkpoints, OrphanIsNext, OrphanIsAlone, FileIsAlone, RowIsDue
<1>13. Trial'
  <2>1. /\ UNCHANGED trainerVars /\ Told' = Told /\ Offered' = Offered
        /\ Answered' = Answered /\ ~OnTrial' /\ At("decided")' /\ ~At("register")'
        /\ candidateFile' = NoFile
    BY <1>1, <1>4, <1>7, <1>10 DEF Told, Offered, Answered, OnTrial, At, Queued, trainerVars
  <2>2. TrainerFollows' /\ TrainerWaits' /\ OneStage'
    BY <1>8, <2>1 DEF IInv, Trial, TrainerFollows, TrainerWaits, OneStage, trainerVars
  <2>3. OneMessage' /\ OfferIsAtHand'
    BY <2>1 DEF IInv, Trial, OneMessage, OfferIsAtHand, trainerVars
  <2>4. VerdictIsBacked'
    BY <1>8, <2>1 DEF VerdictIsBacked, Told
  <2>5. StopFollowsVerdict'
    <3>1. decisions' >= CandidateLimit => stopRequested'
      BY <1>4
    <3> QED
      BY <2>1, <3>1 DEF StopFollowsVerdict
  <2> QED
    BY <2>2, <2>3, <2>4, <2>5 DEF Trial
<1>14. Duties'
  <2>1. /\ actorQ' = <<>> /\ actorEvents' = actorEvents /\ DOMAIN actorEvents = {1}
        /\ Len(actorEvents) = 1 /\ At("decided")' /\ ~At("retire")'
        /\ lifecycle' = lifecycle
    BY <1>1, <1>4, <1>6 DEF actorVars, At
  <2>2. CommandsInOrder' /\ EventsInOrder'
    BY <1>1, <2>1 DEF CommandsInOrder, EventsInOrder
  <2>3. Queued(actorEvents, "shard") = {} /\ Queued(actorEvents, "reload") = {}
    BY <1>1, <2>1 DEF Queued
  <2>4. BatchInOrder' /\ GenerationIsDue' /\ ReloadIsDue' /\ ArenaIsDue'
    BY <2>1, <2>3 DEF BatchInOrder, GenerationIsDue, ReloadIsDue, ArenaIsDue, Queued
  <2>5. EventIsAtHand'
    BY <1>1, <1>5, <1>10, <2>1 DEF EventIsAtHand
  <2> QED
    BY <2>2, <2>4, <2>5 DEF Duties
<1>15. Files'
  BY <1>1, <1>4, FilesFrame DEF IInv, shardVars, trainerVars, actorVars
<1>16. champion' # NoAttempt
  BY <1>3, <1>5, ManifestAssumption DEF Attempts, NoAttempt
<1> QED
  BY <1>1, <1>4, <1>9, <1>11, <1>12, <1>13, <1>14, <1>15, <1>16, Handled
     DEF Awake, trainerVars

\* The checkpoint that the trainer is told to learn from is the champion's, or
\* the incumbent's, which the next pruning keeps.
LEMMA NextLearnerIs ==
  ASSUME IInv, NEW n \in Saved, champion # NoAttempt,
         NEW learner \in Attempts, NextLearner(n, learner)
  PROVE  /\ learner \in Saved /\ learner \in {champion, incumbent'}
         /\ incumbent' \in Attempts \cup {NoAttempt}
         /\ UNCHANGED <<status, submitted, weights, champion, acceptedCount>>
<1>1. champion \in Saved
  BY DEF IInv, TypeOK, ManifestTypeOK, Rows, RootIsFirst, RowsAreBacked, Having
<1> QED
  BY <1>1 DEF NextLearner, SetIncumbent, IncumbentUsable, Saved

\* The verdict is told to the trainer and the actor.
LEMMA DispatchDecisionInv == ASSUME IInv, DispatchDecision PROVE IInv'
<1> DEFINE n == actorEvents[1].attempt
<1>1. /\ coordinator = "decided" /\ coordinator' = "prune" /\ coordinator \in Awake
      /\ actorEvents # <<>> /\ Head(actorEvents) = actorEvents[1]
      /\ actorEvents[1].type = "arena" /\ 1 \in DOMAIN actorEvents
      /\ n \in Attempts /\ n \in Saved /\ champion # NoAttempt
  BY TailOf
     DEF DispatchDecision, At, Goto, IInv, TypeOK, ActorTypeOK, Duties, EventIsAtHand,
       ChildrenRun, Awake, Saved
<1>2. PICK learner \in Attempts :
        /\ NextLearner(n, learner)
        /\ trainerQ' = Append(trainerQ, Decision(n, learner))
  BY <1>1 DEF DispatchDecision
<1>3. /\ learner \in Saved /\ learner \in {champion, incumbent'}
      /\ incumbent' \in Attempts \cup {NoAttempt}
      /\ UNCHANGED <<status, submitted, weights, champion, acceptedCount>>
  BY <1>1, <1>2, NextLearnerIs
<1>4. /\ actorQ' = Append(actorQ, Reload) /\ actorEvents' = Tail(actorEvents)
      /\ lifecycle' = {"actor", "trainer"}
      /\ UNCHANGED <<shardVars, trainer, trainerEvents, learnerFile,
                     candidateFile, actorBusy, arenaWaiting, pausedForDebt,
                     trainerBudget, trainerFresh, stopRequested, decisions,
                     deletions, written, invocations>>
  BY DEF DispatchDecision
<1>5. actorQ' = <<Reload>> /\ actorEvents' = <<>> /\ written = 0
  <2>1. 1 = Len(actorEvents) /\ actorQ = <<>> /\ actorEvents \in Seq(ActorMessages)
    BY <1>1 DEF IInv, TypeOK, ActorTypeOK, Duties, EventsInOrder
  <2> QED
    BY <1>1, <1>4, <2>1, EventsFirst
<1>6. /\ ~OnTrial /\ ~Told /\ ~Offered /\ ~Answered /\ candidateFile = NoFile
      /\ trainer.pending /\ Orphans = {}
  BY <1>1 DEF IInv, Trial, TrainerWaits, OneStage, At, Checkpoints, OrphanIsAlone
<1> DEFINE d == Decision(n, learner)
<1>7. /\ d \in TrainerCommands /\ d.type = "decision" /\ d.champion = champion
      /\ d.learner = learner
  <2>1. /\ champion \in Attempts /\ submitted[n] \in Nat /\ stopRequested \in BOOLEAN
    BY <1>1 DEF IInv, TypeOK, ManifestTypeOK, ScheduleTypeOK
  <2> QED
    BY <2>1 DEF Decision, TrainerCommands
<1>8. trainerQ \in Seq(TrainerCommands) /\ trainerQ' = Append(trainerQ, d)
  BY <1>2 DEF IInv, TypeOK, LearnerTypeOK
<1> HIDE DEF d, n
<1>9. /\ trainerQ' \in Seq(TrainerCommands)
      /\ DOMAIN trainerQ' = DOMAIN trainerQ \cup {Len(trainerQ) + 1}
      /\ \A i \in DOMAIN trainerQ : trainerQ'[i] = trainerQ[i]
      /\ trainerQ'[Len(trainerQ) + 1] = d
      /\ Queued(trainerQ', "decision") = {Len(trainerQ) + 1}
      /\ Queued(trainerQ', "add") = Queued(trainerQ, "add")
      /\ Queued(trainerQ', "remove") = Queued(trainerQ, "remove")
  <2>1. /\ trainerQ' \in Seq(TrainerCommands)
        /\ DOMAIN trainerQ' = DOMAIN trainerQ \cup {Len(trainerQ) + 1}
        /\ \A i \in DOMAIN trainerQ : trainerQ'[i] = trainerQ[i]
        /\ trainerQ'[Len(trainerQ) + 1] = d
    BY <1>7, <1>8, AppendOf
  <2> QED
    BY <1>6, <1>7, <2>1 DEF Queued, Told
<1>10. Reload \in ActorCommands /\ Reload.type = "reload" /\ Reload.champion = champion
  BY <1>1 DEF Reload, ActorCommands, IInv, TypeOK, ManifestTypeOK
<1>11. /\ actorQ' \in Seq(ActorCommands) /\ DOMAIN actorQ' = {1} /\ Len(actorQ') = 1
       /\ actorQ'[1].type = "reload" /\ actorQ'[1].champion = champion
  BY <1>5, <1>10, OnlyOne
<1>12. TypeOK'
  <2>1. ManifestTypeOK'
    BY <1>3, <1>4 DEF IInv, TypeOK, ManifestTypeOK, shardVars
  <2>2. LearnerTypeOK'
    BY <1>4, <1>9 DEF IInv, TypeOK, LearnerTypeOK
  <2>3. ScheduleTypeOK'
    BY <1>1, <1>4 DEF IInv, TypeOK, ScheduleTypeOK, Places
  <2>4. ActorTypeOK'
    <3>1. actorEvents' \in Seq(ActorMessages)
      BY <1>5
    <3>2. written' \in 0..ShardsPerBatch
      BY <1>4 DEF IInv, TypeOK, ActorTypeOK
    <3> QED
      BY <1>11, <3>1, <3>2 DEF ActorTypeOK
  <2> QED
    BY <2>1, <2>2, <2>3, <2>4 DEF TypeOK
<1>13. Rows' /\ Checkpoints'
  BY <1>1, <1>3, <1>4, <1>6, RowsFrame, CheckpointsFrame DEF IInv
<1>14. Trial'
  <2>1. /\ Told' /\ ~OnTrial' /\ ~Offered' /\ ~Answered' /\ ~At("decided")'
        /\ ~At("register")' /\ "trainer" \in lifecycle' /\ candidateFile' = NoFile
        /\ trainerEvents' = trainerEvents /\ trainer' = trainer
        /\ Saved' = Saved
    BY <1>1, <1>3, <1>4, <1>6, <1>9
       DEF Told, OnTrial, Offered, Answered, Having, Saved, At
  <2>2. TrainerFollows' /\ TrainerWaits' /\ OneStage' /\ OfferIsAtHand'
    BY <1>6, <2>1
       DEF IInv, Trial, TrainerFollows, TrainerWaits, OneStage, OfferIsAtHand
  <2>3. OneMessage'
    BY <1>9, <2>1 DEF IInv, Trial, OneMessage
  <2>4. VerdictIsBacked'
    BY <1>3, <1>7, <1>9, <2>1 DEF VerdictIsBacked
  <2>5. StopFollowsVerdict'
    BY <1>4, <2>1 DEF IInv, Trial, StopFollowsVerdict
  <2> QED
    BY <2>2, <2>3, <2>4, <2>5 DEF Trial
<1>15. Duties'
  <2>1. CommandsInOrder' /\ EventsInOrder'
    BY <1>5, <1>11 DEF CommandsInOrder, EventsInOrder
  <2>2. /\ BatchInOrder' /\ GenerationIsDue'
        /\ ~At("decided")' /\ ~At("retire")'
    BY <1>1, <1>5, <1>11 DEF BatchInOrder, GenerationIsDue, Queued, At
  <2>3. ReloadIsDue' /\ ArenaIsDue'
    BY <1>3, <1>4, <1>5, <1>11 DEF ReloadIsDue, ArenaIsDue, Queued
  <2>4. EventIsAtHand'
    BY <2>2 DEF EventIsAtHand
  <2> QED
    BY <2>1, <2>2, <2>3, <2>4 DEF Duties
<1>16. Files'
  <2>1. ActiveIsBacked' /\ BatchIsBacked'
    BY <1>1, <1>4, <1>5
       DEF IInv, Files, ActiveIsBacked, BatchIsBacked, Queued, At, shardVars
  <2>2. \A i \in Queued(trainerQ, "add") \cup Queued(trainerQ, "remove") :
          trainerQ'[i] = trainerQ[i]
    BY <1>9 DEF Queued
  <2>3. PoolIsReadable'
    BY <1>4, <1>9, <2>2 DEF IInv, Files, PoolIsReadable, shardVars
  <2>4. RemovalIsLast'
    BY <1>4, <1>9, <2>2 DEF IInv, Files, RemovalIsLast, Retired, shardVars
  <2> QED
    BY <2>1, <2>3, <2>4 DEF Files
<1> QED
  BY <1>1, <1>3, <1>4, <1>12, <1>13, <1>14, <1>15, <1>16, Handled DEF Awake

\* Pruning takes no checkpoint that anybody needs.
LEMMA PruneRejectedInv == ASSUME IInv, PruneRejected PROVE IInv'
<1>1. /\ coordinator = "prune" /\ coordinator' = "loop" /\ champion # NoAttempt
      /\ UNCHANGED <<status, submitted, champion, acceptedCount, incumbent, shardVars,
                     trainerVars, schedule, actorVars, invocations>>
  BY DEF PruneRejected, Prune, At, Goto, IInv, ChildrenRun, Awake
<1>2. /\ weights' \in [Attempts -> Payloads \cup {NoFile}]
      /\ \A n \in Attempts : weights'[n] \in {weights[n], NoFile}
      /\ \A n \in Attempts : status[n] # "rejected" \/ n = incumbent =>
           weights'[n] = weights[n]
  BY DEF PruneRejected, Prune, IInv, TypeOK, ManifestTypeOK
<1>3. /\ Saved' \subseteq Saved
      /\ \A n \in Saved : status[n] # "rejected" \/ n = incumbent => n \in Saved'
  BY <1>2 DEF Saved
<1>4. Orphans' = {} /\ Orphans = {}
  <2>1. Orphans = {}
    BY <1>1 DEF IInv, Checkpoints, OrphanIsAlone
  <2> QED
    BY <1>1, <1>3, <2>1 DEF Orphans, Having
<1>5. TypeOK'
  <2>1. ManifestTypeOK'
    BY <1>1, <1>2 DEF IInv, TypeOK, ManifestTypeOK, shardVars
  <2>2. ScheduleTypeOK'
    BY <1>1 DEF IInv, TypeOK, ScheduleTypeOK, Places, schedule
  <2> QED
    BY <1>1, <2>1, <2>2, LearnerTypeFrame, ActorTypeFrame DEF IInv, TypeOK
<1>6. Rows'
  <2>1. RowsAreBacked'
    BY <1>1, <1>3 DEF IInv, Rows, RowsAreBacked, Having
  <2> QED
    BY <1>1, <2>1
       DEF IInv, Rows, RowsAreContiguous, IsNextRow, RootIsFirst, LatestIsOnTrial,
         PromotionsAreCounted, Having, trainerVars
<1>7. Checkpoints'
  BY <1>1, <1>4
     DEF IInv, Checkpoints, OrphanIsNext, OrphanIsAlone, FileIsAlone, RowIsDue, Having,
       trainerVars
<1>8. Trial'
  <2>1. VerdictIsBacked'
    <3>1. status[champion] = "accepted"
      BY <1>1 DEF IInv, Rows, RootIsFirst
    <3> QED
      BY <1>1, <1>3, <3>1 DEF IInv, Trial, VerdictIsBacked, trainerVars, Queued
  <2>2. /\ Told' = Told /\ Offered' = Offered /\ Answered' = Answered
        /\ OnTrial' = OnTrial /\ ~At("decided") /\ ~At("decided")' /\ ~At("register")'
        /\ coordinator \in Awake
        /\ UNCHANGED <<trainer, trainerQ, trainerEvents, learnerFile, candidateFile,
                       champion, lifecycle, stopRequested, decisions>>
    BY <1>1
       DEF Told, Offered, Answered, OnTrial, Having, At, Queued, Awake, trainerVars,
         schedule
  <2>3. TrainerFollows' /\ TrainerWaits' /\ OneStage' /\ OneMessage' /\ OfferIsAtHand'
    BY <2>2
       DEF IInv, Trial, TrainerFollows, TrainerWaits, OneStage, OneMessage, OfferIsAtHand
  <2>4. StopFollowsVerdict'
    BY <2>2 DEF IInv, Trial, StopFollowsVerdict
  <2> QED
    BY <2>1, <2>3, <2>4 DEF Trial
<1>9. Duties' /\ Files'
  BY <1>1, DutiesFrame, FilesFrame DEF IInv, shardVars, trainerVars, actorVars, schedule
<1> QED
  BY <1>1, <1>5, <1>6, <1>7, <1>8, <1>9, Handled DEF Awake, trainerVars

\* The actor has loaded the champion.
LEMMA ModelReloadedInv == ASSUME IInv, ModelReloaded PROVE IInv'
<1>1. /\ coordinator = "loop" /\ coordinator' = "loop"
      /\ actorEvents # <<>> /\ actorEvents' = Tail(actorEvents)
      /\ lifecycle' = lifecycle \ {"actor"}
      /\ UNCHANGED <<manifestVars, trainerVars, actorBusy, arenaWaiting, pausedForDebt,
                     trainerBudget, trainerFresh, stopRequested, decisions, deletions,
                     actorQ, written, invocations>>
  BY DEF ModelReloaded, ActorEvent, At
<1>2. /\ Head(actorEvents) = actorEvents[1] /\ actorEvents[1].type = "reload"
      /\ actorEvents \in Seq(ActorMessages) /\ actorEvents' \in Seq(ActorMessages)
      /\ Len(actorEvents') = Len(actorEvents) - 1 /\ Len(actorEvents) \in Nat
      /\ DOMAIN actorEvents = 1..Len(actorEvents)
      /\ \A i \in DOMAIN actorEvents' : /\ i \in Nat \ {0} /\ i + 1 \in DOMAIN actorEvents
                                        /\ actorEvents'[i] = actorEvents[i + 1]
      /\ \A type : \A i \in Nat : i \in Queued(actorEvents', type)
           <=> i # 0 /\ i + 1 \in Queued(actorEvents, type)
  BY <1>1, EventTaken DEF ModelReloaded, ActorEvent
<1>3. /\ Queued(actorQ, "generate") = {} /\ Queued(actorQ, "reload") = {}
      /\ \A i \in DOMAIN actorQ : actorQ[i].type = "arena"
      /\ written = 0
  BY <1>1, EventsFirst
<1>4. \A i \in DOMAIN actorEvents' : actorEvents'[i].type = "arena"
  <2> TAKE i \in DOMAIN actorEvents'
  <2>1. actorEvents'[i].type \in {"shard", "reload", "arena"}
    <3>1. actorEvents'[i] \in ActorMessages
      BY <1>2
    <3> QED
      BY <3>1 DEF ActorMessages
  <2>2. actorEvents[i + 1].type # "shard" /\ actorEvents[i + 1].type # "reload"
    BY <1>2 DEF IInv, Duties, EventsInOrder
  <2> QED
    BY <1>2, <2>1, <2>2
<1>5. TypeOK'
  <2>1. ScheduleTypeOK'
    BY <1>1 DEF IInv, TypeOK, ScheduleTypeOK, Places
  <2>2. ActorTypeOK'
    BY <1>1, <1>2 DEF IInv, TypeOK, ActorTypeOK
  <2> QED
    BY <1>1, <2>1, <2>2, ManifestTypeFrame, LearnerTypeFrame DEF IInv, TypeOK
<1>6. Rows' /\ Checkpoints'
  BY <1>1, RowsFrame, CheckpointsFrame
     DEF IInv, manifestVars, attemptVars, shardVars, trainerVars
<1>7. Trial'
  <2>1. "trainer" \in lifecycle => "trainer" \in lifecycle'
    BY <1>1
  <2> QED
    BY <1>1, <2>1
       DEF IInv, Trial, TrainerFollows, TrainerWaits, OneStage, OneMessage,
         VerdictIsBacked, OfferIsAtHand, StopFollowsVerdict, OnTrial, Told, Offered,
         Answered, At, Awake, Queued, Having, Saved, trainerVars, manifestVars, attemptVars
<1>8. Duties'
  <2>1. /\ actorQ' = actorQ /\ ~At("retire")' /\ ~At("decided")' /\ ~At("decided")
        /\ UNCHANGED <<status, champion, nextShard, actorBusy, arenaWaiting>>
        /\ Having("pending")' = Having("pending")
    BY <1>1 DEF At, manifestVars, attemptVars, shardVars, Having
  <2>2. CommandsInOrder'
    BY <1>3, <2>1 DEF IInv, Duties, CommandsInOrder
  <2>3. EventsInOrder'
    BY <1>2, <1>4, <2>1 DEF IInv, Duties, EventsInOrder
  <2>4. Queued(actorEvents', "shard") = {} /\ Queued(actorEvents', "reload") = {}
    BY <1>4 DEF Queued
  <2>5. BatchInOrder' /\ GenerationIsDue' /\ ReloadIsDue' /\ EventIsAtHand'
    BY <1>3, <2>1, <2>4
       DEF BatchInOrder, GenerationIsDue, ReloadIsDue, EventIsAtHand
  <2>6. ArenaIsDue'
    <3>1. \A i \in Queued(actorEvents', "arena") :
            /\ i + 1 \in Queued(actorEvents, "arena")
            /\ actorEvents'[i] = actorEvents[i + 1]
      BY <1>2 DEF Queued
    <3> QED
      BY <2>1, <3>1 DEF IInv, Duties, ArenaIsDue
  <2> QED
    BY <2>2, <2>3, <2>5, <2>6 DEF Duties
<1>9. Files'
  <2>1. BatchIsBacked'
    <3>1. Queued(actorEvents', "shard") = {} /\ ~At("retire")'
      BY <1>1, <1>4 DEF Queued, At
    <3> QED
      BY <1>1, <1>3, <3>1 DEF BatchIsBacked
  <2>2. ActiveIsBacked' /\ PoolIsReadable' /\ RemovalIsLast'
    BY <1>1 DEF IInv, Files, ActiveIsBacked, PoolIsReadable, RemovalIsLast, Retired,
      Queued, manifestVars, shardVars, trainerVars
  <2> QED
    BY <2>1, <2>2 DEF Files
<1>10. champion' # NoAttempt
  BY <1>1 DEF IInv, ChildrenRun, Awake, manifestVars, attemptVars
<1> QED
  BY <1>1, <1>5, <1>6, <1>7, <1>8, <1>9, <1>10, Handled DEF Awake, trainerVars

-----------------------------------------------------------------------------
(* The coordinator handles what the trainer says.                          *)

\* The coordinator takes an event of the trainer.
LEMMA MessageTaken ==
  ASSUME IInv, trainerEvents # <<>>, trainerEvents' = Tail(trainerEvents)
  PROVE  /\ trainerEvents' \in Seq(TrainerMessages)
         /\ Head(trainerEvents) = trainerEvents[1] /\ trainerEvents[1] \in TrainerMessages
         /\ 1 \in DOMAIN trainerEvents
         /\ \A type : \A i \in Queued(trainerEvents', type) :
              /\ i \in Nat \ {0} /\ i + 1 \in Queued(trainerEvents, type)
              /\ trainerEvents'[i] = trainerEvents[i + 1]
         /\ \A type : \A i \in Queued(trainerEvents, type) : i # 1 =>
              i - 1 \in Nat \ {0} /\ i - 1 \in Queued(trainerEvents', type)
<1>1. trainerEvents \in Seq(TrainerMessages)
  BY DEF IInv, TypeOK, LearnerTypeOK
<1>2. /\ trainerEvents' \in Seq(TrainerMessages)
      /\ Head(trainerEvents) = trainerEvents[1] /\ trainerEvents[1] \in TrainerMessages
      /\ 1 \in DOMAIN trainerEvents
      /\ \A i \in DOMAIN trainerEvents' :
           /\ i \in Nat \ {0} /\ i + 1 \in DOMAIN trainerEvents
           /\ trainerEvents'[i] = trainerEvents[i + 1]
      /\ \A i \in DOMAIN trainerEvents : i # 1 =>
           i - 1 \in Nat \ {0} /\ i - 1 \in DOMAIN trainerEvents'
  BY <1>1, TailOf
<1>3. \A i \in DOMAIN trainerEvents : i # 1 => trainerEvents'[i - 1] = trainerEvents[i]
  BY <1>1, <1>2
<1> QED
  BY <1>2, <1>3 DEF Queued

\* What the coordinator has heard of a removed shard is said no more.
LEMMA RemovalStaysLast ==
  ASSUME IInv, trainerEvents # <<>>, trainerEvents' = Tail(trainerEvents),
         UNCHANGED <<nextShard, active, trainer, trainerQ>>
  PROVE  RemovalIsLast'
<1>1. \A i \in Queued(trainerEvents', "remove") :
        /\ i + 1 \in Queued(trainerEvents, "remove")
        /\ trainerEvents'[i] = trainerEvents[i + 1]
  BY MessageTaken
<1>2. \A i \in Queued(trainerEvents', "remove") :
        /\ Retired(trainerEvents'[i].shard)
        /\ trainerEvents'[i].shard \notin trainer.pool
        /\ \A j \in Queued(trainerQ, "add") :
             trainerQ[j].shard # trainerEvents'[i].shard
  BY <1>1 DEF IInv, Files, RemovalIsLast
<1>3. /\ Queued(trainerQ', "remove") = Queued(trainerQ, "remove")
      /\ Queued(trainerQ', "add") = Queued(trainerQ, "add")
  OBVIOUS
<1> QED
  BY <1>2, <1>3 DEF IInv, Files, RemovalIsLast, Retired

\* Nor does another message than an offer move the candidate on.
LEMMA TrialAfter ==
  ASSUME IInv, coordinator = "loop", coordinator' = "loop",
         trainerEvents # <<>>, trainerEvents' = Tail(trainerEvents),
         trainerEvents[1].type # "candidate",
         \/ lifecycle' = lifecycle
         \/ trainerEvents[1].type = "applied" /\ lifecycle' = lifecycle \ {"trainer"},
         UNCHANGED <<status, weights, champion, incumbent, trainer, trainerQ, learnerFile,
                     candidateFile, stopRequested, decisions>>
  PROVE  Trial'
<1>1. /\ Told' = Told /\ OnTrial' = OnTrial
      /\ ~At("decided") /\ ~At("decided")' /\ ~At("register")'
      /\ coordinator \in Awake /\ Saved' = Saved
  BY DEF Told, OnTrial, Having, Saved, At, Queued, Awake
<1>2. /\ \A i \in Queued(trainerEvents', "candidate") :
           i \in Nat /\ i + 1 \in Queued(trainerEvents, "candidate")
      /\ \A i \in Queued(trainerEvents', "applied") :
           i \in Nat /\ i + 1 \in Queued(trainerEvents, "applied")
  BY MessageTaken
<1>3. (Offered' => Offered) /\ (Answered' => Answered)
  BY <1>2 DEF Offered, Answered
<1>4. trainerEvents[1].type = "applied" => Answered
  BY MessageTaken DEF Answered, Queued
<1>5. TrainerFollows' /\ TrainerWaits' /\ OneStage' /\ StopFollowsVerdict' /\ OfferIsAtHand'
  BY <1>1, <1>3, <1>4
     DEF IInv, Trial, TrainerFollows, TrainerWaits, OneStage, StopFollowsVerdict,
       OfferIsAtHand
<1>6. OneMessage'
  <2>1. \A i, j \in Queued(trainerEvents', "candidate") : i = j
    BY <1>2 DEF IInv, Trial, OneMessage
  <2>2. ASSUME NEW i \in Queued(trainerEvents', "applied"),
               NEW j \in Queued(trainerEvents', "candidate")
        PROVE  i < j
    <3>1. i + 1 < j + 1 /\ i \in Nat /\ j \in Nat
      BY <1>2 DEF IInv, Trial, OneMessage
    <3> QED
      BY <3>1
  <2> QED
    BY <1>1, <2>1, <2>2 DEF IInv, Trial, OneMessage
<1>7. VerdictIsBacked'
  BY <1>1 DEF IInv, Trial, VerdictIsBacked
<1> QED
  BY <1>5, <1>6, <1>7 DEF Trial

\* A file goes when the coordinator hears that the trainer has let go of it.
LEMMA ShardRemovedInv == ASSUME IInv, ShardRemoved PROVE IInv'
<1> DEFINE s == trainerEvents[1].shard
<1>1. /\ coordinator = "loop" /\ coordinator' = "loop" /\ coordinator \in Awake
      /\ trainerEvents # <<>> /\ trainerEvents' = Tail(trainerEvents)
      /\ Head(trainerEvents) = trainerEvents[1] /\ trainerEvents[1].type = "remove"
      /\ 1 \in Queued(trainerEvents, "remove") /\ trainerEvents' \in Seq(TrainerMessages)
  BY MessageTaken
     DEF ShardRemoved, TrainerEvent, TakeTrainerEvent, At, Queued, Awake
<1>2. /\ files' \in {files, files \ {s}} /\ deletions' = deletions \ {s}
      /\ UNCHANGED <<attemptVars, nextShard, active, trainer, trainerQ, learnerFile,
                     candidateFile, actorBusy, arenaWaiting, pausedForDebt,
                     trainerBudget, trainerFresh, stopRequested, lifecycle, decisions,
                     actorVars, invocations>>
  BY <1>1 DEF ShardRemoved, TakeTrainerEvent
<1>3. /\ Retired(s) /\ s \notin trainer.pool
      /\ \A j \in Queued(trainerQ, "add") : trainerQ[j].shard # s
  BY <1>1 DEF IInv, Files, RemovalIsLast
<1>4. TypeOK'
  <2>1. ManifestTypeOK'
    BY <1>2 DEF IInv, TypeOK, ManifestTypeOK, attemptVars
  <2>2. LearnerTypeOK'
    BY <1>1, <1>2 DEF IInv, TypeOK, LearnerTypeOK
  <2>3. ScheduleTypeOK'
    BY <1>1, <1>2 DEF IInv, TypeOK, ScheduleTypeOK
  <2> QED
    BY <1>2, <2>1, <2>2, <2>3, ActorTypeFrame DEF IInv, TypeOK
<1>5. Rows' /\ Checkpoints'
  BY <1>1, <1>2, RowsFrame, CheckpointsFrame DEF IInv, attemptVars
<1>6. Trial'
  BY <1>1, <1>2, TrialAfter DEF attemptVars
<1>7. Duties'
  BY <1>1, <1>2, DutiesFrame DEF IInv, attemptVars, actorVars
<1>8. Files'
  <2>1. ActiveIsBacked'
    BY <1>2, <1>3 DEF IInv, Files, ActiveIsBacked, Retired
  <2>2. BatchIsBacked'
    <3>1. /\ nextShard \in Nat /\ s < nextShard /\ s \in Nat
          /\ written \in Nat
      <4>1. s \in Shards
        <5>1. trainerEvents[1] \in TrainerMessages
          BY <1>1, MessageTaken
        <5> QED
          BY <1>1, <5>1 DEF TrainerMessages
      <4> QED
        BY <1>3, <4>1, ManifestAssumption
           DEF Retired, Shards, IInv, TypeOK, ManifestTypeOK, ActorTypeOK
    <3>2. Queued(actorQ, "generate") # {} =>
            \A k \in 0..(written - 1) : nextShard + k \in files'
      BY <1>2, <3>1 DEF IInv, Files, BatchIsBacked
    <3>3. \A i \in Queued(actorEvents, "shard") : actorEvents[i].shard \in files'
      <4> TAKE i \in Queued(actorEvents, "shard")
      <4>1. actorEvents[i].shard = nextShard + i - 1 /\ actorEvents[i].shard \in files
        BY <1>1 DEF IInv, Duties, BatchInOrder, Files, BatchIsBacked, At
      <4>2. i \in Nat \ {0}
        BY DEF Queued, IInv, TypeOK, ActorTypeOK
      <4> QED
        BY <1>2, <3>1, <4>1, <4>2
    <3> QED
      BY <1>1, <1>2, <3>2, <3>3 DEF IInv, Files, BatchIsBacked, At, actorVars
  <2>3. PoolIsReadable'
    BY <1>2, <1>3 DEF IInv, Files, PoolIsReadable
  <2>4. RemovalIsLast'
    BY <1>1, <1>2, RemovalStaysLast
  <2> QED
    BY <2>1, <2>2, <2>3, <2>4 DEF Files
<1>9. champion' # NoAttempt
  BY <1>1, <1>2 DEF IInv, ChildrenRun, attemptVars
<1> QED
  BY <1>1, <1>2, <1>4, <1>5, <1>6, <1>7, <1>8, <1>9, Handled

\* The trainer has taken in the verdict.
LEMMA DecisionAppliedInv == ASSUME IInv, DecisionApplied PROVE IInv'
<1>1. /\ coordinator = "loop" /\ coordinator' = "loop" /\ coordinator \in Awake
      /\ trainerEvents # <<>> /\ trainerEvents' = Tail(trainerEvents)
      /\ Head(trainerEvents) = trainerEvents[1] /\ trainerEvents[1].type = "applied"
      /\ trainerEvents' \in Seq(TrainerMessages) /\ trainerEvents[1] \in TrainerMessages
  BY MessageTaken
     DEF DecisionApplied, TrainerEvent, TakeTrainerEvent, At, Awake
<1>2. /\ lifecycle' = lifecycle \ {"trainer"} /\ trainerFresh' = trainerEvents[1].fresh
      /\ UNCHANGED <<manifestVars, trainer, trainerQ, learnerFile, candidateFile,
                     actorBusy, arenaWaiting, pausedForDebt, trainerBudget,
                     stopRequested, decisions, deletions, actorVars, invocations>>
  BY <1>1 DEF DecisionApplied, TakeTrainerEvent
<1>3. TypeOK'
  <2>1. LearnerTypeOK'
    BY <1>1, <1>2 DEF IInv, TypeOK, LearnerTypeOK
  <2>2. trainerFresh' \in Nat
    BY <1>1, <1>2 DEF TrainerMessages
  <2>3. ScheduleTypeOK'
    BY <1>1, <1>2, <2>2 DEF IInv, TypeOK, ScheduleTypeOK
  <2> QED
    BY <1>2, <2>1, <2>3, ManifestTypeFrame, ActorTypeFrame DEF IInv, TypeOK
<1>4. Rows' /\ Checkpoints'
  BY <1>1, <1>2, RowsFrame, CheckpointsFrame DEF IInv, manifestVars, attemptVars
<1>5. Trial'
  BY <1>1, <1>2, TrialAfter DEF manifestVars, attemptVars
<1>6. Duties'
  <2>1. /\ lifecycle = {} => lifecycle' = {}
        /\ "actor" \in lifecycle => "actor" \in lifecycle'
        /\ UNCHANGED <<status, weights, champion, nextShard, actorBusy, arenaWaiting,
                       actorQ, actorEvents, coordinator>>
    BY <1>1, <1>2 DEF manifestVars, attemptVars, shardVars, actorVars
  <2>2. GenerationIsDue' /\ ReloadIsDue'
    BY <2>1 DEF IInv, Duties, GenerationIsDue, ReloadIsDue
  <2>3. CommandsInOrder' /\ EventsInOrder' /\ BatchInOrder'
    BY <2>1 DEF IInv, Duties, CommandsInOrder, EventsInOrder, BatchInOrder, Queued, At
  <2>4. ArenaIsDue' /\ EventIsAtHand'
    BY <2>1 DEF IInv, Duties, ArenaIsDue, EventIsAtHand, Queued, Having, Saved, At
  <2> QED
    BY <2>2, <2>3, <2>4 DEF Duties
<1>7. Files'
  <2>1. RemovalIsLast'
    BY <1>1, <1>2, RemovalStaysLast DEF manifestVars, shardVars
  <2> QED
    BY <1>1, <1>2, <2>1
       DEF IInv, Files, ActiveIsBacked, BatchIsBacked, PoolIsReadable, Queued, At,
         manifestVars, shardVars, actorVars
<1>8. champion' # NoAttempt
  BY <1>1, <1>2 DEF IInv, ChildrenRun, manifestVars, attemptVars
<1> QED
  BY <1>1, <1>2, <1>3, <1>4, <1>5, <1>6, <1>7, <1>8, Handled

\* The trainer reports its budget and its fresh games.
LEMMA TrainerProgressInv == ASSUME IInv, TrainerProgress PROVE IInv'
<1>1. /\ coordinator = "loop" /\ coordinator' = "loop" /\ coordinator \in Awake
      /\ trainerEvents # <<>> /\ trainerEvents' = Tail(trainerEvents)
      /\ Head(trainerEvents) = trainerEvents[1] /\ trainerEvents[1].type = "progress"
      /\ trainerEvents' \in Seq(TrainerMessages) /\ trainerEvents[1] \in TrainerMessages
  BY MessageTaken
     DEF TrainerProgress, TrainerEvent, TakeTrainerEvent, At, Awake
<1>2. /\ trainerBudget' = trainerEvents[1].budget
      /\ trainerFresh' = trainerEvents[1].fresh
      /\ UNCHANGED <<manifestVars, trainer, trainerQ, learnerFile, candidateFile,
                     actorBusy, arenaWaiting, pausedForDebt, stopRequested, lifecycle,
                     decisions, deletions, actorVars, invocations>>
  BY <1>1 DEF TrainerProgress, TakeTrainerEvent
<1>3. TypeOK'
  <2>1. LearnerTypeOK'
    BY <1>1, <1>2 DEF IInv, TypeOK, LearnerTypeOK
  <2>2. trainerFresh' \in Nat /\ trainerBudget' \in Nat
    BY <1>1, <1>2 DEF TrainerMessages
  <2>3. ScheduleTypeOK'
    BY <1>1, <1>2, <2>2 DEF IInv, TypeOK, ScheduleTypeOK
  <2> QED
    BY <1>2, <2>1, <2>3, ManifestTypeFrame, ActorTypeFrame DEF IInv, TypeOK
<1>4. Rows' /\ Checkpoints'
  BY <1>1, <1>2, RowsFrame, CheckpointsFrame DEF IInv, manifestVars, attemptVars
<1>5. Trial'
  BY <1>1, <1>2, TrialAfter DEF manifestVars, attemptVars
<1>6. Duties'
  BY <1>1, <1>2, DutiesFrame DEF IInv, manifestVars, attemptVars, shardVars, actorVars
<1>7. Files'
  <2>1. RemovalIsLast'
    BY <1>1, <1>2, RemovalStaysLast DEF manifestVars, shardVars
  <2> QED
    BY <1>1, <1>2, <2>1
       DEF IInv, Files, ActiveIsBacked, BatchIsBacked, PoolIsReadable, Queued, At,
         manifestVars, shardVars, actorVars
<1>8. champion' # NoAttempt
  BY <1>1, <1>2 DEF IInv, ChildrenRun, manifestVars, attemptVars
<1> QED
  BY <1>1, <1>2, <1>3, <1>4, <1>5, <1>6, <1>7, <1>8, Handled

\* A candidate is moved from its file to its attempt.
LEMMA ReceiveCandidateInv == ASSUME IInv, ReceiveCandidate PROVE IInv'
<1>1. /\ coordinator = "loop" /\ coordinator' = "register" /\ coordinator \in Awake
      /\ trainerEvents # <<>> /\ Head(trainerEvents).type = "candidate"
      /\ MoveCandidate
      /\ UNCHANGED <<shardVars, trainer, trainerQ, trainerEvents, learnerFile,
                     schedule, actorVars, invocations>>
  BY DEF ReceiveCandidate, TrainerEvent, At, Goto, Awake
<1>2. Orphans = {} /\ champion # NoAttempt
  BY <1>1 DEF IInv, ChildrenRun, Awake, Checkpoints, OrphanIsAlone
<1>3. /\ ManifestTypeOK' /\ Rows' /\ Checkpoints'
      /\ candidateFile' = NoFile
  BY <1>1, <1>2, CandidateMoves DEF IInv
<1>4. /\ UNCHANGED <<status, submitted, champion, acceptedCount, incumbent>>
  BY <1>1 DEF MoveCandidate, SaveAttempt
<1>5. TypeOK'
  <2>1. LearnerTypeOK'
    BY <1>1, <1>3 DEF IInv, TypeOK, LearnerTypeOK
  <2>2. ScheduleTypeOK'
    BY <1>1 DEF IInv, TypeOK, ScheduleTypeOK, Places, schedule
  <2> QED
    BY <1>1, <1>3, <2>1, <2>2, ActorTypeFrame DEF IInv, TypeOK
<1>6. Trial'
  <2>1. 1 \in Queued(trainerEvents, "candidate")
    BY <1>1, TailOf DEF Queued, IInv, TypeOK, LearnerTypeOK
  <2>2. Offered /\ ~Told /\ ~OnTrial /\ ~At("decided") /\ ~At("decided")'
    BY <1>1, <2>1 DEF Offered, IInv, Trial, OneStage, At
  <2>3. /\ Offered' = Offered /\ Told' = Told /\ OnTrial' = OnTrial
        /\ Answered' = Answered /\ champion' = champion
        /\ UNCHANGED <<trainer, trainerQ, trainerEvents, learnerFile, stopRequested,
                       decisions>>
    BY <1>1, <1>4 DEF Offered, Told, OnTrial, Answered, Having, Queued, schedule
  <2>4. TrainerFollows' /\ TrainerWaits' /\ OneStage' /\ OneMessage' /\ StopFollowsVerdict'
    BY <1>1, <2>2, <2>3
       DEF IInv, Trial, TrainerFollows, TrainerWaits, OneStage, OneMessage,
         StopFollowsVerdict
  <2>5. VerdictIsBacked' /\ OfferIsAtHand'
    BY <1>1, <2>2, <2>3 DEF VerdictIsBacked, OfferIsAtHand, Told
  <2> QED
    BY <2>4, <2>5 DEF Trial
<1>7. Duties' /\ Files'
  BY <1>1, <1>4, DutiesFrame, FilesFrame DEF IInv, shardVars, actorVars, schedule
<1> QED
  BY <1>1, <1>2, <1>3, <1>4, <1>5, <1>6, <1>7, Handled DEF Awake

\* The candidate gets its row, and its arena unless the run is to stop.
LEMMA RegisterCandidateInv == ASSUME IInv, RegisterCandidate PROVE IInv'
<1>1. /\ coordinator = "register" /\ coordinator' = "loop" /\ coordinator \in Awake
      /\ trainerEvents # <<>> /\ trainerEvents' = Tail(trainerEvents)
      /\ Head(trainerEvents) = trainerEvents[1] /\ trainerEvents[1].type = "candidate"
      /\ trainerEvents' \in Seq(TrainerMessages) /\ trainerEvents[1].fresh \in Nat
      /\ 1 \in Queued(trainerEvents, "candidate") /\ champion # NoAttempt
  <2>1. /\ coordinator = "register" /\ coordinator' = "loop"
        /\ trainerEvents' = Tail(trainerEvents)
        /\ trainerEvents # <<>> /\ Head(trainerEvents).type = "candidate"
    BY DEF RegisterCandidate, TakeTrainerEvent, At, Goto, IInv, Trial, OfferIsAtHand
  <2>2. /\ Head(trainerEvents) = trainerEvents[1]
        /\ trainerEvents[1] \in TrainerMessages /\ 1 \in DOMAIN trainerEvents
        /\ trainerEvents' \in Seq(TrainerMessages)
    BY <2>1, MessageTaken
  <2> QED
    BY <2>1, <2>2 DEF TrainerMessages, Queued, IInv, ChildrenRun, Awake
<1>2. PICK n \in Orphans : TRUE
  BY <1>1 DEF IInv, Checkpoints, RowIsDue
<1>3. n = NextAttempt /\ n \in Attempts /\ n \in Saved
  BY OrphanIsOne DEF IInv, TypeOK, Checkpoints, Orphans
<1>4. /\ UNCHANGED <<shardVars, candidateFile, trainer, trainerQ, learnerFile, actorBusy,
                     pausedForDebt, trainerBudget, trainerFresh, stopRequested,
                     lifecycle, decisions, deletions, actorEvents, written, invocations>>
      /\ \/ /\ stopRequested /\ AddInterrupted(n)
            /\ UNCHANGED <<arenaWaiting, actorQ>>
         \/ /\ ~stopRequested /\ AddPending(n, trainerEvents[1].fresh)
            /\ arenaWaiting' = TRUE /\ actorQ' = Append(actorQ, Arena(n))
  BY <1>1, <1>3 DEF RegisterCandidate, TakeTrainerEvent
<1>5. /\ ManifestTypeOK' /\ Rows' /\ Checkpoints' /\ Having("pending") = {}
      /\ AddInterrupted(n) => Having("pending")' = {}
      /\ ~AddInterrupted(n) => Having("pending")' = {n}
  <2>1. AddInterrupted(n) \/ \E fresh \in Nat : AddPending(n, fresh)
    BY <1>1, <1>4
  <2> QED
    BY <1>1, <1>4, <2>1, RowIsAdded DEF IInv
<1>6. UNCHANGED <<weights, champion, acceptedCount, incumbent>>
  BY <1>4 DEF AddInterrupted, AddPending
<1>7. /\ \/ stopRequested /\ Having("pending")' = {} /\ UNCHANGED <<arenaWaiting, actorQ>>
         \/ /\ ~stopRequested /\ Having("pending")' = {n}
            /\ arenaWaiting' = TRUE /\ actorQ' = Append(actorQ, Arena(n))
  <2>1. CASE AddInterrupted(n)
    <3>1. stopRequested
      <4> SUFFICES ASSUME AddPending(n, trainerEvents[1].fresh) PROVE FALSE
        BY <1>4
      <4>1. status'[n] = "pending" /\ status'[n] = "interrupted"
        BY <1>3, <2>1 DEF AddPending, AddInterrupted, IInv, TypeOK, ManifestTypeOK
      <4> QED
        BY <4>1
    <3> QED
      BY <1>4, <1>5, <2>1, <3>1
  <2>2. CASE ~AddInterrupted(n)
    BY <1>4, <1>5, <2>2
  <2> QED
    BY <2>1, <2>2
<1>8. /\ actorQ \in Seq(ActorCommands) /\ Arena(n) \in ActorCommands
      /\ Arena(n).type = "arena" /\ Arena(n).attempt = n
  BY <1>3 DEF IInv, TypeOK, ActorTypeOK, Arena, ActorCommands
<1>9. TypeOK'
  <2>1. LearnerTypeOK'
    BY <1>1, <1>4 DEF IInv, TypeOK, LearnerTypeOK
  <2>2. arenaWaiting' \in BOOLEAN
    BY <1>4 DEF IInv, TypeOK, ScheduleTypeOK
  <2>3. ScheduleTypeOK'
    BY <1>1, <1>4, <2>2 DEF IInv, TypeOK, ScheduleTypeOK, Places
  <2>4. ActorTypeOK'
    <3>1. actorQ' \in Seq(ActorCommands)
      BY <1>7, <1>8, AppendOf
    <3> QED
      BY <1>4, <3>1 DEF IInv, TypeOK, ActorTypeOK
  <2> QED
    BY <1>5, <2>1, <2>3, <2>4 DEF TypeOK
<1>10. Trial'
  <2>1. /\ Offered /\ ~Told /\ ~Answered /\ trainer.pending
        /\ ~At("decided") /\ ~At("decided")'
    <3>1. Offered /\ ~At("decided") /\ ~At("decided")'
      BY <1>1 DEF Offered, At
    <3>2. ~Answered
      <4> SUFFICES ASSUME NEW i \in Queued(trainerEvents, "applied") PROVE FALSE
        BY DEF Answered
      <4>1. i < 1 /\ i \in DOMAIN trainerEvents
        BY <1>1 DEF IInv, Trial, OneMessage, Queued
      <4> QED
        BY <4>1 DEF IInv, TypeOK, LearnerTypeOK
    <3> QED
      BY <1>1, <3>1, <3>2 DEF IInv, Trial, TrainerWaits, OneStage
  <2>2. Queued(trainerEvents', "candidate") = {} /\ Queued(trainerEvents', "applied") = {}
    <3>1. /\ \A i \in Queued(trainerEvents', "candidate") :
               i \in Nat \ {0} /\ i + 1 \in Queued(trainerEvents, "candidate")
          /\ \A i \in Queued(trainerEvents', "applied") :
               i \in Nat \ {0} /\ i + 1 \in Queued(trainerEvents, "applied")
      BY <1>1, MessageTaken
    <3>2. \A i \in Queued(trainerEvents, "candidate") : i = 1
      BY <1>1 DEF IInv, Trial, OneMessage
    <3> QED
      BY <2>1, <3>1, <3>2 DEF Answered
  <2>3. ~Offered' /\ ~Told' /\ ~Answered'
    BY <1>4, <2>1, <2>2 DEF Offered, Told, Answered
  <2>4. OnTrial' => ~stopRequested
    BY <1>7 DEF OnTrial
  <2>5. TrainerFollows' /\ TrainerWaits' /\ OneStage'
    BY <1>1, <1>4, <1>6, <2>1, <2>3
       DEF IInv, Trial, TrainerFollows, TrainerWaits, OneStage
  <2>6. OneMessage'
    BY <1>4, <2>2 DEF IInv, Trial, OneMessage
  <2>7. VerdictIsBacked' /\ OfferIsAtHand'
    BY <1>1, <2>3 DEF VerdictIsBacked, OfferIsAtHand, Told, At
  <2>8. StopFollowsVerdict'
    BY <1>4, <1>6, <2>1, <2>4 DEF IInv, Trial, StopFollowsVerdict
  <2> QED
    BY <2>5, <2>6, <2>7, <2>8 DEF Trial
<1>11. /\ \A i \in DOMAIN actorQ : actorQ[i].type # "arena"
       /\ \A i \in DOMAIN actorEvents : actorEvents[i].type # "arena"
       /\ ~At("decided")' /\ ~At("retire")' /\ ~At("retire")
  BY <1>1, <1>5 DEF IInv, Duties, ArenaIsDue, Queued, At
<1>12. /\ DOMAIN actorQ \subseteq DOMAIN actorQ'
       /\ \A i \in DOMAIN actorQ : actorQ'[i] = actorQ[i]
       /\ \A i \in DOMAIN actorQ' \ DOMAIN actorQ :
            /\ i = Len(actorQ') /\ actorQ'[i].type = "arena" /\ actorQ'[i].attempt = n
            /\ arenaWaiting' /\ Having("pending")' = {n}
  BY <1>7, <1>8, AppendOf
<1>13. /\ Queued(actorQ', "generate") = Queued(actorQ, "generate")
       /\ Queued(actorQ', "reload") = Queued(actorQ, "reload")
  BY <1>12 DEF Queued
<1>14. Duties'
  <2>1. /\ UNCHANGED <<actorEvents, nextShard, champion, actorBusy, lifecycle>>
    BY <1>4, <1>6 DEF shardVars
  <2>2. CommandsInOrder'
    BY <1>11, <1>12, <2>1 DEF IInv, Duties, CommandsInOrder
  <2>3. EventsInOrder' /\ BatchInOrder'
    BY <1>11, <1>13, <2>1 DEF IInv, Duties, EventsInOrder, BatchInOrder
  <2>4. \A i \in Queued(actorQ, "generate") \cup Queued(actorQ, "reload") :
          actorQ'[i] = actorQ[i]
    BY <1>12 DEF Queued
  <2>5. GenerationIsDue' /\ ReloadIsDue'
    BY <1>13, <2>1, <2>4 DEF IInv, Duties, GenerationIsDue, ReloadIsDue
  <2>6. EventIsAtHand'
    BY <1>11 DEF EventIsAtHand
  <2>7. ArenaIsDue'
    BY <1>11, <1>12, <2>1 DEF ArenaIsDue, Queued
  <2> QED
    BY <2>2, <2>3, <2>5, <2>6, <2>7 DEF Duties
<1>15. Files'
  <2>1. BatchIsBacked'
    BY <1>4, <1>11, <1>13 DEF IInv, Files, BatchIsBacked, shardVars
  <2>2. RemovalIsLast'
    BY <1>1, <1>4, RemovalStaysLast DEF shardVars
  <2>3. ActiveIsBacked' /\ PoolIsReadable'
    BY <1>4 DEF IInv, Files, ActiveIsBacked, PoolIsReadable, shardVars
  <2> QED
    BY <2>1, <2>2, <2>3 DEF Files
<1> QED
  BY <1>1, <1>4, <1>5, <1>6, <1>9, <1>10, <1>14, <1>15, Handled DEF Awake

-----------------------------------------------------------------------------
(* The end of a pass, and all steps together.                              *)

\* More games are asked for only when nothing else is under way.
LEMMA EndPassInv == ASSUME IInv, EndPass PROVE IInv'
<1>1. /\ coordinator = "loop" /\ coordinator' = "loop" /\ coordinator \in Awake
      /\ champion \in Attempts /\ champion # NoAttempt
      /\ UNCHANGED <<manifestVars, trainerVars, arenaWaiting, trainerBudget,
                     trainerFresh, stopRequested, lifecycle, decisions, deletions,
                     actorEvents, written, invocations>>
      /\ pausedForDebt' \in {TRUE, FALSE, pausedForDebt}
      /\ \/ UNCHANGED <<actorQ, actorBusy>>
         \/ /\ ~actorBusy /\ ~arenaWaiting /\ lifecycle = {}
            /\ actorQ' = Append(actorQ, Generate) /\ actorBusy' = TRUE
  BY DEF EndPass, UpdateDebt, MayGenerate, QueueGeneration, At, Awake, IInv, ChildrenRun,
    TypeOK, ManifestTypeOK
<1>2. Rows' /\ Checkpoints' /\ Trial'
  BY <1>1, RowsFrame, CheckpointsFrame, TrialFrame
     DEF IInv, manifestVars, attemptVars, trainerVars
<1>3. ScheduleTypeOK'
  <2>1. pausedForDebt' \in BOOLEAN /\ actorBusy' \in BOOLEAN
    BY <1>1 DEF IInv, TypeOK, ScheduleTypeOK
  <2> QED
    BY <1>1, <2>1 DEF IInv, TypeOK, ScheduleTypeOK
<1>4. CASE UNCHANGED <<actorQ, actorBusy>>
  <2>1. TypeOK'
    BY <1>1, <1>3, <1>4, ManifestTypeFrame, LearnerTypeFrame, ActorTypeFrame
       DEF IInv, TypeOK, actorVars
  <2>2. Duties' /\ Files'
    BY <1>1, <1>4, DutiesFrame, FilesFrame
       DEF IInv, manifestVars, attemptVars, shardVars, trainerVars
  <2> QED
    BY <1>1, <1>2, <2>1, <2>2, Handled DEF manifestVars, attemptVars, trainerVars
<1>5. CASE /\ ~actorBusy /\ ~arenaWaiting /\ lifecycle = {}
           /\ actorQ' = Append(actorQ, Generate) /\ actorBusy' = TRUE
  <2>1. /\ Queued(actorQ, "generate") = {} /\ Queued(actorQ, "reload") = {}
        /\ Queued(actorQ, "arena") = {} /\ Queued(actorEvents, "shard") = {}
        /\ Queued(actorEvents, "reload") = {} /\ Queued(actorEvents, "arena") = {}
    BY <1>1, <1>5
       DEF IInv, Duties, BatchInOrder, ReloadIsDue, ArenaIsDue, At
  <2>2. actorQ = <<>> /\ actorEvents = <<>>
    <3>1. /\ actorQ \in Seq(ActorCommands) /\ actorEvents \in Seq(ActorMessages)
      BY DEF IInv, TypeOK, ActorTypeOK
    <3>2. /\ \A c \in ActorCommands : c.type \in {"generate", "arena", "reload"}
          /\ \A e \in ActorMessages : e.type \in {"shard", "arena", "reload"}
      BY DEF ActorCommands, ActorMessages
    <3>3. ~\E i \in DOMAIN actorQ : actorQ[i].type \in {"generate", "arena", "reload"}
      BY <2>1 DEF Queued
    <3>4. ~\E i \in DOMAIN actorEvents :
            actorEvents[i].type \in {"shard", "arena", "reload"}
      BY <2>1 DEF Queued
    <3> QED
      BY <3>1, <3>2, <3>3, <3>4
  <2>3. written = 0
    BY <2>1 DEF IInv, Files, BatchIsBacked
  <2>4. /\ Generate \in ActorCommands /\ Generate.type = "generate"
        /\ Generate.champion = champion /\ Generate.first = nextShard
    BY <1>1 DEF Generate, ActorCommands, IInv, TypeOK, ManifestTypeOK
  <2>5. actorQ' = <<Generate>>
    BY <1>5, <2>2
  <2>6. /\ actorQ' \in Seq(ActorCommands) /\ DOMAIN actorQ' = {1} /\ Len(actorQ') = 1
        /\ actorQ'[1].type = "generate" /\ actorQ'[1].champion = champion
        /\ actorQ'[1].first = nextShard
    BY <2>4, <2>5, OnlyOne
  <2>7. TypeOK'
    <3>1. ActorTypeOK'
      BY <1>1, <2>6 DEF IInv, TypeOK, ActorTypeOK
    <3> QED
      BY <1>1, <1>3, <3>1, ManifestTypeFrame, LearnerTypeFrame DEF IInv, TypeOK
  <2>8. Duties'
    <3>1. /\ actorEvents' = <<>> /\ lifecycle' = {} /\ champion' = champion
          /\ nextShard' = nextShard /\ actorBusy' /\ ~At("retire")' /\ ~At("decided")'
      BY <1>1, <1>5, <2>2 DEF manifestVars, attemptVars, shardVars, At
    <3>2. CommandsInOrder' /\ EventsInOrder' /\ EventIsAtHand'
      BY <2>6, <3>1 DEF CommandsInOrder, EventsInOrder, EventIsAtHand
    <3>3. BatchInOrder' /\ GenerationIsDue' /\ ReloadIsDue' /\ ArenaIsDue'
      BY <2>6, <3>1
         DEF BatchInOrder, GenerationIsDue, ReloadIsDue, ArenaIsDue, Queued
    <3> QED
      BY <3>2, <3>3 DEF Duties
  <2>9. Files'
    <3>1. BatchIsBacked'
      BY <1>1, <2>2, <2>3 DEF BatchIsBacked, Queued, At
    <3>2. ActiveIsBacked' /\ PoolIsReadable' /\ RemovalIsLast'
      BY <1>1 DEF IInv, Files, ActiveIsBacked, PoolIsReadable, RemovalIsLast, Retired,
        Queued, manifestVars, shardVars, trainerVars
    <3> QED
      BY <3>1, <3>2 DEF Files
  <2> QED
    BY <1>1, <1>2, <2>7, <2>8, <2>9, Handled DEF manifestVars, attemptVars, trainerVars
<1> QED
  BY <1>1, <1>4, <1>5

\* Nothing happens.
LEMMA StutterInv == ASSUME IInv, UNCHANGED vars PROVE IInv'
<1>1. TypeOK'
  <2>1. ScheduleTypeOK'
    BY DEF IInv, TypeOK, ScheduleTypeOK, vars, schedule
  <2> QED
    BY <2>1, ManifestTypeFrame, LearnerTypeFrame, ActorTypeFrame DEF IInv, TypeOK, vars
<1>2. ChildrenSleep' /\ ChildrenRun'
  BY DEF IInv, ChildrenSleep, ChildrenRun, vars, manifestVars, attemptVars, trainerVars,
    schedule, actorVars
<1>3. Rows' /\ Checkpoints' /\ Trial' /\ Duties' /\ Files'
  BY RowsFrame, CheckpointsFrame, TrialFrame, DutiesFrame, FilesFrame
     DEF IInv, vars, manifestVars, attemptVars, shardVars, trainerVars, schedule, actorVars
<1> QED
  BY <1>1, <1>2, <1>3 DEF IInv

\* Every step keeps the invariant.
LEMMA StepInv == ASSUME IInv, [Next]_vars PROVE IInv'
<1>1. CASE Start \/ Startup
  BY <1>1, StartInv, InitializeRootInv, RecoverOrphanInv, RecoverCandidateInv, LaunchInv
     DEF Startup
<1>2. CASE RegisterShard \/ RetireShards \/ DecideCandidate \/ DispatchDecision
             \/ PruneRejected \/ ModelReloaded
  BY <1>2, RegisterShardInv, RetireShardsInv, DecideCandidateInv, DispatchDecisionInv,
     PruneRejectedInv, ModelReloadedInv
<1>3. CASE ReceiveCandidate \/ RegisterCandidate \/ ShardRemoved \/ DecisionApplied
             \/ TrainerProgress
  BY <1>3, ReceiveCandidateInv, RegisterCandidateInv, ShardRemovedInv, DecisionAppliedInv,
     TrainerProgressInv
<1>4. CASE EndPass
  BY <1>4, EndPassInv
<1>5. CASE Shutdown \/ Abort \/ Crash
  BY <1>5, StopChildrenInv, CloseCandidateInv, CloseRowInv, CloseInv, CrashInv
     DEF Shutdown, Return, Abort, At
<1>6. CASE ActorStep
  BY <1>6, ActorSavesShardInv, ActorAnnouncesInv, ActorPlaysArenaInv, ActorReloadsInv
     DEF ActorStep
<1>7. CASE TrainerStep
  BY <1>7, AddShardInv, RemoveShardInv, ApplyDecisionInv, SuspendInv, TrainStepInv
     DEF TrainerStep, LearnerStep
<1>8. CASE UNCHANGED vars
  BY <1>8, StutterInv
<1> QED
  BY <1>1, <1>2, <1>3, <1>4, <1>5, <1>6, <1>7, <1>8 DEF Next, Handlers

\* The inductive invariant holds in every state of every run (training_v2.py,
\* _run_async_training_owned and its two child processes).
THEOREM Invariance == Spec => []IInv
<1>1. Init => IInv
  BY InitInv
<1>2. IInv /\ [Next]_vars => IInv'
  BY StepInv
<1> QED
  BY <1>1, <1>2, PTL DEF Spec

-----------------------------------------------------------------------------
(* What a run promises.                                                    *)

\* What the invariant says of checkpoints and shards suffices for the files,
LEMMA BackedByIInv == IInv => FilesExist
<1> SUFFICES ASSUME IInv PROVE FilesExist
  OBVIOUS
<1>1. ManifestIsBacked
  BY DEF IInv, Rows, RootIsFirst, RowsAreBacked, PromotionsAreCounted, Files,
    ActiveIsBacked, ManifestIsBacked
<1>2. QueuedCheckpointsExist
  <2>1. \A i \in Queued(trainerQ, "decision") : trainerQ[i].learner \in Saved
    BY DEF IInv, Trial, VerdictIsBacked
  <2>2. \A i \in Queued(actorQ, "arena") : actorQ[i].attempt \in Saved
    BY DEF IInv, Duties, ArenaIsDue, Rows, RowsAreBacked
  <2>3. ASSUME NEW i \in Queued(actorQ, "reload") PROVE actorQ[i].champion \in Saved
    <3>1. actorQ[i].champion = champion /\ champion \in Attempts /\ champion # NoAttempt
      BY DEF IInv, Duties, ReloadIsDue, ChildrenSleep, ChildrenRun, TypeOK,
        ManifestTypeOK, Queued
    <3> QED
      BY <3>1 DEF IInv, Rows, RootIsFirst, RowsAreBacked, Having
  <2> QED
    BY <2>1, <2>2, <2>3 DEF QueuedCheckpointsExist
<1> QED
  BY <1>1, <1>2 DEF FilesExist, IInv, Files

\* Nothing that the manifest refers to, a process uses or was told to load is
\* ever gone from the disk, whatever crashed, was pruned or was retired
\* (training_v2.py, _prune_rejected, register_shard, _handle_trainer_event).
THEOREM FilesStay == Spec => []FilesExist
BY Invariance, BackedByIInv, PTL

\* and for the candidates,
LEMMA OneCandidateByIInv == IInv => OneCandidate /\ ArenaMatchesPending
<1> SUFFICES ASSUME IInv PROVE OneCandidate /\ ArenaMatchesPending
  OBVIOUS
<1>1. Cardinality(Having("pending")) <= 1
  <2>1. CASE Having("pending") = {}
    BY <2>1, FS_EmptySet
  <2>2. CASE Having("pending") # {}
    <3>1. PICK n \in Having("pending") : Having("pending") = {n}
      BY <2>2, PendingIsOne DEF IInv, Rows
    <3> QED
      BY <3>1, FS_Singleton
  <2> QED
    BY <2>1, <2>2
<1>2. candidateFile # NoFile => Having("pending") = {} /\ candidateFile.parent = champion
  BY DEF IInv, Checkpoints, FileIsAlone
<1>3. champion # NoAttempt =>
        \A n \in Orphans : /\ Orphans = {n} /\ candidateFile = NoFile
                           /\ Having("pending") = {}
                           /\ weights[n].parent = champion
  <2>1. \A n \in Orphans : Orphans = {n}
    BY OrphanIsOne DEF IInv, TypeOK, Checkpoints
  <2> QED
    BY <2>1 DEF IInv, Checkpoints, OrphanIsAlone
<1> QED
  BY <1>1, <1>2, <1>3 DEF OneCandidate, ArenaMatchesPending, IInv, Duties, ArenaIsDue

\* and for the batches of games.
LEMMA OneGenerationByIInv == IInv => OneGeneration
<1> SUFFICES ASSUME IInv PROVE OneGeneration
  OBVIOUS
<1>1. ASSUME NEW i \in Queued(actorQ, "generate")
      PROVE  /\ Queued(actorQ, "generate") = {i}
             /\ actorQ[i].first = nextShard /\ actorQ[i].champion = champion
             /\ Queued(actorEvents, "shard") = {} /\ lifecycle = {}
  <2>1. \A j \in Queued(actorQ, "generate") : j = 1 /\ actorEvents = <<>>
    BY DEF IInv, Duties, CommandsInOrder, Queued
  <2> QED
    BY <2>1 DEF IInv, Duties, GenerationIsDue, Queued
<1>2. ASSUME At("loop"), NEW i \in Queued(actorEvents, "shard")
      PROVE  actorEvents[i].shard = nextShard + Cardinality(
               {j \in Queued(actorEvents, "shard") : j < i})
  <2>1. /\ actorEvents \in Seq(ActorMessages) /\ i \in DOMAIN actorEvents
        /\ DOMAIN actorEvents = 1..Len(actorEvents) /\ Len(actorEvents) \in Nat
        /\ i \in Nat \ {0} /\ \A j \in 1..(i - 1) : actorEvents[j].type = "shard"
    BY DEF IInv, TypeOK, ActorTypeOK, Duties, EventsInOrder, Queued
  <2>2. {j \in Queued(actorEvents, "shard") : j < i} = 1..(i - 1)
    BY <2>1 DEF Queued
  <2>3. Cardinality(1..(i - 1)) = i - 1
    BY <2>1, FS_Interval
  <2>4. actorEvents[i].shard = nextShard + i - 1
    BY <1>2 DEF IInv, Duties, BatchInOrder, At
  <2> QED
    BY <2>1, <2>2, <2>3, <2>4 DEF IInv, TypeOK, ManifestTypeOK
<1> QED
  BY <1>1, <1>2 DEF OneGeneration

\* One candidate on trial, its own verdict, one batch of games, numbered on
\* from the last, and no candidate past the limit: through every crash, abort
\* and restart (training_v2.py, _run_async_training_owned).
THEOREM OneThingAtATime == Spec => []OneAtATime
<1>1. IInv => OneAtATime
  BY OneCandidateByIInv, OneGenerationByIInv DEF OneAtATime, IInv
<1> QED
  BY <1>1, Invariance, PTL

\* The stop waits until the trainer and the actor have answered the verdict.
LEMMA DurableByIInv == ASSUME IInv PROVE StopIsDurable
<1> SUFFICES ASSUME At("loop"), MayStop
             PROVE  /\ Queued(trainerQ, "decision") = {}
                    /\ trainer.champion = champion
                    /\ learnerFile.champion = champion
  BY DEF StopIsDurable
<1>1. trainer.on /\ ~At("decided")
  BY DEF IInv, ChildrenRun, Awake, At
<1>2. ~Told /\ stopRequested
  BY DEF MayStop, IInv, Trial, OneStage
<1> QED
  BY <1>1, <1>2 DEF IInv, Trial, TrainerFollows, StopFollowsVerdict, Told

\* A run that stops by itself has lost nothing: the trainer has taken in the
\* last verdict and saved itself under the present champion (training_v2.py,
\* the stop test of the coordinator's loop and apply_decision).
THEOREM StopLosesNothing == Spec => []StopIsDurable
BY DurableByIInv, Invariance, PTL

-----------------------------------------------------------------------------
(* The rows of the attempts are a ladder of challenges.                    *)

\* A run begins at the foot of the ladder.
LEMMA LadderInit == Init => Ladder!Init
BY DEF Init, ManifestInit, Ladder!Init, Ladder!Attempts, Ladder!NoAttempt, Attempts,
  NoAttempt

\* A row that is added is the next one, of a run that has a champion.
LEMMA RowIsAChallenge ==
  ASSUME TypeOK, Checkpoints, champion # NoAttempt, NEW n \in Orphans,
         AddInterrupted(n) \/ \E fresh \in Nat : AddPending(n, fresh)
  PROVE  Ladder!Next
<1>1. n \in Attempts /\ IsNextRow(n) /\ Having("pending") = {}
  BY OrphanIsOne DEF TypeOK, Checkpoints, OrphanIsAlone
<1>2. Ladder!IsNext(n) /\ n \in Ladder!Attempts
  BY <1>1 DEF Ladder!IsNext, Ladder!Attempts, Ladder!NoAttempt, IsNextRow, Attempts,
    NoAttempt
<1>3. \A m \in Ladder!Attempts : status[m] # "pending"
  BY <1>1 DEF Having, Ladder!Attempts, Attempts
<1>4. Ladder!Challenge(n) \/ Ladder!Withdraw(n)
  BY <1>2, <1>3 DEF Ladder!Challenge, Ladder!Withdraw, AddInterrupted, AddPending
<1> QED
  BY <1>2, <1>4 DEF Ladder!Next

\* A verdict promotes the candidate above the champion, or rejects it.
LEMMA VerdictIsALadderStep == ASSUME IInv, DecideCandidate PROVE Ladder!Next
<1> DEFINE n == Head(actorEvents).attempt
<1>1. /\ Having("pending") = {n} /\ n \in Attempts /\ champion \in Attempts
      /\ status[champion] = "accepted"
  BY PendingIsOne
     DEF DecideCandidate, At, IInv, ChildrenRun, Awake, Rows, RootIsFirst, TypeOK,
       ManifestTypeOK
<1>2. n > champion /\ status[n] = "pending"
  BY <1>1, ManifestAssumption DEF IInv, Rows, LatestIsOnTrial, Having, Attempts
<1>3. PICK accepted \in BOOLEAN : Decide(n, accepted)
  BY DEF DecideCandidate
<1>4. Ladder!Promote(n) \/ Ladder!Reject(n)
  BY <1>2, <1>3 DEF Decide, Ladder!Promote, Ladder!Reject
<1> QED
  BY <1>1, <1>4 DEF Ladder!Next, Ladder!Attempts, Attempts

\* Every step of a run is a step of the ladder or none.
LEMMA LadderStep ==
  ASSUME IInv, [Next]_vars
  PROVE  Ladder!Next \/ UNCHANGED <<status, champion>>
<1>1. CASE InitializeRoot
  BY <1>1
     DEF InitializeRoot, AddRoot, SaveRoot, Ladder!Next, Ladder!Crown, Ladder!NoAttempt,
       NoAttempt
<1>2. CASE RecoverOrphan
  <2>1. PICK n \in Orphans : n = Min(Orphans)
    BY <1>2, OrphanIsOne DEF RecoverOrphan, IInv, TypeOK, Checkpoints
  <2>2. AddInterrupted(n) \/ \E fresh \in Nat : AddPending(n, fresh)
    <3>1. weights[n].fresh \in Nat
      BY DEF IInv, TypeOK, ManifestTypeOK, Payloads, Orphans, Saved
    <3> QED
      BY <1>2, <2>1, <3>1 DEF RecoverOrphan, RecoverRow
  <2> QED
    BY <1>2, <2>1, <2>2, RowIsAChallenge DEF RecoverOrphan, IInv
<1>3. CASE RegisterCandidate
  <2>1. /\ coordinator = "register" /\ champion # NoAttempt
        /\ Head(trainerEvents).fresh \in Nat
    <3>1. /\ trainerEvents # <<>> /\ trainerEvents' = Tail(trainerEvents)
          /\ Head(trainerEvents).type = "candidate" /\ coordinator = "register"
      BY <1>3
         DEF RegisterCandidate, TakeTrainerEvent, At, IInv, Trial, OfferIsAtHand
    <3>2. Head(trainerEvents) \in TrainerMessages
      BY <3>1, MessageTaken
    <3> QED
      BY <3>1, <3>2 DEF TrainerMessages, IInv, ChildrenRun, Awake
  <2>2. PICK n \in Orphans : n = NextAttempt
    BY <2>1, OrphanIsOne DEF IInv, Checkpoints, RowIsDue, TypeOK
  <2> QED
    BY <1>3, <2>1, <2>2, RowIsAChallenge DEF RegisterCandidate, IInv
<1>4. CASE CloseRow
  <2>1. PICK n \in Orphans : n = NextAttempt /\ champion # NoAttempt
    BY <1>4, OrphanIsOne DEF CloseRow, At, IInv, Checkpoints, RowIsDue, TypeOK
  <2> QED
    BY <1>4, <2>1, RowIsAChallenge DEF CloseRow, IInv
<1>5. CASE DecideCandidate
  BY <1>5, VerdictIsALadderStep
<1>6. CASE \/ Start \/ RecoverCandidate \/ Launch \/ CloseCandidate \/ Close
           \/ Return \/ Abort \/ Crash
  BY <1>6
     DEF Start, RecoverCandidate, Launch, CloseCandidate, Close, Return, Abort, Crash,
       StopChildren, MoveCandidate, SaveAttempt, manifestVars, attemptVars
<1>7. CASE \/ RegisterShard \/ RetireShards \/ PruneRejected \/ ModelReloaded
           \/ ReceiveCandidate \/ ShardRemoved \/ DecisionApplied \/ TrainerProgress
           \/ EndPass
  BY <1>7
     DEF RegisterShard, RetireShards, PruneRejected, Prune, ModelReloaded,
       ReceiveCandidate, ShardRemoved, DecisionApplied, TrainerProgress, EndPass,
       MoveCandidate, SaveAttempt, manifestVars, attemptVars
<1>8. CASE DispatchDecision
  BY <1>8 DEF DispatchDecision, NextLearner, SetIncumbent
<1>9. CASE ActorStep \/ TrainerStep \/ UNCHANGED vars
  BY <1>9
     DEF ActorStep, ActorSavesShard, ActorAnnounces, ActorPlaysArena, ActorReloads,
       TrainerStep, LearnerStep, vars, manifestVars, attemptVars
<1> QED
  BY <1>1, <1>2, <1>3, <1>4, <1>5, <1>6, <1>7, <1>8, <1>9
     DEF Next, Startup, Handlers, Shutdown

\* Across all crashes and restarts the rows of the attempts are a ladder: a
\* number is never given twice, a verdict is final, and the champion is the
\* attempt accepted last (training_v2.py, RunManifest.add_attempt and
\* decide_attempt).
THEOREM RowsAreALadder == Spec => LadderSpec
<1>1. Init => Ladder!Init
  BY LadderInit
<1>2. IInv /\ [Next]_vars => [Ladder!Next]_(Ladder!ladderVars)
  BY LadderStep DEF Ladder!ladderVars
<1> QED
  BY <1>1, <1>2, Invariance, PTL DEF Spec, LadderSpec, Ladder!Spec

-----------------------------------------------------------------------------
(***************************************************************************)
(* Fresh games.  Where nothing interrupts a run, the games spent on judged *)
(* candidates, those the trainer counts as fresh and those on their way to *)
(* it are never more than the manifest has.  A verdict takes as many from  *)
(* the trainer as its candidate was submitted with, provided the trainer   *)
(* has them: it waits from the offer to the verdict, and only gains games. *)
(***************************************************************************)

\* Shards the manifest has and the trainer does not count yet.
Arriving ==
  Cardinality(Queued(trainerQ, "add")) + (IF At("retire") THEN 1 ELSE 0)

\* The candidate judged last.
LastJudged == {n \in Judged : \A m \in Judged : m <= n}

GamesAddUp ==
  /\ IsFiniteSet(SpentGames)
  /\ Cardinality(SpentGames) + trainer.fresh + Arriving < nextShard

\* What learner.pt would bring back as fresh has not been spent either.
SavedGamesAddUp ==
  learnerFile.champion = champion /\ ~Unheard =>
    Cardinality(SpentGames) + learnerFile.fresh < nextShard

\* A run that ends by itself leaves no candidate behind, and the learner of its champion.
EndsAreClean ==
  coordinator \notin Awake =>
    /\ Having("pending") = {}
    /\ learnerFile.champion = champion \/ SpentGames = {}
    /\ coordinator \in {"down", "starting"} =>
         candidateFile = NoFile /\ (champion # NoAttempt => Orphans = {})

\* The trainer still has the games that a candidate was offered, is tried or
\* was judged with.
SubmissionsAreFresh ==
  coordinator \in Awake =>
    /\ \A n \in Having("pending") : submitted[n] <= trainer.fresh
    /\ \A i \in Queued(trainerEvents, "candidate") : trainerEvents[i].fresh <= trainer.fresh
    /\ \A i \in Queued(trainerQ, "decision") :
         \E n \in LastJudged : /\ trainerQ[i].submitted = submitted[n]
                               /\ submitted[n] <= trainer.fresh
    /\ At("decided") => /\ Head(actorEvents).attempt \in LastJudged
                        /\ submitted[Head(actorEvents).attempt] <= trainer.fresh

RootIsFree == champion = NoAttempt => submitted[0] = 0 /\ learnerFile.fresh = 0

FInv ==
  /\ GamesAddUp
  /\ SavedGamesAddUp
  /\ EndsAreClean
  /\ SubmissionsAreFresh
  /\ RootIsFree

\* A queue holds finitely many messages of a type.
LEMMA QueuedIsFinite ==
  ASSUME NEW S, NEW q \in Seq(S), NEW t
  PROVE  IsFiniteSet(Queued(q, t)) /\ Cardinality(Queued(q, t)) \in Nat
<1>1. Queued(q, t) \subseteq 1..Len(q) /\ Len(q) \in Nat
  BY DEF Queued
<1>2. IsFiniteSet(1..Len(q))
  BY <1>1, FS_Interval
<1>3. IsFiniteSet(Queued(q, t))
  BY <1>1, <1>2, FS_Subset
<1> QED
  BY <1>3, FS_CardinalityType

\* Taking the head takes it from those of its type.
LEMMA CountTail ==
  ASSUME NEW S, NEW q \in Seq(S), q # <<>>, NEW t
  PROVE  Cardinality(Queued(q, t))
           = Cardinality(Queued(Tail(q), t)) + (IF q[1].type = t THEN 1 ELSE 0)
<1> DEFINE A == Queued(Tail(q), t)
           B == Queued(q, t) \ {1}
           f == [i \in A |-> i + 1]
<1>1. A = {i \in Nat \ {0} : i + 1 \in Queued(q, t)}
  BY QueuedTail
<1>2. Queued(q, t) \subseteq Nat \ {0}
  BY DEF Queued
<1>3. f \in Bijection(A, B)
  <2>1. f \in [A -> B] /\ \A i, j \in A : f[i] = f[j] => i = j
    BY <1>1
  <2>2. ASSUME NEW j \in B PROVE \E i \in A : f[i] = j
    <3>1. j - 1 \in A /\ (j - 1) + 1 = j
      BY <1>1, <1>2
    <3> QED
      BY <3>1
  <2> QED
    BY <2>1, <2>2 DEF Bijection, Injection, Surjection, IsInjective
<1>4. Cardinality(B) = Cardinality(A) /\ Cardinality(A) \in Nat
  <2>1. Tail(q) \in Seq(S)
    OBVIOUS
  <2>2. IsFiniteSet(A) /\ Cardinality(A) \in Nat
    BY <2>1, QueuedIsFinite
  <2> HIDE DEF A, B, f
  <2> QED
    BY <1>3, <2>2, FS_Bijection DEF ExistsBijection
<1>5. IsFiniteSet(Queued(q, t)) /\ Cardinality(Queued(q, t)) \in Nat
  BY QueuedIsFinite
<1>6. CASE q[1].type = t
  <2>1. 1 \in Queued(q, t)
    BY <1>6 DEF Queued
  <2>2. Cardinality(B) = Cardinality(Queued(q, t)) - 1
    BY <1>5, <2>1, FS_RemoveElement
  <2> QED
    BY <1>4, <1>5, <1>6, <2>2
<1>7. CASE q[1].type # t
  <2>1. B = Queued(q, t)
    BY <1>7 DEF Queued
  <2> HIDE DEF A, B
  <2>2. Cardinality(Queued(q, t)) = Cardinality(A) + 0
    BY <1>4, <2>1
  <2> QED
    BY <1>7, <2>2 DEF A
<1> QED
  BY <1>6, <1>7

\* As many games as were submitted with one candidate.
LEMMA GamesOfOne ==
  ASSUME NEW n, NEW k \in Nat
  PROVE  IsFiniteSet({n} \X (1..k)) /\ Cardinality({n} \X (1..k)) = k
<1> DEFINE f == [i \in 1..k |-> <<n, i>>]
<1>1. f \in Bijection(1..k, {n} \X (1..k))
  BY DEF Bijection, Injection, Surjection, IsInjective
<1>2. IsFiniteSet(1..k) /\ Cardinality(1..k) = k
  BY FS_Interval
<1> QED
  BY <1>1, <1>2, FS_Bijection DEF ExistsBijection

\* Nothing more is spent where no verdict is given or heard.
LEMMA SpentStays ==
  ASSUME Heard' = Heard, \A n \in Heard : submitted'[n] = submitted[n]
  PROVE  SpentGames' = SpentGames
BY DEF SpentGames

\* The counts that are compared are natural numbers.
LEMMA CountsAreNumbers ==
  ASSUME IInv, GamesAddUp
  PROVE  /\ Cardinality(SpentGames) \in Nat /\ trainer.fresh \in Nat /\ Arriving \in Nat
         /\ nextShard \in Nat /\ learnerFile.fresh \in Nat
<1>1. Cardinality(Queued(trainerQ, "add")) \in Nat
  BY QueuedIsFinite DEF IInv, TypeOK, LearnerTypeOK
<1> QED
  BY <1>1, FS_CardinalityType, ManifestAssumption
     DEF GamesAddUp, Arriving, IInv, TypeOK, ManifestTypeOK, LearnerTypeOK

\* The steps that neither judge a candidate nor start or end an invocation.
LEMMA WorkGoesOn ==
  ASSUME IInv, IInv', FInv, coordinator \in Awake, coordinator' \in Awake,
         UNCHANGED <<status, submitted, champion>>, At("decided")' <=> At("decided"),
         At("decided") => Head(actorEvents') = Head(actorEvents),
         trainer'.fresh >= trainer.fresh,
         trainer'.fresh + Arriving' + nextShard <= trainer.fresh + Arriving + nextShard',
         nextShard' >= nextShard,
         learnerFile' = learnerFile \/ learnerFile'.fresh <= trainer'.fresh,
         \A i \in Queued(trainerEvents', "candidate") : trainerEvents'[i].fresh <= trainer'.fresh,
         Told' <=> Told,
         \A i \in Queued(trainerQ', "decision") :
           \E j \in Queued(trainerQ, "decision") : trainerQ'[i] = trainerQ[j]
  PROVE  FInv'
<1>0. Arriving' \in Nat /\ trainer'.fresh \in Nat /\ nextShard' \in Nat /\ learnerFile'.fresh \in Nat
  <2>1. Cardinality(Queued(trainerQ', "add")) \in Nat
    BY QueuedIsFinite DEF IInv, TypeOK, LearnerTypeOK
  <2>2. Arriving' \in Nat
    BY <2>1 DEF Arriving
  <2> QED
    BY <2>2, ManifestAssumption DEF IInv, TypeOK, LearnerTypeOK, ManifestTypeOK
<1>1. Judged' = Judged /\ Unheard' = Unheard /\ Heard' = Heard /\ Having("pending")' = Having("pending")
  BY DEF Judged, Unheard, Heard, Having, Told
<1>2. SpentGames' = SpentGames
  BY <1>1, SpentStays
<1>3. GamesAddUp'
  <2>1. /\ IsFiniteSet(SpentGames) /\ Cardinality(SpentGames) + trainer.fresh + Arriving < nextShard
        /\ Cardinality(SpentGames) \in Nat /\ trainer.fresh \in Nat /\ Arriving \in Nat
        /\ nextShard \in Nat
    BY CountsAreNumbers DEF FInv, GamesAddUp
  <2>2. Cardinality(SpentGames) + trainer'.fresh + Arriving' < nextShard'
    BY <1>0, <2>1
  <2> QED
    BY <1>2, <2>1, <2>2 DEF GamesAddUp
<1>4. SavedGamesAddUp'
  <2>1. CASE learnerFile' = learnerFile
    BY <1>1, <1>2, <2>1, CountsAreNumbers, ManifestAssumption
       DEF FInv, SavedGamesAddUp, IInv, TypeOK, ManifestTypeOK
  <2>2. CASE learnerFile'.fresh <= trainer'.fresh
    <3>1. Cardinality(SpentGames') \in Nat
      BY <1>2, CountsAreNumbers DEF FInv
    <3> QED
      BY <1>0, <1>3, <2>2, <3>1 DEF SavedGamesAddUp, GamesAddUp
  <2> QED
    BY <2>1, <2>2
<1>5. SubmissionsAreFresh'
  <2> SUFFICES ASSUME SubmissionsAreFresh PROVE SubmissionsAreFresh'
    BY DEF FInv
  <2>1. trainer.fresh \in Nat /\ trainer'.fresh \in Nat /\ \A n \in Attempts : submitted[n] \in Nat
    BY DEF IInv, TypeOK, LearnerTypeOK, ManifestTypeOK
  <2>2. \A n \in Attempts : submitted[n] <= trainer.fresh => submitted'[n] <= trainer'.fresh
    BY <2>1
  <2>3. \A n \in Judged \cup Having("pending") : n \in Attempts
    BY DEF Judged, Having
  <2>4. LastJudged' = LastJudged /\ LastJudged \subseteq Attempts
    BY <1>1, <2>3 DEF LastJudged
  <2>5. \A n \in Having("pending")' : submitted'[n] <= trainer'.fresh
    BY <1>1, <2>2, <2>3 DEF SubmissionsAreFresh
  <2>6. ASSUME NEW i \in Queued(trainerQ', "decision")
        PROVE  \E n \in LastJudged' : /\ trainerQ'[i].submitted = submitted'[n]
                                      /\ submitted'[n] <= trainer'.fresh
    <3>1. PICK j \in Queued(trainerQ, "decision") : trainerQ'[i] = trainerQ[j]
      BY <2>6
    <3>2. PICK n \in LastJudged : /\ trainerQ[j].submitted = submitted[n]
                                  /\ submitted[n] <= trainer.fresh
      BY DEF SubmissionsAreFresh
    <3> QED
      BY <1>1, <2>2, <2>3, <2>4, <3>1, <3>2
  <2>7. At("decided")' =>
          /\ Head(actorEvents').attempt \in LastJudged'
          /\ submitted'[Head(actorEvents').attempt] <= trainer'.fresh
    BY <2>2, <2>3, <2>4 DEF SubmissionsAreFresh, At
  <2> QED
    BY <2>5, <2>6, <2>7 DEF SubmissionsAreFresh
<1>6. EndsAreClean' /\ RootIsFree'
  BY DEF EndsAreClean, RootIsFree, IInv, ChildrenRun
<1> QED
  BY <1>3, <1>4, <1>5, <1>6 DEF FInv

\* The actor's steps.
LEMMA ActorCounts == ASSUME IInv, IInv', FInv, ActorStep PROVE FInv'
<1>1. /\ UNCHANGED <<status, submitted, champion, nextShard, trainer, trainerQ, trainerEvents,
                     learnerFile, coordinator>>
      /\ actorQ # <<>>
  BY DEF ActorStep, ActorSavesShard, ActorAnnounces, ActorPlaysArena, ActorReloads, ActorCommand,
     attemptVars, shardVars, manifestVars, trainerVars
<1>2. coordinator \in Awake
  BY <1>1 DEF IInv, ChildrenSleep
<1>3. At("decided") => Head(actorEvents') = Head(actorEvents)
  <2> SUFFICES ASSUME At("decided") PROVE Head(actorEvents') = Head(actorEvents)
    OBVIOUS
  <2>1. /\ actorEvents \in Seq(ActorMessages) /\ actorEvents' \in Seq(ActorMessages)
        /\ actorEvents # <<>>
    BY DEF IInv, TypeOK, ActorTypeOK, Duties, EventIsAtHand
  <2>2. actorQ = <<>>
    <3>1. 1 \in DOMAIN actorEvents /\ actorEvents[1].type = "arena"
      BY <2>1 DEF IInv, Duties, EventIsAtHand
    <3> QED
      BY <3>1 DEF IInv, Duties, EventsInOrder
  <2> QED
    BY <1>1, <2>2
<1>4. Arriving' = Arriving /\ Told' = Told
  BY <1>1 DEF Arriving, Told, At
<1> QED
  BY <1>1, <1>2, <1>3, <1>4, WorkGoesOn, CountsAreNumbers
     DEF At, FInv, SubmissionsAreFresh

\* The coordinator's steps beside the candidate and the shards.
LEMMA CoordinatorCounts ==
  ASSUME IInv, IInv', FInv,
         \/ ModelReloaded \/ ReceiveCandidate \/ ShardRemoved \/ DecisionApplied
         \/ TrainerProgress \/ EndPass \/ PruneRejected
  PROVE  FInv'
<1>1. /\ UNCHANGED <<status, submitted, champion, nextShard, trainer, trainerQ, learnerFile>>
      /\ coordinator \in {"loop", "prune"} /\ coordinator' \in {"loop", "register"}
  BY DEF ModelReloaded, ReceiveCandidate, ShardRemoved, DecisionApplied, TrainerProgress, EndPass,
     PruneRejected, Prune, MoveCandidate, SaveAttempt, TakeTrainerEvent, TrainerEvent, At, Goto,
     attemptVars, shardVars, manifestVars, trainerVars
<1>2. /\ coordinator \in Awake /\ coordinator' \in Awake
      /\ ~At("decided") /\ ~At("decided")' /\ ~At("retire") /\ ~At("retire")'
  BY <1>1 DEF Awake, At
<1>3. trainerEvents' = trainerEvents \/ (trainerEvents # <<>> /\ trainerEvents' = Tail(trainerEvents))
  BY DEF ModelReloaded, ReceiveCandidate, ShardRemoved, DecisionApplied, TrainerProgress, EndPass,
     PruneRejected, TakeTrainerEvent, TrainerEvent, trainerVars
<1>4. \A i \in Queued(trainerEvents', "candidate") : trainerEvents'[i].fresh <= trainer'.fresh
  <2>1. \A i \in Queued(trainerEvents, "candidate") : trainerEvents[i].fresh <= trainer.fresh
    BY <1>2 DEF FInv, SubmissionsAreFresh
  <2> QED
    BY <1>1, <1>3, <2>1, MessageTaken
<1>5. Arriving' = Arriving /\ Told' = Told
  BY <1>1, <1>2 DEF Arriving, Told
<1>6. /\ trainer'.fresh + Arriving' + nextShard <= trainer.fresh + Arriving + nextShard'
      /\ nextShard' >= nextShard /\ trainer'.fresh >= trainer.fresh
  BY <1>1, <1>5, CountsAreNumbers DEF FInv
<1> QED
  BY <1>1, <1>2, <1>4, <1>5, <1>6, WorkGoesOn

\* A shard that gets its row is on its way to the trainer,
LEMMA RegisterCounts == ASSUME IInv, IInv', FInv, RegisterShard PROVE FInv'
<1>1. /\ UNCHANGED <<status, submitted, champion, trainer, trainerQ, trainerEvents, learnerFile>>
      /\ coordinator = "loop" /\ coordinator' = "retire"
      /\ actorEvents # <<>> /\ Head(actorEvents).type = "shard"
      /\ nextShard' = Head(actorEvents).shard + 1
  BY DEF RegisterShard, InsertShard, ActorEvent, At, Goto, attemptVars, trainerVars
<1>2. /\ coordinator \in Awake /\ coordinator' \in Awake
      /\ ~At("decided") /\ ~At("decided")' /\ ~At("retire") /\ At("retire")'
  BY <1>1 DEF Awake, At
<1>3. nextShard' = nextShard + 1
  <2>1. 1 \in Queued(actorEvents, "shard") /\ Head(actorEvents) = actorEvents[1]
    BY <1>1 DEF IInv, TypeOK, ActorTypeOK, Queued
  <2>2. nextShard \in Nat
    BY ManifestAssumption DEF IInv, TypeOK, ManifestTypeOK
  <2>3. actorEvents[1].shard = nextShard + 1 - 1
    BY <1>2, <2>1 DEF IInv, Duties, BatchInOrder
  <2> QED
    BY <1>1, <2>1, <2>2, <2>3
<1>4. Told' = Told /\ Arriving' = Arriving + 1
  <2>1. Cardinality(Queued(trainerQ, "add")) \in Nat
    BY QueuedIsFinite DEF IInv, TypeOK, LearnerTypeOK
  <2> QED
    BY <1>1, <1>2, <2>1 DEF Arriving, Told
<1>5. /\ Arriving \in Nat /\ nextShard \in Nat /\ trainer.fresh \in Nat
  BY CountsAreNumbers DEF FInv
<1>6. /\ trainer'.fresh + Arriving' + nextShard <= trainer.fresh + Arriving + nextShard'
      /\ nextShard' >= nextShard /\ trainer'.fresh >= trainer.fresh
  BY <1>1, <1>3, <1>4, <1>5
<1>7. \A i \in Queued(trainerEvents, "candidate") : trainerEvents[i].fresh <= trainer.fresh
  BY <1>2 DEF FInv, SubmissionsAreFresh
<1> QED
  BY <1>1, <1>2, <1>4, <1>6, <1>7, WorkGoesOn

\* and then told to it.
LEMMA RetireCounts == ASSUME IInv, IInv', FInv, RetireShards PROVE FInv'
<1>1. /\ UNCHANGED <<status, submitted, champion, nextShard, trainer, trainerEvents, learnerFile>>
      /\ coordinator = "retire" /\ coordinator' = "loop"
  BY DEF RetireShards, Retire, At, Goto, attemptVars
<1>2. /\ coordinator \in Awake /\ coordinator' \in Awake
      /\ ~At("decided") /\ ~At("decided")' /\ At("retire") /\ ~At("retire")'
  BY <1>1 DEF Awake, At
<1> DEFINE s == Head(actorEvents).shard
<1>3. s \in Shards
  <2>1. actorEvents # <<>> /\ actorEvents \in Seq(ActorMessages) /\ Head(actorEvents).type = "shard"
    BY <1>2 DEF IInv, TypeOK, ActorTypeOK, Duties, EventIsAtHand
  <2>2. Head(actorEvents) \in ActorMessages
    BY <2>1
  <2> QED
    BY <2>1, <2>2 DEF ActorMessages
<1>4. PICK retired \in OldestFirst(Overflow) : trainerQ' = trainerQ \o ShardCommands(s, retired)
  BY DEF RetireShards
<1>5. retired \in Seq(Overflow)
  <2>1. IsFiniteSet(Overflow) /\ Cardinality(Overflow) \in Nat
    BY ShardsAreFinite, FS_Subset, FS_CardinalityType DEF IInv, TypeOK, Overflow
  <2> QED
    BY <2>1 DEF OldestFirst
<1> HIDE DEF s
<1>6. /\ Told' = Told /\ Queued(trainerQ', "decision") = Queued(trainerQ, "decision")
      /\ \A i \in Queued(trainerQ, "decision") : trainerQ'[i] = trainerQ[i]
  BY <1>3, <1>4, <1>5, ShardsAreTold DEF Told, Queued
<1>7. Queued(trainerQ', "add") = Queued(trainerQ, "add") \cup {Len(trainerQ) + 1}
  <2>1. Len(trainerQ) + 1 \in DOMAIN trainerQ'
    <3>1. trainerQ \in Seq(TrainerCommands) /\ Len(ShardCommands(s, retired)) \in Nat \ {0}
      BY <1>5 DEF ShardCommands, IInv, TypeOK, LearnerTypeOK
    <3> QED
      BY <1>4, <3>1
  <2> QED
    <3>1. /\ \A i \in DOMAIN trainerQ : i \in DOMAIN trainerQ' /\ trainerQ'[i] = trainerQ[i]
          /\ \A i \in DOMAIN trainerQ' \ DOMAIN trainerQ :
               \/ i = Len(trainerQ) + 1 /\ trainerQ'[i] = AddCommand(s)
               \/ i # Len(trainerQ) + 1 /\ \E r \in Overflow : trainerQ'[i] = RemoveCommand(r)
          /\ Len(trainerQ) + 1 \notin DOMAIN trainerQ
      BY <1>3, <1>4, <1>5, ShardsAreTold
    <3>2. AddCommand(s).type = "add" /\ \A r \in Overflow : RemoveCommand(r).type # "add"
      BY DEF AddCommand, RemoveCommand
    <3> QED
      BY <2>1, <3>1, <3>2 DEF Queued
<1>8. Arriving' = Arriving
  <2>1. Len(trainerQ) + 1 \notin Queued(trainerQ, "add")
    BY <1>3, <1>4, <1>5, ShardsAreTold DEF Queued
  <2>2. IsFiniteSet(Queued(trainerQ, "add")) /\ Cardinality(Queued(trainerQ, "add")) \in Nat
    BY QueuedIsFinite DEF IInv, TypeOK, LearnerTypeOK
  <2>3. Cardinality(Queued(trainerQ', "add")) = Cardinality(Queued(trainerQ, "add")) + 1
    BY <1>7, <2>1, <2>2, FS_AddElement
  <2> QED
    BY <1>2, <2>2, <2>3 DEF Arriving
<1>9. /\ trainer'.fresh + Arriving' + nextShard <= trainer.fresh + Arriving + nextShard'
      /\ nextShard' >= nextShard /\ trainer'.fresh >= trainer.fresh
  BY <1>1, <1>8, CountsAreNumbers DEF FInv
<1>10. \A i \in Queued(trainerEvents, "candidate") : trainerEvents[i].fresh <= trainer.fresh
  BY <1>2 DEF FInv, SubmissionsAreFresh
<1> QED
  BY <1>1, <1>2, <1>6, <1>9, <1>10, WorkGoesOn

\* The trainer takes in a command about shards, or that a candidate is on trial.
LEMMA CommandCounts ==
  ASSUME IInv, IInv', FInv, AddShard \/ RemoveShard \/ Suspend,
         UNCHANGED <<manifestVars, coordinator, actorVars>>
  PROVE  FInv'
<1> PICK type \in {"add", "remove", "pending"} :
      /\ Command(type) /\ UNCHANGED learnerFile
      /\ trainer'.fresh = trainer.fresh + (IF type = "add" THEN 1 ELSE 0)
      /\ \/ trainerEvents' = trainerEvents
         \/ trainerQ[1].type = "remove" /\ trainerEvents' = Append(trainerEvents, trainerQ[1])
  <2>1. trainer.fresh \in Nat /\ trainer.fresh + 0 = trainer.fresh
    BY DEF IInv, TypeOK, LearnerTypeOK
  <2>2. CASE AddShard
    <3>1. trainer' = [trainer EXCEPT !.pool   = @ \cup {Head(trainerQ).shard},
                                     !.fresh  = @ + 1,
                                     !.budget = @ + ShardBudget]
      BY <2>2 DEF AddShard
    <3>2. trainer'.fresh = trainer.fresh + 1
      BY <3>1 DEF IInv, TypeOK, LearnerTypeOK
    <3> QED
      BY <2>2, <3>2 DEF AddShard
  <2>3. CASE RemoveShard
    <3>1. trainer'.fresh = trainer.fresh
      BY <2>3 DEF RemoveShard, IInv, TypeOK, LearnerTypeOK
    <3>2. Command("remove") /\ Head(trainerQ) = trainerQ[1] /\ trainerQ[1].type = "remove"
      BY <2>3, CommandTaken DEF RemoveShard
    <3> QED
      BY <2>1, <2>3, <3>1, <3>2 DEF RemoveShard
  <2>4. CASE Suspend
    <3>1. trainer'.fresh = trainer.fresh
      BY <2>4 DEF Suspend, IInv, TypeOK, LearnerTypeOK
    <3> QED
      BY <2>1, <2>4, <3>1 DEF Suspend
  <2> QED
    BY <2>2, <2>3, <2>4
<1>1. /\ UNCHANGED <<status, submitted, champion, nextShard, coordinator, actorEvents>>
      /\ coordinator \in Awake /\ coordinator' \in Awake
  BY CommandTaken DEF IInv, ChildrenSleep, NoTrainer, manifestVars, attemptVars, shardVars, actorVars
<1>2. /\ trainerQ # <<>> /\ trainerQ' = Tail(trainerQ) /\ trainerQ[1].type = type
      /\ Told' <=> Told
      /\ \A i \in DOMAIN trainerQ' : i + 1 \in DOMAIN trainerQ /\ trainerQ'[i] = trainerQ[i + 1]
  BY CommandTaken
<1>3. Arriving = Arriving' + (IF type = "add" THEN 1 ELSE 0)
  <2>1. trainerQ \in Seq(TrainerCommands) /\ trainerQ' \in Seq(TrainerCommands)
    BY DEF IInv, TypeOK, LearnerTypeOK
  <2>2. Cardinality(Queued(trainerQ, "add"))
          = Cardinality(Queued(trainerQ', "add")) + (IF type = "add" THEN 1 ELSE 0)
    BY <1>2, <2>1, CountTail
  <2>3. Cardinality(Queued(trainerQ', "add")) \in Nat
    BY <2>1, QueuedIsFinite
  <2> DEFINE late == IF At("retire") THEN 1 ELSE 0
  <2>4. late \in Nat /\ late' = late
    BY <1>1 DEF At
  <2>5. Arriving = Cardinality(Queued(trainerQ, "add")) + late
        /\ Arriving' = Cardinality(Queued(trainerQ', "add")) + late
    BY <2>4 DEF Arriving
  <2> HIDE DEF late
  <2> QED
    BY <2>2, <2>3, <2>4, <2>5
<1>4. Arriving' \in Nat /\ trainer.fresh \in Nat /\ nextShard \in Nat /\ trainer'.fresh \in Nat
  <2>1. Cardinality(Queued(trainerQ', "add")) \in Nat
    BY QueuedIsFinite DEF IInv, TypeOK, LearnerTypeOK
  <2>2. Arriving' \in Nat
    BY <2>1 DEF Arriving
  <2> QED
    BY <2>2, CountsAreNumbers DEF FInv, IInv, TypeOK, LearnerTypeOK
<1>5. /\ trainer'.fresh + Arriving' + nextShard <= trainer.fresh + Arriving + nextShard'
      /\ nextShard' >= nextShard /\ trainer'.fresh >= trainer.fresh
  BY <1>1, <1>3, <1>4
<1>6. \A i \in Queued(trainerEvents', "candidate") : trainerEvents'[i].fresh <= trainer'.fresh
  <2>1. \A i \in Queued(trainerEvents, "candidate") :
          trainerEvents[i].fresh <= trainer.fresh /\ trainerEvents[i].fresh \in Nat
    <3>1. \A i \in Queued(trainerEvents, "candidate") : trainerEvents[i].fresh <= trainer.fresh
      BY <1>1 DEF FInv, SubmissionsAreFresh
    <3>2. \A i \in Queued(trainerEvents, "candidate") : trainerEvents[i].fresh \in Nat
      <4>1. ASSUME NEW i \in Queued(trainerEvents, "candidate") PROVE trainerEvents[i].fresh \in Nat
        <5>1. trainerEvents[i] \in TrainerMessages /\ trainerEvents[i].type = "candidate"
          BY DEF Queued, IInv, TypeOK, LearnerTypeOK
        <5> QED
          BY <5>1 DEF TrainerMessages
      <4> QED
        BY <4>1
    <3> QED
      BY <3>1, <3>2
  <2>2. \A i \in Queued(trainerEvents, "candidate") : trainerEvents[i].fresh <= trainer'.fresh
    BY <1>4, <1>5, <2>1
  <2>3. CASE trainerQ[1].type = "remove" /\ trainerEvents' = Append(trainerEvents, trainerQ[1])
    BY <2>2, <2>3 DEF Queued, IInv, TypeOK, LearnerTypeOK
  <2> QED
    BY <2>2, <2>3
<1>7. \A i \in Queued(trainerQ', "decision") :
        \E j \in Queued(trainerQ, "decision") : trainerQ'[i] = trainerQ[j]
  BY <1>2 DEF Queued
<1> QED
  BY <1>1, <1>2, <1>5, <1>6, <1>7, WorkGoesOn DEF At

\* It trains, and what it offers was counted fresh.
LEMMA TrainCounts ==
  ASSUME IInv, IInv', FInv, TrainStep, UNCHANGED <<manifestVars, coordinator, actorVars>>
  PROVE  FInv'
<1>1. /\ UNCHANGED <<status, submitted, champion, nextShard, coordinator, actorEvents, trainerQ>>
      /\ coordinator \in Awake /\ coordinator' \in Awake
  BY DEF TrainStep, IInv, ChildrenSleep, NoTrainer, manifestVars, attemptVars, shardVars, actorVars
<1>2. PICK t \in IF Trained.steps % ValidationSteps = 0 THEN Validated(Trained) ELSE {Trained} :
        LET events == IF t.steps % ReportSteps = 0
                      THEN Append(trainerEvents, Progress(t))
                      ELSE trainerEvents
        IN /\ learnerFile' = IF t.steps % ValidationSteps = 0 THEN Checkpoint(t) ELSE learnerFile
           /\ IF Enough(t) THEN HandOver(t, events)
              ELSE /\ trainer' = t
                   /\ trainerEvents' = events
                   /\ UNCHANGED candidateFile
  BY DEF TrainStep
<1> DEFINE events == IF t.steps % ReportSteps = 0
                     THEN Append(trainerEvents, Progress(t)) ELSE trainerEvents
           offer == [type |-> "candidate", fresh |-> t.fresh]
<1>3. trainer.fresh \in Nat /\ t.fresh = trainer.fresh
      /\ \A best : [t EXCEPT !.best = best, !.pending = TRUE].fresh = trainer.fresh
  <2>1. trainer.fresh \in Nat /\ Trained.fresh = trainer.fresh
    BY DEF Trained, IInv, TypeOK, LearnerTypeOK
  <2>2. t \in [on : BOOLEAN, pending : BOOLEAN, fresh : Nat, budget : Nat,
               steps : 0..(StepCycle - 1), champion : Attempts \cup {NoAttempt},
               pool : SUBSET Shards, best : Payloads \cup {NoFile}]
    BY TrainedIs DEF TrainStep
  <2>3. t.fresh = Trained.fresh
    <3>1. CASE t = Trained
      BY <3>1
    <3>2. CASE t = [Trained EXCEPT !.best = Payload(Trained)]
      BY <3>2 DEF Trained, IInv, TypeOK, LearnerTypeOK
    <3> QED
      BY <3>1, <3>2 DEF Validated
  <2> QED
    BY <2>1, <2>2, <2>3
<1>4. trainer'.fresh = trainer.fresh
  BY <1>2, <1>3 DEF HandOver
<1>5. learnerFile' = learnerFile \/ learnerFile'.fresh <= trainer'.fresh
  BY <1>2, <1>3, <1>4 DEF Checkpoint
<1>6. trainerEvents' \in {events, events \o <<offer>>}
  BY <1>2 DEF HandOver
<1>7. \A i \in Queued(trainerEvents', "candidate") : trainerEvents'[i].fresh <= trainer'.fresh
  <2>1. trainerEvents \in Seq(TrainerMessages) /\ Progress(t).type = "progress"
    BY DEF IInv, TypeOK, LearnerTypeOK, Progress
  <2>2. \A i \in Queued(trainerEvents, "candidate") : trainerEvents[i].fresh <= trainer.fresh
    BY <1>1 DEF FInv, SubmissionsAreFresh
  <2>3. /\ \E S : events \in Seq(S)
        /\ \A i \in Queued(events, "candidate") : events[i].fresh <= trainer.fresh
    <3> DEFINE S == TrainerMessages \cup {Progress(t)}
    <3>1. trainerEvents \in Seq(S)
      BY <2>1
    <3> HIDE DEF S
    <3>2. CASE events = trainerEvents
      BY <2>2, <3>1, <3>2
    <3>3. CASE events = Append(trainerEvents, Progress(t))
      <4>1. Progress(t) \in S
        BY DEF S
      <4>2. Queued(events, "candidate") = Queued(trainerEvents, "candidate")
        BY <2>1, <3>1, <3>3, <4>1, QueuedAppend
      <4>3. \A i \in DOMAIN trainerEvents : events[i] = trainerEvents[i]
        BY <3>1, <3>3, <4>1, AppendOf
      <4>4. events \in Seq(S)
        BY <3>1, <3>3, <4>1
      <4> QED
        BY <2>2, <4>2, <4>3, <4>4 DEF Queued
    <3> QED
      BY <3>2, <3>3
  <2>4. PICK S : events \in Seq(S)
    BY <2>3
  <2> HIDE DEF events
  <2>5. CASE trainerEvents' = events \o <<offer>>
    <3>1. events \in Seq(S \cup {offer})
      BY <2>4
    <3>2. /\ DOMAIN trainerEvents' = DOMAIN events \cup {Len(events) + 1}
          /\ \A i \in DOMAIN events : trainerEvents'[i] = events[i]
          /\ trainerEvents'[Len(events) + 1] = offer
      BY <2>5, <3>1
    <3>3. offer.fresh <= trainer.fresh
      BY <1>3
    <3> QED
      BY <1>4, <2>3, <3>2, <3>3 DEF Queued
  <2> QED
    BY <1>4, <1>6, <2>3, <2>5
<1>8. Arriving' = Arriving /\ (Told' <=> Told)
  BY <1>1 DEF Arriving, Told, At
<1>9. /\ trainer'.fresh + Arriving' + nextShard <= trainer.fresh + Arriving + nextShard'
      /\ nextShard' >= nextShard /\ trainer'.fresh >= trainer.fresh
  BY <1>1, <1>4, <1>8, CountsAreNumbers DEF FInv
<1> QED
  BY <1>1, <1>5, <1>7, <1>8, <1>9, WorkGoesOn DEF At

\* The verdicts but the last one.
LEMMA HeardIs ==
  ASSUME Judged \subseteq Nat, NEW n \in LastJudged
  PROVE  Heard = IF Unheard THEN Judged \ {n} ELSE Judged
<1>1. n \in Judged /\ \A m \in Judged : m <= n /\ m \in Nat
  BY DEF LastJudged
<1>2. \A k \in Judged : (\E m \in Judged : m > k) <=> k # n
  BY <1>1
<1> QED
  BY <1>2 DEF Heard

\* The trainer hears a verdict, and the games of the candidate are spent.
LEMMA VerdictCounts ==
  ASSUME IInv, IInv', FInv, ApplyDecision, UNCHANGED <<manifestVars, coordinator, actorVars>>
  PROVE  FInv'
<1>1. /\ UNCHANGED <<status, submitted, champion, nextShard, coordinator, actorEvents>>
      /\ Command("decision") /\ learnerFile' = Checkpoint(trainer')
      /\ trainer' = [trainer EXCEPT
           !.pending  = Head(trainerQ).pause,
           !.fresh    = Max({0, @ - Head(trainerQ).submitted}),
           !.champion = Head(trainerQ).champion,
           !.best     = NoFile]
      /\ trainerEvents' =
           Append(trainerEvents, [type |-> "applied", fresh |-> trainer'.fresh])
  BY DEF ApplyDecision, manifestVars, attemptVars, shardVars, actorVars
<1>2. /\ trainer.on /\ trainerQ # <<>> /\ trainerQ' = Tail(trainerQ)
      /\ 1 \in Queued(trainerQ, "decision") /\ Head(trainerQ) = trainerQ[1]
      /\ trainerQ[1].type = "decision"
  BY <1>1, CommandTaken
<1>3. coordinator \in Awake /\ Told /\ Unheard
  BY <1>2 DEF IInv, ChildrenSleep, NoTrainer, Told, Unheard
<1>4. ~OnTrial /\ ~Offered /\ ~At("decided") /\ Having("pending") = {}
  BY <1>3 DEF IInv, Trial, OneStage, OnTrial
<1>5. PICK n \in LastJudged :
        /\ trainerQ[1].submitted = submitted[n] /\ submitted[n] <= trainer.fresh
  BY <1>2, <1>3 DEF FInv, SubmissionsAreFresh
<1>6. Queued(trainerQ', "decision") = {} /\ ~Told' /\ ~Unheard'
  <2>1. Queued(trainerQ', "decision") = {i \in Nat \ {0} : i + 1 \in Queued(trainerQ, "decision")}
    BY <1>2, QueuedTail DEF IInv, TypeOK, LearnerTypeOK
  <2>2. \A i \in Queued(trainerQ, "decision") : i = 1
    BY <1>2 DEF IInv, Trial, OneMessage
  <2>3. Queued(trainerQ', "decision") = {}
    BY <2>1, <2>2
  <2> QED
    BY <1>1, <1>4, <2>3 DEF Told, Unheard, At
<1>7. /\ Judged \subseteq Nat /\ n \in Judged /\ Judged' = Judged
      /\ submitted[n] \in Nat /\ trainer.fresh \in Nat
  <2>1. n \in Judged /\ Judged \subseteq Attempts
    BY DEF LastJudged, Judged, Having
  <2>2. submitted[n] \in Nat /\ trainer.fresh \in Nat
    BY <2>1 DEF IInv, TypeOK, ManifestTypeOK, LearnerTypeOK
  <2>3. Judged' = Judged
    BY <1>1 DEF Judged, Having
  <2> QED
    BY <2>1, <2>2, <2>3, ManifestAssumption DEF Attempts
<1>8. Heard = Judged \ {n} /\ Heard' = Judged
  <2>1. Heard = Judged \ {n}
    BY <1>3, <1>7, HeardIs
  <2> QED
    BY <1>6, <1>7, <2>1 DEF Heard
<1> DEFINE new == {n} \X (1..submitted[n])
<1>9. SpentGames' = SpentGames \cup new /\ SpentGames \cap new = {}
  <2>1. SpentGames = UNION {{m} \X (1..submitted[m]) : m \in Judged \ {n}}
    BY <1>8 DEF SpentGames
  <2>2. SpentGames' = UNION {{m} \X (1..submitted[m]) : m \in Judged}
    BY <1>1, <1>8 DEF SpentGames
  <2>3. ASSUME NEW game \in SpentGames, game \in new PROVE FALSE
    <3>1. PICK m \in Judged \ {n} : game \in {m} \X (1..submitted[m])
      BY <2>1
    <3> QED
      BY <2>3, <3>1
  <2>4. Judged = (Judged \ {n}) \cup {n}
    BY <1>7
  <2> QED
    BY <2>1, <2>2, <2>3, <2>4
<1>10. IsFiniteSet(SpentGames') /\ Cardinality(SpentGames') = Cardinality(SpentGames) + submitted[n]
  <2>1. IsFiniteSet(new) /\ Cardinality(new) = submitted[n] /\ IsFiniteSet(SpentGames)
    BY <1>7, GamesOfOne DEF FInv, GamesAddUp
  <2>2. Cardinality(SpentGames) \in Nat /\ Cardinality(SpentGames \cap new) = 0
    BY <1>9, <2>1, FS_EmptySet, FS_CardinalityType
  <2> HIDE DEF new
  <2>3. /\ IsFiniteSet(SpentGames \cup new)
        /\ Cardinality(SpentGames \cup new)
             = Cardinality(SpentGames) + Cardinality(new) - Cardinality(SpentGames \cap new)
    BY <2>1, FS_Union
  <2> QED
    BY <1>7, <1>9, <2>1, <2>2, <2>3
<1>11. trainer'.fresh = trainer.fresh - submitted[n] /\ trainer'.fresh \in Nat
  <2>1. trainer'.fresh = Max({0, trainer.fresh - submitted[n]})
    BY <1>1, <1>2, <1>5 DEF IInv, TypeOK, LearnerTypeOK
  <2>2. trainer.fresh - submitted[n] \in Nat
    BY <1>5, <1>7
  <2>3. /\ Max({0, trainer.fresh - submitted[n]}) \in {0, trainer.fresh - submitted[n]}
        /\ Max({0, trainer.fresh - submitted[n]}) >= 0
        /\ Max({0, trainer.fresh - submitted[n]}) >= trainer.fresh - submitted[n]
    <3> DEFINE x == trainer.fresh - submitted[n]
    <3> HIDE DEF x
    <3>1. x \in Nat
      BY <2>2 DEF x
    <3>2. Max({0, x}) \in {0, x} /\ Max({0, x}) >= 0 /\ Max({0, x}) >= x
      BY <3>1, MaxOfTwo
    <3> QED
      BY <3>2 DEF x
  <2> QED
    BY <2>1, <2>2, <2>3
<1>12. Arriving' = Arriving
  <2>1. Cardinality(Queued(trainerQ, "add")) = Cardinality(Queued(trainerQ', "add")) + 0
    BY <1>2, CountTail DEF IInv, TypeOK, LearnerTypeOK
  <2>2. Cardinality(Queued(trainerQ', "add")) \in Nat
    BY QueuedIsFinite DEF IInv, TypeOK, LearnerTypeOK
  <2> QED
    BY <1>1, <2>1, <2>2 DEF Arriving, At
<1>13. GamesAddUp'
  <2>1. /\ Cardinality(SpentGames) + trainer.fresh + Arriving < nextShard
        /\ Cardinality(SpentGames) \in Nat /\ Arriving \in Nat /\ nextShard \in Nat
    BY CountsAreNumbers DEF FInv, GamesAddUp
  <2>2. Cardinality(SpentGames') + trainer'.fresh + Arriving' < nextShard'
    BY <1>1, <1>7, <1>10, <1>11, <1>12, <2>1
  <2> QED
    BY <1>10, <2>2 DEF GamesAddUp
<1>14. SavedGamesAddUp'
  <2>1. learnerFile'.fresh = trainer'.fresh
    BY <1>1 DEF Checkpoint
  <2>2. /\ Cardinality(SpentGames) + trainer.fresh + Arriving < nextShard
        /\ Cardinality(SpentGames) \in Nat /\ Arriving \in Nat /\ nextShard \in Nat
    BY CountsAreNumbers DEF FInv, GamesAddUp
  <2> QED
    BY <1>1, <1>7, <1>10, <1>11, <2>1, <2>2 DEF SavedGamesAddUp
<1>15. SubmissionsAreFresh'
  <2>1. Having("pending")' = {} /\ ~At("decided")'
    BY <1>1, <1>4 DEF Having, At
  <2>2. Queued(trainerEvents', "candidate") = {}
    <3>1. Queued(trainerEvents', "candidate") = Queued(trainerEvents, "candidate")
      <4> DEFINE e == [type |-> "applied", fresh |-> trainer'.fresh]
      <4>1. e \in TrainerMessages /\ e.type # "candidate"
        BY <1>11 DEF TrainerMessages
      <4> HIDE DEF e
      <4> QED
        BY <1>1, <4>1, QueuedAppend DEF IInv, TypeOK, LearnerTypeOK, e
    <3> QED
      BY <1>4, <3>1 DEF Offered
  <2> QED
    BY <1>6, <2>1, <2>2 DEF SubmissionsAreFresh
<1>16. EndsAreClean' /\ RootIsFree'
  BY <1>1, <1>3 DEF EndsAreClean, RootIsFree, IInv, ChildrenRun
<1> QED
  BY <1>13, <1>14, <1>15, <1>16 DEF FInv

\* A candidate gets its verdict, of which the trainer has yet to hear.
LEMMA DecideCounts == ASSUME IInv, IInv', FInv, DecideCandidate PROVE FInv'
<1> DEFINE n == Head(actorEvents).attempt
<1>1. /\ coordinator = "loop" /\ coordinator' = "decided"
      /\ UNCHANGED <<submitted, nextShard, trainer, trainerQ, trainerEvents, learnerFile,
                     actorEvents>>
      /\ Having("pending") # {} /\ n = Min(Having("pending"))
      /\ \E accepted \in BOOLEAN : Decide(n, accepted)
  BY DEF DecideCandidate, Decide, At, Goto, shardVars, trainerVars, actorVars
<1>2. /\ Having("pending") = {n} /\ n \in Attempts
  BY <1>1, PendingIsOne DEF IInv, Rows
<1>3. /\ coordinator \in Awake /\ coordinator' \in Awake /\ ~At("decided") /\ At("decided")'
      /\ ~At("retire") /\ ~At("retire")'
  BY <1>1 DEF Awake, At
<1>4. ~Told /\ ~Told' /\ ~Offered /\ ~Unheard /\ Unheard'
  BY <1>1, <1>3 DEF IInv, Trial, OneStage, OnTrial, Told, Unheard
<1>5. /\ Judged' = Judged \cup {n} /\ Having("pending")' = {} /\ n \notin Judged
      /\ \A m \in Judged : m < n
  <2>1. status \in [Attempts -> {"none", "pending", "accepted", "rejected", "interrupted"}]
        /\ status[n] = "pending"
    BY <1>2 DEF IInv, TypeOK, ManifestTypeOK, Having
  <2>2. \E verdict \in {"accepted", "rejected"} : status' = [status EXCEPT ![n] = verdict]
    BY <1>1 DEF Decide
  <2>3. Judged' = Judged \cup {n} /\ Having("pending")' = {}
    BY <1>2, <2>1, <2>2 DEF Judged, Having
  <2>4. n \notin Judged
    BY <2>1 DEF Judged, Having
  <2>5. \A m \in Judged : ~(m > n)
    BY <1>2 DEF IInv, Rows, LatestIsOnTrial, Judged, Having
  <2> QED
    BY <1>2, <2>3, <2>4, <2>5, ManifestAssumption DEF Judged, Having, Attempts
<1>6. n \in LastJudged'
  BY <1>2, <1>5, ManifestAssumption DEF LastJudged, Judged, Having, Attempts
<1>7. SpentGames' = SpentGames
  <2>1. Heard = Judged
    BY <1>4 DEF Heard
  <2>2. Heard' = Judged' \ {n}
    <3>1. \A m \in Judged' : (\E k \in Judged' : k > m) <=> m # n
      BY <1>2, <1>5, ManifestAssumption DEF Judged, Having, Attempts
    <3> QED
      BY <1>4, <3>1 DEF Heard
  <2> QED
    BY <1>1, <1>5, <2>1, <2>2, SpentStays
<1>8. GamesAddUp' /\ SavedGamesAddUp'
  <2>1. Arriving' = Arriving
    BY <1>1, <1>3 DEF Arriving
  <2> QED
    BY <1>1, <1>4, <1>7, <2>1 DEF FInv, GamesAddUp, SavedGamesAddUp
<1>9. SubmissionsAreFresh'
  <2>1. submitted[n] <= trainer.fresh
    BY <1>2, <1>3 DEF FInv, SubmissionsAreFresh
  <2>2. Queued(trainerEvents', "candidate") = {} /\ Queued(trainerQ', "decision") = {}
    BY <1>1, <1>4 DEF Offered, Told
  <2>3. Head(actorEvents').attempt = n
    BY <1>1
  <2> QED
    BY <1>1, <1>5, <1>6, <2>1, <2>2, <2>3 DEF SubmissionsAreFresh
<1>10. EndsAreClean' /\ RootIsFree'
  BY <1>3 DEF EndsAreClean, RootIsFree, IInv, ChildrenRun
<1> QED
  BY <1>8, <1>9, <1>10 DEF FInv

\* The verdict is on its way to the trainer.
LEMMA DispatchCounts == ASSUME IInv, IInv', FInv, DispatchDecision PROVE FInv'
<1> DEFINE n == Head(actorEvents).attempt
<1>1. /\ coordinator = "decided" /\ coordinator' = "prune"
      /\ UNCHANGED <<status, submitted, champion, nextShard, trainer, trainerEvents, learnerFile>>
      /\ \E learner \in Attempts : trainerQ' = Append(trainerQ, Decision(n, learner))
  BY DEF DispatchDecision, NextLearner, SetIncumbent, At, Goto, shardVars
<1>2. /\ coordinator \in Awake /\ coordinator' \in Awake /\ At("decided") /\ ~At("decided")'
      /\ ~At("retire") /\ ~At("retire")'
  BY <1>1 DEF Awake, At
<1>3. PICK learner \in Attempts : trainerQ' = Append(trainerQ, Decision(n, learner))
  BY <1>1
<1> DEFINE d == Decision(n, learner)
<1>4. d.type = "decision" /\ d.submitted = submitted[n]
  BY DEF Decision
<1>5. PICK S : trainerQ \in Seq(S) /\ d \in S
  <2>1. trainerQ \in Seq(TrainerCommands \cup {d})
    BY DEF IInv, TypeOK, LearnerTypeOK
  <2> QED
    BY <2>1
<1>6. /\ Queued(trainerQ', "decision") = Queued(trainerQ, "decision") \cup {Len(trainerQ) + 1}
      /\ Queued(trainerQ', "add") = Queued(trainerQ, "add")
      /\ trainerQ'[Len(trainerQ) + 1] = d
  <2>1. trainerQ' = Append(trainerQ, d)
    BY <1>3
  <2> HIDE DEF d
  <2>2. Queued(trainerQ', "decision") = Queued(trainerQ, "decision") \cup {Len(trainerQ) + 1}
    BY <1>4, <1>5, <2>1, QueuedAppend
  <2>3. Queued(trainerQ', "add") = Queued(trainerQ, "add")
    BY <1>4, <1>5, <2>1, QueuedAppend
  <2>4. trainerQ'[Len(trainerQ) + 1] = d
    BY <1>5, <2>1, AppendOf
  <2> QED
    BY <2>2, <2>3, <2>4
<1> HIDE DEF d
<1>7. ~Told /\ Told' /\ Unheard /\ Unheard'
  BY <1>2, <1>6 DEF IInv, Trial, OneStage, Told, Unheard
<1>8. /\ Judged' = Judged /\ Having("pending")' = Having("pending") /\ LastJudged' = LastJudged
      /\ Heard' = Heard
  BY <1>1, <1>7 DEF Judged, Having, LastJudged, Heard
<1>9. SpentGames' = SpentGames /\ Arriving' = Arriving
  BY <1>1, <1>2, <1>6, <1>8, SpentStays DEF Arriving
<1>10. GamesAddUp' /\ SavedGamesAddUp'
  BY <1>1, <1>7, <1>9 DEF FInv, GamesAddUp, SavedGamesAddUp
<1>11. SubmissionsAreFresh'
  <2>1. n \in LastJudged /\ submitted[n] <= trainer.fresh
    BY <1>2 DEF FInv, SubmissionsAreFresh
  <2>2. \A i \in Queued(trainerQ', "decision") : trainerQ'[i] = d
    BY <1>6, <1>7 DEF Told
  <2> QED
    BY <1>1, <1>2, <1>4, <1>8, <2>1, <2>2 DEF FInv, SubmissionsAreFresh
<1>12. EndsAreClean' /\ RootIsFree'
  BY <1>2 DEF EndsAreClean, RootIsFree, IInv, ChildrenRun
<1> QED
  BY <1>10, <1>11, <1>12 DEF FInv

\* A candidate gets its row, with the fresh games it was offered with.
LEMMA CandidateCounts == ASSUME IInv, IInv', FInv, RegisterCandidate PROVE FInv'
<1> DEFINE n == NextAttempt
<1>1. /\ coordinator = "register" /\ coordinator' = "loop"
      /\ UNCHANGED <<champion, nextShard, trainer, trainerQ, learnerFile>>
      /\ trainerEvents' = Tail(trainerEvents)
      /\ AddInterrupted(n) \/ AddPending(n, Head(trainerEvents).fresh)
  BY DEF RegisterCandidate, AddInterrupted, AddPending, TakeTrainerEvent, At, Goto, shardVars
<1>2. /\ coordinator \in Awake /\ coordinator' \in Awake /\ ~At("decided") /\ ~At("decided")'
      /\ ~At("retire") /\ ~At("retire")'
  BY <1>1 DEF Awake, At
<1>3. /\ trainerEvents # <<>> /\ 1 \in Queued(trainerEvents, "candidate")
      /\ Head(trainerEvents) = trainerEvents[1]
  <2>1. trainerEvents # <<>> /\ Head(trainerEvents).type = "candidate"
    BY <1>1 DEF IInv, Trial, OfferIsAtHand, At
  <2> QED
    BY <2>1 DEF Queued, IInv, TypeOK, LearnerTypeOK
<1>4. Having("pending") = {} /\ ~Told /\ ~Told'
  BY <1>1, <1>3 DEF IInv, Trial, OneStage, OnTrial, Offered, Told
<1>5. n \in Attempts /\ status[n] = "none"
  <2>1. Orphans # {}
    BY <1>1 DEF IInv, Checkpoints, RowIsDue
  <2> QED
    BY <2>1, OrphanIsOne DEF IInv, TypeOK, Checkpoints
<1> HIDE DEF n
<1>6. /\ Judged' = Judged /\ n \notin Judged /\ Having("pending")' \subseteq {n}
      /\ \A m \in Attempts \ {n} : submitted'[m] = submitted[m]
      /\ submitted'[n] = Head(trainerEvents).fresh \/ Having("pending")' = {}
  <2>1. /\ status \in [Attempts -> {"none", "pending", "accepted", "rejected", "interrupted"}]
        /\ submitted \in [Attempts -> Nat]
    BY DEF IInv, TypeOK, ManifestTypeOK
  <2>2. CASE AddInterrupted(n)
    BY <1>4, <1>5, <2>1, <2>2 DEF AddInterrupted, Judged, Having
  <2>3. CASE AddPending(n, Head(trainerEvents).fresh)
    BY <1>4, <1>5, <2>1, <2>3 DEF AddPending, Judged, Having
  <2> QED
    BY <1>1, <2>2, <2>3
<1>7. Heard' = Heard /\ SpentGames' = SpentGames /\ Arriving' = Arriving /\ ~Unheard
  <2>1. ~Unheard /\ ~Unheard'
    BY <1>2, <1>4 DEF Unheard, Told
  <2>2. Heard' = Judged /\ Heard = Judged
    BY <1>6, <2>1 DEF Heard
  <2>3. SpentGames' = SpentGames
    BY <1>6, <2>2, SpentStays DEF Judged, Having
  <2> QED
    BY <1>1, <1>2, <2>1, <2>2, <2>3 DEF Arriving
<1>8. GamesAddUp' /\ SavedGamesAddUp'
  BY <1>1, <1>7 DEF FInv, GamesAddUp, SavedGamesAddUp
<1>9. SubmissionsAreFresh'
  <2>1. \A i \in Queued(trainerEvents, "candidate") : trainerEvents[i].fresh <= trainer.fresh
    BY <1>2 DEF FInv, SubmissionsAreFresh
  <2>2. \A i \in Queued(trainerEvents', "candidate") : trainerEvents'[i].fresh <= trainer.fresh
    BY <1>1, <1>3, <2>1, MessageTaken
  <2>3. \A m \in Having("pending")' : submitted'[m] <= trainer.fresh
    BY <1>3, <1>6, <2>1
  <2> QED
    BY <1>1, <1>2, <1>4, <2>2, <2>3 DEF SubmissionsAreFresh, Told
<1>10. EndsAreClean' /\ RootIsFree'
  BY <1>1, <1>2 DEF EndsAreClean, RootIsFree, IInv, ChildrenRun
<1> QED
  BY <1>8, <1>9, <1>10 DEF FInv

\* Where the children sleep only the manifest and learner.pt matter.
LEMMA CountsAtRest ==
  ASSUME IInv', coordinator' \notin Awake, IsFiniteSet(SpentGames'),
         Cardinality(SpentGames') < nextShard'
  PROVE  GamesAddUp' /\ SubmissionsAreFresh' /\ ~Unheard'
<1>1. trainer' = NoTrainer /\ trainerQ' = <<>> /\ coordinator' \notin {"retire", "decided"}
  BY DEF IInv, ChildrenSleep, Awake
<1>2. Queued(trainerQ', "add") = {} /\ Queued(trainerQ', "decision") = {}
  BY <1>1 DEF Queued
<1>3. Arriving' = 0 /\ trainer'.fresh = 0 /\ ~Unheard'
  <2>1. Cardinality(Queued(trainerQ', "add")) = 0
    BY <1>2, FS_EmptySet
  <2>2. ~At("retire")' /\ ~At("decided")'
    BY <1>1 DEF At
  <2>3. Arriving' = 0
    BY <2>1, <2>2 DEF Arriving
  <2> QED
    BY <1>1, <1>2, <2>2, <2>3 DEF NoTrainer, Unheard
<1>4. Cardinality(SpentGames') \in Nat
  BY FS_CardinalityType
<1> QED
  BY <1>3, <1>4 DEF GamesAddUp, SubmissionsAreFresh

\* An invocation starts and ends, without anything left to repair.
LEMMA EndsCount ==
  ASSUME IInv, IInv', FInv, Start \/ InitializeRoot \/ CloseCandidate \/ CloseRow \/ Close
  PROVE  FInv'
<1>1. /\ coordinator \notin Awake /\ coordinator' \notin Awake
      /\ UNCHANGED <<nextShard, learnerFile>>
  BY DEF Start, InitializeRoot, CloseCandidate, CloseRow, Close, At, Goto, Awake, manifestVars,
     shardVars, trainerVars
<1>2. ~Unheard /\ ~Unheard'
  BY <1>1 DEF Unheard, At, Queued, Awake, IInv, ChildrenSleep
<1>3. Heard = Judged /\ Heard' = Judged'
  BY <1>2 DEF Heard
<1>4. Having("pending") = {} /\ (learnerFile.champion = champion \/ SpentGames = {})
  BY <1>1 DEF FInv, EndsAreClean
<1>5. /\ SpentGames' = SpentGames /\ Having("pending")' = {} /\ RootIsFree'
      /\ champion' = champion \/ SpentGames = {}
      /\ coordinator' \in {"down", "starting"} =>
           candidateFile' = NoFile /\ (champion' # NoAttempt => Orphans' = {})
  <2>1. CASE Start
    <3>1. UNCHANGED <<status, submitted, weights, champion, candidateFile>>
          /\ coordinator = "down"
      BY <2>1 DEF Start, At, manifestVars, attemptVars, trainerVars
    <3>2. Having("pending")' = {} /\ Judged' = Judged /\ Orphans' = Orphans
      BY <1>4, <3>1 DEF Having, Judged, Orphans, Saved
    <3> QED
      BY <1>1, <1>3, <3>1, <3>2, SpentStays DEF FInv, EndsAreClean, RootIsFree
  <2>2. CASE InitializeRoot
    <3>1. champion = NoAttempt /\ coordinator = "starting" /\ candidateFile' = candidateFile
          /\ submitted' = submitted /\ (AddRoot \/ SaveRoot)
      BY <2>2 DEF InitializeRoot, AddRoot, SaveRoot, At, trainerVars
    <3>2. \A m \in Attempts : status[m] = "none"
      BY <3>1 DEF IInv, Rows, RootIsFirst
    <3>3. Judged = {} /\ SpentGames = {}
      BY <1>3, <3>2 DEF Judged, Having, SpentGames
    <3>4. candidateFile = NoFile /\ submitted[0] = 0 /\ learnerFile.fresh = 0
      BY <3>1 DEF IInv, Rows, RootIsFirst, FInv, RootIsFree
    <3>5. CASE SaveRoot
      <4>1. UNCHANGED <<status, champion>>
        BY <3>5 DEF SaveRoot
      <4>2. Judged' = {} /\ Having("pending")' = {}
        BY <3>2, <4>1 DEF Judged, Having
      <4> QED
        BY <1>1, <1>3, <3>1, <3>3, <3>4, <4>1, <4>2 DEF SpentGames, RootIsFree
    <3>6. CASE AddRoot
      <4>1. status' = [status EXCEPT ![0] = "accepted"] /\ champion' = 0 /\ weights' = weights
        BY <3>6 DEF AddRoot
      <4>2. Judged' \subseteq {0} /\ Having("pending")' = {}
            /\ Having("none")' \subseteq Having("none") \ {0}
        BY <3>2, <4>1 DEF Judged, Having, IInv, TypeOK, ManifestTypeOK
      <4>3. SpentGames' = {}
        <5>1. \A m \in Heard' : 1..submitted'[m] = {}
          BY <1>3, <3>1, <3>4, <4>2
        <5> QED
          BY <5>1 DEF SpentGames
      <4>4. Orphans' = {}
        <5>1. Orphans' \subseteq Orphans /\ 0 \notin Orphans'
          BY <4>1, <4>2 DEF Orphans, Saved
        <5>2. ASSUME NEW m \in Orphans PROVE m = 0
          <6>1. m \in Attempts /\ \A k \in Attempts : status[k] = "none" <=> k >= m
            BY <5>2 DEF IInv, Checkpoints, OrphanIsNext, IsNextRow, Orphans, Saved
          <6> QED
            BY <3>2, <6>1, ManifestAssumption DEF Attempts
        <5> QED
          BY <5>1, <5>2
      <4> QED
        BY <3>1, <3>3, <3>4, <4>1, <4>2, <4>3, <4>4 DEF RootIsFree, NoAttempt
    <3> QED
      BY <3>1, <3>5, <3>6
  <2>3. CASE CloseCandidate
    <3>1. UNCHANGED <<status, submitted, champion>> /\ coordinator' = "interrupted"
      BY <2>3 DEF CloseCandidate, MoveCandidate, SaveAttempt, Goto
    <3>2. Having("pending")' = {} /\ Judged' = Judged
      BY <1>4, <3>1 DEF Having, Judged
    <3> QED
      BY <1>1, <1>3, <3>1, <3>2, SpentStays DEF FInv, RootIsFree
  <2>4. CASE CloseRow
    <3> DEFINE n == NextAttempt
    <3>1. coordinator = "interrupted" /\ AddInterrupted(n) /\ candidateFile' = candidateFile
          /\ UNCHANGED <<submitted, weights, champion>>
      BY <2>4 DEF CloseRow, AddInterrupted, At, trainerVars
    <3>2. Orphans # {} /\ champion # NoAttempt
      BY <3>1 DEF IInv, Checkpoints, RowIsDue
    <3>3. Orphans = {n} /\ n \in Attempts /\ status[n] = "none" /\ candidateFile = NoFile
      BY <3>2, OrphanIsOne DEF IInv, TypeOK, Checkpoints, OrphanIsAlone
    <3> HIDE DEF n
    <3>4. status' = [status EXCEPT ![n] = "interrupted"]
      BY <3>1 DEF AddInterrupted
    <3>5. Having("pending")' = {} /\ Judged' = Judged /\ Orphans' = {}
      BY <1>4, <3>1, <3>3, <3>4 DEF Having, Judged, Orphans, Saved, IInv, TypeOK, ManifestTypeOK
    <3> QED
      BY <1>3, <3>1, <3>2, <3>3, <3>5, SpentStays DEF RootIsFree
  <2>5. CASE Close
    <3>1. /\ coordinator = "closing" /\ candidateFile = NoFile
          /\ UNCHANGED <<status, submitted, weights, champion, candidateFile>>
      BY <1>4, <2>5 DEF Close, At, manifestVars, attemptVars, trainerVars
    <3>2. Having("pending")' = {} /\ Judged' = Judged /\ Orphans' = Orphans
      BY <1>4, <3>1 DEF Having, Judged, Orphans, Saved
    <3>3. champion # NoAttempt => Orphans = {}
      BY <3>1 DEF IInv, Checkpoints, OrphanIsAlone
    <3> QED
      BY <1>1, <1>3, <3>1, <3>2, <3>3, SpentStays DEF FInv, RootIsFree
  <2> QED
    BY <2>1, <2>2, <2>3, <2>4, <2>5
<1>6. IsFiniteSet(SpentGames') /\ Cardinality(SpentGames') < nextShard'
  <2>1. /\ IsFiniteSet(SpentGames) /\ Cardinality(SpentGames) + trainer.fresh + Arriving < nextShard
        /\ Cardinality(SpentGames) \in Nat /\ trainer.fresh \in Nat /\ Arriving \in Nat
        /\ nextShard \in Nat
    BY CountsAreNumbers DEF FInv, GamesAddUp
  <2> QED
    BY <1>1, <1>5, <2>1
<1>7. GamesAddUp' /\ SubmissionsAreFresh'
  BY <1>1, <1>6, CountsAtRest
<1>8. EndsAreClean'
  BY <1>1, <1>4, <1>5 DEF EndsAreClean
<1>9. SavedGamesAddUp'
  <2>1. CASE champion' = champion
    BY <1>1, <1>2, <1>5, <2>1 DEF FInv, SavedGamesAddUp
  <2>2. CASE champion' # champion
    <3>1. learnerFile'.fresh = 0
      BY <1>1, <2>2 DEF Start, InitializeRoot, SaveRoot, CloseCandidate, CloseRow, Close, MoveCandidate,
         SaveAttempt, AddInterrupted, manifestVars, attemptVars, FInv, RootIsFree
    <3>2. Cardinality(SpentGames') \in Nat
      BY <1>6, FS_CardinalityType
    <3> QED
      BY <1>6, <3>1, <3>2 DEF SavedGamesAddUp
  <2> QED
    BY <2>1, <2>2
<1> QED
  BY <1>5, <1>7, <1>8, <1>9 DEF FInv

\* A run that stops by itself leaves the learner of its champion.
LEMMA ReturnCounts == ASSUME IInv, IInv', FInv, Return PROVE FInv'
<1>1. /\ coordinator = "loop" /\ coordinator' = "closing" /\ MayStop
      /\ UNCHANGED <<status, submitted, champion, nextShard>>
      /\ learnerFile' \in {learnerFile, Checkpoint(trainer)}
  BY DEF Return, StopChildren, At, Goto, manifestVars, attemptVars, shardVars
<1>2. coordinator \in Awake /\ coordinator' \notin Awake /\ champion # NoAttempt
  BY <1>1 DEF Awake, IInv, ChildrenRun
<1>3. trainer.champion = champion /\ learnerFile.champion = champion /\ ~Told
  BY <1>1, DurableByIInv DEF StopIsDurable, At, Told
<1>4. Having("pending") = {} /\ ~Unheard
  BY <1>1, <1>3 DEF MayStop, IInv, Trial, StopFollowsVerdict, OnTrial, Unheard, At, Told
<1>5. coordinator' \notin {"down", "starting", "decided"} /\ ~Unheard'
  <2>1. trainerQ' = <<>>
    BY <1>2 DEF IInv, ChildrenSleep
  <2> QED
    BY <1>1, <2>1 DEF Unheard, At, Queued
<1>6. Having("pending")' = {} /\ Judged' = Judged /\ Heard = Judged /\ Heard' = Judged'
  BY <1>1, <1>4, <1>5 DEF Having, Judged, Heard
<1>7. SpentGames' = SpentGames
  BY <1>1, <1>6, SpentStays
<1>8. /\ learnerFile'.champion = champion
      /\ learnerFile'.fresh \in {learnerFile.fresh, trainer.fresh}
  BY <1>1, <1>3 DEF Checkpoint
<1>9. /\ IsFiniteSet(SpentGames) /\ Cardinality(SpentGames) < nextShard
      /\ Cardinality(SpentGames) + trainer.fresh < nextShard
      /\ Cardinality(SpentGames) + learnerFile.fresh < nextShard
  <2>1. /\ IsFiniteSet(SpentGames) /\ Cardinality(SpentGames) + trainer.fresh + Arriving < nextShard
        /\ Cardinality(SpentGames) \in Nat /\ trainer.fresh \in Nat /\ Arriving \in Nat
        /\ nextShard \in Nat
    BY CountsAreNumbers DEF FInv, GamesAddUp
  <2>2. Cardinality(SpentGames) + learnerFile.fresh < nextShard
    BY <1>3, <1>4 DEF FInv, SavedGamesAddUp
  <2> QED
    BY <2>1, <2>2
<1>10. GamesAddUp' /\ SubmissionsAreFresh'
  BY <1>1, <1>2, <1>7, <1>9, CountsAtRest
<1>11. SavedGamesAddUp' /\ EndsAreClean' /\ RootIsFree'
  BY <1>1, <1>2, <1>5, <1>6, <1>7, <1>8, <1>9 DEF SavedGamesAddUp, EndsAreClean, RootIsFree
<1> QED
  BY <1>10, <1>11 DEF FInv

\* The next one starts from it, or from the active shards, before any verdict.
LEMMA LaunchCounts == ASSUME IInv, IInv', FInv, Launch PROVE FInv'
<1> DEFINE pending == Having("pending")
           t == Started(champion, active, pending # {})
<1>1. /\ coordinator = "starting" /\ coordinator' = "loop"
      /\ champion # NoAttempt
      /\ trainer' = t /\ trainerEvents' = <<Progress(t)>>
      /\ UNCHANGED <<status, submitted, champion, nextShard, learnerFile>>
      /\ pending = {} => trainerQ' = <<>>
  BY DEF Launch, At, Goto, manifestVars, attemptVars, shardVars
<1>2. /\ coordinator \notin Awake /\ coordinator' \in Awake
      /\ coordinator \notin {"decided", "retire"} /\ ~At("decided")' /\ ~At("retire")'
  BY <1>1 DEF Awake, At
<1>3. pending = {} /\ (learnerFile.champion = champion \/ SpentGames = {})
  BY <1>2 DEF FInv, EndsAreClean
<1>4. trainerQ = <<>> /\ trainerQ' = <<>> /\ Queued(trainerQ, "decision") = {}
      /\ \A type \in {"add", "decision"} : Queued(trainerQ', type) = {}
  BY <1>1, <1>2, <1>3 DEF IInv, ChildrenSleep, Queued
<1>5. ~Unheard /\ ~Unheard'
  BY <1>2, <1>4 DEF Unheard, At
<1>6. pending' = {} /\ Judged' = Judged /\ Heard = Judged /\ Heard' = Judged'
  BY <1>1, <1>3, <1>5 DEF Having, Judged, Heard
<1>7. SpentGames' = SpentGames /\ Arriving' = 0
  <2>1. Cardinality(Queued(trainerQ', "add")) = 0
    BY <1>4, FS_EmptySet
  <2> QED
    BY <1>1, <1>2, <1>6, <2>1, SpentStays DEF Arriving
<1>8. /\ IsFiniteSet(SpentGames) /\ Cardinality(SpentGames) \in Nat /\ nextShard \in Nat
      /\ Cardinality(SpentGames) < nextShard
  <2>1. /\ IsFiniteSet(SpentGames) /\ Cardinality(SpentGames) + trainer.fresh + Arriving < nextShard
        /\ Cardinality(SpentGames) \in Nat /\ trainer.fresh \in Nat /\ Arriving \in Nat
        /\ nextShard \in Nat
    BY CountsAreNumbers DEF FInv, GamesAddUp
  <2> QED
    BY <2>1
<1>9. t.fresh \in Nat /\ Cardinality(SpentGames) + t.fresh < nextShard
  <2>1. CASE learnerFile.champion = champion
    <3>1. t.fresh = learnerFile.fresh
      BY <2>1 DEF Started, FromShards
    <3>2. Cardinality(SpentGames) + learnerFile.fresh < nextShard
      BY <1>5, <2>1 DEF FInv, SavedGamesAddUp
    <3> QED
      BY <3>1, <3>2 DEF IInv, TypeOK, LearnerTypeOK
  <2>2. CASE learnerFile.champion # champion
    <3>1. t.fresh = Cardinality(active)
      BY <2>2 DEF Started, FromShards
    <3>2. active \subseteq 1..(nextShard - 1)
      BY <1>8 DEF IInv, TypeOK, ManifestTypeOK, Files, ActiveIsBacked, Shards
    <3>3. nextShard - 1 \in Nat
      BY <1>8
    <3>4. IsFiniteSet(1..(nextShard - 1)) /\ Cardinality(1..(nextShard - 1)) = nextShard - 1
      BY <3>3, FS_Interval
    <3>5. Cardinality(active) \in Nat /\ Cardinality(active) <= nextShard - 1
      BY <3>2, <3>4, FS_Subset, FS_CardinalityType
    <3>6. Cardinality(SpentGames) = 0
      BY <1>3, <2>2, FS_EmptySet
    <3> QED
      BY <1>8, <3>1, <3>5, <3>6
  <2> QED
    BY <2>1, <2>2
<1> HIDE DEF t
<1>10. GamesAddUp'
  <2>1. Cardinality(SpentGames') + trainer'.fresh + Arriving' < nextShard'
    BY <1>1, <1>7, <1>8, <1>9
  <2> QED
    BY <1>7, <1>8, <2>1 DEF GamesAddUp
<1>11. SavedGamesAddUp'
  BY <1>1, <1>5, <1>7 DEF FInv, SavedGamesAddUp
<1>12. SubmissionsAreFresh'
  <2>1. Queued(trainerEvents', "candidate") = {}
    BY <1>1 DEF Queued, Progress
  <2> QED
    BY <1>2, <1>4, <1>6, <2>1 DEF SubmissionsAreFresh
<1>13. EndsAreClean' /\ RootIsFree'
  BY <1>1, <1>2 DEF EndsAreClean, RootIsFree
<1> QED
  BY <1>10, <1>11, <1>12, <1>13 DEF FInv

\* A new run has no games.
LEMMA InitCounts == Init => FInv
<1> SUFFICES ASSUME Init PROVE FInv
  OBVIOUS
<1>1. /\ trainer.fresh = 0 /\ trainerQ = <<>> /\ learnerFile.fresh = 0 /\ candidateFile = NoFile
      /\ champion = NoAttempt /\ nextShard = 1 /\ coordinator = "down"
      /\ \A n \in Attempts : status[n] = "none" /\ submitted[n] = 0
  BY DEF Init, ManifestInit, LearnerInit, NoTrainer, NoLearner
<1>2. Having("pending") = {} /\ Judged = {} /\ Heard = {} /\ SpentGames = {}
  BY <1>1 DEF Having, Judged, Heard, SpentGames
<1>3. IsFiniteSet(SpentGames) /\ Cardinality(SpentGames) = 0
  BY <1>2, FS_EmptySet
<1>4. Arriving = 0
  <2>1. Queued(trainerQ, "add") = {}
    BY <1>1 DEF Queued
  <2>2. Cardinality(Queued(trainerQ, "add")) = 0
    BY <2>1, FS_EmptySet
  <2> QED
    BY <1>1, <2>2 DEF Arriving, At
<1>5. coordinator \notin Awake /\ 0 \in Attempts
  BY <1>1, ManifestAssumption DEF Awake, Attempts
<1> QED
  BY <1>1, <1>2, <1>3, <1>4, <1>5
     DEF FInv, GamesAddUp, SavedGamesAddUp, EndsAreClean, SubmissionsAreFresh, RootIsFree

\* Without an interruption there is never anything to recover.
LEMMA NothingToRecover ==
  ASSUME FInv PROVE ~RecoverOrphan /\ ~RecoverCandidate
BY DEF FInv, EndsAreClean, RecoverOrphan, RecoverCandidate, MoveCandidate, At, Awake

\* Every step of a run without interruptions keeps the counts apart.
LEMMA StepCounts ==
  ASSUME IInv, IInv', FInv, ~Interruptions, [Next]_vars
  PROVE  FInv'
<1>1. CASE Start \/ InitializeRoot \/ CloseCandidate \/ CloseRow \/ Close
  BY <1>1, EndsCount
<1>2. CASE Launch
  BY <1>2, LaunchCounts
<1>3. CASE \/ ModelReloaded \/ ReceiveCandidate \/ ShardRemoved \/ DecisionApplied
           \/ TrainerProgress \/ EndPass \/ PruneRejected
  BY <1>3, CoordinatorCounts
<1>4. CASE RegisterShard
  BY <1>4, RegisterCounts
<1>5. CASE RetireShards
  BY <1>5, RetireCounts
<1>6. CASE DecideCandidate
  BY <1>6, DecideCounts
<1>7. CASE DispatchDecision
  BY <1>7, DispatchCounts
<1>8. CASE RegisterCandidate
  BY <1>8, CandidateCounts
<1>9. CASE Return
  BY <1>9, ReturnCounts
<1>10. CASE ActorStep
  BY <1>10, ActorCounts
<1>11. CASE TrainerStep
  <2>1. LearnerStep /\ UNCHANGED <<manifestVars, coordinator, actorVars>>
    BY <1>11 DEF TrainerStep, LearnerStep
  <2> QED
    BY <2>1, CommandCounts, TrainCounts, VerdictCounts DEF LearnerStep
<1>12. CASE UNCHANGED vars
  <2>1. UNCHANGED <<manifestVars, trainerVars, coordinator, actorEvents>>
    BY <1>12 DEF vars, actorVars
  <2>2. UNCHANGED <<status, submitted, weights, champion, nextShard, trainer, trainerQ,
                    trainerEvents, learnerFile, candidateFile, coordinator, actorEvents>>
    BY <2>1 DEF manifestVars, attemptVars, shardVars, trainerVars
  <2>3. /\ Having("pending")' = Having("pending") /\ Judged' = Judged /\ Unheard' = Unheard
        /\ Orphans' = Orphans /\ Arriving' = Arriving
    BY <2>2 DEF Having, Judged, Unheard, Orphans, Saved, Arriving, At
  <2>4. Heard' = Heard /\ LastJudged' = LastJudged
    BY <2>3 DEF Heard, LastJudged
  <2>5. SpentGames' = SpentGames
    BY <2>2, <2>4, SpentStays
  <2>6. GamesAddUp' /\ SavedGamesAddUp' /\ EndsAreClean' /\ RootIsFree'
    BY <2>2, <2>3, <2>5
       DEF FInv, GamesAddUp, SavedGamesAddUp, EndsAreClean, RootIsFree
  <2>7. SubmissionsAreFresh'
    BY <2>2, <2>3, <2>4 DEF FInv, SubmissionsAreFresh, At
  <2> QED
    BY <2>6, <2>7 DEF FInv
<1> QED
  BY <1>1, <1>2, <1>3, <1>4, <1>5, <1>6, <1>7, <1>8, <1>9, <1>10, <1>11, <1>12, NothingToRecover
     DEF Next, Startup, Handlers, Shutdown, Abort, Crash

\* The counts are kept apart as long as nothing interrupts the run.
FreshInv == ~Interruptions => FInv

\* Without an interruption, the games that were submitted with candidates, and
\* those the trainer counts or will count as fresh, are different games of the
\* manifest: a verdict takes from the learner's fresh games what its candidate
\* was submitted with, and learner.pt brings no more back (training_v2.py,
\* apply_decision, decide_attempt and the restart from learner.pt).
THEOREM FreshGamesStayApart == Spec => []FreshGamesCountOnce
<1>1. Init => FreshInv
  BY InitCounts DEF FreshInv
<1>2. IInv /\ IInv' /\ FreshInv /\ [Next]_vars => FreshInv'
  BY StepCounts DEF FreshInv
<1>3. IInv /\ FreshInv => FreshGamesCountOnce
  <2> SUFFICES ASSUME IInv, FInv, ~Interruptions
               PROVE  Cardinality(SpentGames) + trainer.fresh
                        + Cardinality(Queued(trainerQ, "add")) < nextShard
    BY DEF FreshInv, FreshGamesCountOnce
  <2>1. Cardinality(Queued(trainerQ, "add")) \in Nat
    BY QueuedIsFinite DEF IInv, TypeOK, LearnerTypeOK
  <2>2. Arriving \in {Cardinality(Queued(trainerQ, "add")), Cardinality(Queued(trainerQ, "add")) + 1}
    BY <2>1 DEF Arriving
  <2>3. /\ Cardinality(SpentGames) + trainer.fresh + Arriving < nextShard
        /\ Cardinality(SpentGames) \in Nat /\ trainer.fresh \in Nat /\ nextShard \in Nat
    BY CountsAreNumbers DEF FInv, GamesAddUp
  <2> QED
    BY <2>1, <2>2, <2>3
<1> QED
  BY <1>1, <1>2, <1>3, Invariance, PTL DEF Spec
=============================================================================
