---------------------------- MODULE TrainingRun ----------------------------
(***************************************************************************)
(* A V2 training run (src/c4a0/training_v2.py, _run_async_training_owned): *)
(* the coordinator, which alone writes the manifest, the self-play actor   *)
(* and the trainer, connected by four queues; and the crashes, aborts and  *)
(* restarts a run goes through.                                            *)
(*                                                                         *)
(* A handler of the coordinator is one action per commit it makes, so that *)
(* a crash can come between any two of them.  The children die with the    *)
(* coordinator (PR_SET_PDEATHSIG), and the queues with them.               *)
(***************************************************************************)
EXTENDS Learner, SequencesExt

CONSTANTS
  ShardsPerBatch,   \* self_play_batch_games / self_play_shard_games
  DebtPause,        \* debt_pause_shards
  CandidateLimit,   \* max_candidate_attempts
  MaxInvocations,   \* bound: starts of the coordinator
  Interruptions     \* whether invocations crash or abort

ASSUME RunAssumption ==
  /\ ShardsPerBatch \in Nat \ {0}
  /\ DebtPause \in Nat /\ DebtResume < DebtPause
  /\ Warmup < Capacity
  /\ CandidateLimit \in Nat \ {0}
  /\ MaxInvocations \in Nat
  /\ Interruptions \in BOOLEAN

VARIABLES
  coordinator,     \* where the coordinator is
  actorBusy,
  arenaWaiting,
  pausedForDebt,
  trainerBudget,   \* its copy of the trainer's sample budget
  trainerFresh,    \* its copy of the trainer's fresh games
  stopRequested,
  lifecycle,       \* lifecycle_waiting
  decisions,       \* candidate_decisions
  deletions,       \* pending_deletions
  actorQ,          \* actor_commands
  actorEvents,     \* actor_events
  written,         \* shards of the command at hand the actor has saved
  invocations

schedule  == <<actorBusy, arenaWaiting, pausedForDebt, trainerBudget,
               trainerFresh, stopRequested, lifecycle, decisions, deletions>>
actorVars == <<actorQ, actorEvents, written>>
vars == <<manifestVars, trainerVars, coordinator, schedule, actorVars,
          invocations>>

Generate == [type |-> "generate", champion |-> champion, first |-> nextShard]
Arena(n) == [type |-> "arena", attempt |-> n]
Reload   == [type |-> "reload", champion |-> champion]

----------------------------------------------------------------------------
(* The actor.                                                              *)

ActorCommand(type) == actorQ # <<>> /\ Head(actorQ).type = type

\* Every shard of the batch is saved before any of them is announced.
ActorSavesShard ==
  /\ ActorCommand("generate") /\ written < ShardsPerBatch
  /\ Head(actorQ).first + written \in Shards
  /\ files' = files \cup {Head(actorQ).first + written}
  /\ written' = written + 1
  /\ UNCHANGED <<attemptVars, nextShard, active, actorQ, actorEvents>>

Announcements(first) ==
  [i \in 1..ShardsPerBatch |-> [type |-> "shard", shard |-> first + i - 1,
                                final |-> i = ShardsPerBatch]]

ActorAnnounces ==
  /\ ActorCommand("generate") /\ written = ShardsPerBatch
  /\ actorEvents' = actorEvents \o Announcements(Head(actorQ).first)
  /\ actorQ' = Tail(actorQ)
  /\ written' = 0
  /\ UNCHANGED manifestVars

\* The arena plays the candidate's checkpoint.
ActorPlaysArena ==
  /\ ActorCommand("arena")
  /\ Head(actorQ).attempt \in Saved
  /\ actorEvents' = Append(actorEvents, Head(actorQ))
  /\ actorQ' = Tail(actorQ)
  /\ UNCHANGED <<manifestVars, written>>

ActorReloads ==
  /\ ActorCommand("reload")
  /\ Head(actorQ).champion \in Saved
  /\ actorEvents' = Append(actorEvents, Head(actorQ))
  /\ actorQ' = Tail(actorQ)
  /\ UNCHANGED <<manifestVars, written>>

ActorStep ==
  /\ ActorSavesShard \/ ActorAnnounces \/ ActorPlaysArena \/ ActorReloads
  /\ UNCHANGED <<trainerVars, coordinator, schedule, invocations>>

TrainerStep ==
  /\ LearnerStep
  /\ UNCHANGED <<coordinator, schedule, actorVars, invocations>>

----------------------------------------------------------------------------
(* The coordinator starts, and repairs what the last crash left.           *)

At(place)  == coordinator = place
Goto(place) == coordinator' = place

Start ==
  /\ At("down") /\ invocations < MaxInvocations
  /\ Goto("starting")
  /\ invocations' = invocations + 1
  /\ UNCHANGED <<manifestVars, trainerVars, schedule, actorVars>>

InitializeRoot ==
  /\ At("starting") /\ champion = NoAttempt
  /\ IF 0 \in Saved THEN AddRoot ELSE SaveRoot
  /\ UNCHANGED <<shardVars, trainerVars, coordinator, schedule, actorVars,
                 invocations>>

\* _recover_orphaned_candidates: a checkpoint without a row goes back to the
\* arena, unless another one is there or it challenged another champion.
RecoverRow(n) ==
  IF Having("pending") = {} /\ weights[n].parent = champion
  THEN AddPending(n, weights[n].fresh)
  ELSE AddInterrupted(n)

RecoverOrphan ==
  /\ At("starting") /\ champion # NoAttempt
  /\ Orphans # {}
  /\ RecoverRow(Min(Orphans))
  /\ UNCHANGED <<shardVars, trainerVars, coordinator, schedule, actorVars,
                 invocations>>

\* os.replace: the candidate file becomes the next attempt's checkpoint.
MoveCandidate ==
  /\ candidateFile # NoFile
  /\ NextAttempt \in Attempts
  /\ SaveAttempt(NextAttempt, candidateFile)
  /\ candidateFile' = NoFile

RecoverCandidate ==
  /\ At("starting") /\ champion # NoAttempt
  /\ Orphans = {}
  /\ MoveCandidate
  /\ UNCHANGED <<shardVars, trainer, trainerQ, trainerEvents, learnerFile,
                 coordinator, schedule, actorVars, invocations>>

\* The children start; the trainer is told of a pending arena, which the
\* actor resumes, or the actor generates.
Launch ==
  /\ At("starting") /\ champion # NoAttempt
  /\ Orphans = {} /\ candidateFile = NoFile
  /\ LET pending == Having("pending")
         t == Started(champion, active, pending # {})
     IN /\ trainer' = t
        /\ trainerEvents' = <<Progress(t)>>
        /\ arenaWaiting' = (pending # {})
        /\ IF pending # {}
           THEN /\ trainerQ' = <<[type |-> "pending"]>>
                /\ actorQ' = <<Arena(Min(pending))>>
           ELSE /\ trainerQ' = <<>>
                /\ actorQ' = <<Generate>>
  /\ actorBusy' = TRUE
  /\ Goto("loop")
  /\ UNCHANGED <<manifestVars, learnerFile, candidateFile, pausedForDebt,
                 trainerBudget, trainerFresh, stopRequested, lifecycle,
                 decisions, deletions, actorEvents, written, invocations>>

----------------------------------------------------------------------------
(* Events of the actor.                                                    *)

ActorEvent(type) == actorEvents # <<>> /\ Head(actorEvents).type = type

RegisterShard ==
  /\ At("loop") /\ ActorEvent("shard")
  /\ InsertShard(Head(actorEvents).shard)
  /\ actorBusy' = ~Head(actorEvents).final
  /\ trainerBudget' = trainerBudget + ShardBudget
  /\ Goto("retire")
  /\ UNCHANGED <<attemptVars, trainerVars, arenaWaiting, pausedForDebt,
                 trainerFresh, stopRequested, lifecycle, decisions, deletions,
                 actorVars, invocations>>

AddCommand(s)    == [type |-> "add", shard |-> s]
RemoveCommand(s) == [type |-> "remove", shard |-> s]

\* The new shard is announced to the trainer, then each retired one.
ShardCommands(s, retired) ==
  <<AddCommand(s)>> \o [i \in DOMAIN retired |-> RemoveCommand(retired[i])]

\* ORDER BY shard_id: the one sequence of the shards from the oldest on.
OldestFirst(shards) ==
  {q \in [1..Cardinality(shards) -> shards] :
     \A i, j \in DOMAIN q : i < j => q[i] < q[j]}

\* Faulty variant: the file goes as soon as the shard leaves the manifest.
RetireAndUnlink ==
  /\ At("retire")
  /\ active' = active \ Overflow
  /\ files' = files \ Overflow
  /\ UNCHANGED <<nextShard, attemptVars>>
  /\ \E retired \in OldestFirst(Overflow) :
       trainerQ' = trainerQ \o ShardCommands(Head(actorEvents).shard, retired)
  /\ deletions' = deletions \cup Overflow
  /\ actorEvents' = Tail(actorEvents)
  /\ Goto("loop")
  /\ UNCHANGED <<trainer, trainerEvents, learnerFile, candidateFile, actorBusy,
                 arenaWaiting, pausedForDebt, trainerBudget, trainerFresh,
                 stopRequested, lifecycle, decisions, actorQ, written,
                 invocations>>

RetireShards ==
  /\ At("retire")
  /\ Retire
  /\ \E retired \in OldestFirst(Overflow) :
       trainerQ' = trainerQ \o ShardCommands(Head(actorEvents).shard, retired)
  /\ deletions' = deletions \cup Overflow
  /\ actorEvents' = Tail(actorEvents)
  /\ Goto("loop")
  /\ UNCHANGED <<attemptVars, trainer, trainerEvents, learnerFile,
                 candidateFile, actorBusy, arenaWaiting, pausedForDebt,
                 trainerBudget, trainerFresh, stopRequested, lifecycle,
                 decisions, actorQ, written, invocations>>

LimitReached == decisions' >= CandidateLimit

\* The arena's verdict is committed; the operator or the limit may stop the
\* run after it.
DecideCandidate ==
  /\ At("loop") /\ ActorEvent("arena")
  /\ Having("pending") # {}
  /\ Head(actorEvents).attempt = Min(Having("pending"))
  /\ \E accepted \in BOOLEAN : Decide(Head(actorEvents).attempt, accepted)
  /\ actorBusy' = FALSE
  /\ arenaWaiting' = FALSE
  /\ decisions' = decisions + 1
  /\ stopRequested' \in IF LimitReached THEN {TRUE} ELSE BOOLEAN
  /\ Goto("decided")
  /\ UNCHANGED <<shardVars, trainerVars, pausedForDebt, trainerBudget,
                 trainerFresh, lifecycle, deletions, actorVars, invocations>>

\* Which checkpoint the trainer continues from: the champion after a
\* promotion; else the rejected one, if it scored well enough and better than
\* the incumbent, or the incumbent, or again the champion.  The incumbent's
\* score is a commit of its own, which a crash can lose.
NextLearner(n, learner) ==
  \/ /\ status[n] = "accepted"
     /\ learner = champion /\ SetIncumbent(NoAttempt)
  \/ /\ status[n] = "rejected"
     /\ learner = n /\ SetIncumbent(n)
  \/ /\ status[n] = "rejected" /\ IncumbentUsable
     /\ learner = incumbent /\ SetIncumbent(incumbent)
  \/ /\ status[n] = "rejected" /\ (Interruptions \/ ~IncumbentUsable)
     /\ learner = champion /\ SetIncumbent(NoAttempt)

Decision(n, learner) ==
  [type |-> "decision", champion |-> champion, learner |-> learner,
   submitted |-> submitted[n], pause |-> stopRequested]

DispatchDecision ==
  /\ At("decided")
  /\ \E learner \in Attempts :
       /\ NextLearner(Head(actorEvents).attempt, learner)
       /\ trainerQ' = Append(trainerQ,
                             Decision(Head(actorEvents).attempt, learner))
  /\ actorQ' = Append(actorQ, Reload)
  /\ actorEvents' = Tail(actorEvents)
  /\ lifecycle' = {"actor", "trainer"}
  /\ Goto("prune")
  /\ UNCHANGED <<shardVars, trainer, trainerEvents, learnerFile,
                 candidateFile, actorBusy, arenaWaiting, pausedForDebt,
                 trainerBudget, trainerFresh, stopRequested, decisions,
                 deletions, written, invocations>>

PruneRejected ==
  /\ At("prune")
  /\ Prune(incumbent)
  /\ Goto("loop")
  /\ UNCHANGED <<shardVars, trainerVars, schedule, actorVars, invocations>>

ModelReloaded ==
  /\ At("loop") /\ ActorEvent("reload")
  /\ lifecycle' = lifecycle \ {"actor"}
  /\ actorEvents' = Tail(actorEvents)
  /\ UNCHANGED <<manifestVars, trainerVars, coordinator, actorBusy,
                 arenaWaiting, pausedForDebt, trainerBudget, trainerFresh,
                 stopRequested, decisions, deletions, actorQ, written,
                 invocations>>

----------------------------------------------------------------------------
(* Events of the trainer.                                                  *)

TrainerEvent(type) ==
  /\ At("loop")
  /\ trainerEvents # <<>> /\ Head(trainerEvents).type = type

TakeTrainerEvent ==
  /\ trainerEvents' = Tail(trainerEvents)
  /\ UNCHANGED <<trainer, trainerQ, learnerFile>>

\* The candidate is moved to its attempt, then gets its row and its arena.
ReceiveCandidate ==
  /\ TrainerEvent("candidate")
  /\ MoveCandidate
  /\ Goto("register")
  /\ UNCHANGED <<shardVars, trainer, trainerQ, trainerEvents, learnerFile,
                 schedule, actorVars, invocations>>

RegisterCandidate ==
  /\ At("register")
  /\ LET n == NextAttempt
     IN IF stopRequested
        THEN /\ AddInterrupted(n)
             /\ UNCHANGED <<arenaWaiting, actorQ>>
        ELSE /\ AddPending(n, Head(trainerEvents).fresh)
             /\ arenaWaiting' = TRUE
             /\ actorQ' = Append(actorQ, Arena(n))
  /\ TakeTrainerEvent
  /\ Goto("loop")
  /\ UNCHANGED <<shardVars, candidateFile, actorBusy, pausedForDebt,
                 trainerBudget, trainerFresh, stopRequested, lifecycle,
                 decisions, deletions, actorEvents, written, invocations>>

ShardRemoved ==
  /\ TrainerEvent("remove")
  /\ LET s == Head(trainerEvents).shard
     IN /\ files' = IF s \in deletions THEN files \ {s} ELSE files
        /\ deletions' = deletions \ {s}
  /\ TakeTrainerEvent
  /\ UNCHANGED <<attemptVars, nextShard, active, candidateFile, coordinator,
                 actorBusy, arenaWaiting, pausedForDebt, trainerBudget,
                 trainerFresh, stopRequested, lifecycle, decisions, actorVars,
                 invocations>>

DecisionApplied ==
  /\ TrainerEvent("applied")
  /\ lifecycle' = lifecycle \ {"trainer"}
  /\ trainerFresh' = Head(trainerEvents).fresh
  /\ TakeTrainerEvent
  /\ UNCHANGED <<manifestVars, candidateFile, coordinator, actorBusy,
                 arenaWaiting, pausedForDebt, trainerBudget, stopRequested,
                 decisions, deletions, actorVars, invocations>>

TrainerProgress ==
  /\ TrainerEvent("progress")
  /\ trainerBudget' = Head(trainerEvents).budget
  /\ trainerFresh' = Head(trainerEvents).fresh
  /\ TakeTrainerEvent
  /\ UNCHANGED <<manifestVars, candidateFile, coordinator, actorBusy,
                 arenaWaiting, pausedForDebt, stopRequested, lifecycle,
                 decisions, deletions, actorVars, invocations>>

----------------------------------------------------------------------------
(* The end of a pass over the events: back-pressure, then the stop, then    *)
(* more self-play.                                                         *)

DebtShards == (trainerBudget + ShardBudget - 1) \div ShardBudget

\* Faulty variant: the pause is never taken back.
UpdateDebtOneWay ==
  pausedForDebt' = (pausedForDebt \/ DebtShards >= DebtPause)

UpdateDebt ==
  pausedForDebt' = IF DebtShards >= DebtPause THEN TRUE
                   ELSE IF DebtShards <= DebtResume THEN FALSE
                   ELSE pausedForDebt

MayStop == stopRequested /\ ~arenaWaiting /\ lifecycle = {}

\* Faulty variant: a batch still under way is not waited for.
MayGenerateAnyway ==
  /\ ~arenaWaiting /\ ~pausedForDebt'
  /\ trainerFresh < Warmup
  /\ lifecycle = {} /\ ~stopRequested

MayGenerate ==
  /\ ~actorBusy /\ ~arenaWaiting /\ ~pausedForDebt'
  /\ trainerFresh < Warmup
  /\ lifecycle = {} /\ ~stopRequested

QueueGeneration ==
  /\ actorQ' = Append(actorQ, Generate)
  /\ actorBusy' = TRUE

EndPass ==
  /\ At("loop") /\ ~MayStop
  /\ UpdateDebt
  /\ IF MayGenerate THEN QueueGeneration ELSE UNCHANGED <<actorQ, actorBusy>>
  /\ UNCHANGED <<manifestVars, trainerVars, coordinator, arenaWaiting,
                 trainerBudget, trainerFresh, stopRequested, lifecycle,
                 decisions, deletions, actorEvents, written, invocations>>

----------------------------------------------------------------------------
(* The end of an invocation.                                               *)

ScheduleReset ==
  /\ actorBusy' = FALSE
  /\ arenaWaiting' = FALSE
  /\ pausedForDebt' = FALSE
  /\ trainerBudget' = 0
  /\ trainerFresh' = 0
  /\ stopRequested' = FALSE
  /\ lifecycle' = {}
  /\ decisions' = 0
  /\ deletions' = {}

ProcessesGone ==
  /\ trainer' = NoTrainer
  /\ trainerQ' = <<>> /\ trainerEvents' = <<>>
  /\ actorQ' = <<>> /\ actorEvents' = <<>> /\ written' = 0
  /\ ScheduleReset

\* The children are stopped: the trainer saves itself, or is killed first.
StopChildren ==
  /\ ProcessesGone
  /\ learnerFile' \in {learnerFile, Checkpoint(trainer)}
  /\ Goto("closing")
  /\ UNCHANGED <<manifestVars, candidateFile, invocations>>

Return == At("loop") /\ MayStop /\ StopChildren

\* Cancelled, or a child reported an error or died.
Abort == Interruptions /\ At("loop") /\ StopChildren

\* A candidate nobody will judge now is put on record as interrupted.
CloseCandidate ==
  /\ At("closing")
  /\ Having("pending") = {}
  /\ MoveCandidate
  /\ Goto("interrupted")
  /\ UNCHANGED <<shardVars, trainer, trainerQ, trainerEvents, learnerFile,
                 schedule, actorVars, invocations>>

CloseRow ==
  /\ At("interrupted")
  /\ AddInterrupted(NextAttempt)
  /\ Goto("down")
  /\ UNCHANGED <<shardVars, trainerVars, schedule, actorVars, invocations>>

Close ==
  /\ At("closing")
  /\ candidateFile = NoFile \/ Having("pending") # {}
  /\ Goto("down")
  /\ UNCHANGED <<manifestVars, trainerVars, schedule, actorVars, invocations>>

\* The coordinator is killed, and its children with it.
Crash ==
  /\ Interruptions /\ ~At("down")
  /\ ProcessesGone
  /\ Goto("down")
  /\ UNCHANGED <<manifestVars, learnerFile, candidateFile, invocations>>

----------------------------------------------------------------------------
Init ==
  /\ ManifestInit
  /\ LearnerInit
  /\ coordinator = "down"
  /\ actorBusy = FALSE /\ arenaWaiting = FALSE /\ pausedForDebt = FALSE
  /\ trainerBudget = 0 /\ trainerFresh = 0
  /\ stopRequested = FALSE /\ lifecycle = {} /\ decisions = 0
  /\ deletions = {}
  /\ actorQ = <<>> /\ actorEvents = <<>> /\ written = 0
  /\ invocations = 0

Startup  == InitializeRoot \/ RecoverOrphan \/ RecoverCandidate \/ Launch
Handlers == \/ RegisterShard \/ RetireShards
            \/ DecideCandidate \/ DispatchDecision \/ PruneRejected
            \/ ModelReloaded
            \/ ReceiveCandidate \/ RegisterCandidate
            \/ ShardRemoved \/ DecisionApplied \/ TrainerProgress
Shutdown == Return \/ CloseCandidate \/ CloseRow \/ Close

Next ==
  \/ Start \/ Startup \/ Handlers \/ EndPass \/ Shutdown
  \/ ActorStep \/ TrainerStep
  \/ Abort \/ Crash

Spec == Init /\ [][Next]_vars

(***************************************************************************)
(* The coordinator polls every 20 ms and handles what it finds, the actor  *)
(* finishes what it was asked, and the trainer obeys commands and trains.  *)
(* Nothing makes anybody start a run again.                                *)
(***************************************************************************)
Fairness ==
  /\ WF_vars(Startup) /\ WF_vars(Handlers) /\ WF_vars(EndPass)
  /\ WF_vars(Shutdown)
  /\ WF_vars(ActorStep)
  /\ WF_vars(TrainerStep)

FairSpec == Spec /\ Fairness

----------------------------------------------------------------------------
(* Properties.                                                             *)

ActorCommands ==
  [type : {"generate"}, champion : Attempts, first : 1..(MaxShard + 1)]
  \cup [type : {"arena"}, attempt : Attempts]
  \cup [type : {"reload"}, champion : Attempts]

ActorMessages ==
  [type : {"shard"}, shard : Shards, final : BOOLEAN]
  \cup [type : {"arena"}, attempt : Attempts]
  \cup [type : {"reload"}, champion : Attempts]

Places == {"down", "starting", "loop", "retire", "decided", "prune",
           "register", "closing", "interrupted"}

ScheduleTypeOK ==
  /\ coordinator \in Places
  /\ actorBusy \in BOOLEAN /\ arenaWaiting \in BOOLEAN
  /\ pausedForDebt \in BOOLEAN /\ stopRequested \in BOOLEAN
  /\ trainerBudget \in Nat /\ trainerFresh \in Nat
  /\ lifecycle \subseteq {"actor", "trainer"}
  /\ decisions \in 0..CandidateLimit
  /\ deletions \subseteq Shards
  /\ invocations \in 0..MaxInvocations

ActorTypeOK ==
  /\ actorQ \in Seq(ActorCommands)
  /\ actorEvents \in Seq(ActorMessages)
  /\ written \in 0..ShardsPerBatch

\* Type correctness of the run directory, the processes and the queues; an
\* invocation judges no more candidates than it was asked to.
TypeOK == ManifestTypeOK /\ LearnerTypeOK /\ ScheduleTypeOK /\ ActorTypeOK

Queued(queue, type) == {i \in DOMAIN queue : queue[i].type = type}

\* Whatever crashed or was pruned, what the manifest refers to is on disk:
\* the champion, the archived champions, the candidate under test and the
\* active shards; and the number of promotions is the number of rows.
ManifestIsBacked ==
  /\ champion = NoAttempt \/ status[champion] = "accepted"
  /\ Having("accepted") \cup Having("pending") \subseteq Saved
  /\ active \subseteq files
  /\ acceptedCount + 1 = Cardinality(Having("accepted") \cup {0})

\* A checkpoint that the trainer or the actor was told to load is not pruned
\* before they get to it.
QueuedCheckpointsExist ==
  /\ \A i \in Queued(trainerQ, "decision") : trainerQ[i].learner \in Saved
  /\ \A i \in Queued(actorQ, "arena") : actorQ[i].attempt \in Saved
  /\ \A i \in Queued(actorQ, "reload") : actorQ[i].champion \in Saved

\* The file of a shard outlives its use: the trainer can read every shard of
\* its pool, and every shard it was told to add.
PoolIsReadable ==
  /\ trainer.pool \subseteq files
  /\ \A i \in Queued(trainerQ, "add") : trainerQ[i].shard \in files

\* No file is missed: not one that the manifest refers to, nor one that a
\* process uses or was told to load (prune, retirement, recovery).
FilesExist == ManifestIsBacked /\ QueuedCheckpointsExist /\ PoolIsReadable

\* One candidate at a time: while one is saved but not yet registered, no
\* other is on trial, and it challenges the present champion.  So a crash at
\* this point never costs it its arena.
OneCandidate ==
  /\ Cardinality(Having("pending")) <= 1
  /\ candidateFile # NoFile =>
       Having("pending") = {} /\ candidateFile.parent = champion
  /\ champion # NoAttempt =>
       \A n \in Orphans : /\ Orphans = {n} /\ candidateFile = NoFile
                          /\ Having("pending") = {}
                          /\ weights[n].parent = champion

\* No verdict is ever raised against the wrong candidate ("arena result does
\* not match pending candidate").
ArenaMatchesPending ==
  /\ \A i \in Queued(actorQ, "arena") :
       Having("pending") = {actorQ[i].attempt}
  /\ ~At("decided") =>
       \A i \in Queued(actorEvents, "arena") :
         Having("pending") = {actorEvents[i].attempt}

\* No game number is used twice, and the reigning champion plays them all: at
\* most one batch is on its way, it starts at the next number and was asked of
\* the present champion.
OneGeneration ==
  /\ \A i \in Queued(actorQ, "generate") :
       /\ Queued(actorQ, "generate") = {i}
       /\ actorQ[i].first = nextShard
       /\ actorQ[i].champion = champion
       /\ Queued(actorEvents, "shard") = {}
       /\ lifecycle = {}
  /\ At("loop") => \A i \in Queued(actorEvents, "shard") :
       actorEvents[i].shard = nextShard + Cardinality(
         {j \in Queued(actorEvents, "shard") : j < i})

\* One thing at a time, through crashes and restarts: one candidate on trial,
\* its own verdict, one batch of games, and no candidate past the limit.
OneAtATime == TypeOK /\ OneCandidate /\ ArenaMatchesPending /\ OneGeneration

\* A run that stops by itself has lost nothing: the trainer has taken in the
\* last verdict, and learner.pt resumes under the present champion.
StopIsDurable ==
  At("loop") /\ MayStop =>
    /\ Queued(trainerQ, "decision") = {}
    /\ trainer.champion = champion
    /\ learnerFile.champion = champion

Judged == Having("accepted") \cup Having("rejected")

\* The verdicts but the last one, while the trainer has yet to hear of it.
Unheard == At("decided") \/ Queued(trainerQ, "decision") # {}
Heard   == {n \in Judged : Unheard => \E m \in Judged : m > n}

\* The games that were submitted with these candidates, each with its own.
SpentGames == UNION {{n} \X (1..submitted[n]) : n \in Heard}

\* Without an interruption, no game is submitted with two candidates: what
\* was spent, and what is still fresh, are different games of the manifest.
FreshGamesCountOnce ==
  ~Interruptions =>
    Cardinality(SpentGames) + trainer.fresh + Cardinality(Queued(trainerQ, "add"))
      < nextShard

\* The rows of the attempts, across all crashes, are a ladder of challenges.
Ladder == INSTANCE PromotionLadder
LadderSpec == Ladder!Spec

\* An invocation with a limit on its candidates returns.
InvocationReturns == At("loop") ~> At("down")

\* Self-play that paused for debt resumes, or the invocation ends: "the
\* coordinator starts self-play again once debt falls below this watermark".
PauseEnds == pausedForDebt ~> ~pausedForDebt
=============================================================================
