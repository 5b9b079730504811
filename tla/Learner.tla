------------------------------ MODULE Learner ------------------------------
(***************************************************************************)
(* The trainer process of a V2 run (src/c4a0/training_v2.py,               *)
(* _trainer_process and ReplayPool): it spends the sample budget that the  *)
(* shards bring, saves itself to learner.pt, and hands over a candidate    *)
(* when it has seen enough fresh games and its budget has drained to the   *)
(* watermark at which self-play resumes.                                   *)
(*                                                                         *)
(* Its two queues are FIFO, and a command that was put may not be visible  *)
(* yet: a training step may come before any command in the queue.          *)
(***************************************************************************)
EXTENDS RunManifest

CONSTANTS
  Warmup,           \* replay_warmup_games, in shards
  ShardBudget,      \* round(train_samples * replay_ratio) of a shard
  BatchSize,        \* training_batch_size
  ValidationSteps,  \* validation_interval_steps
  ReportCap,        \* the 10 of min(validation_interval_steps, 10)
  DebtResume        \* debt_resume_shards

ASSUME LearnerAssumption ==
  /\ Warmup \in Nat \ {0}
  /\ ShardBudget \in Nat \ {0}
  /\ BatchSize \in Nat \ {0}
  /\ ValidationSteps \in Nat \ {0}
  /\ ReportCap \in Nat \ {0}
  /\ DebtResume \in Nat \ {0}

VARIABLES
  trainer,        \* the process's local state, NoTrainer when there is none
  trainerQ,       \* trainer_commands
  trainerEvents,  \* trainer_events
  learnerFile,    \* learner.pt
  candidateFile   \* .candidate.pt

trainerVars == <<trainer, trainerQ, trainerEvents, learnerFile, candidateFile>>

NoTrainer == [on |-> FALSE, pending |-> FALSE, fresh |-> 0, budget |-> 0,
              steps |-> 0, champion |-> NoAttempt, pool |-> {},
              best |-> NoFile]
NoLearner == [champion |-> NoAttempt, fresh |-> 0, budget |-> 0, steps |-> 0]

\* Training steps matter modulo the two intervals they are compared with.
ReportSteps == Min({ValidationSteps, ReportCap})
StepCycle   == IF ValidationSteps % ReportSteps = 0
               THEN ValidationSteps ELSE ValidationSteps * ReportSteps

Checkpoint(t) == [champion |-> t.champion, fresh |-> t.fresh,
                  budget |-> t.budget, steps |-> t.steps]
Payload(t)    == [parent |-> t.champion, fresh |-> t.fresh]

\* pool.resume_sample_budget()
ResumeBudget(t) == IF t.pool = {} THEN 0 ELSE ShardBudget * DebtResume

\* Faulty variant: as many fresh games as self-play stops at are too few.
EnoughAfter(t) == /\ t.fresh > Warmup
                  /\ t.budget <= Max({BatchSize, ResumeBudget(t)})

Enough(t) == /\ t.fresh >= Warmup
             /\ t.budget <= Max({BatchSize, ResumeBudget(t)})

Progress(t) == [type |-> "progress", budget |-> t.budget, fresh |-> t.fresh]

----------------------------------------------------------------------------
(* The process starts from the active shards, or from learner.pt when that *)
(* was saved under the same champion.                                      *)

FromShards(c, shards, pending) ==
  [on |-> TRUE, pending |-> pending, fresh |-> Cardinality(shards),
   budget |-> Cardinality(shards) * ShardBudget, steps |-> 0,
   champion |-> c, pool |-> shards, best |-> NoFile]

Started(c, shards, pending) ==
  IF learnerFile.champion # c THEN FromShards(c, shards, pending)
  ELSE [FromShards(c, shards, pending) EXCEPT
          !.fresh  = learnerFile.fresh,
          !.budget = learnerFile.budget,
          !.steps  = learnerFile.steps]

----------------------------------------------------------------------------
(* Commands.                                                               *)

Command(type) ==
  /\ trainer.on
  /\ trainerQ # <<>> /\ Head(trainerQ).type = type
  /\ trainerQ' = Tail(trainerQ)

AddShard ==
  /\ Command("add")
  /\ trainer' = [trainer EXCEPT !.pool   = @ \cup {Head(trainerQ).shard},
                                !.fresh  = @ + 1,
                                !.budget = @ + ShardBudget]
  /\ UNCHANGED <<trainerEvents, learnerFile, candidateFile>>

RemoveShard ==
  /\ Command("remove")
  /\ trainer' = [trainer EXCEPT !.pool = @ \ {Head(trainerQ).shard}]
  /\ trainerEvents' = Append(trainerEvents, Head(trainerQ))
  /\ UNCHANGED <<learnerFile, candidateFile>>

\* Faulty variant: the learner acknowledges before it saves itself.
ApplyDecisionUnsaved ==
  /\ Command("decision")
  /\ trainer' = [trainer EXCEPT
       !.pending  = Head(trainerQ).pause,
       !.fresh    = Max({0, @ - Head(trainerQ).submitted}),
       !.champion = Head(trainerQ).champion,
       !.best     = NoFile]
  /\ trainerEvents' =
       Append(trainerEvents, [type |-> "applied", fresh |-> trainer'.fresh])
  /\ UNCHANGED <<learnerFile, candidateFile>>

\* Faulty variant: the games a candidate was trained on stay fresh.
ApplyDecisionKeepingFresh ==
  /\ Command("decision")
  /\ trainer' = [trainer EXCEPT
       !.pending  = Head(trainerQ).pause,
       !.champion = Head(trainerQ).champion,
       !.best     = NoFile]
  /\ learnerFile' = Checkpoint(trainer')
  /\ trainerEvents' =
       Append(trainerEvents, [type |-> "applied", fresh |-> trainer'.fresh])
  /\ UNCHANGED candidateFile

\* The checkpoint it names is loaded, the learner saved, then acknowledged.
ApplyDecision ==
  /\ Command("decision")
  /\ Head(trainerQ).learner \in Saved
  /\ trainer' = [trainer EXCEPT
       !.pending  = Head(trainerQ).pause,
       !.fresh    = Max({0, @ - Head(trainerQ).submitted}),
       !.champion = Head(trainerQ).champion,
       !.best     = NoFile]
  /\ learnerFile' = Checkpoint(trainer')
  /\ trainerEvents' =
       Append(trainerEvents, [type |-> "applied", fresh |-> trainer'.fresh])
  /\ UNCHANGED candidateFile

\* An arena that a restart resumes: the trainer was started pending.
Suspend ==
  /\ Command("pending")
  /\ trainer' = [trainer EXCEPT !.pending = TRUE]
  /\ UNCHANGED <<trainerEvents, learnerFile, candidateFile>>

----------------------------------------------------------------------------
(* One training step, with the validation, the report and the candidate    *)
(* that follow it in the same iteration of the loop.                       *)

Trained == [trainer EXCEPT !.budget = Max({0, @ - BatchSize}),
                           !.steps  = (@ + 1) % StepCycle]

\* A validation that finds a lower loss keeps this model as the best one.
Validated(t) == {t, [t EXCEPT !.best = Payload(t)]}

\* The best model of the cycle, or the present one, becomes the candidate.
HandOver(t, events) ==
  LET best == IF t.best = NoFile THEN Payload(t) ELSE t.best
  IN /\ candidateFile' = best
     /\ trainer' = [t EXCEPT !.best = best, !.pending = TRUE]
     /\ trainerEvents' = events \o <<[type |-> "candidate", fresh |-> t.fresh]>>

TrainStep ==
  /\ trainer.on /\ ~trainer.pending
  /\ trainer.budget >= BatchSize
  /\ trainer.pool # {}
  /\ \E t \in IF Trained.steps % ValidationSteps = 0 THEN Validated(Trained)
                                                     ELSE {Trained} :
       LET events == IF t.steps % ReportSteps = 0
                     THEN Append(trainerEvents, Progress(t))
                     ELSE trainerEvents
       IN /\ learnerFile' = IF t.steps % ValidationSteps = 0
                            THEN Checkpoint(t) ELSE learnerFile
          /\ IF Enough(t) THEN HandOver(t, events)
             ELSE /\ trainer' = t
                  /\ trainerEvents' = events
                  /\ UNCHANGED candidateFile
  /\ UNCHANGED trainerQ

LearnerStep ==
  /\ \/ AddShard \/ RemoveShard \/ ApplyDecision \/ Suspend
     \/ TrainStep
  /\ UNCHANGED manifestVars

LearnerInit ==
  /\ trainer = NoTrainer
  /\ trainerQ = <<>>
  /\ trainerEvents = <<>>
  /\ learnerFile = NoLearner
  /\ candidateFile = NoFile

TrainerCommands ==
  [type : {"add", "remove"}, shard : Shards]
  \cup [type : {"pending"}]
  \cup [type : {"decision"}, champion : Attempts, learner : Attempts,
        submitted : Nat, pause : BOOLEAN]

TrainerMessages ==
  [type : {"progress"}, budget : Nat, fresh : Nat]
  \cup [type : {"candidate", "applied"}, fresh : Nat]
  \cup [type : {"remove"}, shard : Shards]

LearnerTypeOK ==
  /\ trainer \in [on : BOOLEAN, pending : BOOLEAN, fresh : Nat, budget : Nat,
                  steps : 0..(StepCycle - 1),
                  champion : Attempts \cup {NoAttempt},
                  pool : SUBSET Shards, best : Payloads \cup {NoFile}]
  /\ trainerQ \in Seq(TrainerCommands)
  /\ trainerEvents \in Seq(TrainerMessages)
  /\ learnerFile \in [champion : Attempts \cup {NoAttempt}, fresh : Nat,
                      budget : Nat, steps : 0..(StepCycle - 1)]
  /\ candidateFile \in Payloads \cup {NoFile}
=============================================================================
