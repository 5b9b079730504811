---------------------------- MODULE ReplayLoader ----------------------------
(***************************************************************************)
(* The trainer's replay (training_v2.py, ReplayPool and ReplayPrefetcher): *)
(* the trainer's thread and a loader thread draw batches from one pool of  *)
(* shards, one random stream and one cache, while the coordinator adds     *)
(* shards, retires them, and deletes the file of a shard once the trainer  *)
(* says it has removed it.                                                 *)
(*                                                                         *)
(* A batch is some draws of shards, each loaded from the cache or from its *)
(* file; the position of the stream is the number of draws.  At most one   *)
(* future exists at a time, so one loader thread stands for all of them.   *)
(***************************************************************************)
EXTENDS Integers, Sequences, SequencesExt

CONSTANTS
  Shards,      \* bound: the shards ever registered, in order: 1..n
  Initial,     \* those the trainer starts with
  CacheLimit,  \* cache_limit, at least 2
  BatchDraws,  \* bound: draws of one batch, at most
  MaxDraws     \* bound: draws of the run

\* Shards are numbered, from 1: no shard is 0.
ASSUME ReplayLoaderAssumption ==
  /\ Shards \subseteq Nat \ {0} /\ Initial \subseteq Shards
  /\ CacheLimit \in Nat \ {0} /\ BatchDraws \in Nat /\ MaxDraws \in Nat

VARIABLES
  files,      \* shards whose file exists
  commands,   \* to the trainer
  removed,    \* shard_removed events on their way to the coordinator
  active,     \* pool.shards
  cache,      \* pool.cache, least recently used first
  draws,      \* the position of pool.rng
  lock,       \* who holds pool.lock
  left,       \* draws the batch of the lock's holder may still make
  chosen,     \* the shard it is about to load, or 0
  future,     \* the prefetched batch
  pc,         \* where the trainer is
  next,       \* where it goes when its own batch is drawn
  saved,      \* replay_rng_state of the last checkpoint
  resumable,  \* nothing was trained or validated since that checkpoint
  reported,   \* the trainer's last event: "no", "stopped", "error"
  misread     \* history: a file was opened that does not exist

coordinator == <<files, commands, removed>>
pool        == <<active, cache, draws, lock, left, chosen, misread>>
trainer     == <<pc, next, saved, resumable, reported>>
vars        == <<coordinator, pool, future, trainer>>

Commands == [kind : {"add", "remove"}, shard : Shards] \cup {[kind |-> "stop"]}

TypeOK ==
  /\ files \subseteq Shards /\ commands \in Seq(Commands) /\ removed \in Seq(Shards)
  /\ active \subseteq Shards /\ cache \in Seq(Shards) /\ Len(cache) <= CacheLimit
  /\ draws \in 0..MaxDraws /\ saved \in -1..MaxDraws
  /\ lock \in {"free", "trainer", "loader"} /\ left \in 0..BatchDraws
  /\ chosen \in Shards \cup {0}
  /\ future \in {"none", "queued", "running", "done", "failed"}
  /\ pc \in {"idle", "waiting", "drawing", "training", "saving", "halving",
             "stopping", "failing", "ended"}
  /\ next \in {"training", "saving"}
  /\ resumable \in BOOLEAN /\ misread \in BOOLEAN
  /\ reported \in {"no", "stopped", "error"}

Init ==
  /\ files = Initial /\ commands = <<>> /\ removed = <<>>
  /\ active = Initial /\ cache = <<>> /\ draws = 0
  /\ lock = "free" /\ left = 0 /\ chosen = 0 /\ misread = FALSE /\ future = "none"
  /\ pc = "idle" /\ next = "training" /\ saved = -1 /\ resumable = FALSE
  /\ reported = "no"

-----------------------------------------------------------------------------
(* The coordinator.                                                        *)

Sent(kind, s) == [kind |-> kind, shard |-> s] \in ToSet(commands)
Window == {s \in Shards : (s \in active \/ Sent("add", s)) /\ ~Sent("remove", s)}

Announce(s) ==
  /\ \A t \in files \cup Window : t < s
  /\ files' = files \cup {s}
  /\ commands' = Append(commands, [kind |-> "add", shard |-> s])
  /\ UNCHANGED <<removed, pool, future, trainer>>

\* The oldest shard leaves the window, never the last one.
Retire(s) ==
  /\ s \in Window /\ Window # {s} /\ \A t \in Window : s <= t
  /\ commands' = Append(commands, [kind |-> "remove", shard |-> s])
  /\ UNCHANGED <<files, removed, pool, future, trainer>>

Delete ==
  /\ removed # <<>> /\ files' = files \ {Head(removed)} /\ removed' = Tail(removed)
  /\ UNCHANGED <<commands, pool, future, trainer>>

Stop ==
  /\ [kind |-> "stop"] \notin ToSet(commands)
  /\ commands' = Append(commands, [kind |-> "stop"])
  /\ UNCHANGED <<files, removed, pool, future, trainer>>

-----------------------------------------------------------------------------
(* A batch, drawn under the lock by the trainer or the loader.             *)

Acquire(who) ==
  /\ lock = "free" /\ lock' = who /\ left' = BatchDraws
  /\ UNCHANGED <<active, cache, draws, chosen, misread>>

Recent(s) == Append(RemoveFirst(cache, s), s)

\* The cache with s most recent, the least recent dropped beyond the limit.
InCache(s) ==
  IF Len(Recent(s)) > CacheLimit THEN Tail(Recent(s)) ELSE Recent(s)

\* A draw: a shard is chosen, then taken from the cache or from its file.
Choose(who) ==
  /\ lock = who /\ chosen = 0 /\ left > 0 /\ draws < MaxDraws
  /\ chosen' \in active /\ draws' = draws + 1 /\ left' = left - 1
  /\ UNCHANGED <<coordinator, active, cache, lock, misread, future, trainer>>
Load(who) ==
  /\ lock = who /\ chosen # 0 /\ chosen' = 0 /\ cache' = InCache(chosen)
  /\ misread' = (misread \/ chosen \notin ToSet(cache) \cup files)
  /\ UNCHANGED <<coordinator, active, draws, lock, left, future, trainer>>

\* The batch is complete, or drawing it raised: no shard, a damaged one, or no
\* game of the partition (of which validation makes nothing).
Drawn(who) ==
  /\ lock = who /\ left < BatchDraws /\ chosen = 0 /\ lock' = "free" /\ left' = 0
  /\ UNCHANGED <<active, cache, draws, chosen, misread>>
Raised(who) ==
  /\ lock = who /\ lock' = "free" /\ left' = 0 /\ chosen' = 0
  /\ UNCHANGED <<active, cache, draws, misread>>

LoaderStarts ==
  /\ \/ future = "queued" /\ future' = "running" /\ UNCHANGED pool
     \/ future = "running" /\ Acquire("loader") /\ UNCHANGED future
  /\ UNCHANGED <<coordinator, trainer>>
LoaderEnds ==
  /\ \/ Drawn("loader")  /\ future' = "done"
     \/ Raised("loader") /\ future' = "failed"
  /\ UNCHANGED <<coordinator, trainer>>

-----------------------------------------------------------------------------
(* The trainer.                                                            *)

Goto(place) == pc' = place /\ UNCHANGED <<next, saved, resumable, reported>>

AddShard(s) ==
  /\ lock = "free" /\ active' = active \cup {s}
  /\ UNCHANGED <<cache, removed>> /\ Goto("idle")

RemoveShard(s) ==
  /\ lock = "free" /\ active' = active \ {s}
  /\ cache' = RemoveFirst(cache, s)
  /\ removed' = Append(removed, s) /\ Goto("idle")

Command ==
  /\ pc = "idle" /\ commands # <<>> /\ commands' = Tail(commands)
  /\ CASE Head(commands).kind = "add"    -> AddShard(Head(commands).shard)
       [] Head(commands).kind = "remove" -> RemoveShard(Head(commands).shard)
       [] OTHER -> Goto("stopping") /\ UNCHANGED <<active, cache, removed>>
  /\ UNCHANGED <<files, draws, lock, left, chosen, misread, future>>

\* training_batch: the prefetched batch is awaited, or one is drawn here.
TrainingBatch ==
  /\ pc = "idle" /\ commands = <<>> /\ active # {} /\ draws < MaxDraws
  /\ pc' = (IF future = "none" THEN "drawing" ELSE "waiting")
  /\ next' = "training" /\ resumable' = FALSE
  /\ UNCHANGED <<coordinator, pool, future, saved, reported>>

\* The batch is used while the next one is drawn in the background.
Prefetched ==
  /\ pc = "waiting"
  /\ \/ future = "done" /\ future' = "queued" /\ Goto("training")
     \/ future = "failed" /\ UNCHANGED future /\ Goto("failing")
  /\ UNCHANGED <<coordinator, pool>>

StartDrawing ==
  /\ pc = "drawing" /\ Acquire("trainer")
  /\ UNCHANGED <<coordinator, future, trainer>>

EndDrawing ==
  /\ pc = "drawing"
  /\ \/ /\ Drawn("trainer") /\ Goto(next)
        /\ future' = IF next = "training" THEN "queued" ELSE future
     \/ /\ Raised("trainer") /\ UNCHANGED future
        /\ (Goto("failing") \/ (next = "saving" /\ Goto("saving")))
  /\ UNCHANGED coordinator

\* A step of the optimizer: on with the loop, or first a validation batch and a
\* checkpoint; or it ran out of memory, or failed otherwise.
Train ==
  /\ pc = "training"
  /\ \/ Goto("idle") \/ Goto("saving") \/ Goto("halving") \/ Goto("failing")
     \/ /\ draws < MaxDraws /\ pc' = "drawing" /\ next' = "saving"
        /\ UNCHANGED <<saved, resumable, reported>>
  /\ UNCHANGED <<coordinator, pool, future>>

\* invalidate: a future that has not begun is cancelled, one that runs is waited
\* for, and the error of one that failed is raised.
Invalidated == future \in {"none", "queued", "done"} /\ future' = "none"
Uncancelled == future = "failed" /\ UNCHANGED future

\* Faulty variant: the checkpoint is written beside the loader.
SaveBesideLoader ==
  /\ pc \in {"saving", "stopping"} /\ saved' = draws /\ resumable' = TRUE
  /\ pc' = (IF pc = "saving" THEN "idle" ELSE "ended")
  /\ reported' = (IF pc = "saving" THEN reported ELSE "stopped")
  /\ UNCHANGED <<coordinator, pool, future, next>>

\* save_learner, at a checkpoint and at the end.
Save ==
  /\ pc \in {"saving", "stopping"}
  /\ \/ /\ Invalidated /\ saved' = draws /\ resumable' = TRUE
        /\ pc' = (IF pc = "saving" THEN "idle" ELSE "ended")
        /\ reported' = (IF pc = "saving" THEN reported ELSE "stopped")
        /\ UNCHANGED next
     \/ Uncancelled /\ Goto("failing")
  /\ UNCHANGED <<coordinator, pool>>

\* The batch is halved after an out-of-memory error, and drawn anew.
Halve ==
  /\ pc = "halving"
  /\ \/ Invalidated /\ Goto("idle")
     \/ Uncancelled /\ Goto("failing")
  /\ UNCHANGED <<coordinator, pool>>

\* The handler of the process closes the prefetcher, then reports the error.
Fail ==
  /\ pc = "failing" /\ pc' = "ended"
  /\ \/ Invalidated /\ reported' = "error"
     \/ Uncancelled /\ UNCHANGED reported
  /\ UNCHANGED <<coordinator, pool, next, saved, resumable>>

-----------------------------------------------------------------------------
Coordinator == Delete \/ Stop \/ \E s \in Shards : Announce(s) \/ Retire(s)
Loader      == LoaderStarts \/ Choose("loader") \/ Load("loader") \/ LoaderEnds
Trainer     == Command \/ TrainingBatch \/ Prefetched \/ StartDrawing
               \/ Choose("trainer") \/ Load("trainer") \/ EndDrawing \/ Train
               \/ Save \/ Halve \/ Fail

Next == Coordinator \/ Loader \/ Trainer

Spec == Init /\ [][Next]_vars

\* Both threads run on; the coordinator need not do anything, and a trainer with
\* nothing to do waits.
FairSpec == Spec /\ WF_vars(Loader) /\ WF_vars(Trainer)

-----------------------------------------------------------------------------
(* Properties.                                                             *)

\* No thread opens the file of a shard that the coordinator has deleted: a
\* removal waits for the batch being drawn, and only then is acknowledged.
NoDeletedRead == ~misread

\* The cache keeps only shards of the window, and never more than its limit.
CacheIsOfTheWindow == ToSet(cache) \subseteq active

\* The stream a checkpoint records is the one the trainer goes on with: no draw
\* of a batch that will be thrown away slips in after it is read.
CheckpointResumes == resumable => saved = draws

\* The trainer and the loader never wait for each other: a batch, a checkpoint
\* and an end are all reached.
TrainerGoesOn ==
  (pc \in {"waiting", "drawing", "saving", "stopping"})
    ~> (pc \in {"idle", "training", "failing", "ended"} \/ draws = MaxDraws)

\* "The trainer process failed: …": a trainer that ends says why, but for the
\* error of a prefetched batch, which the handler's own close raises again.
FailureIsReported == pc = "ended" => reported # "no" \/ future = "failed"

\* The trainer and its loader share the replay pool soundly: no file is opened
\* after its deletion, the cache holds shards of the window only, a checkpoint
\* records the stream of draws the trainer goes on with, and a trainer that ends
\* says why.
ReplayIsSound ==
  TypeOK /\ NoDeletedRead /\ CacheIsOfTheWindow /\ CheckpointResumes /\ FailureIsReported
=============================================================================
