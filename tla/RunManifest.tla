---------------------------- MODULE RunManifest ----------------------------
(***************************************************************************)
(* What a V2 training run keeps on disk (src/c4a0/training_v2.py,          *)
(* RunManifest and the artifact directories): the rows and pointers of     *)
(* run.sqlite3, the checkpoints under attempts/ and the shards under       *)
(* replay/.  An operator below is one commit, or one atomic file           *)
(* operation; what survives a crash is exactly what these variables hold.  *)
(*                                                                         *)
(* All shards hold the same number of games (the batch is a whole multiple *)
(* of the shard), so games are counted in shards and a shard is named by   *)
(* its place in the sequence of games, which is what its file name says.   *)
(***************************************************************************)
EXTENDS Integers, Sequences, FiniteSets, FiniteSetsExt

CONSTANTS
  MaxAttempt,     \* bound: the last attempt number
  MaxShard,       \* bound: the last shard
  Capacity,       \* replay_capacity_games
  Retention       \* rejected_weight_retention

ASSUME ManifestAssumption ==
  /\ MaxAttempt \in Nat
  /\ MaxShard \in Nat
  /\ Capacity \in Nat \ {0}
  /\ Retention \in Nat

Attempts == 0..MaxAttempt
Shards   == 1..MaxShard

NoAttempt == -1          \* None
NoFile    == [parent |-> NoAttempt, fresh |-> 0]

\* What recovery reads back from a checkpoint: the champion it was trained
\* against and the fresh games it had seen.
Payloads == [parent : Attempts, fresh : Nat]

VARIABLES
  status,         \* attempts.status, "none" when there is no row
  submitted,      \* attempts.submitted_fresh_games
  weights,        \* attempts/<n>/model.pt
  champion,       \* run_state champion_attempt
  acceptedCount,  \* run_state accepted_count
  incumbent,      \* run_state learner_incumbent_attempt
  nextShard,      \* run_state next_game_id
  active,         \* replay_shards with active = 1
  files           \* replay/<n>.cbor

attemptVars  == <<status, submitted, weights, champion, acceptedCount,
                  incumbent>>
shardVars    == <<nextShard, active, files>>
manifestVars == <<attemptVars, shardVars>>

ManifestInit ==
  /\ status = [n \in Attempts |-> "none"]
  /\ submitted = [n \in Attempts |-> 0]
  /\ weights = [n \in Attempts |-> NoFile]
  /\ champion = NoAttempt
  /\ acceptedCount = 0
  /\ incumbent = NoAttempt
  /\ nextShard = 1
  /\ active = {}
  /\ files = {}

----------------------------------------------------------------------------
(* Queries.                                                                *)

Having(s) == {n \in Attempts : status[n] = s}
Saved     == {n \in Attempts : weights[n] # NoFile}

\* COALESCE(MAX(attempt_n), -1) + 1
NextAttempt == 1 + Max({NoAttempt} \cup (Attempts \ Having("none")))

\* Checkpoints that a crash left without a row.
Orphans == Saved \cap Having("none")

\* The capacity rule: the oldest shards go until the rest fits.
Overflow ==
  {s \in active : Cardinality({t \in active : t >= s}) > Capacity}

\* A rejected learner that scored well enough stays the learner while its
\* checkpoint exists.
IncumbentUsable == incumbent \in Saved

----------------------------------------------------------------------------
(* Commits and file operations.                                            *)

SaveRoot ==
  /\ weights' = [weights EXCEPT ![0] = [parent |-> 0, fresh |-> 0]]
  /\ UNCHANGED <<status, submitted, champion, acceptedCount, incumbent>>

AddRoot ==
  /\ status' = [status EXCEPT ![0] = "accepted"]
  /\ champion' = 0
  /\ UNCHANGED <<submitted, weights, acceptedCount, incumbent>>

\* os.replace of .candidate.pt: a checkpoint without a row yet.
SaveAttempt(n, payload) ==
  /\ weights' = [weights EXCEPT ![n] = payload]
  /\ UNCHANGED <<status, submitted, champion, acceptedCount, incumbent>>

AddPending(n, fresh) ==
  /\ status' = [status EXCEPT ![n] = "pending"]
  /\ submitted' = [submitted EXCEPT ![n] = fresh]
  /\ UNCHANGED <<weights, champion, acceptedCount, incumbent>>

AddInterrupted(n) ==
  /\ status' = [status EXCEPT ![n] = "interrupted"]
  /\ UNCHANGED <<submitted, weights, champion, acceptedCount, incumbent>>

\* Faulty variant: the champion pointer is not moved in the same commit.
DecideWithoutPromotion(n, accepted) ==
  /\ status' = [status EXCEPT ![n] = IF accepted THEN "accepted"
                                                 ELSE "rejected"]
  /\ acceptedCount' = IF accepted THEN acceptedCount + 1 ELSE acceptedCount
  /\ UNCHANGED <<submitted, weights, champion, incumbent>>

\* decide_attempt: one transaction.
Decide(n, accepted) ==
  /\ status' = [status EXCEPT ![n] = IF accepted THEN "accepted"
                                                 ELSE "rejected"]
  /\ champion' = IF accepted THEN n ELSE champion
  /\ acceptedCount' = IF accepted THEN acceptedCount + 1 ELSE acceptedCount
  /\ UNCHANGED <<submitted, weights, incumbent>>

SetIncumbent(n) ==
  /\ incumbent' = n
  /\ UNCHANGED <<status, submitted, weights, champion, acceptedCount>>

\* _prune_rejected: the newest rejected checkpoints stay, and one more.
Prune(preserve) ==
  /\ weights' = [n \in Attempts |->
       IF /\ status[n] = "rejected" /\ n # preserve
          /\ Cardinality({m \in Having("rejected") : m >= n}) > Retention
       THEN NoFile ELSE weights[n]]
  /\ UNCHANGED <<status, submitted, champion, acceptedCount, incumbent>>

\* register_shard, first commit: the row and the next game together.
InsertShard(s) ==
  /\ active' = active \cup {s}
  /\ nextShard' = s + 1
  /\ UNCHANGED files

\* register_shard, second commit.
Retire ==
  /\ active' = active \ Overflow
  /\ UNCHANGED <<nextShard, files>>

ManifestTypeOK ==
  /\ status \in [Attempts -> {"none", "pending", "accepted", "rejected",
                              "interrupted"}]
  /\ submitted \in [Attempts -> Nat]
  /\ weights \in [Attempts -> Payloads \cup {NoFile}]
  /\ champion \in Attempts \cup {NoAttempt}
  /\ acceptedCount \in Nat
  /\ incumbent \in Attempts \cup {NoAttempt}
  /\ nextShard \in 1..(MaxShard + 1)
  /\ active \subseteq Shards
  /\ files \subseteq Shards
=============================================================================
