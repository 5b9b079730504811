------------------------------- MODULE League -------------------------------
(***************************************************************************)
(* Whom the champion plays in self-play, and with which networks           *)
(* (training_v2.py: _league_requests, the numbers of the baseline players, *)
(* and _ActorEvaluator, the actor's loaded models).  The coordinator       *)
(* queues batches, arenas and reloads as candidates come and are decided;  *)
(* the actor configures its evaluator for each and plays.                  *)
(*                                                                         *)
(* Shuffles and weighted choices may give anything; weights are whole      *)
(* parts of Parts.  The networks' answers are left out: what is kept is    *)
(* which player of a game is asked, and whether it is there to answer.     *)
(***************************************************************************)
EXTENDS Integers, Sequences, FiniteSets, SequencesExt

CONSTANTS
  GameBatch,     \* self_play_batch_games
  Weights,       \* of the champion, the archive, uniform and random
  Parts,         \* their sum
  ArchiveDepth,  \* archive_depth
  Half,          \* of the range of a model number: 1 << 63
  MaxAttempt,    \* bound: candidates of the run
  MaxGame        \* bound: games of the run

Kinds == {"champion", "archive", "uniform", "random"}
KindOrder == <<"champion", "archive", "uniform", "random">>

\* TrainingV2Config; the numbers of candidates and games are far from the range.
ASSUME LeagueAssumption ==
  /\ GameBatch \in Nat \ {0} /\ ArchiveDepth \in Nat \ {0} /\ Parts \in Nat \ {0}
  /\ Weights \in [Kinds -> Nat]
  /\ Weights["champion"] + Weights["archive"] + Weights["uniform"] + Weights["random"] = Parts
  /\ Half \in Nat \ {0, 1} /\ MaxAttempt \in Nat /\ MaxAttempt < Half
  /\ MaxGame \in Nat /\ 2 * MaxGame < Half

VARIABLES
  accepted,   \* the accepted attempts, the champion last
  attempt,    \* the latest attempt
  pending,    \* the candidate to be decided, or none
  nextGame,   \* next_game_id
  orders,     \* to the actor
  busy,       \* what the coordinator waits for: "generate", "arena", "reload"
  models,     \* the actor's models
  job,        \* the command it is at, or "none"
  requests    \* the games of its batch

coordinatorVars == <<accepted, attempt, pending, nextGame, busy>>
leagueVars      == <<coordinatorVars, orders, models, job, requests>>

NoAttempt == -1
Champion == Last(accepted)
Archives == LET past == Front(accepted)
                n    == Len(past)
            IN  SubSeq(past, (IF n > ArchiveDepth THEN n - ArchiveDepth ELSE 0) + 1, n)

-----------------------------------------------------------------------------
(* The numbers of the players.                                             *)

UniformId == 2 * Half - 1
RandomId  == 2 * Half - 2

\* _baseline_model_id of the uniform player; the random one is shared.
BaselineId(game) == UniformId - 2 * game

\* _baseline_kind_and_game
Kind(id) ==
  IF id < Half THEN "network"
  ELSE IF (UniformId - id) % 2 = 0 THEN "uniform" ELSE "random"

-----------------------------------------------------------------------------
(* A batch of games.                                                       *)

Share(kind)    == (GameBatch * Weights[kind]) \div Parts
Fraction(kind) == (GameBatch * Weights[kind]) % Parts
Remainder      ==
  GameBatch - (Share("champion") + Share("archive") + Share("uniform") + Share("random"))

\* The kinds by falling fraction, ties in their order.
Place(kind) == CHOOSE i \in 1..4 : KindOrder[i] = kind
Before(a, b) == Fraction(a) > Fraction(b) \/ (Fraction(a) = Fraction(b) /\ Place(a) < Place(b))

\* _allocate_counts: the largest fractions are rounded up.
Allocated ==
  [kind \in Kinds |->
     Share(kind) + (IF Cardinality({k \in Kinds : Before(k, kind)}) < Remainder THEN 1 ELSE 0)]

\* Without an archive its games are the champion's.
Counts(archives) ==
  IF archives # <<>> THEN Allocated
  ELSE [Allocated EXCEPT !["champion"] = @ + Allocated["archive"], !["archive"] = 0]

Shuffles(counts) ==
  {kinds \in [1..GameBatch -> Kinds] :
     \A kind \in Kinds : Cardinality({i \in 1..GameBatch : kinds[i] = kind}) = counts[kind]}

\* How many games of its kind there were before the i-th.
Offset(kinds, i) == Cardinality({j \in 1..i - 1 : kinds[j] = kinds[i]})

Opponent(kind, game, champion, archive) ==
  CASE kind = "champion" -> champion
    [] kind = "archive"  -> archive
    [] kind = "uniform"  -> BaselineId(game)
    [] kind = "random"   -> RandomId

\* The i-th game of a batch: the champion is red in every other one of a kind.
Request(kinds, i, command, archive) ==
  LET game     == command.first + i - 1
      champion == command.champion
      opponent == Opponent(kinds[i], game, champion, archive)
  IN  IF Offset(kinds, i) % 2 = 0
      THEN [kind |-> kinds[i], game |-> game, red |-> champion, gold |-> opponent]
      ELSE [kind |-> kinds[i], game |-> game, red |-> opponent, gold |-> champion]

\* _league_requests: the games in some order, each archive game with some
\* archived champion.
Leagues(command) ==
  UNION {{{Request(kinds, i, command, IF kinds[i] = "archive" THEN past[i] ELSE NoAttempt) :
             i \in 1..GameBatch} :
            past \in [{i \in 1..GameBatch : kinds[i] = "archive"} -> ToSet(command.others)]} :
           kinds \in Shuffles(Counts(command.others))}

-----------------------------------------------------------------------------
(* The coordinator.                                                        *)

\* What a run may be begun or resumed with: the root, then accepted attempts in
\* their order.
Ladders ==
  UNION {{s \in [1..n -> 0..MaxAttempt] :
            s[1] = 0 /\ \A i, j \in 1..n : i < j => s[i] < s[j]} : n \in 1..MaxAttempt + 1}

ArenaCommand(champion, candidate) ==
  [type |-> "arena", champion |-> champion, others |-> <<candidate>>, first |-> 0]

\* A candidate that was left pending is the first thing the actor is given.
LeagueInit ==
  /\ accepted \in Ladders /\ attempt \in Last(accepted)..MaxAttempt
  /\ pending \in {NoAttempt} \cup (IF attempt = Last(accepted) THEN {} ELSE {attempt})
  /\ orders = IF pending = NoAttempt THEN <<>> ELSE <<ArenaCommand(Champion, pending)>>
  /\ busy = IF pending = NoAttempt THEN {} ELSE {"arena"}
  /\ nextGame \in 1..MaxGame + 1 /\ models = {} /\ job = "none" /\ requests = {}

\* Faulty variant: a batch is queued behind the arena.
GenerateBehindArena ==
  /\ "generate" \notin busy /\ nextGame + GameBatch - 1 <= MaxGame
  /\ orders' = Append(orders, [type |-> "generate", champion |-> Champion,
                               others |-> Archives, first |-> nextGame])
  /\ busy' = busy \cup {"generate"}
  /\ UNCHANGED <<accepted, attempt, pending, nextGame, models, job, requests>>

\* queue_generation
Generate ==
  /\ busy = {} /\ pending = NoAttempt /\ nextGame + GameBatch - 1 <= MaxGame
  /\ orders' = Append(orders, [type |-> "generate", champion |-> Champion,
                               others |-> Archives, first |-> nextGame])
  /\ busy' = {"generate"}
  /\ UNCHANGED <<accepted, attempt, pending, nextGame, models, job, requests>>

\* A candidate comes, perhaps while a batch is being played or the actor has still
\* to reload: its arena is queued behind either.  The trainer makes no second one
\* before the first is decided.
Candidate ==
  /\ pending = NoAttempt /\ attempt < MaxAttempt
  /\ attempt' = attempt + 1 /\ pending' = attempt'
  /\ orders' = Append(orders, ArenaCommand(Champion, attempt'))
  /\ busy' = busy \cup {"arena"}
  /\ UNCHANGED <<accepted, nextGame, models, job, requests>>

-----------------------------------------------------------------------------
(* The actor.                                                              *)

\* configure: models that are not wanted go, those that are missing are loaded.
Configure(command) == {command.champion} \cup ToSet(command.others)

\* A command is taken, and its games begin.
Take ==
  /\ job = "none" /\ orders # <<>>
  /\ job' = Head(orders).type /\ orders' = Tail(orders)
  /\ models' = Configure(Head(orders))
  /\ requests' \in
       CASE job' = "generate" -> Leagues(Head(orders))
         [] job' = "arena"    -> {{[kind |-> "arena", game |-> 1,
                                    gold |-> Head(orders).champion,
                                    red  |-> Head(orders).others[1]]}}
         [] job' = "reload"   -> {{}}
  /\ UNCHANGED coordinatorVars

\* Its games are over and the coordinator hears of it.
OrderEnds(kind) ==
  /\ job = kind /\ job' = "none" /\ requests' = {}
  /\ UNCHANGED <<attempt, models>>

BatchEnds ==
  /\ OrderEnds("generate") /\ busy' = busy \ {"generate"} /\ nextGame' = nextGame + GameBatch
  /\ UNCHANGED <<accepted, pending, orders>>

\* The candidate is accepted or not, and the actor told of the league as it is now.
ArenaEnds ==
  /\ OrderEnds("arena") /\ pending' = NoAttempt /\ busy' = {"reload"}
  /\ accepted' \in {accepted, Append(accepted, pending)}
  /\ orders' = Append(orders, [type |-> "reload", champion |-> Champion',
                               others |-> Archives', first |-> 0])
  /\ UNCHANGED nextGame

ReloadEnds ==
  /\ OrderEnds("reload") /\ busy' = busy \ {"reload"}
  /\ UNCHANGED <<accepted, pending, nextGame, orders>>

LeagueNext == Generate \/ Candidate \/ Take \/ BatchEnds \/ ArenaEnds \/ ReloadEnds

LeagueSpec == LeagueInit /\ [][LeagueNext]_leagueVars

-----------------------------------------------------------------------------
(* Properties.                                                             *)

Ids == 0..UniformId

LeagueTypeOK ==
  /\ accepted \in Seq(0..MaxAttempt) /\ accepted # <<>> /\ attempt \in 0..MaxAttempt
  /\ pending \in 0..MaxAttempt \cup {NoAttempt} /\ nextGame \in 1..MaxGame + 1
  /\ Len(orders) <= 2 /\ busy \subseteq {"generate", "arena", "reload"}
  /\ models \subseteq 0..MaxAttempt /\ Cardinality(models) <= ArchiveDepth + 1
  /\ job \in {"none", "generate", "arena", "reload"}
  /\ \A r \in requests : {r.red, r.gold} \subseteq Ids

Players == UNION {{r.red, r.gold} : r \in requests}

\* Whatever was loaded for the arena or an earlier league, every player of every
\* game can be asked: it is a baseline or its network is there.
PlayersAreLoaded == \A id \in Players : Kind(id) = "network" => id \in models

\* A number says whose it is: the evaluator never takes a baseline player for a
\* network or for the other baseline.
IdsSayWhoPlays ==
  \A r \in requests : \A id \in {r.red, r.gold} :
    Kind(id) = (IF r.kind \in {"uniform", "random"} /\ id \notin models
                THEN r.kind ELSE "network")

OfKind(kind) == {r \in requests : r.kind = kind}

\* A batch has all its games, each kind within one game of its share, and the
\* champion as often red as gold against each, but for an odd game.
LeagueIsBalanced ==
  job = "generate" =>
    /\ {r.game : r \in requests} = nextGame..nextGame + GameBatch - 1
    /\ \A kind \in {"uniform", "random"}
                     \cup (IF OfKind("archive") = {} THEN {} ELSE {"archive"}) :
         Parts * Cardinality(OfKind(kind)) - GameBatch * Weights[kind] \in -Parts + 1..Parts - 1
    /\ \A kind \in Kinds \ {"champion"} :
         Cardinality({r \in OfKind(kind) : r.red = Champion})
           - Cardinality({r \in OfKind(kind) : r.gold = Champion}) \in {0, 1}

\* The champion of the league is the latest one, and never its own archive.
LeagueIsCurrent ==
  job = "generate" => /\ \A r \in requests : Champion \in {r.red, r.gold}
                      /\ \A r \in OfKind("archive") : r.red # r.gold

\* The games of a batch are those of the league as it is: the latest champion
\* against opponents in their shares, alternating colours, every player loaded,
\* and no player's number taken for another's.
LeagueIsSound ==
  LeagueTypeOK /\ PlayersAreLoaded /\ IdsSayWhoPlays /\ LeagueIsBalanced /\ LeagueIsCurrent
=============================================================================
