---------------------------- MODULE MinimaxLadder ----------------------------
(***************************************************************************)
(* The strength ladder (minimax_harness.py, evaluate_minimax_ladder): a    *)
(* model meets a random player, then minimax of growing depth.  A level is *)
(* played in batches of pairs, the model red in one game and gold in the   *)
(* other; it ends as soon as the model has more than half of its points,   *)
(* and the ladder with the first level that is not won, the deadline or a  *)
(* cancellation.  Scores are in half points.                               *)
(***************************************************************************)
EXTENDS Integers, Sequences, FiniteSets, SequencesExt

CONSTANTS
  GamesPerLevel,  \* games_per_level
  PairBatchSize,  \* pair_batch_size
  MaxDepth        \* max_depth

\* MinimaxHarnessConfig.__post_init__
ASSUME MinimaxLadderAssumption ==
  /\ GamesPerLevel \in Nat \ {0} /\ GamesPerLevel % 2 = 0
  /\ PairBatchSize \in Nat \ {0} /\ MaxDepth \in Nat

VARIABLES
  rung,      \* "level", "promoted", "stopped", "raised"
  depth,     \* of the opponent, 0 for the random player
  score,     \* wins, draws and losses of the level
  firstGame, \* next_game_id
  levels,    \* the levels played to their end
  truth      \* history: of each level the games as red and as gold, the points

climbVars == <<rung, depth, score, firstGame, levels, truth>>

NoGames == [k \in 0..2 |-> 0]
LevelGames(s)  == s[0] + s[1] + s[2]
LevelPoints(s) == 2 * s[2] + s[1]

\* Faulty variant: half of the games played so far.
PromotedOfPlayed(s) == LevelPoints(s) > LevelGames(s)

\* More than promotion_points_threshold: half of the level's games.
Promoted(s) == LevelPoints(s) > GamesPerLevel

ClimbInit ==
  /\ rung = "level" /\ depth = 0 /\ score = NoGames /\ firstGame = 0
  /\ levels = <<>>
  /\ truth = [level \in 0..MaxDepth |-> [red |-> 0, gold |-> 0, points |-> 0]]

-----------------------------------------------------------------------------
PairCount == Min({PairBatchSize, (GamesPerLevel - LevelGames(score)) \div 2})

ModelIsRed(game) == game % 2 = 0

ModelScore(game, red) == IF ModelIsRed(game) THEN red ELSE 2 - red

\* The games of a batch with this result of red, the model being red or gold.
AsRed(reds, k)  == {g \in DOMAIN reds : g % 2 = 0 /\ reds[g] = k}
AsGold(reds, k) == {g \in DOMAIN reds : g % 2 = 1 /\ reds[g] = k}

\* History: the model begins every other game, a win is two half points.
Observed(seen, reds) ==
  [red    |-> seen.red + Cardinality({g \in DOMAIN reds : g % 2 = 0}),
   gold   |-> seen.gold + Cardinality({g \in DOMAIN reds : g % 2 = 1}),
   points |-> seen.points
                + 2 * (Cardinality(AsRed(reds, 2)) + Cardinality(AsGold(reds, 0)))
                + Cardinality(AsRed(reds, 1)) + Cardinality(AsGold(reds, 1))]

\* The level is over: it was won, or all its games are played.
PlayPairs ==
  /\ rung = "level"
  /\ \E reds \in [firstGame..firstGame + 2 * PairCount - 1 -> 0..2] :
       /\ score' = [k \in 0..2 |->
            score[k] + Cardinality({g \in DOMAIN reds : ModelScore(g, reds[g]) = k})]
       /\ truth' = [truth EXCEPT ![depth] = Observed(@, reds)]
  /\ firstGame' = firstGame + 2 * PairCount
  /\ rung' = IF Promoted(score') THEN "promoted"
             ELSE IF LevelGames(score') >= GamesPerLevel THEN "stopped" ELSE "level"
  /\ levels' = IF rung' = "level" THEN levels
               ELSE Append(levels, [depth |-> depth, games |-> LevelGames(score'),
                                    points |-> LevelPoints(score'),
                                    promoted |-> Promoted(score')])
  /\ UNCHANGED depth

NextLevel ==
  /\ rung = "promoted" /\ depth < MaxDepth
  /\ rung' = "level" /\ depth' = depth + 1 /\ score' = NoGames
  /\ UNCHANGED <<firstGame, levels, truth>>

\* The deadline passes or the evaluation is cancelled: nothing is returned.
Raise == rung = "level" /\ rung' = "raised" /\ UNCHANGED <<depth, score, firstGame, levels, truth>>

ClimbNext == PlayPairs \/ NextLevel \/ Raise

ClimbSpec == ClimbInit /\ [][ClimbNext]_climbVars

-----------------------------------------------------------------------------
Returned == rung = "stopped" \/ (rung = "promoted" /\ depth = MaxDepth)
NoDepth == -1

\* highest_defeated of the result.
HighestDefeated ==
  CASE rung = "stopped" /\ Len(levels) > 1 -> levels[Len(levels) - 1].depth
    [] rung = "promoted"                   -> levels[Len(levels)].depth
    [] OTHER                                -> NoDepth

-----------------------------------------------------------------------------
(* Properties.                                                             *)

ClimbTypeOK ==
  /\ rung \in {"level", "promoted", "stopped", "raised"} /\ depth \in 0..MaxDepth
  /\ score \in [0..2 -> 0..GamesPerLevel] /\ firstGame \in 0..GamesPerLevel * (MaxDepth + 1)
  /\ \A i \in DOMAIN levels : levels[i].depth = i - 1 /\ levels[i].games <= GamesPerLevel

\* A level ended early is decided: the model would be promoted if it lost all
\* the games not played, and one that is not promoted has played them all; the
\* points are the model's, as often red as gold.
LevelsAreDecided ==
  \A i \in DOMAIN levels :
    LET level == levels[i]
        seen  == truth[level.depth]
    IN  /\ seen.points = level.points /\ seen.red + seen.gold = level.games
        /\ seen.red = seen.gold
        /\ IF level.promoted THEN seen.points > GamesPerLevel
           ELSE level.games = GamesPerLevel /\ seen.points <= GamesPerLevel

\* What the result calls the highest opponent defeated is that: the model won
\* against it and everyone below, and against nobody above.
HighestDefeatedIsTrue ==
  Returned =>
    \A d \in 0..MaxDepth : truth[d].points > GamesPerLevel <=> d <= HighestDefeated

\* What the ladder of opponents reports is what the games showed, though a level
\* may end before all of them are played.
LadderIsTrue == ClimbTypeOK /\ LevelsAreDecided /\ HighestDefeatedIsTrue
=============================================================================
