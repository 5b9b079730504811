--------------------------- MODULE MCTrainingParts ---------------------------
(***************************************************************************)
(* Parts of training and evaluation that share no state, checked in one    *)
(* run: in each behaviour one of them, the subject, runs and the others    *)
(* stay as they began.  Fairness is that of the subject alone.             *)
(***************************************************************************)
EXTENDS ReplayLoader, MinimaxLadder, ArenaMatch, League

VARIABLES
  subject,
  base, positions, file, given, ever,
  clock, disk, staging, publisher, latest, made, scoring, scorings, stepped,
  table, calls, asked, answer

\* The match with batches of one opening, not two, so that a verdict may come too
\* early.
SlowMatch == INSTANCE ArenaMatch WITH PairBatch <- 1

\* A board on which some draws overlap, some end the game and some repeat.
Openings == INSTANCE ArenaOpenings WITH
  Rows <- 3, Cols <- 3, Connect <- 2, MaxDepth <- 3, Count <- 3

\* Shares that have to be rounded, beside two batches and three candidates.
LeagueWeights == [champion |-> 4, archive |-> 3, uniform |-> 1, random |-> 2]

\* Time for a root, two generations and a restart, and a job that scores them.
Store == INSTANCE GenerationStore WITH
  MaxClock <- 4, MaxGens <- 2, MaxScorings <- 1, trainer <- publisher

\* Three moves of lookahead, a cache that overflows.
Minimax == INSTANCE Minimax WITH
  Rows <- 3, Cols <- 3, Connect <- 3, Depth <- 3, CacheLimit <- 7, MaxPly <- 4,
  MaxCalls <- 2, cache <- table

\* Of the replay pool: a shard that comes and one that goes, batches of two draws.
replayVars   == vars
openingsVars == <<base, positions, file, given, ever>>
storeVars    == <<clock, disk, staging, publisher, latest, made, scoring, scorings, stepped>>
minimaxVars  == <<table, calls, asked, answer>>
partsVars    ==
  <<subject, replayVars, matchVars, openingsVars, leagueVars, storeVars,
    minimaxVars, climbVars>>

PartsInit ==
  /\ subject \in {"replay", "match", "slow match", "openings", "league", "store",
                 "minimax", "ladder"}
  /\ Init /\ MatchInit /\ Openings!Init /\ Store!Init
  /\ LeagueInit /\ nextGame = 1 /\ (subject # "league" => attempt = 0)
  /\ Minimax!Init /\ ClimbInit

PartsNext ==
  \/ /\ subject = "replay" /\ Next
     /\ UNCHANGED <<subject, matchVars, openingsVars, leagueVars, storeVars,
                    minimaxVars, climbVars>>
  \/ /\ subject = "match" /\ MatchNext
     /\ UNCHANGED <<subject, replayVars, openingsVars, leagueVars, storeVars,
                    minimaxVars, climbVars>>
  \/ /\ subject = "slow match" /\ SlowMatch!MatchNext
     /\ UNCHANGED <<subject, replayVars, openingsVars, leagueVars, storeVars,
                    minimaxVars, climbVars>>
  \/ /\ subject = "openings" /\ Openings!Next
     /\ UNCHANGED <<subject, replayVars, matchVars, leagueVars, storeVars,
                    minimaxVars, climbVars>>
  \/ /\ subject = "league" /\ LeagueNext
     /\ UNCHANGED <<subject, replayVars, matchVars, openingsVars, storeVars,
                    minimaxVars, climbVars>>
  \/ /\ subject = "store" /\ Store!Next
     /\ UNCHANGED <<subject, replayVars, matchVars, openingsVars, leagueVars,
                    minimaxVars, climbVars>>
  \/ /\ subject = "minimax" /\ Minimax!Next
     /\ UNCHANGED <<subject, replayVars, matchVars, openingsVars, leagueVars,
                    storeVars, climbVars>>
  \/ /\ subject = "ladder" /\ ClimbNext
     /\ UNCHANGED <<subject, replayVars, matchVars, openingsVars, leagueVars,
                    storeVars, minimaxVars>>

PartsFairness ==
  /\ WF_replayVars(subject = "replay" /\ Loader)
  /\ WF_replayVars(subject = "replay" /\ Trainer)
  /\ WF_matchVars(subject = "match" /\ MatchNext)
  /\ WF_matchVars(subject = "slow match" /\ SlowMatch!MatchNext)

PartsSpec == PartsInit /\ [][PartsNext]_partsVars /\ PartsFairness

-----------------------------------------------------------------------------
(* Properties, beside those of ReplayLoader, MinimaxLadder, ArenaMatch and *)
(* League.                                                                 *)

\* Work ends: the trainer and the loader never wait for each other for good, and
\* an arena match ends however often memory runs out.
WorkEnds == TrainerGoesOn /\ (subject \in {"match", "slow match"} => MatchEnds)

\* The openings of a run are distinct games in mirror pairs, none of them over,
\* and the same ones in every process, also after a crash while they are saved.
OpeningsAreSound ==
  [](Openings!TypeOK /\ Openings!OpeningsAreFair) /\ Openings!OpeningsStay

\* What a reader finds of the generations is whole whenever the trainer is
\* killed, scores stay, and generations follow each other while the clock is not
\* set back.
StoreIsSound ==
  /\ [](Store!TypeOK /\ Store!PublishedIsWhole)
  /\ Store!ScoresStay /\ Store!GenerationsAreSequential

\* The minimax opponent plays as well as its depth allows, whatever its cache
\* holds from other positions and depths.
OpponentIsTrue == Minimax!TypeOK /\ Minimax!CacheIsTrue /\ Minimax!AnswerIsBest
=============================================================================
