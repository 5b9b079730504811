------------------------------ MODULE MCEngine ------------------------------
(***************************************************************************)
(* Parts of the C++ engine that share no state, checked in one run: in     *)
(* each behaviour one of them, the subject, runs and the others stay as    *)
(* they began.  Fairness is that of the subject alone.                     *)
(***************************************************************************)
EXTENDS SelfPlay, SolverCache, TLC

VARIABLES
  subject,
  pos, stacks

\* Self-play has two workers, and two games between the same models with their
\* sides swapped.
Swapped == "g1" :> (1 :> 0 @@ 2 :> 1) @@ "g2" :> (1 :> 1 @@ 2 :> 0)

\* Every diagonal and both kinds of edge are there.
Position == INSTANCE Position WITH Rows <- 3, Cols <- 4, Connect <- 3

\* Of the solver, two processes ask for overlapping positions, one of them twice,
\* and for as many as would block both ends of the pipes if they were sent at once.
SolverRequests == {<<1, 2, 1>>, <<2, 3, 4, 1>>}

\* One child may print a line of another position, one that has lost its line of play,
\* and one that is none; the other only leaves lines out, ends early or hangs.
StrayLines ==
  "p" :> {[play |-> 2, of |-> 2], [play |-> 0, of |-> 3], [play |-> 0, of |-> 0]} @@ "q" :> {}

selfPlayVars == vars
positionVars == <<pos, stacks>>
engineVars == <<subject, selfPlayVars, positionVars, cacheVars>>

EngineInit ==
  /\ subject \in {"self-play", "position", "solver"}
  /\ Init /\ Position!Init /\ CacheInit
  /\ subject # "self-play" =>
       /\ \A g \in Games : game[g] = [left |-> 0, visits |-> 0, leaf |-> 1]
       /\ neuralQ = <<"g1", "g2">>

EngineNext ==
  \/ /\ subject = "self-play" /\ Next
     /\ UNCHANGED <<subject, positionVars, cacheVars>>
  \/ /\ subject = "position" /\ Position!Next
     /\ UNCHANGED <<subject, selfPlayVars, cacheVars>>
  \/ /\ subject = "solver" /\ CacheNext
     /\ UNCHANGED <<subject, selfPlayVars, positionVars>>

EngineFairness ==
  /\ WF_selfPlayVars(subject = "self-play" /\ NeuralStep)
  /\ \A t \in Threads :
       /\ WF_selfPlayVars(subject = "self-play" /\ Spawn(t))
       /\ WF_selfPlayVars(subject = "self-play" /\ Close(t))
  /\ \A w \in Workers :
       WF_selfPlayVars(subject = "self-play" /\ Worker(w))

EngineSpec == EngineInit /\ [][EngineNext]_engineVars /\ EngineFairness

-----------------------------------------------------------------------------
(* Properties, beside those of SelfPlay and SolverCache.                   *)

\* The joins of self_play return: every thread ends, whatever was thrown and when.
SelfPlayTerminates == subject = "self-play" => Terminates

\* The words of a Position hold the game that is played: the board, its end and
\* its score are those of the rules, the solver's line of play leads to it, and a
\* flipped sample is the mirrored game.
RulesAreKept ==
  subject = "position" =>
    /\ Position!BoardIsPlayed /\ Position!EndsAreTrue /\ Position!ScoreIsReds
    /\ Position!LinesLeadThere /\ Position!FlipIsASymmetry
=============================================================================
