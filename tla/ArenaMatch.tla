----------------------------- MODULE ArenaMatch -----------------------------
(***************************************************************************)
(* The match that decides on a candidate (training_v2.py, _run_arena and   *)
(* the actor's retries; arena_statistics.py, PairedSprtGate): batches of   *)
(* opening pairs are played, the results come back in any order, and after *)
(* every batch a sequential test of the paired outcomes accepts, rejects   *)
(* or goes on.  A match that runs out of memory begins again with half the *)
(* inference batch.                                                        *)
(*                                                                         *)
(* Scores are in half points.  The log-likelihood ratio is a real number;  *)
(* all that is kept of it is the side of the two bounds it lies on, which  *)
(* any counts may give.                                                    *)
(***************************************************************************)
EXTENDS Integers, Sequences, FiniteSets, SequencesExt

CONSTANTS
  MinGames, MaxGames,  \* arena_min_games, arena_max_games
  PairBatch,           \* arena_pair_batch_size
  InferenceBatch       \* inference_batch_size

\* PairedSprtGate.__init__ and the configuration's own checks.
ASSUME ArenaMatchAssumption ==
  /\ MinGames \in Nat /\ MinGames >= 2 /\ MinGames % 2 = 0
  /\ MaxGames \in Nat /\ MaxGames >= MinGames /\ MaxGames % 2 = 0
  /\ PairBatch \in Nat \ {0} /\ InferenceBatch \in Nat \ {0}

VARIABLES
  place,      \* where _run_arena is: "batch", "playing", "done", "failed"
  index,      \* opening_index
  playing,    \* the games of the batch not finished
  results,    \* those finished and not counted, in the order they finished
  gate,       \* the PairedSprtGate
  tally,      \* wins, draws, losses
  decision,
  batch,      \* inference_batch
  played      \* history: every game of this match

match     == <<index, playing, results, gate, tally, decision, played>>
matchVars == <<match, place, batch>>

\* _arena_openings: one opening for every two games.
OpeningNumbers == 1..(MaxGames \div 2)
ArenaGames     == 1..MaxGames

\* Opening o is played as game 2o - 1, the candidate red, and as 2o.
Opening(game)      == (game + 1) \div 2
CandidateRed(game) == game % 2 = 1

Unpaired == 3  \* no _first

NewGate == [games |-> 0, counts |-> [k \in 0..4 |-> 0], first |-> Unpaired,
            llr |-> "between", crossed |-> FALSE]

MatchInit ==
  /\ place = "batch" /\ index = 0 /\ playing = {} /\ results = <<>>
  /\ gate = NewGate /\ tally = [k \in 0..2 |-> 0] /\ decision = "none"
  /\ batch = InferenceBatch /\ played = {}

-----------------------------------------------------------------------------
(* The gate.                                                               *)

\* update
Update(g, score) ==
  IF g.first = Unpaired
  THEN [g EXCEPT !.games = @ + 1, !.first = score]
  ELSE [g EXCEPT !.games = @ + 1, !.counts[g.first + score] = @ + 1,
                 !.first = Unpaired]

Crossed(g) == g.games >= MinGames /\ g.llr # "between"

\* decision, of whole pairs
Verdict(g) ==
  IF g.first # Unpaired THEN "none"
  ELSE IF Crossed(g) THEN IF g.llr = "above" THEN "accepted" ELSE "rejected"
  ELSE IF g.games >= MaxGames THEN "rejected" ELSE "none"

-----------------------------------------------------------------------------
(* The match.                                                              *)

\* The openings of the next batch: as many as a batch and the limit allow.
Pairs(left) == Min({PairBatch, (MaxGames - gate.games) \div 2, left})

StartBatch ==
  /\ place = "batch" /\ index < Cardinality(OpeningNumbers) /\ gate.games < MaxGames
  /\ index' = index + Pairs(Cardinality(OpeningNumbers) - index)
  /\ playing' = {game \in ArenaGames : Opening(game) \in index + 1..index'}
  /\ results' = <<>> /\ place' = "playing"
  /\ UNCHANGED <<gate, tally, decision, batch, played>>

\* A game ends with this score of red.
Finish(game) ==
  /\ place = "playing" /\ playing' = playing \ {game}
  /\ \E red \in 0..2 :
       /\ results' = Append(results, [game |-> game, red |-> red])
       /\ played' = played \cup {[game |-> game, red |-> red]}
  /\ UNCHANGED <<place, index, gate, tally, decision, batch>>

\* The candidate's score.
Score(r) == IF CandidateRed(r.game) THEN r.red ELSE 2 - r.red

\* Faulty variant: the results are counted as they come.
ComesFirst(i) == i = 1

\* The results are counted by game, so that the two games of an opening are
\* neighbours.
IsNext(i) == \A j \in DOMAIN results : results[i].game <= results[j].game

\* All games of the batch are over, and the next one is counted.
Count ==
  /\ place = "playing" /\ playing = {}
  /\ \E i \in DOMAIN results :
       /\ IsNext(i) /\ results' = RemoveAt(results, i)
       /\ gate' = Update(gate, Score(results[i]))
       /\ tally' = [tally EXCEPT ![Score(results[i])] = @ + 1]
  /\ UNCHANGED <<place, index, playing, decision, batch, played>>

\* The batch is counted, and the gate asked.
Judge ==
  /\ place = "playing" /\ playing = {} /\ results = <<>>
  /\ \E side \in {"below", "between", "above"} :
       gate' = [gate EXCEPT !.llr = side,
                            !.crossed = Crossed([gate EXCEPT !.llr = side])]
  /\ decision' = Verdict(gate')
  /\ place' = (IF decision' = "none" THEN "batch" ELSE "done")
  /\ UNCHANGED <<index, playing, results, tally, batch, played>>

Begin(b) ==
  /\ place' = "batch" /\ index' = 0 /\ playing' = {} /\ results' = <<>>
  /\ gate' = NewGate /\ tally' = [k \in 0..2 |-> 0] /\ decision' = "none"
  /\ batch' = b /\ played' = {}

\* Faulty variant: the match begins again with the batch that was too large.
RestartAsBefore == place = "playing" /\ playing # {} /\ batch > 1 /\ Begin(batch)

\* Out of memory: the whole match begins again.
Restart == place = "playing" /\ playing # {} /\ batch > 1 /\ Begin(batch \div 2)

\* Out of memory with the smallest batch, cancelled, or another error.
MatchFails ==
  /\ place = "playing" /\ playing # {} /\ place' = "failed"
  /\ UNCHANGED <<match, batch>>

-----------------------------------------------------------------------------
MatchNext == StartBatch \/ (\E game \in playing : Finish(game)) \/ Count \/ Judge \/ Restart \/ MatchFails

MatchSpec == MatchInit /\ [][MatchNext]_matchVars

\* The actor's process runs on.
MatchFairSpec == MatchSpec /\ WF_matchVars(MatchNext)

-----------------------------------------------------------------------------
(* Properties.                                                             *)

MatchTypeOK ==
  /\ place \in {"batch", "playing", "done", "failed"} /\ index \in 0..Cardinality(OpeningNumbers)
  /\ playing \subseteq ArenaGames
  /\ \A i \in DOMAIN results : results[i] \in [game : ArenaGames, red : 0..2]
  /\ gate.games \in 0..MaxGames /\ gate.first \in 0..Unpaired
  /\ gate.counts \in [0..4 -> 0..Cardinality(OpeningNumbers)]
  /\ gate.llr \in {"below", "between", "above"} /\ gate.crossed \in BOOLEAN
  /\ tally \in [0..2 -> 0..MaxGames] /\ decision \in {"none", "accepted", "rejected"}
  /\ batch \in 1..InferenceBatch
  /\ \A r \in played : r \in [game : ArenaGames, red : 0..2]

Counted == {r \in played : r.game <= gate.games}
CandidateWon(r)  == IF CandidateRed(r.game) THEN r.red ELSE 2 - r.red

\* Every observation of the test is the two games of one opening, whatever the
\* order they finished in, and no half pair is left when it is asked.
PairsAreOpenings ==
  /\ results = <<>> => gate.first = Unpaired
  /\ \A k \in 0..4 : gate.counts[k] =
       Cardinality({o \in OpeningNumbers : \E a, b \in Counted :
         a.game = 2 * o - 1 /\ b.game = 2 * o /\ CandidateWon(a) + CandidateWon(b) = k})

\* The wins, draws and losses reported are the candidate's, of every game that
\* was counted and of no game of an abandoned match.
TallyIsTheCandidates ==
  \A k \in 0..2 : tally[k] =
    Cardinality({r \in Counted : CandidateWon(r) = k})

\* A candidate is promoted on evidence only: enough games, whole openings, and
\* a ratio beyond the bound; without it, every opening has been played.
VerdictIsBacked ==
  place = "done" =>
    /\ decision = "accepted" => gate.llr = "above" /\ gate.games >= MinGames
    /\ ~gate.crossed => decision = "rejected" /\ Opening(gate.games) = Cardinality(OpeningNumbers)
    /\ Cardinality(played) = gate.games

\* A candidate is judged on its own results only, by whole openings, each played
\* with either colour, and promoted on evidence only.
MatchIsFair == MatchTypeOK /\ PairsAreOpenings /\ TallyIsTheCandidates /\ VerdictIsBacked

\* Whatever the memory, the match ends.
MatchEnds == <>(place \in {"done", "failed"})
=============================================================================
