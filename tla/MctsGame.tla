------------------------------ MODULE MctsGame ------------------------------
(***************************************************************************)
(* The game object that every search drives (cpp/src/mcts.cpp, MctsGame):  *)
(* a line of play, the search tree under its last position and the leaf    *)
(* that waits for an evaluation.                                           *)
(*                                                                         *)
(* The tree is abstracted to what its clients can tell apart: how often    *)
(* its root was visited, and which position is its selected leaf.  A       *)
(* position is the sequence of columns that leads to it from the starting  *)
(* position, so Boards is the game tree itself: a prefix-closed set of     *)
(* move sequences, in which a terminal position is one that no move        *)
(* extends (every ongoing position of the game has a legal move).          *)
(***************************************************************************)
EXTENDS Integers, Sequences, FiniteSets

CONSTANTS Moves,      \* the columns
          Boards      \* the lines of play the rules allow

ASSUME BoardsAssumption ==
  /\ IsFiniteSet(Moves)
  /\ Boards \subseteq Seq(Moves)
  /\ <<>> \in Boards
  /\ \A b \in Boards : \A n \in 0..Len(b) : SubSeq(b, 1, n) \in Boards

VARIABLES moves,      \* moves_: the line played since the starting position
          visits,     \* root_->visit_count
          leaf        \* leaf_: the position to evaluate next

gameVars == <<moves, visits, leaf>>

LegalMoves(b) == {m \in Moves : Append(b, m) \in Boards}
Terminal(b)   == LegalMoves(b) = {}

\* A root is expanded once it was evaluated; a terminal root never is.
Expanded == visits > 0 /\ ~Terminal(moves)

\* The positions of the subtree strictly below a root.
Below(root) == {b \in Boards : /\ Len(b) > Len(root)
                               /\ SubSeq(b, 1, Len(root)) = root}

\* Where select_leaf may stop: at an unexpanded root, else at a descendant,
\* no deeper than the number of nodes visited so far.
Leaves(root, v) ==
  IF v = 0 \/ Terminal(root) THEN {root}
  ELSE {b \in Below(root) : Len(b) <= Len(root) + v}

SelectLeaf == leaf' \in Leaves(moves', visits')

\* The first visit of an ongoing root expands it, each later one goes to one
\* child: all of them to an only child.
ChildVisits(b, v) ==
  IF \E m \in Moves : LegalMoves(b) = {m} THEN {v - 1} ELSE 0..(v - 1)

\* A sampled move is one that was visited, when any was.
SampledVisits(b, v) == {n \in ChildVisits(b, v) : v > 1 => n > 0}

\* A move chosen at temperature zero is one that was visited most.
BestVisits(b, v) ==
  {n \in ChildVisits(b, v) : n * Cardinality(LegalMoves(b)) >= v - 1}

GameInit ==
  /\ moves = <<>>
  /\ visits = 0
  /\ leaf = <<>>

\* An evaluation of the leaf: back-propagated to the root, next leaf selected.
ReceiveEvaluation ==
  /\ visits' = visits + 1
  /\ moves' = moves
  /\ SelectLeaf

\* Faulty variant: the legality of the move is not checked again.
PromoteUnchecked(m, counts) ==
  /\ Expanded
  /\ moves' = Append(moves, m)
  /\ visits' \in counts
  /\ SelectLeaf

\* The promoted child keeps the subtree the search built under it.
Promote(m, counts) ==
  /\ Expanded
  /\ m \in LegalMoves(moves)
  /\ moves' = Append(moves, m)
  /\ visits' \in counts
  /\ SelectLeaf

MakeMove(m)    == Promote(m, ChildVisits(moves, visits))
MakeRandomMove == \E m \in Moves : Promote(m, SampledVisits(moves, visits))
MakeBestMove   == \E m \in Moves : Promote(m, BestVisits(moves, visits))

\* An earlier position is searched from a fresh root.
ReturnTo(b) ==
  /\ moves' = b
  /\ visits' = 0
  /\ leaf' = b

Undo ==
  /\ moves # <<>>
  /\ ReturnTo(SubSeq(moves, 1, Len(moves) - 1))

\* Undo until nothing is left: a game without moves keeps its tree.
Reset == IF moves = <<>> THEN UNCHANGED gameVars ELSE ReturnTo(<<>>)

GameTypeOK ==
  /\ moves \in Boards
  /\ visits \in Nat
  /\ leaf \in Boards
=============================================================================
