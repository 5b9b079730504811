---------------------------- MODULE ArenaOpenings ----------------------------
(***************************************************************************)
(* The openings of the arena (training_v2.py, _arena_openings): random     *)
(* short games are drawn until enough are found, each with its mirror      *)
(* image; the sorted list is saved, and later processes of the run use the *)
(* file.  A draw is any sequence of moves; a process may die at any time.  *)
(***************************************************************************)
EXTENDS Integers, Sequences, FiniteSets, SequencesExt

CONSTANTS
  Rows, Cols, Connect,  \* of the board: 6, 7 and 4
  MaxDepth,             \* moves of an opening, at most Rows: no column overflows
  Count                 \* opening_count

VARIABLES
  base,       \* the openings found, without their mirror images
  positions,  \* the boards they and their mirror images lead to
  file,       \* arena_openings.json, <<>> if there is none
  given,      \* what the process was given, <<>> before
  ever        \* history: the last list any process was given

vars == <<base, positions, file, given, ever>>

Draws == UNION {[1..depth -> 0..Cols - 1] : depth \in 1..MaxDepth}

Init == base = {} /\ positions = {} /\ file = <<>> /\ given = <<>> /\ ever = <<>>

-----------------------------------------------------------------------------
(* Pure parts.                                                             *)

Mirror(moves) == [i \in DOMAIN moves |-> Cols - 1 - moves[i]]

\* _opening_key: the stones on the board, red's (1) and gold's (0).
Board(moves) ==
  {<<Cardinality({j \in 1..i - 1 : moves[j] = moves[i]}), moves[i], i % 2>> :
     i \in DOMAIN moves}

\* _winning
Winning(board, player) ==
  \E stone \in board, d \in {<<1, 0>>, <<0, 1>>, <<1, 1>>, <<1, -1>>} :
    \A step \in 0..Connect - 1 :
      <<stone[1] + d[1] * step, stone[2] + d[2] * step, player>> \in board

\* _opening_is_nonterminal
Nonterminal(moves) ==
  \A i \in DOMAIN moves : ~Winning(Board(SubSeq(moves, 1, i)), i % 2)

Fresh(moves) ==
  /\ moves # Mirror(moves) /\ Nonterminal(moves) /\ Mirror(moves) \notin base
  /\ Board(moves) # Board(Mirror(moves))
  /\ {Board(moves), Board(Mirror(moves))} \cap positions = {}

Lower(a, b) ==
  \/ Len(a) < Len(b)
  \/ Len(a) = Len(b) /\ \E i \in DOMAIN a : a[i] < b[i] /\ \A j \in 1..i - 1 : a[j] = b[j]

\* By length, then by the moves, every opening before its mirror image.
Listed(found) ==
  FlattenSeq([i \in 1..Cardinality(found) |->
                <<SetToSortSeq(found, Lower)[i], Mirror(SetToSortSeq(found, Lower)[i])>>])

-----------------------------------------------------------------------------
Give(list) == given' = SubSeq(list, 1, Count) /\ ever' = given'

\* The file is long enough.
Reuse ==
  /\ given = <<>> /\ Len(file) >= Count /\ Give(file)
  /\ UNCHANGED <<base, positions, file>>

\* Faulty variant: the file is not looked at.
DrawAnew(moves) ==
  /\ given = <<>> /\ 2 * Cardinality(base) < Count /\ Fresh(moves)
  /\ base' = base \cup {moves}
  /\ positions' = positions \cup {Board(moves), Board(Mirror(moves))}
  /\ UNCHANGED <<file, given, ever>>

Draw(moves) ==
  /\ given = <<>> /\ Len(file) < Count /\ 2 * Cardinality(base) < Count /\ Fresh(moves)
  /\ base' = base \cup {moves}
  /\ positions' = positions \cup {Board(moves), Board(Mirror(moves))}
  /\ UNCHANGED <<file, given, ever>>

\* The file is replaced, then the process goes on with its openings.
Save ==
  /\ given = <<>> /\ 2 * Cardinality(base) >= Count
  /\ file' = Listed(base) /\ UNCHANGED <<base, positions, given, ever>>

Crash ==
  /\ base' = {} /\ positions' = {} /\ given' = <<>> /\ UNCHANGED <<file, ever>>

Next == Reuse \/ (\E moves \in Draws : Draw(moves)) \/ Save \/ Crash

Spec == Init /\ [][Next]_vars

-----------------------------------------------------------------------------
(* Properties.                                                             *)

TypeOK ==
  /\ base \subseteq Draws /\ 2 * Cardinality(base) <= Count + 1
  /\ Cardinality(positions) = 2 * Cardinality(base)
  /\ ToSet(file) \subseteq Draws /\ ToSet(given) \subseteq Draws
  /\ given # <<>> => Len(given) = Count

\* An arena starts from games that are not over, no two of them the same
\* position; and its openings come in mirror pairs, so that no side of the board
\* favours anyone.
OpeningsAreFair ==
  /\ \A i, j \in DOMAIN file : i # j => Board(file[i]) # Board(file[j])
  /\ \A i \in DOMAIN file : \A n \in 1..Len(file[i]) : \A p \in 0..1 :
       ~Winning(Board(SubSeq(file[i], 1, n)), p)
  /\ \A i \in DOMAIN file : i % 2 = 1 => i < Len(file) /\ file[i + 1] = Mirror(file[i])

\* Every process of a run plays the same openings, also after a crash.
OpeningsStay == [][ever = <<>> \/ ever' = ever]_vars
=============================================================================
