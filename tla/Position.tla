------------------------------ MODULE Position ------------------------------
(***************************************************************************)
(* The rules of the game (position.cpp, Position): a board is two words of *)
(* bits, mask (a stone is there) and value (it is the player's to move),   *)
(* and every move turns the point of view round.  A word is kept as the    *)
(* set of its bits.                                                        *)
(*                                                                         *)
(* The reference is the game as people play it: columns of stones, each of *)
(* the colour of the player who dropped it.                                *)
(***************************************************************************)
EXTENDS Integers, Sequences, FiniteSets, SequencesExt

CONSTANTS Rows, Cols, Connect  \* 6, 7 and 4

VARIABLES
  pos,     \* the Position
  stacks   \* reference: the stones of each column, from the bottom

vars == <<pos, stacks>>

-----------------------------------------------------------------------------
(* Position.                                                               *)

Bit(row, col) == row * Cols + col
Line(row, col, up, right) == {Bit(row + k * up, col + k * right) : k \in 0..Connect - 1}

\* kWinMasks: rows, columns and the two diagonals.
WinMasks ==
  {Line(row, col, 0, 1) : row \in 0..Rows - 1, col \in 0..Cols - Connect}
    \cup {Line(row, col, 1, 0) : row \in 0..Rows - Connect, col \in 0..Cols - 1}
    \cup {Line(row, col, 1, 1) : row \in 0..Rows - Connect, col \in 0..Cols - Connect}
    \cup {Line(row, col, -1, 1) : row \in Connect - 1..Rows - 1, col \in 0..Cols - Connect}

Empty == [mask |-> {}, value |-> {}]

Ply(p)      == Cardinality(p.mask)
Inverted(p) == [p EXCEPT !.value = p.mask \ @]

Get(p, row, col) ==
  CASE Bit(row, col) \notin p.mask -> "empty"
    [] Bit(row, col) \in p.value   -> "player"
    [] OTHER                       -> "opponent"

\* set_piece
SetPiece(p, row, col, piece) ==
  [mask  |-> IF piece = "empty" THEN p.mask \ {Bit(row, col)} ELSE p.mask \cup {Bit(row, col)},
   value |-> IF piece = "player" THEN p.value \cup {Bit(row, col)} ELSE p.value \ {Bit(row, col)}]

FreeRows(p, col) == {row \in 0..Rows - 1 : Bit(row, col) \notin p.mask}

\* legal_moves: the top cell is free.
LegalMoves(p) == {col \in 0..Cols - 1 : Bit(Rows - 1, col) \notin p.mask}

\* make_move of a legal move: the lowest free cell, then the other player's view.
MakeMove(p, col) == Inverted(SetPiece(p, Min(FreeRows(p, col)), col, "player"))

PlayerHasWon(p) == \E win \in WinMasks : win \subseteq p.value

\* terminal_state
TerminalState(p) ==
  IF PlayerHasWon(p) THEN "player"
  ELSE IF PlayerHasWon(Inverted(p)) THEN "opponent"
  ELSE IF Ply(p) = Rows * Cols THEN "draw" ELSE "none"

FlipHorizontal(p) ==
  [mask  |-> {Bit(b \div Cols, Cols - 1 - (b % Cols)) : b \in p.mask},
   value |-> {Bit(b \div Cols, Cols - 1 - (b % Cols)) : b \in p.value}]

\* player0_score of a game that ended in p, in half points.
Player0Score(p) ==
  LET score == CASE TerminalState(p) = "player" -> 2
                 [] TerminalState(p) = "opponent" -> 0
                 [] OTHER -> 1
  IN  IF Ply(p) % 2 = 1 THEN 2 - score ELSE score

\* from_moves
FromMoves(moves) == FoldLeft(MakeMove, Empty, moves)

Top(t, col) == Rows - 1 - Cardinality(FreeRows(t, col))

\* Faulty variant: any stone on top is taken off, whoever dropped it.
RemovableAny(p, t, col) == Top(t, col) >= 0

\* The stone on top of column col of t, a part of p, is of the player who moved
\* last in t.
Removable(p, t, col) ==
  LET player0 == (Ply(p) % 2 = 0) # (Ply(t) % 2 = 0)
  IN  /\ Top(t, col) >= 0
      /\ Get(t, Top(t, col), col) = (IF player0 THEN "player" ELSE "opponent")

\* to_moves_recursive: stones are taken off, columns tried from the left and
\* the first way to the empty board kept. The set is empty if there is none.
RECURSIVE Rebuild(_, _, _)
Rebuild(p, t, col) ==
  IF t.mask = {} THEN {<<>>}
  ELSE IF col = Cols THEN {}
  ELSE LET found == IF Removable(p, t, col)
                    THEN {Append(moves, col) :
                            moves \in Rebuild(p, SetPiece(t, Top(t, col), col, "empty"), 0)}
                    ELSE {}
       IN  IF found # {} THEN found ELSE Rebuild(p, t, col + 1)

\* to_moves: {} if it throws.
ToMoves(p) == Rebuild(p, p, 0)

-----------------------------------------------------------------------------
(* A game.                                                                 *)

Stones == FoldSeq(LAMBDA stack, sum : Len(stack) + sum, 0, stacks)
Mover  == Stones % 2  \* 0 is red, who begins

Init == pos = Empty /\ stacks = [col \in 1..Cols |-> <<>>]

Drop(col) ==
  /\ TerminalState(pos) = "none" /\ col \in LegalMoves(pos)
  /\ pos' = MakeMove(pos, col)
  /\ stacks' = [stacks EXCEPT ![col + 1] = Append(@, Mover)]

Next == \E col \in 0..Cols - 1 : Drop(col)

Spec == Init /\ [][Next]_vars

-----------------------------------------------------------------------------
(* Properties.                                                             *)

Cells == (0..Rows - 1) \X (0..Cols - 1)
Stone(cell) == IF cell[1] < Len(stacks[cell[2] + 1]) THEN stacks[cell[2] + 1][cell[1] + 1] ELSE 2

\* A player has won: stones of one colour in a line, in any direction.
Won(player) ==
  \E cell \in Cells, d \in {-1, 0, 1} \X {-1, 0, 1} :
    /\ d # <<0, 0>>
    /\ \A k \in 0..Connect - 1 :
         LET at == <<cell[1] + k * d[1], cell[2] + k * d[2]>>
         IN  at \in Cells /\ Stone(at) = player

\* The words hold the board that was played, seen by the player to move; a
\* column overflows only when it is no legal move.
BoardIsPlayed ==
  /\ pos.value \subseteq pos.mask
  /\ \A cell \in Cells : Get(pos, cell[1], cell[2]) =
       CASE Stone(cell) = 2 -> "empty" [] Stone(cell) = Mover -> "player" [] OTHER -> "opponent"
  /\ LegalMoves(pos) = {col \in 0..Cols - 1 : Len(stacks[col + 1]) < Rows}

\* The game ends when and as it should (the masks miss no line, none wraps
\* round the edge of the board, a win on the last cell is no draw).
EndsAreTrue ==
  TerminalState(pos) =
    IF Won(Mover) THEN "player"
    ELSE IF Won(1 - Mover) THEN "opponent"
    ELSE IF Stones = Rows * Cols THEN "draw" ELSE "none"

\* The score of a finished game is red's, whoever would be to move.
ScoreIsReds ==
  TerminalState(pos) # "none" =>
    Player0Score(pos) = IF Won(0) THEN 2 ELSE IF Won(1) THEN 0 ELSE 1

\* Every board has a line of play, which leads to it; the solver is asked with
\* it, so no game is over before its end.
LinesLeadThere ==
  /\ ToMoves(pos) # {}
  /\ \A moves \in ToMoves(pos) :
       /\ FromMoves(moves) = pos
       /\ TerminalState(pos) = "none" =>
            \A n \in DOMAIN moves : TerminalState(FromMoves(SubSeq(moves, 1, n))) = "none"

\* A flipped sample is a position of the mirrored game: flipping commutes with
\* moves and changes neither the end nor the player to move.
FlipIsASymmetry ==
  LET flipped == FlipHorizontal(pos)
  IN  /\ FlipHorizontal(flipped) = pos /\ TerminalState(flipped) = TerminalState(pos)
      /\ \A col \in LegalMoves(pos) :
           /\ Cols - 1 - col \in LegalMoves(flipped)
           /\ FlipHorizontal(MakeMove(pos, col)) = MakeMove(flipped, Cols - 1 - col)
=============================================================================
