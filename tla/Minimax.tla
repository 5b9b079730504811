------------------------------ MODULE Minimax ------------------------------
(***************************************************************************)
(* The minimax opponent of the strength ladder (minimax_harness.py,        *)
(* _MinimaxEvaluator): a search to a fixed depth that stops at the first   *)
(* winning move and keeps the scores of positions in one cache, over all   *)
(* the positions it is ever asked about.  A position is two sets of bits,  *)
(* the stones of the player to move and those of the other.                *)
(*                                                                         *)
(* The reference is what such a search is for: whether one of the players  *)
(* can force a win within so many moves.                                   *)
(***************************************************************************)
EXTENDS Integers, Sequences, FiniteSets, SequencesExt

CONSTANTS
  Rows, Cols, Connect,  \* of the board: 6, 7 and 4
  Depth,                \* of the search: 1..12
  CacheLimit,           \* 250000
  MaxPly,               \* bound: stones on a board asked about
  MaxCalls              \* bound: positions asked about

VARIABLES
  cache,   \* scores of positions, by position and remaining depth
  calls,   \* positions asked about so far
  asked,   \* the last one
  answer   \* its value and the moves the policy allows

vars == <<cache, calls, asked, answer>>

-----------------------------------------------------------------------------
(* The board.                                                              *)

Cells == 0..Rows * Cols - 1

\* _WINNING_MASKS
WinningMasks ==
  {{(row + step * d[1]) * Cols + col + step * d[2] : step \in 0..Connect - 1} :
     <<row, col, d>> \in {<<row, col, d>> \in
       (0..Rows - 1) \X (0..Cols - 1) \X {<<0, 1>>, <<1, 0>>, <<1, 1>>, <<1, -1>>} :
         /\ row + (Connect - 1) * d[1] \in 0..Rows - 1
         /\ col + (Connect - 1) * d[2] \in 0..Cols - 1}}

HasFour(bits) == \E mask \in WinningMasks : mask \subseteq bits

\* _CENTER_FIRST
OffCenter(col) == LET d == 2 * col - (Cols - 1) IN IF d < 0 THEN -d ELSE d
CenterFirst ==
  SetToSortSeq(0..Cols - 1, LAMBDA a, b : \/ OffCenter(a) < OffCenter(b)
                                          \/ OffCenter(a) = OffCenter(b) /\ a < b)

LegalMoves(occupied) ==
  SelectSeq(CenterFirst, LAMBDA col : (Rows - 1) * Cols + col \notin occupied)

MoveBit(occupied, col) ==
  Cardinality({b \in occupied : b % Cols = col}) * Cols + col

After(p, col) == p.current \cup {MoveBit(p.current \cup p.opponent, col)}

\* The position the other player finds.
Turned(p, col) == [current |-> p.opponent, opponent |-> After(p, col)]

Legal(p) == LegalMoves(p.current \cup p.opponent)

-----------------------------------------------------------------------------
(* The search.                                                             *)

\* Faulty variant: a score is remembered for whatever depth.
KeyWithoutDepth(p, depth) == <<p, Depth - 1>>

Key(p, depth) == <<p, depth>>

\* A score is stored; a full cache is emptied first.
Remember(known, key, best) ==
  IF Cardinality(DOMAIN known) >= CacheLimit THEN key :> best ELSE (key :> best) @@ known

Higher(a, b) == IF a > b THEN a ELSE b

\* _score: the score and the cache afterwards.
RECURSIVE Score(_, _, _)
Score(p, depth, known) ==
  LET try(found, col) ==
        IF found.best = 1 THEN found
        ELSE IF HasFour(After(p, col)) THEN [found EXCEPT !.best = 1]
        ELSE IF depth > 1
          THEN LET below == Score(Turned(p, col), depth - 1, found.cache)
               IN  [best |-> Higher(found.best, -below.best), cache |-> below.cache]
          ELSE [found EXCEPT !.best = Higher(@, 0)]
      found == FoldLeft(try, [best |-> -1, cache |-> known], Legal(p))
  IN  IF Key(p, depth) \in DOMAIN known THEN [best |-> known[Key(p, depth)], cache |-> known]
      ELSE IF Legal(p) = <<>> THEN [best |-> 0, cache |-> known]
      ELSE [best  |-> found.best,
            cache |-> Remember(found.cache, Key(p, depth), found.best)]

\* The best moves so far, and this one.
Better(found, col, score, known) ==
  [best  |-> Higher(found.best, score),
   moves |-> CASE score > found.best -> {col}
               [] score = found.best -> found.moves \cup {col}
               [] OTHER              -> found.moves,
   cache |-> known]

\* __call__ for one position: every move is scored, the best ones are allowed.
Search(p, known) ==
  LET try(found, col) ==
        LET below == Score(Turned(p, col), Depth - 1, found.cache)
        IN  IF HasFour(After(p, col)) THEN Better(found, col, 1, found.cache)
            ELSE IF Depth > 1 THEN Better(found, col, -below.best, below.cache)
            ELSE Better(found, col, 0, found.cache)
  IN  FoldLeft(try, [best |-> -2, moves |-> {}, cache |-> known], Legal(p))

-----------------------------------------------------------------------------
Empty == [current |-> {}, opponent |-> {}]
Over(p) == HasFour(p.opponent) \/ Legal(p) = <<>>

\* The positions of games that are not over, after n moves.
Played[n \in 0..MaxPly] ==
  IF n = 0 THEN {Empty}
  ELSE {p \in UNION {{Turned(q, col) : col \in ToSet(Legal(q))} : q \in Played[n - 1]} :
          ~Over(p)}

Init == cache = <<>> /\ calls = 0 /\ asked = Empty /\ answer = [best |-> 0, moves |-> {}]

Evaluate(p) ==
  /\ calls < MaxCalls /\ calls' = calls + 1 /\ asked' = p
  /\ LET found == Search(p, cache)
     IN  cache' = found.cache /\ answer' = [best |-> found.best, moves |-> found.moves]

Next == \E n \in 0..MaxPly : \E p \in Played[n] : Evaluate(p)

Spec == Init /\ [][Next]_vars

-----------------------------------------------------------------------------
(* Properties.                                                             *)

TypeOK ==
  /\ calls \in 0..MaxCalls /\ Cardinality(DOMAIN cache) <= CacheLimit
  /\ \A key \in DOMAIN cache : key[2] \in 1..Depth - 1 /\ cache[key] \in -1..1
  /\ answer.best \in -1..1 /\ answer.moves \subseteq 0..Cols - 1

\* The player to move can force a win within so many moves of a game not over.
RECURSIVE Wins(_, _), Loses(_, _)
Wins(p, moves) ==
  moves > 0 /\ \E col \in ToSet(Legal(p)) :
    HasFour(After(p, col)) \/ Loses(Turned(p, col), moves - 1)
Loses(p, moves) ==
  moves > 0 /\ Legal(p) # <<>> /\ \A col \in ToSet(Legal(p)) :
    ~HasFour(After(p, col)) /\ Wins(Turned(p, col), moves - 1)

Value(p, moves) == CASE Wins(p, moves) -> 1 [] Loses(p, moves) -> -1 [] OTHER -> 0

\* What is remembered is true, whichever search it comes from and at whatever
\* depth that search was when it met the position.
CacheIsTrue == \A key \in DOMAIN cache : cache[key] = Value(key[1], key[2])

\* The opponent is as strong as its name: it plays a forced win if there is one
\* within its depth, avoids a forced loss, and allows every move that is as good
\* as the best.
AnswerIsBest ==
  calls > 0 =>
    LET worth(col) == IF HasFour(After(asked, col)) THEN 1
                      ELSE -Value(Turned(asked, col), Depth - 1)
        legal      == ToSet(Legal(asked))
    IN  /\ answer.best = Value(asked, Depth)
        /\ answer.moves = {col \in legal : \A other \in legal : worth(col) >= worth(other)}
=============================================================================
