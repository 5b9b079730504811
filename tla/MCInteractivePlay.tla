------------------------- MODULE MCInteractivePlay -------------------------
EXTENDS InteractivePlay

CONSTANTS a, b, c1, c2

MCMoves == {a, b}

\* Two columns, one of which ends the game early; after <<b>> the only legal
\* move is a.
MCBoards == {<<>>, <<a>>, <<b>>, <<a, a>>, <<a, b>>, <<b, a>>}
=============================================================================
