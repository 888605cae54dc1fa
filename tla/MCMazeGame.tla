----------------------------- MODULE MCMazeGame -----------------------------
(***************************************************************************)
(* Two by two lattice points, the smallest maze with a corner: all four    *)
(* points are open, as make_maze leaves them, and three of the four walls  *)
(* between them are down, all but the one in the bottom row.  The player   *)
(* starts where two ways part.  One is a dead end; the other leads to the  *)
(* exit and, past it, down to the fruit in the opposite corner.            *)
(***************************************************************************)
EXTENDS MazeGame

LastLine     == 2 * 2 - 1   \* of lattice points: maze_x_dim * 2 - 1
OpenValue    == {square \in (1 .. LastLine) \X (1 .. LastLine) :
                    square[2] = 1 \/ square[1] \in {1, LastLine}}
FruitAtValue == {<<LastLine, LastLine>>}
ExitAtValue  == <<LastLine, 1>>

=============================================================================
