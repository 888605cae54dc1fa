-------------------------------- MODULE Maze --------------------------------
(***************************************************************************)
(* make_maze of src/mp2/maze.c: worms dig a maze out of a solid block, a   *)
(* breadth-first search joins the pieces to (1,1), fruits and the exit are *)
(* placed.  The maze is the array of the code, one index per lattice       *)
(* point, each bit (MAZE_WALL, MAZE_REACH, MAZE_FRUIT, MAZE_EXIT) a set of *)
(* indices; the searches step through it by adding to an index, as the     *)
(* code does with pointers.  random() is a free choice: every weight in    *)
(* turn_wt is positive, so each direction inside the maze may be drawn.    *)
(***************************************************************************)
EXTENDS Integers, FiniteSets, Sequences

CONSTANTS
    maze_x_dim, maze_y_dim,
    start_fruits,
    SCAN_BELOW,         \* scan once fewer points than this remain (20)
    MAX_TRIALS          \* random attempts before scanning (100)

ASSUME MazeAssumption ==
    /\ maze_x_dim \in Nat \ {0, 1} /\ maze_y_dim \in Nat \ {0, 1}
    /\ start_fruits \in Nat /\ start_fruits < maze_x_dim * maze_y_dim
    /\ SCAN_BELOW \in Nat /\ MAX_TRIALS \in Nat

VARIABLES
    phase,              \* "pick" | "worm" | "mark" | "connect" | "fruit" | "done"
    wall, reach, fruit, \* indices with MAZE_WALL, MAZE_REACH, MAZE_FRUIT
    exit,               \* <<exit_x, exit_y>>
    n_fruits,
    x, y, pref_dir,     \* the worm, later the point being joined
    remaining, trials,
    q, q_start          \* the queue of mark_maze_area; q_end is Len(q)

mazeVars == <<phase, wall, reach, fruit, exit, n_fruits, x, y, pref_dir,
          remaining, trials, q, q_start>>

MAZE_INDEX(a, b) == a + (b + 1) * maze_x_dim * 2
Size == 2 * maze_x_dim * (2 * maze_y_dim + 3) + 1

OddX == {2 * i - 1 : i \in 1 .. maze_x_dim}
OddY == {2 * i - 1 : i \in 1 .. maze_y_dim}
Points == {MAZE_INDEX(a, b) : a \in OddX, b \in OddY}
Cur == MAZE_INDEX(x, y)

\* The size is valid, the array is filled with walls.
MazeInit ==
    /\ phase = "pick"
    /\ wall = 0 .. Size - 1 /\ reach = {} /\ fruit = {}
    /\ exit = <<0, 0>> /\ n_fruits = 0
    /\ x = 1 /\ y = 1 /\ pref_dir = 0
    /\ remaining = maze_x_dim * maze_y_dim /\ trials = 0
    /\ q = <<>> /\ q_start = 0

\* A new worm starts on an (odd,odd) point that is still a wall.
PickWorm ==
    /\ phase = "pick"
    /\ x' \in OddX /\ y' \in OddY /\ MAZE_INDEX(x', y') \in wall
    /\ wall' = wall \ {MAZE_INDEX(x', y')}
    /\ remaining' = remaining - 1
    /\ pref_dir' \in 0 .. 3
    /\ phase' = "worm"
    /\ UNCHANGED <<reach, fruit, exit, n_fruits, trials, q, q_start>>

\* Directions with a weight: up, right, down, left inside the maze.
weighted(dir) ==
    CASE dir = 0 -> y > 1
      [] dir = 1 -> x < maze_x_dim * 2 - 1
      [] dir = 2 -> y < maze_y_dim * 2 - 1
      [] dir = 3 -> x > 1

DX == <<0, 1, 0, -1>>
DY == <<-1, 0, 1, 0>>

\* The worm digs through the wall ahead and eats the next point if it has to.
Dig(dir) ==
    LET nx == x + 2 * DX[dir + 1]
        ny == y + 2 * DY[dir + 1]
    IN  /\ wall' = wall \ {MAZE_INDEX(x + DX[dir + 1], y + DY[dir + 1]), MAZE_INDEX(nx, ny)}
        /\ remaining' = IF MAZE_INDEX(nx, ny) \in wall THEN remaining - 1 ELSE remaining
        /\ x' = nx /\ y' = ny /\ pref_dir' = dir

WormStep ==
    /\ phase = "worm"
    /\ \E dir \in 0 .. 3 :
          weighted(dir) /\ (dir - pref_dir + 4) % 4 # 2 /\ Dig(dir)
    /\ UNCHANGED <<phase, reach, fruit, exit, n_fruits, trials, q, q_start>>

\* mark_maze_area(a, b): mark the point and put it into the queue.
StartMark(a, b) ==
    /\ reach' = reach \cup {MAZE_INDEX(a, b)}
    /\ q' = <<MAZE_INDEX(a, b)>> /\ q_start' = 0
    /\ phase' = "mark"

\* The worm turns back: another worm, or on to the second phase.
WormTurns ==
    /\ phase = "worm"
    /\ \E dir \in 0 .. 3 : weighted(dir) /\ (dir - pref_dir + 4) % 4 = 2
    /\ IF remaining > 0
       THEN phase' = "pick" /\ UNCHANGED <<reach, q, q_start, remaining>>
       ELSE StartMark(1, 1) /\ remaining' = maze_x_dim * maze_y_dim
    /\ UNCHANGED <<wall, fruit, exit, n_fruits, x, y, pref_dir, trials>>

\* Mutant: the wall between is not looked at.
Look_through(c, d) == IF c + 2 * d \in Points \ reach THEN <<c + 2 * d>> ELSE <<>>

\* One of the four tests of mark_maze_area: the point beyond stride d of c.
Look(c, d) == IF c + d \notin wall /\ c + 2 * d \notin reach THEN <<c + 2 * d>> ELSE <<>>

\* The points found from index c, in the order in which the code looks around.
Found(c) == Look(c, -2 * maze_x_dim) \o Look(c, 1) \o Look(c, 2 * maze_x_dim) \o Look(c, -1)

MarkStep ==
    LET found == Found(q[q_start + 1])
    IN  /\ phase = "mark" /\ q_start # Len(q)
        /\ q_start' = q_start + 1
        /\ q' = q \o found
        /\ reach' = reach \cup {found[i] : i \in DOMAIN found}
        /\ UNCHANGED <<phase, wall, fruit, exit, n_fruits, x, y, pref_dir, remaining, trials>>

\* All (odd,odd) markers are removed before the fruits are placed.
Leave == phase' = "fruit" /\ reach' = reach \ Points
Loop(left) == IF left > 0 THEN phase' = "connect" /\ UNCHANGED reach ELSE Leave

\* The queue is empty; its length is the number of points marked.  The first
\* search (no point has been joined yet) always enters the loop.
MarkEnds ==
    /\ phase = "mark" /\ q_start = Len(q)
    /\ remaining' = remaining - Len(q)
    /\ IF remaining = maze_x_dim * maze_y_dim THEN phase' = "connect" /\ UNCHANGED reach
       ELSE Loop(remaining')
    /\ UNCHANGED <<wall, fruit, exit, n_fruits, x, y, pref_dir, trials, q, q_start>>

\* The wall knocked down to join point c at (a, b), as a stride; 0 for none.
Joint(a, b, c) ==
    IF b > 1 /\ c - 4 * maze_x_dim \in reach THEN -2 * maze_x_dim
    ELSE IF a > 1 /\ c - 2 \in reach THEN -1
    ELSE IF a < 2 * maze_x_dim - 1 /\ c + 2 \in reach THEN 1
    ELSE IF b < 2 * maze_y_dim - 1 /\ c + 4 * maze_x_dim \in reach THEN 2 * maze_x_dim
    ELSE 0

\* Join (a, b) to the reached part, or go round the loop (continue).
Join(a, b) ==
    LET c == MAZE_INDEX(a, b)
        s == Joint(a, b, c)
    IN  IF c \in reach \/ s = 0
        THEN /\ Loop(remaining) /\ UNCHANGED <<wall, q, q_start>>
        ELSE /\ wall' = wall \ {c + s} /\ StartMark(a, b)

Scanning == remaining < SCAN_BELOW \/ trials + 1 > MAX_TRIALS

\* Mutant: the row never changes.
ScanPoint_row == <<IF x + 2 > maze_x_dim * 2 THEN x + 2 - maze_x_dim * 2 ELSE x + 2, y>>

\* The next point in reading order, round and round.
ScanPoint ==
    IF x + 2 > maze_x_dim * 2
    THEN <<x + 2 - maze_x_dim * 2,
           IF y + 2 > 2 * maze_y_dim THEN y + 2 - 2 * maze_y_dim ELSE y + 2>>
    ELSE <<x + 2, y>>

ConnectScan ==
    /\ phase = "connect" /\ Scanning
    /\ x' = ScanPoint[1] /\ y' = ScanPoint[2]
    /\ Join(x', y')
    \* ++trials stops mattering once it is past MAX_TRIALS
    /\ trials' = IF remaining < SCAN_BELOW THEN trials ELSE MAX_TRIALS
    /\ UNCHANGED <<fruit, exit, n_fruits, pref_dir, remaining>>

ConnectRandom ==
    /\ phase = "connect" /\ ~Scanning
    /\ x' \in OddX /\ y' \in OddY /\ MAZE_INDEX(x', y') \notin reach
    /\ Join(x', y')
    /\ trials' = trials + 1
    /\ UNCHANGED <<fruit, exit, n_fruits, pref_dir, remaining>>

\* add_a_fruit_internal, start_fruits times.
AddFruit ==
    /\ phase = "fruit" /\ n_fruits < start_fruits
    /\ \E i \in Points \ fruit : fruit' = fruit \cup {i}
    /\ n_fruits' = n_fruits + 1
    /\ UNCHANGED <<phase, wall, reach, exit, x, y, pref_dir, remaining, trials, q, q_start>>

\* Mutant: the exit goes to any point.
ExitPoints_any == OddX \X OddY

\* The exit goes to a point without fruit.
ExitPoints == {p \in OddX \X OddY : MAZE_INDEX(p[1], p[2]) \notin fruit}

PlaceExit ==
    /\ phase = "fruit" /\ n_fruits = start_fruits
    /\ exit' \in ExitPoints
    /\ x' = exit'[1] /\ y' = exit'[2]
    /\ phase' = "done"
    /\ UNCHANGED <<wall, reach, fruit, n_fruits, pref_dir, remaining, trials, q, q_start>>

MazeNext ==
    \/ PickWorm \/ WormStep \/ WormTurns
    \/ MarkStep \/ MarkEnds
    \/ ConnectScan \/ ConnectRandom
    \/ AddFruit \/ PlaceExit

Connecting == MarkStep \/ MarkEnds \/ ConnectScan \/ ConnectRandom \/ AddFruit \/ PlaceExit

\* The thread that calls make_maze keeps running.
MazeSpec == MazeInit /\ [][MazeNext]_mazeVars /\ WF_mazeVars(Connecting)

-----------------------------------------------------------------------------
(* Properties.                                                              *)

MazeTypeOK ==
    /\ phase \in {"pick", "worm", "mark", "connect", "fruit", "done"}
    /\ wall \subseteq 0 .. Size - 1 /\ reach \subseteq Points /\ fruit \subseteq Points
    /\ x \in OddX /\ y \in OddY /\ pref_dir \in 0 .. 3
    /\ remaining \in Nat /\ trials \in 0 .. MAX_TRIALS /\ n_fruits \in 0 .. start_fruits

\* remaining is kept by decrements in three places; it is exactly the number
\* of (odd,odd) points that are still walls, later still unmarked.  Off by
\* one it would end a loop early or never.
RemainingExact ==
    /\ phase \in {"pick", "worm"} => remaining = Cardinality(Points \cap wall)
    /\ phase = "connect" => remaining = Cardinality(Points \ reach)

\* The boundary (row 0, the last row, column 0 with the right side one row
\* on) and the (even,even) points, which make_maze's header calls "always
\* walls", stay walls; so the index arithmetic of the worms, of the search
\* and of the joins never leaves the maze.
LatticeKept ==
    /\ \A a \in 0 .. 2 * maze_x_dim - 1 :
          MAZE_INDEX(a, 0) \in wall /\ MAZE_INDEX(a, 2 * maze_y_dim) \in wall
    /\ \A b \in 0 .. 2 * maze_y_dim + 1 : MAZE_INDEX(0, b) \in wall
    /\ \A i \in 0 .. maze_x_dim - 1, j \in 0 .. maze_y_dim : MAZE_INDEX(2 * i, 2 * j) \in wall

\* The reference for the search: a point is reachable if every set of points
\* that holds (1,1) and the neighbours of its members holds it.
Strides == {-2 * maze_x_dim, 1, 2 * maze_x_dim, -1}
Adjacent(i) == {i + 2 * d : d \in {e \in Strides : i + e \notin wall}}
Closed(S) == MAZE_INDEX(1, 1) \in S /\ \A i \in S : Adjacent(i) \subseteq S
Reachable == {i \in Points : \A S \in SUBSET Points : Closed(S) => i \in S}

\* Between searches the marked points are exactly the ones connected to
\* (1,1).
ReachExact ==
    phase = "connect" => reach = Reachable

\* What make_maze promises: "a path exists from any (odd,odd) lattice point
\* to any other", no marker is left, the fruits are there and the exit is
\* not on one.
MazeMade ==
    phase = "done" =>
        /\ Reachable = Points
        /\ reach = {}
        /\ Cardinality(fruit) = n_fruits /\ n_fruits = start_fruits
        /\ MAZE_INDEX(exit[1], exit[2]) \in Points \ fruit

\* The queue of the search "is large enough to hold the whole maze": no point
\* is queued twice, by however many paths of equal length it is found.
QueueFits ==
    /\ Len(q) <= maze_x_dim * maze_y_dim
    /\ Cardinality({q[i] : i \in DOMAIN q}) = Len(q)

\* The second phase ends: after MAX_TRIALS random attempts the scan visits
\* every point and so finds one that can be joined.
ConnectEnds == phase = "mark" ~> phase = "done"

\* The bookkeeping of make_maze agrees with the maze at every step: the counts,
\* the lattice that keeps indices inside the array, the marks and the queue.
BookkeepingExact == MazeTypeOK /\ RemainingExact /\ LatticeKept /\ ReachExact /\ QueueFits

=============================================================================
