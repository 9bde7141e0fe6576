--------------------------------- MODULE Maze ---------------------------------
(***************************************************************************)
(* The maze of the maze game (maze.c): how make_maze digs it, its fruit and *)
(* exit, and the image find_block chooses for each of its points.           *)
(*                                                                         *)
(* maze is an array of bit vectors; here each bit is the set of the indices *)
(* that have it.  Points with two odd coordinates are rooms.  The columns 0 *)
(* and 2 * maze_x_dim are one: the right boundary of a row has the index of *)
(* the left boundary of the next.                                           *)
(***************************************************************************)
EXTENDS Integers, FiniteSets

CONSTANTS
  MAZE_MIN_X_DIM, MAZE_MAX_X_DIM, MAZE_MIN_Y_DIM, MAZE_MAX_Y_DIM,
  SCAN_BELOW,   \* rooms left when random tries give way to a scan (20)
  MAX_TRIALS,   \* random tries to connect a room (100)
  GOD_MODE      \* TRUE as committed: all inner walls are removed

ASSUME MazeDimAssumption ==
  /\ MAZE_MIN_X_DIM \in Nat \ {0} /\ MAZE_MAX_X_DIM \in Nat
  /\ MAZE_MIN_Y_DIM \in Nat \ {0} /\ MAZE_MAX_Y_DIM \in Nat
  /\ MAZE_MIN_X_DIM <= MAZE_MAX_X_DIM /\ MAZE_MIN_Y_DIM <= MAZE_MAX_Y_DIM
ASSUME ScanAssumption == SCAN_BELOW \in Nat /\ MAX_TRIALS \in Nat /\ GOD_MODE \in BOOLEAN

VARIABLES
  maze_x_dim, maze_y_dim,
  wall, reach, fruit,        \* the indices with MAZE_WALL, MAZE_REACH, MAZE_FRUIT
  n_fruits, exit,
  gen,                       \* the next step of make_maze
  x, y, pref_dir,            \* its locals: the worm, or the room being scanned
  remaining, trials

points   == <<wall, reach, fruit, n_fruits, exit>>
genVars  == <<gen, x, y, pref_dir, remaining, trials>>
mazeVars == <<maze_x_dim, maze_y_dim, points, genVars>>

MAZE_INDEX(a, b) == a + (b + 1) * maze_x_dim * 2

Odd(n)   == {k \in 1 .. n : k % 2 = 1}
RoomsAt  == Odd(2 * maze_x_dim) \X Odd(2 * maze_y_dim)
Room(p)  == MAZE_INDEX(p[1], p[2])
Rooms    == {Room(p) : p \in RoomsAt}
Array(xd, yd) == 0 .. 2 * xd * (2 * yd + 3)

\* Directions 0 to 3 are up, right, down, left.
StepX(d) == CASE d = 1 -> 1 [] d = 3 -> -1 [] OTHER -> 0
StepY(d) == CASE d = 0 -> -1 [] d = 2 -> 1 [] OTHER -> 0
Inside(a, b) == a \in 1 .. 2 * maze_x_dim - 1 /\ b \in 1 .. 2 * maze_y_dim - 1

-----------------------------------------------------------------------------
(* mark_maze_area: a breadth-first search over rooms, as the set it reaches *)

Joined(p, q, walls) ==
  \E d \in 0 .. 3 :
    /\ q[1] = p[1] + 2 * StepX(d) /\ q[2] = p[2] + 2 * StepY(d)
    /\ MAZE_INDEX(p[1] + StepX(d), p[2] + StepY(d)) \notin walls

\* The rooms a search finds goes on from; those already reached stop it.
Closed(rooms, walls, reached) ==
  \A b \in rooms, q \in RoomsAt : Room(q) \notin reached /\ Joined(b, q, walls) => q \in rooms

Area(p, walls, reached) ==
  {q \in RoomsAt : \A s \in SUBSET RoomsAt : p \in s /\ Closed(s, walls, reached) => q \in s}

mark_maze_area(p, walls, reached) == {Room(q) : q \in Area(p, walls, reached)}

-----------------------------------------------------------------------------
(* make_maze *)

\* Its first lines: the whole array is wall.
BeginMaze(xd, yd) ==
  /\ maze_x_dim' = xd /\ maze_y_dim' = yd
  /\ wall' = Array(xd, yd) /\ reach' = {} /\ fruit' = {}
  /\ n_fruits' = 0 /\ exit' = -1
  /\ remaining' = xd * yd /\ trials' = 0
  /\ x' = 1 /\ y' = 1 /\ pref_dir' = 0
  /\ gen' = "drop"

\* A worm starts in a room that is still wall.
DropWorm ==
  /\ gen = "drop"
  /\ \E p \in RoomsAt, d \in 0 .. 3 :
       /\ Room(p) \in wall
       /\ x' = p[1] /\ y' = p[2] /\ pref_dir' = d
       /\ wall' = wall \ {Room(p)}
  /\ remaining' = remaining - 1
  /\ gen' = "worm"
  /\ UNCHANGED <<maze_x_dim, maze_y_dim, reach, fruit, n_fruits, exit, trials>>

\* Every direction within the maze has a weight of at least 1.
MoveWorm ==
  /\ gen = "worm"
  /\ \E d \in 0 .. 3 :
       LET room == MAZE_INDEX(x + 2 * StepX(d), y + 2 * StepY(d)) IN
       /\ Inside(x + 2 * StepX(d), y + 2 * StepY(d))
       /\ (d - pref_dir + 4) % 4 # 2
       /\ pref_dir' = d
       /\ x' = x + 2 * StepX(d) /\ y' = y + 2 * StepY(d)
       /\ remaining' = IF room \in wall THEN remaining - 1 ELSE remaining
       /\ wall' = wall \ {room, MAZE_INDEX(x + StepX(d), y + StepY(d))}
  /\ UNCHANGED <<maze_x_dim, maze_y_dim, reach, fruit, n_fruits, exit, gen, trials>>

\* A worm that turns back ends; after the last, what (1,1) reaches is marked.
EndWorm ==
  /\ gen = "worm"
  /\ LET d == (pref_dir + 2) % 4 IN Inside(x + 2 * StepX(d), y + 2 * StepY(d))
  /\ \/ /\ remaining > 0
        /\ gen' = "drop"
        /\ UNCHANGED <<remaining, reach>>
     \/ /\ remaining = 0
        /\ gen' = "connect"
        /\ reach' = mark_maze_area(<<1, 1>>, wall, {})
        /\ remaining' = maze_x_dim * maze_y_dim - Cardinality(reach')
  /\ UNCHANGED <<maze_x_dim, maze_y_dim, wall, fruit, n_fruits, exit, x, y, pref_dir, trials>>

\* Fault: the scan never leaves its row.
NextInScan_row ==
  IF x + 2 <= maze_x_dim * 2 THEN <<x + 2, y>> ELSE <<x + 2 - maze_x_dim * 2, y>>

\* The room the scan comes to after (x, y).
NextInScan ==
  LET a == x + 2
      b == y + 2
  IN IF a <= maze_x_dim * 2 THEN <<a, y>>
     ELSE <<a - maze_x_dim * 2, IF b <= 2 * maze_y_dim THEN b ELSE b - 2 * maze_y_dim>>

\* Fault: whether what is behind the wall is reached is not tested.
Opens_any(p, d) == Inside(p[1] + 2 * StepX(d), p[2] + 2 * StepY(d))

\* The walls to knock down between room p and what is reached, in the order the
\* code tries them: up, left, right, down.
Opens(p, d) ==
  LET q == <<p[1] + 2 * StepX(d), p[2] + 2 * StepY(d)>> IN
  Inside(q[1], q[2]) /\ Room(q) \in reach
FirstOpen(p) ==
  IF Opens(p, 0) THEN 0 ELSE IF Opens(p, 3) THEN 3 ELSE IF Opens(p, 1) THEN 1 ELSE 2

Reached(p, walls) == mark_maze_area(p, walls, reach)

Connect ==
  /\ gen = "connect"
  /\ LET scanned == remaining < SCAN_BELOW \/ trials >= MAX_TRIALS IN
     /\ trials' = IF remaining < SCAN_BELOW THEN trials ELSE trials + 1
     /\ \E p \in (IF scanned THEN {NextInScan} ELSE {q \in RoomsAt : Room(q) \notin reach}) :
          /\ x' = p[1] /\ y' = p[2]
          /\ IF Room(p) \notin reach /\ \E d \in 0 .. 3 : Opens(p, d)
             THEN LET d == FirstOpen(p)
                      walls == wall \ {MAZE_INDEX(p[1] + StepX(d), p[2] + StepY(d))}
                  IN /\ wall' = walls
                     /\ reach' = reach \cup Reached(p, walls)
                     /\ remaining' = remaining - Cardinality(Reached(p, walls))
             ELSE UNCHANGED <<wall, reach, remaining>>
  /\ gen' = IF remaining' > 0 THEN "connect" ELSE "furnish"
  /\ UNCHANGED <<maze_x_dim, maze_y_dim, fruit, n_fruits, exit, pref_dir>>

\* The rest of make_maze: marks and, in god mode, walls are removed; k fruit in
\* rooms without, and the exit in another.
InnerPoints == {MAZE_INDEX(a, b) : a \in 1 .. 2 * maze_x_dim - 1, b \in 1 .. 2 * maze_y_dim - 1}

Furnish(k) ==
  /\ gen = "furnish"
  /\ wall' = IF GOD_MODE THEN wall \ InnerPoints ELSE wall
  /\ reach' = {}
  /\ fruit' \in {s \in SUBSET Rooms : Cardinality(s) = k}
  /\ n_fruits' = k
  /\ exit' \in Rooms \ fruit'
  /\ gen' = "made"
  /\ x' = 1 /\ y' = 1 /\ pref_dir' = 0 /\ trials' = 0
  /\ UNCHANGED <<maze_x_dim, maze_y_dim, remaining>>

Dig == DropWorm \/ MoveWorm \/ EndWorm \/ Connect

-----------------------------------------------------------------------------
(* Images *)

\* find_block: the image for lattice point (a, b).
WallsAround(a, b) ==
  {d \in 0 .. 3 : MAZE_INDEX(a + StepX(d), b + StepY(d)) \in wall}

find_block(a, b) ==
  LET i == MAZE_INDEX(a, b) IN
  IF n_fruits = 0 /\ i = exit THEN <<"exit", {}>>
  ELSE IF i \notin reach THEN <<IF i \in fruit THEN "fruit shadow" ELSE "shadow", {}>>
  ELSE IF i \in fruit    THEN <<"fruit", {}>>
  ELSE IF i \notin wall  THEN <<"empty", {}>>
  ELSE <<"wall", WallsAround(a, b)>>

find_open_directions(a, b) ==
  {d \in 0 .. 3 : MAZE_INDEX(a + StepX(d), b + StepY(d)) \notin wall}

check_for_win(a, b) == n_fruits = 0 /\ MAZE_INDEX(a, b) = exit

-----------------------------------------------------------------------------
(* Properties *)

\* Every room is connected to the first before fruit and exit are placed.
EveryRoomIsReachable ==
  gen = "furnish" => mark_maze_area(<<1, 1>>, wall, {}) = Rooms

=============================================================================
