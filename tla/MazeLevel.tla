------------------------------- MODULE MazeLevel -------------------------------
(***************************************************************************)
(* One level after the other of the maze game: the maze (Maze) is dug, and *)
(* the player moves through it on the display (ModeX).  This is what        *)
(* rtc_thread of mazegame.c calls; the threads that set next_dir are in     *)
(* MazeGame, and here next_dir is any direction at every tick.              *)
(*                                                                         *)
(* A pixel is <<image, walls, dx, dy>>: the image of a block, and where in  *)
(* it the pixel is.  game_info.map_x and map_y are the window's position.   *)
(***************************************************************************)
EXTENDS Maze, ModeX

CONSTANTS
  MAX_LEVEL,
  SHOW_MIN,    \* pixels of the boundary never shown (6)
  PAN_BORDER,  \* blocks to keep between player and border (5)
  MASK         \* the opaque pixels <<dx, dy>> of the player's image

ASSUME ShowAssumption == MAX_LEVEL \in Nat \ {0} /\ SHOW_MIN \in Nat /\ PAN_BORDER \in Nat
ASSUME MaskAssumption == MASK \subseteq (0 .. BLOCK - 1) \X (0 .. BLOCK - 1)

\* What the code's constants have in common: the window shows less than the maze
\* is wide, and has room for the player and the borders beside it.
ASSUME WindowAssumption ==
  /\ SHOW_MIN <= BLOCK
  /\ PAN_BORDER \in 1 .. 2 * MAZE_MIN_X_DIM - 3
  /\ SCROLL_X_DIM + SHOW_MIN <= 2 * MAZE_MIN_X_DIM * BLOCK
  /\ SCROLL_X_DIM <= (2 * MAZE_MIN_X_DIM - 2 + PAN_BORDER) * BLOCK
  /\ 2 * BLOCK <= SCROLL_X_DIM + SHOW_MIN /\ 2 * BLOCK <= SCROLL_Y_DIM + SHOW_MIN
  /\ SCROLL_Y_DIM + 2 * SHOW_MIN <= (2 * MAZE_MIN_Y_DIM + 1) * BLOCK

VARIABLES
  pc, level,
  play_x, play_y,   \* the player's pixel in the maze
  dir, move_cnt,
  redraw,           \* lattice points whose blocks are drawn next
  old_value_buf,    \* what the player's image covers
  after             \* what follows the frame: "tick", "move" or "level"

playVars == <<play_x, play_y, dir, move_cnt>>
callVars == <<redraw, old_value_buf, after>>
vars     == <<mazeVars, view, pageVars, pc, level, playVars, callVars>>

DIR_STOP == 4
Start    == <<BLOCK, BLOCK>>

\* fill_horiz_buffer, fill_vert_buffer and the blocks themselves: the pixel of
\* the maze at (px, py).
Pixel(px, py) ==
  LET image == find_block(px \div BLOCK, py \div BLOCK)
  IN <<image[1], image[2], px % BLOCK, py % BLOCK>>
Pixels == [p \in Window |-> Pixel(p[1], p[2])]

set_view_window(sx, sy) ==
  /\ show_x' = sx /\ show_y' = sy
  /\ img3_off' = NewOffset(sx, sy)
  /\ build' = NewBuild(sx, sy)

-----------------------------------------------------------------------------
(* prepare_maze_level *)

Clamped(min, max) == Smaller(min + 2 * (level - 1), max)
initial_fruit_count == Smaller(1 + (level - 1) \div 2, 6)

Prepare ==
  /\ pc = "prepare"
  /\ BeginMaze(Clamped(MAZE_MIN_X_DIM, MAZE_MAX_X_DIM), Clamped(MAZE_MIN_Y_DIM, MAZE_MAX_Y_DIM))
  /\ pc' = "dig"
  /\ UNCHANGED <<view, pageVars, level, playVars, callVars>>

MakeMaze ==
  /\ pc = "dig"
  /\ Dig
  /\ UNCHANGED <<view, pageVars, pc, level, playVars, callVars>>

SetView ==
  /\ pc = "dig"
  /\ Furnish(initial_fruit_count)
  /\ set_view_window(SHOW_MIN, SHOW_MIN)
  /\ pc' = "lines"
  /\ UNCHANGED <<pageVars, level, playVars, callVars>>

\* Then rtc_thread puts the player at (1,1).
DrawLines ==
  /\ pc = "lines"
  /\ build' = draw_horiz_lines(Shown(build), 0 .. SCROLL_Y_DIM - 1, Pixels)
  /\ play_x' = Start[1] /\ play_y' = Start[2]
  /\ dir' = DIR_STOP /\ move_cnt' = 0
  /\ after' = "tick"
  /\ pc' = "unveil"
  /\ UNCHANGED <<mazeVars, show_x, show_y, img3_off, pageVars, level, redraw, old_value_buf>>

-----------------------------------------------------------------------------
(* unveil_around_player *)

At == <<play_x \div BLOCK, play_y \div BLOCK>>

Around(p) ==
  {<<p[1] + i, p[2] + j>> : i \in -1 .. 1, j \in -1 .. 1}
    \cup {<<p[1] + 2 * StepX(d), p[2] + 2 * StepY(d)>> : d \in 0 .. 3}

\* unveil_space allows the bottom and right boundaries.
Unveiled(p) ==
  {q \in Around(p) : /\ q[1] \in 0 .. 2 * maze_x_dim /\ q[2] \in 0 .. 2 * maze_y_dim
                     /\ MAZE_INDEX(q[1], q[2]) \notin reach}

ExitAt == {p \in RoomsAt : Room(p) = exit}

\* check_for_fruit draws the eaten fruit's square and, after the last, the exit.
Redrawn(eats) ==
  Unveiled(At) \cup (IF eats THEN {At} ELSE {})
    \cup (IF eats /\ n_fruits = 1 THEN ExitAt ELSE {})

Unveil ==
  /\ pc = "unveil" \/ (pc = "tick" /\ move_cnt = 0)
  /\ after' = IF pc = "tick" THEN "move" ELSE after
  /\ LET here == MAZE_INDEX(At[1], At[2])
         eats == here \in fruit
     IN /\ fruit' = fruit \ {here}
        /\ n_fruits' = IF eats THEN n_fruits - 1 ELSE n_fruits
        /\ reach' = reach \cup {MAZE_INDEX(q[1], q[2]) : q \in Unveiled(At)}
        /\ redraw' = Redrawn(eats)
  /\ pc' = "redraw"
  /\ UNCHANGED <<maze_x_dim, maze_y_dim, wall, exit, genVars, view, pageVars, level,
                 playVars, old_value_buf>>

\* Its draw_full_block calls, and the return value.
Redraw ==
  /\ pc = "redraw"
  /\ build' = draw_pixels(build, UNION {Block(p[1] * BLOCK, p[2] * BLOCK) : p \in redraw}, Pixels)
  /\ redraw' = {}
  /\ LET wins == after = "move" /\ check_for_win(At[1], At[2]) IN
     /\ after' = IF wins THEN "level" ELSE after
     /\ pc' = CASE after = "tick" -> "draw" [] wins -> "copy" [] OTHER -> "choose"
  /\ UNCHANGED <<mazeVars, show_x, show_y, img3_off, pageVars, level, playVars, old_value_buf>>

-----------------------------------------------------------------------------
(* A tick of rtc_thread *)

Turned(next_dir) ==
  IF dir # DIR_STOP /\ next_dir # DIR_STOP /\ next_dir = (dir + 2) % 4 THEN next_dir ELSE dir

\* In the middle of a square the player goes on, or back; on a new square Unveil
\* comes first.
Tick ==
  /\ pc = "tick" /\ move_cnt > 0
  /\ \E next_dir \in 0 .. 4 :
       /\ dir' = Turned(next_dir)
       /\ move_cnt' = IF dir' = dir THEN move_cnt ELSE BLOCK - move_cnt
  /\ after' = "move"
  /\ pc' = "draw"
  /\ UNCHANGED <<mazeVars, view, pageVars, level, play_x, play_y, redraw, old_value_buf>>

\* On a new square next_dir is taken if it is open; else the player goes on if
\* that is.
Choose ==
  /\ pc = "choose"
  /\ LET open == find_open_directions(At[1], At[2]) IN
     \E next_dir \in 0 .. 4 :
       /\ dir' = IF next_dir \in open THEN next_dir
                 ELSE IF Turned(next_dir) \in open THEN Turned(next_dir)
                 ELSE DIR_STOP
       /\ move_cnt' = IF dir' = DIR_STOP THEN 0 ELSE BLOCK
  /\ pc' = "draw"
  /\ UNCHANGED <<mazeVars, view, pageVars, level, play_x, play_y, callVars>>

-----------------------------------------------------------------------------
(* A frame: draw_mask_block, show_screen, draw_full_block(old_value_buf) *)

DrawPlayer ==
  /\ pc = "draw"
  /\ LET Cell(d) == Address(img3_off, play_x + d[1], play_y + d[2])
         image   == (0 .. BLOCK - 1) \X (0 .. BLOCK - 1)
     IN /\ old_value_buf' = [d \in image |-> build[Cell(d)]]
        /\ build' = [c \in Cells |->
                       IF \E d \in MASK : Cell(d) = c
                       THEN LET d == CHOOSE d \in MASK : Cell(d) = c
                            IN <<"player", {}, d[1], d[2]>>
                       ELSE build[c]]
  /\ pc' = "copy"
  /\ UNCHANGED <<mazeVars, show_x, show_y, img3_off, pageVars, level, playVars, redraw, after>>

ShowPlanes ==
  /\ pc = "copy" /\ CopyPlanes /\ pc' = "high"
  /\ UNCHANGED <<mazeVars, view, level, playVars, callVars>>

ShowHigh ==
  /\ pc = "high" /\ SetHigh /\ pc' = "low"
  /\ UNCHANGED <<mazeVars, view, level, playVars, callVars>>

\* The frame that ends a level has no player in it to undraw.
ShowLow ==
  /\ pc = "low" /\ SetLow
  /\ LET old == [p \in Block(play_x, play_y) |-> old_value_buf[<<p[1] - play_x, p[2] - play_y>>]]
     IN build' = IF after = "level" THEN build
                 ELSE draw_full_block(build, play_x, play_y, old)
  /\ old_value_buf' = <<>>
  /\ pc' = CASE after = "level"                    -> "next"
             [] after = "move" /\ dir # DIR_STOP   -> "move"
             [] OTHER                              -> "tick"
  /\ UNCHANGED <<mazeVars, show_x, show_y, img3_off, level, playVars, redraw, after>>

-----------------------------------------------------------------------------
(* move_up, move_right, move_down, move_left *)

\* Fault: the window may follow the player past the end of the maze.
Pans_far(d) ==
  CASE d = 0 -> play_y - 1 < show_y + BLOCK * PAN_BORDER /\ show_y > SHOW_MIN
    [] d = 1 -> play_x + 1 > show_x + SCROLL_X_DIM - BLOCK * (PAN_BORDER + 1)
    [] d = 2 -> play_y + 1 > show_y + SCROLL_Y_DIM - BLOCK * (PAN_BORDER + 1)
    [] OTHER -> play_x - 1 < show_x + BLOCK * PAN_BORDER /\ show_x > SHOW_MIN

Pans(d) ==
  CASE d = 0 -> /\ play_y - 1 < show_y + BLOCK * PAN_BORDER
                /\ show_y > SHOW_MIN
    [] d = 1 -> /\ play_x + 1 > show_x + SCROLL_X_DIM - BLOCK * (PAN_BORDER + 1)
                /\ show_x + SCROLL_X_DIM < (2 * maze_x_dim + 1) * BLOCK - SHOW_MIN
    [] d = 2 -> /\ play_y + 1 > show_y + SCROLL_Y_DIM - BLOCK * (PAN_BORDER + 1)
                /\ show_y + SCROLL_Y_DIM < (2 * maze_y_dim + 1) * BLOCK - SHOW_MIN
    [] OTHER -> /\ play_x - 1 < show_x + BLOCK * PAN_BORDER
                /\ show_x > SHOW_MIN

Move ==
  /\ pc = "move"
  /\ move_cnt' = move_cnt - 1
  /\ play_x' = play_x + StepX(dir) /\ play_y' = play_y + StepY(dir)
  /\ after' = "tick"
  /\ \/ /\ Pans(dir)
        /\ set_view_window(show_x + StepX(dir), show_y + StepY(dir))
        /\ pc' = "line"
     \/ /\ ~Pans(dir)
        /\ pc' = "draw"
        /\ UNCHANGED view
  /\ UNCHANGED <<mazeVars, pageVars, level, dir, redraw, old_value_buf>>

\* The new line of a panned window.
DrawLine ==
  /\ pc = "line"
  /\ build' = CASE dir = 0 -> draw_horiz_line(Shown(build), 0, Pixels)
                [] dir = 1 -> draw_vert_line(Shown(build), SCROLL_X_DIM - 1, Pixels)
                [] dir = 2 -> draw_horiz_line(Shown(build), SCROLL_Y_DIM - 1, Pixels)
                [] OTHER   -> draw_vert_line(Shown(build), 0, Pixels)
  /\ pc' = "draw"
  /\ UNCHANGED <<mazeVars, show_x, show_y, img3_off, pageVars, level, playVars, callVars>>

NextLevel ==
  /\ pc = "next"
  /\ level < MAX_LEVEL
  /\ level' = level + 1
  /\ pc' = "prepare"
  /\ UNCHANGED <<mazeVars, view, pageVars, playVars, callVars>>

\* After the last level the thread ends.
Ended == pc = "next" /\ level = MAX_LEVEL /\ UNCHANGED vars

Init ==
  /\ maze_x_dim = 1 /\ maze_y_dim = 1
  /\ wall = {} /\ reach = {} /\ fruit = {} /\ n_fruits = 0 /\ exit = -1
  /\ gen = "made" /\ x = 1 /\ y = 1 /\ pref_dir = 0 /\ remaining = 0 /\ trials = 0
  /\ InitModeX
  /\ pc = "prepare" /\ level = 1
  /\ play_x = Start[1] /\ play_y = Start[2] /\ dir = DIR_STOP /\ move_cnt = 0
  /\ redraw = {} /\ old_value_buf = <<>> /\ after = "tick"

Next ==
  \/ Prepare \/ MakeMaze \/ SetView \/ DrawLines \/ Unveil \/ Redraw \/ Tick \/ Choose
  \/ DrawPlayer \/ ShowPlanes \/ ShowHigh \/ ShowLow \/ Move \/ DrawLine
  \/ NextLevel \/ Ended

\* make_maze runs on; and random() does not keep a worm from turning back for ever.
WormEnds == MakeMaze /\ EndWorm
Spec ==
  Init /\ [][Next]_vars /\ WF_vars(MakeMaze) /\ WF_vars(SetView) /\ SF_vars(WormEnds)

-----------------------------------------------------------------------------
(* Properties *)

\* What was drawn block by block and line by line, moved with the window and
\* restored from under the player is, in every frame, what drawing the whole
\* window from the maze would give; and it is within the build buffer, so that
\* its fences are left alone.
BuildShowsTheMaze ==
  pc \in {"choose", "move", "tick", "next"} =>
    \A p \in Window : LET c == Address(img3_off, p[1], p[2]) IN
      c \in Cells /\ build[c] = Pixel(p[1], p[2])

\* A frame copied to video memory has at every pixel of the screen the maze's
\* pixel there, or the player's; the whole player is on it, and nothing beyond
\* the maze.
FrameShowsPlayer ==
  pc = "copy" /\ after # "level" =>
    /\ Block(play_x, play_y) \subseteq Window
    /\ show_x >= SHOW_MIN /\ show_x + SCROLL_X_DIM <= (2 * maze_x_dim + 1) * BLOCK - SHOW_MIN
    /\ show_y >= SHOW_MIN /\ show_y + SCROLL_Y_DIM <= (2 * maze_y_dim + 1) * BLOCK - SHOW_MIN
    /\ \A s \in WindowAt(0, 0) :
         LET px == show_x + s[1]
             py == show_y + s[2]
         IN build[Source(s[1], s[2])] =
              IF <<px - play_x, py - play_y>> \in MASK
              THEN <<"player", {}, px - play_x, py - play_y>> ELSE Pixel(px, py)

\* A maze that is begun is finished, whatever random() gives.
LevelIsBuilt == (pc = "dig") ~> (pc = "lines")

=============================================================================
