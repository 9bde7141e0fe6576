------------------------------- MODULE MazeGame -------------------------------
(***************************************************************************)
(* The threads of the maze game (mazegame.c): rtc_thread moves the player   *)
(* once per tick, keyboard_thread and tux_thread choose next_dir, main      *)
(* joins them.  What is drawn is in MazeLevel; here a maze is its open      *)
(* squares, a fruit and an exit.                                            *)
(*                                                                         *)
(* mtx guards next_dir for the RTC and the keyboard thread.  tux_thread     *)
(* holds `lock', which no other thread takes: it reads buttons_pressed and  *)
(* writes next_dir between any two accesses of the others.  The program is  *)
(* built without optimisation, so each mention of next_dir is a read.       *)
(***************************************************************************)
EXTENDS Integers

CONSTANTS
  BLOCK,        \* pixels along a square (BLOCK_X_DIM and BLOCK_Y_DIM, 12)
  X_DIM, Y_DIM, \* the dimensions given to make_maze
  MAX_LEVEL,    \* 10
  MAX_TICKS,    \* the loop catches up with at most 8 missed ticks
  Layouts,      \* where make_maze may put the fruit and the exit
  Modes         \* what the user steers with: "keyboard", "button", "buttons"

ASSUME BlockAssumption == BLOCK \in Nat \ {0}
ASSUME DimAssumption == X_DIM \in Nat \ {0} /\ Y_DIM \in Nat \ {0}
ASSUME LevelAssumption == MAX_LEVEL \in Nat \ {0} /\ MAX_TICKS \in Nat \ {0}
ASSUME ModesAssumption == Modes \subseteq {"keyboard", "button", "buttons"}

Dirs     == {"up", "right", "down", "left"}
DIR_STOP == "stop"
NoButton == "none"

VARIABLES
  mode,                          \* chosen once
  held,                          \* the button the user holds on the controller
  quit_flag, winner, level,
  next_dir, dir, play_x, play_y, move_cnt,
  fruits, exit,                  \* of the level's maze
  buttons, buttons_pressed,
  rtc, ticks,                    \* rtc_thread: its next step, and its ticks left
  tux, tux_dir,                  \* tux_thread: its next step, its case of the switch
  keyboard, state, key,          \* keyboard_thread: step, escape state, last key
  main

player == <<play_x, play_y, move_cnt, dir>>
maze   == <<fruits, exit>>
user   == <<mode, held>>
tuxVars == <<tux, tux_dir>>
kbVars  == <<keyboard, state, key>>
vars == <<user, quit_flag, winner, level, next_dir, player, maze,
          buttons, buttons_pressed, rtc, ticks, tuxVars, kbVars, main>>

\* make_maze as committed (GOD_MODE): all inside the boundary is open.
Open    == (1 .. 2 * X_DIM - 1) \X (1 .. 2 * Y_DIM - 1)
Rooms   == {s \in Open : s[1] % 2 = 1 /\ s[2] % 2 = 1}
ASSUME LayoutsAssumption ==
  \A l \in Layouts : l.fruit \in Rooms /\ l.exit \in Rooms /\ l.fruit # l.exit

Dx(d) == CASE d = "right" -> 1 [] d = "left" -> -1 [] OTHER -> 0
Dy(d) == CASE d = "down"  -> 1 [] d = "up"   -> -1 [] OTHER -> 0
Opposite(d) == CASE d = "up" -> "down" [] d = "down" -> "up"
                 [] d = "left" -> "right" [] d = "right" -> "left" [] OTHER -> "none"

Square == <<play_x \div BLOCK, play_y \div BLOCK>>

\* find_open_directions at the player's square.  open[DIR_STOP] lies behind the
\* array: the value read is arbitrary.
OpenAt(d) == IF d = DIR_STOP THEN BOOLEAN
             ELSE {(<<Square[1] + Dx(d), Square[2] + Dy(d)>> \in Open)}

MtxHeld == rtc \in {"reverse", "square", "turn", "go"}

-----------------------------------------------------------------------------
(* The user *)

\* A button held in mode "button" stays down.
HoldButton ==
  /\ mode = "button" => held = NoButton
  /\ mode # "keyboard"
  /\ held' \in (IF mode = "button" THEN Dirs ELSE Dirs \cup {NoButton})
  /\ UNCHANGED <<mode, quit_flag, winner, level, next_dir, player, maze, buttons,
                 buttons_pressed, rtc, ticks, tuxVars, kbVars, main>>

-----------------------------------------------------------------------------
(* keyboard_thread *)

kbOthers == <<user, winner, level, player, maze, buttons, buttons_pressed, rtc,
              ticks, tuxVars, main>>

\* The bytes getc returns; standard input does not block, so it may be "eof" at
\* any time, between the bytes of an arrow key too.
Bytes == IF mode = "keyboard" THEN {"esc", "bracket", "backquote", "eof"} \cup Dirs
         ELSE {"backquote", "eof"}

AfterByte(b) ==
  CASE b = "esc"                      -> 1
    [] b = "bracket" /\ state = 1     -> 2
    [] OTHER                          -> 0

\* Fault: the thread runs until the user quits.
LoopEnds_never == FALSE

LoopEnds == winner = 1

GetKey(b) ==
  /\ keyboard = "getc"
  /\ \/ /\ LoopEnds
        /\ keyboard' = "done"
        /\ UNCHANGED <<state, key, quit_flag, next_dir>>
     \/ /\ ~LoopEnds /\ b = "backquote"
        /\ quit_flag' = 1
        /\ keyboard' = "done"
        /\ UNCHANGED <<state, key, next_dir>>
     \/ /\ ~LoopEnds /\ b # "backquote"
        /\ state' = IF b \in Dirs /\ state = 2 THEN 2 ELSE AfterByte(b)
        /\ key' = IF b \in Dirs /\ state = 2 THEN b ELSE key
        /\ keyboard' = IF b \in Dirs /\ state = 2 THEN "lock" ELSE "getc"
        /\ UNCHANGED <<quit_flag, next_dir>>
  /\ UNCHANGED kbOthers

SetByKey ==
  /\ keyboard = "lock"
  /\ ~MtxHeld
  /\ next_dir' = key
  /\ keyboard' = "getc"
  /\ state' = 0
  /\ UNCHANGED <<key, quit_flag>>
  /\ UNCHANGED kbOthers

keyboard_thread == (\E b \in Bytes : GetKey(b)) \/ SetByKey

\* What the thread does whether or not anything is typed.
KeyboardGoesOn == SetByKey \/ (LoopEnds /\ GetKey("eof"))

-----------------------------------------------------------------------------
(* tux_thread *)

tuxOthers == <<user, quit_flag, winner, level, player, maze, buttons, buttons_pressed,
               rtc, ticks, kbVars, main>>

TestPressed ==
  /\ tux = "test"
  /\ tux' = IF buttons_pressed = 1 THEN "switch" ELSE "sleep"
  /\ UNCHANGED <<next_dir, tux_dir, tuxOthers>>

\* pthread_cond_wait: a signal sent before this step is lost.
Sleep ==
  /\ tux = "sleep"
  /\ tux' = "waiting"
  /\ UNCHANGED <<next_dir, tux_dir, tuxOthers>>

Switch ==
  /\ tux = "switch"
  /\ tux_dir' = buttons
  /\ tux' = IF buttons \in Dirs THEN "write" ELSE "test"
  /\ UNCHANGED <<next_dir, tuxOthers>>

SetByButton ==
  /\ tux = "write"
  /\ next_dir' = tux_dir
  /\ tux' = "test"
  /\ UNCHANGED <<tux_dir, tuxOthers>>

tux_thread == main # "done" /\ (TestPressed \/ Sleep \/ Switch \/ SetByButton)

-----------------------------------------------------------------------------
(* rtc_thread *)

rtcOthers == <<user, quit_flag, tux_dir, kbVars, main>>

\* The head of the loop over levels, and what follows it.
StartLevel ==
  /\ rtc = "level"
  /\ \/ /\ level <= MAX_LEVEL /\ quit_flag = 0
        /\ play_x' = BLOCK /\ play_y' = BLOCK
        /\ move_cnt' = 0
        /\ dir' = DIR_STOP /\ next_dir' = DIR_STOP
        /\ \E l \in Layouts : fruits' = {l.fruit} /\ exit' = l.exit
        /\ rtc' = "read"
        /\ UNCHANGED winner
     \/ /\ level > MAX_LEVEL \/ quit_flag = 1
        /\ winner' = IF quit_flag = 0 THEN 1 ELSE winner
        /\ rtc' = "done"
        /\ UNCHANGED <<next_dir, player, maze>>
  /\ UNCHANGED <<level, buttons, buttons_pressed, ticks, tux, rtcOthers>>

\* The wait for a tick; several may have passed.
ReadTicks ==
  /\ rtc = "read"
  /\ \/ /\ quit_flag = 1
        /\ rtc' = "level" /\ level' = level + 1
        /\ UNCHANGED ticks
     \/ /\ quit_flag = 0
        /\ ticks' \in 1 .. MAX_TICKS
        /\ rtc' = "poll"
        /\ UNCHANGED level
  /\ UNCHANGED <<winner, next_dir, player, maze, buttons, buttons_pressed, tux, rtcOthers>>

\* ioctl(TUX_BUTTONS).
Poll ==
  /\ rtc = "poll"
  /\ buttons' = held
  /\ rtc' = "signal"
  /\ UNCHANGED <<winner, level, next_dir, player, maze, buttons_pressed, ticks, tux, rtcOthers>>

\* Fault: only a fresh press is signalled.
Woken_once == IF buttons # NoButton /\ buttons_pressed = 0 /\ tux = "waiting"
              THEN "test" ELSE tux

\* Who waits is woken in every tick a button is down.
Woken == IF buttons # NoButton /\ tux = "waiting" THEN "test" ELSE tux

Signal ==
  /\ rtc = "signal"
  /\ buttons_pressed' = IF buttons # NoButton THEN 1 ELSE 0
  /\ tux' = Woken
  /\ rtc' = "backwards"
  /\ UNCHANGED <<winner, level, next_dir, player, maze, buttons, ticks, rtcOthers>>

\* The test for a reversal, under mtx from here on.
TestBackwards ==
  /\ rtc = "backwards"
  /\ rtc' = IF next_dir = Opposite(dir) THEN "reverse" ELSE "square"
  /\ UNCHANGED <<winner, level, next_dir, player, maze, buttons, buttons_pressed, ticks, tux,
                 rtcOthers>>

\* Fault: the moves left are not turned round.
Remaining_kept == move_cnt

Remaining == IF move_cnt > 0 THEN BLOCK - move_cnt ELSE 0

\* The assignment reads next_dir again.
Reverse ==
  /\ rtc = "reverse"
  /\ move_cnt' = Remaining
  /\ dir' = next_dir
  /\ rtc' = "square"
  /\ UNCHANGED <<winner, level, next_dir, play_x, play_y, maze, buttons, buttons_pressed,
                 ticks, tux, rtcOthers>>

\* Fault: fruit need not be eaten.
Wins_hungry(left) == Square = exit

\* check_for_win
Wins(left) == left = {} /\ Square = exit

\* In a new square: unveil_around_player, then the test of open[next_dir].
NewSquare ==
  /\ rtc = "square"
  /\ \/ /\ move_cnt # 0
        /\ rtc' = "move"
        /\ UNCHANGED <<fruits, level, dir>>
     \/ /\ move_cnt = 0
        /\ fruits' = fruits \ {Square}
        /\ \/ /\ Wins(fruits')
              /\ rtc' = "level" /\ level' = level + 1
              /\ UNCHANGED dir
           \/ /\ ~Wins(fruits')
              /\ \E isOpen \in OpenAt(next_dir) :
                   rtc' = IF isOpen THEN "turn" ELSE "go"
              /\ UNCHANGED <<level, dir>>
  /\ UNCHANGED <<winner, next_dir, play_x, play_y, move_cnt, exit, buttons, buttons_pressed,
                 ticks, tux, rtcOthers>>

\* The rest of the square: a wall ahead stops the player.
Go(d) ==
  /\ dir' = IF d \in Dirs /\ TRUE \in OpenAt(d) THEN d ELSE DIR_STOP
  /\ move_cnt' = IF d \in Dirs /\ TRUE \in OpenAt(d) THEN BLOCK ELSE move_cnt
  /\ rtc' = "move"

Turn ==
  /\ \/ rtc = "turn" /\ Go(next_dir)
     \/ rtc = "go"   /\ Go(dir)
  /\ UNCHANGED <<winner, level, next_dir, play_x, play_y, maze, buttons, buttons_pressed,
                 ticks, tux, rtcOthers>>

\* move_up, move_right, move_down, move_left, and the end of a tick.
Move ==
  /\ rtc = "move"
  /\ play_x' = play_x + Dx(dir)
  /\ play_y' = play_y + Dy(dir)
  /\ move_cnt' = IF dir = DIR_STOP THEN move_cnt ELSE move_cnt - 1
  /\ ticks' = ticks - 1
  /\ rtc' = IF ticks = 1 THEN "read" ELSE "poll"
  /\ UNCHANGED <<winner, level, next_dir, dir, maze, buttons, buttons_pressed, tux, rtcOthers>>

rtc_thread == \/ StartLevel \/ ReadTicks \/ Poll \/ Signal
              \/ TestBackwards \/ Reverse \/ NewSquare \/ Turn \/ Move

-----------------------------------------------------------------------------
\* main: both joins, the cancelling of tux_thread, and the outcome printed.
Join ==
  /\ main = "join" /\ rtc = "done" /\ keyboard = "done"
  /\ main' = "done"
  /\ UNCHANGED <<user, quit_flag, winner, level, next_dir, player, maze, buttons,
                 buttons_pressed, rtc, ticks, tuxVars, kbVars>>

Init ==
  /\ mode \in Modes
  /\ held = NoButton
  /\ quit_flag = 0 /\ winner = 0 /\ level = 1
  /\ next_dir = DIR_STOP /\ dir = DIR_STOP
  /\ play_x = BLOCK /\ play_y = BLOCK /\ move_cnt = 0
  /\ fruits = {} /\ exit = <<1, 1>>
  /\ buttons = NoButton /\ buttons_pressed = 0
  /\ rtc = "level" /\ ticks = 0
  /\ tux = "test" /\ tux_dir = NoButton
  /\ keyboard = "getc" /\ state = 0 /\ key = NoButton
  /\ main = "join"

Next == HoldButton \/ keyboard_thread \/ tux_thread \/ rtc_thread \/ Join

\* Threads are scheduled and the clock ticks; the mutex need not be fair, and
\* nobody need type.
Spec == /\ Init /\ [][Next]_vars
        /\ WF_vars(KeyboardGoesOn) /\ WF_vars(tux_thread)
        /\ WF_vars(rtc_thread) /\ WF_vars(Join)

-----------------------------------------------------------------------------
(* Properties *)

\* move_up and its likes assume "a legal move": the player stands on an open
\* square, or is move_cnt pixels away from one, straight ahead, having left
\* another; a reversal at any pixel, a key, button or level change between any
\* two steps keep it so.
Aligned(x, y) == x % BLOCK = 0 /\ y % BLOCK = 0
SquareOf(x, y) == <<x \div BLOCK, y \div BLOCK>>

MovesAreLegal ==
  LET tx == play_x + move_cnt * Dx(dir)
      ty == play_y + move_cnt * Dy(dir)
      fx == tx - BLOCK * Dx(dir)
      fy == ty - BLOCK * Dy(dir)
  IN
  /\ move_cnt \in 0 .. BLOCK
  /\ Aligned(tx, ty) /\ SquareOf(tx, ty) \in Open
  /\ move_cnt > 0 => SquareOf(fx, fy) \in Open

\* A held button becomes the direction, though the signal of a press may come
\* before tux_thread waits for it.
HeldButtonSteers ==
  (mode = "button" /\ held # NoButton) ~> (next_dir = held \/ rtc = "done")

\* A quit, or a win of the last level, ends every thread and the program.
GameEnds == (quit_flag = 1 \/ winner = 1) ~> (main = "done")

\* Who is congratulated has eaten the fruit of every level.
WinnerHasWon == winner = 1 => level = MAX_LEVEL + 1 /\ fruits = {} /\ Square = exit

=============================================================================
