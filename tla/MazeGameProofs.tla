---------------------------- MODULE MazeGameProofs ----------------------------
(***************************************************************************)
(* Proofs about MazeGame, for squares and mazes of every size and any       *)
(* number of levels.                                                        *)
(*                                                                         *)
(* That a move is legal holds because a reversal's test and its assignment  *)
(* read the same next_dir.  The mutex sees to it for the keyboard; for the  *)
(* controller only that one button is held: with several, tux_thread may    *)
(* write between the two reads, and the theorem fails (run maze_race).      *)
(***************************************************************************)
EXTENDS MazeGame, TLAPS

OnGrid(x, y) == Aligned(x, y) /\ SquareOf(x, y) \in Open

\* Where the moves left lead, and where they started if there are any.
Legal(x, y, m, d) ==
  /\ OnGrid(x + m * Dx(d), y + m * Dy(d))
  /\ m > 0 => OnGrid((x + m * Dx(d)) - BLOCK * Dx(d), (y + m * Dy(d)) - BLOCK * Dy(d))

TypeInv ==
  /\ play_x \in Int /\ play_y \in Int /\ move_cnt \in 0..BLOCK
  /\ dir \in Dirs \cup {DIR_STOP} /\ next_dir \in Dirs \cup {DIR_STOP}
  /\ mode \in Modes
  /\ held \in Dirs \cup {NoButton} /\ buttons \in Dirs \cup {NoButton}
  /\ keyboard = "lock" => key \in Dirs
  /\ tux = "write" => tux_dir \in Dirs

\* Who may write next_dir, and what.
SteerInv ==
  /\ mode = "keyboard" => buttons = NoButton /\ held = NoButton /\ tux # "write"
  /\ mode = "button" => /\ buttons \in {NoButton, held}
                        /\ tux = "write" => tux_dir = held
                        /\ next_dir \in {DIR_STOP, held}
                        /\ keyboard # "lock"

MoveInv ==
  /\ Legal(play_x, play_y, move_cnt, dir)
  /\ dir = DIR_STOP => move_cnt = 0
  /\ rtc = "reverse" => next_dir = Opposite(dir)
  /\ rtc \in {"turn", "go"} => move_cnt = 0
  /\ rtc = "move" /\ dir \in Dirs => move_cnt > 0

IInv == TypeInv /\ SteerInv /\ MoveInv

\* The levels left behind were won unless the user quit.
WinInv ==
  /\ level \in 1..(MAX_LEVEL + 1)
  /\ rtc \notin {"level", "done"} => level <= MAX_LEVEL
  /\ rtc = "level" /\ quit_flag = 0 => level = 1 \/ (fruits = {} /\ Square = exit)
  /\ winner = 1 => rtc = "done" /\ level = MAX_LEVEL + 1 /\ fruits = {} /\ Square = exit

-----------------------------------------------------------------------------
(* The grid *)

LEMMA DxDy ==
  /\ \A d : Dx(d) \in {-1, 0, 1} /\ Dy(d) \in {-1, 0, 1}
  /\ Dx(DIR_STOP) = 0 /\ Dy(DIR_STOP) = 0
  /\ \A d \in Dirs : /\ Opposite(d) \in Dirs
                     /\ Dx(Opposite(d)) + Dx(d) = 0 /\ Dy(Opposite(d)) + Dy(d) = 0
  /\ Opposite(DIR_STOP) = "none"
<1>1. /\ \A d : Dx(d) \in {-1, 0, 1} /\ Dy(d) \in {-1, 0, 1}
      /\ Dx(DIR_STOP) = 0 /\ Dy(DIR_STOP) = 0
      /\ Opposite(DIR_STOP) = "none"
  BY DEF Dx, Dy, DIR_STOP, Opposite
<1>2. /\ Opposite("up") = "down" /\ Opposite("down") = "up"
      /\ Opposite("left") = "right" /\ Opposite("right") = "left"
  BY DEF Opposite
<1>3. /\ Dx("up") = 0 /\ Dx("down") = 0 /\ Dx("left") = -1 /\ Dx("right") = 1
      /\ Dy("up") = -1 /\ Dy("down") = 1 /\ Dy("left") = 0 /\ Dy("right") = 0
  BY DEF Dx, Dy
<1>4. 0 + 0 = 0 /\ (-1) + 1 = 0 /\ 1 + (-1) = 0
  OBVIOUS
<1> QED
  BY <1>1, <1>2, <1>3, <1>4 DEF Dirs

LEMMA BlockMultiple ==
  ASSUME NEW B \in Nat \ {0}, NEW a \in Int
  PROVE  (B * a) % B = 0 /\ (B * a) \div B = a /\ B * a \in Int
OBVIOUS

LEMMA BlockDivides ==
  ASSUME NEW B \in Nat \ {0}, NEW x \in Int, x % B = 0
  PROVE  x \div B \in Int /\ x = B * (x \div B)
OBVIOUS

LEMMA BlockStep ==
  ASSUME NEW B \in Nat \ {0}, NEW a \in Int, NEW e \in {-1, 0, 1}
  PROVE  B * a + B * e = B * (a + e) /\ a + e \in Int
OBVIOUS

\* From one square to the next.
LEMMA OneSquareOn ==
  ASSUME NEW x \in Int, x % BLOCK = 0, NEW e \in {-1, 0, 1}
  PROVE  (x + BLOCK * e) % BLOCK = 0 /\ (x + BLOCK * e) \div BLOCK = x \div BLOCK + e
<1> DEFINE a == x \div BLOCK
<1>1. a \in Int /\ x = BLOCK * a
  BY BlockDivides, BlockAssumption
<1> HIDE DEF a
<1>2. x + BLOCK * e = BLOCK * (a + e) /\ a + e \in Int
  BY <1>1, BlockStep, BlockAssumption
<1>3. (BLOCK * (a + e)) % BLOCK = 0 /\ (BLOCK * (a + e)) \div BLOCK = a + e
  BY <1>2, BlockMultiple, BlockAssumption
<1> QED
  BY <1>2, <1>3 DEF a

LEMMA StartIsOnGrid == OnGrid(BLOCK, BLOCK)
<1>1. BLOCK % BLOCK = 0 /\ BLOCK \div BLOCK = 1
  BY BlockAssumption
<1>2. 1 \in 1 .. 2 * X_DIM - 1 /\ 1 \in 1 .. 2 * Y_DIM - 1
  BY DimAssumption
<1> QED
  BY <1>1, <1>2 DEF OnGrid, Aligned, SquareOf, Open

LEMMA StandingIsLegal ==
  ASSUME NEW x \in Int, NEW y \in Int, NEW d, OnGrid(x, y)
  PROVE  Legal(x, y, 0, d)
<1>1. \A e \in {-1, 0, 1} : x + 0 * e = x /\ y + 0 * e = y
  OBVIOUS
<1> QED
  BY <1>1, DxDy DEF Legal

\* A player on a square may set out to an open neighbour.
LEMMA SettingOutIsLegal ==
  ASSUME NEW x \in Int, NEW y \in Int, OnGrid(x, y), NEW d,
         <<x \div BLOCK + Dx(d), y \div BLOCK + Dy(d)>> \in Open
  PROVE  Legal(x, y, BLOCK, d)
<1>1. /\ (x + BLOCK * Dx(d)) % BLOCK = 0
      /\ (x + BLOCK * Dx(d)) \div BLOCK = x \div BLOCK + Dx(d)
      /\ (y + BLOCK * Dy(d)) % BLOCK = 0
      /\ (y + BLOCK * Dy(d)) \div BLOCK = y \div BLOCK + Dy(d)
  BY OneSquareOn, DxDy DEF OnGrid, Aligned
<1>2. OnGrid(x + BLOCK * Dx(d), y + BLOCK * Dy(d))
  BY <1>1 DEF OnGrid, Aligned, SquareOf
<1>3. \A e \in {-1, 0, 1} : (x + BLOCK * e) - BLOCK * e = x /\ (y + BLOCK * e) - BLOCK * e = y
  BY BlockAssumption
<1> QED
  BY <1>2, <1>3, DxDy DEF Legal

\* A pixel nearer.
LEMMA MovingIsLegal ==
  ASSUME NEW x \in Int, NEW y \in Int, NEW m \in Nat, m > 0, NEW d, Legal(x, y, m, d)
  PROVE  Legal(x + Dx(d), y + Dy(d), m - 1, d)
<1>1. ASSUME NEW z \in Int, NEW e \in {-1, 0, 1}
      PROVE  z + e + (m - 1) * e = z + m * e
  <2>1. (m - 1) * e = m * e - e /\ m * e \in Int /\ e \in Int
    OBVIOUS
  <2> QED
    BY <2>1
<1>2. /\ x + Dx(d) + (m - 1) * Dx(d) = x + m * Dx(d)
      /\ y + Dy(d) + (m - 1) * Dy(d) = y + m * Dy(d)
  <2>1. Dx(d) \in {-1, 0, 1} /\ Dy(d) \in {-1, 0, 1}
    BY DxDy
  <2> QED
    BY <1>1, <2>1, Zenon
<1>3. /\ OnGrid(x + m * Dx(d), y + m * Dy(d))
      /\ OnGrid((x + m * Dx(d)) - BLOCK * Dx(d), (y + m * Dy(d)) - BLOCK * Dy(d))
  BY Zenon DEF Legal
<1> QED
  BY <1>2, <1>3, Zenon DEF Legal

\* A reversal exchanges the squares it is between.
LEMMA ReversingIsLegal ==
  ASSUME NEW x \in Int, NEW y \in Int, NEW m \in 0..BLOCK, NEW d \in Dirs,
         Legal(x, y, m, d)
  PROVE  Legal(x, y, IF m > 0 THEN BLOCK - m ELSE 0, Opposite(d))
<1>1. CASE m > 0
  <2>1. \A z \in Int, e \in {-1, 0, 1}, f \in {-1, 0, 1} : f + e = 0 =>
          /\ z + (BLOCK - m) * f = (z + m * e) - BLOCK * e
          /\ (z + (BLOCK - m) * f) - BLOCK * f = z + m * e
    BY BlockAssumption
  <2>2. /\ x + (BLOCK - m) * Dx(Opposite(d)) = (x + m * Dx(d)) - BLOCK * Dx(d)
        /\ (x + (BLOCK - m) * Dx(Opposite(d))) - BLOCK * Dx(Opposite(d)) = x + m * Dx(d)
    BY <2>1, DxDy
  <2>3. /\ y + (BLOCK - m) * Dy(Opposite(d)) = (y + m * Dy(d)) - BLOCK * Dy(d)
        /\ (y + (BLOCK - m) * Dy(Opposite(d))) - BLOCK * Dy(Opposite(d)) = y + m * Dy(d)
    BY <2>1, DxDy
  <2> QED
    BY <1>1, <2>2, <2>3 DEF Legal
<1>2. CASE ~(m > 0)
  <2>1. m = 0 /\ \A z \in Int, e \in {-1, 0, 1} : z + m * e = z
    BY <1>2
  <2>2. OnGrid(x, y)
    BY <2>1, DxDy DEF Legal
  <2> QED
    BY <1>2, <2>2, StandingIsLegal
<1> QED
  BY <1>1, <1>2

-----------------------------------------------------------------------------
(* Steps of the others *)

LEMMA OthersKeepInvariant ==
  ASSUME "buttons" \notin Modes, IInv, HoldButton \/ keyboard_thread \/ tux_thread \/ Join
  PROVE  IInv'
<1>1. mode = "keyboard" \/ mode = "button"
  BY ModesAssumption DEF IInv, TypeInv
<1>2. CASE HoldButton \/ Join
  BY <1>1, <1>2 DEF HoldButton, Join, IInv, TypeInv, SteerInv, MoveInv, NoButton, Dirs,
     DIR_STOP, player, maze, tuxVars, kbVars, user
<1>3. CASE keyboard_thread
  <2>1. UNCHANGED <<mode, held, play_x, play_y, move_cnt, dir, buttons, rtc, tux, tux_dir>>
    BY <1>3 DEF keyboard_thread, GetKey, SetByKey, kbOthers, user, player, tuxVars
  <2>2. CASE SetByKey
    BY <2>1, <2>2 DEF SetByKey, MtxHeld, IInv, TypeInv, SteerInv, MoveInv
  <2>3. CASE \E b \in Bytes : GetKey(b)
    <3>1. UNCHANGED next_dir
      BY <2>3 DEF GetKey
    <3>2. keyboard' = "lock" => key' \in Dirs /\ mode = "keyboard"
      BY <2>3, <1>1 DEF GetKey, Bytes, Dirs
    <3> QED
      BY <1>1, <2>1, <3>1, <3>2 DEF IInv, TypeInv, SteerInv, MoveInv
  <2> QED
    BY <1>3, <2>2, <2>3 DEF keyboard_thread
<1>4. CASE tux_thread
  <2>1. UNCHANGED <<mode, held, play_x, play_y, move_cnt, dir, buttons, rtc, keyboard, key>>
    BY <1>4 DEF tux_thread, TestPressed, Sleep, Switch, SetByButton, tuxOthers, user,
       player, kbVars
  <2>2. CASE TestPressed \/ Sleep
    BY <2>1, <2>2 DEF TestPressed, Sleep, IInv, TypeInv, SteerInv, MoveInv
  <2>3. CASE Switch
    BY <1>1, <2>1, <2>3 DEF Switch, IInv, TypeInv, SteerInv, MoveInv, NoButton, Dirs
  <2>4. CASE SetByButton
    <3>1. /\ mode = "button" /\ next_dir' = held /\ held \in Dirs
          /\ tux' = "test" /\ UNCHANGED tux_dir
      BY <1>1, <2>4 DEF SetByButton, IInv, TypeInv, SteerInv
    <3>2. rtc = "reverse" => next_dir' = next_dir
      BY <3>1, DxDy DEF IInv, TypeInv, SteerInv, MoveInv, DIR_STOP, Dirs
    <3> QED
      BY <2>1, <3>1, <3>2 DEF IInv, TypeInv, SteerInv, MoveInv
  <2> QED
    BY <1>4, <2>2, <2>3, <2>4 DEF tux_thread
<1> QED
  BY <1>2, <1>3, <1>4

-----------------------------------------------------------------------------
(* rtc_thread *)

LEMMA StartKeepsInvariant ==
  ASSUME IInv, StartLevel
  PROVE  IInv'
<1>1. UNCHANGED <<mode, held, buttons, tux, tux_dir, keyboard, key>>
  BY DEF StartLevel, rtcOthers, user, kbVars
<1>2. CASE /\ play_x' = BLOCK /\ play_y' = BLOCK /\ move_cnt' = 0
           /\ dir' = DIR_STOP /\ next_dir' = DIR_STOP /\ rtc' = "read"
  <2>1. Legal(BLOCK, BLOCK, 0, DIR_STOP)
    BY StartIsOnGrid, StandingIsLegal, BlockAssumption
  <2>2. 0 \in 0..BLOCK /\ BLOCK \in Int
    BY BlockAssumption
  <2> QED
    BY <1>1, <1>2, <2>1, <2>2 DEF IInv, TypeInv, SteerInv, MoveInv
<1>3. CASE UNCHANGED <<next_dir, player>> /\ rtc' = "done"
  BY <1>1, <1>3 DEF player, IInv, TypeInv, SteerInv, MoveInv
<1> QED
  BY <1>2, <1>3 DEF StartLevel

LEMMA TickKeepsInvariant ==
  ASSUME "buttons" \notin Modes, IInv, ReadTicks \/ Poll \/ Signal \/ TestBackwards \/ NewSquare
  PROVE  IInv'
<1>1. mode = "keyboard" \/ mode = "button"
  BY ModesAssumption DEF IInv, TypeInv
<1>2. UNCHANGED <<mode, held, play_x, play_y, move_cnt, dir, next_dir, tux_dir, keyboard, key>>
  BY DEF ReadTicks, Poll, Signal, TestBackwards, NewSquare, rtcOthers, user, player, kbVars
<1>3. buttons' \in {buttons, held} /\ (tux' = "write" => tux = "write")
  BY DEF ReadTicks, Poll, Signal, TestBackwards, NewSquare, Woken
<1>4. /\ rtc' = "reverse" => next_dir = Opposite(dir)
      /\ rtc' \in {"turn", "go"} => move_cnt = 0
      /\ rtc' = "move" => move_cnt > 0
  BY BlockAssumption
  DEF ReadTicks, Poll, Signal, TestBackwards, NewSquare, IInv, TypeInv
<1> QED
  BY <1>1, <1>2, <1>3, <1>4 DEF IInv, TypeInv, SteerInv, MoveInv

LEMMA ReverseKeepsInvariant ==
  ASSUME IInv, Reverse
  PROVE  IInv'
<1>1. /\ UNCHANGED <<mode, held, buttons, tux, tux_dir, keyboard, key, next_dir,
                     play_x, play_y>>
      /\ move_cnt' = Remaining /\ dir' = next_dir /\ rtc' = "square"
      /\ next_dir = Opposite(dir)
  BY DEF Reverse, rtcOthers, user, kbVars, IInv, MoveInv
<1>2. dir \in Dirs /\ dir' \in Dirs
  BY <1>1, DxDy DEF IInv, TypeInv, DIR_STOP, Dirs
<1>3. Legal(play_x, play_y, Remaining, Opposite(dir))
  BY <1>2, ReversingIsLegal DEF Remaining, IInv, TypeInv, MoveInv
<1>4. Remaining \in 0..BLOCK
  BY BlockAssumption DEF Remaining, IInv, TypeInv
<1> QED
  BY <1>1, <1>2, <1>3, <1>4 DEF IInv, TypeInv, SteerInv, MoveInv, DIR_STOP, Dirs

LEMMA TurnKeepsInvariant ==
  ASSUME IInv, Turn
  PROVE  IInv'
<1>1. /\ UNCHANGED <<mode, held, buttons, tux, tux_dir, keyboard, key, next_dir,
                     play_x, play_y>>
      /\ move_cnt = 0 /\ rtc' = "move"
      /\ play_x \in Int /\ play_y \in Int
  BY DEF Turn, Go, rtcOthers, user, kbVars, IInv, TypeInv, MoveInv
<1>2. PICK d : Go(d)
  BY DEF Turn
<1>3. OnGrid(play_x, play_y)
  <2>1. \A z \in Int, e \in {-1, 0, 1} : z + 0 * e = z
    OBVIOUS
  <2> QED
    BY <1>1, <2>1, DxDy DEF IInv, MoveInv, Legal
<1>4. CASE d \in Dirs /\ TRUE \in OpenAt(d)
  <2>1. <<play_x \div BLOCK + Dx(d), play_y \div BLOCK + Dy(d)>> \in Open
    BY <1>4 DEF OpenAt, Square, Dirs, DIR_STOP
  <2>2. Legal(play_x, play_y, BLOCK, d)
    BY <1>1, <1>3, <2>1, SettingOutIsLegal
  <2>3. dir' = d /\ move_cnt' = BLOCK /\ BLOCK \in 0..BLOCK /\ BLOCK > 0
    BY <1>2, <1>4, BlockAssumption DEF Go
  <2> QED
    BY <1>1, <1>4, <2>2, <2>3 DEF IInv, TypeInv, SteerInv, MoveInv, Dirs, DIR_STOP
<1>5. CASE ~(d \in Dirs /\ TRUE \in OpenAt(d))
  <2>1. dir' = DIR_STOP /\ move_cnt' = 0
    BY <1>1, <1>2, <1>5 DEF Go
  <2>2. Legal(play_x, play_y, 0, DIR_STOP)
    BY <1>1, <1>3, StandingIsLegal
  <2> QED
    BY <1>1, <2>1, <2>2 DEF IInv, TypeInv, SteerInv, MoveInv, Dirs, DIR_STOP
<1> QED
  BY <1>4, <1>5

LEMMA MoveKeepsInvariant ==
  ASSUME IInv, Move
  PROVE  IInv'
<1>1. /\ UNCHANGED <<mode, held, buttons, tux, tux_dir, keyboard, key, next_dir, dir>>
      /\ play_x' = play_x + Dx(dir) /\ play_y' = play_y + Dy(dir)
      /\ rtc = "move" /\ rtc' \in {"read", "poll"}
      /\ play_x \in Int /\ play_y \in Int /\ move_cnt \in 0..BLOCK
  BY DEF Move, rtcOthers, user, kbVars, IInv, TypeInv
<1>2. play_x' \in Int /\ play_y' \in Int
  BY <1>1, DxDy
<1>3. CASE dir = DIR_STOP
  <2>1. /\ play_x' = play_x /\ play_y' = play_y /\ move_cnt' = move_cnt
    BY <1>1, <1>3, DxDy DEF Move
  <2> QED
    BY <1>1, <2>1 DEF IInv, TypeInv, SteerInv, MoveInv
<1>4. CASE dir # DIR_STOP
  <2>1. move_cnt > 0 /\ move_cnt' = move_cnt - 1
    BY <1>1, <1>4 DEF Move, IInv, TypeInv, MoveInv
  <2>2. Legal(play_x', play_y', move_cnt', dir)
    BY <1>1, <2>1, MovingIsLegal DEF IInv, MoveInv
  <2>3. move_cnt' \in 0..BLOCK
    BY <1>1, <2>1, BlockAssumption
  <2> QED
    BY <1>1, <1>2, <1>4, <2>2, <2>3 DEF IInv, TypeInv, SteerInv, MoveInv
<1> QED
  BY <1>3, <1>4

-----------------------------------------------------------------------------
(* Legal moves *)

LEMMA InitEstablishesInvariant == Init => IInv
<1> SUFFICES ASSUME Init PROVE IInv
  OBVIOUS
<1>1. Legal(BLOCK, BLOCK, 0, DIR_STOP) /\ 0 \in 0..BLOCK /\ BLOCK \in Int
  BY StartIsOnGrid, StandingIsLegal, BlockAssumption
<1> QED
  BY <1>1 DEF Init, IInv, TypeInv, SteerInv, MoveInv

LEMMA NextKeepsInvariant == "buttons" \notin Modes /\ IInv /\ [Next]_vars => IInv'
<1> SUFFICES ASSUME "buttons" \notin Modes, IInv, [Next]_vars PROVE IInv'
  OBVIOUS
<1>1. CASE UNCHANGED vars
  BY <1>1 DEF vars, user, player, maze, tuxVars, kbVars, IInv, TypeInv, SteerInv, MoveInv
<1> QED
  BY <1>1, OthersKeepInvariant, StartKeepsInvariant, TickKeepsInvariant,
     ReverseKeepsInvariant, TurnKeepsInvariant, MoveKeepsInvariant
  DEF Next, rtc_thread

\* Steered by keys, or by one held button, the player never leaves the open
\* squares, whatever threads do between any two reads of next_dir.
THEOREM EveryMoveIsLegal ==
  ASSUME "buttons" \notin Modes
  PROVE  Spec => []MovesAreLegal
<1>1. Init => IInv
  BY InitEstablishesInvariant
<1>2. IInv /\ [Next]_vars => IInv'
  BY NextKeepsInvariant
<1>3. IInv => MovesAreLegal
  <2> DEFINE atX == play_x + move_cnt * Dx(dir)
             atY == play_y + move_cnt * Dy(dir)
             fromX == atX - BLOCK * Dx(dir)
             fromY == atY - BLOCK * Dy(dir)
  <2>1. MovesAreLegal <=> /\ move_cnt \in 0 .. BLOCK
                          /\ Aligned(atX, atY) /\ SquareOf(atX, atY) \in Open
                          /\ move_cnt > 0 => SquareOf(fromX, fromY) \in Open
    BY DEF MovesAreLegal
  <2>2. MoveInv => OnGrid(atX, atY) /\ (move_cnt > 0 => OnGrid(fromX, fromY))
    BY Zenon DEF MoveInv, Legal
  <2> HIDE DEF atX, atY, fromX, fromY
  <2> QED
    BY <2>1, <2>2 DEF IInv, TypeInv, OnGrid
<1> QED
  BY <1>1, <1>2, <1>3, PTL DEF Spec

-----------------------------------------------------------------------------
(* Winning *)

LEMMA NextKeepsWins == WinInv /\ [Next]_vars => WinInv'
<1> SUFFICES ASSUME WinInv, [Next]_vars PROVE WinInv'
  OBVIOUS
<1>1. CASE HoldButton \/ keyboard_thread \/ tux_thread \/ Join \/ UNCHANGED vars
  <2>1. /\ UNCHANGED <<winner, level, play_x, play_y, fruits, exit, rtc>>
        /\ quit_flag' = 0 => quit_flag = 0
    BY <1>1 DEF HoldButton, keyboard_thread, GetKey, SetByKey, kbOthers, tux_thread,
       TestPressed, Sleep, Switch, SetByButton, tuxOthers, Join, vars, user, player, maze,
       tuxVars, kbVars
  <2> QED
    BY <2>1 DEF WinInv, Square
<1>2. CASE StartLevel
  BY <1>2, LevelAssumption DEF StartLevel, WinInv, Square, rtcOthers, player, maze
<1>3. CASE ReadTicks
  BY <1>3, LevelAssumption DEF ReadTicks, WinInv, Square, rtcOthers, player, maze
<1>4. CASE NewSquare
  <2>1. /\ rtc = "square" /\ level <= MAX_LEVEL /\ level \in 1..(MAX_LEVEL + 1)
        /\ winner # 1 /\ UNCHANGED <<winner, play_x, play_y, exit, quit_flag>>
    BY <1>4 DEF NewSquare, WinInv, rtcOthers
  <2>2. CASE Wins(fruits') /\ rtc' = "level" /\ level' = level + 1
    BY <2>1, <2>2, LevelAssumption DEF Wins, WinInv, Square
  <2>3. CASE UNCHANGED level /\ rtc' \in {"move", "turn", "go"}
    BY <2>1, <2>3 DEF WinInv
  <2> QED
    BY <1>4, <2>2, <2>3 DEF NewSquare
<1>5. CASE Poll \/ Signal \/ TestBackwards \/ Reverse \/ Turn \/ Move
  <2>1. /\ UNCHANGED <<winner, level, quit_flag>> /\ rtc \notin {"level", "done"}
        /\ rtc' \notin {"level", "done"}
    BY <1>5 DEF Poll, Signal, TestBackwards, Reverse, Turn, Go, Move, rtcOthers
  <2> QED
    BY <2>1 DEF WinInv
<1> QED
  BY <1>1, <1>2, <1>3, <1>4, <1>5 DEF Next, rtc_thread

\* Nobody is congratulated who has not won every level, whatever quitting,
\* catching up of ticks and steering come in between.
THEOREM WinnersHaveWon == Spec => []WinnerHasWon
<1>1. Init => WinInv
  BY LevelAssumption DEF Init, WinInv
<1>2. WinInv /\ [Next]_vars => WinInv'
  BY NextKeepsWins
<1>3. WinInv => WinnerHasWon
  BY DEF WinInv, WinnerHasWon
<1> QED
  BY <1>1, <1>2, <1>3, PTL DEF Spec

=============================================================================
