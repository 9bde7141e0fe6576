---------------------------- MODULE MazeLevelProofs ----------------------------
(***************************************************************************)
(* Proofs about Maze, ModeX and MazeLevel, for blocks, windows, build       *)
(* buffers and mazes of every size that WindowAssumption allows.            *)
(*                                                                         *)
(* The argument: two pixels of a window never share a cell of the build     *)
(* buffer, and the window is always within it; so what is drawn for some    *)
(* pixels leaves the others alone.  The images that unveiling changes are   *)
(* those of the squares that are redrawn: the one that shares its array     *)
(* element with an unveiled square, at the other side of the maze, is       *)
(* outside the window, which follows the player.                            *)
(***************************************************************************)
EXTENDS MazeLevel, FiniteSetTheorems, FunctionTheorems, TLAPS

Furnished == pc \notin {"prepare", "dig"}
Playing   == pc \notin {"prepare", "dig", "lines"}

\* The walls at the boundary stand.
BoundaryStands ==
  \A a \in 0 .. 2 * maze_x_dim, b \in 0 .. 2 * maze_y_dim :
    ~Inside(a, b) => MAZE_INDEX(a, b) \in wall

MazeInv ==
  /\ maze_x_dim \in Nat \ {0} /\ maze_y_dim \in Nat \ {0}
  /\ level \in Nat \ {0}
  /\ x \in Odd(2 * maze_x_dim) /\ y \in Odd(2 * maze_y_dim)
  /\ pc # "prepare" => /\ maze_x_dim >= MAZE_MIN_X_DIM
                       /\ maze_y_dim >= MAZE_MIN_Y_DIM
                       /\ BoundaryStands
  /\ Furnished => /\ fruit \subseteq Rooms /\ n_fruits = Cardinality(fruit)
                  /\ exit \in Rooms

\* What make_maze has reached can be reached, and is counted.
SearchInv ==
  /\ gen \in {"drop", "worm", "connect", "furnish"} => pc = "dig"
  /\ remaining \in Int
  /\ gen \in {"connect", "furnish"} =>
       /\ reach \subseteq mark_maze_area(<<1, 1>>, wall, {})
       /\ remaining = maze_x_dim * maze_y_dim - Cardinality(reach)
  /\ gen = "furnish" => remaining <= 0

Width  == (2 * maze_x_dim + 1) * BLOCK
Height == (2 * maze_y_dim + 1) * BLOCK

ViewInv ==
  /\ show_x \in Nat /\ show_y \in Nat /\ img3_off \in Int
  /\ Furnished => /\ Fits(show_x, show_y)
                  /\ SHOW_MIN <= show_x /\ show_x + SCROLL_X_DIM <= Width - SHOW_MIN
                  /\ SHOW_MIN <= show_y /\ show_y + SCROLL_Y_DIM <= Height - SHOW_MIN
  /\ pc = "lines" => show_x = SHOW_MIN /\ show_y = SHOW_MIN

\* Where the moves left lead, and where they started if there are any.
OnGrid(px, py) ==
  px % BLOCK = 0 /\ py % BLOCK = 0 /\ Inside(px \div BLOCK, py \div BLOCK)

Legal(px, py, m, d) ==
  /\ OnGrid(px + m * StepX(d), py + m * StepY(d))
  /\ m > 0 => OnGrid((px + m * StepX(d)) - BLOCK * StepX(d), (py + m * StepY(d)) - BLOCK * StepY(d))

PlayerInv ==
  /\ play_x \in Int /\ play_y \in Int /\ dir \in 0 .. 4 /\ move_cnt \in 0 .. BLOCK
  /\ after \in {"tick", "move", "level"}
  /\ Playing => /\ Legal(play_x, play_y, move_cnt, dir)
                /\ dir = DIR_STOP => move_cnt = 0
                /\ pc = "tick" \/ after = "tick" => move_cnt < BLOCK
  /\ pc \in {"unveil", "redraw", "choose"} => move_cnt = 0
  /\ pc = "move" => dir # DIR_STOP /\ move_cnt > 0
  /\ pc \in {"draw", "copy", "high", "low"} /\ after = "move" /\ dir # DIR_STOP => move_cnt > 0
  /\ pc \in {"unveil", "line"} => after = "tick"
  /\ pc = "choose" => after = "move"
  /\ pc \in {"redraw", "draw", "tick"} => after # "level"

\* Along one axis: the player is in the window, and no nearer to a border of it
\* than PAN_BORDER blocks unless the window is too narrow or at the maze's end.
Follows(show, play, dim, size) ==
  /\ show <= play /\ play + BLOCK <= show + dim
  /\ \/ play <= show + dim - BLOCK * (PAN_BORDER + 1)
     \/ play <= show + BLOCK * PAN_BORDER
     \/ show + dim = size - SHOW_MIN
  /\ \/ play >= show + BLOCK * PAN_BORDER
     \/ play >= show + dim - BLOCK * (PAN_BORDER + 1)
     \/ show = SHOW_MIN

FollowInv ==
  Playing => /\ Follows(show_x, play_x, SCROLL_X_DIM, Width)
             /\ Follows(show_y, play_y, SCROLL_Y_DIM, Height)

\* The pixels of the line that a move in direction d lets into the window.
NewLine(d) ==
  {p \in Window : CASE d = 0 -> p[2] = show_y
                    [] d = 1 -> p[1] = show_x + SCROLL_X_DIM - 1
                    [] d = 2 -> p[2] = show_y + SCROLL_Y_DIM - 1
                    [] OTHER -> p[1] = show_x}

\* Where the build buffer has pixel p.
Cell(p) == Address(img3_off, p[1], p[2])

Undrawn(squares) == {p \in Window : <<p[1] \div BLOCK, p[2] \div BLOCK>> \in squares}

Shows(pixels) == \A p \in pixels : build[Cell(p)] = Pixel(p[1], p[2])

\* What is at a pixel while the player is drawn.
WithPlayer(px, py) ==
  IF <<px - play_x, py - play_y>> \in MASK
  THEN <<"player", {}, px - play_x, py - play_y>> ELSE Pixel(px, py)

PlayerDrawn ==
  /\ \A p \in Window : build[Cell(p)] = WithPlayer(p[1], p[2])
  /\ old_value_buf = [d \in (0 .. BLOCK - 1) \X (0 .. BLOCK - 1) |-> Pixel(play_x + d[1], play_y + d[2])]

PictureInv ==
  /\ pc \in {"unveil", "choose", "draw", "tick", "move", "next"} => Shows(Window)
  /\ pc = "redraw" => Shows(Window \ Undrawn(redraw))
  /\ pc = "line" => dir \in 0 .. 3 /\ Shows(Window \ NewLine(dir))
  /\ pc \in {"copy", "high", "low"} /\ after = "level" => Shows(Window)
  /\ pc \in {"copy", "high", "low"} /\ after # "level" => PlayerDrawn

\* The pages: 1440 and 17824 have the low byte 160.
PageInv ==
  /\ target_img \in {1440, 17824}
  /\ pc \notin {"high", "low"} =>
       (start_addr = 0 /\ target_img = 1440) \/ (start_addr = target_img /\ target_img \in whole)
  /\ pc = "high" =>
       start_addr = 0 \/ (start_addr = Flipped(target_img) /\ start_addr \in whole)
  /\ pc = "low" => target_img \in whole /\ start_addr \in {target_img, target_img - 160}

IInv == MazeInv /\ SearchInv /\ ViewInv /\ PlayerInv /\ FollowInv /\ PictureInv /\ PageInv

-----------------------------------------------------------------------------
(* Arithmetic *)

LEMMA Sizes ==
  /\ SCROLL_X_DIM \in Nat \ {0} /\ SCROLL_Y_DIM \in Nat \ {0} /\ BLOCK \in Nat \ {0}
  /\ SCROLL_X_WIDTH \in Nat \ {0} /\ SCROLL_X_DIM = 4 * SCROLL_X_WIDTH
  /\ SCROLL_SIZE = SCROLL_X_WIDTH * SCROLL_Y_DIM /\ SCROLL_SIZE \in Nat \ {0}
  /\ BUILD_BASE_INIT \in Nat
  /\ 4 * SCROLL_SIZE + BUILD_BASE_INIT < BUILD_BUF_SIZE
  /\ BUILD_BUF_SIZE \in Nat
<1>1. SCROLL_X_DIM \in Nat \ {0} /\ SCROLL_X_DIM % 4 = 0 /\ SCROLL_Y_DIM \in Nat \ {0}
      /\ BLOCK \in Nat \ {0} /\ BUILD_EXTRA \in Nat
  BY ScrollAssumption
<1>2. SCROLL_X_WIDTH \in Nat \ {0} /\ SCROLL_X_DIM = 4 * SCROLL_X_WIDTH
  BY <1>1 DEF SCROLL_X_WIDTH
<1>3. SCROLL_SIZE = SCROLL_X_WIDTH * SCROLL_Y_DIM
  BY DEF SCROLL_SIZE
<1>4. \A a, b \in Nat \ {0} : a * b \in Nat \ {0}
  OBVIOUS
<1>5. SCROLL_SIZE \in Nat \ {0}
  BY <1>1, <1>2, <1>3, <1>4
<1>6. BUILD_BUF_SIZE = 4 * SCROLL_SIZE + 1 + BUILD_EXTRA
  BY <1>1, <1>5 DEF BUILD_BUF_SIZE, SCREEN_SIZE
<1>7. BUILD_BASE_INIT \in Nat /\ BUILD_BASE_INIT <= BUILD_EXTRA
  BY <1>1 DEF BUILD_BASE_INIT
<1> HIDE DEF SCROLL_X_WIDTH, SCROLL_SIZE, BUILD_BUF_SIZE, BUILD_BASE_INIT
<1> QED
  BY <1>1, <1>2, <1>3, <1>5, <1>6, <1>7

LEMMA Times ==
  /\ \A a, b \in Int : a * b \in Int /\ a * b = b * a
  /\ \A a, b \in Int, n \in Nat : a <= b => a * n <= b * n
  /\ \A a, b, n \in Int : (a + b) * n = a * n + b * n /\ (a - b) * n = a * n - b * n
  /\ \A n \in Int : 1 * n = n /\ 0 * n = 0 /\ 2 * n = n + n /\ 3 * n = n + n + n
<1>1. \A a, b \in Int : a * b \in Int /\ a * b = b * a
  OBVIOUS
<1>2. ASSUME NEW a \in Int, NEW b \in Int, NEW n \in Nat, a <= b
      PROVE  a * n <= b * n
  <2>1. b * n = a * n + (b - a) * n /\ (b - a) * n >= 0
    BY <1>2
  <2> QED
    BY <2>1, <1>1
<1>3. \A a, b, n \in Int : (a + b) * n = a * n + b * n /\ (a - b) * n = a * n - b * n
  OBVIOUS
<1> QED
  BY <1>1, <1>2, <1>3

\* A place in a row of n, and the row, from both.
LEMMA RowsDiffer ==
  ASSUME NEW n \in Nat \ {0}, NEW i \in Int, NEW j \in Int, NEW a \in Int, NEW b \in Int,
         i - j < n, j - i < n, i + a * n = j + b * n
  PROVE  i = j /\ a = b
<1>1. a * n \in Int /\ b * n \in Int
  BY Times
<1>2. CASE a = b
  BY <1>1, <1>2
<1>3. CASE a >= b + 1
  <2>1. a * n >= (b + 1) * n /\ (b + 1) * n = b * n + n
    BY <1>3, Times
  <2> QED
    BY <1>1, <2>1
<1>4. CASE b >= a + 1
  <2>1. b * n >= (a + 1) * n /\ (a + 1) * n = a * n + n
    BY <1>4, Times
  <2> QED
    BY <1>1, <2>1
<1> QED
  BY <1>2, <1>3, <1>4

LEMMA RowsFill ==
  ASSUME NEW n \in Nat \ {0}, NEW h \in Nat \ {0}, NEW i \in 0 .. n - 1, NEW a \in 0 .. h - 1
  PROVE  i + a * n \in 0 .. n * h - 1
<1>1. 0 * n <= a * n /\ a * n <= (h - 1) * n
  BY Times
<1>2. (h - 1) * n = n * h - n /\ a * n \in Int /\ n * h \in Int
  BY Times
<1> QED
  BY <1>1, <1>2, Times

-----------------------------------------------------------------------------
(* Addresses *)

\* Where in its plane the window's rows begin for pixel px.
RowStart(sx, px) == (sx \div 4) + (IF px % 4 < sx % 4 THEN 1 ELSE 0)

\* Where a pixel is among those of its plane in the window.
InPlane(sx, sy, px, py) == ((px \div 4) - RowStart(sx, px)) + (py - sy) * SCROLL_X_WIDTH

LEMMA PlaceInPlane ==
  ASSUME NEW sx \in Nat, NEW sy \in Nat, NEW px \in Int, NEW py \in Int,
         <<px, py>> \in WindowAt(sx, sy)
  PROVE  /\ px \in Nat /\ py \in Nat
         /\ px \div 4 \in Nat /\ px % 4 \in 0 .. 3 /\ px = 4 * (px \div 4) + (px % 4)
         /\ RowStart(sx, px) \in Nat
         /\ (px \div 4) - RowStart(sx, px) \in 0 .. SCROLL_X_WIDTH - 1
         /\ py - sy \in 0 .. SCROLL_Y_DIM - 1
         /\ InPlane(sx, sy, px, py) \in 0 .. SCROLL_SIZE - 1
<1>1. px \in sx .. sx + SCROLL_X_DIM - 1 /\ py \in sy .. sy + SCROLL_Y_DIM - 1
  BY DEF WindowAt
<1>2. px \in Nat /\ py \in Nat /\ py - sy \in 0 .. SCROLL_Y_DIM - 1
  BY <1>1, Sizes
<1>3. px \div 4 \in Nat /\ px % 4 \in 0 .. 3 /\ px = 4 * (px \div 4) + (px % 4)
  BY <1>2
<1>4. sx \div 4 \in Nat /\ sx % 4 \in 0 .. 3 /\ sx = 4 * (sx \div 4) + (sx % 4)
  OBVIOUS
<1>5. RowStart(sx, px) \in Nat
  BY <1>4 DEF RowStart
<1>6. (px \div 4) - RowStart(sx, px) \in 0 .. SCROLL_X_WIDTH - 1
  <2> DEFINE q == px \div 4
             r == px % 4
             k == sx \div 4
             s == sx % 4
  <2>1. q \in Nat /\ r \in 0 .. 3 /\ px = 4 * q + r /\ k \in Nat /\ s \in 0 .. 3 /\ sx = 4 * k + s
    BY <1>3, <1>4
  <2>2. RowStart(sx, px) = IF r < s THEN k + 1 ELSE k
    BY <2>1 DEF RowStart
  <2> HIDE DEF q, r, k, s
  <2>3. 4 * q + r >= 4 * k + s /\ 4 * q + r <= 4 * k + s + 4 * SCROLL_X_WIDTH - 1
    BY <1>1, <2>1, Sizes
  <2>4. q - RowStart(sx, px) \in 0 .. SCROLL_X_WIDTH - 1
    BY <2>1, <2>2, <2>3, Sizes
  <2> QED
    BY <2>4 DEF q
<1>7. InPlane(sx, sy, px, py) \in 0 .. SCROLL_SIZE - 1
  BY <1>2, <1>6, RowsFill, Sizes DEF InPlane
<1> QED
  BY <1>2, <1>3, <1>5, <1>6, <1>7

LEMMA AddressInPlane ==
  ASSUME NEW sx \in Nat, NEW sy \in Nat, NEW px \in Int, NEW py \in Int,
         <<px, py>> \in WindowAt(sx, sy), NEW off \in Int
  PROVE  /\ Address(off, px, py) = (off + sy * SCROLL_X_WIDTH)
              + RowStart(sx, px) + InPlane(sx, sy, px, py) + (3 - (px % 4)) * SCROLL_SIZE
         /\ Address(off, px, py) \in Int
<1>1. /\ px \div 4 \in Nat /\ px % 4 \in 0 .. 3 /\ RowStart(sx, px) \in Int /\ py \in Nat
      /\ (px \div 4) - RowStart(sx, px) \in Int
  BY PlaceInPlane
<1>2. py * SCROLL_X_WIDTH = sy * SCROLL_X_WIDTH + (py - sy) * SCROLL_X_WIDTH
  BY <1>1, Sizes, Times
<1>3. /\ py * SCROLL_X_WIDTH \in Int /\ sy * SCROLL_X_WIDTH \in Int
      /\ (py - sy) * SCROLL_X_WIDTH \in Int /\ (3 - (px % 4)) * SCROLL_SIZE \in Int
  BY <1>1, Sizes, Times
<1> QED
  BY <1>1, <1>2, <1>3 DEF Address, Plane, InPlane

\* The pixels of a window are in the build buffer.
LEMMA AddressIsACell ==
  ASSUME NEW sx \in Nat, NEW sy \in Nat, NEW px \in Int, NEW py \in Int,
         <<px, py>> \in WindowAt(sx, sy), NEW off \in Int,
         off + (sx \div 4) + sy * SCROLL_X_WIDTH >= 0,
         off + 3 * SCROLL_SIZE + ((sx + SCROLL_X_DIM - 1) \div 4)
           + (sy + SCROLL_Y_DIM - 1) * SCROLL_X_WIDTH < BUILD_BUF_SIZE
  PROVE  Address(off, px, py) \in Cells
<1> DEFINE W == SCROLL_X_WIDTH
           ex == sx + SCROLL_X_DIM - 1
           ey == sy + SCROLL_Y_DIM - 1
<1>1. /\ px \in sx .. ex /\ py \in sy .. ey
      /\ px \div 4 \in Nat /\ px % 4 \in 0 .. 3
      /\ ex \in Nat /\ ey \in Nat
  BY PlaceInPlane, Sizes DEF WindowAt
<1>2. /\ sx \div 4 <= px \div 4 /\ px \div 4 <= ex \div 4
      /\ sx \div 4 \in Nat /\ ex \div 4 \in Nat
  BY <1>1
<1>3. /\ sy * W <= py * W /\ py * W <= ey * W
      /\ sy * W \in Int /\ py * W \in Int /\ ey * W \in Int
  BY <1>1, Sizes, Times
<1>4. (3 - (px % 4)) * SCROLL_SIZE \in 0 .. 3 * SCROLL_SIZE
  <2>1. 3 - (px % 4) \in 0 .. 3
    BY <1>1
  <2>2. 0 * SCROLL_SIZE <= (3 - (px % 4)) * SCROLL_SIZE /\ (3 - (px % 4)) * SCROLL_SIZE <= 3 * SCROLL_SIZE
    BY <2>1, Sizes, Times
  <2> QED
    BY <2>1, <2>2, Sizes, Times
<1>5. /\ off + (sx \div 4) + sy * W >= 0
      /\ off + 3 * SCROLL_SIZE + (ex \div 4) + ey * W < BUILD_BUF_SIZE
  OBVIOUS
<1>6. Address(off, px, py) = off + (px \div 4) + py * W + (3 - (px % 4)) * SCROLL_SIZE
  BY DEF Address, Plane
<1> HIDE DEF W, ex, ey
<1> QED
  BY <1>1, <1>2, <1>3, <1>4, <1>5, <1>6, Sizes DEF Cells

\* Two pixels of a window are not in the same cell.
LEMMA AddressesDiffer ==
  ASSUME NEW sx \in Nat, NEW sy \in Nat, NEW off \in Int,
         NEW px \in Int, NEW py \in Int, <<px, py>> \in WindowAt(sx, sy),
         NEW qx \in Int, NEW qy \in Int, <<qx, qy>> \in WindowAt(sx, sy),
         Address(off, px, py) = Address(off, qx, qy)
  PROVE  px = qx /\ py = qy
<1> DEFINE a == InPlane(sx, sy, px, py)
           b == InPlane(sx, sy, qx, qy)
           k == off + sy * SCROLL_X_WIDTH
<1>p. /\ px \in Nat /\ py \in Nat
      /\ px \div 4 \in Nat /\ px % 4 \in 0 .. 3 /\ px = 4 * (px \div 4) + (px % 4)
      /\ RowStart(sx, px) \in Nat
      /\ (px \div 4) - RowStart(sx, px) \in 0 .. SCROLL_X_WIDTH - 1
      /\ a \in 0 .. SCROLL_SIZE - 1
  BY PlaceInPlane, Zenon
<1>q. /\ qx \in Nat /\ qy \in Nat
      /\ qx \div 4 \in Nat /\ qx % 4 \in 0 .. 3 /\ qx = 4 * (qx \div 4) + (qx % 4)
      /\ RowStart(sx, qx) \in Nat
      /\ (qx \div 4) - RowStart(sx, qx) \in 0 .. SCROLL_X_WIDTH - 1
      /\ b \in 0 .. SCROLL_SIZE - 1
  BY PlaceInPlane, Zenon
<1>1. /\ px % 4 \in 0 .. 3 /\ RowStart(sx, px) \in Int /\ a \in 0 .. SCROLL_SIZE - 1
      /\ qx % 4 \in 0 .. 3 /\ RowStart(sx, qx) \in Int /\ b \in 0 .. SCROLL_SIZE - 1
  BY <1>p, <1>q
<1>2. k \in Int
  BY Sizes, Times
<1>3. RowStart(sx, px) + a + (3 - (px % 4)) * SCROLL_SIZE = RowStart(sx, qx) + b + (3 - (qx % 4)) * SCROLL_SIZE
  <2>1. /\ Address(off, px, py) = k + RowStart(sx, px) + a + (3 - (px % 4)) * SCROLL_SIZE
        /\ Address(off, qx, qy) = k + RowStart(sx, qx) + b + (3 - (qx % 4)) * SCROLL_SIZE
    BY AddressInPlane
  <2>2. (3 - (px % 4)) * SCROLL_SIZE \in Int /\ (3 - (qx % 4)) * SCROLL_SIZE \in Int
    BY <1>1, Sizes, Times
  <2> DEFINE s == (3 - (px % 4)) * SCROLL_SIZE
             t == (3 - (qx % 4)) * SCROLL_SIZE
             u == RowStart(sx, px)
             v == RowStart(sx, qx)
  <2>3. k + u + a + s = k + v + b + t
    BY <2>1, Zenon
  <2>5. /\ s \in Int /\ t \in Int /\ u \in Int /\ v \in Int
        /\ a \in 0 .. SCROLL_SIZE - 1 /\ b \in 0 .. SCROLL_SIZE - 1
    BY <1>1, <2>2, Zenon
  <2> HIDE DEF a, b, k, s, t, u, v
  <2>4. u + a + s = v + b + t
    BY <1>2, <2>3, <2>5
  <2> QED
    BY <2>4 DEF s, t, u, v
<1>4. px % 4 < qx % 4 => RowStart(sx, px) >= RowStart(sx, qx)
  BY <1>1 DEF RowStart
<1>5. qx % 4 < px % 4 => RowStart(sx, qx) >= RowStart(sx, px)
  BY <1>1 DEF RowStart
<1>6. px % 4 = qx % 4
  <2> DEFINE r == px % 4
             s == qx % 4
             u == RowStart(sx, px)
             v == RowStart(sx, qx)
  <2>1. /\ r \in 0 .. 3 /\ s \in 0 .. 3 /\ u \in Int /\ v \in Int
        /\ a \in 0 .. SCROLL_SIZE - 1 /\ b \in 0 .. SCROLL_SIZE - 1
        /\ u + a + (3 - r) * SCROLL_SIZE = v + b + (3 - s) * SCROLL_SIZE
        /\ (r < s => u >= v) /\ (s < r => v >= u)
    BY <1>1, <1>3, <1>4, <1>5
  <2> HIDE DEF a, b, r, s, u, v
  <2>2. (3 - r) * SCROLL_SIZE \in Int /\ (3 - s) * SCROLL_SIZE \in Int
    BY <2>1, Sizes, Times
  <2>3. CASE r < s
    <3>1. (3 - r) * SCROLL_SIZE >= ((3 - s) + 1) * SCROLL_SIZE
      BY <2>1, <2>3, Sizes, Times
    <3>2. ((3 - s) + 1) * SCROLL_SIZE = (3 - s) * SCROLL_SIZE + SCROLL_SIZE
      BY <2>1, Sizes, Times
    <3> QED
      BY <2>1, <2>2, <2>3, <3>1, <3>2, Sizes
  <2>4. CASE s < r
    <3>1. (3 - s) * SCROLL_SIZE >= ((3 - r) + 1) * SCROLL_SIZE
      BY <2>1, <2>4, Sizes, Times
    <3>2. ((3 - r) + 1) * SCROLL_SIZE = (3 - r) * SCROLL_SIZE + SCROLL_SIZE
      BY <2>1, Sizes, Times
    <3> QED
      BY <2>1, <2>2, <2>4, <3>1, <3>2, Sizes
  <2> QED
    BY <2>1, <2>3, <2>4 DEF r, s
<1>7. RowStart(sx, px) = RowStart(sx, qx)
  BY <1>6 DEF RowStart
<1>8. a = b
  <2>1. (3 - (px % 4)) * SCROLL_SIZE = (3 - (qx % 4)) * SCROLL_SIZE /\ (3 - (qx % 4)) * SCROLL_SIZE \in Int
    BY <1>1, <1>6, Sizes, Times
  <2> HIDE DEF a, b
  <2> QED
    BY <1>1, <1>3, <1>7, <2>1
<1>9. (px \div 4) - RowStart(sx, px) = (qx \div 4) - RowStart(sx, qx) /\ py - sy = qy - sy
  <2>1. /\ (px \div 4) - RowStart(sx, px) \in 0 .. SCROLL_X_WIDTH - 1
        /\ (qx \div 4) - RowStart(sx, qx) \in 0 .. SCROLL_X_WIDTH - 1
        /\ py - sy \in Int /\ qy - sy \in Int
    BY <1>p, <1>q
  <2>2. ((px \div 4) - RowStart(sx, px)) + (py - sy) * SCROLL_X_WIDTH
          = ((qx \div 4) - RowStart(sx, qx)) + (qy - sy) * SCROLL_X_WIDTH
    BY <1>8 DEF InPlane
  <2> DEFINE i == (px \div 4) - RowStart(sx, px)
             j == (qx \div 4) - RowStart(sx, qx)
  <2>3. i - j < SCROLL_X_WIDTH /\ j - i < SCROLL_X_WIDTH /\ i \in Int /\ j \in Int
    BY <2>1, Sizes
  <2> HIDE DEF i, j
  <2>4. i + (py - sy) * SCROLL_X_WIDTH = j + (qy - sy) * SCROLL_X_WIDTH
    BY <2>2 DEF i, j
  <2>5. i = j /\ py - sy = qy - sy
    BY <2>1, <2>3, <2>4, RowsDiffer, Sizes
  <2> QED
    BY <2>5 DEF i, j
<1>10. px \div 4 = qx \div 4
  <2> DEFINE i == px \div 4
             j == qx \div 4
  <2>1. i \in Int /\ j \in Int /\ RowStart(sx, qx) \in Int /\ i - RowStart(sx, qx) = j - RowStart(sx, qx)
    BY <1>p, <1>q, <1>7, <1>9
  <2> HIDE DEF i, j
  <2>2. i = j
    BY <2>1
  <2> QED
    BY <2>2 DEF i, j
<1>11. px = qx
  BY <1>p, <1>q, <1>6, <1>10
<1> QED
  BY <1>p, <1>q, <1>9, <1>11

-----------------------------------------------------------------------------
(* Drawing *)

\* The window is in the build buffer.
InView == show_x \in Nat /\ show_y \in Nat /\ img3_off \in Int /\ Fits(show_x, show_y)

LEMMA WindowPixel ==
  ASSUME InView, NEW p \in Window
  PROVE  /\ p = <<p[1], p[2]>> /\ p[1] \in Nat /\ p[2] \in Nat
         /\ p[1] - show_x \in 0 .. SCROLL_X_DIM - 1 /\ p[2] - show_y \in 0 .. SCROLL_Y_DIM - 1
         /\ Cell(p) \in Cells
<1>1. p = <<p[1], p[2]>>
  BY DEF Window, WindowAt
<1>2. /\ p[1] \in show_x .. show_x + SCROLL_X_DIM - 1
      /\ p[2] \in show_y .. show_y + SCROLL_Y_DIM - 1
  BY DEF Window, WindowAt
<1>3. show_x \in Nat /\ show_y \in Nat /\ img3_off \in Int /\ Fits(show_x, show_y)
  BY DEF InView
<1>4. p[1] \in Nat /\ p[2] \in Nat
  BY <1>2, <1>3, Sizes
<1>5. <<p[1], p[2]>> \in WindowAt(show_x, show_y)
  BY <1>1, Zenon DEF Window
<1>6. Address(img3_off, p[1], p[2]) \in Cells
  <2>1. /\ img3_off + (show_x \div 4) + show_y * SCROLL_X_WIDTH >= 0
        /\ img3_off + 3 * SCROLL_SIZE + ((show_x + SCROLL_X_DIM - 1) \div 4)
             + (show_y + SCROLL_Y_DIM - 1) * SCROLL_X_WIDTH < BUILD_BUF_SIZE
    BY <1>3 DEF Fits
  <2>2. \A px, py \in Int : <<px, py>> \in WindowAt(show_x, show_y) =>
          Address(img3_off, px, py) \in Cells
    BY <1>3, <2>1, AddressIsACell
  <2>3. p[1] \in Int /\ p[2] \in Int
    BY <1>4
  <2> QED
    BY <1>5, <2>2, <2>3, Zenon
<1> QED
  BY <1>1, <1>2, <1>3, <1>4, <1>6, Sizes DEF Cell

LEMMA CellsDiffer ==
  ASSUME InView, NEW p \in Window, NEW q \in Window, Cell(p) = Cell(q)
  PROVE  p = q
<1>1. /\ p = <<p[1], p[2]>> /\ p[1] \in Nat /\ p[2] \in Nat
      /\ q = <<q[1], q[2]>> /\ q[1] \in Nat /\ q[2] \in Nat
  BY WindowPixel, Zenon
<1>2. <<p[1], p[2]>> \in WindowAt(show_x, show_y) /\ <<q[1], q[2]>> \in WindowAt(show_x, show_y)
  BY <1>1, Zenon DEF Window
<1>3. show_x \in Nat /\ show_y \in Nat /\ img3_off \in Int
  BY DEF InView
<1>4. Address(img3_off, p[1], p[2]) = Address(img3_off, q[1], q[2])
  BY DEF Cell
<1>5. p[1] \in Int /\ p[2] \in Int /\ q[1] \in Int /\ q[2] \in Int
  BY <1>1
<1>6. p[1] = q[1] /\ p[2] = q[2]
  <2>1. \A px, py, qx, qy \in Int :
          /\ <<px, py>> \in WindowAt(show_x, show_y)
          /\ <<qx, qy>> \in WindowAt(show_x, show_y)
          /\ Address(img3_off, px, py) = Address(img3_off, qx, qy)
          => px = qx /\ py = qy
    BY <1>3, AddressesDiffer
  <2> QED
    BY <1>2, <1>4, <1>5, <2>1, Zenon
<1> QED
  BY <1>1, <1>6

\* draw_pixels draws the pixels it is to draw, and no other of the window.
LEMMA DrawPixels ==
  ASSUME InView, NEW b, NEW drawn, NEW pixels, NEW p \in Window
  PROVE  draw_pixels(b, drawn, pixels)[Cell(p)] =
           IF p \in drawn THEN pixels[p] ELSE b[Cell(p)]
<1> DEFINE shown == drawn \cap Window
<1>1. Cell(p) \in Cells
  BY WindowPixel
<1>2. draw_pixels(b, drawn, pixels)[Cell(p)] =
        IF \E q \in shown : Cell(q) = Cell(p)
        THEN pixels[CHOOSE q \in shown : Cell(q) = Cell(p)]
        ELSE b[Cell(p)]
  BY <1>1 DEF draw_pixels, Cell
<1>3. \A q \in shown : Cell(q) = Cell(p) => q = p
  BY CellsDiffer
<1>4. CASE p \in drawn
  <2>1. p \in shown
    BY <1>4
  <2>2. (CHOOSE q \in shown : Cell(q) = Cell(p)) = p
    BY <1>3, <2>1, Zenon
  <2> QED
    BY <1>2, <1>4, <2>1, <2>2
<1>5. CASE p \notin drawn
  <2>1. ~(\E q \in shown : Cell(q) = Cell(p))
    BY <1>3, <1>5
  <2> QED
    BY <1>2, <1>5, <2>1
<1> QED
  BY <1>4, <1>5

\* Where draw_horiz_line puts pixel i of a row.
LEMMA LineAddress ==
  ASSUME NEW sx \in Nat, NEW i \in Nat, NEW off \in Int, NEW row \in Int
  PROVE  off + (sx \div 4) + row * SCROLL_X_WIDTH + (((sx % 4) + i) \div 4) + Plane((sx % 4) + i)
           = Address(off, sx + i, row)
<1>1. /\ (sx \div 4) + (((sx % 4) + i) \div 4) = (sx + i) \div 4
      /\ ((sx % 4) + i) % 4 = (sx + i) % 4
  OBVIOUS
<1>2. /\ sx \div 4 \in Int /\ ((sx % 4) + i) \div 4 \in Int /\ row * SCROLL_X_WIDTH \in Int
  BY Sizes, Times
<1>3. Plane((sx % 4) + i) = Plane(sx + i)
  BY <1>1, Zenon DEF Plane
<1>4. Plane(sx + i) \in Int
  <2>1. (sx + i) % 4 \in Int /\ 3 - ((sx + i) % 4) \in Int
    OBVIOUS
  <2> QED
    BY <2>1, Sizes, Times DEF Plane
<1> DEFINE a == sx \div 4
           b == ((sx % 4) + i) \div 4
           c == (sx + i) \div 4
           r == row * SCROLL_X_WIDTH
           pl == Plane(sx + i)
<1>5. a + b = c /\ a \in Int /\ b \in Int /\ r \in Int /\ pl \in Int
  BY <1>1, <1>2, <1>4
<1>6. Address(off, sx + i, row) = off + c + r + pl
  BY DEF Address
<1>7. off + a + r + b + Plane((sx % 4) + i) = off + a + r + b + pl
  BY <1>3
<1> HIDE DEF a, b, c, r, pl
<1>8. off + a + r + b + pl = off + c + r + pl
  BY <1>5
<1> QED
  BY <1>6, <1>7, <1>8, Zenon DEF a, b, r

LEMMA DrawHorizontal ==
  ASSUME InView, NEW b, NEW rows \in SUBSET (0 .. SCROLL_Y_DIM - 1), NEW pixels, NEW p \in Window
  PROVE  draw_horiz_lines(b, rows, pixels)[Cell(p)] =
           IF p[2] - show_y \in rows THEN pixels[p] ELSE b[Cell(p)]
<1> DEFINE At1(d) == img3_off + (show_x \div 4) + (d[2] + show_y) * SCROLL_X_WIDTH
                       + (((show_x % 4) + d[1]) \div 4) + Plane((show_x % 4) + d[1])
           line   == (0 .. SCROLL_X_DIM - 1) \X rows
           P(d)   == <<show_x + d[1], show_y + d[2]>>
           c      == Cell(p)
<1>1. c \in Cells /\ show_x \in Nat /\ show_y \in Nat /\ img3_off \in Int
  BY WindowPixel DEF InView
<1>2. draw_horiz_lines(b, rows, pixels)[c] =
        IF \E d \in line : At1(d) = c
        THEN pixels[P(CHOOSE d \in line : At1(d) = c)]
        ELSE b[c]
  BY <1>1 DEF draw_horiz_lines
<1>3. ASSUME NEW d \in line
      PROVE  P(d) \in Window /\ At1(d) = Cell(P(d)) /\ d = <<d[1], d[2]>> /\ d[1] \in Nat /\ d[2] \in rows /\ d[2] \in Nat
  <2>1. d = <<d[1], d[2]>> /\ d[1] \in 0 .. SCROLL_X_DIM - 1 /\ d[2] \in rows /\ d[2] \in 0 .. SCROLL_Y_DIM - 1
    <3>1. \A A, B : \A u \in A \X B : u = <<u[1], u[2]>> /\ u[1] \in A /\ u[2] \in B
      OBVIOUS
    <3>2. d \in (0 .. SCROLL_X_DIM - 1) \X rows
      OBVIOUS
    <3> QED
      BY <3>1, <3>2, Zenon
  <2>2. d[1] \in Nat /\ d[2] \in Nat /\ d[2] + show_y = show_y + d[2] /\ show_y + d[2] \in Int
    BY <1>1, <2>1
  <2>3. P(d) \in Window
    BY <1>1, <2>1, <2>2, Sizes DEF Window, WindowAt
  <2>4. At1(d) = Address(img3_off, show_x + d[1], show_y + d[2])
    <3>1. \A i \in Nat, row \in Int :
            img3_off + (show_x \div 4) + row * SCROLL_X_WIDTH + (((show_x % 4) + i) \div 4)
              + Plane((show_x % 4) + i) = Address(img3_off, show_x + i, row)
      BY <1>1, LineAddress
    <3> QED
      BY <2>2, <3>1, Zenon
  <2> QED
    BY <2>1, <2>2, <2>3, <2>4 DEF Cell
<1>4. ASSUME NEW d \in line, At1(d) = c PROVE P(d) = p
  <2>1. P(d) \in Window /\ Cell(P(d)) = Cell(p)
    BY <1>3, <1>4
  <2> HIDE DEF P
  <2> QED
    BY <2>1, CellsDiffer
<1> DEFINE e == <<p[1] - show_x, p[2] - show_y>>
<1>5. /\ p[1] - show_x \in 0 .. SCROLL_X_DIM - 1 /\ p[2] - show_y \in 0 .. SCROLL_Y_DIM - 1
      /\ p = <<p[1], p[2]>> /\ p[1] \in Nat /\ p[2] \in Nat
  BY WindowPixel, Zenon
<1>6. P(e) = p
  BY <1>1, <1>5
<1>7. CASE p[2] - show_y \in rows
  <2>1. e \in line
    BY <1>5, <1>7
  <2>2. At1(e) = c
    BY <1>3, <1>6, <2>1
  <2> HIDE DEF At1, line, P, c, e
  <2>3. \E d \in line : At1(d) = c
    BY <2>1, <2>2
  <2>4. P(CHOOSE d \in line : At1(d) = c) = p
    BY <1>4, <2>3
  <2> QED
    BY <1>2, <1>7, <2>3, <2>4 DEF c
<1>8. CASE p[2] - show_y \notin rows
  <2>1. ~(\E d \in line : At1(d) = c)
    <3> SUFFICES ASSUME NEW d \in line, At1(d) = c PROVE FALSE
      OBVIOUS
    <3>1. P(d) = p /\ d[2] \in rows /\ d[2] \in Nat
      BY <1>3, <1>4
    <3>2. p[2] = show_y + d[2]
      BY <3>1
    <3>3. p[2] - show_y = d[2]
      BY <1>1, <3>1, <3>2
    <3> QED
      BY <1>8, <3>1, <3>3
  <2> HIDE DEF At1, line, P, c
  <2> QED
    BY <1>2, <1>8, <2>1 DEF c
<1> QED
  BY <1>7, <1>8

LEMMA DrawVertical ==
  ASSUME InView, NEW b, NEW column \in 0 .. SCROLL_X_DIM - 1, NEW pixels, NEW p \in Window
  PROVE  draw_vert_line(b, column, pixels)[Cell(p)] =
           IF p[1] = show_x + column THEN pixels[p] ELSE b[Cell(p)]
<1> DEFINE px     == column + show_x
           At1(i) == img3_off + (px \div 4) + (show_y + i) * SCROLL_X_WIDTH + Plane(px)
           line   == 0 .. SCROLL_Y_DIM - 1
           P(i)   == <<px, show_y + i>>
           c      == Cell(p)
<1>1. c \in Cells /\ show_x \in Nat /\ show_y \in Nat /\ img3_off \in Int
  BY WindowPixel DEF InView
<1>2. draw_vert_line(b, column, pixels)[c] =
        IF \E i \in line : At1(i) = c
        THEN pixels[P(CHOOSE i \in line : At1(i) = c)]
        ELSE b[c]
  BY <1>1 DEF draw_vert_line
<1>3. ASSUME NEW i \in line
      PROVE  P(i) \in Window /\ At1(i) = Cell(P(i))
  <2>1. P(i) \in Window
    BY <1>1, Sizes DEF Window, WindowAt
  <2> QED
    BY <2>1 DEF Cell, Address
<1>4. ASSUME NEW i \in line, At1(i) = c PROVE P(i) = p
  BY <1>3, <1>4, CellsDiffer
<1>5. /\ p[2] - show_y \in 0 .. SCROLL_Y_DIM - 1
      /\ p = <<p[1], p[2]>> /\ p[1] \in Nat /\ p[2] \in Nat
  BY WindowPixel, Zenon
<1>6. CASE p[1] = show_x + column
  <2> DEFINE e == p[2] - show_y
  <2>1. e \in line /\ P(e) = p
    BY <1>1, <1>5, <1>6
  <2>2. At1(e) = c
    BY <1>3, <2>1
  <2> HIDE DEF At1, line, P, c, e
  <2>3. \E i \in line : At1(i) = c
    BY <2>1, <2>2
  <2>4. P(CHOOSE i \in line : At1(i) = c) = p
    BY <1>4, <2>3
  <2> QED
    BY <1>2, <1>6, <2>3, <2>4 DEF c
<1>7. CASE p[1] # show_x + column
  <2>1. ~(\E i \in line : At1(i) = c)
    BY <1>1, <1>4, <1>7
  <2> HIDE DEF At1, line, P, c
  <2> QED
    BY <1>2, <1>7, <2>1 DEF c
<1> QED
  BY <1>6, <1>7

LEMMA ShownInWindow ==
  ASSUME InView, NEW b, NEW p \in Window
  PROVE  Shown(b)[Cell(p)] = b[Cell(p)]
BY WindowPixel DEF Shown, Cell

-----------------------------------------------------------------------------
(* set_view_window *)

\* A window centred in the build buffer is within it.
LEMMA CentredFits ==
  ASSUME NEW sx \in Nat, NEW sy \in Nat
  PROVE  /\ Centred(sx, sy) \in Int
         /\ Centred(sx, sy) + (sx \div 4) + sy * SCROLL_X_WIDTH >= 0
         /\ Centred(sx, sy) + 3 * SCROLL_SIZE + ((sx + SCROLL_X_DIM - 1) \div 4)
              + (sy + SCROLL_Y_DIM - 1) * SCROLL_X_WIDTH < BUILD_BUF_SIZE
<1> DEFINE k == sx \div 4
           e == (sx + SCROLL_X_DIM - 1) \div 4
           r == sy * SCROLL_X_WIDTH
           t == (sy + SCROLL_Y_DIM - 1) * SCROLL_X_WIDTH
<1>1. k \in Nat /\ e \in Nat /\ e <= k + SCROLL_X_WIDTH
  <2>1. SCROLL_X_DIM = 4 * SCROLL_X_WIDTH /\ SCROLL_X_WIDTH \in Nat \ {0}
    BY Sizes
  <2>2. \A w \in Nat \ {0} : /\ (sx + 4 * w - 1) \div 4 \in Nat
                             /\ (sx + 4 * w - 1) \div 4 <= (sx \div 4) + w
    OBVIOUS
  <2> QED
    BY <2>1, <2>2
<1>2. r \in Int /\ t \in Int /\ t = r + SCROLL_SIZE - SCROLL_X_WIDTH
  <2>1. t = sy * SCROLL_X_WIDTH + (SCROLL_Y_DIM - 1) * SCROLL_X_WIDTH
    <3>1. sy + SCROLL_Y_DIM - 1 = sy + (SCROLL_Y_DIM - 1) /\ SCROLL_Y_DIM - 1 \in Int
      BY Sizes
    <3> QED
      BY <3>1, Sizes, Times
  <2>2. (SCROLL_Y_DIM - 1) * SCROLL_X_WIDTH = SCROLL_Y_DIM * SCROLL_X_WIDTH - SCROLL_X_WIDTH
    BY Sizes, Times
  <2>3. SCROLL_Y_DIM * SCROLL_X_WIDTH = SCROLL_SIZE
    BY Sizes, Times
  <2>4. r \in Int /\ t \in Int
    BY Sizes, Times
  <2> QED
    BY <2>1, <2>2, <2>3, <2>4, Sizes
<1>3. Centred(sx, sy) = BUILD_BASE_INIT - k - r
  BY DEF Centred
<1> HIDE DEF k, e, r, t
<1>4. /\ Centred(sx, sy) \in Int
      /\ Centred(sx, sy) + k + r >= 0
      /\ Centred(sx, sy) + 3 * SCROLL_SIZE + e + t < BUILD_BUF_SIZE
  BY <1>1, <1>2, <1>3, Sizes
<1> QED
  BY <1>4 DEF k, e, r, t

\* The new window is in the build buffer.
LEMMA ViewIsIn ==
  ASSUME img3_off \in Int, NEW sx \in Nat, NEW sy \in Nat, set_view_window(sx, sy)
  PROVE  InView'
<1>1. show_x' = sx /\ show_y' = sy /\ img3_off' = NewOffset(sx, sy)
  BY DEF set_view_window
<1>2. CASE Fits(sx, sy)
  BY <1>1, <1>2 DEF NewOffset, Fits, InView
<1>3. CASE ~Fits(sx, sy)
  <2>1. img3_off' = Centred(sx, sy)
    BY <1>1, <1>3 DEF NewOffset
  <2> QED
    BY <1>1, <2>1, CentredFits DEF Fits, InView
<1> QED
  BY <1>2, <1>3

\* What both windows show is kept.
LEMMA ViewMoves ==
  ASSUME InView, NEW sx \in Nat, NEW sy \in Nat, set_view_window(sx, sy),
         NEW p \in Window, p \in Window'
  PROVE  build'[Cell(p)'] = build[Cell(p)]
<1>1. /\ show_x' = sx /\ show_y' = sy /\ img3_off' = NewOffset(sx, sy)
      /\ build' = NewBuild(sx, sy)
  BY DEF set_view_window
<1>2. CASE Fits(sx, sy)
  BY <1>1, <1>2 DEF NewOffset, NewBuild, Cell, Address, Plane
<1>3. CASE ~Fits(sx, sy)
  <2> DEFINE W   == SCROLL_X_WIDTH
             sox == Larger(sx, show_x)
             soy == Larger(sy, show_y)
             ex  == Smaller(sx, show_x) + SCROLL_X_DIM - 1
             ey  == Smaller(sy, show_y) + SCROLL_Y_DIM - 1
             so  == (sox \div 4) + soy * W
             len == (ex \div 4) + ey * W + 1 - so + 3 * SCROLL_SIZE
             new == Centred(sx, sy)
             a   == Address(img3_off, p[1], p[2])
             b   == Address(new, p[1], p[2])
             t   == (p[1] \div 4) + p[2] * W + (3 - (p[1] % 4)) * SCROLL_SIZE
  <2>1. /\ p = <<p[1], p[2]>>
        /\ p[1] \in show_x .. show_x + SCROLL_X_DIM - 1 /\ p[2] \in show_y .. show_y + SCROLL_Y_DIM - 1
        /\ p[1] \in sx .. sx + SCROLL_X_DIM - 1 /\ p[2] \in sy .. sy + SCROLL_Y_DIM - 1
    BY <1>1 DEF Window, WindowAt
  <2>2. show_x \in Nat /\ show_y \in Nat /\ img3_off \in Int
    BY DEF InView
  <2>3. p[1] \in Nat /\ p[2] \in Nat
    BY <2>1, <2>2, Sizes
  <2>4. Overlaps(sx, sy)
    BY <2>1, <2>2, <2>3, Sizes DEF Overlaps
  <2>5. img3_off' = new /\ build' = Moved(sx, sy)
    BY <1>1, <1>3, <2>4 DEF NewOffset, NewBuild
  <2>6. Moved(sx, sy) = MovedBy(img3_off + so, len, new - img3_off)
    BY DEF Moved
  <2>7. new \in Int /\ b \in Cells
    <3>1. <<p[1], p[2]>> \in WindowAt(sx, sy)
      BY <2>1 DEF WindowAt
    <3>2. /\ new \in Int /\ new + (sx \div 4) + sy * SCROLL_X_WIDTH >= 0
          /\ new + 3 * SCROLL_SIZE + ((sx + SCROLL_X_DIM - 1) \div 4)
               + (sy + SCROLL_Y_DIM - 1) * SCROLL_X_WIDTH < BUILD_BUF_SIZE
      BY CentredFits, Zenon
    <3> HIDE DEF new
    <3>3. \A px, py \in Int : <<px, py>> \in WindowAt(sx, sy) => Address(new, px, py) \in Cells
      BY <3>2, AddressIsACell
    <3>4. p[1] \in Int /\ p[2] \in Int
      BY <2>3
    <3>5. Address(new, p[1], p[2]) \in Cells
      BY <3>1, <3>3, <3>4, Zenon
    <3> QED
      BY <3>2, <3>5 DEF b
  <2>8. t \in Int /\ a = img3_off + t /\ b = new + t
    <3>1. p[1] \div 4 \in Int /\ p[2] * W \in Int /\ (3 - (p[1] % 4)) * SCROLL_SIZE \in Int
      <4>1. p[1] \div 4 \in Int /\ 3 - (p[1] % 4) \in Int
        BY <2>3
      <4> QED
        BY <2>3, <4>1, Sizes, Times
    <3>2. /\ a = img3_off + (p[1] \div 4) + p[2] * W + (3 - (p[1] % 4)) * SCROLL_SIZE
          /\ b = new + (p[1] \div 4) + p[2] * W + (3 - (p[1] % 4)) * SCROLL_SIZE
      BY DEF Address, Plane
    <3> DEFINE u == p[1] \div 4
               v == p[2] * W
               w == (3 - (p[1] % 4)) * SCROLL_SIZE
    <3>3. /\ u \in Int /\ v \in Int /\ w \in Int /\ t = u + v + w
          /\ a = img3_off + u + v + w /\ b = new + u + v + w
      BY <3>1, <3>2, Zenon
    <3> HIDE DEF u, v, w, a, b, t, new
    <3> QED
      BY <2>2, <2>7, <3>3
  <2>9. t \in so .. so + len - 1
    <3>1. /\ sox \in Nat /\ soy \in Nat /\ ex \in Nat /\ ey \in Nat
          /\ sox <= p[1] /\ p[1] <= ex /\ soy <= p[2] /\ p[2] <= ey
      BY <2>1, <2>2, <2>3, Sizes DEF Larger, Smaller
    <3>2. /\ sox \div 4 <= p[1] \div 4 /\ p[1] \div 4 <= ex \div 4
          /\ sox \div 4 \in Nat /\ p[1] \div 4 \in Nat /\ ex \div 4 \in Nat
          /\ 3 - (p[1] % 4) \in 0 .. 3
      <4> HIDE DEF sox, ex
      <4> QED
        BY <2>3, <3>1
    <3>3. /\ soy * W <= p[2] * W /\ p[2] * W <= ey * W
          /\ soy * W \in Int /\ p[2] * W \in Int /\ ey * W \in Int
      <4> HIDE DEF soy, ey
      <4> QED
        BY <2>3, <3>1, Sizes, Times
    <3>4. (3 - (p[1] % 4)) * SCROLL_SIZE \in 0 .. 3 * SCROLL_SIZE
      <4>1. 0 * SCROLL_SIZE <= (3 - (p[1] % 4)) * SCROLL_SIZE /\ (3 - (p[1] % 4)) * SCROLL_SIZE <= 3 * SCROLL_SIZE
        BY <3>2, Sizes, Times
      <4> QED
        BY <3>2, <4>1, Sizes, Times
    <3> DEFINE u  == p[1] \div 4
               v  == p[2] * W
               w  == (3 - (p[1] % 4)) * SCROLL_SIZE
               k1 == sox \div 4
               k2 == soy * W
               l1 == ex \div 4
               l2 == ey * W
    <3>5. /\ k1 <= u /\ u <= l1 /\ k2 <= v /\ v <= l2 /\ w \in 0 .. 3 * SCROLL_SIZE
          /\ k1 \in Int /\ k2 \in Int /\ l1 \in Int /\ l2 \in Int /\ u \in Int /\ v \in Int
      BY <3>2, <3>3, <3>4
    <3>6. t = u + v + w /\ so = k1 + k2 /\ len = l1 + l2 + 1 - so + 3 * SCROLL_SIZE
      OBVIOUS
    <3> HIDE DEF u, v, w, k1, k2, l1, l2, t, so, len
    <3> QED
      BY <3>5, <3>6, Sizes
  <2>10. so \in Int /\ len \in Int
    <3>1. sox \in Nat /\ soy \in Nat /\ ex \in Nat /\ ey \in Nat
      BY <2>1, <2>2, <2>3, Sizes DEF Larger, Smaller
    <3> HIDE DEF sox, soy, ex, ey
    <3>2. sox \div 4 \in Int /\ soy * W \in Int /\ ex \div 4 \in Int /\ ey * W \in Int
      BY <3>1, Sizes, Times
    <3> QED
      BY <3>2, Sizes
  <2> HIDE DEF so, len, new, a, b, t, sox, soy, ex, ey, W
  <2>11. b - (new - img3_off) = a /\ a \in (img3_off + so) .. (img3_off + so) + len - 1
    BY <2>2, <2>7, <2>8, <2>9, <2>10
  <2>12. MovedBy(img3_off + so, len, new - img3_off)[b] = build[a]
    BY <2>7, <2>11 DEF MovedBy
  <2>13. Cell(p) = a /\ Cell(p)' = b
    BY <2>5 DEF Cell, a, b, Address, Plane
  <2> QED
    BY <2>5, <2>6, <2>12, <2>13
<1> QED
  BY <1>2, <1>3

-----------------------------------------------------------------------------
(* show_screen *)

\* The cell copied to a pixel of the screen is that of the pixel in the window.
LEMMA SourceIsTheAddress ==
  ASSUME InView, NEW i \in 0 .. SCROLL_X_DIM - 1, NEW j \in 0 .. SCROLL_Y_DIM - 1
  PROVE  Source(i, j) = Address(img3_off, show_x + i, show_y + j)
<1> DEFINE k     == show_x % 4
           r     == i % 4
           plane == (3 - k - r + 4) % 4
           one   == IF 3 - k < r THEN 1 ELSE 0
           W     == SCROLL_X_WIDTH
<1>1. show_x \in Nat /\ show_y \in Nat /\ img3_off \in Int /\ i \in Nat /\ j \in Nat
  BY DEF InView
<1>2. k \in 0 .. 3 /\ r \in 0 .. 3
  BY <1>1
<1>3. (show_x + i) \div 4 = (show_x \div 4) + (i \div 4) + one
  BY <1>1
<1>4. plane = 3 - ((show_x + i) % 4) /\ plane \in 0 .. 3
  <2>1. (show_x + i) % 4 = (k + r) % 4
    BY <1>1
  <2> HIDE DEF k, r
  <2> QED
    BY <1>2, <2>1
<1>5. Source(i, j) = img3_off + (show_x \div 4) + show_y * W + plane * SCROLL_SIZE + one + (i \div 4) + j * W
  BY DEF Source
<1>6. Address(img3_off, show_x + i, show_y + j)
        = img3_off + ((show_x + i) \div 4) + (show_y + j) * W + plane * SCROLL_SIZE
  BY <1>4 DEF Address, Plane
<1>7. (show_y + j) * W = show_y * W + j * W /\ show_y * W \in Int /\ j * W \in Int /\ plane * SCROLL_SIZE \in Int
  BY <1>1, <1>4, Sizes, Times
<1> DEFINE a == show_x \div 4
           b == i \div 4
           c == (show_x + i) \div 4
           u == show_y * W
           v == j * W
           w == (show_y + j) * W
           t == plane * SCROLL_SIZE
<1>8. /\ c = a + b + one /\ a \in Int /\ b \in Int /\ one \in Int
      /\ w = u + v /\ u \in Int /\ v \in Int /\ t \in Int
      /\ Source(i, j) = img3_off + a + u + t + one + b + v
      /\ Address(img3_off, show_x + i, show_y + j) = img3_off + c + w + t
  <2>1. a \in Int /\ b \in Int /\ one \in Int
    BY <1>1
  <2> QED
    BY <1>3, <1>5, <1>6, <1>7, <2>1, Zenon
<1> HIDE DEF a, b, c, u, v, w, t, one
<1> QED
  BY <1>1, <1>8

LEMMA TheOtherPage ==
  /\ Flipped(1440) = 17824 /\ Flipped(17824) = 1440
  /\ 1440 \div 256 = 5 /\ 1440 % 256 = 160 /\ 17824 \div 256 = 69 /\ 17824 % 256 = 160
  /\ 0 % 256 = 0 /\ 1280 \div 256 = 5 /\ 1280 % 256 = 0 /\ 17664 \div 256 = 69 /\ 17664 % 256 = 0
<1>1. 1440 \div 16384 = 0 /\ 17824 \div 16384 = 1 /\ 0 % 2 = 0 /\ 1 % 2 = 1
  OBVIOUS
<1>2. Flipped(1440) = 17824 /\ Flipped(17824) = 1440
  BY <1>1 DEF Flipped, PAGE_SIZE
<1> QED
  BY <1>2

LEMMA PagesStart == InitModeX /\ pc = "prepare" => PageInv
BY DEF InitModeX, PageInv

LEMMA CopyKeepsPages ==
  ASSUME PageInv, CopyPlanes, pc = "copy", pc' = "high"
  PROVE  PageInv'
BY TheOtherPage DEF PageInv, CopyPlanes, Target, Flipped

LEMMA HighKeepsPages ==
  ASSUME PageInv, SetHigh, pc = "high", pc' = "low"
  PROVE  PageInv'
<1>1. /\ target_img \in {1440, 17824} /\ start_addr \in {0, 1440, 17824}
      /\ start_addr = 0 \/ (start_addr # 0 /\ start_addr % 256 = 160)
  BY TheOtherPage DEF PageInv
<1>2. /\ target_img' = target_img /\ whole' = whole \cup {target_img}
      /\ start_addr' = (target_img \div 256) * 256 + (start_addr % 256)
  BY DEF SetHigh
<1>3. start_addr' \in {target_img, target_img - 160}
  BY <1>1, <1>2, TheOtherPage
<1> QED
  BY <1>1, <1>2, <1>3 DEF PageInv

LEMMA LowKeepsPages ==
  ASSUME PageInv, SetLow, pc = "low", pc' \notin {"high", "low"}
  PROVE  PageInv'
<1>1. /\ target_img \in {1440, 17824} /\ target_img \in whole
      /\ start_addr \in {target_img, target_img - 160}
  BY DEF PageInv
<1>2. /\ target_img' = target_img /\ whole' = whole
      /\ start_addr' = (start_addr \div 256) * 256 + (target_img % 256)
  BY DEF SetLow
<1>3. start_addr' = target_img
  <2>1. CASE target_img = 1440
    BY <1>1, <1>2, <2>1, TheOtherPage
  <2>2. CASE target_img = 17824
    BY <1>1, <1>2, <2>2, TheOtherPage
  <2> QED
    BY <1>1, <2>1, <2>2
<1> QED
  BY <1>1, <1>2, <1>3 DEF PageInv

LEMMA OthersKeepPages ==
  ASSUME PageInv, UNCHANGED pageVars, pc \notin {"high", "low"}, pc' \notin {"high", "low"}
  PROVE  PageInv'
BY DEF PageInv, pageVars

\* What is displayed once the low bytes agree.
LEMMA PagesAreWhole == PageInv => DisplayIsWhole
<1> SUFFICES ASSUME PageInv, start_addr % 256 = target_img % 256
             PROVE  start_addr \in whole
  BY DEF DisplayIsWhole
<1>1. target_img % 256 = 160
  BY TheOtherPage DEF PageInv
<1>2. CASE pc = "low"
  <2>1. start_addr # target_img - 160
    BY <1>1, TheOtherPage DEF PageInv
  <2> QED
    BY <1>2, <2>1 DEF PageInv
<1>3. start_addr # 0
  BY <1>1, TheOtherPage
<1> QED
  BY <1>2, <1>3 DEF PageInv

-----------------------------------------------------------------------------
(* The lattice *)

Dims == maze_x_dim \in Nat \ {0} /\ maze_y_dim \in Nat \ {0}

LEMMA Steps ==
  /\ \A d : StepX(d) \in {-1, 0, 1} /\ StepY(d) \in {-1, 0, 1}
  /\ StepX(0) = 0 /\ StepY(0) = -1 /\ StepX(1) = 1 /\ StepY(1) = 0
  /\ StepX(2) = 0 /\ StepY(2) = 1 /\ StepX(3) = -1 /\ StepY(3) = 0
  /\ StepX(4) = 0 /\ StepY(4) = 0
<1>1. \A d : StepX(d) = 1 \/ StepX(d) = -1 \/ StepX(d) = 0
  BY DEF StepX
<1>2. \A d : StepY(d) = 1 \/ StepY(d) = -1 \/ StepY(d) = 0
  BY DEF StepY
<1>3. /\ StepX(0) = 0 /\ StepY(0) = -1 /\ StepX(1) = 1 /\ StepY(1) = 0
      /\ StepX(2) = 0 /\ StepY(2) = 1 /\ StepX(3) = -1 /\ StepY(3) = 0
      /\ StepX(4) = 0 /\ StepY(4) = 0
  BY DEF StepX, StepY
<1> QED
  BY <1>1, <1>2, <1>3

LEMMA Index ==
  ASSUME Dims, NEW a \in Int, NEW b \in Int
  PROVE  /\ MAZE_INDEX(a, b) = a + (b + 1) * (2 * maze_x_dim)
         /\ MAZE_INDEX(a, b) \in Int
<1>1. \A k, n \in Int : k * n * 2 = k * (2 * n) /\ k * n \in Int
  OBVIOUS
<1>2. (b + 1) * maze_x_dim * 2 = (b + 1) * (2 * maze_x_dim) /\ (b + 1) * maze_x_dim \in Int
  BY <1>1 DEF Dims
<1> QED
  BY <1>2 DEF MAZE_INDEX

\* The points that share an array element: the ends of neighbouring rows.
LEMMA IndexIsShared ==
  ASSUME Dims, NEW a \in 0 .. 2 * maze_x_dim, NEW b \in Int,
         NEW c \in 0 .. 2 * maze_x_dim, NEW d \in Int, MAZE_INDEX(a, b) = MAZE_INDEX(c, d)
  PROVE  \/ a = c /\ b = d
         \/ a = 0 /\ c = 2 * maze_x_dim /\ b = d + 1
         \/ c = 0 /\ a = 2 * maze_x_dim /\ d = b + 1
<1> DEFINE n == 2 * maze_x_dim
<1>1. n \in Nat \ {0} /\ a \in 0 .. n /\ c \in 0 .. n
  BY DEF Dims
<1>2. a + (b + 1) * n = c + (d + 1) * n
  BY Index
<1> HIDE DEF n
<1>3. (b + 1) * n = b * n + n /\ (d + 1) * n = d * n + n /\ b * n \in Int /\ d * n \in Int
  BY <1>1, Times
<1>4. CASE b = d
  BY <1>1, <1>2, <1>3, <1>4
<1>5. CASE b = d + 1
  <2>1. b * n = d * n + n
    BY <1>1, <1>5, Times
  <2> QED
    BY <1>1, <1>2, <1>3, <1>5, <2>1 DEF n
<1>6. CASE d = b + 1
  <2>1. d * n = b * n + n
    BY <1>1, <1>6, Times
  <2> QED
    BY <1>1, <1>2, <1>3, <1>6, <2>1 DEF n
<1>7. CASE b >= d + 2
  <2>1. b * n >= (d + 2) * n /\ (d + 2) * n = d * n + 2 * n
    BY <1>1, <1>7, Times
  <2> QED
    BY <1>1, <1>2, <1>3, <2>1
<1>8. CASE d >= b + 2
  <2>1. d * n >= (b + 2) * n /\ (b + 2) * n = b * n + 2 * n
    BY <1>1, <1>8, Times
  <2> QED
    BY <1>1, <1>2, <1>3, <2>1
<1> QED
  BY <1>4, <1>5, <1>6, <1>7, <1>8

LEMMA InnerIsAlone ==
  ASSUME Dims, NEW a \in Int, NEW b \in Int, Inside(a, b),
         NEW c \in 0 .. 2 * maze_x_dim, NEW d \in Int, MAZE_INDEX(a, b) = MAZE_INDEX(c, d)
  PROVE  a = c /\ b = d
<1>1. a \in 0 .. 2 * maze_x_dim /\ a # 0 /\ a # 2 * maze_x_dim
  BY DEF Inside, Dims
<1> QED
  BY <1>1, IndexIsShared

LEMMA RoomIsInside ==
  ASSUME Dims, NEW p \in RoomsAt
  PROVE  /\ p = <<p[1], p[2]>> /\ p[1] \in Nat /\ p[2] \in Nat /\ Inside(p[1], p[2])
         /\ p[1] \in Odd(2 * maze_x_dim) /\ p[2] \in Odd(2 * maze_y_dim)
<1>1. p = <<p[1], p[2]>> /\ p[1] \in Odd(2 * maze_x_dim) /\ p[2] \in Odd(2 * maze_y_dim)
  BY DEF RoomsAt
<1>2. /\ p[1] \in 1 .. 2 * maze_x_dim /\ p[1] % 2 = 1
      /\ p[2] \in 1 .. 2 * maze_y_dim /\ p[2] % 2 = 1
  BY <1>1 DEF Odd
<1>3. \A n \in Nat \ {0} : \A k \in 1 .. 2 * n : k % 2 = 1 => k \in 1 .. 2 * n - 1
  OBVIOUS
<1> QED
  BY <1>1, <1>2, <1>3 DEF Inside, Dims

LEMMA RoomsDiffer ==
  ASSUME Dims, NEW p \in RoomsAt, NEW q \in RoomsAt, Room(p) = Room(q)
  PROVE  p = q
<1>1. /\ p = <<p[1], p[2]>> /\ p[1] \in Nat /\ p[2] \in Nat /\ Inside(p[1], p[2])
      /\ q = <<q[1], q[2]>> /\ q[1] \in Nat /\ q[2] \in Nat /\ Inside(q[1], q[2])
  BY RoomIsInside, Zenon
<1>2. MAZE_INDEX(p[1], p[2]) = MAZE_INDEX(q[1], q[2])
  BY DEF Room
<1>3. q[1] \in 0 .. 2 * maze_x_dim
  BY <1>1 DEF Inside, Dims
<1>4. p[1] = q[1] /\ p[2] = q[2]
  <2>1. \A a, b, d \in Int, c \in 0 .. 2 * maze_x_dim :
          Inside(a, b) /\ MAZE_INDEX(a, b) = MAZE_INDEX(c, d) => a = c /\ b = d
    BY InnerIsAlone
  <2>2. p[1] \in Int /\ p[2] \in Int /\ q[2] \in Int
    BY <1>1
  <2> QED
    BY <1>1, <1>2, <1>3, <2>1, <2>2, Zenon
<1> QED
  BY <1>1, <1>4

\* What lies between two points inside.
LEMMA BetweenIsInside ==
  ASSUME Dims, NEW a \in Int, NEW b \in Int, Inside(a, b), NEW d,
         Inside(a + 2 * StepX(d), b + 2 * StepY(d))
  PROVE  Inside(a + StepX(d), b + StepY(d))
<1>1. StepX(d) \in {-1, 0, 1} /\ StepY(d) \in {-1, 0, 1}
  BY Steps
<1> QED
  BY <1>1 DEF Inside, Dims

LEMMA RoomBeyond ==
  ASSUME Dims, NEW a \in Odd(2 * maze_x_dim), NEW b \in Odd(2 * maze_y_dim), NEW d,
         Inside(a + 2 * StepX(d), b + 2 * StepY(d))
  PROVE  /\ a + 2 * StepX(d) \in Odd(2 * maze_x_dim) /\ b + 2 * StepY(d) \in Odd(2 * maze_y_dim)
         /\ <<a + 2 * StepX(d), b + 2 * StepY(d)>> \in RoomsAt
         /\ Inside(a, b) /\ Inside(a + StepX(d), b + StepY(d))
<1>1. StepX(d) \in {-1, 0, 1} /\ StepY(d) \in {-1, 0, 1}
  BY Steps
<1>2. \A k \in Nat, e \in {-1, 0, 1} : k % 2 = 1 /\ k + 2 * e >= 0 => (k + 2 * e) % 2 = 1
  OBVIOUS
<1>3. /\ a \in 1 .. 2 * maze_x_dim /\ a % 2 = 1 /\ b \in 1 .. 2 * maze_y_dim /\ b % 2 = 1
  BY DEF Odd
<1>4. /\ a + 2 * StepX(d) \in 1 .. 2 * maze_x_dim - 1
      /\ b + 2 * StepY(d) \in 1 .. 2 * maze_y_dim - 1
  BY DEF Inside
<1>5. /\ a + 2 * StepX(d) \in Odd(2 * maze_x_dim) /\ b + 2 * StepY(d) \in Odd(2 * maze_y_dim)
  BY <1>1, <1>2, <1>3, <1>4 DEF Odd, Dims
<1>6. Inside(a, b)
  <2>1. <<a, b>> \in RoomsAt
    BY DEF RoomsAt
  <2> QED
    BY <2>1, RoomIsInside
<1>7. Inside(a + StepX(d), b + StepY(d))
  BY <1>3, <1>6, BetweenIsInside
<1> QED
  BY <1>5, <1>6, <1>7 DEF RoomsAt

\* Points inside may lose their walls.
LEMMA InnerWallsGo ==
  ASSUME Dims, BoundaryStands, maze_x_dim' = maze_x_dim, maze_y_dim' = maze_y_dim,
         \A i \in wall : i \in wall' \/ \E a, b \in Int : Inside(a, b) /\ i = MAZE_INDEX(a, b)
  PROVE  BoundaryStands'
<1> SUFFICES ASSUME NEW c \in 0 .. 2 * maze_x_dim, NEW d \in 0 .. 2 * maze_y_dim, ~Inside(c, d)
             PROVE  MAZE_INDEX(c, d) \in wall'
  BY DEF BoundaryStands, Inside, MAZE_INDEX
<1>1. MAZE_INDEX(c, d) \in wall
  BY DEF BoundaryStands
<1>2. ASSUME NEW a \in Int, NEW b \in Int, Inside(a, b), MAZE_INDEX(c, d) = MAZE_INDEX(a, b)
      PROVE  FALSE
  <2>1. d \in Int
    OBVIOUS
  <2>2. a = c /\ b = d
    BY <1>2, <2>1, InnerIsAlone
  <2> QED
    BY <1>2, <2>2
<1> QED
  BY <1>1, <1>2

-----------------------------------------------------------------------------
(* make_maze *)

LEMMA NextInScanIsARoom ==
  ASSUME Dims, x \in Odd(2 * maze_x_dim), y \in Odd(2 * maze_y_dim)
  PROVE  NextInScan \in RoomsAt
<1>1. ASSUME NEW n \in Nat \ {0}, NEW k \in Odd(2 * n)
      PROVE  /\ k + 2 <= 2 * n => k + 2 \in Odd(2 * n)
             /\ k + 2 > 2 * n => (k + 2) - 2 * n \in Odd(2 * n)
  <2>1. k \in 1 .. 2 * n /\ k % 2 = 1
    BY DEF Odd
  <2>2. (k + 2) % 2 = 1 /\ k <= 2 * n - 1
    BY <2>1
  <2>3. k + 2 > 2 * n => (k + 2) - 2 * n = 1
    BY <2>1, <2>2
  <2>4. 1 % 2 = 1 /\ 1 \in 1 .. 2 * n
    OBVIOUS
  <2> QED
    BY <2>1, <2>2, <2>3, <2>4 DEF Odd
<1>2. x \in Nat /\ y \in Nat
  BY DEF Odd
<1>3. /\ maze_x_dim * 2 = 2 * maze_x_dim
      /\ x + 2 <= 2 * maze_x_dim => x + 2 \in Odd(2 * maze_x_dim)
      /\ x + 2 > 2 * maze_x_dim => (x + 2) - 2 * maze_x_dim \in Odd(2 * maze_x_dim)
      /\ y + 2 <= 2 * maze_y_dim => y + 2 \in Odd(2 * maze_y_dim)
      /\ y + 2 > 2 * maze_y_dim => (y + 2) - 2 * maze_y_dim \in Odd(2 * maze_y_dim)
  BY <1>1 DEF Dims
<1>4. maze_x_dim \in Nat /\ maze_y_dim \in Nat
  BY DEF Dims
<1>5. x + 2 <= 2 * maze_x_dim \/ x + 2 > 2 * maze_x_dim
  BY <1>2, <1>4
<1>6. y + 2 <= 2 * maze_y_dim \/ y + 2 > 2 * maze_y_dim
  BY <1>2, <1>4
<1>7. CASE x + 2 <= 2 * maze_x_dim
  BY <1>3, <1>7 DEF NextInScan, RoomsAt
<1>8. CASE x + 2 > 2 * maze_x_dim
  <2>1. ~(x + 2 <= maze_x_dim * 2)
    BY <1>2, <1>3, <1>4, <1>8
  <2>2. NextInScan = <<(x + 2) - maze_x_dim * 2, IF y + 2 <= 2 * maze_y_dim THEN y + 2 ELSE (y + 2) - 2 * maze_y_dim>>
    BY <2>1, Zenon DEF NextInScan
  <2> QED
    BY <1>3, <1>6, <1>8, <2>2 DEF RoomsAt
<1> QED
  BY <1>5, <1>7, <1>8

LEMMA FirstOpenOpens ==
  ASSUME NEW p, \E d \in 0 .. 3 : Opens(p, d)
  PROVE  FirstOpen(p) \in 0 .. 3 /\ Opens(p, FirstOpen(p))
<1>1. Opens(p, 0) \/ Opens(p, 1) \/ Opens(p, 2) \/ Opens(p, 3)
  <2>1. \A d \in 0 .. 3 : d = 0 \/ d = 1 \/ d = 2 \/ d = 3
    OBVIOUS
  <2> QED
    BY <2>1
<1> QED
  BY <1>1 DEF FirstOpen

\* What Connect does to the room it looks at.
Connected(p, d) == wall \ {MAZE_INDEX(p[1] + StepX(d), p[2] + StepY(d))}

LEMMA ConnectRoom ==
  ASSUME Dims, x \in Odd(2 * maze_x_dim), y \in Odd(2 * maze_y_dim), Connect
  PROVE  \E p \in RoomsAt :
           /\ x' = p[1] /\ y' = p[2]
           /\ \/ UNCHANGED <<wall, reach, remaining>>
              \/ /\ Room(p) \notin reach
                 /\ \E d \in 0 .. 3 :
                      /\ Opens(p, d)
                      /\ wall' = Connected(p, d)
                      /\ reach' = reach \cup mark_maze_area(p, Connected(p, d), reach)
                      /\ remaining' = remaining - Cardinality(mark_maze_area(p, Connected(p, d), reach))
<1> DEFINE scanned == remaining < SCAN_BELOW \/ trials >= MAX_TRIALS
           S == IF scanned THEN {NextInScan} ELSE {q \in RoomsAt : Room(q) \notin reach}
<1>1. S \subseteq RoomsAt
  BY NextInScanIsARoom
<1>2. PICK p \in S :
        /\ x' = p[1] /\ y' = p[2]
        /\ IF Room(p) \notin reach /\ \E d \in 0 .. 3 : Opens(p, d)
           THEN LET d == FirstOpen(p)
                    walls == wall \ {MAZE_INDEX(p[1] + StepX(d), p[2] + StepY(d))}
                IN /\ wall' = walls
                   /\ reach' = reach \cup Reached(p, walls)
                   /\ remaining' = remaining - Cardinality(Reached(p, walls))
           ELSE UNCHANGED <<wall, reach, remaining>>
  BY Zenon DEF Connect
<1>3. p \in RoomsAt
  BY <1>1
<1>4. CASE Room(p) \notin reach /\ \E d \in 0 .. 3 : Opens(p, d)
  <2>1. FirstOpen(p) \in 0 .. 3 /\ Opens(p, FirstOpen(p))
    BY <1>4, FirstOpenOpens
  <2>2. /\ wall' = Connected(p, FirstOpen(p))
        /\ reach' = reach \cup mark_maze_area(p, Connected(p, FirstOpen(p)), reach)
        /\ remaining' = remaining - Cardinality(mark_maze_area(p, Connected(p, FirstOpen(p)), reach))
    BY <1>2, <1>4 DEF Connected, Reached
  <2> QED
    BY <1>2, <1>3, <1>4, <2>1, <2>2, Zenon
<1>5. CASE ~(Room(p) \notin reach /\ \E d \in 0 .. 3 : Opens(p, d))
  BY <1>2, <1>3, <1>5
<1> QED
  BY <1>4, <1>5

LEMMA DigKeepsMaze ==
  ASSUME MazeInv, pc = "dig", pc' = "dig", level' = level, Dig
  PROVE  MazeInv'
<1>1. /\ Dims /\ BoundaryStands
      /\ maze_x_dim >= MAZE_MIN_X_DIM /\ maze_y_dim >= MAZE_MIN_Y_DIM
      /\ x \in Odd(2 * maze_x_dim) /\ y \in Odd(2 * maze_y_dim) /\ level \in Nat \ {0}
  BY DEF MazeInv, Dims
<1>2. maze_x_dim' = maze_x_dim /\ maze_y_dim' = maze_y_dim
  BY DEF Dig, DropWorm, MoveWorm, EndWorm, Connect
<1>3. SUFFICES /\ x' \in Odd(2 * maze_x_dim) /\ y' \in Odd(2 * maze_y_dim)
               /\ \A i \in wall : i \in wall' \/ \E a, b \in Int : Inside(a, b) /\ i = MAZE_INDEX(a, b)
  <2>1. BoundaryStands'
    BY <1>1, <1>2, <1>3, InnerWallsGo
  <2> QED
    BY <1>1, <1>2, <1>3, <2>1 DEF MazeInv, Dims, Odd, Furnished
<1>4. CASE DropWorm
  <2>1. PICK p \in RoomsAt : x' = p[1] /\ y' = p[2] /\ wall' = wall \ {Room(p)}
    BY <1>4 DEF DropWorm
  <2>2. /\ Inside(p[1], p[2]) /\ p[1] \in Int /\ p[2] \in Int
        /\ p[1] \in Odd(2 * maze_x_dim) /\ p[2] \in Odd(2 * maze_y_dim)
    BY <1>1, RoomIsInside
  <2> QED
    BY <2>1, <2>2 DEF Room
<1>5. CASE MoveWorm
  <2>1. PICK d \in 0 .. 3 :
          /\ Inside(x + 2 * StepX(d), y + 2 * StepY(d))
          /\ x' = x + 2 * StepX(d) /\ y' = y + 2 * StepY(d)
          /\ wall' = wall \ {MAZE_INDEX(x + 2 * StepX(d), y + 2 * StepY(d)), MAZE_INDEX(x + StepX(d), y + StepY(d))}
    BY <1>5 DEF MoveWorm
  <2>2. /\ x + 2 * StepX(d) \in Odd(2 * maze_x_dim) /\ y + 2 * StepY(d) \in Odd(2 * maze_y_dim)
        /\ Inside(x + StepX(d), y + StepY(d))
    BY <1>1, <2>1, RoomBeyond
  <2>3. /\ x + 2 * StepX(d) \in Int /\ y + 2 * StepY(d) \in Int
        /\ x + StepX(d) \in Int /\ y + StepY(d) \in Int
    BY <2>1, <2>2 DEF Inside
  <2> QED
    BY <2>1, <2>2, <2>3
<1>6. CASE EndWorm
  BY <1>1, <1>6 DEF EndWorm
<1>7. CASE Connect
  <2>1. PICK p \in RoomsAt :
          /\ x' = p[1] /\ y' = p[2]
          /\ wall' = wall \/ \E d \in 0 .. 3 : Opens(p, d) /\ wall' = Connected(p, d)
    BY <1>1, <1>7, ConnectRoom
  <2>2. p[1] \in Odd(2 * maze_x_dim) /\ p[2] \in Odd(2 * maze_y_dim)
    BY <1>1, RoomIsInside
  <2>3. CASE wall' = wall
    BY <2>1, <2>2, <2>3
  <2>4. ASSUME NEW d \in 0 .. 3, Opens(p, d), wall' = Connected(p, d)
        PROVE  \A i \in wall : i \in wall' \/ \E a, b \in Int : Inside(a, b) /\ i = MAZE_INDEX(a, b)
    <3>1. Inside(p[1] + 2 * StepX(d), p[2] + 2 * StepY(d))
      BY <2>4 DEF Opens
    <3>2. Inside(p[1] + StepX(d), p[2] + StepY(d))
      BY <1>1, <2>2, <3>1, RoomBeyond
    <3>3. p[1] + StepX(d) \in Int /\ p[2] + StepY(d) \in Int
      BY <3>2 DEF Inside
    <3> QED
      BY <2>4, <3>2, <3>3 DEF Connected
  <2> QED
    BY <2>1, <2>2, <2>3, <2>4
<1> QED
  BY <1>4, <1>5, <1>6, <1>7 DEF Dig

-----------------------------------------------------------------------------
(* mark_maze_area *)

LEMMA OddCount ==
  ASSUME NEW n \in Nat
  PROVE  IsFiniteSet(Odd(2 * n)) /\ Cardinality(Odd(2 * n)) = n
<1> DEFINE f == [i \in 1 .. n |-> 2 * i - 1]
<1>1. f \in [1 .. n -> Odd(2 * n)]
  <2>1. \A i \in 1 .. n : 2 * i - 1 \in 1 .. 2 * n /\ (2 * i - 1) % 2 = 1
    OBVIOUS
  <2> QED
    BY <2>1 DEF Odd
<1>2. \A a, b \in 1 .. n : f[a] = f[b] => a = b
  OBVIOUS
<1>3. \A t \in Odd(2 * n) : \E i \in 1 .. n : f[i] = t
  <2> SUFFICES ASSUME NEW t \in Odd(2 * n) PROVE \E i \in 1 .. n : f[i] = t
    OBVIOUS
  <2>1. t \in 1 .. 2 * n /\ t % 2 = 1
    BY DEF Odd
  <2>2. (t + 1) \div 2 \in 1 .. n /\ 2 * ((t + 1) \div 2) - 1 = t
    BY <2>1
  <2> QED
    BY <2>2
<1>4. f \in Bijection(1 .. n, Odd(2 * n))
  BY <1>1, <1>2, <1>3, Fun_IsBij
<1>5. ExistsBijection(1 .. n, Odd(2 * n))
  BY <1>4 DEF ExistsBijection
<1>6. IsFiniteSet(1 .. n) /\ Cardinality(1 .. n) = n
  BY FS_Interval
<1> QED
  BY <1>5, <1>6, FS_Bijection

LEMMA RoomCount ==
  ASSUME Dims
  PROVE  IsFiniteSet(Rooms) /\ Cardinality(Rooms) = maze_x_dim * maze_y_dim
<1> DEFINE f == [p \in RoomsAt |-> Room(p)]
<1>1. IsFiniteSet(RoomsAt) /\ Cardinality(RoomsAt) = maze_x_dim * maze_y_dim
  BY OddCount, FS_Product DEF Dims, RoomsAt
<1>2. f \in [RoomsAt -> Rooms]
  BY DEF Rooms
<1>3. \A p, q \in RoomsAt : f[p] = f[q] => p = q
  BY RoomsDiffer
<1>4. \A t \in Rooms : \E p \in RoomsAt : f[p] = t
  BY DEF Rooms
<1>5. f \in Bijection(RoomsAt, Rooms)
  BY <1>2, <1>3, <1>4, Fun_IsBij
<1>6. ExistsBijection(RoomsAt, Rooms)
  BY <1>5 DEF ExistsBijection
<1> QED
  BY <1>1, <1>6, FS_Bijection

LEMMA AreaIsRooms ==
  ASSUME NEW p, NEW walls, NEW reached
  PROVE  mark_maze_area(p, walls, reached) \subseteq Rooms
BY DEF mark_maze_area, Area, Rooms

\* A search finds no room that was reached before.
LEMMA AreaIsNew ==
  ASSUME Dims, NEW p \in RoomsAt, NEW walls, NEW reached, Room(p) \notin reached
  PROVE  mark_maze_area(p, walls, reached) \cap reached = {}
<1> DEFINE s == {q \in RoomsAt : Room(q) \notin reached}
<1>1. s \in SUBSET RoomsAt /\ p \in s
  OBVIOUS
<1>2. Closed(s, walls, reached)
  BY DEF Closed
<1>3. Area(p, walls, reached) \subseteq s
  BY <1>1, <1>2 DEF Area
<1> QED
  BY <1>3 DEF mark_maze_area

\* It may go on from any room that the first can reach.
LEMMA SearchGrows ==
  ASSUME Dims, NEW walls, NEW fewer \in SUBSET walls, NEW reached,
         reached \subseteq mark_maze_area(<<1, 1>>, walls, {}),
         NEW p \in RoomsAt, NEW q \in RoomsAt, Room(q) \in reached, Joined(q, p, fewer)
  PROVE  reached \cup mark_maze_area(p, fewer, reached) \subseteq mark_maze_area(<<1, 1>>, fewer, {})
<1>1. \A s : Closed(s, fewer, {}) => Closed(s, walls, {}) /\ Closed(s, fewer, reached)
  BY DEF Closed, Joined
<1>2. Area(<<1, 1>>, walls, {}) \subseteq Area(<<1, 1>>, fewer, {})
  BY <1>1 DEF Area
<1>3. reached \subseteq mark_maze_area(<<1, 1>>, fewer, {})
  BY <1>2 DEF mark_maze_area
<1>4. q \in Area(<<1, 1>>, fewer, {})
  <2>1. PICK r \in Area(<<1, 1>>, fewer, {}) : Room(q) = Room(r)
    BY <1>3 DEF mark_maze_area
  <2>2. r \in RoomsAt
    BY <2>1 DEF Area
  <2> QED
    BY <2>1, <2>2, RoomsDiffer
<1>5. \A s \in SUBSET RoomsAt : <<1, 1>> \in s /\ Closed(s, fewer, {}) => p \in s
  <2> SUFFICES ASSUME NEW s \in SUBSET RoomsAt, <<1, 1>> \in s, Closed(s, fewer, {})
               PROVE  p \in s
    OBVIOUS
  <2>1. q \in s
    BY <1>4 DEF Area
  <2> QED
    BY <2>1 DEF Closed
<1>6. Area(p, fewer, reached) \subseteq Area(<<1, 1>>, fewer, {})
  BY <1>1, <1>5 DEF Area
<1>7. mark_maze_area(p, fewer, reached) \subseteq mark_maze_area(<<1, 1>>, fewer, {})
  BY <1>6 DEF mark_maze_area
<1> QED
  BY <1>3, <1>7

\* When as many rooms are reached as there are, all are.
LEMMA AllAreReached ==
  ASSUME Dims, NEW walls, NEW reached, reached \subseteq mark_maze_area(<<1, 1>>, walls, {}),
         Cardinality(reached) >= maze_x_dim * maze_y_dim
  PROVE  mark_maze_area(<<1, 1>>, walls, {}) = Rooms
<1> DEFINE M == mark_maze_area(<<1, 1>>, walls, {})
<1>1. M \in SUBSET Rooms /\ IsFiniteSet(Rooms) /\ Cardinality(Rooms) = maze_x_dim * maze_y_dim
  BY AreaIsRooms, RoomCount
<1> HIDE DEF M
<1>2. IsFiniteSet(M) /\ Cardinality(M) <= Cardinality(Rooms) /\ Cardinality(M) \in Nat /\ Cardinality(Rooms) \in Nat
  BY <1>1, FS_Subset, FS_CardinalityType
<1>3. reached \in SUBSET M
  BY DEF M
<1>4. Cardinality(reached) <= Cardinality(M) /\ Cardinality(reached) \in Nat
  BY <1>2, <1>3, FS_Subset, FS_CardinalityType
<1>5. Cardinality(Rooms) = Cardinality(M)
  BY <1>1, <1>2, <1>4
<1>6. Rooms = M
  BY <1>1, <1>5, FS_Subset
<1> QED
  BY <1>6 DEF M

LEMMA SearchCounts ==
  ASSUME Dims, NEW p \in RoomsAt, NEW walls, NEW reached \in SUBSET Rooms, Room(p) \notin reached
  PROVE  Cardinality(reached \cup mark_maze_area(p, walls, reached))
           = Cardinality(reached) + Cardinality(mark_maze_area(p, walls, reached))
<1> DEFINE R == mark_maze_area(p, walls, reached)
<1>1. R \in SUBSET Rooms /\ R \cap reached = {} /\ IsFiniteSet(Rooms)
  BY AreaIsRooms, AreaIsNew, RoomCount
<1> HIDE DEF R
<1>2. IsFiniteSet(R) /\ IsFiniteSet(reached)
  BY <1>1, FS_Subset
<1>3. Cardinality(reached \cup R) = Cardinality(reached) + Cardinality(R) - Cardinality(reached \cap R)
  BY <1>2, FS_Union
<1>4. Cardinality(reached \cap R) = 0
  <2>1. reached \cap R = {}
    BY <1>1
  <2> QED
    BY <2>1, FS_EmptySet
<1>5. Cardinality(R) \in Nat /\ Cardinality(reached) \in Nat
  BY <1>2, FS_CardinalityType
<1>6. Cardinality(reached \cup R) = Cardinality(reached) + Cardinality(R)
  BY <1>3, <1>4, <1>5
<1> QED
  BY <1>6 DEF R

LEMMA DigKeepsSearch ==
  ASSUME MazeInv, SearchInv, pc = "dig", pc' = "dig", Dig
  PROVE  SearchInv'
<1>1. /\ Dims /\ x \in Odd(2 * maze_x_dim) /\ y \in Odd(2 * maze_y_dim) /\ remaining \in Int
  BY DEF MazeInv, SearchInv, Dims
<1>2. maze_x_dim' = maze_x_dim /\ maze_y_dim' = maze_y_dim
  BY DEF Dig, DropWorm, MoveWorm, EndWorm, Connect
<1>3. /\ RoomsAt' = RoomsAt /\ \A q : Room(q)' = Room(q)
      /\ \A a, b : MAZE_INDEX(a, b)' = MAZE_INDEX(a, b)
  BY <1>2 DEF RoomsAt, Odd, Room, MAZE_INDEX
<1>4. mark_maze_area(<<1, 1>>, wall, {})' = mark_maze_area(<<1, 1>>, wall', {})
  BY <1>2, <1>3 DEF mark_maze_area, Area, Closed, Joined, RoomsAt, Odd, Room, MAZE_INDEX
<1>5. CASE DropWorm
  BY <1>1, <1>5 DEF DropWorm, SearchInv
<1>6. CASE MoveWorm
  BY <1>1, <1>6 DEF MoveWorm, SearchInv
<1>7. CASE EndWorm
  <2>1. CASE remaining > 0 /\ gen' = "drop" /\ UNCHANGED <<remaining, reach>>
    BY <1>1, <1>7, <2>1 DEF EndWorm, SearchInv
  <2>2. CASE /\ gen' = "connect"
             /\ reach' = mark_maze_area(<<1, 1>>, wall, {})
             /\ remaining' = maze_x_dim * maze_y_dim - Cardinality(reach')
    <3>1. wall' = wall
      BY <1>7 DEF EndWorm
    <3>2. reach' \in SUBSET Rooms /\ IsFiniteSet(Rooms)
      BY <1>1, <2>2, AreaIsRooms, RoomCount
    <3>3. Cardinality(reach') \in Nat
      BY <3>2, FS_Subset, FS_CardinalityType
    <3>4. maze_x_dim * maze_y_dim \in Int
      BY <1>1, Times DEF Dims
    <3> QED
      BY <1>2, <1>4, <2>2, <3>1, <3>3, <3>4 DEF SearchInv
  <2> QED
    BY <1>7, <2>1, <2>2 DEF EndWorm
<1>8. CASE Connect
  <2>1. PICK p \in RoomsAt :
          \/ UNCHANGED <<wall, reach, remaining>>
          \/ /\ Room(p) \notin reach
             /\ \E d \in 0 .. 3 :
                  /\ Opens(p, d)
                  /\ wall' = Connected(p, d)
                  /\ reach' = reach \cup mark_maze_area(p, Connected(p, d), reach)
                  /\ remaining' = remaining - Cardinality(mark_maze_area(p, Connected(p, d), reach))
    BY <1>1, <1>8, ConnectRoom
  <2>2. /\ gen = "connect" /\ reach \subseteq mark_maze_area(<<1, 1>>, wall, {})
        /\ remaining = maze_x_dim * maze_y_dim - Cardinality(reach)
        /\ gen' = IF remaining' > 0 THEN "connect" ELSE "furnish"
    BY <1>8 DEF SearchInv, Connect
  <2>3. /\ reach' \subseteq mark_maze_area(<<1, 1>>, wall', {})
        /\ remaining' = maze_x_dim * maze_y_dim - Cardinality(reach')
        /\ remaining' \in Int
    <3>1. CASE UNCHANGED <<wall, reach, remaining>>
      BY <1>1, <2>2, <3>1
    <3>2. ASSUME NEW d \in 0 .. 3, Room(p) \notin reach, Opens(p, d),
                 wall' = Connected(p, d),
                 reach' = reach \cup mark_maze_area(p, Connected(p, d), reach),
                 remaining' = remaining - Cardinality(mark_maze_area(p, Connected(p, d), reach))
          PROVE  /\ reach' \subseteq mark_maze_area(<<1, 1>>, wall', {})
                 /\ remaining' = maze_x_dim * maze_y_dim - Cardinality(reach')
                 /\ remaining' \in Int
      <4> DEFINE q == <<p[1] + 2 * StepX(d), p[2] + 2 * StepY(d)>>
                 fewer == Connected(p, d)
                 R == mark_maze_area(p, fewer, reach)
      <4>1. /\ p[1] \in Odd(2 * maze_x_dim) /\ p[2] \in Odd(2 * maze_y_dim)
            /\ p[1] \in Nat /\ p[2] \in Nat
        BY <1>1, RoomIsInside
      <4>2. Inside(q[1], q[2]) /\ Room(q) \in reach
        BY <3>2 DEF Opens
      <4>3. q \in RoomsAt
        BY <1>1, <4>1, <4>2, RoomBeyond
      <4>4. fewer \in SUBSET wall
        BY DEF Connected
      <4>5. Joined(q, p, fewer)
        <5> DEFINE e == (d + 2) % 4
        <5>1. e \in 0 .. 3 /\ StepX(e) + StepX(d) = 0 /\ StepY(e) + StepY(d) = 0
          <6>1. d = 0 \/ d = 1 \/ d = 2 \/ d = 3
            OBVIOUS
          <6>2. (0 + 2) % 4 = 2 /\ (1 + 2) % 4 = 3 /\ (2 + 2) % 4 = 0 /\ (3 + 2) % 4 = 1
            OBVIOUS
          <6> QED
            BY <6>1, <6>2, Steps
        <5>2. /\ StepX(d) \in Int /\ StepY(d) \in Int
              /\ StepX(e) \in Int /\ StepY(e) \in Int
          <6>1. \A i : StepX(i) \in {-1, 0, 1} /\ StepY(i) \in {-1, 0, 1}
            BY Steps
          <6> QED
            BY <6>1
        <5> HIDE DEF e
        <5>3. /\ p[1] = q[1] + 2 * StepX(e) /\ p[2] = q[2] + 2 * StepY(e)
              /\ q[1] + StepX(e) = p[1] + StepX(d) /\ q[2] + StepY(e) = p[2] + StepY(d)
          BY <4>1, <5>1, <5>2
        <5>4. MAZE_INDEX(p[1] + StepX(d), p[2] + StepY(d)) \notin fewer
          BY DEF Connected
        <5>5. MAZE_INDEX(q[1] + StepX(e), q[2] + StepY(e)) \notin fewer
          BY <5>3, <5>4
        <5> HIDE DEF q, fewer
        <5> QED
          BY <5>1, <5>3, <5>5 DEF Joined
      <4> HIDE DEF q, fewer
      <4>6. reach \cup R \subseteq mark_maze_area(<<1, 1>>, fewer, {})
        BY <1>1, <2>2, <4>2, <4>3, <4>4, <4>5, SearchGrows
      <4>7. reach \in SUBSET Rooms /\ IsFiniteSet(Rooms)
        BY <1>1, <2>2, AreaIsRooms, RoomCount
      <4>8. Cardinality(reach \cup R) = Cardinality(reach) + Cardinality(R)
        BY <1>1, <3>2, <4>7, SearchCounts
      <4>9. Cardinality(reach) \in Nat /\ Cardinality(R) \in Nat
        <5>1. R \in SUBSET Rooms
          BY AreaIsRooms
        <5> QED
          BY <4>7, <5>1, FS_Subset, FS_CardinalityType
      <4>10. maze_x_dim * maze_y_dim \in Int
        BY <1>1, Times DEF Dims
      <4>11. wall' = fewer /\ reach' = reach \cup R /\ remaining' = remaining - Cardinality(R)
        BY <3>2 DEF fewer
      <4> HIDE DEF R
      <4> QED
        BY <1>1, <2>2, <4>6, <4>8, <4>9, <4>10, <4>11
    <3> QED
      BY <2>1, <3>1, <3>2
  <2> QED
    BY <1>2, <1>4, <2>2, <2>3 DEF SearchInv
<1> QED
  BY <1>5, <1>6, <1>7, <1>8 DEF Dig

-----------------------------------------------------------------------------
(* The invariant of the maze *)

LEMMA ClampedRange ==
  ASSUME level \in Nat \ {0}
  PROVE  /\ Clamped(MAZE_MIN_X_DIM, MAZE_MAX_X_DIM) \in Nat \ {0}
         /\ Clamped(MAZE_MIN_X_DIM, MAZE_MAX_X_DIM) >= MAZE_MIN_X_DIM
         /\ Clamped(MAZE_MIN_Y_DIM, MAZE_MAX_Y_DIM) \in Nat \ {0}
         /\ Clamped(MAZE_MIN_Y_DIM, MAZE_MAX_Y_DIM) >= MAZE_MIN_Y_DIM
BY MazeDimAssumption DEF Clamped, Smaller

LEMMA PrepareKeepsMaze ==
  ASSUME MazeInv, Prepare
  PROVE  MazeInv'
<1> DEFINE xd == Clamped(MAZE_MIN_X_DIM, MAZE_MAX_X_DIM)
           yd == Clamped(MAZE_MIN_Y_DIM, MAZE_MAX_Y_DIM)
<1>1. /\ xd \in Nat \ {0} /\ xd >= MAZE_MIN_X_DIM
      /\ yd \in Nat \ {0} /\ yd >= MAZE_MIN_Y_DIM
      /\ level \in Nat \ {0}
  BY ClampedRange DEF MazeInv
<1>2. /\ maze_x_dim' = xd /\ maze_y_dim' = yd /\ wall' = Array(xd, yd)
      /\ x' = 1 /\ y' = 1 /\ pc' = "dig" /\ level' = level
  BY DEF Prepare, BeginMaze
<1> HIDE DEF xd, yd
<1>3. 1 \in Odd(2 * xd) /\ 1 \in Odd(2 * yd)
  <2>1. 1 % 2 = 1
    OBVIOUS
  <2> QED
    BY <1>1, <2>1 DEF Odd
<1>4. ASSUME NEW a \in 0 .. 2 * xd, NEW b \in 0 .. 2 * yd
      PROVE  a + (b + 1) * xd * 2 \in Array(xd, yd)
  <2> DEFINE n == 2 * xd
  <2>1. n \in Nat \ {0} /\ a \in 0 .. n
    BY <1>1
  <2>2. (b + 1) * xd * 2 = (b + 1) * n
    BY <1>1
  <2>3. 2 * xd * (2 * yd + 3) = n * (2 * yd + 3)
    BY <1>1
  <2> HIDE DEF n
  <2>4. 0 * n <= (b + 1) * n /\ (b + 1) * n <= (2 * yd + 1) * n
    BY <1>1, <2>1, Times
  <2>5. (2 * yd + 3) * n = (2 * yd + 1) * n + 2 * n /\ n * (2 * yd + 3) = (2 * yd + 3) * n
    BY <1>1, <2>1, Times
  <2>6. (b + 1) * n \in Int /\ (2 * yd + 1) * n \in Int
    BY <1>1, <2>1, Times
  <2>7. a + (b + 1) * n \in 0 .. n * (2 * yd + 3)
    BY <1>1, <2>1, <2>4, <2>5, <2>6, Times
  <2> QED
    BY <2>2, <2>3, <2>7 DEF Array
<1>5. BoundaryStands'
  BY <1>2, <1>4 DEF BoundaryStands, MAZE_INDEX, Inside
<1> QED
  BY <1>1, <1>2, <1>3, <1>5 DEF MazeInv, Furnished

LEMMA FurnishKeepsMaze ==
  ASSUME MazeInv, pc = "dig", NEW k, Furnish(k), level' = level
  PROVE  MazeInv'
<1>1. /\ Dims /\ BoundaryStands
      /\ maze_x_dim >= MAZE_MIN_X_DIM /\ maze_y_dim >= MAZE_MIN_Y_DIM /\ level \in Nat \ {0}
  BY DEF MazeInv, Dims
<1>2. /\ maze_x_dim' = maze_x_dim /\ maze_y_dim' = maze_y_dim
      /\ wall' = IF GOD_MODE THEN wall \ InnerPoints ELSE wall
      /\ fruit' \in SUBSET Rooms /\ Cardinality(fruit') = k /\ n_fruits' = k
      /\ exit' \in Rooms /\ x' = 1 /\ y' = 1
  BY DEF Furnish
<1>3. \A i \in wall : i \in wall' \/ \E a, b \in Int : Inside(a, b) /\ i = MAZE_INDEX(a, b)
  <2>1. ASSUME NEW i \in InnerPoints PROVE \E a, b \in Int : Inside(a, b) /\ i = MAZE_INDEX(a, b)
    <3>1. PICK a \in 1 .. 2 * maze_x_dim - 1, b \in 1 .. 2 * maze_y_dim - 1 : i = MAZE_INDEX(a, b)
      BY DEF InnerPoints
    <3>2. a \in Int /\ b \in Int /\ Inside(a, b)
      BY DEF Inside
    <3> QED
      BY <3>1, <3>2
  <2> QED
    BY <1>2, <2>1
<1>4. BoundaryStands'
  BY <1>1, <1>2, <1>3, InnerWallsGo
<1>5. Rooms' = Rooms
  BY <1>2 DEF Rooms, RoomsAt, Room, MAZE_INDEX, Odd
<1>6. 1 \in Odd(2 * maze_x_dim) /\ 1 \in Odd(2 * maze_y_dim)
  <2>1. 1 % 2 = 1
    OBVIOUS
  <2> QED
    BY <1>1, <2>1 DEF Odd, Dims
<1> QED
  BY <1>1, <1>2, <1>4, <1>5, <1>6 DEF MazeInv, Dims, Odd

LEMMA OthersKeepMaze ==
  ASSUME MazeInv, UNCHANGED mazeVars, Furnished, level' \in Nat \ {0}
  PROVE  MazeInv'
BY DEF MazeInv, Furnished, mazeVars, points, genVars, BoundaryStands, Inside, MAZE_INDEX,
   Rooms, RoomsAt, Room, Odd

LEMMA OthersKeepSearch ==
  ASSUME SearchInv, UNCHANGED mazeVars, pc # "dig"
  PROVE  SearchInv'
BY DEF SearchInv, mazeVars, points, genVars

LEMMA FurnishKeepsSearch ==
  ASSUME SearchInv, NEW k, Furnish(k)
  PROVE  SearchInv'
BY DEF SearchInv, Furnish

LEMMA PrepareKeepsSearch ==
  ASSUME MazeInv, SearchInv, Prepare
  PROVE  SearchInv'
<1>1. /\ Clamped(MAZE_MIN_X_DIM, MAZE_MAX_X_DIM) \in Nat \ {0}
      /\ Clamped(MAZE_MIN_Y_DIM, MAZE_MAX_Y_DIM) \in Nat \ {0}
  BY ClampedRange DEF MazeInv
<1>2. \A a, b \in Nat : a * b \in Int
  OBVIOUS
<1> QED
  BY <1>1, <1>2 DEF SearchInv, Prepare, BeginMaze

LEMMA SearchIsComplete ==
  ASSUME MazeInv, SearchInv
  PROVE  EveryRoomIsReachable
<1> SUFFICES ASSUME gen = "furnish"
             PROVE  mark_maze_area(<<1, 1>>, wall, {}) = Rooms
  BY DEF EveryRoomIsReachable
<1>1. Dims
  BY DEF MazeInv, Dims
<1>2. /\ reach \subseteq mark_maze_area(<<1, 1>>, wall, {})
      /\ remaining = maze_x_dim * maze_y_dim - Cardinality(reach)
      /\ remaining <= 0
  BY DEF SearchInv
<1>3. reach \in SUBSET Rooms /\ IsFiniteSet(Rooms)
  BY <1>1, <1>2, AreaIsRooms, RoomCount
<1>4. Cardinality(reach) \in Nat
  BY <1>3, FS_Subset, FS_CardinalityType
<1>5. maze_x_dim * maze_y_dim \in Int
  BY <1>1, Times DEF Dims
<1>6. Cardinality(reach) >= maze_x_dim * maze_y_dim
  BY <1>2, <1>4, <1>5
<1> QED
  BY <1>1, <1>2, <1>6, AllAreReached

-----------------------------------------------------------------------------
(* The player's moves *)

LEMMA BlockMultiple ==
  ASSUME NEW B \in Nat \ {0}, NEW a \in Int
  PROVE  (B * a) % B = 0 /\ (B * a) \div B = a /\ B * a \in Int
OBVIOUS

LEMMA BlockDivides ==
  ASSUME NEW B \in Nat \ {0}, NEW a \in Int, a % B = 0
  PROVE  a \div B \in Int /\ a = B * (a \div B)
OBVIOUS

LEMMA BlockStep ==
  ASSUME NEW B \in Nat \ {0}, NEW a \in Int, NEW e \in {-1, 0, 1}
  PROVE  B * a + B * e = B * (a + e) /\ a + e \in Int
OBVIOUS

\* From one square to the next.
LEMMA OneSquareOn ==
  ASSUME NEW px \in Int, px % BLOCK = 0, NEW e \in {-1, 0, 1}
  PROVE  (px + BLOCK * e) % BLOCK = 0 /\ (px + BLOCK * e) \div BLOCK = px \div BLOCK + e
<1> DEFINE a == px \div BLOCK
<1>1. a \in Int /\ px = BLOCK * a
  BY BlockDivides, Sizes
<1> HIDE DEF a
<1>2. px + BLOCK * e = BLOCK * (a + e) /\ a + e \in Int
  BY <1>1, BlockStep, Sizes
<1>3. (BLOCK * (a + e)) % BLOCK = 0 /\ (BLOCK * (a + e)) \div BLOCK = a + e
  BY <1>2, BlockMultiple, Sizes
<1> QED
  BY <1>2, <1>3 DEF a

LEMMA StartIsOnGrid == Dims => OnGrid(BLOCK, BLOCK)
<1>1. BLOCK % BLOCK = 0 /\ BLOCK \div BLOCK = 1
  BY Sizes
<1> QED
  BY <1>1 DEF OnGrid, Inside, Dims

LEMMA StandingIsLegal ==
  ASSUME NEW px \in Int, NEW py \in Int, NEW d, OnGrid(px, py)
  PROVE  Legal(px, py, 0, d)
<1>1. \A e \in {-1, 0, 1} : px + 0 * e = px /\ py + 0 * e = py
  OBVIOUS
<1> QED
  BY <1>1, Steps DEF Legal

LEMMA StandingOnGrid ==
  ASSUME NEW px \in Int, NEW py \in Int, NEW d, Legal(px, py, 0, d)
  PROVE  OnGrid(px, py)
<1>1. \A e \in {-1, 0, 1} : px + 0 * e = px /\ py + 0 * e = py
  OBVIOUS
<1> QED
  BY <1>1, Steps DEF Legal

\* A player on a square may set out to a neighbour without a wall: the walls of
\* the boundary stand.
LEMMA SettingOutIsLegal ==
  ASSUME Dims, BoundaryStands, NEW px \in Int, NEW py \in Int, OnGrid(px, py),
         NEW d \in find_open_directions(px \div BLOCK, py \div BLOCK)
  PROVE  Legal(px, py, BLOCK, d)
<1> DEFINE a == px \div BLOCK
           b == py \div BLOCK
<1>1. /\ (px + BLOCK * StepX(d)) % BLOCK = 0
      /\ (px + BLOCK * StepX(d)) \div BLOCK = a + StepX(d)
      /\ (py + BLOCK * StepY(d)) % BLOCK = 0
      /\ (py + BLOCK * StepY(d)) \div BLOCK = b + StepY(d)
  BY OneSquareOn, Steps DEF OnGrid
<1>2. Inside(a + StepX(d), b + StepY(d))
  <2>1. Inside(a, b) /\ MAZE_INDEX(a + StepX(d), b + StepY(d)) \notin wall
    BY DEF OnGrid, find_open_directions
  <2> HIDE DEF a, b
  <2>2. a + StepX(d) \in 0 .. 2 * maze_x_dim /\ b + StepY(d) \in 0 .. 2 * maze_y_dim
    BY <2>1, Steps DEF Inside, Dims
  <2> QED
    BY <2>1, <2>2 DEF BoundaryStands
<1> HIDE DEF a, b
<1>3. OnGrid(px + BLOCK * StepX(d), py + BLOCK * StepY(d))
  BY <1>1, <1>2 DEF OnGrid
<1>4. \A e \in {-1, 0, 1} : (px + BLOCK * e) - BLOCK * e = px /\ (py + BLOCK * e) - BLOCK * e = py
  BY Sizes
<1> QED
  BY <1>3, <1>4, Steps DEF Legal

\* A pixel nearer.
LEMMA MovingIsLegal ==
  ASSUME NEW px \in Int, NEW py \in Int, NEW m \in Nat, m > 0, NEW d, Legal(px, py, m, d)
  PROVE  Legal(px + StepX(d), py + StepY(d), m - 1, d)
<1>1. ASSUME NEW z \in Int, NEW e \in {-1, 0, 1}
      PROVE  z + e + (m - 1) * e = z + m * e
  <2>1. (m - 1) * e = m * e - e /\ m * e \in Int /\ e \in Int
    OBVIOUS
  <2> QED
    BY <2>1
<1>2. /\ px + StepX(d) + (m - 1) * StepX(d) = px + m * StepX(d)
      /\ py + StepY(d) + (m - 1) * StepY(d) = py + m * StepY(d)
  <2>1. StepX(d) \in {-1, 0, 1} /\ StepY(d) \in {-1, 0, 1}
    BY Steps
  <2> QED
    BY <1>1, <2>1, Zenon
<1>3. /\ OnGrid(px + m * StepX(d), py + m * StepY(d))
      /\ OnGrid((px + m * StepX(d)) - BLOCK * StepX(d), (py + m * StepY(d)) - BLOCK * StepY(d))
  BY Zenon DEF Legal
<1> QED
  BY <1>2, <1>3, Zenon DEF Legal

LEMMA Opposites ==
  ASSUME NEW d \in 0 .. 3
  PROVE  /\ (d + 2) % 4 \in 0 .. 3
         /\ StepX((d + 2) % 4) + StepX(d) = 0 /\ StepY((d + 2) % 4) + StepY(d) = 0
<1>1. (0 + 2) % 4 = 2 /\ (1 + 2) % 4 = 3 /\ (2 + 2) % 4 = 0 /\ (3 + 2) % 4 = 1
  OBVIOUS
<1>2. 0 + 0 = 0 /\ 1 + (-1) = 0 /\ (-1) + 1 = 0
  OBVIOUS
<1>3. d = 0 \/ d = 1 \/ d = 2 \/ d = 3
  OBVIOUS
<1>4. CASE d = 0
  BY <1>1, <1>2, <1>4, Steps
<1>5. CASE d = 1
  BY <1>1, <1>2, <1>5, Steps
<1>6. CASE d = 2
  BY <1>1, <1>2, <1>6, Steps
<1>7. CASE d = 3
  BY <1>1, <1>2, <1>7, Steps
<1> QED
  BY <1>3, <1>4, <1>5, <1>6, <1>7

\* A reversal exchanges the squares it is between.
LEMMA ReversingIsLegal ==
  ASSUME NEW px \in Int, NEW py \in Int, NEW m \in 1 .. BLOCK, NEW d, NEW e,
         StepX(e) + StepX(d) = 0, StepY(e) + StepY(d) = 0, Legal(px, py, m, d)
  PROVE  Legal(px, py, BLOCK - m, e)
<1>1. \A z \in Int, g \in {-1, 0, 1}, f \in {-1, 0, 1} : f + g = 0 =>
        /\ z + (BLOCK - m) * f = (z + m * g) - BLOCK * g
        /\ (z + (BLOCK - m) * f) - BLOCK * f = z + m * g
  BY Sizes
<1>2. /\ px + (BLOCK - m) * StepX(e) = (px + m * StepX(d)) - BLOCK * StepX(d)
      /\ (px + (BLOCK - m) * StepX(e)) - BLOCK * StepX(e) = px + m * StepX(d)
  BY <1>1, Steps
<1>3. /\ py + (BLOCK - m) * StepY(e) = (py + m * StepY(d)) - BLOCK * StepY(d)
      /\ (py + (BLOCK - m) * StepY(e)) - BLOCK * StepY(e) = py + m * StepY(d)
  BY <1>1, Steps
<1>4. m > 0
  OBVIOUS
<1> QED
  BY <1>2, <1>3, <1>4 DEF Legal

\* The whole player is on the squares inside.
LEMMA LegalRange ==
  ASSUME Dims, NEW px \in Int, NEW py \in Int, NEW m \in 0 .. BLOCK, NEW d, Legal(px, py, m, d)
  PROVE  /\ BLOCK <= px /\ px + BLOCK <= 2 * maze_x_dim * BLOCK
         /\ BLOCK <= py /\ py + BLOCK <= 2 * maze_y_dim * BLOCK
<1>1. ASSUME NEW n \in Nat \ {0}, NEW q \in Int, q % BLOCK = 0, q \div BLOCK \in 1 .. n - 1
      PROVE  BLOCK <= q /\ q + BLOCK <= n * BLOCK
  <2> DEFINE a == q \div BLOCK
  <2>1. a \in Int /\ q = BLOCK * a
    BY <1>1, BlockDivides, Sizes
  <2>2. a \in 1 .. n - 1
    BY <1>1
  <2> HIDE DEF a
  <2>3. 1 * BLOCK <= a * BLOCK /\ (a + 1) * BLOCK <= n * BLOCK /\ (a + 1) * BLOCK = a * BLOCK + 1 * BLOCK
    BY <2>1, <2>2, Sizes, Times
  <2>4. a * BLOCK = BLOCK * a /\ 1 * BLOCK = BLOCK
    BY <2>1, Sizes, Times
  <2>5. n * BLOCK \in Int
    BY Sizes, Times
  <2> QED
    BY <2>1, <2>3, <2>4, <2>5, Sizes
<1>2. ASSUME NEW n \in Nat \ {0}, NEW q \in Int, NEW e \in {-1, 0, 1},
             (q + m * e) % BLOCK = 0, (q + m * e) \div BLOCK \in 1 .. n - 1,
             m > 0 => /\ ((q + m * e) - BLOCK * e) % BLOCK = 0
                      /\ ((q + m * e) - BLOCK * e) \div BLOCK \in 1 .. n - 1
      PROVE  BLOCK <= q /\ q + BLOCK <= n * BLOCK
  <2> DEFINE t == q + m * e
             f == t - BLOCK * e
             w == n * BLOCK
  <2>1. t \in Int /\ f \in Int /\ w \in Int
    BY Sizes, Times
  <2>2. BLOCK <= t /\ t + BLOCK <= w
    BY <1>1, <1>2, <2>1
  <2>3. m > 0 => BLOCK <= f /\ f + BLOCK <= w
    BY <1>1, <1>2, <2>1
  <2>4. \/ e = 0 /\ t = q
        \/ e = 1 /\ t = q + m /\ f = t - BLOCK
        \/ e = -1 /\ t = q - m /\ f = t + BLOCK
    BY Sizes
  <2> HIDE DEF t, f, w
  <2>5. BLOCK <= q /\ q + BLOCK <= w
    BY <2>1, <2>2, <2>3, <2>4, Sizes
  <2> QED
    BY <2>5 DEF w
<1>3. /\ OnGrid(px + m * StepX(d), py + m * StepY(d))
      /\ m > 0 => OnGrid((px + m * StepX(d)) - BLOCK * StepX(d), (py + m * StepY(d)) - BLOCK * StepY(d))
  BY Zenon DEF Legal
<1>4. /\ StepX(d) \in {-1, 0, 1} /\ StepY(d) \in {-1, 0, 1}
      /\ 2 * maze_x_dim \in Nat \ {0} /\ 2 * maze_y_dim \in Nat \ {0}
  BY Steps DEF Dims
<1>5. /\ BLOCK <= px /\ px + BLOCK <= (2 * maze_x_dim) * BLOCK
  BY <1>2, <1>3, <1>4, Zenon DEF OnGrid, Inside
<1>6. /\ BLOCK <= py /\ py + BLOCK <= (2 * maze_y_dim) * BLOCK
  BY <1>2, <1>3, <1>4, Zenon DEF OnGrid, Inside
<1> QED
  BY <1>5, <1>6

-----------------------------------------------------------------------------
(* The window follows the player *)

\* The bounds of a window at show along an axis of the maze.
LEMMA FollowsOn ==
  ASSUME NEW show \in Nat, NEW play \in Int, NEW dim \in Nat, NEW size \in Int,
         NEW e \in {-1, 0, 1}, NEW to,
         SHOW_MIN <= show, show + dim <= size - SHOW_MIN, Follows(show, play, dim, size),
         BLOCK <= play + e, play + e + 2 * BLOCK <= size,
         \/ e = 0 /\ to = show
         \/ e = 1 /\ IF play + 1 > show + dim - BLOCK * (PAN_BORDER + 1) /\ show + dim < size - SHOW_MIN
                     THEN to = show + e ELSE to = show
         \/ e = -1 /\ IF play - 1 < show + BLOCK * PAN_BORDER /\ show > SHOW_MIN
                      THEN to = show + e ELSE to = show
  PROVE  /\ to \in Nat /\ SHOW_MIN <= to /\ to + dim <= size - SHOW_MIN
         /\ Follows(to, play + e, dim, size)
<1> DEFINE u == BLOCK * PAN_BORDER
           v == BLOCK * (PAN_BORDER + 1)
<1>1. BLOCK \in Nat \ {0} /\ SHOW_MIN \in Nat /\ SHOW_MIN <= BLOCK
  BY Sizes, ShowAssumption, WindowAssumption
<1>2. u \in Nat /\ v = u + BLOCK
  <2>1. \A a, b \in Nat : a * b \in Nat /\ a * (b + 1) = a * b + a
    OBVIOUS
  <2> QED
    BY <1>1, <2>1, ShowAssumption
<1>3. /\ show <= play /\ play + BLOCK <= show + dim
      /\ play <= show + dim - v \/ play <= show + u \/ show + dim = size - SHOW_MIN
      /\ play >= show + u \/ play >= show + dim - v \/ show = SHOW_MIN
  BY DEF Follows
<1>4. \/ e = 0 /\ to = show
      \/ e = 1 /\ IF play + 1 > show + dim - v /\ show + dim < size - SHOW_MIN
                  THEN to = show + e ELSE to = show
      \/ e = -1 /\ IF play - 1 < show + u /\ show > SHOW_MIN
                   THEN to = show + e ELSE to = show
  OBVIOUS
<1>5. ASSUME /\ to <= play + e /\ play + e + BLOCK <= to + dim
             /\ play + e <= to + dim - v \/ play + e <= to + u \/ to + dim = size - SHOW_MIN
             /\ play + e >= to + u \/ play + e >= to + dim - v \/ to = SHOW_MIN
      PROVE  Follows(to, play + e, dim, size)
  BY <1>5 DEF Follows
<1> HIDE DEF u, v
<1>6. CASE e = 0 /\ to = show
  BY <1>1, <1>2, <1>3, <1>5, <1>6
<1>7. CASE e = 1 /\ to = show + 1 /\ play + 1 > show + dim - v /\ show + dim < size - SHOW_MIN
  BY <1>1, <1>2, <1>3, <1>5, <1>7
<1>8. CASE e = 1 /\ to = show /\ ~(play + 1 > show + dim - v /\ show + dim < size - SHOW_MIN)
  BY <1>1, <1>2, <1>3, <1>5, <1>8
<1>9. CASE e = -1 /\ to = show - 1 /\ play - 1 < show + u /\ show > SHOW_MIN
  BY <1>1, <1>2, <1>3, <1>5, <1>9
<1>10. CASE e = -1 /\ to = show /\ ~(play - 1 < show + u /\ show > SHOW_MIN)
  BY <1>1, <1>2, <1>3, <1>5, <1>10
<1> QED
  BY <1>4, <1>6, <1>7, <1>8, <1>9, <1>10

LEMMA MazeSizes ==
  ASSUME Dims
  PROVE  /\ Width = 2 * maze_x_dim * BLOCK + BLOCK /\ Height = 2 * maze_y_dim * BLOCK + BLOCK
         /\ Width \in Int /\ Height \in Int
         /\ 2 * maze_x_dim * BLOCK \in Int /\ 2 * maze_y_dim * BLOCK \in Int
<1>1. \A n \in Nat, B \in Nat : (2 * n + 1) * B = 2 * n * B + B /\ 2 * n * B \in Int
  OBVIOUS
<1> QED
  BY <1>1, Sizes DEF Width, Height, Dims

LEMMA WiderThanLeast ==
  ASSUME Dims, maze_x_dim >= MAZE_MIN_X_DIM
  PROVE  2 * MAZE_MIN_X_DIM * BLOCK <= 2 * maze_x_dim * BLOCK
<1>1. 2 * MAZE_MIN_X_DIM <= 2 * maze_x_dim /\ 2 * MAZE_MIN_X_DIM \in Int /\ 2 * maze_x_dim \in Int
  BY MazeDimAssumption DEF Dims
<1> QED
  BY <1>1, Sizes, Times

\* make_maze's mazes are larger than the window.
LEMMA MazeIsWide ==
  ASSUME Dims, maze_x_dim >= MAZE_MIN_X_DIM, maze_y_dim >= MAZE_MIN_Y_DIM
  PROVE  /\ SHOW_MIN + SCROLL_X_DIM <= Width - SHOW_MIN
         /\ SHOW_MIN + SCROLL_Y_DIM <= Height - SHOW_MIN
         /\ Follows(SHOW_MIN, BLOCK, SCROLL_X_DIM, Width)
         /\ Follows(SHOW_MIN, BLOCK, SCROLL_Y_DIM, Height)
<1>1. BLOCK \in Nat \ {0} /\ SHOW_MIN \in Nat /\ MAZE_MIN_X_DIM \in Nat /\ MAZE_MIN_Y_DIM \in Nat
      /\ SCROLL_X_DIM \in Nat /\ SCROLL_Y_DIM \in Nat
  BY Sizes, ShowAssumption, MazeDimAssumption
<1>2. \A m, n, B \in Nat : m <= n => 2 * m * B <= 2 * n * B /\ (2 * m + 1) * B <= 2 * n * B + B
  <2>1. ASSUME NEW m \in Nat, NEW n \in Nat, NEW B \in Nat, m <= n
        PROVE  2 * m * B <= 2 * n * B /\ (2 * m + 1) * B <= 2 * n * B + B
    <3>1. 2 * m <= 2 * n /\ 2 * m + 1 <= 2 * n + 1
      BY <2>1
    <3>2. 2 * m * B <= 2 * n * B /\ (2 * m + 1) * B <= (2 * n + 1) * B
      BY <3>1, Times
    <3>3. (2 * n + 1) * B = 2 * n * B + B
      OBVIOUS
    <3> QED
      BY <3>2, <3>3
  <2> QED
    BY <2>1
<1>3. /\ 2 * MAZE_MIN_X_DIM * BLOCK <= 2 * maze_x_dim * BLOCK
      /\ (2 * MAZE_MIN_Y_DIM + 1) * BLOCK <= 2 * maze_y_dim * BLOCK + BLOCK
  BY <1>1, <1>2 DEF Dims
<1>4. /\ 2 * MAZE_MIN_X_DIM * BLOCK \in Int /\ (2 * MAZE_MIN_Y_DIM + 1) * BLOCK \in Int
  BY <1>1, Times
<1>5. /\ SHOW_MIN + SCROLL_X_DIM <= Width - SHOW_MIN
      /\ SHOW_MIN + SCROLL_Y_DIM <= Height - SHOW_MIN
  BY <1>1, <1>3, <1>4, MazeSizes, WindowAssumption
<1>6. BLOCK <= BLOCK * PAN_BORDER /\ BLOCK * PAN_BORDER \in Int
  <2>1. PAN_BORDER \in Nat \ {0}
    BY ShowAssumption, WindowAssumption
  <2>2. \A a, b \in Nat \ {0} : a <= a * b /\ a * b \in Int
    OBVIOUS
  <2> QED
    BY <1>1, <2>1, <2>2
<1>7. /\ Follows(SHOW_MIN, BLOCK, SCROLL_X_DIM, Width)
      /\ Follows(SHOW_MIN, BLOCK, SCROLL_Y_DIM, Height)
  BY <1>1, <1>6, WindowAssumption DEF Follows
<1> QED
  BY <1>5, <1>7

LEMMA MoveFollows ==
  ASSUME MazeInv, ViewInv, PlayerInv, FollowInv, Move
  PROVE  ViewInv' /\ PlayerInv' /\ FollowInv'
<1>1. /\ Dims /\ pc = "move" /\ Playing /\ Furnished /\ maze_x_dim' = maze_x_dim /\ maze_y_dim' = maze_y_dim
      /\ dir' = dir /\ dir \in 0 .. 3 /\ move_cnt \in 1 .. BLOCK /\ move_cnt' = move_cnt - 1
      /\ play_x \in Int /\ play_y \in Int /\ Legal(play_x, play_y, move_cnt, dir)
      /\ play_x' = play_x + StepX(dir) /\ play_y' = play_y + StepY(dir)
      /\ after' = "tick"
      /\ pc' \in {"line", "draw"}
  BY Sizes DEF Move, MazeInv, PlayerInv, Dims, Playing, Furnished, mazeVars, DIR_STOP
<1>2. /\ StepX(dir) \in {-1, 0, 1} /\ StepY(dir) \in {-1, 0, 1}
      /\ play_x' \in Int /\ play_y' \in Int
  BY <1>1, Steps
<1>3. Legal(play_x', play_y', move_cnt', dir)
  BY <1>1, MovingIsLegal
<1>4. Legal(play_x, play_y, move_cnt, dir)'
  BY <1>1, <1>3 DEF Legal, OnGrid, Inside
<1>5. PlayerInv'
  BY <1>1, <1>2, <1>4, Sizes DEF PlayerInv, DIR_STOP
<1>6. /\ BLOCK <= play_x' /\ play_x' + 2 * BLOCK <= Width
      /\ BLOCK <= play_y' /\ play_y' + 2 * BLOCK <= Height
  <2>1. /\ BLOCK <= play_x' /\ play_x' + BLOCK <= 2 * maze_x_dim * BLOCK
        /\ BLOCK <= play_y' /\ play_y' + BLOCK <= 2 * maze_y_dim * BLOCK
    BY <1>1, <1>2, <1>3, LegalRange, Sizes
  <2> QED
    BY <1>1, <1>2, <2>1, MazeSizes, Sizes
<1>7. /\ show_x \in Nat /\ show_y \in Nat /\ img3_off \in Int
      /\ SHOW_MIN <= show_x /\ show_x + SCROLL_X_DIM <= Width - SHOW_MIN
      /\ SHOW_MIN <= show_y /\ show_y + SCROLL_Y_DIM <= Height - SHOW_MIN
      /\ Follows(show_x, play_x, SCROLL_X_DIM, Width) /\ Follows(show_y, play_y, SCROLL_Y_DIM, Height)
  BY <1>1 DEF ViewInv, FollowInv
<1>8. Width' = Width /\ Height' = Height
  BY <1>1 DEF Width, Height
<1>w. Width \in Int /\ Height \in Int /\ SCROLL_X_DIM \in Nat /\ SCROLL_Y_DIM \in Nat
  BY <1>1, MazeSizes, Sizes
<1> DEFINE tx == IF Pans(dir) THEN show_x + StepX(dir) ELSE show_x
           ty == IF Pans(dir) THEN show_y + StepY(dir) ELSE show_y
<1>9. show_x' = tx /\ show_y' = ty
  BY DEF Move, set_view_window, view
<1>10. /\ tx \in Nat /\ SHOW_MIN <= tx /\ tx + SCROLL_X_DIM <= Width - SHOW_MIN
       /\ Follows(tx, play_x', SCROLL_X_DIM, Width)
  <2>1. \/ StepX(dir) = 0 /\ tx = show_x
        \/ /\ StepX(dir) = 1
           /\ IF /\ play_x + 1 > show_x + SCROLL_X_DIM - BLOCK * (PAN_BORDER + 1)
                 /\ show_x + SCROLL_X_DIM < Width - SHOW_MIN
              THEN tx = show_x + StepX(dir) ELSE tx = show_x
        \/ /\ StepX(dir) = -1
           /\ IF play_x - 1 < show_x + BLOCK * PAN_BORDER /\ show_x > SHOW_MIN
              THEN tx = show_x + StepX(dir) ELSE tx = show_x
    <3>1. CASE dir = 0 \/ dir = 2
      <4>1. StepX(dir) = 0 /\ show_x + 0 = show_x
        BY <1>7, <3>1, Steps
      <4> QED
        BY <4>1
    <3>2. CASE dir = 1
      BY <3>2, Steps DEF Pans, Width
    <3>3. CASE dir = 3
      BY <3>3, Steps DEF Pans, Width
    <3> QED
      BY <1>1, <3>1, <3>2, <3>3
  <2> HIDE DEF tx
  <2>2. BLOCK <= play_x + StepX(dir) /\ play_x + StepX(dir) + 2 * BLOCK <= Width
    BY <1>1, <1>6
  <2> QED
    BY <1>1, <1>2, <1>7, <1>w, <2>1, <2>2, FollowsOn
<1>11. /\ ty \in Nat /\ SHOW_MIN <= ty /\ ty + SCROLL_Y_DIM <= Height - SHOW_MIN
       /\ Follows(ty, play_y', SCROLL_Y_DIM, Height)
  <2>1. \/ StepY(dir) = 0 /\ ty = show_y
        \/ /\ StepY(dir) = 1
           /\ IF /\ play_y + 1 > show_y + SCROLL_Y_DIM - BLOCK * (PAN_BORDER + 1)
                 /\ show_y + SCROLL_Y_DIM < Height - SHOW_MIN
              THEN ty = show_y + StepY(dir) ELSE ty = show_y
        \/ /\ StepY(dir) = -1
           /\ IF play_y - 1 < show_y + BLOCK * PAN_BORDER /\ show_y > SHOW_MIN
              THEN ty = show_y + StepY(dir) ELSE ty = show_y
    <3>1. CASE dir = 1 \/ dir = 3
      <4>1. StepY(dir) = 0 /\ show_y + 0 = show_y
        BY <1>7, <3>1, Steps
      <4> QED
        BY <4>1
    <3>2. CASE dir = 0
      BY <3>2, Steps DEF Pans, Height
    <3>3. CASE dir = 2
      BY <3>3, Steps DEF Pans, Height
    <3> QED
      BY <1>1, <3>1, <3>2, <3>3
  <2> HIDE DEF ty
  <2>2. BLOCK <= play_y + StepY(dir) /\ play_y + StepY(dir) + 2 * BLOCK <= Height
    BY <1>1, <1>6
  <2> QED
    BY <1>1, <1>2, <1>7, <1>w, <2>1, <2>2, FollowsOn
<1>12. InView'
  <2>1. CASE Pans(dir)
    <3>1. set_view_window(tx, ty)
      BY <2>1 DEF Move
    <3> QED
      BY <1>7, <1>10, <1>11, <3>1, ViewIsIn
  <2>2. CASE ~Pans(dir)
    BY <1>1, <2>2 DEF Move, view, InView, ViewInv, Fits
  <2> QED
    BY <2>1, <2>2
<1> HIDE DEF tx, ty
<1>13. ViewInv'
  BY <1>1, <1>8, <1>9, <1>10, <1>11, <1>12 DEF ViewInv, InView
<1>14. FollowInv'
  BY <1>8, <1>9, <1>10, <1>11 DEF FollowInv, Follows
<1> QED
  BY <1>5, <1>13, <1>14

LEMMA ViewStays ==
  ASSUME ViewInv, UNCHANGED <<maze_x_dim, maze_y_dim, show_x, show_y, img3_off>>,
         Furnished, pc' # "lines"
  PROVE  ViewInv'
BY DEF ViewInv, Furnished, Fits, Width, Height

LEMMA FollowingStays ==
  ASSUME FollowInv, UNCHANGED <<maze_x_dim, maze_y_dim, show_x, show_y, play_x, play_y>>,
         Playing
  PROVE  FollowInv'
BY DEF FollowInv, Follows, Width, Height

LEMMA LegalStays ==
  ASSUME UNCHANGED <<maze_x_dim, maze_y_dim>>, NEW px, NEW py, NEW m, NEW d, Legal(px, py, m, d),
         play_x' = px, play_y' = py, move_cnt' = m, dir' = d
  PROVE  Legal(play_x, play_y, move_cnt, dir)'
BY DEF Legal, OnGrid, Inside

\* Before the level is shown.
LEMMA BuildingKeepsPlayer ==
  ASSUME MazeInv, ViewInv, PlayerInv, FollowInv, Prepare \/ MakeMaze \/ SetView \/ NextLevel
  PROVE  ViewInv' /\ PlayerInv' /\ FollowInv'
<1>1. /\ pc \in {"prepare", "dig", "next"} /\ pc' \in {"dig", "lines", "prepare"}
      /\ UNCHANGED <<play_x, play_y, dir, move_cnt, after>>
  BY DEF Prepare, MakeMaze, SetView, NextLevel, playVars, callVars
<1>2. PlayerInv'
  BY <1>1 DEF PlayerInv, Playing
<1>3. FollowInv'
  BY <1>1 DEF FollowInv, Playing
<1>4. CASE Prepare \/ MakeMaze \/ NextLevel
  <2>1. pc' \in {"dig", "prepare"} /\ UNCHANGED <<show_x, show_y, img3_off>>
    BY <1>1, <1>4 DEF Prepare, MakeMaze, NextLevel, view
  <2> QED
    BY <1>2, <1>3, <2>1 DEF ViewInv, Furnished
<1>5. CASE SetView
  <2>1. /\ pc = "dig" /\ pc' = "lines" /\ set_view_window(SHOW_MIN, SHOW_MIN)
        /\ maze_x_dim' = maze_x_dim /\ maze_y_dim' = maze_y_dim
        /\ show_x' = SHOW_MIN /\ show_y' = SHOW_MIN
    BY <1>5 DEF SetView, Furnish, set_view_window
  <2>2. /\ Dims /\ maze_x_dim >= MAZE_MIN_X_DIM /\ maze_y_dim >= MAZE_MIN_Y_DIM
    BY <2>1 DEF MazeInv, Dims
  <2>3. SHOW_MIN \in Nat /\ img3_off \in Int
    BY ShowAssumption DEF ViewInv
  <2>4. InView'
    BY <2>1, <2>3, ViewIsIn
  <2>5. /\ SHOW_MIN + SCROLL_X_DIM <= Width - SHOW_MIN
        /\ SHOW_MIN + SCROLL_Y_DIM <= Height - SHOW_MIN
    BY <2>2, MazeIsWide
  <2>6. Width' = Width /\ Height' = Height
    BY <2>1 DEF Width, Height
  <2>7. ViewInv'
    BY <2>1, <2>3, <2>4, <2>5, <2>6 DEF ViewInv, InView
  <2> QED
    BY <1>2, <1>3, <2>7
<1> QED
  BY <1>4, <1>5

LEMMA DrawLinesKeepsPlayer ==
  ASSUME MazeInv, ViewInv, PlayerInv, FollowInv, DrawLines
  PROVE  ViewInv' /\ PlayerInv' /\ FollowInv'
<1>1. /\ pc = "lines" /\ pc' = "unveil" /\ after' = "tick"
      /\ play_x' = BLOCK /\ play_y' = BLOCK /\ dir' = 4 /\ move_cnt' = 0
      /\ UNCHANGED <<maze_x_dim, maze_y_dim, show_x, show_y, img3_off>>
      /\ show_x = SHOW_MIN /\ show_y = SHOW_MIN /\ Furnished
      /\ Dims /\ maze_x_dim >= MAZE_MIN_X_DIM /\ maze_y_dim >= MAZE_MIN_Y_DIM
  BY DEF DrawLines, Start, DIR_STOP, mazeVars, MazeInv, ViewInv, Dims, Furnished
<1>2. ViewInv'
  BY <1>1, ViewStays
<1>3. Legal(play_x, play_y, move_cnt, dir)'
  BY <1>1, StartIsOnGrid, StandingIsLegal, LegalStays, Sizes
<1>4. PlayerInv'
  BY <1>1, <1>3, Sizes DEF PlayerInv, DIR_STOP
<1>5. Width' = Width /\ Height' = Height
  BY <1>1 DEF Width, Height
<1>6. FollowInv'
  BY <1>1, <1>5, MazeIsWide DEF FollowInv, Follows
<1> QED
  BY <1>2, <1>4, <1>6

LEMMA TickKeepsPlayer ==
  ASSUME PlayerInv, Tick
  PROVE  PlayerInv'
<1>1. /\ pc = "tick" /\ Playing /\ pc' = "draw" /\ after' = "move"
      /\ UNCHANGED <<maze_x_dim, maze_y_dim, play_x, play_y>>
      /\ play_x \in Int /\ play_y \in Int
      /\ Legal(play_x, play_y, move_cnt, dir) /\ dir \in 0 .. 3
      /\ move_cnt \in 1 .. BLOCK - 1
  BY Sizes DEF Tick, Playing, PlayerInv, mazeVars, DIR_STOP
<1>2. PICK next_dir \in 0 .. 4 : /\ dir' = Turned(next_dir)
                                 /\ move_cnt' = IF dir' = dir THEN move_cnt ELSE BLOCK - move_cnt
  BY DEF Tick
<1>3. /\ dir' \in 0 .. 3 /\ move_cnt' \in 1 .. BLOCK
      /\ Legal(play_x, play_y, move_cnt, dir)'
  <2>1. CASE dir' = dir
    BY <1>1, <1>2, <2>1, LegalStays, Sizes
  <2>2. CASE dir' # dir
    <3>1. dir' = (dir + 2) % 4 /\ move_cnt' = BLOCK - move_cnt
      BY <1>2, <2>2 DEF Turned
    <3>2. /\ dir' \in 0 .. 3
          /\ StepX(dir') + StepX(dir) = 0 /\ StepY(dir') + StepY(dir) = 0
      BY <1>1, <3>1, Opposites
    <3>3. Legal(play_x, play_y, BLOCK - move_cnt, dir')
      <4>1. move_cnt \in 1 .. BLOCK
        BY <1>1, Sizes
      <4> QED
        BY <1>1, <3>2, <4>1, ReversingIsLegal, Zenon
    <3>4. Legal(play_x, play_y, move_cnt, dir)'
      BY <1>1, <3>1, <3>3, LegalStays, Zenon
    <3>5. BLOCK - move_cnt \in 1 .. BLOCK
      BY <1>1, Sizes
    <3> QED
      BY <3>1, <3>2, <3>4, <3>5
  <2> QED
    BY <2>1, <2>2
<1> QED
  BY <1>1, <1>3, Sizes DEF PlayerInv, DIR_STOP

LEMMA ChooseKeepsPlayer ==
  ASSUME MazeInv, PlayerInv, Choose
  PROVE  PlayerInv'
<1>1. /\ pc = "choose" /\ Playing /\ pc' = "draw" /\ after = "move" /\ after' = "move"
      /\ UNCHANGED <<maze_x_dim, maze_y_dim, play_x, play_y>>
      /\ play_x \in Int /\ play_y \in Int
      /\ Legal(play_x, play_y, 0, dir) /\ move_cnt = 0
      /\ Dims /\ BoundaryStands
  BY DEF Choose, Playing, PlayerInv, mazeVars, callVars, MazeInv, Dims
<1>2. OnGrid(play_x, play_y)
  BY <1>1, StandingOnGrid
<1> DEFINE open == find_open_directions(play_x \div BLOCK, play_y \div BLOCK)
<1>3. /\ dir' \in open \/ dir' = DIR_STOP
      /\ move_cnt' = IF dir' = DIR_STOP THEN 0 ELSE BLOCK
  BY DEF Choose, At
<1>4. open \subseteq 0 .. 3
  BY DEF find_open_directions
<1>5. ASSUME NEW d \in open PROVE Legal(play_x, play_y, BLOCK, d)
  BY <1>1, <1>2, SettingOutIsLegal
<1> HIDE DEF open
<1>6. CASE dir' \in open
  <2>1. Legal(play_x, play_y, BLOCK, dir')
    BY <1>5, <1>6
  <2>2. dir' \in 0 .. 3 /\ move_cnt' = BLOCK
    BY <1>3, <1>4, <1>6 DEF DIR_STOP
  <2>3. Legal(play_x, play_y, move_cnt, dir)'
    BY <1>1, <2>1, <2>2, LegalStays, Zenon
  <2> QED
    BY <1>1, <2>2, <2>3, Sizes DEF PlayerInv, DIR_STOP
<1>7. CASE dir' = DIR_STOP
  <2>1. Legal(play_x, play_y, 0, dir') /\ move_cnt' = 0
    BY <1>1, <1>2, <1>3, <1>7, StandingIsLegal
  <2>2. Legal(play_x, play_y, move_cnt, dir)'
    BY <1>1, <2>1, LegalStays, Zenon
  <2> QED
    BY <1>1, <1>7, <2>1, <2>2, Sizes DEF PlayerInv, DIR_STOP
<1> QED
  BY <1>3, <1>6, <1>7

\* The rest of a frame leaves the player alone.
LEMMA FramesKeepPlayer ==
  ASSUME PlayerInv, Unveil \/ Redraw \/ DrawPlayer \/ ShowPlanes \/ ShowHigh \/ ShowLow \/ DrawLine
  PROVE  PlayerInv' /\ UNCHANGED <<maze_x_dim, maze_y_dim, show_x, show_y, img3_off, play_x, play_y>>
<1>1. /\ Playing /\ UNCHANGED <<maze_x_dim, maze_y_dim, play_x, play_y, dir, move_cnt>>
      /\ UNCHANGED <<show_x, show_y, img3_off>>
  BY DEF Unveil, Redraw, DrawPlayer, ShowPlanes, ShowHigh, ShowLow, DrawLine, Playing,
     mazeVars, playVars, view
<1>2. /\ Legal(play_x, play_y, move_cnt, dir)' /\ BLOCK > 0
  BY <1>1, LegalStays, Sizes DEF PlayerInv
<1>3. CASE Unveil
  BY <1>1, <1>2, <1>3 DEF Unveil, PlayerInv
<1>4. CASE Redraw
  BY <1>1, <1>2, <1>4 DEF Redraw, PlayerInv
<1>5. CASE DrawPlayer \/ ShowPlanes \/ ShowHigh \/ DrawLine
  BY <1>1, <1>2, <1>5 DEF DrawPlayer, ShowPlanes, ShowHigh, DrawLine, callVars, PlayerInv
<1>6. CASE ShowLow
  BY <1>1, <1>2, <1>6 DEF ShowLow, PlayerInv, DIR_STOP
<1> QED
  BY <1>1, <1>3, <1>4, <1>5, <1>6

LEMMA PlayerIsFollowed ==
  ASSUME MazeInv, ViewInv, PlayerInv, FollowInv, Next
  PROVE  ViewInv' /\ PlayerInv' /\ FollowInv'
<1>1. ASSUME PlayerInv', Playing, pc' # "lines",
             UNCHANGED <<maze_x_dim, maze_y_dim, show_x, show_y, img3_off, play_x, play_y>>
      PROVE  ViewInv' /\ PlayerInv' /\ FollowInv'
  BY <1>1, ViewStays, FollowingStays DEF Playing, Furnished
<1>2. CASE Unveil \/ Redraw \/ DrawPlayer \/ ShowPlanes \/ ShowHigh \/ ShowLow \/ DrawLine
  <2>1. Playing /\ pc' # "lines"
    BY <1>2 DEF Playing, Unveil, Redraw, DrawPlayer, ShowPlanes, ShowHigh, ShowLow, DrawLine
  <2> QED
    BY <1>1, <1>2, <2>1, FramesKeepPlayer
<1>3. CASE Tick \/ Choose
  <2>1. /\ Playing /\ pc' # "lines"
        /\ UNCHANGED <<maze_x_dim, maze_y_dim, show_x, show_y, img3_off, play_x, play_y>>
    BY <1>3 DEF Playing, Tick, Choose, mazeVars, view
  <2> QED
    BY <1>1, <1>3, <2>1, TickKeepsPlayer, ChooseKeepsPlayer
<1>4. CASE Ended
  BY <1>4 DEF Ended, vars, mazeVars, points, genVars, view, playVars, callVars, ViewInv,
     PlayerInv, FollowInv, Fits, Width, Height, Follows, Legal, OnGrid, Inside, Furnished, Playing
<1>5. CASE Prepare \/ MakeMaze \/ SetView \/ NextLevel
  BY <1>5, BuildingKeepsPlayer
<1> QED
  BY <1>2, <1>3, <1>4, <1>5, DrawLinesKeepsPlayer, MoveFollows DEF Next

-----------------------------------------------------------------------------
(* Unveiling *)

LEMMA UnveilKeepsMaze ==
  ASSUME MazeInv, PlayerInv, Unveil
  PROVE  MazeInv'
<1> DEFINE here == MAZE_INDEX(At[1], At[2])
<1>1. /\ Furnished /\ pc' = "redraw" /\ Dims /\ level' = level
      /\ UNCHANGED <<maze_x_dim, maze_y_dim, wall, exit, x, y>>
      /\ fruit \subseteq Rooms /\ n_fruits = Cardinality(fruit)
      /\ fruit' = fruit \ {here}
      /\ n_fruits' = IF here \in fruit THEN n_fruits - 1 ELSE n_fruits
  BY DEF Unveil, MazeInv, Furnished, Dims, genVars
<1>2. IsFiniteSet(fruit)
  BY <1>1, RoomCount, FS_Subset
<1> HIDE DEF here
<1>3. n_fruits' = Cardinality(fruit')
  <2>1. CASE here \in fruit
    BY <1>1, <1>2, <2>1, FS_RemoveElement
  <2>2. CASE here \notin fruit
    <3>1. fruit' = fruit
      BY <1>1, <2>2
    <3> QED
      BY <1>1, <2>2, <3>1
  <2> QED
    BY <2>1, <2>2
<1>4. Rooms' = Rooms
  BY <1>1 DEF Rooms, RoomsAt, Room, MAZE_INDEX, Odd
<1>5. BoundaryStands' = BoundaryStands
  BY <1>1 DEF BoundaryStands, Inside, MAZE_INDEX
<1> QED
  BY <1>1, <1>3, <1>4, <1>5 DEF MazeInv, Furnished, Odd

LEMMA UnveilKeepsSearch ==
  ASSUME SearchInv, Unveil
  PROVE  SearchInv'
BY DEF SearchInv, Unveil, genVars

LEMMA NextKeepsMaze ==
  ASSUME MazeInv, SearchInv, PlayerInv, Next
  PROVE  MazeInv' /\ SearchInv'
<1>1. CASE Prepare
  BY <1>1, PrepareKeepsMaze, PrepareKeepsSearch
<1>2. CASE MakeMaze
  BY <1>2, DigKeepsMaze, DigKeepsSearch DEF MakeMaze
<1>3. CASE SetView
  BY <1>3, FurnishKeepsMaze, FurnishKeepsSearch DEF SetView
<1>4. CASE Unveil
  BY <1>4, UnveilKeepsMaze, UnveilKeepsSearch
<1>5. CASE NextLevel
  <2>1. UNCHANGED mazeVars /\ Furnished /\ pc # "dig" /\ level' \in Nat \ {0}
    BY <1>5 DEF NextLevel, Furnished, MazeInv
  <2> QED
    BY <2>1, OthersKeepMaze, OthersKeepSearch
<1>6. CASE DrawLines \/ Redraw \/ Tick \/ Choose \/ DrawPlayer \/ ShowPlanes \/ ShowHigh
           \/ ShowLow \/ Move \/ DrawLine
  <2>1. UNCHANGED mazeVars /\ Furnished /\ pc # "dig" /\ level' = level
    BY <1>6 DEF DrawLines, Redraw, Tick, Choose, DrawPlayer, ShowPlanes, ShowHigh, ShowLow,
       Move, DrawLine, Furnished
  <2>2. level \in Nat \ {0}
    BY DEF MazeInv
  <2> QED
    BY <2>1, <2>2, OthersKeepMaze, OthersKeepSearch
<1>7. CASE Ended
  <2>1. UNCHANGED mazeVars /\ Furnished /\ pc # "dig" /\ level' = level
    BY <1>7 DEF Ended, vars, Furnished
  <2>2. level \in Nat \ {0}
    BY DEF MazeInv
  <2> QED
    BY <2>1, <2>2, OthersKeepMaze, OthersKeepSearch
<1> QED
  BY <1>1, <1>2, <1>3, <1>4, <1>5, <1>6, <1>7 DEF Next

\* The square that a pixel of the window is in.
LEMMA BlockRange ==
  ASSUME NEW px \in Nat
  PROVE  /\ px \div BLOCK \in Nat
         /\ (px \div BLOCK) * BLOCK <= px /\ px < (px \div BLOCK) * BLOCK + BLOCK
         /\ (px \div BLOCK) * BLOCK \in Nat
<1>1. \A B \in Nat \ {0} : /\ px \div B \in Nat /\ (px \div B) * B <= px /\ px < (px \div B) * B + B
                           /\ (px \div B) * B \in Nat
  OBVIOUS
<1> QED
  BY <1>1, Sizes

LEMMA SquareInMaze ==
  ASSUME Dims, InView, SHOW_MIN <= show_x, show_x + SCROLL_X_DIM <= Width - SHOW_MIN,
         SHOW_MIN <= show_y, show_y + SCROLL_Y_DIM <= Height - SHOW_MIN, NEW p \in Window
  PROVE  /\ p[1] \div BLOCK \in 0 .. 2 * maze_x_dim /\ p[2] \div BLOCK \in 0 .. 2 * maze_y_dim
<1>1. /\ p[1] \in Nat /\ p[2] \in Nat /\ show_x \in Nat /\ show_y \in Nat
      /\ p[1] - show_x \in 0 .. SCROLL_X_DIM - 1 /\ p[2] - show_y \in 0 .. SCROLL_Y_DIM - 1
  BY WindowPixel DEF InView
<1>2. ASSUME NEW n \in Nat, NEW q \in Nat, q < (n + 1) * BLOCK
      PROVE  q \div BLOCK \in 0 .. n
  <2> DEFINE a == q \div BLOCK
  <2>1. a \in Nat /\ a * BLOCK <= q /\ a * BLOCK \in Nat
    BY BlockRange
  <2> HIDE DEF a
  <2>2. ASSUME a >= n + 1 PROVE FALSE
    <3>1. (n + 1) * BLOCK <= a * BLOCK /\ (n + 1) * BLOCK \in Int
      BY <2>1, <2>2, Sizes, Times
    <3> QED
      BY <1>2, <2>1, <3>1
  <2>3. a \in 0 .. n
    BY <2>1, <2>2
  <2> QED
    BY <2>3 DEF a
<1>3. Width \in Int /\ Height \in Int /\ SCROLL_X_DIM \in Nat /\ SCROLL_Y_DIM \in Nat /\ SHOW_MIN \in Nat
  BY MazeSizes, Sizes, ShowAssumption
<1>4. p[1] < (2 * maze_x_dim + 1) * BLOCK /\ p[2] < (2 * maze_y_dim + 1) * BLOCK
  <2>1. p[1] < Width /\ p[2] < Height
    BY <1>1, <1>3
  <2> QED
    BY <2>1 DEF Width, Height
<1>5. 2 * maze_x_dim \in Nat /\ 2 * maze_y_dim \in Nat
  BY DEF Dims
<1> QED
  BY <1>1, <1>2, <1>4, <1>5, Zenon

\* A square at one side of the maze and the window at the other: the player is
\* too near to that square.
LEMMA WindowIsNotThere ==
  ASSUME Dims, maze_x_dim >= MAZE_MIN_X_DIM,
         show_x \in Nat, NEW i \in 1 .. 2 * maze_x_dim - 1, play_x = BLOCK * i,
         SHOW_MIN <= show_x, Follows(show_x, play_x, SCROLL_X_DIM, Width)
  PROVE  /\ i + 2 >= 2 * maze_x_dim => show_x >= BLOCK
         /\ i <= 2 => show_x + SCROLL_X_DIM <= 2 * maze_x_dim * BLOCK
<1> DEFINE k == 2 * MAZE_MIN_X_DIM * BLOCK
           n == 2 * maze_x_dim * BLOCK
           u == BLOCK * PAN_BORDER
           v == BLOCK * (PAN_BORDER + 1)
<1>1. BLOCK \in Nat \ {0} /\ SHOW_MIN \in Nat /\ SHOW_MIN <= BLOCK /\ MAZE_MIN_X_DIM \in Nat
      /\ PAN_BORDER \in Nat /\ SCROLL_X_DIM \in Nat
  BY Sizes, ShowAssumption, WindowAssumption, MazeDimAssumption
<1>2. \A m, p, B \in Nat : /\ (2 * m - 2 + p) * B = (2 * m * B - 2 * B) + B * p
                           /\ B * (p + 1) = B * p + B
                           /\ B * p \in Nat /\ 2 * m * B \in Nat
                           /\ B * (2 * m - 3) = 2 * m * B - 3 * B
  OBVIOUS
<1>3. /\ (2 * MAZE_MIN_X_DIM - 2 + PAN_BORDER) * BLOCK = (k - 2 * BLOCK) + u
      /\ v = u + BLOCK /\ u \in Nat /\ k \in Nat
      /\ BLOCK * (2 * MAZE_MIN_X_DIM - 3) = k - 3 * BLOCK
  BY <1>1, <1>2
<1>4. u <= k - 3 * BLOCK
  <2>1. PAN_BORDER <= 2 * MAZE_MIN_X_DIM - 3
    BY WindowAssumption
  <2>2. PAN_BORDER * BLOCK <= (2 * MAZE_MIN_X_DIM - 3) * BLOCK
    BY <1>1, <2>1, Times
  <2>3. PAN_BORDER * BLOCK = u /\ (2 * MAZE_MIN_X_DIM - 3) * BLOCK = BLOCK * (2 * MAZE_MIN_X_DIM - 3)
    BY <1>1, Times
  <2> QED
    BY <1>3, <2>2, <2>3
<1>5. k <= n /\ n \in Int /\ Width = n + BLOCK
  BY MazeSizes, WiderThanLeast
<1>6. /\ SCROLL_X_DIM + SHOW_MIN <= k /\ SCROLL_X_DIM <= (k - 2 * BLOCK) + u
  BY <1>3, WindowAssumption
<1>7. /\ play_x <= show_x + SCROLL_X_DIM - v \/ play_x <= show_x + u
         \/ show_x + SCROLL_X_DIM = Width - SHOW_MIN
      /\ play_x >= show_x + u \/ play_x >= show_x + SCROLL_X_DIM - v \/ show_x = SHOW_MIN
  BY DEF Follows
<1>8. /\ play_x \in Int
      /\ i + 2 >= 2 * maze_x_dim => play_x >= n - 2 * BLOCK
      /\ i <= 2 => play_x <= 2 * BLOCK
  <2> DEFINE a == 2 * maze_x_dim
  <2>1. a \in Nat /\ i \in Nat /\ n = a * BLOCK
    BY DEF Dims
  <2>2. play_x = i * BLOCK /\ i * BLOCK \in Int /\ (a - 2) * BLOCK = a * BLOCK - 2 * BLOCK
        /\ a * BLOCK \in Int
    BY <1>1, <2>1, Times
  <2> HIDE DEF a
  <2>3. i + 2 >= a => (a - 2) * BLOCK <= i * BLOCK
    BY <1>1, <2>1, Times
  <2>4. i <= 2 => i * BLOCK <= 2 * BLOCK
    BY <1>1, <2>1, Times
  <2>5. play_x \in Int /\ (i + 2 >= a => play_x >= a * BLOCK - 2 * BLOCK) /\ (i <= 2 => play_x <= 2 * BLOCK)
    BY <1>1, <2>2, <2>3, <2>4
  <2> QED
    BY <2>1, <2>5 DEF a
<1> HIDE DEF k, n, u, v
<1>9. ASSUME play_x >= n - 2 * BLOCK PROVE show_x >= BLOCK
  BY <1>1, <1>3, <1>4, <1>5, <1>6, <1>7, <1>8, <1>9
<1>10. ASSUME play_x <= 2 * BLOCK PROVE show_x + SCROLL_X_DIM <= n
  BY <1>1, <1>3, <1>4, <1>5, <1>6, <1>7, <1>8, <1>10
<1> QED
  BY <1>8, <1>9, <1>10 DEF n

\* A square whose image unveiling changes is drawn next, if the window shows it.
LEMMA UnveiledAreDrawn ==
  ASSUME MazeInv, ViewInv, PlayerInv, FollowInv, Unveil, NEW p \in Window,
         <<p[1] \div BLOCK, p[2] \div BLOCK>> \notin redraw'
  PROVE  find_block(p[1] \div BLOCK, p[2] \div BLOCK)' = find_block(p[1] \div BLOCK, p[2] \div BLOCK)
<1> DEFINE a    == p[1] \div BLOCK
           b    == p[2] \div BLOCK
           at   == At
           here == MAZE_INDEX(at[1], at[2])
           eats == here \in fruit
           i    == MAZE_INDEX(a, b)
<1>1. /\ Playing /\ Furnished /\ pc # "prepare" /\ Dims /\ maze_x_dim >= MAZE_MIN_X_DIM
      /\ fruit \subseteq Rooms /\ n_fruits = Cardinality(fruit) /\ exit \in Rooms
      /\ UNCHANGED <<maze_x_dim, maze_y_dim, wall, exit>>
      /\ fruit' = fruit \ {here}
      /\ n_fruits' = IF eats THEN n_fruits - 1 ELSE n_fruits
      /\ reach' = reach \cup {MAZE_INDEX(q[1], q[2]) : q \in Unveiled(at)}
      /\ redraw' = Redrawn(eats)
  BY DEF Unveil, MazeInv, Playing, Furnished, Dims
<1>2. /\ InView /\ SHOW_MIN <= show_x /\ show_x + SCROLL_X_DIM <= Width - SHOW_MIN
      /\ SHOW_MIN <= show_y /\ show_y + SCROLL_Y_DIM <= Height - SHOW_MIN
      /\ Follows(show_x, play_x, SCROLL_X_DIM, Width)
  BY <1>1 DEF ViewInv, InView, FollowInv
<1>3. a \in 0 .. 2 * maze_x_dim /\ b \in 0 .. 2 * maze_y_dim /\ a \in Int /\ b \in Int
  <2>1. a \in 0 .. 2 * maze_x_dim /\ b \in 0 .. 2 * maze_y_dim
    BY <1>1, <1>2, SquareInMaze
  <2> HIDE DEF a, b
  <2> QED
    BY <2>1 DEF Dims
<1>4. /\ at = <<at[1], at[2]>> /\ at[1] \in Int /\ at[2] \in Int /\ Inside(at[1], at[2])
      /\ play_x = BLOCK * at[1]
  <2>1. move_cnt = 0 /\ play_x \in Int /\ play_y \in Int /\ Legal(play_x, play_y, 0, dir)
    BY <1>1 DEF PlayerInv, Unveil
  <2>2. OnGrid(play_x, play_y)
    BY <2>1, StandingOnGrid
  <2>3. play_x \div BLOCK \in Int /\ play_y \div BLOCK \in Int
        /\ play_x = BLOCK * (play_x \div BLOCK)
    BY <2>1, <2>2, BlockDivides, Sizes DEF OnGrid
  <2> QED
    BY <2>2, <2>3 DEF OnGrid, At
<1>5. <<a, b>> \notin Redrawn(eats)
  BY <1>1
<1> HIDE DEF a, b, at, here, eats
<1>6. at[1] \in 1 .. 2 * maze_x_dim - 1 /\ at[2] \in 1 .. 2 * maze_y_dim - 1
  BY <1>4 DEF Inside
<1>7. i \in fruit' <=> i \in fruit
  <2>1. ASSUME i = here, eats PROVE FALSE
    <3>1. a = at[1] /\ b = at[2]
      <4>1. MAZE_INDEX(at[1], at[2]) = MAZE_INDEX(a, b)
        BY <2>1 DEF here
      <4> QED
        BY <1>1, <1>3, <1>4, <4>1, InnerIsAlone
    <3>2. <<a, b>> \in Redrawn(eats)
      BY <1>4, <2>1, <3>1 DEF Redrawn, at
    <3> QED
      BY <1>5, <3>2
  <2> QED
    BY <1>1, <2>1 DEF eats
<1>8. (n_fruits' = 0 /\ i = exit) <=> (n_fruits = 0 /\ i = exit)
  <2>1. eats => n_fruits \in Nat \ {0}
    <3>1. IsFiniteSet(fruit)
      BY <1>1, RoomCount, FS_Subset
    <3>2. eats => fruit # {}
      BY DEF eats
    <3> QED
      BY <1>1, <3>1, <3>2, FS_EmptySet, FS_CardinalityType
  <2>2. ASSUME eats, n_fruits = 1, i = exit PROVE FALSE
    <3>1. PICK q \in RoomsAt : exit = Room(q)
      BY <1>1 DEF Rooms
    <3>2. /\ q = <<q[1], q[2]>> /\ q[1] \in Int /\ q[2] \in Int /\ Inside(q[1], q[2])
      BY <1>1, RoomIsInside
    <3>3. MAZE_INDEX(q[1], q[2]) = MAZE_INDEX(a, b)
      BY <2>2, <3>1 DEF Room
    <3>4. \A qx, qy \in Int : Inside(qx, qy) /\ MAZE_INDEX(qx, qy) = MAZE_INDEX(a, b) => qx = a /\ qy = b
      BY <1>1, <1>3, InnerIsAlone
    <3>5. q[1] = a /\ q[2] = b
      BY <3>2, <3>3, <3>4, Zenon
    <3>6. q \in ExitAt
      BY <3>1 DEF ExitAt
    <3> QED
      BY <1>5, <2>2, <3>2, <3>5, <3>6 DEF Redrawn
  <2> QED
    BY <1>1, <2>1, <2>2
<1>9. i \in reach' <=> i \in reach
  <2>1. ASSUME NEW q \in Unveiled(at), i = MAZE_INDEX(q[1], q[2]) PROVE i \in reach
    <3>1. q \in Around(at) /\ q[1] \in 0 .. 2 * maze_x_dim /\ q[2] \in 0 .. 2 * maze_y_dim
      BY DEF Unveiled
    <3>2. q = <<q[1], q[2]>> /\ q[1] - at[1] \in -2 .. 2
      <4>1. CASE \E j \in -1 .. 1, k \in -1 .. 1 : q = <<at[1] + j, at[2] + k>>
        BY <1>4, <4>1
      <4>2. CASE \E d \in 0 .. 3 : q = <<at[1] + 2 * StepX(d), at[2] + 2 * StepY(d)>>
        BY <1>4, <4>2, Steps
      <4> QED
        BY <3>1, <4>1, <4>2 DEF Around
    <3>3. <<a, b>> # q
      BY <1>5 DEF Redrawn, at
    <3>4. \/ a = q[1] /\ b = q[2]
          \/ a = 0 /\ q[1] = 2 * maze_x_dim
          \/ q[1] = 0 /\ a = 2 * maze_x_dim
      <4>1. \A c \in 0 .. 2 * maze_x_dim, d \in Int : MAZE_INDEX(a, b) = MAZE_INDEX(c, d) =>
              \/ a = c /\ b = d
              \/ a = 0 /\ c = 2 * maze_x_dim
              \/ c = 0 /\ a = 2 * maze_x_dim
        BY <1>1, <1>3, IndexIsShared
      <4>2. q[2] \in Int
        BY <3>1
      <4> QED
        BY <2>1, <3>1, <4>1, <4>2, Zenon
    <3>5. /\ p[1] \in Nat /\ p[1] >= show_x /\ p[1] < show_x + SCROLL_X_DIM /\ show_x \in Nat
      BY <1>2, WindowPixel, Sizes DEF InView
    <3>6. /\ at[1] + 2 >= 2 * maze_x_dim => show_x >= BLOCK
          /\ at[1] <= 2 => show_x + SCROLL_X_DIM <= 2 * maze_x_dim * BLOCK
      BY <1>1, <1>2, <1>4, <1>6, <3>5, WindowIsNotThere
    <3>7. a * BLOCK <= p[1] /\ p[1] < a * BLOCK + BLOCK
      BY <3>5, BlockRange DEF a
    <3>8. CASE a = 0 /\ q[1] = 2 * maze_x_dim
      <4>1. at[1] + 2 >= 2 * maze_x_dim
        BY <1>1, <1>4, <3>2, <3>8 DEF Dims
      <4>2. 0 * BLOCK = 0
        BY Sizes
      <4> QED
        BY <3>5, <3>6, <3>7, <3>8, <4>1, <4>2, Sizes
    <3>9. CASE q[1] = 0 /\ a = 2 * maze_x_dim
      <4>1. at[1] <= 2
        BY <1>4, <3>2, <3>9
      <4>2. 2 * maze_x_dim * BLOCK <= p[1] /\ 2 * maze_x_dim * BLOCK \in Int
        BY <1>1, <3>7, <3>9, MazeSizes
      <4> QED
        BY <3>5, <3>6, <4>1, <4>2, Sizes
    <3> QED
      BY <3>2, <3>3, <3>4, <3>8, <3>9
  <2> QED
    BY <1>1, <2>1
<1>10. MAZE_INDEX(a, b)' = i /\ WallsAround(a, b)' = WallsAround(a, b)
  BY <1>1 DEF MAZE_INDEX, WallsAround
<1>11. WallsAround(a, b)' = WallsAround(a, b) /\ wall' = wall /\ exit' = exit
  BY <1>1, <1>10
<1> HIDE DEF i
<1>12. find_block(a, b)' = find_block(a, b)
  <2>1. /\ (n_fruits' = 0 /\ i = exit') = (n_fruits = 0 /\ i = exit)
        /\ (i \in reach') = (i \in reach) /\ (i \in fruit') = (i \in fruit)
        /\ (i \in wall') = (i \in wall)
    BY <1>7, <1>8, <1>9, <1>11
  <2> QED
    BY <1>10, <1>11, <2>1 DEF find_block, i
<1> QED
  BY <1>12 DEF a, b

-----------------------------------------------------------------------------
(* The picture *)

LEMMA PixelsStay ==
  ASSUME UNCHANGED mazeVars, NEW px, NEW py
  PROVE  Pixel(px, py)' = Pixel(px, py)
<1> DEFINE a == px \div BLOCK
           b == py \div BLOCK
<1>1. UNCHANGED <<maze_x_dim, maze_y_dim, wall, reach, fruit, n_fruits, exit>>
  BY DEF mazeVars, points
<1>2. MAZE_INDEX(a, b)' = MAZE_INDEX(a, b) /\ WallsAround(a, b)' = WallsAround(a, b)
  BY <1>1 DEF MAZE_INDEX, WallsAround
<1>3. find_block(a, b)' = find_block(a, b)
  BY <1>1, <1>2 DEF find_block
<1> QED
  BY <1>3 DEF Pixel

LEMMA PixelsUnderPlayerStay ==
  ASSUME UNCHANGED mazeVars, UNCHANGED <<play_x, play_y>>, NEW d
  PROVE  Pixel(play_x + d[1], play_y + d[2])' = Pixel(play_x + d[1], play_y + d[2])
<1> DEFINE a == (play_x + d[1]) \div BLOCK
           b == (play_y + d[2]) \div BLOCK
<1>1. UNCHANGED <<maze_x_dim, maze_y_dim, wall, reach, fruit, n_fruits, exit, play_x, play_y>>
  BY DEF mazeVars, points
<1>2. MAZE_INDEX(a, b)' = MAZE_INDEX(a, b) /\ WallsAround(a, b)' = WallsAround(a, b)
  BY <1>1 DEF MAZE_INDEX, WallsAround
<1>3. find_block(a, b)' = find_block(a, b)
  BY <1>1, <1>2 DEF find_block
<1> QED
  BY <1>1, <1>3 DEF Pixel

LEMMA WindowStays ==
  ASSUME UNCHANGED <<show_x, show_y, img3_off>>
  PROVE  Window' = Window /\ \A p : Cell(p)' = Cell(p)
BY DEF Window, WindowAt, Cell, Address, Plane

\* The colours that drawing a pixel of the window gives.
LEMMA PixelsOfWindow ==
  ASSUME NEW p \in Window
  PROVE  Pixels[p] = Pixel(p[1], p[2])
BY DEF Pixels

LEMMA DrawLinesShows ==
  ASSUME InView, DrawLines
  PROVE  PictureInv'
<1>1. /\ UNCHANGED mazeVars /\ UNCHANGED <<show_x, show_y, img3_off>>
      /\ build' = draw_horiz_lines(Shown(build), 0 .. SCROLL_Y_DIM - 1, Pixels)
      /\ pc' = "unveil"
  BY DEF DrawLines
<1>2. ASSUME NEW p \in Window'
      PROVE  build'[Cell(p)'] = Pixel(p[1], p[2])'
  <2>1. p \in Window /\ Cell(p)' = Cell(p) /\ Pixel(p[1], p[2])' = Pixel(p[1], p[2])
    BY <1>1, WindowStays, PixelsStay
  <2>2. p[2] - show_y \in 0 .. SCROLL_Y_DIM - 1
    BY <2>1, WindowPixel
  <2>3. build'[Cell(p)] = Pixels[p]
    <3> DEFINE rows == 0 .. SCROLL_Y_DIM - 1
    <3>1. rows \in SUBSET (0 .. SCROLL_Y_DIM - 1)
      OBVIOUS
    <3>2. build' = draw_horiz_lines(Shown(build), rows, Pixels) /\ p[2] - show_y \in rows
      BY <1>1, <2>2
    <3> HIDE DEF rows
    <3> QED
      BY <2>1, <3>1, <3>2, DrawHorizontal
  <2> QED
    BY <2>1, <2>3, PixelsOfWindow
<1>3. Shows(Window)'
  BY <1>2 DEF Shows
<1> QED
  BY <1>1, <1>3 DEF PictureInv

LEMMA UnveilShows ==
  ASSUME MazeInv, ViewInv, PlayerInv, FollowInv, PictureInv, Unveil
  PROVE  PictureInv'
<1>1. /\ UNCHANGED <<show_x, show_y, img3_off>> /\ build' = build /\ pc' = "redraw"
      /\ pc \in {"unveil", "tick"}
  BY DEF Unveil, view
<1>2. Shows(Window)
  BY <1>1 DEF PictureInv
<1>3. ASSUME NEW p \in Window', <<p[1] \div BLOCK, p[2] \div BLOCK>> \notin redraw'
      PROVE  build'[Cell(p)'] = Pixel(p[1], p[2])'
  <2>1. p \in Window /\ Cell(p)' = Cell(p)
    BY <1>1, WindowStays
  <2>2. find_block(p[1] \div BLOCK, p[2] \div BLOCK)' = find_block(p[1] \div BLOCK, p[2] \div BLOCK)
    BY <1>3, <2>1, UnveiledAreDrawn
  <2>3. Pixel(p[1], p[2])' = Pixel(p[1], p[2])
    BY <2>2 DEF Pixel
  <2> QED
    BY <1>1, <1>2, <2>1, <2>3 DEF Shows
<1>4. Shows(Window \ Undrawn(redraw))'
  BY <1>3 DEF Shows, Undrawn
<1> QED
  BY <1>1, <1>4 DEF PictureInv

LEMMA RedrawShows ==
  ASSUME InView, PlayerInv, PictureInv, Redraw
  PROVE  PictureInv'
<1> DEFINE drawn == UNION {Block(p[1] * BLOCK, p[2] * BLOCK) : p \in redraw}
<1>1. /\ UNCHANGED mazeVars /\ UNCHANGED <<show_x, show_y, img3_off>>
      /\ build' = draw_pixels(build, drawn, Pixels)
      /\ pc = "redraw"
      /\ pc' \in {"draw", "choose"} \/ (pc' = "copy" /\ after' = "level")
  BY DEF Redraw
<1>2. Shows(Window \ Undrawn(redraw))
  BY <1>1 DEF PictureInv
<1>3. ASSUME NEW p \in Window'
      PROVE  build'[Cell(p)'] = Pixel(p[1], p[2])'
  <2>1. p \in Window /\ Cell(p)' = Cell(p) /\ Pixel(p[1], p[2])' = Pixel(p[1], p[2])
    BY <1>1, WindowStays, PixelsStay
  <2>2. build'[Cell(p)] = IF p \in drawn THEN Pixels[p] ELSE build[Cell(p)]
    BY <1>1, <2>1, DrawPixels
  <2>3. p \in Undrawn(redraw) => p \in drawn
    <3> DEFINE q == <<p[1] \div BLOCK, p[2] \div BLOCK>>
    <3>1. SUFFICES ASSUME q \in redraw PROVE p \in drawn
      BY DEF Undrawn
    <3>2. p = <<p[1], p[2]>> /\ p[1] \in Nat /\ p[2] \in Nat
      BY <2>1, WindowPixel
    <3>3. /\ (p[1] \div BLOCK) * BLOCK <= p[1] /\ p[1] < (p[1] \div BLOCK) * BLOCK + BLOCK
          /\ (p[1] \div BLOCK) * BLOCK \in Nat
          /\ (p[2] \div BLOCK) * BLOCK <= p[2] /\ p[2] < (p[2] \div BLOCK) * BLOCK + BLOCK
          /\ (p[2] \div BLOCK) * BLOCK \in Nat
      BY <3>2, BlockRange
    <3>4. p \in Block(q[1] * BLOCK, q[2] * BLOCK)
      BY <3>2, <3>3, Sizes DEF Block
    <3> HIDE DEF q
    <3> QED
      BY <3>1, <3>4
  <2>4. p \in Window \ Undrawn(redraw) => build[Cell(p)] = Pixel(p[1], p[2])
    BY <1>2 DEF Shows
  <2> HIDE DEF drawn
  <2> QED
    BY <2>1, <2>2, <2>3, <2>4, PixelsOfWindow
<1>4. Shows(Window)'
  BY <1>3 DEF Shows
<1> QED
  BY <1>1, <1>4 DEF PictureInv

LEMMA StepShows ==
  ASSUME PictureInv, Tick \/ Choose
  PROVE  PictureInv'
<1>1. /\ UNCHANGED mazeVars /\ UNCHANGED <<show_x, show_y, img3_off>> /\ build' = build
      /\ pc \in {"tick", "choose"} /\ pc' = "draw"
  BY DEF Tick, Choose, view
<1>2. Shows(Window)
  BY <1>1 DEF PictureInv
<1>3. ASSUME NEW p \in Window'
      PROVE  build'[Cell(p)'] = Pixel(p[1], p[2])'
  BY <1>1, <1>2, WindowStays, PixelsStay DEF Shows
<1>4. Shows(Window)'
  BY <1>3 DEF Shows
<1> QED
  BY <1>1, <1>4 DEF PictureInv

LEMMA PlayerInWindow ==
  ASSUME ViewInv, PlayerInv, FollowInv, Playing, NEW i \in 0 .. BLOCK - 1, NEW j \in 0 .. BLOCK - 1
  PROVE  <<play_x + i, play_y + j>> \in Window
<1>1. /\ show_x \in Nat /\ show_y \in Nat /\ play_x \in Int /\ play_y \in Int
      /\ show_x <= play_x /\ play_x + BLOCK <= show_x + SCROLL_X_DIM
      /\ show_y <= play_y /\ play_y + BLOCK <= show_y + SCROLL_Y_DIM
  BY DEF ViewInv, PlayerInv, FollowInv, Follows
<1>2. /\ play_x + i \in show_x .. show_x + SCROLL_X_DIM - 1
      /\ play_y + j \in show_y .. show_y + SCROLL_Y_DIM - 1
  BY <1>1, Sizes
<1> QED
  BY <1>2 DEF Window, WindowAt

LEMMA DrawPlayerShows ==
  ASSUME InView, ViewInv, PlayerInv, FollowInv, PictureInv, DrawPlayer
  PROVE  PictureInv'
<1> DEFINE image == (0 .. BLOCK - 1) \X (0 .. BLOCK - 1)
           P(d)  == <<play_x + d[1], play_y + d[2]>>
<1>1. /\ UNCHANGED mazeVars /\ UNCHANGED <<show_x, show_y, img3_off, play_x, play_y>>
      /\ Playing /\ pc = "draw" /\ pc' = "copy" /\ after' = after /\ after # "level"
      /\ play_x \in Int /\ play_y \in Int
  BY DEF DrawPlayer, playVars, Playing, PlayerInv
<1>2. Shows(Window)
  BY <1>1 DEF PictureInv
<1>3. ASSUME NEW d \in image
      PROVE  P(d) \in Window /\ d = <<d[1], d[2]>> /\ d[1] \in Int /\ d[2] \in Int
  <2>1. d = <<d[1], d[2]>> /\ d[1] \in 0 .. BLOCK - 1 /\ d[2] \in 0 .. BLOCK - 1
    OBVIOUS
  <2> QED
    BY <1>1, <2>1, PlayerInWindow
<1>4. MASK \subseteq image
  BY MaskAssumption
<1>5. /\ old_value_buf' = [d \in image |-> build[Cell(P(d))]]
      /\ build' = [c \in Cells |->
                     IF \E d \in MASK : Cell(P(d)) = c
                     THEN <<"player", {}, (CHOOSE d \in MASK : Cell(P(d)) = c)[1],
                            (CHOOSE d \in MASK : Cell(P(d)) = c)[2]>>
                     ELSE build[c]]
  BY DEF DrawPlayer, Cell
<1> HIDE DEF image
<1>6. ASSUME NEW p \in Window
      PROVE  build'[Cell(p)] = WithPlayer(p[1], p[2])
  <2> DEFINE c == Cell(p)
             e == <<p[1] - play_x, p[2] - play_y>>
  <2>1. p = <<p[1], p[2]>> /\ p[1] \in Nat /\ p[2] \in Nat /\ c \in Cells
    BY WindowPixel
  <2>2. build'[c] = IF \E d \in MASK : Cell(P(d)) = c
                    THEN <<"player", {}, (CHOOSE d \in MASK : Cell(P(d)) = c)[1],
                           (CHOOSE d \in MASK : Cell(P(d)) = c)[2]>>
                    ELSE build[c]
    BY <1>5, <2>1
  <2>3. ASSUME NEW d \in MASK, Cell(P(d)) = c
        PROVE  d = e
    <3>1. P(d) \in Window /\ d = <<d[1], d[2]>> /\ d[1] \in Int /\ d[2] \in Int
      BY <1>3, <1>4
    <3>2. P(d) = p
      BY <2>3, <3>1, CellsDiffer
    <3>3. play_x + d[1] = p[1] /\ play_y + d[2] = p[2]
      BY <3>2
    <3>4. d[1] = p[1] - play_x /\ d[2] = p[2] - play_y
      BY <1>1, <2>1, <3>1, <3>3
    <3> QED
      BY <3>1, <3>4
  <2>4. CASE e \in MASK
    <3>1. P(e) = p
      <4>1. play_x + (p[1] - play_x) = p[1] /\ play_y + (p[2] - play_y) = p[2]
        BY <1>1, <2>1
      <4> QED
        BY <2>1, <4>1
    <3> DEFINE f == CHOOSE d \in MASK : Cell(P(d)) = c
    <3> HIDE DEF c, e
    <3>2. Cell(P(e)) = c
      BY <3>1 DEF c
    <3>3. f \in MASK /\ Cell(P(f)) = c
      BY <2>4, <3>2
    <3>4. f = e
      BY <2>3, <3>3
    <3>5. build'[c] = <<"player", {}, f[1], f[2]>>
      BY <2>2, <2>4, <3>2
    <3> HIDE DEF f
    <3>6. build'[c] = <<"player", {}, p[1] - play_x, p[2] - play_y>>
      BY <3>4, <3>5 DEF e
    <3> QED
      BY <2>4, <3>6 DEF WithPlayer, c, e
  <2>5. CASE e \notin MASK
    <3>1. build'[c] = build[c]
      BY <2>2, <2>3, <2>5
    <3>2. build[c] = Pixel(p[1], p[2])
      BY <1>2 DEF Shows
    <3> QED
      BY <2>5, <3>1, <3>2 DEF WithPlayer
  <2> QED
    BY <2>4, <2>5
<1>7. ASSUME NEW p \in Window'
      PROVE  build'[Cell(p)'] = WithPlayer(p[1], p[2])'
  <2>1. p \in Window /\ Cell(p)' = Cell(p) /\ Pixel(p[1], p[2])' = Pixel(p[1], p[2])
    BY <1>1, WindowStays, PixelsStay
  <2>2. WithPlayer(p[1], p[2])' = WithPlayer(p[1], p[2])
    BY <1>1, <2>1 DEF WithPlayer
  <2> QED
    BY <1>6, <2>1, <2>2
<1>8. old_value_buf' = [d \in image |-> Pixel(play_x + d[1], play_y + d[2])']
  <2>1. ASSUME NEW d \in image
        PROVE  build[Cell(P(d))] = Pixel(play_x + d[1], play_y + d[2])'
    <3>1. build[Cell(P(d))] = Pixel(play_x + d[1], play_y + d[2])
      <4>1. P(d)[1] = play_x + d[1] /\ P(d)[2] = play_y + d[2]
        OBVIOUS
      <4>2. build[Cell(P(d))] = Pixel(P(d)[1], P(d)[2])
        BY <1>2, <1>3 DEF Shows
      <4> QED
        BY <4>1, <4>2
    <3> QED
      BY <1>1, <3>1, PixelsUnderPlayerStay
  <2> QED
    BY <1>5, <2>1
<1> QED
  BY <1>1, <1>7, <1>8 DEF PictureInv, PlayerDrawn, image

LEMMA ShowShows ==
  ASSUME PictureInv, ShowPlanes \/ ShowHigh
  PROVE  PictureInv'
<1>1. /\ UNCHANGED mazeVars /\ UNCHANGED <<show_x, show_y, img3_off, play_x, play_y>>
      /\ build' = build /\ old_value_buf' = old_value_buf /\ after' = after
      /\ pc \in {"copy", "high"} /\ pc' \in {"high", "low"}
  BY DEF ShowPlanes, ShowHigh, view, playVars, callVars
<1>2. Window' = Window /\ \A p : Cell(p)' = Cell(p)
  BY <1>1, WindowStays
<1>3. CASE after = "level"
  <2>1. \A p \in Window : build'[Cell(p)'] = Pixel(p[1], p[2])'
    BY <1>1, <1>2, <1>3, PixelsStay DEF PictureInv, Shows
  <2> QED
    BY <1>1, <1>2, <1>3, <2>1 DEF PictureInv, Shows
<1>4. CASE after # "level"
  <2>1. PlayerDrawn
    BY <1>1, <1>4 DEF PictureInv
  <2>2. \A px, py : WithPlayer(px, py)' = WithPlayer(px, py)
    BY <1>1, PixelsStay DEF WithPlayer
  <2>3. \A d : Pixel(play_x + d[1], play_y + d[2])' = Pixel(play_x + d[1], play_y + d[2])
    BY <1>1, PixelsUnderPlayerStay
  <2>4. PlayerDrawn'
    BY <1>1, <1>2, <2>1, <2>2, <2>3 DEF PlayerDrawn
  <2> QED
    BY <1>1, <1>4, <2>4 DEF PictureInv
<1> QED
  BY <1>3, <1>4

LEMMA ShowLowShows ==
  ASSUME InView, PlayerInv, PictureInv, ShowLow
  PROVE  PictureInv'
<1> DEFINE image == (0 .. BLOCK - 1) \X (0 .. BLOCK - 1)
           old   == [p \in Block(play_x, play_y) |-> old_value_buf[<<p[1] - play_x, p[2] - play_y>>]]
<1>1. /\ UNCHANGED mazeVars /\ UNCHANGED <<show_x, show_y, img3_off, play_x, play_y>>
      /\ pc = "low" /\ pc' \in {"next", "move", "tick"}
      /\ play_x \in Int /\ play_y \in Int
      /\ build' = IF after = "level" THEN build ELSE draw_full_block(build, play_x, play_y, old)
  BY DEF ShowLow, playVars, PlayerInv
<1>2. ASSUME NEW p \in Window
      PROVE  build'[Cell(p)] = Pixel(p[1], p[2])
  <2>1. CASE after = "level"
    BY <1>1, <2>1 DEF PictureInv, Shows
  <2>2. CASE after # "level"
    <3> DEFINE e == <<p[1] - play_x, p[2] - play_y>>
    <3>1. /\ build[Cell(p)] = WithPlayer(p[1], p[2])
          /\ old_value_buf = [d \in image |-> Pixel(play_x + d[1], play_y + d[2])]
      BY <1>1, <2>2 DEF PictureInv, PlayerDrawn
    <3>2. build'[Cell(p)] = IF p \in Block(play_x, play_y) THEN old[p] ELSE build[Cell(p)]
      BY <1>1, <2>2, DrawPixels DEF draw_full_block
    <3>3. p = <<p[1], p[2]>> /\ p[1] \in Nat /\ p[2] \in Nat
      BY WindowPixel
    <3>4. p \in Block(play_x, play_y) <=> e \in image
      <4>1. p \in Block(play_x, play_y) <=> /\ p[1] \in play_x .. play_x + BLOCK - 1
                                           /\ p[2] \in play_y .. play_y + BLOCK - 1
        BY <3>3 DEF Block
      <4>2. e \in image <=> p[1] - play_x \in 0 .. BLOCK - 1 /\ p[2] - play_y \in 0 .. BLOCK - 1
        OBVIOUS
      <4> HIDE DEF e, image
      <4> QED
        BY <1>1, <3>3, <4>1, <4>2, Sizes
    <3>5. CASE e \in image
      <4>1. old[p] = old_value_buf[e]
        BY <3>4, <3>5
      <4>2. old_value_buf[e] = Pixel(play_x + e[1], play_y + e[2])
        BY <3>1, <3>5, Zenon
      <4>3. play_x + e[1] = p[1] /\ play_y + e[2] = p[2]
        BY <1>1, <3>3
      <4> QED
        BY <3>2, <3>4, <3>5, <4>1, <4>2, <4>3, Zenon
    <3>6. CASE e \notin image
      BY <3>1, <3>2, <3>4, <3>6, MaskAssumption DEF WithPlayer
    <3> QED
      BY <3>5, <3>6
  <2> QED
    BY <2>1, <2>2
<1>3. \A p \in Window' : build'[Cell(p)'] = Pixel(p[1], p[2])'
  BY <1>1, <1>2, WindowStays, PixelsStay
<1>4. Shows(Window)'
  BY <1>3 DEF Shows
<1> QED
  BY <1>1, <1>4 DEF PictureInv

\* A range moved by one, without its new end, is in the old one.
LEMMA RangeMoved ==
  ASSUME NEW s \in Int, NEW n \in Nat, NEW v
  PROVE  /\ v \in s + 1 .. (s + 1) + n - 1 /\ v # (s + 1) + n - 1 => v \in s .. s + n - 1
         /\ v \in s - 1 .. (s - 1) + n - 1 /\ v # s - 1 => v \in s .. s + n - 1
OBVIOUS

\* What a panned window shows and the old one did not is its new line.
LEMMA PannedPixel ==
  ASSUME show_x \in Nat, show_y \in Nat, NEW d \in 0 .. 3,
         NEW sx, NEW sy, sx = show_x + StepX(d), sy = show_y + StepY(d), NEW p \in WindowAt(sx, sy),
         CASE d = 0 -> p[2] # sy
           [] d = 1 -> p[1] # sx + SCROLL_X_DIM - 1
           [] d = 2 -> p[2] # sy + SCROLL_Y_DIM - 1
           [] OTHER -> p[1] # sx
  PROVE  p \in Window
<1>1. /\ p = <<p[1], p[2]>>
      /\ p[1] \in sx .. sx + SCROLL_X_DIM - 1 /\ p[2] \in sy .. sy + SCROLL_Y_DIM - 1
  BY DEF WindowAt
<1>2. SCROLL_X_DIM \in Nat /\ SCROLL_Y_DIM \in Nat
  BY Sizes
<1>3. p[1] \in show_x .. show_x + SCROLL_X_DIM - 1 /\ p[2] \in show_y .. show_y + SCROLL_Y_DIM - 1
  <2>1. CASE d = 0
    <3>1. sx = show_x /\ sy = show_y - 1 /\ p[2] # sy
      BY <2>1, Steps
    <3> QED
      BY <1>1, <1>2, <3>1, RangeMoved
  <2>2. CASE d = 1
    <3>1. sx = show_x + 1 /\ sy = show_y /\ p[1] # sx + SCROLL_X_DIM - 1
      BY <2>2, Steps
    <3> QED
      BY <1>1, <1>2, <3>1, RangeMoved
  <2>3. CASE d = 2
    <3>1. sx = show_x /\ sy = show_y + 1 /\ p[2] # sy + SCROLL_Y_DIM - 1
      BY <2>3, Steps
    <3> QED
      BY <1>1, <1>2, <3>1, RangeMoved
  <2>4. CASE d = 3
    <3>1. sx = show_x - 1 /\ sy = show_y /\ p[1] # sx
      BY <2>4, Steps
    <3> QED
      BY <1>1, <1>2, <3>1, RangeMoved
  <2> QED
    BY <2>1, <2>2, <2>3, <2>4
<1> QED
  BY <1>1, <1>3 DEF Window, WindowAt

LEMMA MoveShows ==
  ASSUME InView, PlayerInv, ViewInv', PictureInv, Move
  PROVE  PictureInv'
<1>1. /\ UNCHANGED mazeVars /\ dir' = dir /\ dir \in 0 .. 3 /\ pc = "move"
      /\ show_x \in Nat /\ show_y \in Nat /\ show_x' \in Nat /\ show_y' \in Nat
  BY DEF Move, PlayerInv, DIR_STOP, InView, ViewInv
<1>2. Shows(Window)
  BY <1>1 DEF PictureInv
<1>3. CASE Pans(dir)
  <2> DEFINE sx == show_x + StepX(dir)
             sy == show_y + StepY(dir)
  <2>1. /\ set_view_window(sx, sy) /\ pc' = "line" /\ show_x' = sx /\ show_y' = sy
    BY <1>3 DEF Move, set_view_window
  <2>2. sx \in Nat /\ sy \in Nat
    BY <1>1, <2>1
  <2>3. ASSUME NEW p \in Window', p \notin NewLine(dir)'
        PROVE  build'[Cell(p)'] = Pixel(p[1], p[2])'
    <3>1. /\ p \in WindowAt(sx, sy)
          /\ CASE dir = 0 -> p[2] # sy
               [] dir = 1 -> p[1] # sx + SCROLL_X_DIM - 1
               [] dir = 2 -> p[2] # sy + SCROLL_Y_DIM - 1
               [] OTHER -> p[1] # sx
      <4>1. p \in WindowAt(sx, sy)
        BY <2>1, <2>3 DEF Window, WindowAt
      <4>2. ~ CASE dir = 0 -> p[2] = sy
                [] dir = 1 -> p[1] = sx + SCROLL_X_DIM - 1
                [] dir = 2 -> p[2] = sy + SCROLL_Y_DIM - 1
                [] OTHER -> p[1] = sx
        BY <1>1, <2>1, <2>3 DEF NewLine
      <4> HIDE DEF sx, sy
      <4> QED
        BY <1>1, <4>1, <4>2
    <3>2. p \in Window
      <4> HIDE DEF sx, sy
      <4>1. sx = show_x + StepX(dir) /\ sy = show_y + StepY(dir)
        BY DEF sx, sy
      <4> QED
        BY <1>1, <3>1, <4>1, PannedPixel
    <3>3. build'[Cell(p)'] = build[Cell(p)]
      BY <2>1, <2>2, <2>3, <3>2, ViewMoves
    <3> QED
      BY <1>1, <1>2, <3>2, <3>3, PixelsStay DEF Shows
  <2>4. Shows(Window \ NewLine(dir))'
    BY <2>3 DEF Shows
  <2> QED
    BY <1>1, <2>1, <2>4 DEF PictureInv
<1>4. CASE ~Pans(dir)
  <2>1. /\ UNCHANGED <<show_x, show_y, img3_off>> /\ build' = build /\ pc' = "draw"
    BY <1>4 DEF Move, view
  <2>2. ASSUME NEW p \in Window'
        PROVE  build'[Cell(p)'] = Pixel(p[1], p[2])'
    BY <1>1, <1>2, <2>1, WindowStays, PixelsStay DEF Shows
  <2>3. Shows(Window)'
    BY <2>2 DEF Shows
  <2> QED
    BY <2>1, <2>3 DEF PictureInv
<1> QED
  BY <1>3, <1>4

LEMMA DrawLineShows ==
  ASSUME InView, PictureInv, DrawLine
  PROVE  PictureInv'
<1>1. /\ UNCHANGED mazeVars /\ UNCHANGED <<show_x, show_y, img3_off>>
      /\ pc = "line" /\ pc' = "draw" /\ dir \in 0 .. 3
  BY DEF DrawLine, PictureInv
<1>2. Shows(Window \ NewLine(dir))
  BY <1>1 DEF PictureInv
<1>3. ASSUME NEW p \in Window
      PROVE  build'[Cell(p)] = IF p \in NewLine(dir) THEN Pixels[p] ELSE build[Cell(p)]
  <2>1. Shown(build)[Cell(p)] = build[Cell(p)]
    BY ShownInWindow
  <2>2. /\ p[1] \in Nat /\ p[2] \in Nat /\ show_x \in Nat /\ show_y \in Nat
        /\ SCROLL_X_DIM \in Nat \ {0} /\ SCROLL_Y_DIM \in Nat \ {0}
    BY WindowPixel, Sizes DEF InView
  <2>3. ASSUME NEW row \in 0 .. SCROLL_Y_DIM - 1, build' = draw_horiz_line(Shown(build), row, Pixels)
        PROVE  build'[Cell(p)] = IF p[2] = show_y + row THEN Pixels[p] ELSE build[Cell(p)]
    <3>1. {row} \in SUBSET (0 .. SCROLL_Y_DIM - 1)
      OBVIOUS
    <3>2. build' = draw_horiz_lines(Shown(build), {row}, Pixels)
      BY <2>3 DEF draw_horiz_line
    <3>3. build'[Cell(p)] = IF p[2] - show_y \in {row} THEN Pixels[p] ELSE Shown(build)[Cell(p)]
      BY <3>1, <3>2, DrawHorizontal
    <3>4. p[2] - show_y \in {row} <=> p[2] = show_y + row
      BY <2>2
    <3> QED
      BY <2>1, <3>3, <3>4
  <2>4. ASSUME NEW column \in 0 .. SCROLL_X_DIM - 1, build' = draw_vert_line(Shown(build), column, Pixels)
        PROVE  build'[Cell(p)] = IF p[1] = show_x + column THEN Pixels[p] ELSE build[Cell(p)]
    BY <2>1, <2>4, DrawVertical
  <2>5. CASE dir = 0
    <3>1. build' = draw_horiz_line(Shown(build), 0, Pixels)
      BY <2>5 DEF DrawLine
    <3>2. p \in NewLine(dir) <=> p[2] = show_y + 0
      BY <2>2, <2>5 DEF NewLine
    <3> QED
      BY <2>2, <2>3, <3>1, <3>2
  <2>6. CASE dir = 1
    <3>1. build' = draw_vert_line(Shown(build), SCROLL_X_DIM - 1, Pixels)
      BY <2>6 DEF DrawLine
    <3>2. p \in NewLine(dir) <=> p[1] = show_x + (SCROLL_X_DIM - 1)
      BY <2>2, <2>6 DEF NewLine
    <3>3. SCROLL_X_DIM - 1 \in 0 .. SCROLL_X_DIM - 1
      BY <2>2
    <3> QED
      BY <2>4, <3>1, <3>2, <3>3
  <2>7. CASE dir = 2
    <3>1. build' = draw_horiz_line(Shown(build), SCROLL_Y_DIM - 1, Pixels)
      BY <2>7 DEF DrawLine
    <3>2. p \in NewLine(dir) <=> p[2] = show_y + (SCROLL_Y_DIM - 1)
      BY <2>2, <2>7 DEF NewLine
    <3>3. SCROLL_Y_DIM - 1 \in 0 .. SCROLL_Y_DIM - 1
      BY <2>2
    <3> QED
      BY <2>3, <3>1, <3>2, <3>3
  <2>8. CASE dir = 3
    <3>1. build' = draw_vert_line(Shown(build), 0, Pixels)
      BY <2>8 DEF DrawLine
    <3>2. p \in NewLine(dir) <=> p[1] = show_x + 0
      BY <2>2, <2>8 DEF NewLine
    <3> QED
      BY <2>2, <2>4, <3>1, <3>2
  <2> QED
    BY <1>1, <2>5, <2>6, <2>7, <2>8
<1>4. ASSUME NEW p \in Window'
      PROVE  build'[Cell(p)'] = Pixel(p[1], p[2])'
  <2>1. p \in Window /\ Cell(p)' = Cell(p) /\ Pixel(p[1], p[2])' = Pixel(p[1], p[2])
    BY <1>1, WindowStays, PixelsStay
  <2>2. p \notin NewLine(dir) => build[Cell(p)] = Pixel(p[1], p[2])
    BY <1>2, <2>1 DEF Shows
  <2> QED
    BY <1>3, <2>1, <2>2, PixelsOfWindow
<1>5. Shows(Window)'
  BY <1>4 DEF Shows
<1> QED
  BY <1>1, <1>5 DEF PictureInv

LEMMA NextKeepsPicture ==
  ASSUME IInv, Next, ViewInv'
  PROVE  PictureInv'
<1>1. MazeInv /\ ViewInv /\ PlayerInv /\ FollowInv /\ PictureInv
  BY DEF IInv
<1>2. Furnished => InView
  BY <1>1 DEF ViewInv, InView
<1>3. CASE Prepare \/ MakeMaze \/ SetView \/ NextLevel
  <2>1. pc' \in {"dig", "lines", "prepare"}
    BY <1>3 DEF Prepare, MakeMaze, SetView, NextLevel
  <2> QED
    BY <2>1 DEF PictureInv
<1>4. CASE DrawLines
  BY <1>2, <1>4, DrawLinesShows DEF DrawLines, Furnished
<1>5. CASE Unveil
  BY <1>1, <1>5, UnveilShows
<1>6. CASE Redraw
  BY <1>1, <1>2, <1>6, RedrawShows DEF Redraw, Furnished
<1>7. CASE Tick \/ Choose
  BY <1>1, <1>7, StepShows
<1>8. CASE DrawPlayer
  BY <1>1, <1>2, <1>8, DrawPlayerShows DEF DrawPlayer, Furnished
<1>9. CASE ShowPlanes \/ ShowHigh
  BY <1>1, <1>9, ShowShows
<1>10. CASE ShowLow
  BY <1>1, <1>2, <1>10, ShowLowShows DEF ShowLow, Furnished
<1>11. CASE Move
  BY <1>1, <1>2, <1>11, MoveShows DEF Move, Furnished
<1>12. CASE DrawLine
  BY <1>1, <1>2, <1>12, DrawLineShows DEF DrawLine, Furnished
<1>13. CASE Ended
  <2>1. /\ UNCHANGED mazeVars /\ UNCHANGED <<show_x, show_y, img3_off>> /\ build' = build
        /\ pc = "next" /\ pc' = "next"
    BY <1>13 DEF Ended, vars, view
  <2>2. \A p \in Window' : build'[Cell(p)'] = Pixel(p[1], p[2])'
    BY <1>1, <2>1, WindowStays, PixelsStay DEF PictureInv, Shows
  <2>3. Shows(Window)'
    BY <2>2 DEF Shows
  <2> QED
    BY <2>1, <2>3 DEF PictureInv
<1> QED
  BY <1>3, <1>4, <1>5, <1>6, <1>7, <1>8, <1>9, <1>10, <1>11, <1>12, <1>13 DEF Next

LEMMA NextKeepsPages ==
  ASSUME PageInv, Next
  PROVE  PageInv'
<1>1. CASE ShowPlanes
  BY <1>1, CopyKeepsPages DEF ShowPlanes
<1>2. CASE ShowHigh
  BY <1>2, HighKeepsPages DEF ShowHigh
<1>3. CASE ShowLow
  BY <1>3, LowKeepsPages DEF ShowLow
<1>4. CASE ~(ShowPlanes \/ ShowHigh \/ ShowLow)
  <2>1. UNCHANGED pageVars /\ pc \notin {"high", "low"} /\ pc' \notin {"high", "low"}
    BY <1>4 DEF Next, Prepare, MakeMaze, SetView, DrawLines, Unveil, Redraw, Tick, Choose,
       DrawPlayer, Move, DrawLine, NextLevel, Ended, vars
  <2> QED
    BY <2>1, OthersKeepPages
<1> QED
  BY <1>1, <1>2, <1>3, <1>4

-----------------------------------------------------------------------------
(* The theorems *)

LEMMA InitEstablishesInvariant == Init => IInv
<1> SUFFICES ASSUME Init PROVE IInv
  OBVIOUS
<1>1. 1 \in Odd(2 * 1)
  <2>1. 1 % 2 = 1
    OBVIOUS
  <2> QED
    BY <2>1 DEF Odd
<1>2. MazeInv
  BY <1>1 DEF Init, MazeInv, Furnished
<1>3. SearchInv
  BY DEF Init, SearchInv
<1>4. ViewInv
  BY Sizes DEF Init, InitModeX, ViewInv, Furnished
<1>5. PlayerInv
  BY Sizes DEF Init, Start, DIR_STOP, PlayerInv, Playing
<1>6. FollowInv /\ PictureInv
  BY DEF Init, FollowInv, Playing, PictureInv
<1>7. PageInv
  BY PagesStart DEF Init
<1> QED
  BY <1>2, <1>3, <1>4, <1>5, <1>6, <1>7 DEF IInv

LEMMA NextKeepsInvariant == IInv /\ [Next]_vars => IInv'
<1> SUFFICES ASSUME IInv, [Next]_vars PROVE IInv'
  OBVIOUS
<1>1. MazeInv /\ SearchInv /\ ViewInv /\ PlayerInv /\ FollowInv /\ PictureInv /\ PageInv
  BY DEF IInv
<1>2. CASE Next
  <2>1. MazeInv' /\ SearchInv'
    BY <1>1, <1>2, NextKeepsMaze
  <2>2. ViewInv' /\ PlayerInv' /\ FollowInv'
    BY <1>1, <1>2, PlayerIsFollowed
  <2>3. PictureInv'
    BY <1>2, <2>2, NextKeepsPicture
  <2>4. PageInv'
    BY <1>1, <1>2, NextKeepsPages
  <2> QED
    BY <2>1, <2>2, <2>3, <2>4 DEF IInv
<1>3. CASE UNCHANGED vars
  <2>1. UNCHANGED mazeVars /\ UNCHANGED view /\ UNCHANGED pageVars
        /\ UNCHANGED <<pc, level, play_x, play_y, dir, move_cnt, redraw, old_value_buf, after>>
    BY <1>3 DEF vars, playVars, callVars
  <2>2. MazeInv' /\ SearchInv'
    <3>1. /\ UNCHANGED <<maze_x_dim, maze_y_dim, wall, reach, fruit, n_fruits, exit>>
          /\ UNCHANGED <<gen, x, y, remaining, pc, level>>
      BY <2>1 DEF mazeVars, points, genVars
    <3>2. RoomsAt' = RoomsAt /\ (\A q : Room(q)' = Room(q)) /\ \A i, j : MAZE_INDEX(i, j)' = MAZE_INDEX(i, j)
      BY <3>1 DEF RoomsAt, Room, MAZE_INDEX, Odd
    <3>3. \A p, q, w : Joined(p, q, w)' <=> Joined(p, q, w)
      BY <3>2 DEF Joined
    <3>4. \A s, w : Closed(s, w, {})' <=> Closed(s, w, {})
      BY <3>2, <3>3 DEF Closed
    <3>5. mark_maze_area(<<1, 1>>, wall, {})' = mark_maze_area(<<1, 1>>, wall, {})
      BY <3>1, <3>2, <3>4 DEF mark_maze_area, Area
    <3>6. MazeInv'
      BY <1>1, <3>1, <3>2 DEF MazeInv, Furnished, BoundaryStands, Inside, Rooms, Odd
    <3> QED
      BY <1>1, <3>1, <3>5, <3>6 DEF SearchInv
  <2>3. ViewInv' /\ PlayerInv' /\ FollowInv'
    BY <1>1, <2>1 DEF mazeVars, view, ViewInv, PlayerInv, FollowInv, Fits, Width, Height, Follows,
       Legal, OnGrid, Inside, Furnished, Playing
  <2>4. PictureInv'
    <3>1. Window' = Window /\ (\A p : Cell(p)' = Cell(p)) /\ \A px, py : Pixel(px, py)' = Pixel(px, py)
      BY <2>1, WindowStays, PixelsStay DEF view
    <3>2. \A p : build'[Cell(p)'] = build[Cell(p)]
      BY <2>1, <3>1 DEF view
    <3>3. Shows(Window)' <=> Shows(Window)
      BY <3>1, <3>2 DEF Shows
    <3>4. Shows(Window \ Undrawn(redraw))' <=> Shows(Window \ Undrawn(redraw))
      BY <2>1, <3>1, <3>2 DEF Shows, Undrawn
    <3>5. Shows(Window \ NewLine(dir))' <=> Shows(Window \ NewLine(dir))
      BY <2>1, <3>1, <3>2 DEF Shows, NewLine, view
    <3>6. PlayerDrawn' <=> PlayerDrawn
      <4>1. \A px, py : WithPlayer(px, py)' = WithPlayer(px, py)
        BY <2>1, <3>1 DEF WithPlayer
      <4>2. \A d : Pixel(play_x + d[1], play_y + d[2])' = Pixel(play_x + d[1], play_y + d[2])
        BY <2>1, PixelsUnderPlayerStay
      <4> QED
        BY <2>1, <3>1, <3>2, <4>1, <4>2 DEF PlayerDrawn
    <3> QED
      BY <1>1, <2>1, <3>3, <3>4, <3>5, <3>6 DEF PictureInv
  <2>5. PageInv'
    BY <1>1, <2>1 DEF PageInv, pageVars
  <2> QED
    BY <2>2, <2>3, <2>4, <2>5 DEF IInv
<1> QED
  BY <1>2, <1>3

\* Level after level the maze, the search, the window, the player and the picture
\* keep to IInv.
THEOREM InvariantHolds == Spec => []IInv
<1>1. Init => IInv
  BY InitEstablishesInvariant
<1>2. IInv /\ [Next]_vars => IInv'
  BY NextKeepsInvariant
<1> QED
  BY <1>1, <1>2, PTL DEF Spec

\* make_maze's loops end only when every room is connected: what the worms, the
\* random tries and the scan count as reached is what a search from (1,1) finds.
THEOREM EveryRoomIsConnected == Spec => []EveryRoomIsReachable
<1>1. IInv => EveryRoomIsReachable
  BY SearchIsComplete DEF IInv
<1> QED
  BY <1>1, InvariantHolds, PTL

\* show_screen writes the page that is not displayed, and the start address goes
\* through no other value that ends like a page.
THEOREM DisplayedPageIsWhole == Spec => []DisplayIsWhole
<1>1. IInv => DisplayIsWhole
  BY PagesAreWhole DEF IInv
<1> QED
  BY <1>1, InvariantHolds, PTL

\* Between frames the build buffer has what drawing the whole window would give,
\* although only unveiled squares, new lines and what the player covered are drawn.
THEOREM BuildIsRight == Spec => []BuildShowsTheMaze
<1>1. IInv => BuildShowsTheMaze
  <2> SUFFICES ASSUME IInv, pc \in {"choose", "move", "tick", "next"}, NEW p \in Window
               PROVE  /\ Address(img3_off, p[1], p[2]) \in Cells
                      /\ build[Address(img3_off, p[1], p[2])] = Pixel(p[1], p[2])
    BY DEF BuildShowsTheMaze
  <2>1. InView /\ Shows(Window)
    BY DEF IInv, ViewInv, Furnished, InView, PictureInv
  <2>2. Cell(p) \in Cells /\ build[Cell(p)] = Pixel(p[1], p[2])
    BY <2>1, WindowPixel DEF Shows
  <2> QED
    BY <2>2 DEF Cell
<1> QED
  BY <1>1, InvariantHolds, PTL

\* The frame that show_screen copies is the maze with the player in it, and
\* nothing beyond the maze, wherever set_view_window has moved the window.
THEOREM FrameIsRight == Spec => []FrameShowsPlayer
<1>1. IInv => FrameShowsPlayer
  <2> SUFFICES ASSUME IInv, pc = "copy", after # "level" PROVE FrameShowsPlayer
    BY DEF FrameShowsPlayer
  <2>1. /\ InView /\ ViewInv /\ PlayerInv /\ FollowInv /\ PlayerDrawn /\ Playing
        /\ play_x \in Int /\ play_y \in Int
    BY DEF IInv, ViewInv, Furnished, InView, PictureInv, Playing, PlayerInv
  <2>2. Block(play_x, play_y) \subseteq Window
    <3> SUFFICES ASSUME NEW p \in Block(play_x, play_y) PROVE p \in Window
      OBVIOUS
    <3> DEFINE i == p[1] - play_x
               j == p[2] - play_y
    <3>1. p = <<p[1], p[2]>> /\ p[1] \in play_x .. play_x + BLOCK - 1 /\ p[2] \in play_y .. play_y + BLOCK - 1
      BY DEF Block
    <3>2. i \in 0 .. BLOCK - 1 /\ j \in 0 .. BLOCK - 1 /\ play_x + i = p[1] /\ play_y + j = p[2]
      BY <2>1, <3>1, Sizes
    <3> HIDE DEF i, j
    <3> QED
      BY <2>1, <3>1, <3>2, PlayerInWindow
  <2>3. /\ show_x >= SHOW_MIN /\ show_x + SCROLL_X_DIM <= (2 * maze_x_dim + 1) * BLOCK - SHOW_MIN
        /\ show_y >= SHOW_MIN /\ show_y + SCROLL_Y_DIM <= (2 * maze_y_dim + 1) * BLOCK - SHOW_MIN
    <3>1. /\ SHOW_MIN <= show_x /\ show_x + SCROLL_X_DIM <= Width - SHOW_MIN
          /\ SHOW_MIN <= show_y /\ show_y + SCROLL_Y_DIM <= Height - SHOW_MIN
      BY <2>1 DEF ViewInv, Playing, Furnished
    <3> QED
      BY <2>1, <3>1, ShowAssumption DEF Width, Height, InView
  <2>4. ASSUME NEW s \in WindowAt(0, 0)
        PROVE  LET px == show_x + s[1]
                   py == show_y + s[2]
               IN build[Source(s[1], s[2])] =
                    IF <<px - play_x, py - play_y>> \in MASK
                    THEN <<"player", {}, px - play_x, py - play_y>> ELSE Pixel(px, py)
    <3> DEFINE px == show_x + s[1]
               py == show_y + s[2]
    <3>1. /\ s[1] \in 0 .. SCROLL_X_DIM - 1 /\ s[2] \in 0 .. SCROLL_Y_DIM - 1
      BY Sizes DEF WindowAt
    <3>2. <<px, py>> \in Window
      <4>1. /\ px \in show_x .. show_x + SCROLL_X_DIM - 1 /\ py \in show_y .. show_y + SCROLL_Y_DIM - 1
        BY <2>1, <3>1, Sizes DEF InView
      <4> QED
        BY <4>1 DEF Window, WindowAt
    <3>3. Source(s[1], s[2]) = Address(img3_off, px, py)
      BY <2>1, <3>1, SourceIsTheAddress
    <3>4. Cell(<<px, py>>) = Address(img3_off, px, py)
      BY DEF Cell
    <3>5. build[Cell(<<px, py>>)] = WithPlayer(px, py)
      BY <2>1, <3>2 DEF PlayerDrawn
    <3> QED
      BY <3>3, <3>4, <3>5 DEF WithPlayer
  <2> QED
    BY <2>2, <2>3, <2>4 DEF FrameShowsPlayer
<1> QED
  BY <1>1, InvariantHolds, PTL

=============================================================================
