-------------------------------- MODULE ModeX ---------------------------------
(***************************************************************************)
(* The mode X display of the maze game (modex.c): the build buffer, through *)
(* which the logical view window moves, and the two pages of video memory   *)
(* that take turns on the screen.                                           *)
(*                                                                         *)
(* The build buffer holds four planes, every fourth pixel of a row in one.  *)
(* A cell outside the window holds Stale: its content does not count.       *)
(***************************************************************************)
EXTENDS Integers

CONSTANTS
  SCROLL_X_DIM, SCROLL_Y_DIM,  \* the window, in pixels (320 x 182)
  BUILD_EXTRA,                 \* room to move in the build buffer (20000)
  BLOCK                        \* pixels along a block (12)

ASSUME ScrollAssumption ==
  /\ SCROLL_X_DIM \in Nat \ {0} /\ SCROLL_X_DIM % 4 = 0
  /\ SCROLL_Y_DIM \in Nat \ {0}
  /\ BUILD_EXTRA \in Nat /\ BLOCK \in Nat \ {0}

SCROLL_X_WIDTH  == SCROLL_X_DIM \div 4
SCROLL_SIZE     == SCROLL_X_WIDTH * SCROLL_Y_DIM
SCREEN_SIZE     == SCROLL_SIZE * 4 + 1
BUILD_BUF_SIZE  == SCREEN_SIZE + BUILD_EXTRA
BUILD_BASE_INIT == BUILD_EXTRA \div 2

Cells == 0 .. BUILD_BUF_SIZE - 1
Stale == <<"stale", {}, 0, 0>>

VARIABLES
  show_x, show_y,   \* upper left pixel of the window
  img3_off,         \* where pixel (0, 0) would be in plane 3
  build,
  target_img,       \* the page written last
  start_addr,       \* the CRTC's start address: the page displayed
  whole             \* the pages that hold a complete frame

view     == <<show_x, show_y, img3_off, build>>
pageVars == <<target_img, start_addr, whole>>

\* Where pixel (px, py) is with offset off.
Plane(px) == (3 - (px % 4)) * SCROLL_SIZE
Address(off, px, py) == off + (px \div 4) + py * SCROLL_X_WIDTH + Plane(px)

WindowAt(sx, sy) == (sx .. sx + SCROLL_X_DIM - 1) \X (sy .. sy + SCROLL_Y_DIM - 1)
Window == WindowAt(show_x, show_y)

\* b without what the window does not show.
Shown(b) ==
  LET cells == {Address(img3_off, p[1], p[2]) : p \in Window} IN
  [c \in Cells |-> IF c \in cells THEN b[c] ELSE Stale]

-----------------------------------------------------------------------------
(* set_view_window *)

Fits(sx, sy) ==
  /\ img3_off + (sx \div 4) + sy * SCROLL_X_WIDTH >= 0
  /\ img3_off + 3 * SCROLL_SIZE + ((sx + SCROLL_X_DIM - 1) \div 4)
       + (sy + SCROLL_Y_DIM - 1) * SCROLL_X_WIDTH < BUILD_BUF_SIZE

Overlaps(sx, sy) ==
  /\ sx > show_x - SCROLL_X_DIM /\ sx < show_x + SCROLL_X_DIM
  /\ sy > show_y - SCROLL_Y_DIM /\ sy < show_y + SCROLL_Y_DIM

Centred(sx, sy) == BUILD_BASE_INIT - (sx \div 4) - sy * SCROLL_X_WIDTH

Larger(a, b)  == IF a > b THEN a ELSE b
Smaller(a, b) == IF a > b THEN b ELSE a

\* Fault: bytes are copied upwards whatever the direction of the move, so the
\* beginning overwrites what is still to be copied.
MovedBy_upwards(start, length, distance) ==
  [c \in Cells |->
     IF c - distance \in start .. start + length - 1
     THEN build[IF distance > 0 THEN start + ((c - distance - start) % distance)
                ELSE c - distance]
     ELSE build[c]]

\* A copy that respects overlap.
MovedBy(start, length, distance) ==
  [c \in Cells |-> IF c - distance \in start .. start + length - 1
                   THEN build[c - distance] ELSE build[c]]

\* All contiguous data from the first to the last pixel both windows show.
Moved(sx, sy) ==
  LET start_off == (Larger(sx, show_x) \div 4) + Larger(sy, show_y) * SCROLL_X_WIDTH
      end_x     == Smaller(sx, show_x) + SCROLL_X_DIM - 1
      end_y     == Smaller(sy, show_y) + SCROLL_Y_DIM - 1
      length    == (end_x \div 4) + end_y * SCROLL_X_WIDTH + 1 - start_off + 3 * SCROLL_SIZE
  IN MovedBy(img3_off + start_off, length, Centred(sx, sy) - img3_off)

NewOffset(sx, sy) == IF Fits(sx, sy) THEN img3_off ELSE Centred(sx, sy)
NewBuild(sx, sy)  == IF ~Fits(sx, sy) /\ Overlaps(sx, sy) THEN Moved(sx, sy) ELSE build

-----------------------------------------------------------------------------
(* Drawing; pixels[<<px, py>>] is the colour of a pixel in the window       *)

\* draw_horiz_line(row), of several rows in turn, no two of which share a cell:
\* the address runs through the planes from the highest to the lowest, and then
\* on to the next byte.
draw_horiz_lines(b, rows, pixels) ==
  LET first   == show_x % 4
      Cell(p) == img3_off + (show_x \div 4) + (p[2] + show_y) * SCROLL_X_WIDTH
                   + ((first + p[1]) \div 4) + Plane(first + p[1])
      line    == (0 .. SCROLL_X_DIM - 1) \X rows
  IN [c \in Cells |->
        IF \E p \in line : Cell(p) = c
        THEN LET p == CHOOSE p \in line : Cell(p) = c
             IN pixels[<<show_x + p[1], show_y + p[2]>>]
        ELSE b[c]]

draw_horiz_line(b, row, pixels) == draw_horiz_lines(b, {row}, pixels)

\* draw_vert_line(column)
draw_vert_line(b, column, pixels) ==
  LET px      == column + show_x
      Cell(i) == img3_off + (px \div 4) + (show_y + i) * SCROLL_X_WIDTH + Plane(px)
      line    == 0 .. SCROLL_Y_DIM - 1
  IN [c \in Cells |->
        IF \E i \in line : Cell(i) = c
        THEN pixels[<<px, show_y + (CHOOSE i \in line : Cell(i) = c)>>]
        ELSE b[c]]

\* draw_full_block's loops: those of the pixels that the window shows, which is
\* its clipping, and that of draw_mask_block.
draw_pixels(b, drawn, pixels) ==
  LET shown == drawn \cap Window IN
  [c \in Cells |->
     IF \E p \in shown : Address(img3_off, p[1], p[2]) = c
     THEN pixels[CHOOSE p \in shown : Address(img3_off, p[1], p[2]) = c]
     ELSE b[c]]

Block(pos_x, pos_y) == (pos_x .. pos_x + BLOCK - 1) \X (pos_y .. pos_y + BLOCK - 1)

draw_full_block(b, pos_x, pos_y, pixels) == draw_pixels(b, Block(pos_x, pos_y), pixels)

-----------------------------------------------------------------------------
(* show_screen *)

PAGE_SIZE == 16384  \* 0x4000
Flipped(a) == IF (a \div PAGE_SIZE) % 2 = 0 THEN a + PAGE_SIZE ELSE a - PAGE_SIZE

\* The cell that show_screen copies to screen pixel (px, py).
Source(px, py) ==
  LET p_off == 3 - (show_x % 4)
      i     == px % 4
      addr  == img3_off + (show_x \div 4) + show_y * SCROLL_X_WIDTH
      plane == (p_off - i + 4) % 4
  IN addr + plane * SCROLL_SIZE + (IF p_off < i THEN 1 ELSE 0)
       + (px \div 4) + py * SCROLL_X_WIDTH

\* Fault: the page on the screen is drawn on.
Target_same == target_img

Target == Flipped(target_img)

\* The planes are copied to the page that is not displayed ...
CopyPlanes ==
  /\ target_img' = Target
  /\ whole' = whole \ {target_img'}
  /\ UNCHANGED start_addr

\* ... and the start address is moved there: high byte, low byte.
SetHigh ==
  /\ start_addr' = (target_img \div 256) * 256 + (start_addr % 256)
  /\ whole' = whole \cup {target_img}
  /\ UNCHANGED target_img

SetLow ==
  /\ start_addr' = (start_addr \div 256) * 256 + (target_img % 256)
  /\ UNCHANGED <<target_img, whole>>

\* set_mode_X
InitModeX ==
  /\ show_x = 0 /\ show_y = 0
  /\ img3_off = BUILD_BASE_INIT
  /\ build = [c \in Cells |-> Stale]
  /\ target_img = 1440
  /\ start_addr = 0
  /\ whole = {}

-----------------------------------------------------------------------------
(* Properties *)

\* From the first frame on, what is displayed is a complete frame, though the
\* next one is being copied and the start address is set in two halves.
DisplayIsWhole == start_addr % 256 = target_img % 256 => start_addr \in whole

=============================================================================
