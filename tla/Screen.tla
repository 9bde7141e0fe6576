-------------------------------- MODULE Screen --------------------------------
(***************************************************************************)
(* The text screen of the MP3 kernel (lib.c) and what terminal_write        *)
(* (terminal_driver.c) prints on it.  A screen is a record of the text in   *)
(* video memory, one cell a character (the attribute byte never changes),   *)
(* and of the cursor screen_x, screen_y.                                    *)
(*                                                                         *)
(* The cursor is not always on the screen: Backspace steps it to the left   *)
(* of column 0, where the address NUM_COLS * y + x is still the right one.  *)
(***************************************************************************)
EXTENDS Integers, Sequences

CONSTANTS NUM_COLS, NUM_ROWS      \* 80 and 25 in lib.h

ASSUME ScreenAssumption == /\ NUM_COLS \in Nat /\ NUM_COLS >= 2
                           /\ NUM_ROWS \in Nat /\ NUM_ROWS >= 3

Space   == " "
NewLine == "newline"
Nul     == "nul"

Cells   == 0..(NUM_ROWS * NUM_COLS - 1)
LastCol == NUM_COLS - 1
LastRow == NUM_ROWS - 1

Address(x, y) == NUM_COLS * y + x
CursorOf(s)   == Address(s.x, s.y)

Screen(mem, px, py) == [video_mem |-> mem, x |-> px, y |-> py]

Blank == [c \in Cells |-> Space]

clear(s) == Screen(Blank, s.x, s.y)
set_cursor(s, px, py) == Screen(s.video_mem, px, py)

\* Every row moves up by one and the last is blank.
scrolling(s) ==
  Screen([c \in Cells |-> IF c + NUM_COLS \in Cells THEN s.video_mem[c + NUM_COLS]
                          ELSE Space],
         0, LastRow)

\* The remainder of C, which takes the sign of the dividend.
Remainder(a) == IF a >= 0 THEN a % NUM_COLS ELSE -((-a) % NUM_COLS)

\* Whether printing c moves the text up.
Scrolls(s, c) == s.y = LastRow /\ (s.x = LastCol \/ c = NewLine)

\* Whatever is printed in the last column is not shown; it only ends the row.
putc(s, c) ==
  CASE Scrolls(s, c) -> scrolling(s)
    [] ~Scrolls(s, c) /\ (s.x = LastCol \/ c = NewLine) -> set_cursor(s, 0, s.y + 1)
    [] ~Scrolls(s, c) /\ s.x # LastCol /\ c # NewLine ->
         Screen([s.video_mem EXCEPT ![CursorOf(s)] = c], Remainder(s.x + 1), s.y)

\* A string, character by character (puts, and printf without directives).  The
\* set of the one screen before a character has TLC compute that screen once.
puts(s, str) ==
  LET printed[i \in 0..Len(str)] ==
        IF i = 0 THEN s
        ELSE CHOOSE after \in {putc(before, str[i]) : before \in {printed[i - 1]}} : TRUE
  IN printed[Len(str)]

-----------------------------------------------------------------------------
(* terminal_write *)

\* What precedes the first 0.
UpToNul(str) ==
  LET nuls == {i \in 1..Len(str) : str[i] = Nul}
  IN IF nuls = {} THEN str
     ELSE SubSeq(str, 1, (CHOOSE i \in nuls : \A j \in nuls : i <= j) - 1)

\* The row-sized buffer that a short write is copied into: zeros but for a
\* newline at its end, which a write of NUM_COLS - 1 bytes uncovers.
TempBuffer(buf) ==
  [i \in 1..NUM_COLS |-> IF i <= Len(buf) THEN buf[i]
                         ELSE IF i = NUM_COLS THEN NewLine ELSE Nul]

\* The characters that terminal_write hands to putc.
Written(buf) == IF buf = <<>> THEN <<>>
                ELSE IF Len(buf) <= NUM_COLS THEN UpToNul(TempBuffer(buf))
                ELSE UpToNul(buf)

terminal_write(s, buf) == puts(s, Written(buf))

-----------------------------------------------------------------------------
(* The keys that edit the screen (keyboard.c) *)

\* Backspace: one cell back, a space there, and back again.
EraseOnScreen(s) ==
  LET erased == putc(set_cursor(s, s.x - 1, s.y), Space)
  IN set_cursor(erased, erased.x - 1, erased.y)

\* Ctrl-L's cursor: behind n characters.
CursorBehind(s, n) == IF n > NUM_COLS THEN set_cursor(s, n - NUM_COLS, 1)
                      ELSE set_cursor(s, n, 0)

\* Ctrl-L: the screen is cleared and the line printed again, with the cell
\* behind it; line is a function from 0 on.
Redraw(s, line, n) ==
  LET top == set_cursor(clear(s), 0, 0)
  IN CursorBehind(puts(top, [i \in 1..(n + 1) |-> line[i - 1]]), n)

=============================================================================
