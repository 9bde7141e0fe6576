------------------------------- MODULE TuxLeds -------------------------------
(***************************************************************************)
(* The values of the Tux controller's LEDs: from the game's clock to the    *)
(* argument of TUX_SET_LED, from that to the bytes of tux_set_led, and from *)
(* those, in the controller of mtcp.h, to segments that are lit.            *)
(***************************************************************************)
EXTENDS Integers, Sequences, FiniteSetsExt

CONSTANTS
  LED_COUNT,    \* LEDs of the controller (4)
  Times         \* times of the game's clock, in seconds

ASSUME LedsAssumption == LED_COUNT \in 1..4

\* A clock has two digits for the minutes.
ASSUME TimesAssumption == Times \subseteq 0..(100 * 60 - 1)

VARIABLE dev    \* the controller

-----------------------------------------------------------------------------
(* Opcodes *)

MTCP_ACK        == "ack"
MTCP_RESET      == "reset"
MTCP_BIOC_EVENT == "event"
MTCP_ERROR      == "error"

MTCP_CMD(c) == 192 + c
MTCP_BIOC_ON == MTCP_CMD(3)
MTCP_LED_SET == MTCP_CMD(6)
MTCP_LED_USR == MTCP_CMD(8)

-----------------------------------------------------------------------------
(* The driver and the game *)

Bit(v, n) == (v \div 2^n) % 2
LEDs == 0..(LED_COUNT - 1)
HexDigit(arg, k) == (arg \div 16^k) % 16

\* Fault: 8 is drawn as B is.
SevenSegment_swapped ==
  <<231, 6, 203, 143, 46, 173, 237, 134, 109, 175, 238, 109, 225, 79, 234, 232>>

\* SS0 to SSF: the segments of a digit, as bits.
SevenSegment ==
  <<231, 6, 203, 143, 46, 173, 237, 134, 239, 175, 238, 109, 225, 79, 234, 232>>

hex_num_to_byte(digit) == SevenSegment[digit + 1]

\* led_set_buf of tux_set_led: always six bytes in all, 0 for the LEDs that are off.
led_set_buf(arg) ==
  LET on == (arg \div 2^16) % 2^LED_COUNT
      points == (arg \div 2^24) % 16
      Shape(k) == IF Bit(on, k) = 0 THEN 0
                  ELSE hex_num_to_byte(HexDigit(arg, k)) + 16 * Bit(points, k)
  IN <<MTCP_LED_SET, on>> \o [k \in 1..LED_COUNT |-> Shape(k - 1)]

\* mazegame.c's tux_clock: minutes and seconds in decimal digits, on LED_DEFAULT
\* (all LEDs, one point).
LED_DEFAULT == 4 * 2^24 + 15 * 2^16

tux_clock(elapsed_time) ==
  LET minute == elapsed_time \div 60
      second == elapsed_time % 60
  IN LED_DEFAULT + 2^12 * (minute \div 10) + 2^8 * (minute % 10)
                 + 2^4 * (second \div 10) + (second % 10)

-----------------------------------------------------------------------------
(* The controller *)

PowerOn(leds, buttons) ==
  [bioc |-> FALSE, user |-> FALSE, leds |-> leds, buttons |-> buttons,
   mask |-> FALSE, want |-> {}]

\* The controller d waits for a command.
IsWaiting(d) ==
  /\ d \in [bioc : BOOLEAN, user : BOOLEAN, leds : [LEDs -> Nat],
           buttons : (0..15) \X (0..15), mask : BOOLEAN, want : SUBSET LEDs]
  /\ d.mask = FALSE
  /\ d.want = {}

\* The controller d after one byte, and whether and what it responds.  After
\* LED_SET it waits for a mask, then for a byte for each LED of the mask.
Consume(d, byte) ==
  LET Then(new, op) == [dev |-> new, respond |-> op] IN
  IF d.mask THEN
    LET want == {k \in LEDs : Bit(byte, k) = 1} IN
    Then([d EXCEPT !.mask = FALSE, !.want = want],
         IF want = {} THEN MTCP_ACK ELSE "none")
  ELSE IF d.want # {} THEN
    LET k == Min(d.want) IN
    Then([d EXCEPT !.leds[k] = byte, !.want = @ \ {k}],
         IF d.want = {k} THEN MTCP_ACK ELSE "none")
  ELSE IF byte = MTCP_BIOC_ON THEN Then([d EXCEPT !.bioc = TRUE], MTCP_ACK)
  ELSE IF byte = MTCP_LED_USR THEN Then([d EXCEPT !.user = TRUE], MTCP_ACK)
  ELSE IF byte = MTCP_LED_SET THEN Then([d EXCEPT !.mask = TRUE], "none")
  ELSE Then(d, MTCP_ERROR)

\* The controller d when it has taken the bytes s.
Consumed(d, s) ==
  LET after[i \in 0..Len(s)] == IF i = 0 THEN d ELSE Consume(after[i - 1], s[i]).dev
  IN after[Len(s)]

-----------------------------------------------------------------------------
(* Properties *)

\* The bit of each segment of an LED (mtcp.h), and the segments of the
\* digits from 0 to 9.
SegmentBit == [A |-> 7, E |-> 6, F |-> 5, G |-> 3, C |-> 2, B |-> 1, D |-> 0]
Segments ==
  <<{"A","B","C","D","E","F"}, {"B","C"}, {"A","B","D","E","G"}, {"A","B","C","D","G"},
    {"B","C","F","G"}, {"A","C","D","F","G"}, {"A","C","D","E","F","G"}, {"A","B","C"},
    {"A","B","C","D","E","F","G"}, {"A","B","C","D","F","G"}>>

Lit(byte) == {x \in DOMAIN SegmentBit : Bit(byte, SegmentBit[x]) = 1}
ShowsDigit(byte, digit, point) ==
  Lit(byte) = Segments[digit + 1] /\ Bit(byte, 4) = IF point THEN 1 ELSE 0

\* The digits of a time, from the right, and the point of LED_DEFAULT.
ClockDigit(t, k) ==
  CASE k = 0 -> (t % 60) % 10     [] k = 1 -> (t % 60) \div 10
    [] k = 2 -> (t \div 60) % 10  [] k = 3 -> (t \div 60) \div 10

\* The bytes sent for a time of the game make a controller that waits for a
\* command, whatever it shows and whatever mode it is in, show the digits of the
\* time with a point behind the minutes, and wait for a command again.
EveryClockCanBeShown ==
  IsWaiting(dev) =>
    \A t \in Times :
      LET shown == Consumed(dev, led_set_buf(tux_clock(t)))
      IN /\ \A k \in LEDs : ShowsDigit(shown.leds[k], ClockDigit(t, k), k = 2)
         /\ shown = [dev EXCEPT !.leds = shown.leds]

=============================================================================
