------------------------------ MODULE TuxProtocol ------------------------------
(***************************************************************************)
(* The Tux controller's protocol (tuxctl-ioctl.c): what the driver sends in *)
(* an ioctl and in the interrupt that brings a packet, and the controller   *)
(* at the other end of the serial line as mtcp.h describes it.              *)
(*                                                                         *)
(* An interrupt handles a packet between any two steps of an ioctl.         *)
(* toDev is the transmit ring with the line behind it, fromDev the line     *)
(* back.  tuxctl_ldisc_put stores what fits of a command.                   *)
(***************************************************************************)
EXTENDS TuxLeds

CONSTANTS
  TX_ROOM,      \* bytes the transmit ring holds (63)
  RX_PACKETS,   \* packets on the line back, at most
  Args,         \* arguments of TUX_SET_LED
  Presses,      \* pairs of nibbles: C B A START, right down left up
  Budgets       \* records of numbers: sets, presses, resets, losses of a behaviour

ASSUME BoundsAssumption == TX_ROOM \in Nat \ {0} /\ RX_PACKETS \in Nat \ {0}
ASSUME InputsAssumption == Args \subseteq Nat /\ Presses \subseteq (0..15) \X (0..15)

VARIABLES
  ack_flag, button_val, prev_state_leds,    \* the globals of tuxctl-ioctl.c
  ioctl,        \* the TUX_SET_LED in progress
  toDev, fromDev,
  polled,       \* what the game's last TUX_BUTTONS read
  lastEvent,    \* the buttons of the last event the controller sent
  cut,          \* whether the ring has refused a byte
  budget

vars == <<ack_flag, button_val, prev_state_leds, ioctl, toDev, fromDev, dev,
          polled, lastEvent, cut, budget>>

-----------------------------------------------------------------------------
(* Commands and buttons *)

init_buf == <<MTCP_BIOC_ON, MTCP_LED_USR>>

\* Fault: the bits of the arrows keep the order of the packet.
Buttons_unordered(b, c) == 16 * c + b

\* button_val of a packet: the packet has right down left up, the game wants
\* right left down up.
Buttons(b, c) ==
  LET right == Bit(c, 3) * 8  down == Bit(c, 2) * 2
      left == Bit(c, 1) * 4   up == Bit(c, 0)
  IN 16 * (right + left + down + up) + b

-----------------------------------------------------------------------------
(* The driver *)

\* What tuxctl_ldisc_put stores of the bytes s behind the bytes q.
Put(q, s) == q \o SubSeq(s, 1, Min({Len(s), TX_ROOM - Len(q)}))

Refuses(q, s) == Len(q) + Len(s) > TX_ROOM

\* Fault: the LEDs are set again, the controller is not initialised.
Answer_uninitialised(q) == Put(q, led_set_buf(prev_state_leds))

\* What a packet makes the driver send: tux_init, then tux_set_led.
Answer(q) == Put(Put(q, init_buf), led_set_buf(prev_state_leds))

\* Fault: the acknowledgement is not noted.
ack_of_unset(op) == ack_flag

\* A packet ends in tux_init, whatever its case of the switch.
ack_of(op) == IF op = MTCP_ERROR THEN ack_flag ELSE 1

\* A button event falls through to the cases of ACK and of RESET.
tuxctl_handle_packet ==
  LET packet == Head(fromDev) IN
  /\ fromDev # <<>>
  /\ fromDev' = Tail(fromDev)
  /\ button_val' = IF packet.op = MTCP_BIOC_EVENT THEN Buttons(packet.b, packet.c)
                   ELSE button_val
  /\ ack_flag' = ack_of(packet.op)
  /\ IF packet.op = MTCP_ERROR THEN UNCHANGED <<toDev, cut>>
     ELSE /\ toDev' = Answer(toDev)
          /\ cut' = (cut \/ Refuses(toDev, init_buf \o led_set_buf(prev_state_leds)))
  /\ UNCHANGED <<prev_state_leds, ioctl, dev, polled, lastEvent, budget>>

Idle == [pc |-> "idle", arg |-> 0]

\* TUX_SET_LED: dropped unless the last one was acknowledged.
SetLed(arg) ==
  /\ ioctl = Idle
  /\ budget.sets > 0
  /\ budget' = [budget EXCEPT !.sets = @ - 1]
  /\ ack_flag = 1
  /\ ack_flag' = 0
  /\ ioctl' = [pc |-> "save", arg |-> arg]
  /\ UNCHANGED <<button_val, prev_state_leds, toDev, fromDev, dev, polled, lastEvent, cut>>

SaveLeds ==
  /\ ioctl.pc = "save"
  /\ prev_state_leds' = ioctl.arg
  /\ ioctl' = [ioctl EXCEPT !.pc = "put"]
  /\ UNCHANGED <<ack_flag, button_val, toDev, fromDev, dev, polled, lastEvent, cut,
                 budget>>

tux_set_led ==
  /\ ioctl.pc = "put"
  /\ toDev' = Put(toDev, led_set_buf(ioctl.arg))
  /\ cut' = (cut \/ Refuses(toDev, led_set_buf(ioctl.arg)))
  /\ ioctl' = Idle
  /\ UNCHANGED <<ack_flag, button_val, prev_state_leds, fromDev, dev, polled,
                 lastEvent, budget>>

\* TUX_BUTTONS, which the game's RTC thread calls on every tick.
tux_buttons ==
  /\ polled' = button_val
  /\ UNCHANGED <<ack_flag, button_val, prev_state_leds, ioctl, toDev, fromDev, dev,
                 lastEvent, cut, budget>>

-----------------------------------------------------------------------------
(* The controller *)

Packet(op) == [op |-> op, b |-> 0, c |-> 0]

\* The controller takes a byte; a response may be lost on the line.
DeviceStep ==
  LET next == Consume(dev, Head(toDev)) IN
  /\ toDev # <<>>
  /\ Len(fromDev) < RX_PACKETS
  /\ toDev' = Tail(toDev)
  /\ dev' = next.dev
  /\ \/ /\ fromDev' = IF next.respond = "none" THEN fromDev
                      ELSE Append(fromDev, Packet(next.respond))
        /\ UNCHANGED budget
     \/ /\ next.respond # "none"
        /\ budget.losses > 0
        /\ budget' = [budget EXCEPT !.losses = @ - 1]
        /\ UNCHANGED fromDev
  /\ UNCHANGED <<ack_flag, button_val, prev_state_leds, ioctl, polled, lastEvent, cut>>

Press(p) ==
  /\ budget.presses > 0
  /\ p # dev.buttons
  /\ Len(fromDev) < RX_PACKETS
  /\ budget' = [budget EXCEPT !.presses = @ - 1]
  /\ dev' = [dev EXCEPT !.buttons = p]
  /\ IF dev.bioc
     THEN /\ fromDev' = Append(fromDev, [op |-> MTCP_BIOC_EVENT, b |-> p[1], c |-> p[2]])
          /\ lastEvent' = p
     ELSE UNCHANGED <<fromDev, lastEvent>>
  /\ UNCHANGED <<ack_flag, button_val, prev_state_leds, ioctl, toDev, polled, cut>>

\* Its RESET button.
Reset ==
  /\ budget.resets > 0
  /\ Len(fromDev) < RX_PACKETS
  /\ budget' = [budget EXCEPT !.resets = @ - 1]
  /\ dev' = PowerOn(dev.leds, dev.buttons)
  /\ fromDev' = Append(fromDev, Packet(MTCP_RESET))
  /\ UNCHANGED <<ack_flag, button_val, prev_state_leds, ioctl, toDev, polled, lastEvent,
                 cut>>

-----------------------------------------------------------------------------
\* The game opened the controller and made TUX_INIT, which is on its way.
Init ==
  /\ ack_flag = 1
  /\ button_val = 0 /\ polled = 0
  /\ prev_state_leds = 0
  /\ ioctl = Idle
  /\ toDev = Put(<<>>, init_buf) /\ fromDev = <<>>
  /\ dev = PowerOn([k \in LEDs |-> 0], <<15, 15>>)
  /\ lastEvent = <<0, 0>>
  /\ cut = FALSE
  /\ budget \in Budgets

Next ==
  \/ tuxctl_handle_packet
  \/ \E arg \in Args : SetLed(arg)
  \/ SaveLeds \/ tux_set_led \/ tux_buttons
  \/ DeviceStep \/ \E p \in Presses : Press(p)
  \/ Reset

Spec == /\ Init /\ [][Next]_vars
        /\ WF_vars(tuxctl_handle_packet) /\ WF_vars(DeviceStep)
        /\ WF_vars(tux_buttons) /\ WF_vars(SaveLeds) /\ WF_vars(tux_set_led)

-----------------------------------------------------------------------------
(* Properties *)

\* mazegame.c's names for a byte with one button down (active low).
Down(byte) == {n \in 0..7 : Bit(byte, n) = 0}
GameBit == [START |-> 0, A |-> 1, B |-> 2, C |-> 3, UP |-> 4, DOWN |-> 5, LEFT |-> 6, RIGHT |-> 7]
PadBit  == [START |-> <<1, 0>>, A |-> <<1, 1>>, B |-> <<1, 2>>, C |-> <<1, 3>>,
            UP |-> <<2, 0>>, LEFT |-> <<2, 1>>, DOWN |-> <<2, 2>>, RIGHT |-> <<2, 3>>]
Names(byte) == {x \in DOMAIN GameBit : GameBit[x] \in Down(byte)}
Pad(p)      == {x \in DOMAIN PadBit : Bit(p[PadBit[x][1]], PadBit[x][2]) = 0}

\* The game comes to see the buttons of the last event sent, by their names,
\* whatever commands and acknowledgements cross it on the line.
ButtonsReachTheGame ==
  \A p \in Presses :
    lastEvent = p ~> (Names(polled) = Pad(p) \/ lastEvent # p)

\* The LEDs can always be set again: an acknowledgement comes that raises the
\* flag TUX_SET_LED needs, also when the ring had no room for the command it
\* belongs to, or a response is lost.
LedsAreNotBlocked == (ack_flag = 0) ~> (ack_flag = 1)

\* A controller reset before the ring had to refuse anything reports buttons
\* again, whatever half a command the reset cut off, and whatever ioctls and
\* acknowledgements are on their way.
ResetIsRepaired == ~dev.bioc /\ ~cut ~> dev.bioc

=============================================================================
