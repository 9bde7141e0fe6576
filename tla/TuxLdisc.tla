------------------------------- MODULE TuxLdisc -------------------------------
(***************************************************************************)
(* The Tux controller's line discipline (tuxctl-ld.c): the receive and the  *)
(* transmit ring, the way bytes reach the serial port, and the framing of   *)
(* received bytes into packets.                                             *)
(*                                                                         *)
(* Everything done under tuxctl_ldisc_lock is one step.  write_wakeup reads *)
(* the port's room before it takes the lock and writes to the port after it *)
(* released it, so two contexts, an ioctl and an interrupt, can be inside   *)
(* it together.  data_callback runs after the lock is released: taking bytes *)
(* out and framing them is one step because both run in the port's          *)
(* interrupt, which is not entered again while it is handled.               *)
(***************************************************************************)
EXTENDS Integers, Sequences, FiniteSets, SequencesExt

CONSTANTS
  TUXCTL_BUFSIZE,   \* 64
  PACKET_BUF,       \* size of data_callback's packet array (12)
  PORT,             \* bytes the serial port buffers
  NoByte,           \* the content of a cell nothing was written to
  Lengths,          \* lengths of the commands put, and of bursts received
  Bounds            \* pairs of numbers of bytes a behaviour receives and puts

ASSUME SizesAssumption == /\ TUXCTL_BUFSIZE \in Nat /\ TUXCTL_BUFSIZE >= 2
                          /\ PACKET_BUF \in Nat /\ PACKET_BUF >= 3
                          /\ PORT \in Nat \ {0}
ASSUME InputsAssumption == Lengths \subseteq Nat \ {0} /\ Bounds \subseteq Nat \X Nat

Contexts == {"ioctl", "irq"}
RxBytes  == {"first", "next"}   \* bit 7 clear, bit 7 set

VARIABLES
  rx, tx,       \* the rings of tuxctl_ldisc_data_t
  saved,        \* data_callback's leftovers
  ctx,          \* each context's place in write_wakeup
  inPort,       \* bytes the port has still to send
  overlap,      \* whether an ioctl and an interrupt may be inside together
  bound,        \* what is left of the behaviour's bound
  consumed, handled,    \* bytes taken from rx, and where packets were seen in them
  nput, wire, lost      \* bytes put accepted, numbered; given to the port; refused by it

rxVars == <<rx, saved, consumed, handled>>
txVars == <<tx, ctx, inPort, nput, wire, lost>>
vars   == <<rx, tx, saved, ctx, inPort, overlap, bound, consumed, handled, nput,
            wire, lost>>

-----------------------------------------------------------------------------
(* Rings *)

Indices == 0..(TUXCTL_BUFSIZE - 1)

EmptyRing == [buf |-> [i \in Indices |-> NoByte], start |-> 0, end |-> 0]

buf_used(r) == IF r.start <= r.end THEN r.end - r.start
               ELSE TUXCTL_BUFSIZE + r.end - r.start

\* Fault: a ring counts as full only when no cell is left.
buf_full_late(r) == r.end = TUXCTL_BUFSIZE

buf_full(r) == (r.end + 1) % TUXCTL_BUFSIZE = r.start

\* The loop of rcv_buf and of put: it stores bytes of s until the ring is full,
\* and counts them.
Push(state, b) ==
  LET r == state.ring IN
  IF buf_full(r) THEN state
  ELSE [ring |-> [r EXCEPT !.buf[r.end] = b, !.end = (@ + 1) % TUXCTL_BUFSIZE],
        stored |-> state.stored + 1]

\* The loop's states.
Pushing(r, s) ==
  LET loop[k \in 0..Len(s)] == IF k = 0 THEN [ring |-> r, stored |-> 0]
                               ELSE Push(loop[k - 1], s[k])
  IN loop

PushAll(r, s) == Pushing(r, s)[Len(s)]

\* Fault: the bytes leave in the order of a stack.
First_reversed(r, n) == [k \in 1..n |-> r.buf[(r.start + n - k) % TUXCTL_BUFSIZE]]

First(r, n) == [k \in 1..n |-> r.buf[(r.start + k - 1) % TUXCTL_BUFSIZE]]

\* Fault: the index does not wrap around.
Pop_unwrapped(r, n) == [r EXCEPT !.start = @ + n]

Pop(r, n) == [r EXCEPT !.start = (@ + n) % TUXCTL_BUFSIZE]

Least(a, b) == IF a <= b THEN a ELSE b

-----------------------------------------------------------------------------
(* Receiving *)

\* A packet: its first byte has bit 7 clear, the two others have it set.
PacketAt(s, i) ==
  /\ i + 2 <= Len(s)
  /\ s[i] = "first" /\ s[i + 1] = "next" /\ s[i + 2] = "next"

\* data_callback's loop over `packet`: the next position it looks at, and where
\* packets started.  It leaves the last two bytes.
Visit(s, state) ==
  IF state.at > Len(s) - 2 THEN state
  ELSE IF PacketAt(s, state.at)
       THEN [at |-> state.at + 3, starts |-> Append(state.starts, state.at)]
       ELSE [state EXCEPT !.at = @ + 1]

Scanning(s) ==
  LET loop[k \in 0..Len(s)] == IF k = 0 THEN [at |-> 1, starts |-> <<>>]
                               ELSE Visit(s, loop[k - 1])
  IN loop

Scan(s) ==
  LET last == Scanning(s)[Len(s)]
  IN [starts |-> last.starts, left |-> Len(s) - last.at + 1]

\* Fault: one byte is kept, whatever was left.
Leftover_one(s, left) == SubSeq(s, Len(s), Len(s))

Leftover(s, left) == SubSeq(s, Len(s) - left + 1, Len(s))

\* tuxctl_ldisc_data_callback with the ring r; at most one buffer of bytes is
\* looked at, whatever more the ring holds.
data_callback(r) ==
  LET n == Least(PACKET_BUF - Len(saved), buf_used(r))
      packet == saved \o First(r, n)
      base == Len(consumed) - Len(saved)
      scan == Scan(packet)
  IN
  /\ rx' = Pop(r, n)
  /\ consumed' = consumed \o First(r, n)
  /\ handled' = handled \o [k \in 1..Len(scan.starts) |-> base + scan.starts[k]]
  /\ saved' = Leftover(packet, scan.left)

\* tuxctl_ldisc_rcv_buf, called by the serial interrupt with a burst of bytes.
rcv_buf(burst) ==
  /\ bound[1] >= Len(burst)
  /\ bound' = [bound EXCEPT ![1] = @ - Len(burst)]
  /\ data_callback(PushAll(rx, burst).ring)
  /\ UNCHANGED <<txVars, overlap>>

Receive == \E n \in Lengths : \E burst \in [1..n -> RxBytes] : rcv_buf(burst)

-----------------------------------------------------------------------------
(* Transmitting *)

Out == [pc |-> "out", room |-> 0, buf |-> <<>>]
Room == PORT - inPort

MayEnter(c) ==
  /\ ctx[c].pc = "out"
  /\ overlap \/ \A d \in Contexts : ctx[d].pc = "out"

\* tuxctl_ldisc_put of a command of n bytes, up to its call of write_wakeup.
tuxctl_ldisc_put(c, n) ==
  LET pushed == PushAll(tx, [k \in 1..n |-> nput + k]) IN
  /\ MayEnter(c)
  /\ bound[2] >= n
  /\ bound' = [bound EXCEPT ![2] = @ - n]
  /\ tx' = pushed.ring
  /\ nput' = nput + pushed.stored
  /\ ctx' = [ctx EXCEPT ![c] = [Out EXCEPT !.pc = "room"]]
  /\ UNCHANGED <<rxVars, inPort, overlap, wire, lost>>

\* The serial driver calls write_wakeup when it can accept more.
Wakeup ==
  /\ MayEnter("irq")
  /\ Room > 0
  /\ buf_used(tx) > 0
  /\ ctx' = [ctx EXCEPT !["irq"] = [Out EXCEPT !.pc = "room"]]
  /\ UNCHANGED <<rxVars, tx, inPort, overlap, bound, nput, wire, lost>>

\* write_wakeup: write_room; the loop under the lock; the port's write.
ReadRoom(c) ==
  /\ ctx[c].pc = "room"
  /\ ctx' = [ctx EXCEPT ![c] = [@ EXCEPT !.pc = "take", !.room = Room]]
  /\ UNCHANGED <<rxVars, tx, inPort, overlap, bound, nput, wire, lost>>

\* Fault: nothing is taken unless there is room for all of the ring.
Take_allOrNothing(c) ==
  LET n == IF buf_used(tx) <= ctx[c].room THEN buf_used(tx) ELSE 0 IN
  /\ ctx[c].pc = "take"
  /\ tx' = Pop(tx, n)
  /\ ctx' = [ctx EXCEPT ![c] = [@ EXCEPT !.pc = "write", !.buf = First(tx, n)]]
  /\ UNCHANGED <<rxVars, inPort, overlap, bound, nput, wire, lost>>

\* n <= room lets the loop take one byte more than the port has room for.
Take(c) ==
  LET n == Least(ctx[c].room + 1, buf_used(tx)) IN
  /\ ctx[c].pc = "take"
  /\ tx' = Pop(tx, n)
  /\ ctx' = [ctx EXCEPT ![c] = [@ EXCEPT !.pc = "write", !.buf = First(tx, n)]]
  /\ UNCHANGED <<rxVars, inPort, overlap, bound, nput, wire, lost>>

Write(c) ==
  LET b == ctx[c].buf
      sent == Least(Room, Len(b))
  IN
  /\ ctx[c].pc = "write"
  /\ wire' = wire \o SubSeq(b, 1, sent)
  /\ lost' = lost \cup {b[k] : k \in (sent + 1)..Len(b)}
  /\ inPort' = inPort + sent
  /\ ctx' = [ctx EXCEPT ![c] = Out]
  /\ UNCHANGED <<rxVars, tx, overlap, bound, nput>>

PortSends ==
  /\ inPort > 0
  /\ inPort' = inPort - 1
  /\ UNCHANGED <<rxVars, tx, ctx, overlap, bound, nput, wire, lost>>

-----------------------------------------------------------------------------
\* tuxctl_ldisc_open.
Init ==
  /\ rx = EmptyRing /\ tx = EmptyRing
  /\ saved = <<>>
  /\ ctx = [c \in Contexts |-> Out]
  /\ inPort = 0
  /\ overlap \in BOOLEAN
  /\ bound \in Bounds
  /\ consumed = <<>> /\ handled = <<>>
  /\ nput = 0 /\ wire = <<>> /\ lost = {}

WriteStep(c) == ReadRoom(c) \/ Take(c) \/ Write(c)

Next ==
  \/ Receive
  \/ \E c \in Contexts, n \in Lengths : tuxctl_ldisc_put(c, n)
  \/ Wakeup
  \/ \E c \in Contexts : WriteStep(c)
  \/ PortSends

Spec == /\ Init /\ [][Next]_vars
        /\ WF_vars(PortSends)
        /\ WF_vars(Wakeup)
        /\ \A c \in Contexts : WF_vars(WriteStep(c))

-----------------------------------------------------------------------------
(* Properties *)

RingType(B) == [buf : [Indices -> B \cup {NoByte}], start : Indices, end : Indices]

TypeOK ==
  /\ rx \in RingType(RxBytes) /\ tx \in RingType(Nat)
  /\ saved \in Seq(RxBytes) /\ Len(saved) <= 2
  /\ ctx \in [Contexts -> [pc : {"out", "room", "take", "write"}, room : 0..PORT,
                           buf : Seq(Nat)]]
  /\ inPort \in 0..PORT
  /\ overlap \in BOOLEAN
  /\ consumed \in Seq(RxBytes) /\ handled \in Seq(Nat \ {0})

\* However the bytes are split into bursts and whatever was lost before them,
\* the packets handled are exactly the whole packets in the bytes taken from
\* the ring, each once and in order.
PacketsAreTheWholeOnes ==
  /\ ToSet(handled) = {i \in 1..Len(consumed) : PacketAt(consumed, i)}
  /\ \A j, k \in 1..Len(handled) : j < k => handled[j] < handled[k]

\* Every byte put accepted is in one place, once: the ring, the buffer of a
\* context, the port, or among those the port refused.
InRing      == ToSet(First(tx, buf_used(tx)))
InFlight(c) == ToSet(ctx[c].buf)
OnWire      == ToSet(wire)

EachByteIsOnce ==
  /\ 1..nput = InRing \cup InFlight("ioctl") \cup InFlight("irq") \cup OnWire \cup lost
  /\ nput = buf_used(tx) + Len(ctx["ioctl"].buf) + Len(ctx["irq"].buf) + Len(wire)
              + Cardinality(lost)

\* As long as no interrupt comes between an ioctl's steps, bytes reach the port
\* in the order they were put.
WireKeepsOrder ==
  ~overlap => \A j, k \in 1..Len(wire) : j < k => wire[j] < wire[k]

=============================================================================
