-------------------------------- MODULE Blink --------------------------------
(***************************************************************************)
(* The MP1 kernel module (mp1.S): a list of structures, each of which makes *)
(* a character cell of the text screen alternate between two characters.    *)
(*                                                                         *)
(* mp1_rtc_tasklet runs to its end in interrupt context, between any two    *)
(* memory accesses of an ioctl; an ioctl is one action per access to the    *)
(* list.  One ioctl runs at a time, on one processor.  What an ioctl does   *)
(* to memory nothing else can reach yet is part of one action.              *)
(***************************************************************************)
EXTENDS Integers, Sequences, FiniteSets, SequencesExt, FiniteSetsExt

CONSTANTS
  Structs,      \* addresses mp1_malloc can return
  NULL,
  Cells,        \* the locations of the screen (0..1999)
  Outside,      \* a location that is none
  Lengths,      \* pairs: ON_LENGTH and OFF_LENGTH of an added structure
  WORD,         \* 2^16
  CALLS         \* bounds on the ioctls of a behaviour, not quiet and quiet

ASSUME AddressAssumption == /\ NULL \notin Structs /\ Structs \subseteq Nat /\ IsFiniteSet(Structs)
                            /\ Outside \notin Cells
ASSUME NumbersAssumption == /\ WORD \in Nat \ {0} /\ CALLS \in [BOOLEAN -> Nat]
                            /\ Lengths \subseteq (0..(WORD - 1)) \X (0..(WORD - 1))

VARIABLES
  mem,              \* the structures by address
  mp1_list_head,
  screen,
  call,             \* the ioctl in progress and its registers
  ncalls,           \* calls left
  quiet,            \* whether the tasklet stays away while an ioctl runs
  together,         \* pairs of structures a sync made alike
  age, synced       \* ticks since a structure's last toggle; whether a sync set it

vars == <<mem, mp1_list_head, screen, call, ncalls, quiet, together, age, synced>>

Idle == [op |-> "none", pc |-> "idle", ebx |-> NULL, edx |-> NULL, ax |-> 0]

\* The registers after an ioctl's next step.
Goto(pc) == call' = [call EXCEPT !.pc = pc]
Return   == call' = Idle

-----------------------------------------------------------------------------
(* The list *)

\* What a walk from the head meets; NULLs at the end if the list ends.
Path ==
  LET at[i \in 1..(Cardinality(Structs) + 1)] ==
        IF i = 1 THEN mp1_list_head
        ELSE LET before == at[i - 1] IN IF before = NULL THEN NULL ELSE mem[before].next
  IN at
Elements == ToSet(Path) \ {NULL}

\* mp1_traversal_init without its remove: the first structure for a location,
\* and the one before it.
Found(location) ==
  LET path == Path
      hits == {i \in DOMAIN path : path[i] # NULL /\ mem[path[i]].location = location}
  IN IF hits = {} THEN NULL ELSE path[Min(hits)]
Before(a) ==
  LET path == Path
      i == CHOOSE j \in DOMAIN path : path[j] = a
  IN IF i = 1 THEN NULL ELSE path[i - 1]

-----------------------------------------------------------------------------
(* The tasklet *)

\* Fault: off and on lengths are taken the wrong way round.
Rearmed_swapped(s) ==
  IF s.status = 0 THEN [s EXCEPT !.status = 1, !.countdown = s.off_length]
  ELSE [s EXCEPT !.status = 0, !.countdown = s.on_length]

\* A structure whose countdown came to 0.
Rearmed(s) ==
  IF s.status = 0 THEN [s EXCEPT !.status = 1, !.countdown = s.on_length]
  ELSE [s EXCEPT !.status = 0, !.countdown = s.off_length]

\* decw wraps around.
Counted(s) == [s EXCEPT !.countdown = (@ - 1) % WORD]

Ticked(s) == IF Counted(s).countdown = 0 THEN Rearmed(Counted(s)) ELSE Counted(s)
Toggles(s) == Counted(s).countdown = 0

Character(s) == IF s.status = 1 THEN "on" ELSE "off"

\* Fault: a toggle is not drawn.
Drawn_forgotten(l) == screen[l]

\* mp1_poke for those of the location's structures that toggle, in list order.
Drawn(l) ==
  LET path == Path
      here == {i \in DOMAIN path : path[i] # NULL /\ mem[path[i]].location = l
                                   /\ Toggles(mem[path[i]])}
  IN IF here = {} THEN screen[l] ELSE Character(Ticked(mem[path[Max(here)]]))

mp1_rtc_tasklet ==
  LET elements == Elements IN
  /\ quiet => call = Idle
  /\ elements # {}
  /\ mem' = [a \in Structs |-> IF a \in elements THEN Ticked(mem[a]) ELSE mem[a]]
  /\ screen' = [l \in Cells |-> Drawn(l)]
  /\ age' = [a \in Structs |-> IF a \notin elements THEN age[a]
                               ELSE IF Toggles(mem[a]) THEN 0 ELSE age[a] + 1]
  /\ UNCHANGED <<mp1_list_head, call, ncalls, quiet, together, synced>>

-----------------------------------------------------------------------------
(* mp1_ioctl *)

\* mp1_ioctl's jump table.
Start(op, pc, a, b) ==
  /\ call = Idle
  /\ ncalls > 0
  /\ ncalls' = ncalls - 1
  /\ call' = [Idle EXCEPT !.op = op, !.pc = pc, !.ebx = a, !.edx = b]

\* mp1_ioctl_add without memory.
AddRefused == call = Idle /\ UNCHANGED vars

\* mp1_malloc, and memory nothing may look at.
Allocated == {a \in Structs : mem[a].live}
Fresh(a)  == a \notin Allocated /\ \A b \in Structs \ Allocated : a <= b
Dead      == [location |-> Outside, on_length |-> 0, off_length |-> 0, countdown |-> 0,
              status |-> 0, next |-> NULL, live |-> FALSE]

\* An ioctl takes a structure for a copy of its argument.
Takes(op, pc, location) ==
  \E a \in Structs :
    /\ Fresh(a)
    /\ Start(op, pc, a, NULL)
    /\ mem' = [mem EXCEPT ![a] = [@ EXCEPT !.live = TRUE, !.location = location]]
    /\ UNCHANGED <<mp1_list_head, screen, quiet, together, age, synced>>

\* mp1_ioctl_add of a null pointer, of a copy that fails or of a location
\* outside: add_freemem is next.
AddFails == Takes("add", "free", Outside)

\* Up to the link: the structure is filled, its next as the user left it.
mp1_ioctl_add(location, length) ==
  \E a \in Structs, next \in {NULL, Min(Structs)} :
    /\ Fresh(a) /\ location \in Cells
    /\ Start("add", "link", a, NULL)
    /\ mem' = [mem EXCEPT ![a] = [location |-> location, on_length |-> length[1],
                                  off_length |-> length[2], countdown |-> length[1],
                                  status |-> 1, next |-> next, live |-> TRUE]]
    /\ age' = [age EXCEPT ![a] = 0]
    /\ synced' = [synced EXCEPT ![a] = FALSE]
    /\ UNCHANGED <<mp1_list_head, screen, quiet, together>>

AddStep(pc, next) ==
  /\ call.op = "add" /\ call.pc = pc
  /\ IF next = "idle" THEN Return ELSE Goto(next)
  /\ UNCHANGED <<ncalls, quiet, together, age, synced>>

\* Fault: next stays what the user's structure held.
NextOfNew_unset == mem[call.ebx].next

NextOfNew == mp1_list_head

AddLink ==
  /\ AddStep("link", "publish")
  /\ mem' = [mem EXCEPT ![call.ebx].next = NextOfNew]
  /\ UNCHANGED <<mp1_list_head, screen>>

AddPublish ==
  /\ AddStep("publish", "poke")
  /\ mp1_list_head' = call.ebx
  /\ UNCHANGED <<mem, screen>>

\* The ON character, whatever the tasklet made of the structure meanwhile.
AddPoke ==
  /\ AddStep("poke", "idle")
  /\ screen' = [screen EXCEPT ![mem[call.ebx].location] = "on"]
  /\ UNCHANGED <<mem, mp1_list_head>>

\* mp1_ioctl_remove; one that finds nothing changes nothing.
mp1_ioctl_remove(location) ==
  /\ Start("remove", "unlink", Found(location), NULL)
  /\ location \in Cells /\ Found(location) # NULL
  /\ UNCHANGED <<mem, mp1_list_head, screen, quiet, together, age, synced>>

\* traversal_rewrite_header.
HeadWithout(a) == IF Before(a) = NULL THEN mem[a].next ELSE mp1_list_head

RemoveUnlink ==
  LET a == call.ebx IN
  /\ call.op = "remove" /\ call.pc = "unlink"
  /\ mp1_list_head' = HeadWithout(a)
  /\ mem' = IF Before(a) = NULL THEN mem
            ELSE [mem EXCEPT ![Before(a)].next = mem[a].next]
  /\ Goto("free")
  /\ UNCHANGED <<screen, ncalls, quiet, together, age, synced>>

\* Fault: add goes straight to its teardown.
Freed_notByAdd == IF call.op = "add" THEN mem ELSE [mem EXCEPT ![call.ebx] = Dead]

\* mp1_free of the structure in %ebx (add, find) or %esi (remove).
Freed == [mem EXCEPT ![call.ebx] = Dead]

Free ==
  /\ call.pc = "free"
  /\ mem' = Freed
  /\ age' = [age EXCEPT ![call.ebx] = 0] /\ synced' = [synced EXCEPT ![call.ebx] = FALSE]
  /\ together' = {pair \in together : call.ebx \notin pair}
  /\ Return
  /\ UNCHANGED <<mp1_list_head, screen, ncalls, quiet>>

\* mp1_ioctl_find: a structure to copy the argument to, the copy of the one
\* found to the user, who only reads it.  Every way out frees.
mp1_ioctl_find(location) ==
  Takes("find", IF location \in Cells THEN "copy" ELSE "free", location)

FindCopy ==
  /\ call.op = "find" /\ call.pc = "copy"
  /\ Goto("free")
  /\ UNCHANGED <<mem, mp1_list_head, screen, ncalls, quiet, together, age, synced>>

\* mp1_ioctl_sync: the timing of the first location's structure goes to the
\* second's, a 16-bit access at a time.
mp1_ioctl_sync(l1, l2) ==
  /\ Start("sync", "lengths", Found(l1), Found(l2))
  /\ <<l1, l2>> # <<0, 0>>               \* the argument 0 is refused
  /\ {l1, l2} \subseteq Cells /\ NULL \notin {Found(l1), Found(l2)}
  /\ UNCHANGED <<mem, mp1_list_head, screen, quiet, together, age, synced>>

SyncStep(pc) ==
  /\ call.op = "sync" /\ call.pc = pc
  /\ UNCHANGED <<mp1_list_head, ncalls, quiet, age>>

\* Both lengths, and the countdown into %ax.
SyncLengths ==
  LET from == mem[call.ebx] IN
  /\ SyncStep("lengths")
  /\ mem' = [mem EXCEPT ![call.edx] = [@ EXCEPT !.on_length = from.on_length,
                                               !.off_length = from.off_length]]
  /\ synced' = [synced EXCEPT ![call.edx] = TRUE]
  /\ call' = [call EXCEPT !.pc = "countdown", !.ax = from.countdown]
  /\ UNCHANGED <<screen, together>>

SyncCountdown ==
  /\ SyncStep("countdown")
  /\ mem' = [mem EXCEPT ![call.edx].countdown = call.ax]
  /\ Goto("load")
  /\ UNCHANGED <<screen, together, synced>>

SyncLoadStatus ==
  /\ SyncStep("load")
  /\ call' = [call EXCEPT !.pc = "status", !.ax = mem[call.ebx].status]
  /\ UNCHANGED <<mem, screen, together, synced>>

\* Fault: the second structure keeps its status.
StatusOfSynced_kept == mem[call.edx].status

StatusOfSynced == call.ax

\* The pairs of a structure that becomes like a.
PairsWith(a, b) ==
  LET others == {pair \in together : b \notin pair}
      alikes == {a} \cup UNION {pair \in others : a \in pair}
  IN IF a = b THEN together ELSE others \cup {{c, b} : c \in alikes}

SyncStatus ==
  /\ SyncStep("status")
  /\ mem' = [mem EXCEPT ![call.edx].status = StatusOfSynced]
  /\ together' = PairsWith(call.ebx, call.edx)
  /\ Goto("character")
  /\ UNCHANGED <<screen, synced>>

\* The character is chosen by the status and then drawn; only the tasklet
\* can come between, which the choice of %cl (here in ax) shows.
SyncCharacter ==
  /\ SyncStep("character")
  /\ call' = [call EXCEPT !.pc = "poke", !.ax = mem[call.edx].status]
  /\ UNCHANGED <<mem, screen, together, synced>>

SyncPoke ==
  LET s == mem[call.edx] IN
  /\ SyncStep("poke")
  /\ screen' = [screen EXCEPT ![s.location] = Character([s EXCEPT !.status = call.ax])]
  /\ Return
  /\ UNCHANGED <<mem, together, synced>>

-----------------------------------------------------------------------------
Init ==
  /\ mem = [a \in Structs |-> Dead]
  /\ mp1_list_head = NULL
  /\ screen = [l \in Cells |-> "off"]
  /\ call = Idle
  /\ quiet \in BOOLEAN
  /\ ncalls = CALLS[quiet]
  /\ together = {}
  /\ age = [a \in Structs |-> 0] /\ synced = [a \in Structs |-> FALSE]

\* An ioctl in progress goes on; a new one comes or not.
Continue ==
  \/ AddLink \/ AddPublish \/ AddPoke
  \/ RemoveUnlink \/ Free
  \/ FindCopy
  \/ SyncLengths \/ SyncCountdown \/ SyncLoadStatus \/ SyncStatus
  \/ SyncCharacter \/ SyncPoke

mp1_ioctl ==
  \/ AddRefused \/ AddFails
  \/ \E l \in Cells, length \in Lengths : mp1_ioctl_add(l, length)
  \/ \E l \in Cells : mp1_ioctl_remove(l)
  \/ \E l \in Cells \cup {Outside} : mp1_ioctl_find(l)
  \/ \E l1, l2 \in Cells : mp1_ioctl_sync(l1, l2)

Next == mp1_rtc_tasklet \/ mp1_ioctl \/ Continue

Spec == Init /\ [][Next]_vars /\ WF_vars(mp1_rtc_tasklet) /\ WF_vars(Continue)

-----------------------------------------------------------------------------
(* Properties *)

\* Whenever the tasklet can run, the list ends, and every structure on it is
\* allocated and filled.
ListIsSound ==
  /\ \E i \in DOMAIN Path : Path[i] = NULL
  /\ \A a \in Elements : mem[a].live /\ mem[a].location \in Cells /\ mem[a].status \in {0, 1}

\* Between ioctls the allocated structures are those of the list.
NothingLeaks == call = Idle => Allocated = Elements

\* Structures made alike by a sync the tasklet stayed away from stay alike.
SyncedBlinkTogether ==
  quiet /\ call = Idle =>
    \A pair \in together : \A a, b \in pair :
      /\ mem[a].status = mem[b].status
      /\ mem[a].countdown = mem[b].countdown

\* A structure no sync touched toggles exactly when it has shown its character
\* for its length; one of length 0 after WORD ticks.
Due(s) == LET length == IF s.status = 1 THEN s.on_length ELSE s.off_length
          IN IF length = 0 THEN WORD ELSE length
BlinksOnTime ==
  [][\A a \in Elements : ~synced[a] =>
       /\ age[a] < Due(mem[a])
       /\ mem'[a].status # mem[a].status => age[a] + 1 = Due(mem[a])]_vars

\* A cell that only one structure blinks comes to show that structure's OFF
\* character while it is off, though add and sync may draw over the tasklet's.
Alone(a) == a \in Elements /\ \A b \in Elements \ {a} : mem[b].location # mem[a].location
ScreenCatchesUp ==
  \A a \in Structs :
    Alone(a) ~> (Alone(a) => screen[mem[a].location] = "off" /\ mem[a].status = 0)

=============================================================================
