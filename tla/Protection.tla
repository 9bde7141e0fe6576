------------------------------ MODULE Protection -----------------------------
(***************************************************************************)
(* How the MP3 kernel comes up and keeps its programs apart: boot.S and     *)
(* entry() (kernel.c), the interrupt gates (IDT.c), and the page tables of  *)
(* Paging as execute, halt, vidmap and Alt+Fn change them.                  *)
(*                                                                         *)
(* Which process runs and which wait for it is the abstract CallTree, that  *)
(* Process implements.  Interrupts are on while a program runs and, from    *)
(* rtc_init on, during boot; system calls, exceptions and key presses run   *)
(* through interrupt gates with interrupts off.                             *)
(***************************************************************************)
EXTENDS Paging, FiniteSets

CONSTANTS
  MAX_PROCESSES, NUM_TERMINALS,
  VECTOR_NUM, EXCEPTIONS_NUM,          \* 256 vectors, 21 of them exceptions
  KEYBOARD_IRQ, RTC_IRQ, SYSCALL,      \* vectors 0x21, 0x28 and 0x80
  BootCalls                            \* as in Process: whether entry() calls
                                       \* terminal_init(0)

ASSUME ProcessesAssumption ==
  MAX_PROCESSES \in Nat \ {0} /\ MAX_PROCESSES + 2 <= SPACE
ASSUME BackingPagesAssumption == NUM_TERMINALS \in 1..3
ASSUME VectorsAssumption ==
  /\ VECTOR_NUM \in Nat /\ EXCEPTIONS_NUM \in 1..VECTOR_NUM
  /\ {KEYBOARD_IRQ, RTC_IRQ, SYSCALL} \subseteq EXCEPTIONS_NUM..(VECTOR_NUM - 1)
  /\ KEYBOARD_IRQ # RTC_IRQ /\ KEYBOARD_IRQ # SYSCALL /\ RTC_IRQ # SYSCALL
ASSUME BootCallsAssumption == BootCalls \subseteq BOOLEAN

PIDs      == 0..(MAX_PROCESSES - 1)
Terminals == 0..(NUM_TERMINALS - 1)
Vectors   == 0..(VECTOR_NUM - 1)
NoPid == -1
NULL  == -2

VARIABLES
  at,                   \* the statement the CPU has come to
  arg,                  \* the argument of the loop or the call it is in
  next,                 \* where the call returns
  if_flag, unmasked,    \* EFLAGS.IF, and the IRQs the 8259s let through
  idt,
  filesystem_img_addr,  \* the module GRUB loaded, or "none"
  filesystem,           \* what the file system's pointers point to
  curr_terminal_id, terminal_active,
  caller, running       \* CallTree

cpuVars  == <<at, arg, next>>
gateVars == <<if_flag, unmasked, idt>>
termVars == <<curr_terminal_id, terminal_active>>
callVars == <<caller, running>>
fileVars == <<filesystem_img_addr, filesystem>>
vars == <<pageVars, cpuVars, gateVars, fileVars, termVars, callVars>>

Calls == INSTANCE CallTree WITH Processes <- PIDs, Nobody <- NoPid, Idle <- NULL

Goto(a, n, r) == at' = a /\ arg' = n /\ next' = r

-----------------------------------------------------------------------------
(* IDT.c *)

Gate(handler, dpl) == [present |-> 1, dpl |-> dpl, handler |-> handler]
NoGate == [present |-> 0, dpl |-> 0, handler |-> "none"]

\* Fault: the RTC's descriptor is left not present.
init_IDT_noRtc ==
  [i \in Vectors |-> IF i < EXCEPTIONS_NUM THEN Gate("exception", 0)
                     ELSE IF i = KEYBOARD_IRQ THEN Gate("keyboard_handler", 0)
                     ELSE IF i = SYSCALL THEN Gate("syscall_handler", 3)
                     ELSE NoGate]

init_IDT ==
  [i \in Vectors |-> IF i < EXCEPTIONS_NUM THEN Gate("exception", 0)
                     ELSE IF i = KEYBOARD_IRQ THEN Gate("keyboard_handler", 0)
                     ELSE IF i = RTC_IRQ THEN Gate("rtc_handler", 0)
                     ELSE IF i = SYSCALL THEN Gate("syscall_handler", 3)
                     ELSE NoGate]

\* The vectors of the IRQs that have a device: 1 is the keyboard, 8 the RTC.
VectorOf == [irq \in {1, 8} |-> IF irq = 1 THEN KEYBOARD_IRQ ELSE RTC_IRQ]

-----------------------------------------------------------------------------
(* boot.S and entry() *)

\* boot.S: the first init_IDT, with interrupts off.
Start ==
  /\ at = "start"
  /\ idt' = init_IDT
  /\ Goto("entry", 0, "none")
  /\ UNCHANGED <<pageVars, if_flag, unmasked, fileVars, termVars, callVars>>

\* entry() returns to the hlt loop of boot.S on a wrong magic number or on
\* flags 4 and 5 together.  Otherwise the last module loaded, if there is one,
\* holds the file system; the IDT is set up again, and i8259_init masks all
\* IRQs but that of the slave.
Entry ==
  /\ at = "entry"
  /\ \/ /\ Goto("stopped", 0, "none")
        /\ UNCHANGED <<gateVars, filesystem_img_addr>>
     \/ /\ filesystem_img_addr' \in {"none", "image"}
        /\ idt' = init_IDT
        /\ unmasked' = {2}
        /\ Goto("rtc_init", 0, "none")
        /\ UNCHANGED if_flag
  /\ UNCHANGED <<pageVars, filesystem, termVars, callVars>>

\* rtc_init ends with sti: interrupts are on for the rest of entry().
RtcInit ==
  /\ at = "rtc_init"
  /\ unmasked' = unmasked \cup {2, 8}
  /\ if_flag' = TRUE
  /\ Goto("keyboard_initialize", 0, "none")
  /\ UNCHANGED <<pageVars, idt, fileVars, termVars, callVars>>

KeyboardInitialize ==
  /\ at = "keyboard_initialize"
  /\ unmasked' = unmasked \cup {1}
  /\ Goto("filesystem_initialize", 0, "none")
  /\ UNCHANGED <<pageVars, if_flag, idt, fileVars, termVars, callVars>>

FilesystemInitialize ==
  /\ at = "filesystem_initialize"
  /\ filesystem' = filesystem_img_addr
  /\ Goto("paging_init", 0, "none")
  /\ UNCHANGED <<pageVars, gateVars, filesystem_img_addr, termVars, callVars>>

PagingInitialize ==
  /\ at = "paging_init"
  /\ paging_init
  /\ Goto("terminal_videopage_init", 1, "none")
  /\ UNCHANGED <<gateVars, fileVars, termVars, callVars>>

TerminalVideopageInit ==
  /\ at = "terminal_videopage_init"
  /\ terminal_videopage_init(arg)
  /\ IF arg < 3 THEN Goto(at, arg + 1, "none") ELSE Goto("booted", 0, "none")
  /\ UNCHANGED <<gateVars, fileVars, termVars, callVars>>

-----------------------------------------------------------------------------
(* system_execute and system_halt, as far as they concern the pages *)

\* The slots assign_PID can return: the first free one, if there is one.
AssignedPid(live) == {p \in PIDs \ live : \A q \in PIDs \ live : p <= q}

\* A program is executed by the running process or by the kernel.  Without a
\* module the file system is looked for at address 0: that page is not present
\* once paging is on, and before that it holds no program.
system_execute ==
  \/ /\ filesystem = "none" /\ Faults(Zero)
     /\ Goto("crash", 0, "none")
     /\ if_flag' = FALSE
     /\ UNCHANGED callVars
  \/ /\ filesystem = "image" /\ ~paging
     /\ Goto("unpaged", 0, "none")
     /\ UNCHANGED <<if_flag, callVars>>
  \/ /\ filesystem = "image" /\ paging
     /\ \E p \in AssignedPid(Calls!Live) :
          /\ IF running = NULL THEN Calls!Begin(p) ELSE Calls!Call(p)
          /\ Goto("present", p + 1, "load")
     /\ if_flag' = FALSE

\* Nothing was found to execute, or no PCB is free.
Refused == \/ filesystem = "none" /\ ~Faults(Zero)
           \/ filesystem = "image" /\ PIDs \subseteq Calls!Live

\* The kernel has copied the program to 128MB: sti, and iret into it.
Load ==
  /\ at = "load"
  /\ if_flag' = TRUE
  /\ Goto("user", 0, "none")
  /\ UNCHANGED <<pageVars, unmasked, idt, fileVars, termVars, callVars>>

IsBaseShell == running = 0 /\ caller[running] = NoPid

\* A halt to the parent, or the base shell's own, which maps the page of
\* execute_paging_init(0) before it executes "shell" again.
system_halt ==
  /\ if_flag' = FALSE
  /\ IF IsBaseShell
     THEN Goto("present", 0, "restart") /\ UNCHANGED callVars
     ELSE Calls!Return /\ Goto("present", caller[running] + 1, "resume")
  /\ UNCHANGED <<pageVars, unmasked, idt, fileVars, termVars>>

\* The base shell's slot is free again, and assign_PID finds it first.
Restart ==
  /\ at = "restart"
  /\ Goto("present", 1, "load")
  /\ UNCHANGED <<pageVars, gateVars, fileVars, termVars, callVars>>

\* Interrupts on, and back to the program: the end of a halt or of a call.
Resume ==
  /\ at = "resume"
  /\ if_flag' = TRUE
  /\ Goto("user", 0, "none")
  /\ UNCHANGED <<pageVars, unmasked, idt, fileVars, termVars, callVars>>

\* The statement that follows one of execute_paging_init.
AfterProgramStep ==
  [s \in ProgramSteps |-> CASE s = "present"    -> "user_bit"
                            [] s = "user_bit"   -> "table_addr"
                            [] s = "table_addr" -> "flush"
                            [] s = "flush"      -> next]

ProgramStep ==
  /\ at \in ProgramSteps
  /\ execute_paging_init(at, arg)
  /\ Goto(AfterProgramStep[at], arg, next)
  /\ UNCHANGED <<gateVars, fileVars, termVars, callVars>>

-----------------------------------------------------------------------------
(* A program *)

Execute ==
  /\ at = "user"
  /\ system_execute
  /\ UNCHANGED <<pageVars, unmasked, idt, fileVars, termVars>>

\* halt, an exception, an interrupt instruction that its gate does not let
\* through, and a call past the end of the system call table.
Halt == at = "user" /\ system_halt

\* screen_start may be the first address after the program's page, which the
\* range check lets pass and no entry maps; the exception is a halt.
Vidmap(past) ==
  /\ at = "user"
  /\ \/ past /\ Faults(<<PROGRAM_IMG_PDE_INDEX + 1, 0>>) /\ system_halt
     \/ /\ ~past
        /\ if_flag' = FALSE
        /\ Goto("v_present", 0, "resume")
        /\ UNCHANGED <<pageVars, unmasked, idt, fileVars, termVars, callVars>>

\* The statement that follows one of map_vidmem.
AfterVidmemStep ==
  [s \in VidmemSteps |-> CASE s = "v_present"   -> "v_user"
                           [] s = "v_user"      -> "v_size"
                           [] s = "v_size"      -> "v_table"
                           [] s = "v_table"     -> "pte_present"
                           [] s = "pte_present" -> "pte_user"
                           [] s = "pte_user"    -> "pte_addr"
                           [] s = "pte_addr"    -> "v_flush"
                           [] s = "v_flush"     -> next]

VidmemStep ==
  /\ at \in VidmemSteps
  /\ map_vidmem(at)
  /\ Goto(AfterVidmemStep[at], arg, next)
  /\ UNCHANGED <<gateVars, fileVars, termVars, callVars>>

-----------------------------------------------------------------------------
(* The terminals *)

\* video_mem_addr of terminal t; it is 0 until terminal_init has set it.
Backing(t) == <<0, VIDEO_ADDR + 1 + t>>
SavePage == IF terminal_active[curr_terminal_id] THEN Backing(curr_terminal_id)
            ELSE Zero

\* The end of entry(): terminal_init(0) whose execute no key press interrupts,
\* or, as committed, the idle loop.
Boot(call) ==
  /\ at = "booted"
  /\ IF call
     THEN /\ curr_terminal_id' = 0
          /\ terminal_active' = [terminal_active EXCEPT ![0] = TRUE]
          /\ system_execute
     ELSE /\ Goto("idle", 0, "none")
          /\ UNCHANGED <<if_flag, termVars, callVars>>
  /\ UNCHANGED <<pageVars, unmasked, idt, fileVars>>

\* Alt+Fn: the screen is saved to the backing page of the terminal shown, and
\* that of terminal t is copied or cleared.
terminal_switch(t) ==
  /\ if_flag /\ 1 \in unmasked /\ at # "unpaged"
  /\ t # curr_terminal_id
  /\ \/ /\ Faults(SavePage) \/ Faults(Backing(t))
        /\ Goto("crash", 0, "none")
        /\ if_flag' = FALSE
        /\ UNCHANGED <<termVars, callVars>>
     \/ /\ ~Faults(SavePage) /\ ~Faults(Backing(t))
        /\ curr_terminal_id' = t
        /\ terminal_active' = [terminal_active EXCEPT ![t] = TRUE]
        /\ IF terminal_active[t] THEN UNCHANGED <<cpuVars, if_flag, callVars>>
           ELSE \/ system_execute
                \/ Refused /\ UNCHANGED <<cpuVars, if_flag, callVars>>
  /\ UNCHANGED <<pageVars, unmasked, idt, fileVars>>

-----------------------------------------------------------------------------
Init ==
  /\ PagingInit
  /\ at = "start" /\ arg = 0 /\ next = "none"
  /\ if_flag = FALSE /\ unmasked = {}
  /\ idt = [i \in Vectors |-> NoGate]
  /\ filesystem_img_addr = "none" /\ filesystem = "none"
  /\ curr_terminal_id = 0
  /\ terminal_active = [t \in Terminals |-> FALSE]
  /\ Calls!Init

MmuFills == \E v \in Pages : Fill(v)
            /\ UNCHANGED <<cpuVars, gateVars, fileVars, termVars, callVars>>

Next ==
  \/ Start \/ Entry \/ RtcInit \/ KeyboardInitialize \/ FilesystemInitialize
  \/ PagingInitialize \/ TerminalVideopageInit
  \/ \E call \in BootCalls : Boot(call)
  \/ ProgramStep \/ Load \/ Restart \/ Resume
  \/ Execute \/ Halt
  \/ \E past \in BOOLEAN : Vidmap(past)
  \/ VidmemStep
  \/ \E t \in Terminals : terminal_switch(t)
  \/ MmuFills

Spec == Init /\ [][Next]_vars

-----------------------------------------------------------------------------
(* Types *)

TypeOK ==
  /\ PagingTypeOK
  /\ at \in {"start", "entry", "stopped", "rtc_init", "keyboard_initialize",
             "filesystem_initialize", "paging_init", "terminal_videopage_init",
             "booted", "idle", "crash", "unpaged", "user", "load", "resume",
             "restart"} \cup ProgramSteps \cup VidmemSteps
  /\ arg \in 0..(MAX_PROCESSES + 3)
  /\ next \in {"none", "load", "resume", "restart"}
  /\ if_flag \in BOOLEAN
  /\ unmasked \subseteq {1, 2, 8}
  /\ idt \in [Vectors -> [present : Bit, dpl : {0, 3},
                          handler : {"none", "exception", "keyboard_handler",
                                     "rtc_handler", "syscall_handler"}]]
  /\ filesystem_img_addr \in {"none", "image"}
  /\ filesystem \in {"none", "image"}
  /\ curr_terminal_id \in Terminals
  /\ terminal_active \in [Terminals -> BOOLEAN]
  /\ running \in PIDs \cup {NULL}
  /\ Calls!Live \subseteq PIDs
  /\ caller \in [Calls!Live -> PIDs \cup {NoPid}]

-----------------------------------------------------------------------------
(* Properties *)

\* A running program reaches its own 4MB frame at 128MB and, once it or an
\* earlier program has called vidmap, the screen at 160MB, and nothing else,
\* whatever the TLB kept from the previous program or from an entry that
\* execute_paging_init or map_vidmem had half written; so does the copy of a
\* program's image by system_execute.
UserReachesOnlyItsOwn ==
  at \in {"load", "resume", "user"} =>
    /\ paging
    /\ \A v \in Pages : \A tr \in Translation : (Reaches(v, tr) /\ tr.user = 1) =>
         \/ v[1] = PROGRAM_IMG_PDE_INDEX /\ tr.frame = <<2 + running, v[2]>>
         \/ v = <<VMEM_PDE_INDEX, 0>> /\ tr.frame = <<0, VIDEO_ADDR>>

\* From the sti of rtc_init on, an interrupt that the 8259s pass finds its gate,
\* and the kernel finds itself and the screen where they were before paging;
\* programs can call no gate but the system call's.
InterruptsFindTheKernel ==
  /\ if_flag => \A irq \in unmasked \cap {1, 8} :
                  idt[VectorOf[irq]] = Gate(IF irq = 1 THEN "keyboard_handler"
                                            ELSE "rtc_handler", 0)
  /\ \A i \in Vectors : idt[i].dpl = 3 => i = SYSCALL
  /\ \A v \in Pages : \A tr \in Translation :
       (Reaches(v, tr) /\ v[1] \in {0, 1}) => tr = [frame |-> v, user |-> 0]

=============================================================================
