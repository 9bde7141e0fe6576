------------------------------- MODULE Process -------------------------------
(***************************************************************************)
(* The process manager of the MP3 kernel (syscall.c, with the parts of     *)
(* paging.c, terminal_driver.c and kernel.c that it drives): the PCB table, *)
(* the globals pid / parent_pid / pcb_obj, the page of the running program, *)
(* tss.esp0, and what lies on every kernel stack.                          *)
(*                                                                         *)
(* There is one CPU and no scheduler: system_execute nests, and            *)
(* system_halt returns through the stack frame that the execute saved in    *)
(* the new PCB.  A frame is therefore part of the state: a kernel entry     *)
(* from user mode starts again at tss.esp0 and overwrites whatever lay on   *)
(* that stack, and a keyboard interrupt taken in kernel mode pushes on the  *)
(* stack in use.                                                           *)
(***************************************************************************)
EXTENDS Integers, Sequences, FiniteSets

CONSTANTS
  MAX_PROCESSES,    \* size of the PCB table (5 in syscall.c)
  MAX_OPEN_FILES,   \* size of a descriptor array (8 in filesystem.h)
  NUM_TERMINALS,    \* 3 in terminal_driver.h
  FileTypes,        \* the kinds of file the file system holds
  Statuses,         \* the values programs pass to halt
  BootCalls,        \* whether entry() calls terminal_init(0): kernel.c:161
                    \* has the call commented out
  KeysDuringHalt    \* whether Alt+Fn may arrive between the sti of
                    \* system_halt and its switch of stacks

\* With a single PCB a refused execute would lose the pid of the base shell
\* itself, and halt would no longer know it: the code has 5.
ASSUME MaxProcessesAssumption == MAX_PROCESSES \in Nat /\ MAX_PROCESSES >= 2
ASSUME MaxOpenFilesAssumption == MAX_OPEN_FILES \in Nat /\ MAX_OPEN_FILES >= 2
ASSUME NumTerminalsAssumption == NUM_TERMINALS \in Nat \ {0}
ASSUME FileTypesAssumption == FileTypes \subseteq {"rtc", "directories", "files"}
ASSUME StatusesAssumption == Statuses \subseteq 0..255
ASSUME EnvironmentAssumption == /\ BootCalls \subseteq BOOLEAN
                                /\ KeysDuringHalt \in BOOLEAN

KERNEL_END         == 8388608       \* 0x800000
KERNEL_STACK_WIDTH == 8192          \* 0x2000
SIZE_4MB           == 4194304
SIZE_8MB           == 8388608
ASSIGN_PID_ERROR   == -99
NULL               == -2            \* pcb_obj before the first process
NoPid              == -1            \* parent_pid of the base shell

PIDs      == 0..(MAX_PROCESSES - 1)
FDs       == 0..(MAX_OPEN_FILES - 1)
Terminals == 0..(NUM_TERMINALS - 1)

VARIABLES
  pid, parent_pid,    \* the globals of syscall.c
  pcb_obj,            \* the process whose PCB the global pcb_obj points to
  pcb,                \* the PCBs, one at the bottom of each kernel stack
  pde,                \* physical address of the 4MB program page, 0 if none
  tss_esp0,           \* where a kernel entry from user mode starts to push
  kstack,             \* the live frames of every kernel stack, newest last
  cpu,                \* what the CPU is doing, and on which kernel stack
  exec_ret,           \* the last value system_execute returned to a program
  curr_terminal_id, terminal_active

vars == <<pid, parent_pid, pcb_obj, pcb, pde, tss_esp0, kstack, cpu, exec_ret,
          curr_terminal_id, terminal_active>>
termVars == <<curr_terminal_id, terminal_active>>
procVars == <<pid, parent_pid, pcb_obj, pcb, pde, tss_esp0>>

-----------------------------------------------------------------------------
(* Addresses, descriptors and PCBs *)

find_PCB(p) == KERNEL_END - KERNEL_STACK_WIDTH * (p + 1)

\* Fault: the address of the process's own PCB instead of the end of it.
esp0_of_ownPCB(p) == find_PCB(p) - 4

\* The top of the kernel stack of process p, as system_execute computes it.
esp0_of(p) == find_PCB(p - 1) - 4

\* Fault: computed from the caller's pid.
StartEsp0_caller(p) == find_PCB(pid - 1) - 4

StartEsp0(p) == esp0_of(p)

\* Fault: the page number counts from the page after the kernel's.
execute_paging_init_fromZero(arg) == SIZE_8MB + SIZE_4MB * arg

\* The page execute_paging_init(arg) maps at 128MB.
execute_paging_init(arg) == SIZE_8MB + SIZE_4MB * (arg - 1)

Closed    == [fop |-> "null", flags |-> 0]
Opened(t) == [fop |-> t, flags |-> 1]

FreshFda == [fd \in FDs |-> IF fd = 0 THEN Opened("stdin")
                            ELSE IF fd = 1 THEN Opened("stdout") ELSE Closed]

NoFrame == [stack |-> 0, height |-> 0]

\* Memory never used is taken as zeroed; a NULL operation table stands with the
\* null operations, for neither leads anywhere.
FreePcb == [active |-> 0, parent_pid |-> 0, args |-> "none",
            fda |-> [fd \in FDs |-> Closed], saved |-> NoFrame, tss_esp0 |-> 0]

\* Fault: every program is taken to be started by the base shell.
NewPcb_parentIsShell(p, parent, args, frame) ==
  [active |-> 1, parent_pid |-> IF p = 0 THEN NoPid ELSE 0, args |-> args,
   fda |-> FreshFda, saved |-> frame, tss_esp0 |-> esp0_of(p)]

NewPcb(p, parent, args, frame) ==
  [active |-> 1, parent_pid |-> IF p = 0 THEN NoPid ELSE parent, args |-> args,
   fda |-> FreshFda, saved |-> frame, tss_esp0 |-> esp0_of(p)]

\* What is left in a PCB that halt frees; its parent_pid is not cleared.
FreedPcb(b, fda) == [active |-> 0, parent_pid |-> b.parent_pid, args |-> "none",
                     fda |-> fda, saved |-> NoFrame, tss_esp0 |-> 0]

\* Fault: the PCB is not freed.
Halted_staysActive(b) ==
  [FreedPcb(b, [fd \in FDs |-> Closed]) EXCEPT !.active = 1]

\* Fault: the descriptors are closed by their flags only.
Halted_flagsOnly(b) == FreedPcb(b, [fd \in FDs |-> [b.fda[fd] EXCEPT !.flags = 0]])

\* The PCB of a process that halts to its parent.
Halted(b) == FreedPcb(b, [fd \in FDs |-> Closed])

\* The base shell's own path closes its descriptors by their flags only.
HaltedBase(b) == FreedPcb(b, [fd \in FDs |-> [b.fda[fd] EXCEPT !.flags = 0]])

\* Faults: the loop runs one slot too far (into zeroed memory), or stops one
\* slot short.
assign_PID_oneTooFar(table) ==
  LET free == {p \in PIDs : table[p].active = 0}
  IN IF free = {} THEN MAX_PROCESSES
     ELSE CHOOSE p \in free : \A q \in free : p <= q
assign_PID_oneShort(table) ==
  LET free == {p \in PIDs \ {MAX_PROCESSES - 1} : table[p].active = 0}
  IN IF free = {} THEN ASSIGN_PID_ERROR
     ELSE CHOOSE p \in free : \A q \in free : p <= q

assign_PID(table) ==
  LET free == {p \in PIDs : table[p].active = 0}
  IN IF free = {} THEN ASSIGN_PID_ERROR
     ELSE CHOOSE p \in free : \A q \in free : p <= q

\* The argument string cut from a command: what follows its last space, nothing
\* if that ends it.  With no space in the command arg_starting_index is read
\* uninitialised, and the copy takes nothing or a stray part of memory.
ParsedArgs(hasSpace) == IF hasSpace THEN {"none", "given"} ELSE {"none", "garbage"}

-----------------------------------------------------------------------------
(* The CPU and the kernel stacks *)

NoReturn == [to |-> NoFrame, child |-> NoPid, value |-> 0, cause |-> "none"]

Running(mode, s) == [mode |-> mode, stack |-> s, ret |-> NoReturn]
User     == Running("user", 0)
Fault    == Running("fault", 0)

\* A frame something will return through: what it resumes, and the process
\* whose halt returns here (NoPid while no execute was called from it).
Frame(kind, resume, child) == [kind |-> kind, resume |-> resume, child |-> child]

\* The kernel stack at tss.esp0, where an entry from user mode starts.
EntryStack == CHOOSE s \in PIDs : esp0_of(s) = tss_esp0

\* The kernel stack an interrupt or an exception runs on, and the frames
\* below its own.
TrapStack == IF cpu.mode = "user" THEN EntryStack ELSE cpu.stack
Below     == IF cpu.mode = "user" THEN <<>> ELSE kstack[TrapStack]

\* A system call that returns at once leaves nothing on the stack it used.
ReturnToUser == /\ cpu.mode = "user"
                /\ kstack' = [kstack EXCEPT ![EntryStack] = <<>>]
                /\ cpu' = User

-----------------------------------------------------------------------------
(* system_execute *)

\* The successful path, called on kernel stack s with PCB table `table' and
\* the frames `below' under the caller's own; it ends at the sti before iret.
Start(table, s, below, kind, resume, args) ==
  LET p == assign_PID(table) IN
  /\ p # ASSIGN_PID_ERROR
  /\ pid' = p
  /\ pcb_obj' = p
  /\ pcb' = [table EXCEPT ![p] =
               NewPcb(p, pid, args, [stack |-> s, height |-> Len(below) + 1])]
  /\ pde' = execute_paging_init(p + 1)
  /\ tss_esp0' = StartEsp0(p)
  /\ kstack' = [kstack EXCEPT ![s] = Append(below, Frame(kind, resume, p))]
  /\ cpu' = Running("launch", s)

\* All PCBs taken: the error code has already been written to the global pid.
Refused == /\ assign_PID(pcb) = ASSIGN_PID_ERROR
           /\ pid' = ASSIGN_PID_ERROR
           /\ UNCHANGED <<parent_pid, pcb_obj, pcb, pde, tss_esp0>>

\* The end of entry(): terminal_init(0), whose execute pushes on the boot stack
\* at 8MB and never comes back, or, as committed, only the idle loop.
Boot(call) ==
  /\ cpu.mode = "boot"
  /\ IF call
     THEN /\ curr_terminal_id' = 0
          /\ terminal_active' = [terminal_active EXCEPT ![0] = TRUE]
          /\ \E args \in ParsedArgs(FALSE) :
               Start(pcb, 0, <<>>, "boot", Running("idle", 0), args)
     ELSE /\ cpu' = Running("idle", 0)
          /\ UNCHANGED <<pid, pcb_obj, pcb, pde, tss_esp0, kstack, termVars>>
  /\ UNCHANGED <<parent_pid, exec_ret>>

Execute(hasSpace) ==
  /\ cpu.mode = "user"
  /\ \E args \in ParsedArgs(hasSpace) :
       Start(pcb, EntryStack, <<>>, "syscall", User, args)
  /\ UNCHANGED <<parent_pid, exec_ret, termVars>>

\* No such file, not an executable, a null or an over-long command.
ExecuteInvalid ==
  /\ ReturnToUser
  /\ exec_ret' = [value |-> -1, cause |-> "refused"]
  /\ UNCHANGED <<procVars, termVars>>

ExecuteRefused ==
  /\ ReturnToUser
  /\ Refused
  /\ exec_ret' = [value |-> -1, cause |-> "refused"]
  /\ UNCHANGED termVars

\* iret into the new program.
Launch == /\ cpu.mode = "launch"
          /\ cpu' = User
          /\ UNCHANGED <<procVars, kstack, exec_ret, termVars>>

-----------------------------------------------------------------------------
(* system_halt, up to its sti *)

IsBaseShell == pid = 0 /\ pcb[pcb_obj].parent_pid = NoPid

\* Base shell: free its PCB and execute "shell" from here; this never returns.
RestartShell ==
  /\ \E args \in ParsedArgs(FALSE) :
       Start([pcb EXCEPT ![pcb_obj] = HaltedBase(@)], TrapStack, Below,
             "restart", Fault, args)
  /\ UNCHANGED parent_pid

ExtendedStatus(status) == IF status = 255 THEN 256 ELSE status

HaltToParent(status, cause) ==
  LET parent == pcb[pcb_obj].parent_pid IN
  /\ pcb' = [pcb EXCEPT ![pcb_obj] = Halted(@)]
  /\ tss_esp0' = KERNEL_END - KERNEL_STACK_WIDTH * parent - 4
  /\ pde' = execute_paging_init(parent + 1)
  /\ pid' = parent
  /\ parent_pid' = pcb[parent].parent_pid
  /\ pcb_obj' = parent
  /\ kstack' = [kstack EXCEPT ![TrapStack] = <<>>]
  /\ cpu' = [mode |-> "halting", stack |-> TrapStack,
             ret |-> [to |-> pcb[pcb_obj].saved, child |-> pcb_obj,
                      value |-> ExtendedStatus(status), cause |-> cause]]

system_halt(status, cause) ==
  /\ IF IsBaseShell THEN RestartShell ELSE HaltToParent(status, cause)
  /\ UNCHANGED <<exec_ret, termVars>>

Halt(status) == cpu.mode = "user" /\ system_halt(status, "halt")

\* Every exception handler of IDT.c ends in system_halt(255); a fault may also
\* be taken in the kernel, while a read copies to the program's buffer.
Exception == cpu.mode \in {"user", "read"} /\ system_halt(255, "exception")

\* The switch of stacks: leave; ret through the frame that called execute.
FrameIntact(r) == /\ r.to.height \in 1..Len(kstack[r.to.stack])
                  /\ kstack[r.to.stack][r.to.height].child = r.child

HaltReturn ==
  LET r == cpu.ret
      f == kstack[r.to.stack][r.to.height]
  IN
  /\ cpu.mode = "halting"
  /\ IF FrameIntact(r)
     THEN /\ cpu' = f.resume
          /\ kstack' = [kstack EXCEPT ![r.to.stack] =
                          SubSeq(@, 1, r.to.height - 1)]
          /\ exec_ret' = IF f.kind = "syscall"
                         THEN [value |-> r.value, cause |-> r.cause] ELSE exec_ret
     ELSE cpu' = Fault /\ UNCHANGED <<kstack, exec_ret>>
  /\ UNCHANGED <<procVars, termVars>>

-----------------------------------------------------------------------------
(* keyboard_handler: Alt+F1..F3 *)

Interruptible ==
  cpu.mode \in {"idle", "user", "read", "launch"}
               \cup (IF KeysDuringHalt THEN {"halting"} ELSE {})

\* What the handler leaves behind when it returns.
HandlerReturns == /\ kstack' = [kstack EXCEPT ![TrapStack] = Below]
                  /\ UNCHANGED cpu

\* terminal_switch(t); its keyboard buffers and cursors are Terminal's.  The
\* early return for t = curr_terminal_id changes nothing.
terminal_switch(t) ==
  /\ Interruptible
  /\ t # curr_terminal_id
  /\ \/ /\ ~terminal_active[curr_terminal_id]    \* video_mem_addr is still 0
        /\ pcb_obj = NULL                        \* page fault, then halt faults
        /\ cpu' = Fault
        /\ UNCHANGED <<procVars, kstack, termVars>>
     \/ /\ terminal_active[curr_terminal_id]
        /\ terminal_active[t]
        /\ curr_terminal_id' = t
        /\ HandlerReturns
        /\ UNCHANGED <<procVars, terminal_active>>
     \/ /\ terminal_active[curr_terminal_id]
        /\ ~terminal_active[t]                   \* terminal_init(t)
        /\ curr_terminal_id' = t
        /\ terminal_active' = [terminal_active EXCEPT ![t] = TRUE]
        /\ \/ /\ \E args \in ParsedArgs(FALSE) :
                   Start(pcb, TrapStack, Below, "irq", cpu, args)
              /\ UNCHANGED parent_pid
           \/ Refused /\ HandlerReturns
  /\ UNCHANGED exec_ret

-----------------------------------------------------------------------------
(* The descriptor calls *)

\* A read of the terminal or of the RTC waits in the kernel with interrupts
\* enabled; the others return at once and change no state of this module.
ReadBegin(fd) ==
  /\ cpu.mode = "user"
  /\ pcb[pcb_obj].fda[fd].flags = 1
  /\ pcb[pcb_obj].fda[fd].fop \in {"stdin", "rtc"}
  /\ cpu' = Running("read", EntryStack)
  /\ kstack' = [kstack EXCEPT ![EntryStack] = <<Frame("syscall", User, NoPid)>>]
  /\ UNCHANGED <<procVars, exec_ret, termVars>>

ReadEnd ==
  /\ cpu.mode = "read"
  /\ cpu' = User
  /\ kstack' = [kstack EXCEPT ![cpu.stack] = <<>>]
  /\ UNCHANGED <<procVars, exec_ret, termVars>>

SetDescriptor(fd, d) == pcb' = [pcb EXCEPT ![pcb_obj].fda[fd] = d]

\* The first free descriptor from 2 on; -1 and no change when there is none.
system_open(type) ==
  LET free == {fd \in FDs : fd >= 2 /\ pcb[pcb_obj].fda[fd].flags = 0} IN
  /\ ReturnToUser
  /\ IF free = {} THEN UNCHANGED pcb
     ELSE SetDescriptor(CHOOSE fd \in free : \A g \in free : fd <= g, Opened(type))
  /\ UNCHANGED <<pid, parent_pid, pcb_obj, pde, tss_esp0, exec_ret, termVars>>

system_close(fd) ==
  /\ fd >= 2
  /\ ReturnToUser
  /\ pcb[pcb_obj].fda[fd].flags = 1
  /\ SetDescriptor(fd, Closed)
  /\ UNCHANGED <<pid, parent_pid, pcb_obj, pde, tss_esp0, exec_ret, termVars>>

-----------------------------------------------------------------------------
Init ==
  /\ pid = 0 /\ parent_pid = 0 /\ pcb_obj = NULL
  /\ pcb = [p \in PIDs |-> FreePcb]
  /\ pde = 0
  /\ tss_esp0 = KERNEL_END
  /\ kstack = [s \in PIDs |-> <<>>]
  /\ cpu = Running("boot", 0)
  /\ exec_ret = [value |-> 0, cause |-> "none"]
  /\ curr_terminal_id = 0
  /\ terminal_active = [t \in Terminals |-> FALSE]

Next ==
  \/ \E call \in BootCalls : Boot(call)
  \/ \E hasSpace \in BOOLEAN : Execute(hasSpace)
  \/ ExecuteInvalid
  \/ ExecuteRefused
  \/ Launch
  \/ \E status \in Statuses : Halt(status)
  \/ Exception
  \/ HaltReturn
  \/ \E t \in Terminals : terminal_switch(t)
  \/ \E fd \in FDs : ReadBegin(fd)
  \/ ReadEnd
  \/ \E type \in FileTypes : system_open(type)
  \/ \E fd \in FDs : system_close(fd)

Spec == Init /\ [][Next]_vars

-----------------------------------------------------------------------------
(* Types *)

FrameRef   == [stack : PIDs, height : Nat]
Causes     == {"none", "refused", "halt", "exception"}
ReturnInfo == [to : FrameRef, child : PIDs \cup {NoPid}, value : Int, cause : Causes]
Modes      == {"idle", "user", "read", "launch", "halting", "fault"}
CpuState   == [mode : Modes, stack : PIDs, ret : ReturnInfo]
FrameType  == [kind : {"boot", "syscall", "irq", "restart"}, resume : CpuState,
               child : PIDs \cup {NoPid}]
Descriptor == [fop : {"null", "stdin", "stdout"} \cup FileTypes, flags : {0, 1}]
PcbType    == [active : {0, 1}, parent_pid : Int,
               args : {"none", "given", "garbage"}, fda : [FDs -> Descriptor],
               saved : FrameRef, tss_esp0 : Int]

TypeOK ==
  /\ pid \in PIDs \cup {ASSIGN_PID_ERROR}
  /\ parent_pid \in Int
  /\ pcb_obj \in PIDs \cup {NULL}
  /\ pcb \in [PIDs -> PcbType]
  /\ pde \in Int
  /\ tss_esp0 \in Int
  /\ kstack \in [PIDs -> Seq(FrameType)]
  /\ cpu \in CpuState \cup {Running("boot", 0)}
  /\ exec_ret \in [value : Int, cause : Causes]
  /\ curr_terminal_id \in Terminals
  /\ terminal_active \in [Terminals -> BOOLEAN]

-----------------------------------------------------------------------------
(* Properties *)

Active(p) == pcb[p].active = 1

\* The PCB table is one chain of waiting callers: every active process but the
\* running one is the recorded parent of exactly one active process, and only
\* the base shell has no parent (system_execute, system_halt and their reuse
\* of freed PCBs must keep this across any nesting and any refused execute).
ActiveProcessesFormOneChain ==
  pcb_obj # NULL =>
    /\ Active(pcb_obj)
    /\ \A p \in PIDs : Active(p) =>
         /\ p = pcb_obj \/ \E q \in PIDs : Active(q) /\ pcb[q].parent_pid = p
         /\ IF p = 0 THEN pcb[p].parent_pid = NoPid
            ELSE pcb[p].parent_pid \in PIDs /\ Active(pcb[p].parent_pid)
    /\ \A p, q \in PIDs : (Active(p) /\ Active(q) /\ p # q) =>
         pcb[p].parent_pid # pcb[q].parent_pid

\* The program page and the kernel stack in the TSS are those of the process
\* pcb_obj names, after any mix of execute, halt, restart and interrupts
\* (execute computes tss.esp0 with find_PCB, halt with its own formula).
AddressSpaceIsCurrent ==
  pcb_obj # NULL => /\ pde = SIZE_8MB + SIZE_4MB * pcb_obj
                    /\ tss_esp0 = KERNEL_END - KERNEL_STACK_WIDTH * pcb_obj - 4

\* The global pid may stop naming the running process only while the table is
\* full; no execute can then succeed and record the error code as a parent,
\* and the next halt repairs pid from the PCB.
PidIsCurrentOrTableFull ==
  pcb_obj # NULL => \/ pid = pcb_obj
                    \/ pid = ASSIGN_PID_ERROR /\ \A p \in PIDs : Active(p)

\* The frame through which halt will return is still on its kernel stack, for
\* the process that is halting and for every active child: no system call or
\* interrupt of a later process has overwritten it.
ReturnFramesSurvive ==
  /\ cpu.mode = "halting" => FrameIntact(cpu.ret)
  /\ \A p \in PIDs \ {0} : Active(p) =>
       FrameIntact([cpu.ret EXCEPT !.to = pcb[p].saved, !.child = p])

\* A descriptor that is not open has the null operations, and a PCB that is not
\* in use has no other: system_write has its test of flags commented out and
\* relies on the one, a halt's cleanup provides the other.
ClosedDescriptorsDispatchToNull ==
  \A p \in PIDs, fd \in FDs :
    pcb[p].fda[fd].flags = 0 \/ ~Active(p) => pcb[p].fda[fd] = Closed

\* The PCB table and pcb_obj implement CallTree.
CT == INSTANCE CallTree
        WITH Processes <- PIDs, Nobody <- NoPid, Idle <- NULL,
             caller <- [p \in {q \in PIDs : Active(q)} |-> pcb[p].parent_pid],
             running <- pcb_obj

ImplementsCallTree == CT!Spec

-----------------------------------------------------------------------------
(* What a comment of the code says and a run refutes *)

\* syscall.c:312: halt "returns back to systemcall handler with status and esp
\* and ebp values" saved by execute.
HaltReturnsThroughSavedFrame == cpu.mode = "halting" => FrameIntact(cpu.ret)

=============================================================================
