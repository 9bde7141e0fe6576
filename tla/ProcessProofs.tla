---------------------------- MODULE ProcessProofs ----------------------------
(***************************************************************************)
(* Proofs about Process, for every size of its tables.                     *)
(*                                                                         *)
(* The argument: execute always takes the lowest free PCB, and a halt       *)
(* always frees the running one, so the active PCBs are 0..pcb_obj and the  *)
(* parent of process p is p - 1 (TableInv).  Everything else follows: the   *)
(* table is full exactly when the top process runs, so a refused execute    *)
(* spoils pid only where no later execute can use it; and tss.esp0 and the  *)
(* program page are functions of pcb_obj.                                   *)
(***************************************************************************)
EXTENDS Process, WellFoundedInduction, SequenceTheorems, TLAPS

TableInv ==
  \/ /\ pcb_obj = NULL
     /\ pid = 0
     /\ cpu.mode \in {"boot", "idle", "fault"}
     /\ \A p \in PIDs : pcb[p].active = 0
  \/ /\ pcb_obj \in PIDs
     /\ cpu.mode # "boot"
     /\ \A p \in PIDs : pcb[p].active = 1 <=> p <= pcb_obj
     /\ \A p \in PIDs : p <= pcb_obj => pcb[p].parent_pid = p - 1
     /\ pid = pcb_obj \/ (pid = ASSIGN_PID_ERROR /\ pcb_obj = MAX_PROCESSES - 1)
     /\ pde = execute_paging_init(pcb_obj + 1)
     /\ tss_esp0 = esp0_of(pcb_obj)

IInv == TypeOK /\ TableInv

-----------------------------------------------------------------------------
(* Facts about the operators *)

\* The lowest free PCB above a contiguous block of active ones is the next one.
LEMMA AssignPidIsNext ==
  ASSUME NEW n \in Int, -1 <= n, n < MAX_PROCESSES,
         NEW table,
         \A p \in PIDs : table[p].active = 0 <=> p > n
  PROVE  assign_PID(table) = IF n = MAX_PROCESSES - 1 THEN ASSIGN_PID_ERROR
                                                      ELSE n + 1
<1> USE MaxProcessesAssumption DEF PIDs
<1> DEFINE free == {p \in PIDs : table[p].active = 0}
<1>1. CASE n = MAX_PROCESSES - 1
  <2>1. free = {}
    BY <1>1
  <2> QED
    BY <1>1, <2>1 DEF assign_PID
<1>2. CASE n # MAX_PROCESSES - 1
  <2>1. n + 1 \in free
    BY <1>2
  <2>2. \A p \in free : n + 1 <= p
    OBVIOUS
  <2>3. \A p \in free : (\A q \in free : p <= q) => p = n + 1
    BY <2>1, <2>2
  <2>4. (CHOOSE p \in free : \A q \in free : p <= q) = n + 1
    BY <2>1, <2>2, <2>3
  <2> QED
    BY <1>2, <2>1, <2>4 DEF assign_PID
<1> QED
  BY <1>1, <1>2

\* Kernel stacks do not overlap, so tss.esp0 identifies the one in use.
LEMMA EntryStackIsOwn ==
  ASSUME pcb_obj \in PIDs, tss_esp0 = esp0_of(pcb_obj)
  PROVE  EntryStack = pcb_obj
<1>1. \A s \in PIDs : esp0_of(s) = esp0_of(pcb_obj) => s = pcb_obj
  BY MaxProcessesAssumption DEF esp0_of, find_PCB, KERNEL_END, KERNEL_STACK_WIDTH, PIDs
<1> QED
  BY <1>1 DEF EntryStack

LEMMA FreedPcbType ==
  ASSUME NEW b \in PcbType, NEW g \in [FDs -> Descriptor]
  PROVE  FreedPcb(b, g) \in PcbType
<1>1. NoFrame \in FrameRef
  BY MaxProcessesAssumption DEF NoFrame, FrameRef, PIDs
<1> QED
  BY <1>1 DEF FreedPcb, PcbType

LEMMA PcbConstructors ==
  ASSUME NEW b \in PcbType
  PROVE  Halted(b) \in PcbType /\ HaltedBase(b) \in PcbType
<1>1. Closed \in Descriptor
  BY DEF Closed, Descriptor
<1>2. \A fd \in FDs : [b.fda[fd] EXCEPT !.flags = 0] \in Descriptor
  <2> TAKE fd \in FDs
  <2>1. b.fda[fd] \in Descriptor
    BY DEF PcbType
  <2> QED
    BY <2>1 DEF Descriptor
<1>3. Halted(b) \in PcbType
  <2>1. [fd \in FDs |-> Closed] \in [FDs -> Descriptor]
    BY <1>1
  <2> QED
    BY <2>1, FreedPcbType DEF Halted
<1>4. HaltedBase(b) \in PcbType
  <2>1. [fd \in FDs |-> [b.fda[fd] EXCEPT !.flags = 0]] \in [FDs -> Descriptor]
    BY <1>2
  <2> QED
    BY <2>1, FreedPcbType DEF HaltedBase
<1> QED
  BY <1>3, <1>4

LEMMA NewPcbType ==
  ASSUME NEW p \in PIDs, NEW parent \in Int, NEW f \in FrameRef,
         NEW args \in {"none", "given", "garbage"}
  PROVE  NewPcb(p, parent, args, f) \in PcbType
<1>1. FreshFda \in [FDs -> Descriptor]
  BY DEF FreshFda, Opened, Closed, Descriptor
<1>2. esp0_of(p) \in Int
  BY MaxProcessesAssumption DEF esp0_of, find_PCB, KERNEL_END, KERNEL_STACK_WIDTH, PIDs
<1> QED
  BY <1>1, <1>2 DEF NewPcb, PcbType, NoPid

LEMMA CpuConstants ==
  /\ NoReturn \in ReturnInfo
  /\ \A m \in Modes, s \in PIDs : Running(m, s) \in CpuState
  /\ \A m, s : Running(m, s).mode = m /\ Running(m, s).stack = s
  /\ User \in CpuState /\ User.mode = "user"
  /\ Fault \in CpuState /\ Fault.mode = "fault"
<1>1. 0 \in PIDs
  BY MaxProcessesAssumption DEF PIDs
<1>2. NoReturn \in ReturnInfo
  BY <1>1 DEF NoReturn, ReturnInfo, NoFrame, FrameRef, NoPid, Causes
<1> QED
  BY <1>1, <1>2 DEF Running, User, Fault, CpuState, Modes

-----------------------------------------------------------------------------
(* The successful path of execute *)

LEMMA AddressesAreIntegers ==
  ASSUME NEW p \in Int
  PROVE  esp0_of(p) \in Int /\ execute_paging_init(p + 1) \in Int
BY DEF esp0_of, find_PCB, execute_paging_init, KERNEL_END, KERNEL_STACK_WIDTH,
       SIZE_4MB, SIZE_8MB

LEMMA StartPreservesTypes ==
  ASSUME TypeOK, pid \in Int,
         NEW table \in [PIDs -> PcbType], NEW s \in PIDs,
         NEW below \in Seq(FrameType),
         NEW kind \in {"boot", "syscall", "irq", "restart"},
         NEW resume \in CpuState,
         NEW args \in {"none", "given", "garbage"},
         assign_PID(table) \in PIDs,
         Start(table, s, below, kind, resume, args)
  PROVE  /\ pid' \in PIDs /\ pcb_obj' \in PIDs
         /\ pcb' \in [PIDs -> PcbType]
         /\ pde' \in Int /\ tss_esp0' \in Int
         /\ kstack' \in [PIDs -> Seq(FrameType)]
         /\ cpu' \in CpuState
<1> DEFINE p == assign_PID(table)
           f == [stack |-> s, height |-> Len(below) + 1]
<1>1. f \in FrameRef
  BY DEF FrameRef
<1>2. pcb' \in [PIDs -> PcbType]
  BY <1>1, NewPcbType DEF Start
<1>3. pde' \in Int /\ tss_esp0' \in Int
  <2>1. pde' = execute_paging_init(p + 1) /\ tss_esp0' = esp0_of(p)
    BY DEF Start, StartEsp0
  <2>2. p \in Int
    BY MaxProcessesAssumption DEF PIDs
  <2> QED
    BY <2>1, <2>2, AddressesAreIntegers
<1>4. kstack' \in [PIDs -> Seq(FrameType)]
  <2>1. Frame(kind, resume, p) \in FrameType
    BY DEF Frame, FrameType
  <2>2. Append(below, Frame(kind, resume, p)) \in Seq(FrameType)
    BY <2>1
  <2> QED
    BY <2>2 DEF Start, TypeOK
<1>5. cpu' \in CpuState
  BY CpuConstants DEF Start, Modes
<1> QED
  BY <1>2, <1>3, <1>4, <1>5 DEF Start

LEMMA StartEstablishesTable ==
  ASSUME NEW n \in Int, -1 <= n, n < MAX_PROCESSES,
         pid \in Int, n >= 0 => pid = n \/ n = MAX_PROCESSES - 1,
         NEW table \in [PIDs -> PcbType],
         \A p \in PIDs : table[p].active = 1 <=> p <= n,
         \A p \in PIDs : p <= n => table[p].parent_pid = p - 1,
         NEW s, NEW below, NEW kind, NEW resume, NEW args,
         Start(table, s, below, kind, resume, args)
  PROVE  /\ TableInv'
         /\ assign_PID(table) = n + 1
         /\ n + 1 \in PIDs
         /\ pcb_obj' = n + 1
<1>1. \A p \in PIDs : table[p].active \in {0, 1}
  BY DEF PcbType
<1>2. \A p \in PIDs : table[p].active = 0 <=> p > n
  BY <1>1, MaxProcessesAssumption DEF PIDs
<1>3. assign_PID(table) = n + 1 /\ n # MAX_PROCESSES - 1
  BY <1>2, AssignPidIsNext DEF Start
<1>4. n + 1 \in PIDs
  BY <1>3, MaxProcessesAssumption DEF PIDs
<1>5. /\ pid' = n + 1 /\ pcb_obj' = n + 1 /\ cpu'.mode = "launch"
      /\ pde' = execute_paging_init(n + 2) /\ tss_esp0' = esp0_of(n + 1)
  <2>1. (n + 1) + 1 = n + 2
    OBVIOUS
  <2> QED
    BY <1>3, <2>1, CpuConstants DEF Start, StartEsp0
<1>6. \A p \in PIDs : pcb'[p] = IF p = n + 1
        THEN NewPcb(n + 1, pid, args, [stack |-> s, height |-> Len(below) + 1])
        ELSE table[p]
  BY <1>3, <1>4 DEF Start
<1>7. \A p \in PIDs : pcb'[p].active = 1 <=> p <= n + 1
  BY <1>6, MaxProcessesAssumption DEF NewPcb, PIDs
<1>8. \A p \in PIDs : p <= n + 1 => pcb'[p].parent_pid = p - 1
  BY <1>3, <1>6, MaxProcessesAssumption DEF NewPcb, PIDs, NoPid
<1> QED
  <2>1. n + 2 = (n + 1) + 1
    OBVIOUS
  <2> QED
    BY <1>3, <1>4, <1>5, <1>7, <1>8, <2>1 DEF TableInv

-----------------------------------------------------------------------------
(* What the invariant says of the state an action starts from *)

\* Up to some height n every PCB is active, and above it every PCB is free.
LEMMA TableHasHeight ==
  ASSUME IInv
  PROVE  \E n \in Int :
           /\ -1 <= n /\ n < MAX_PROCESSES
           /\ n >= 0 => pid = n \/ n = MAX_PROCESSES - 1
           /\ \A p \in PIDs : pcb[p].active = 1 <=> p <= n
           /\ \A p \in PIDs : p <= n => pcb[p].parent_pid = p - 1
           /\ n = IF pcb_obj = NULL THEN -1 ELSE pcb_obj
<1> USE MaxProcessesAssumption DEF PIDs, NULL
<1>1. CASE pcb_obj = NULL
  BY <1>1 DEF IInv, TableInv
<1>2. CASE pcb_obj # NULL
  BY <1>2 DEF IInv, TableInv
<1> QED
  BY <1>1, <1>2

LEMMA TrapTypes ==
  ASSUME IInv, cpu.mode # "boot"
  PROVE  /\ cpu \in CpuState
         /\ TrapStack \in PIDs
         /\ Below \in Seq(FrameType)
         /\ cpu.mode = "user" => EntryStack = pcb_obj
         /\ cpu.mode \notin {"idle", "fault"} => pcb_obj \in PIDs
<1>1. cpu \in CpuState
  BY CpuConstants DEF IInv, TypeOK
<1>2. cpu.mode \notin {"idle", "fault"} =>
        pcb_obj \in PIDs /\ tss_esp0 = esp0_of(pcb_obj)
  BY DEF IInv, TableInv
<1>3. cpu.mode = "user" => EntryStack = pcb_obj /\ pcb_obj \in PIDs
  BY <1>2, EntryStackIsOwn
<1>4. TrapStack \in PIDs
  BY <1>1, <1>3 DEF TrapStack, CpuState
<1>5. Below \in Seq(FrameType)
  BY <1>4 DEF Below, IInv, TypeOK
<1> QED
  BY <1>1, <1>2, <1>3, <1>4, <1>5

\* Only the process at the bottom is taken for the base shell; any other has an
\* active parent.
LEMMA BaseShellIsZero ==
  ASSUME IInv, pcb_obj \in PIDs
  PROVE  /\ IsBaseShell => pcb_obj = 0 /\ pid = 0
         /\ ~IsBaseShell => /\ pcb_obj > 0
                            /\ pcb[pcb_obj].parent_pid = pcb_obj - 1
                            /\ pcb_obj - 1 \in PIDs
<1>1. /\ pcb[pcb_obj].parent_pid = pcb_obj - 1
      /\ pid = pcb_obj \/ (pid = ASSIGN_PID_ERROR /\ pcb_obj = MAX_PROCESSES - 1)
  BY MaxProcessesAssumption DEF IInv, TableInv, NULL, PIDs
<1> QED
  BY <1>1, MaxProcessesAssumption DEF IsBaseShell, NoPid, ASSIGN_PID_ERROR, PIDs

-----------------------------------------------------------------------------
(* The steps that execute a program *)

LEMMA StartKeepsInvariant ==
  ASSUME IInv, NEW s \in PIDs, NEW below \in Seq(FrameType),
         NEW kind \in {"boot", "syscall", "irq", "restart"},
         NEW resume \in CpuState, NEW args \in {"none", "given", "garbage"},
         Start(pcb, s, below, kind, resume, args),
         parent_pid' \in Int, exec_ret' \in [value : Int, cause : Causes],
         curr_terminal_id' \in Terminals,
         terminal_active' \in [Terminals -> BOOLEAN]
  PROVE  IInv'
<1>1. PICK n \in Int :
        /\ -1 <= n /\ n < MAX_PROCESSES
        /\ n >= 0 => pid = n \/ n = MAX_PROCESSES - 1
        /\ \A p \in PIDs : pcb[p].active = 1 <=> p <= n
        /\ \A p \in PIDs : p <= n => pcb[p].parent_pid = p - 1
  BY TableHasHeight
<1>2. pid \in Int /\ pcb \in [PIDs -> PcbType] /\ TypeOK
  BY MaxProcessesAssumption DEF IInv, TypeOK, PIDs, ASSIGN_PID_ERROR
<1>3. TableInv' /\ assign_PID(pcb) \in PIDs
  BY <1>1, <1>2, StartEstablishesTable
<1>4. /\ pid' \in PIDs /\ pcb_obj' \in PIDs
      /\ pcb' \in [PIDs -> PcbType]
      /\ pde' \in Int /\ tss_esp0' \in Int
      /\ kstack' \in [PIDs -> Seq(FrameType)]
      /\ cpu' \in CpuState
  BY <1>2, <1>3, StartPreservesTypes
<1>5. TypeOK'
  BY <1>4 DEF TypeOK
<1> QED
  BY <1>3, <1>5 DEF IInv

LEMMA RefusedKeepsInvariant ==
  ASSUME IInv, Refused, cpu' \in CpuState,
         kstack' \in [PIDs -> Seq(FrameType)],
         exec_ret' \in [value : Int, cause : Causes],
         curr_terminal_id' \in Terminals,
         terminal_active' \in [Terminals -> BOOLEAN]
  PROVE  IInv'
<1>1. PICK n \in Int :
        /\ -1 <= n /\ n < MAX_PROCESSES
        /\ \A p \in PIDs : pcb[p].active = 1 <=> p <= n
        /\ n = IF pcb_obj = NULL THEN -1 ELSE pcb_obj
  BY TableHasHeight
<1>2. \A p \in PIDs : pcb[p].active \in {0, 1}
  BY DEF IInv, TypeOK, PcbType
<1>3. \A p \in PIDs : pcb[p].active = 0 <=> p > n
  BY <1>1, <1>2, MaxProcessesAssumption DEF PIDs
<1>4. n = MAX_PROCESSES - 1
  <2>1. assign_PID(pcb) = IF n = MAX_PROCESSES - 1 THEN ASSIGN_PID_ERROR
                                                   ELSE n + 1
    BY <1>1, <1>3, AssignPidIsNext
  <2>2. assign_PID(pcb) = -99
    BY DEF Refused, ASSIGN_PID_ERROR
  <2>3. n \in Int /\ -1 <= n
    BY <1>1
  <2> QED
    BY <2>1, <2>2, <2>3
<1>5. pcb_obj = MAX_PROCESSES - 1 /\ pcb_obj \in PIDs /\ pcb_obj # NULL
  BY <1>1, <1>4, MaxProcessesAssumption DEF NULL, PIDs
<1>6. TableInv'
  <2>1. cpu'.mode # "boot"
    BY DEF CpuState, Modes
  <2>2. UNCHANGED <<pcb_obj, pcb, pde, tss_esp0>> /\ pid' = ASSIGN_PID_ERROR
    BY DEF Refused
  <2> QED
    BY <1>5, <2>1, <2>2 DEF IInv, TableInv
<1>7. TypeOK'
  BY DEF IInv, TypeOK, Refused
<1> QED
  BY <1>6, <1>7 DEF IInv

-----------------------------------------------------------------------------
(* The steps of halt *)

\* Freeing the top process leaves the active PCBs one shorter.
LEMMA HaltedTopShrinksTable ==
  ASSUME NEW n \in PIDs, NEW table \in [PIDs -> PcbType],
         \A p \in PIDs : (table[p].active = 1) <=> (p <= n),
         \A p \in PIDs : p <= n => table[p].parent_pid = p - 1,
         NEW table2, table2 = [table EXCEPT ![n] = Halted(table[n])]
  PROVE  /\ \A p \in PIDs : (table2[p].active = 1) <=> (p <= n - 1)
         /\ \A p \in PIDs : p <= n - 1 => table2[p].parent_pid = p - 1
<1>1. table2[n].active = 0
  BY DEF Halted, FreedPcb
<1>2. \A p \in PIDs : p # n => table2[p] = table[p]
  OBVIOUS
<1>3. \A p \in PIDs : (p <= n - 1) <=> (p <= n /\ p # n)
  BY MaxProcessesAssumption DEF PIDs
<1>4. ASSUME NEW p \in PIDs
      PROVE  (table2[p].active = 1) <=> (p <= n - 1)
  <2>1. CASE p = n
    BY <1>1, <1>3, <2>1
  <2>2. CASE p # n
    BY <1>2, <1>3, <2>2
  <2> QED
    BY <2>1, <2>2
<1>5. ASSUME NEW p \in PIDs, p <= n - 1
      PROVE  table2[p].parent_pid = p - 1
  <2>1. p <= n /\ p # n
    BY <1>3, <1>5
  <2> QED
    BY <1>2, <2>1
<1> QED
  BY <1>4, <1>5

LEMMA HaltKeepsInvariant ==
  ASSUME IInv, cpu.mode \in {"user", "read"}, NEW status \in 0..255,
         NEW cause \in Causes, system_halt(status, cause)
  PROVE  IInv'
<1>1. pcb_obj \in PIDs /\ TrapStack \in PIDs /\ Below \in Seq(FrameType)
  BY TrapTypes
<1>2. UNCHANGED <<exec_ret, termVars>>
  BY DEF system_halt
<1>3. CASE IsBaseShell
  <2> DEFINE table == [pcb EXCEPT ![pcb_obj] = HaltedBase(pcb[pcb_obj])]
  <2>1. PICK args \in ParsedArgs(FALSE) :
          Start(table, TrapStack, Below, "restart", Fault, args)
    BY <1>3 DEF system_halt, RestartShell
  <2>2. args \in {"none", "given", "garbage"}
    BY DEF ParsedArgs
  <2>3. pcb_obj = 0 /\ pid = 0
    BY <1>1, <1>3, BaseShellIsZero
  <2>4. table \in [PIDs -> PcbType] /\ pcb \in [PIDs -> PcbType]
    BY <1>1, PcbConstructors DEF IInv, TypeOK
  <2>5. \A p \in PIDs : table[p].active = 1 <=> p <= -1
    <3>1. \A p \in PIDs : pcb[p].active = 1 <=> p <= 0
      BY <2>3, MaxProcessesAssumption DEF IInv, TableInv, NULL
    <3> QED
      BY <2>3, <2>4, <3>1, MaxProcessesAssumption
         DEF HaltedBase, FreedPcb, PIDs
  <2>6. \A p \in PIDs : ~(p <= -1)
    BY MaxProcessesAssumption DEF PIDs
  <2>7. TableInv' /\ assign_PID(table) \in PIDs
    <3> HIDE DEF table
    <3>1. -1 \in Int /\ -1 <= -1 /\ -1 < MAX_PROCESSES /\ ~(-1 >= 0)
      BY MaxProcessesAssumption
    <3> QED
      BY <2>1, <2>3, <2>4, <2>5, <2>6, <3>1, StartEstablishesTable
  <2>8. TypeOK /\ pid \in Int /\ Fault \in CpuState
    BY <2>3, CpuConstants DEF IInv
  <2>9. /\ pid' \in PIDs /\ pcb_obj' \in PIDs
        /\ pcb' \in [PIDs -> PcbType]
        /\ pde' \in Int /\ tss_esp0' \in Int
        /\ kstack' \in [PIDs -> Seq(FrameType)]
        /\ cpu' \in CpuState
    <3> HIDE DEF table
    <3> QED
      BY <1>1, <2>1, <2>2, <2>4, <2>7, <2>8, StartPreservesTypes
  <2>10. TypeOK'
    BY <1>2, <1>3, <2>9
       DEF IInv, TypeOK, system_halt, RestartShell, termVars
  <2> QED
    BY <2>7, <2>10 DEF IInv
<1>4. CASE ~IsBaseShell
  <2> DEFINE parent == pcb_obj - 1
  <2>1. /\ pcb_obj > 0 /\ parent \in PIDs
        /\ pcb[pcb_obj].parent_pid = parent
    BY <1>1, <1>4, BaseShellIsZero
  <2>2. HaltToParent(status, cause)
    BY <1>4 DEF system_halt
  <2>3. /\ pid' = parent /\ pcb_obj' = parent
        /\ parent_pid' = pcb[parent].parent_pid
        /\ pcb' = [pcb EXCEPT ![pcb_obj] = Halted(pcb[pcb_obj])]
        /\ kstack' = [kstack EXCEPT ![TrapStack] = <<>>]
        /\ pde' = execute_paging_init(parent + 1)
        /\ tss_esp0' = esp0_of(parent)
        /\ cpu'.mode = "halting"
    <3>1. KERNEL_END - KERNEL_STACK_WIDTH * parent - 4 = esp0_of(parent)
      BY <2>1, MaxProcessesAssumption
         DEF esp0_of, find_PCB, KERNEL_END, KERNEL_STACK_WIDTH, PIDs
    <3> QED
      BY <2>1, <2>2, <3>1 DEF HaltToParent
  <2>4. TypeOK'
    <3>1. pcb' \in [PIDs -> PcbType]
      BY <1>1, <2>3, PcbConstructors DEF IInv, TypeOK
    <3>2. parent_pid' \in Int
      BY <2>1, <2>3 DEF IInv, TypeOK, PcbType
    <3>3. kstack' \in [PIDs -> Seq(FrameType)]
      BY <1>1, <2>3 DEF IInv, TypeOK
    <3>4. cpu' \in CpuState
      <4>1. pcb[pcb_obj].saved \in FrameRef
        BY <1>1 DEF IInv, TypeOK, PcbType
      <4>2. ExtendedStatus(status) \in Int
        BY DEF ExtendedStatus
      <4> QED
        BY <1>1, <2>2, <4>1, <4>2, SMTT(60)
           DEF HaltToParent, CpuState, ReturnInfo, Modes
    <3>5. pde' \in Int /\ tss_esp0' \in Int
      <4>1. parent \in Int
        BY <2>1, MaxProcessesAssumption DEF PIDs
      <4> HIDE DEF parent
      <4> QED
        BY <2>3, <4>1, AddressesAreIntegers
    <3> QED
      BY <1>2, <2>1, <2>3, <3>1, <3>2, <3>3, <3>4, <3>5
         DEF IInv, TypeOK, termVars
  <2>5. TableInv'
    <3>1. \A p \in PIDs : (pcb[p].active = 1) <=> (p <= pcb_obj)
      BY <1>1, MaxProcessesAssumption DEF IInv, TableInv, NULL, PIDs
    <3>2. \A p \in PIDs : p <= pcb_obj => pcb[p].parent_pid = p - 1
      BY <1>1, MaxProcessesAssumption DEF IInv, TableInv, NULL, PIDs
    <3>3. pcb \in [PIDs -> PcbType]
      BY DEF IInv, TypeOK
    <3>4. pcb' = [pcb EXCEPT ![pcb_obj] = Halted(pcb[pcb_obj])]
      BY <2>3
    <3>5. /\ \A p \in PIDs : (pcb'[p].active = 1) <=> (p <= pcb_obj - 1)
          /\ \A p \in PIDs : p <= pcb_obj - 1 => pcb'[p].parent_pid = p - 1
      BY ONLY <1>1, <3>1, <3>2, <3>3, <3>4, HaltedTopShrinksTable
    <3> QED
      BY <2>1, <2>3, <3>5 DEF TableInv
  <2> QED
    BY <2>4, <2>5 DEF IInv
<1> QED
  BY <1>3, <1>4

LEMMA HaltReturnKeepsInvariant ==
  ASSUME IInv, HaltReturn
  PROVE  IInv'
<1> DEFINE r == cpu.ret
           f == kstack[r.to.stack][r.to.height]
<1>1. cpu.mode = "halting" /\ UNCHANGED <<procVars, termVars>>
  BY DEF HaltReturn
<1>2. cpu \in CpuState /\ pcb_obj \in PIDs
  BY <1>1, TrapTypes
<1>3. r \in ReturnInfo /\ r.to.stack \in PIDs /\ r.to.height \in Nat
  BY <1>2 DEF CpuState, ReturnInfo, FrameRef
<1>4. /\ cpu' \in CpuState
      /\ kstack' \in [PIDs -> Seq(FrameType)]
      /\ exec_ret' \in [value : Int, cause : Causes]
  <2>1. CASE /\ FrameIntact(r)
             /\ cpu' = f.resume
             /\ kstack' = [kstack EXCEPT ![r.to.stack] =
                             SubSeq(kstack[r.to.stack], 1, r.to.height - 1)]
             /\ exec_ret' = IF f.kind = "syscall"
                            THEN [value |-> r.value, cause |-> r.cause]
                            ELSE exec_ret
    <3>1. kstack[r.to.stack] \in Seq(FrameType)
      BY <1>3 DEF IInv, TypeOK
    <3>2. f \in FrameType
      <4>1. r.to.height \in 1..Len(kstack[r.to.stack])
        BY <2>1 DEF FrameIntact
      <4> QED
        BY <3>1, <4>1
    <3>3. SubSeq(kstack[r.to.stack], 1, r.to.height - 1) \in Seq(FrameType)
      <4>1. r.to.height \in 1..Len(kstack[r.to.stack])
        BY <2>1 DEF FrameIntact
      <4>2. ASSUME NEW q \in Seq(FrameType), NEW h \in 1..Len(q)
            PROVE  SubSeq(q, 1, h - 1) \in Seq(FrameType)
        OBVIOUS
      <4> QED
        BY <3>1, <4>1, <4>2
    <3>4. cpu' \in CpuState
      BY <2>1, <3>2 DEF FrameType
    <3>5. kstack' \in [PIDs -> Seq(FrameType)]
      BY <2>1, <3>3 DEF IInv, TypeOK
    <3>6. exec_ret' \in [value : Int, cause : Causes]
      BY <1>3, <2>1 DEF IInv, TypeOK, ReturnInfo
    <3> QED
      BY <3>4, <3>5, <3>6
  <2>2. CASE cpu' = Fault /\ UNCHANGED <<kstack, exec_ret>>
    BY <2>2, CpuConstants DEF IInv, TypeOK
  <2> QED
    BY <2>1, <2>2 DEF HaltReturn
<1>5. TypeOK'
  BY <1>1, <1>4 DEF IInv, TypeOK, procVars, termVars
<1>6. TableInv'
  <2>1. cpu'.mode # "boot"
    BY <1>4 DEF CpuState, Modes
  <2> QED
    BY <1>1, <1>2, <2>1, MaxProcessesAssumption
       DEF IInv, TableInv, procVars, NULL, PIDs
<1> QED
  BY <1>5, <1>6 DEF IInv

-----------------------------------------------------------------------------
(* The remaining steps *)

\* A step that keeps the table and the address space keeps the invariant.
LEMMA QuietStepKeepsInvariant ==
  ASSUME IInv, cpu.mode \notin {"boot", "fault"},
         UNCHANGED <<pid, parent_pid, pcb_obj, pde, tss_esp0>>,
         pcb' \in [PIDs -> PcbType],
         \A p \in PIDs : /\ pcb'[p].active = pcb[p].active
                         /\ pcb'[p].parent_pid = pcb[p].parent_pid,
         cpu' \in CpuState, cpu.mode = "idle" => cpu'.mode \in {"idle", "fault"},
         kstack' \in [PIDs -> Seq(FrameType)],
         exec_ret' \in [value : Int, cause : Causes],
         curr_terminal_id' \in Terminals,
         terminal_active' \in [Terminals -> BOOLEAN]
  PROVE  IInv'
<1>1. TypeOK'
  BY DEF IInv, TypeOK
<1>2. cpu'.mode # "boot"
  BY DEF CpuState, Modes
<1>3. TableInv'
  <2>1. CASE pcb_obj = NULL
    <3>1. pcb_obj \notin PIDs /\ pcb_obj' = NULL
      BY <2>1, MaxProcessesAssumption DEF NULL, PIDs
    <3>2. /\ pid = 0 /\ cpu.mode = "idle"
          /\ \A p \in PIDs : pcb[p].active = 0
      BY <2>1, <3>1 DEF IInv, TableInv
    <3>3. \A p \in PIDs : pcb'[p].active = 0
      BY <3>2
    <3> QED
      BY <3>1, <3>2, <3>3 DEF TableInv
  <2>2. CASE pcb_obj \in PIDs
    <3>1. /\ \A p \in PIDs : (pcb[p].active = 1) <=> (p <= pcb_obj)
          /\ \A p \in PIDs : p <= pcb_obj => pcb[p].parent_pid = p - 1
      BY <2>2, MaxProcessesAssumption DEF IInv, TableInv, NULL, PIDs
    <3>2. /\ \A p \in PIDs : (pcb'[p].active = 1) <=> (p <= pcb_obj)
          /\ \A p \in PIDs : p <= pcb_obj => pcb'[p].parent_pid = p - 1
      BY <3>1, Zenon
    <3>3. /\ pid = pcb_obj \/ (pid = ASSIGN_PID_ERROR /\ pcb_obj = MAX_PROCESSES - 1)
          /\ pde = execute_paging_init(pcb_obj + 1)
          /\ tss_esp0 = esp0_of(pcb_obj)
      BY <2>2, MaxProcessesAssumption DEF IInv, TableInv, NULL, PIDs
    <3> QED
      BY <1>2, <2>2, <3>1, <3>2, <3>3 DEF TableInv
  <2> QED
    BY <2>1, <2>2 DEF IInv, TableInv
<1> QED
  BY <1>1, <1>3 DEF IInv

LEMMA BootKeepsInvariant ==
  ASSUME IInv, NEW call \in BOOLEAN, Boot(call)
  PROVE  IInv'
<1>1. cpu.mode = "boot" /\ UNCHANGED <<parent_pid, exec_ret>>
  BY DEF Boot
<1>2. Running("idle", 0) \in CpuState /\ 0 \in PIDs /\ 0 \in Terminals
  BY CpuConstants, MaxProcessesAssumption, NumTerminalsAssumption
     DEF Modes, PIDs, Terminals
<1>3. CASE call
  <2>1. PICK args \in ParsedArgs(FALSE) :
          Start(pcb, 0, <<>>, "boot", Running("idle", 0), args)
    BY <1>3 DEF Boot
  <2>2. args \in {"none", "given", "garbage"}
    BY DEF ParsedArgs
  <2>3. /\ parent_pid' \in Int /\ exec_ret' \in [value : Int, cause : Causes]
        /\ curr_terminal_id' \in Terminals
        /\ terminal_active' \in [Terminals -> BOOLEAN]
    BY <1>1, <1>2, <1>3 DEF Boot, IInv, TypeOK
  <2>4. <<>> \in Seq(FrameType)
    OBVIOUS
  <2> QED
    BY <1>2, <2>1, <2>2, <2>3, <2>4, StartKeepsInvariant
<1>4. CASE ~call
  <2>1. cpu' = Running("idle", 0) /\ cpu'.mode = "idle"
    BY <1>4, CpuConstants DEF Boot
  <2>2. UNCHANGED <<pid, pcb_obj, pcb, pde, tss_esp0, kstack, curr_terminal_id,
                    terminal_active>>
    BY <1>4 DEF Boot, termVars
  <2>3. TypeOK'
    BY <1>1, <1>2, <2>1, <2>2 DEF IInv, TypeOK
  <2>4. TableInv'
    BY <1>1, <2>1, <2>2 DEF IInv, TableInv
  <2> QED
    BY <2>3, <2>4 DEF IInv
<1> QED
  BY <1>3, <1>4

LEMMA ExecuteKeepsInvariant ==
  ASSUME IInv, NEW hasSpace \in BOOLEAN, Execute(hasSpace)
  PROVE  IInv'
<1>1. PICK args \in ParsedArgs(hasSpace) :
        Start(pcb, EntryStack, <<>>, "syscall", User, args)
  BY DEF Execute
<1>2. args \in {"none", "given", "garbage"} /\ <<>> \in Seq(FrameType)
  BY DEF ParsedArgs
<1>3. EntryStack \in PIDs
  BY TrapTypes DEF Execute
<1>4. /\ parent_pid' \in Int /\ exec_ret' \in [value : Int, cause : Causes]
      /\ curr_terminal_id' \in Terminals
      /\ terminal_active' \in [Terminals -> BOOLEAN]
  BY DEF Execute, termVars, IInv, TypeOK
<1>5. User \in CpuState
  BY CpuConstants
<1> DEFINE s == EntryStack
           below == <<>>
           resume == User
<1>6. /\ s \in PIDs /\ below \in Seq(FrameType) /\ resume \in CpuState
      /\ Start(pcb, s, below, "syscall", resume, args)
  BY <1>1, <1>2, <1>3, <1>5
<1> HIDE DEF s, below, resume
<1> QED
  BY <1>2, <1>4, <1>6, StartKeepsInvariant

\* What a system call that returns at once leaves.
LEMMA ReturnToUserTypes ==
  ASSUME IInv, ReturnToUser
  PROVE  /\ cpu.mode = "user" /\ pcb_obj \in PIDs
         /\ cpu' \in CpuState /\ kstack' \in [PIDs -> Seq(FrameType)]
<1>1. cpu.mode = "user" /\ pcb_obj \in PIDs /\ EntryStack \in PIDs
  BY TrapTypes DEF ReturnToUser
<1>2. <<>> \in Seq(FrameType)
  OBVIOUS
<1> QED
  BY <1>1, <1>2, CpuConstants DEF ReturnToUser, IInv, TypeOK

\* Opening or closing a descriptor changes nothing else of the PCB.
LEMMA SetDescriptorKeepsTable ==
  ASSUME IInv, pcb_obj \in PIDs, NEW fd \in FDs, NEW d \in Descriptor,
         SetDescriptor(fd, d)
  PROVE  /\ pcb' \in [PIDs -> PcbType]
         /\ \A p \in PIDs : /\ pcb'[p].active = pcb[p].active
                            /\ pcb'[p].parent_pid = pcb[p].parent_pid
<1>1. pcb \in [PIDs -> PcbType]
  BY DEF IInv, TypeOK
<1> DEFINE b == [pcb[pcb_obj] EXCEPT !.fda = [@ EXCEPT ![fd] = d]]
<1>2. pcb' = [pcb EXCEPT ![pcb_obj] = b]
  BY DEF SetDescriptor
<1>3. pcb[pcb_obj] \in PcbType
  BY <1>1
<1>4. b \in PcbType /\ b.active = pcb[pcb_obj].active
      /\ b.parent_pid = pcb[pcb_obj].parent_pid
  BY <1>3 DEF PcbType
<1> QED
  BY <1>1, <1>2, <1>4

LEMMA SwitchKeepsInvariant ==
  ASSUME IInv, NEW t \in Terminals, terminal_switch(t)
  PROVE  IInv'
<1>1. cpu.mode \notin {"boot", "fault"} /\ UNCHANGED exec_ret
  BY DEF terminal_switch, Interruptible
<1>2. /\ cpu \in CpuState /\ TrapStack \in PIDs /\ Below \in Seq(FrameType)
      /\ pcb_obj = NULL => cpu.mode = "idle"
  BY <1>1, TrapTypes, MaxProcessesAssumption DEF NULL, PIDs
<1>3. /\ parent_pid \in Int /\ exec_ret' \in [value : Int, cause : Causes]
      /\ pcb \in [PIDs -> PcbType] /\ kstack \in [PIDs -> Seq(FrameType)]
      /\ curr_terminal_id \in Terminals
      /\ terminal_active \in [Terminals -> BOOLEAN]
  BY <1>1 DEF IInv, TypeOK
<1>4. ASSUME HandlerReturns
      PROVE  /\ cpu' \in CpuState /\ UNCHANGED cpu
             /\ kstack' \in [PIDs -> Seq(FrameType)]
  BY <1>2, <1>3, <1>4 DEF HandlerReturns
<1>5. CASE /\ cpu' = Fault
           /\ UNCHANGED <<procVars, kstack, termVars>>
  <2>1. cpu' \in CpuState /\ cpu'.mode = "fault"
    BY <1>5, CpuConstants
  <2> QED
    BY <1>1, <1>3, <1>5, <2>1, QuietStepKeepsInvariant DEF procVars, termVars
<1>6. CASE /\ curr_terminal_id' = t
           /\ HandlerReturns
           /\ UNCHANGED <<procVars, terminal_active>>
  <2>1. UNCHANGED <<pid, parent_pid, pcb_obj, pcb, pde, tss_esp0, cpu>>
    BY <1>4, <1>6 DEF procVars
  <2> QED
    BY <1>1, <1>3, <1>4, <1>6, <2>1, QuietStepKeepsInvariant
<1>7. CASE /\ curr_terminal_id' = t
           /\ terminal_active' = [terminal_active EXCEPT ![t] = TRUE]
           /\ \/ /\ \E args \in ParsedArgs(FALSE) :
                      Start(pcb, TrapStack, Below, "irq", cpu, args)
                 /\ UNCHANGED parent_pid
              \/ Refused /\ HandlerReturns
  <2>1. curr_terminal_id' \in Terminals /\ terminal_active' \in [Terminals -> BOOLEAN]
    BY <1>3, <1>7
  <2>2. CASE Refused /\ HandlerReturns
    BY <1>3, <1>4, <2>1, <2>2, RefusedKeepsInvariant
  <2>3. CASE /\ \E args \in ParsedArgs(FALSE) :
                  Start(pcb, TrapStack, Below, "irq", cpu, args)
             /\ UNCHANGED parent_pid
    <3>1. PICK args \in {"none", "given", "garbage"} :
            Start(pcb, TrapStack, Below, "irq", cpu, args)
      BY <2>3 DEF ParsedArgs
    <3>2. parent_pid' \in Int
      BY <1>3, <2>3
    <3> QED
      BY <1>2, <1>3, <2>1, <3>1, <3>2, StartKeepsInvariant
  <2> QED
    BY <1>7, <2>2, <2>3
<1> QED
  BY <1>5, <1>6, <1>7 DEF terminal_switch

LEMMA ReadBeginKeepsInvariant ==
  ASSUME IInv, NEW fd \in FDs, ReadBegin(fd)
  PROVE  IInv'
<1>1. /\ cpu.mode = "user" /\ EntryStack \in PIDs
      /\ UNCHANGED <<pid, parent_pid, pcb_obj, pcb, pde, tss_esp0, exec_ret,
                     curr_terminal_id, terminal_active>>
  BY TrapTypes DEF ReadBegin, procVars, termVars
<1>2. Frame("syscall", User, NoPid) \in FrameType
  BY CpuConstants DEF Frame, FrameType
<1>3. <<Frame("syscall", User, NoPid)>> \in Seq(FrameType)
  BY <1>2
<1>4. cpu' \in CpuState /\ kstack' \in [PIDs -> Seq(FrameType)]
  BY <1>1, <1>3, CpuConstants DEF ReadBegin, IInv, TypeOK, Modes
<1>5. /\ pcb' \in [PIDs -> PcbType]
      /\ exec_ret' \in [value : Int, cause : Causes]
      /\ curr_terminal_id' \in Terminals
      /\ terminal_active' \in [Terminals -> BOOLEAN]
  BY <1>1 DEF IInv, TypeOK
<1> QED
  BY <1>1, <1>4, <1>5, QuietStepKeepsInvariant

LEMMA ReadEndKeepsInvariant ==
  ASSUME IInv, ReadEnd
  PROVE  IInv'
<1>1. /\ cpu.mode = "read" /\ cpu.stack \in PIDs
      /\ UNCHANGED <<pid, parent_pid, pcb_obj, pcb, pde, tss_esp0, exec_ret,
                     curr_terminal_id, terminal_active>>
  BY TrapTypes DEF ReadEnd, procVars, termVars, CpuState
<1>2. <<>> \in Seq(FrameType)
  OBVIOUS
<1>3. cpu' \in CpuState /\ kstack' \in [PIDs -> Seq(FrameType)]
  BY <1>1, <1>2, CpuConstants DEF ReadEnd, IInv, TypeOK
<1>4. /\ pcb' \in [PIDs -> PcbType]
      /\ exec_ret' \in [value : Int, cause : Causes]
      /\ curr_terminal_id' \in Terminals
      /\ terminal_active' \in [Terminals -> BOOLEAN]
  BY <1>1 DEF IInv, TypeOK
<1> QED
  BY <1>1, <1>3, <1>4, QuietStepKeepsInvariant

\* A set of naturals that is not empty has a least element.
LEMMA LeastOfNaturals ==
  ASSUME NEW S \in SUBSET Nat, NEW n \in S
  PROVE  \E m \in S : \A k \in S : m <= k
<1> DEFINE R == {ss \in Nat \X Nat : ss[1] < ss[2]}
<1>1. IsWellFoundedOn(R, Nat)
  BY NatLessThanWellFounded DEF OpToRel
<1>2. \E m \in S : \A k \in S : ~ (<<k, m>> \in R)
  <2> HIDE DEF R
  <2> QED
    BY <1>1, WFMin
<1>3. PICK m \in S : \A k \in S : ~ (<<k, m>> \in R)
  BY <1>2
<1>4. ASSUME NEW k \in S PROVE m <= k
  <2>1. ~ (<<k, m>> \in R)
    BY <1>3
  <2>2. k \in Nat /\ m \in Nat
    OBVIOUS
  <2>3. (k < m) => <<k, m>> \in R
    BY <2>2
  <2> QED
    BY <2>1, <2>2, <2>3
<1> QED
  BY <1>4

LEMMA OpenKeepsInvariant ==
  ASSUME IInv, NEW type \in FileTypes, system_open(type)
  PROVE  IInv'
<1> DEFINE free == {fd \in FDs : fd >= 2 /\ pcb[pcb_obj].fda[fd].flags = 0}
           fd0 == CHOOSE fd \in free : \A g \in free : fd <= g
<1>1. /\ ReturnToUser
      /\ UNCHANGED <<pid, parent_pid, pcb_obj, pde, tss_esp0, exec_ret,
                     curr_terminal_id, terminal_active>>
      /\ IF free = {} THEN UNCHANGED pcb ELSE SetDescriptor(fd0, Opened(type))
  BY DEF system_open, termVars
<1>2. /\ cpu.mode = "user" /\ pcb_obj \in PIDs
      /\ cpu' \in CpuState /\ kstack' \in [PIDs -> Seq(FrameType)]
  BY <1>1, ReturnToUserTypes
<1>3. Opened(type) \in Descriptor
  BY DEF Opened, Descriptor
<1>4. /\ pcb' \in [PIDs -> PcbType]
      /\ \A p \in PIDs : /\ pcb'[p].active = pcb[p].active
                         /\ pcb'[p].parent_pid = pcb[p].parent_pid
  <2>1. CASE free = {}
    BY <1>1, <2>1 DEF IInv, TypeOK
  <2>2. CASE free # {}
    <3>1. \E fd \in free : \A g \in free : fd <= g
      <4>1. free \subseteq Nat
        BY DEF FDs
      <4>2. PICK n \in free : TRUE
        BY <2>2
      <4> QED
        BY <4>1, <4>2, LeastOfNaturals
    <3>2. fd0 \in FDs
      BY <3>1
    <3> QED
      BY <1>1, <1>2, <1>3, <2>2, <3>2, SetDescriptorKeepsTable
  <2> QED
    BY <2>1, <2>2
<1>5. /\ exec_ret' \in [value : Int, cause : Causes]
      /\ curr_terminal_id' \in Terminals
      /\ terminal_active' \in [Terminals -> BOOLEAN]
  BY <1>1 DEF IInv, TypeOK
<1> QED
  BY <1>1, <1>2, <1>4, <1>5, QuietStepKeepsInvariant

LEMMA CloseKeepsInvariant ==
  ASSUME IInv, NEW fd \in FDs, system_close(fd)
  PROVE  IInv'
<1>1. /\ ReturnToUser /\ SetDescriptor(fd, Closed)
      /\ UNCHANGED <<pid, parent_pid, pcb_obj, pde, tss_esp0, exec_ret,
                     curr_terminal_id, terminal_active>>
  BY DEF system_close, termVars
<1>2. /\ cpu.mode = "user" /\ pcb_obj \in PIDs
      /\ cpu' \in CpuState /\ kstack' \in [PIDs -> Seq(FrameType)]
  BY <1>1, ReturnToUserTypes
<1>3. Closed \in Descriptor
  BY DEF Closed, Descriptor
<1>4. /\ pcb' \in [PIDs -> PcbType]
      /\ \A p \in PIDs : /\ pcb'[p].active = pcb[p].active
                         /\ pcb'[p].parent_pid = pcb[p].parent_pid
  BY <1>1, <1>2, <1>3, SetDescriptorKeepsTable
<1>5. /\ exec_ret' \in [value : Int, cause : Causes]
      /\ curr_terminal_id' \in Terminals
      /\ terminal_active' \in [Terminals -> BOOLEAN]
  BY <1>1 DEF IInv, TypeOK
<1> QED
  BY <1>1, <1>2, <1>4, <1>5, QuietStepKeepsInvariant

-----------------------------------------------------------------------------
(* The invariant *)

LEMMA InitEstablishesInvariant ==
  ASSUME Init
  PROVE  IInv
<1>1. 0 \in PIDs /\ 0 \in FDs /\ 0 \in Terminals
  BY MaxProcessesAssumption, MaxOpenFilesAssumption, NumTerminalsAssumption
     DEF PIDs, FDs, Terminals
<1>2. FreePcb \in PcbType
  BY <1>1 DEF FreePcb, PcbType, Closed, Descriptor, NoFrame, FrameRef
<1>3. TypeOK
  BY <1>1, <1>2 DEF Init, TypeOK, KERNEL_END, Causes
<1>4. TableInv
  BY CpuConstants DEF Init, TableInv, FreePcb
<1> QED
  BY <1>3, <1>4 DEF IInv

LEMMA NextKeepsInvariant ==
  ASSUME IInv, [Next]_vars
  PROVE  IInv'
<1>1. ASSUME NEW call \in BootCalls, Boot(call) PROVE IInv'
  BY <1>1, BootKeepsInvariant, EnvironmentAssumption
<1>2. ASSUME NEW hasSpace \in BOOLEAN, Execute(hasSpace) PROVE IInv'
  BY <1>2, ExecuteKeepsInvariant
<1>3. CASE ExecuteInvalid
  <2>1. /\ cpu.mode = "user"
        /\ cpu' \in CpuState /\ kstack' \in [PIDs -> Seq(FrameType)]
    BY <1>3, ReturnToUserTypes DEF ExecuteInvalid
  <2>2. exec_ret' \in [value : Int, cause : Causes]
    BY <1>3 DEF ExecuteInvalid, Causes
  <2>3. UNCHANGED <<pid, parent_pid, pcb_obj, pcb, pde, tss_esp0,
                    curr_terminal_id, terminal_active>>
    BY <1>3 DEF ExecuteInvalid, procVars, termVars
  <2>4. /\ pcb' \in [PIDs -> PcbType] /\ curr_terminal_id' \in Terminals
        /\ terminal_active' \in [Terminals -> BOOLEAN]
    BY <2>3 DEF IInv, TypeOK
  <2> QED
    BY <2>1, <2>2, <2>3, <2>4, QuietStepKeepsInvariant
<1>4. CASE ExecuteRefused
  <2>1. Refused /\ cpu' \in CpuState /\ kstack' \in [PIDs -> Seq(FrameType)]
    BY <1>4, ReturnToUserTypes DEF ExecuteRefused
  <2>2. /\ exec_ret' \in [value : Int, cause : Causes]
        /\ curr_terminal_id' \in Terminals
        /\ terminal_active' \in [Terminals -> BOOLEAN]
    BY <1>4 DEF ExecuteRefused, Causes, termVars, IInv, TypeOK
  <2> QED
    BY <2>1, <2>2, RefusedKeepsInvariant
<1>5. CASE Launch
  <2>1. /\ cpu.mode = "launch" /\ cpu' \in CpuState
        /\ UNCHANGED <<pid, parent_pid, pcb_obj, pcb, pde, tss_esp0, kstack,
                       exec_ret, curr_terminal_id, terminal_active>>
    BY <1>5, CpuConstants DEF Launch, procVars, termVars
  <2>2. /\ pcb' \in [PIDs -> PcbType] /\ kstack' \in [PIDs -> Seq(FrameType)]
        /\ exec_ret' \in [value : Int, cause : Causes]
        /\ curr_terminal_id' \in Terminals
        /\ terminal_active' \in [Terminals -> BOOLEAN]
    BY <2>1 DEF IInv, TypeOK
  <2> QED
    BY <2>1, <2>2, QuietStepKeepsInvariant
<1>6. ASSUME NEW status \in Statuses, Halt(status) PROVE IInv'
  BY <1>6, HaltKeepsInvariant, StatusesAssumption DEF Halt, Causes
<1>7. CASE Exception
  BY <1>7, HaltKeepsInvariant DEF Exception, Causes
<1>8. CASE HaltReturn
  BY <1>8, HaltReturnKeepsInvariant
<1>9. ASSUME NEW t \in Terminals, terminal_switch(t) PROVE IInv'
  BY <1>9, SwitchKeepsInvariant
<1>10. ASSUME NEW fd \in FDs, ReadBegin(fd) PROVE IInv'
  BY <1>10, ReadBeginKeepsInvariant
<1>11. CASE ReadEnd
  BY <1>11, ReadEndKeepsInvariant
<1>12. ASSUME NEW type \in FileTypes, system_open(type) PROVE IInv'
  BY <1>12, OpenKeepsInvariant
<1>13. ASSUME NEW fd \in FDs, system_close(fd) PROVE IInv'
  BY <1>13, CloseKeepsInvariant
<1>14. CASE UNCHANGED vars
  BY <1>14 DEF vars, IInv, TypeOK, TableInv
<1> QED
  BY <1>1, <1>2, <1>3, <1>4, <1>5, <1>6, <1>7, <1>8, <1>9, <1>10, <1>11,
     <1>12, <1>13, <1>14 DEF Next

THEOREM InvariantHolds == Spec => []IInv
<1>1. Init => IInv
  BY InitEstablishesInvariant
<1>2. IInv /\ [Next]_vars => IInv'
  BY NextKeepsInvariant
<1> QED
  BY <1>1, <1>2, PTL DEF Spec

\* Type correctness (every global, PCB, kernel stack and descriptor keeps its
\* range: syscall.c's tables are indexed within their bounds).
THEOREM TypeCorrect == Spec => []TypeOK
<1>1. IInv => TypeOK
  BY DEF IInv
<1> QED
  BY <1>1, InvariantHolds, PTL

\* The program page and tss.esp0 that execute, halt and the restart of the base
\* shell leave are always those of the running process.
THEOREM AddressSpaceStaysCurrent == Spec => []AddressSpaceIsCurrent
<1>1. IInv => AddressSpaceIsCurrent
  <2> SUFFICES ASSUME IInv, pcb_obj # NULL
               PROVE  /\ pde = SIZE_8MB + SIZE_4MB * pcb_obj
                      /\ tss_esp0 = KERNEL_END - KERNEL_STACK_WIDTH * pcb_obj - 4
    BY DEF AddressSpaceIsCurrent
  <2>1. /\ pcb_obj \in Int
        /\ pde = execute_paging_init(pcb_obj + 1)
        /\ tss_esp0 = esp0_of(pcb_obj)
    BY MaxProcessesAssumption DEF IInv, TableInv, PIDs
  <2> QED
    BY <2>1 DEF execute_paging_init, esp0_of, find_PCB, KERNEL_END,
                KERNEL_STACK_WIDTH, SIZE_4MB, SIZE_8MB
<1> QED
  BY <1>1, InvariantHolds, PTL

\* The error code that a refused execute leaves in the global pid is there only
\* while the table is full.
THEOREM PidStaysUsable == Spec => []PidIsCurrentOrTableFull
<1>1. IInv => PidIsCurrentOrTableFull
  <2> SUFFICES ASSUME IInv, pcb_obj # NULL
               PROVE  \/ pid = pcb_obj
                      \/ pid = ASSIGN_PID_ERROR /\ \A p \in PIDs : Active(p)
    BY DEF PidIsCurrentOrTableFull
  <2>1. /\ \A p \in PIDs : (pcb[p].active = 1) <=> (p <= pcb_obj)
        /\ pid = pcb_obj \/ (pid = ASSIGN_PID_ERROR /\ pcb_obj = MAX_PROCESSES - 1)
    BY DEF IInv, TableInv
  <2>2. pcb_obj = MAX_PROCESSES - 1 => \A p \in PIDs : Active(p)
    BY <2>1, MaxProcessesAssumption DEF Active, PIDs
  <2> QED
    BY <2>1, <2>2
<1> QED
  BY <1>1, InvariantHolds, PTL

\* The active processes are one chain of callers, whatever was started, halted,
\* refused or interrupted.
THEOREM ActiveProcessesStayOneChain == Spec => []ActiveProcessesFormOneChain
<1>1. IInv => ActiveProcessesFormOneChain
  <2> SUFFICES ASSUME IInv, pcb_obj # NULL
               PROVE  ActiveProcessesFormOneChain
    BY DEF ActiveProcessesFormOneChain
  <2> USE MaxProcessesAssumption DEF PIDs, NoPid
  <2>1. pcb_obj \in PIDs
    BY DEF IInv, TableInv
  <2>2. \A p \in PIDs : Active(p) <=> (p <= pcb_obj)
    BY DEF IInv, TableInv, Active
  <2>3. \A p \in PIDs : Active(p) => pcb[p].parent_pid = p - 1
    BY <2>2 DEF IInv, TableInv
  <2>4. ASSUME NEW p \in PIDs, Active(p), p # pcb_obj
        PROVE  \E q \in PIDs : Active(q) /\ pcb[q].parent_pid = p
    <3>1. p + 1 \in PIDs /\ p + 1 <= pcb_obj
      BY <2>1, <2>2, <2>4
    <3>2. Active(p + 1)
      BY <2>2, <3>1
    <3>3. pcb[p + 1].parent_pid = p
      BY <2>3, <3>1, <3>2
    <3> QED
      BY <3>1, <3>2, <3>3
  <2>5. ASSUME NEW p \in PIDs, Active(p)
        PROVE  IF p = 0 THEN pcb[p].parent_pid = NoPid
               ELSE pcb[p].parent_pid \in PIDs /\ Active(pcb[p].parent_pid)
    <3>1. pcb[p].parent_pid = p - 1 /\ p <= pcb_obj
      BY <2>2, <2>3, <2>5
    <3>2. p # 0 => p - 1 \in PIDs /\ p - 1 <= pcb_obj
      BY <2>1, <3>1
    <3>3. p # 0 => Active(p - 1)
      BY <2>2, <3>2
    <3> QED
      BY <3>1, <3>2, <3>3
  <2>6. \A p, q \in PIDs : (Active(p) /\ Active(q) /\ p # q) =>
          pcb[p].parent_pid # pcb[q].parent_pid
    <3> SUFFICES ASSUME NEW p \in PIDs, NEW q \in PIDs, Active(p), Active(q), p # q
                 PROVE  pcb[p].parent_pid # pcb[q].parent_pid
      OBVIOUS
    <3>1. pcb[p].parent_pid = p - 1 /\ pcb[q].parent_pid = q - 1
      BY <2>3
    <3> QED
      BY <3>1
  <2>7. Active(pcb_obj)
    BY <2>1, <2>2
  <2> QED
    BY <2>4, <2>5, <2>6, <2>7 DEF ActiveProcessesFormOneChain
<1> QED
  BY <1>1, InvariantHolds, PTL

-----------------------------------------------------------------------------
(* Process implements CallTree, and what its descriptors are.               *)
(* By the invariant the callers are a function of pcb_obj: the live         *)
(* processes are 0..pcb_obj and p - 1 waits for p.  So all a step has to    *)
(* show is that it moves pcb_obj by one, or not at all.                     *)

\* What CallTree's caller stands for.
callers == [p \in {q \in PIDs : Active(q)} |-> pcb[p].parent_pid]

\* The highest live process; -1 when there is none.
Height == IF pcb_obj = NULL THEN -1 ELSE pcb_obj

LEMMA CallersFollowFromHeight ==
  ASSUME IInv
  PROVE  /\ Height \in Int /\ -1 <= Height /\ Height < MAX_PROCESSES
         /\ pcb_obj = IF Height = -1 THEN NULL ELSE Height
         /\ callers = [p \in 0..Height |-> p - 1]
         /\ \A p \in PIDs : pcb[p].active = 0 <=> p > Height
<1>1. PICK n \in Int :
        /\ -1 <= n /\ n < MAX_PROCESSES
        /\ \A p \in PIDs : pcb[p].active = 1 <=> p <= n
        /\ \A p \in PIDs : p <= n => pcb[p].parent_pid = p - 1
        /\ n = IF pcb_obj = NULL THEN -1 ELSE pcb_obj
  BY TableHasHeight
<1>2. n = Height
  BY <1>1 DEF Height
<1>3. {q \in PIDs : Active(q)} = 0..n
  <2>1. \A q : q \in PIDs /\ Active(q) <=> q \in 0..n
    BY <1>1, MaxProcessesAssumption DEF Active, PIDs
  <2> QED
    BY <2>1
<1>4. \A p \in 0..n : pcb[p].parent_pid = p - 1
  BY <1>1, MaxProcessesAssumption DEF PIDs
<1>5. callers = [p \in 0..n |-> p - 1]
  BY <1>3, <1>4 DEF callers
<1>6. \A p \in PIDs : pcb[p].active \in {0, 1}
  BY DEF IInv, TypeOK, PcbType
<1>7. \A p \in PIDs : pcb[p].active = 0 <=> p > n
  BY <1>1, <1>6, MaxProcessesAssumption DEF PIDs
<1>8. pcb_obj = IF n = -1 THEN NULL ELSE n
  BY <1>1, MaxProcessesAssumption DEF IInv, TableInv, PIDs, NULL
<1> QED
  BY <1>1, <1>2, <1>5, <1>7, <1>8

-----------------------------------------------------------------------------
(* What each operation does to the height *)

\* A successful execute, of a table with n + 1 live processes.
LEMMA StartRaises ==
  ASSUME NEW n \in Int, -1 <= n, n < MAX_PROCESSES,
         NEW table, \A p \in PIDs : table[p].active = 0 <=> p > n,
         NEW s, NEW below, NEW kind, NEW resume, NEW args,
         Start(table, s, below, kind, resume, args)
  PROVE  pcb_obj' = n + 1
<1>1. assign_PID(table) # ASSIGN_PID_ERROR /\ pcb_obj' = assign_PID(table)
  BY DEF Start
<1> QED
  BY <1>1, AssignPidIsNext

\* A halt: the base shell is restarted in its own PCB, any other process leaves
\* its caller running.
LEMMA HaltLowers ==
  ASSUME IInv, cpu.mode \in {"user", "read"}, NEW status, NEW cause,
         system_halt(status, cause)
  PROVE  pcb_obj \in PIDs /\ pcb_obj' \in {pcb_obj, pcb_obj - 1} /\ pcb_obj' \in PIDs
<1>1. pcb_obj \in PIDs
  BY TrapTypes
<1>2. CASE IsBaseShell
  <2>1. pcb_obj = 0
    BY <1>1, <1>2, BaseShellIsZero
  <2> DEFINE table == [pcb EXCEPT ![pcb_obj] = HaltedBase(pcb[pcb_obj])]
  <2>2. PICK args \in ParsedArgs(FALSE) : Start(table, TrapStack, Below, "restart", Fault, args)
    BY <1>2 DEF system_halt, RestartShell
  <2>3. pcb \in [PIDs -> PcbType]
    BY DEF IInv, TypeOK
  <2>4. \A p \in PIDs : pcb[p].active = 0 <=> p > 0
    <3>1. Height = 0
      BY <2>1 DEF Height, NULL
    <3> QED
      BY <3>1, CallersFollowFromHeight
  <2>5. HaltedBase(pcb[0]).active = 0
    BY Zenon DEF HaltedBase, FreedPcb
  <2>6. \A p \in PIDs : table[p].active = 0 <=> p > -1
    <3> SUFFICES ASSUME NEW p \in PIDs PROVE table[p].active = 0 /\ p > -1
      OBVIOUS
    <3>1. IF p = 0 THEN table[p] = HaltedBase(pcb[0]) ELSE table[p] = pcb[p] /\ p > 0
      BY <2>1, <2>3, MaxProcessesAssumption DEF PIDs
    <3> QED
      BY <2>4, <2>5, <3>1, MaxProcessesAssumption DEF PIDs
  <2> HIDE DEF table
  <2>7. pcb_obj' = -1 + 1
    <3>1. -1 \in Int /\ -1 <= -1 /\ -1 < MAX_PROCESSES
      BY MaxProcessesAssumption
    <3> QED
      BY ONLY <2>2, <2>6, <3>1, StartRaises, Zenon
  <2> QED
    BY <1>1, <2>1, <2>7
<1>3. CASE ~IsBaseShell
  <2>1. pcb[pcb_obj].parent_pid = pcb_obj - 1 /\ pcb_obj - 1 \in PIDs
    BY <1>1, <1>3, BaseShellIsZero
  <2>2. pcb_obj' = pcb[pcb_obj].parent_pid
    BY <1>3 DEF system_halt, HaltToParent
  <2> QED
    BY <1>1, <2>1, <2>2
<1> QED
  BY <1>2, <1>3

LEMMA StartFromTable ==
  ASSUME IInv, NEW s, NEW below, NEW kind, NEW resume, NEW args,
         Start(pcb, s, below, kind, resume, args)
  PROVE  pcb_obj' = Height + 1
BY CallersFollowFromHeight, StartRaises

\* Every step moves the height by one or not at all, and down only from a
\* process that has a caller.
LEMMA HeightMovesByOne ==
  ASSUME IInv, [Next]_vars
  PROVE  \/ pcb_obj' = pcb_obj
         \/ pcb_obj' = Height + 1
         \/ pcb_obj \in PIDs /\ pcb_obj' \in PIDs /\ pcb_obj' = pcb_obj - 1
<1> DEFINE Moves == \/ pcb_obj' = pcb_obj
                    \/ pcb_obj' = Height + 1
                    \/ pcb_obj \in PIDs /\ pcb_obj' \in PIDs /\ pcb_obj' = pcb_obj - 1
<1>1. ASSUME NEW call \in BootCalls, Boot(call) PROVE Moves
  <2>1. CASE call
    BY <1>1, <2>1, StartFromTable DEF Boot
  <2>2. CASE ~call
    BY <1>1, <2>2 DEF Boot
  <2> QED
    BY <2>1, <2>2
<1>2. ASSUME NEW hasSpace \in BOOLEAN, Execute(hasSpace) PROVE Moves
  BY <1>2, StartFromTable DEF Execute
<1>3. ASSUME NEW status \in Statuses, Halt(status) PROVE Moves
  BY <1>3, HaltLowers DEF Halt
<1>4. CASE Exception
  BY <1>4, HaltLowers DEF Exception
<1>5. ASSUME NEW t \in Terminals, terminal_switch(t) PROVE Moves
  <2>1. \/ UNCHANGED pcb_obj
        \/ \E args \in ParsedArgs(FALSE) :
             Start(pcb, TrapStack, Below, "irq", cpu, args)
    BY <1>5 DEF terminal_switch, procVars, Refused
  <2> QED
    BY <2>1, StartFromTable
<1>6. ExecuteInvalid \/ ExecuteRefused \/ Launch \/ HaltReturn \/ ReadEnd => Moves
  BY DEF ExecuteInvalid, ExecuteRefused, Refused, Launch, HaltReturn, ReadEnd, procVars
<1>7. ASSUME NEW fd \in FDs, ReadBegin(fd) \/ system_close(fd) PROVE Moves
  BY <1>7 DEF ReadBegin, system_close, procVars
<1>8. ASSUME NEW type \in FileTypes, system_open(type) PROVE Moves
  BY <1>8 DEF system_open
<1>9. UNCHANGED vars => Moves
  BY DEF vars
<1> QED
  BY <1>1, <1>2, <1>3, <1>4, <1>5, <1>6, <1>7, <1>8, <1>9 DEF Next

-----------------------------------------------------------------------------
(* The refinement *)

LEMMA HeightStepIsCallTreeStep ==
  ASSUME IInv, IInv', [Next]_vars
  PROVE  CT!Next \/ (callers' = callers /\ pcb_obj' = pcb_obj)
<1>1. /\ Height \in Int /\ -1 <= Height /\ Height < MAX_PROCESSES
      /\ pcb_obj = IF Height = -1 THEN NULL ELSE Height
      /\ callers = [p \in 0..Height |-> p - 1]
  BY CallersFollowFromHeight
<1>2. /\ Height' \in Int /\ -1 <= Height' /\ Height' < MAX_PROCESSES
      /\ pcb_obj' = IF Height' = -1 THEN NULL ELSE Height'
      /\ callers' = [p \in 0..Height' |-> p - 1]
  <2>1. IInv' => (/\ Height \in Int /\ -1 <= Height /\ Height < MAX_PROCESSES
                  /\ pcb_obj = IF Height = -1 THEN NULL ELSE Height
                  /\ callers = [p \in 0..Height |-> p - 1])'
    BY CallersFollowFromHeight, PTL
  <2> QED
    BY <2>1
<1>3. CASE pcb_obj' = pcb_obj
  <2>1. Height' = Height
    BY <1>3 DEF Height
  <2> QED
    BY <1>1, <1>2, <1>3, <2>1
<1>4. CASE pcb_obj' = Height + 1
  <2> DEFINE k == Height + 1
  <2>1. Height' = k /\ pcb_obj' = k /\ k \in PIDs
    BY <1>1, <1>2, <1>4, MaxProcessesAssumption DEF Height, NULL, PIDs
  <2>2. callers' = [p \in 0..k |-> p - 1]
    BY <1>2, <2>1
  <2>3. CASE Height = -1
    <3>1. 0..k = {k} /\ pcb_obj = NULL /\ k - 1 = NoPid
      BY <1>1, <2>3 DEF NoPid
    <3>2. callers' = [q \in {k} |-> NoPid]
      BY <2>2, <3>1
    <3> QED
      BY <2>1, <3>1, <3>2 DEF CT!Next, CT!Begin, callers
  <2>4. CASE Height # -1
    <3>1. pcb_obj = Height /\ pcb_obj # NULL
      BY <1>1, <2>4 DEF NULL
    <3>2. DOMAIN callers = 0..Height /\ 0..k = (0..Height) \cup {k} /\ k \notin 0..Height
      BY <1>1
    <3>3. callers' = [q \in (DOMAIN callers) \cup {k} |->
                        IF q = k THEN pcb_obj ELSE callers[q]]
      BY <1>1, <2>2, <3>1, <3>2
    <3> QED
      BY <2>1, <3>1, <3>2, <3>3 DEF CT!Next, CT!Call, CT!Live, callers
  <2> QED
    BY <2>3, <2>4
<1>5. CASE pcb_obj \in PIDs /\ pcb_obj' \in PIDs /\ pcb_obj' = pcb_obj - 1
  <2>1. /\ pcb_obj = Height /\ pcb_obj # NULL /\ Height >= 1
        /\ Height' = Height - 1 /\ pcb_obj' = Height - 1
    BY <1>1, <1>2, <1>5, MaxProcessesAssumption DEF NULL, PIDs
  <2>2. callers[pcb_obj] = Height - 1 /\ Height - 1 # NoPid
    BY <1>1, <2>1 DEF NoPid
  <2>3. 0..(Height - 1) = (0..Height) \ {Height} /\ DOMAIN callers = 0..Height
    BY <1>1, <2>1
  <2>4. callers' = [q \in (DOMAIN callers) \ {pcb_obj} |-> callers[q]]
    BY <1>1, <1>2, <2>1, <2>3
  <2> QED
    BY <2>1, <2>2, <2>4 DEF CT!Next, CT!Return, CT!Live, callers
<1> QED
  BY <1>3, <1>4, <1>5, HeightMovesByOne

\* execute, halt, exceptions and the shells of terminal switches keep the call
\* discipline: a caller waits until the program it started halts, whatever is
\* started, refused or restarted in between.
THEOREM ProcessImplementsCallTree == Spec => ImplementsCallTree
<1>1. Init => CT!Init
  <2> SUFFICES ASSUME Init PROVE callers = [p \in {} |-> NoPid] /\ pcb_obj = NULL
    BY DEF CT!Init, callers
  <2>1. pcb_obj = NULL /\ {q \in PIDs : Active(q)} = {}
    BY DEF Init, Active, FreePcb
  <2> QED
    BY <2>1 DEF callers
<1>2. IInv /\ IInv' /\ [Next]_vars => [CT!Next]_<<callers, pcb_obj>>
  BY HeightStepIsCallTreeStep
<1>3. [CT!Next]_<<callers, pcb_obj>>
        <=> [CT!Next]_<<[p \in {q \in PIDs : Active(q)} |-> pcb[p].parent_pid], pcb_obj>>
  BY DEF callers
<1> QED
  BY <1>1, <1>2, <1>3, InvariantHolds, PTL DEF Spec, ImplementsCallTree, CT!Spec

-----------------------------------------------------------------------------
(* The descriptors *)

\* ClosedDescriptorsDispatchToNull of a PCB, and of any PCB table.
ShutIsClosed(b) ==
  \A fd \in FDs : b.fda[fd].flags = 0 \/ b.active # 1 => b.fda[fd] = Closed

ClosedAreNull(table) == \A p \in PIDs : ShutIsClosed(table[p])

\* A program starts with its own descriptors, whatever was left in its PCB.
LEMMA StartFillsDescriptors ==
  ASSUME NEW table \in [PIDs -> PcbType],
         \A p \in PIDs : p = assign_PID(table) \/ ShutIsClosed(table[p]),
         NEW s, NEW below, NEW kind, NEW resume, NEW args,
         Start(table, s, below, kind, resume, args)
  PROVE  ClosedAreNull(pcb')
<1> DEFINE n == assign_PID(table)
           b == NewPcb(n, pid, args, [stack |-> s, height |-> Len(below) + 1])
<1>1. pcb' = [table EXCEPT ![n] = b]
  BY DEF Start
<1>2. b.fda = FreshFda /\ b.active = 1
  BY DEF NewPcb
<1>3. \A fd \in FDs : FreshFda[fd].flags = 0 => FreshFda[fd] = Closed
  BY DEF FreshFda, Opened
<1>4. ShutIsClosed(b)
  <2> HIDE DEF b
  <2> QED
    BY <1>2, <1>3 DEF ShutIsClosed
<1> HIDE DEF n, b
<1>5. \A p \in PIDs : ShutIsClosed(table[p]) \/ p = n
  BY DEF n
<1> QED
  BY <1>1, <1>4, <1>5 DEF ClosedAreNull

LEMMA StartKeepsClosedNull ==
  ASSUME NEW table \in [PIDs -> PcbType], ClosedAreNull(table),
         NEW s, NEW below, NEW kind, NEW resume, NEW args,
         Start(table, s, below, kind, resume, args)
  PROVE  ClosedAreNull(pcb')
<1>1. \A p \in PIDs : p = assign_PID(table) \/ ShutIsClosed(table[p])
  BY DEF ClosedAreNull
<1> QED
  BY <1>1, StartFillsDescriptors

\* A halt to the parent shuts every descriptor.
LEMMA HaltedIsShut ==
  ASSUME NEW b
  PROVE  ShutIsClosed(Halted(b))
<1>1. Halted(b).fda = [fd \in FDs |-> Closed]
  BY DEF Halted, FreedPcb
<1> QED
  BY <1>1 DEF ShutIsClosed

\* A descriptor changes its flags and its operations together.
LEMMA SettingKeepsClosedNull ==
  ASSUME IInv, ClosedAreNull(pcb), pcb_obj \in PIDs,
         NEW fd \in FDs, NEW d \in Descriptor, SetDescriptor(fd, d),
         d.flags = 0 => d = Closed, pcb[pcb_obj].active = 1
  PROVE  ClosedAreNull(pcb')
<1>1. pcb \in [PIDs -> PcbType] /\ pcb[pcb_obj] \in PcbType
  BY DEF IInv, TypeOK
<1> DEFINE b == [pcb[pcb_obj] EXCEPT !.fda = [@ EXCEPT ![fd] = d]]
<1>2. pcb' = [pcb EXCEPT ![pcb_obj] = b]
  BY DEF SetDescriptor
<1>3. /\ b.active = pcb[pcb_obj].active
      /\ b.fda = [pcb[pcb_obj].fda EXCEPT ![fd] = d]
  BY <1>1 DEF PcbType
<1>4. pcb[pcb_obj].fda \in [FDs -> Descriptor]
  BY <1>1 DEF PcbType
<1>5. \A g \in FDs : b.fda[g] = IF g = fd THEN d ELSE pcb[pcb_obj].fda[g]
  BY <1>3, <1>4
<1> HIDE DEF b
<1>6. ShutIsClosed(b)
  <2> SUFFICES ASSUME NEW g \in FDs, b.fda[g].flags = 0 PROVE b.fda[g] = Closed
    BY <1>3 DEF ShutIsClosed
  <2>1. CASE g = fd
    BY <1>5, <2>1
  <2>2. CASE g # fd
    <3>1. b.fda[g] = pcb[pcb_obj].fda[g]
      BY <1>5, <2>2
    <3> QED
      BY <3>1 DEF ClosedAreNull, ShutIsClosed
  <2> QED
    BY <2>1, <2>2
<1> QED
  BY <1>1, <1>2, <1>6 DEF ClosedAreNull

LEMMA HaltKeepsClosedNull ==
  ASSUME IInv, ClosedAreNull(pcb), cpu.mode \in {"user", "read"},
         NEW status, NEW cause, system_halt(status, cause)
  PROVE  ClosedAreNull(pcb')
<1>1. pcb_obj \in PIDs /\ pcb \in [PIDs -> PcbType]
  BY TrapTypes DEF IInv, TypeOK
<1>2. /\ HaltedBase(pcb[pcb_obj]).active = 0 /\ HaltedBase(pcb[pcb_obj]) \in PcbType
  <2>1. pcb[pcb_obj] \in PcbType
    BY <1>1
  <2> QED
    BY <2>1, PcbConstructors, Zenon DEF HaltedBase, FreedPcb
<1>3. CASE IsBaseShell
  <2> DEFINE table == [pcb EXCEPT ![pcb_obj] = HaltedBase(pcb[pcb_obj])]
  <2>1. PICK args \in ParsedArgs(FALSE) :
          Start(table, TrapStack, Below, "restart", Fault, args)
    BY <1>3 DEF system_halt, RestartShell
  <2>2. table \in [PIDs -> PcbType]
    BY <1>1, <1>2
  <2>3. assign_PID(table) = pcb_obj
    <3>1. pcb_obj = 0 /\ pcb_obj' \in {pcb_obj, pcb_obj - 1} /\ pcb_obj' \in PIDs
      BY <1>1, <1>3, BaseShellIsZero, HaltLowers
    <3>2. pcb_obj' = assign_PID(table)
      BY <2>1 DEF Start
    <3> QED
      BY <3>1, <3>2, MaxProcessesAssumption DEF PIDs
  <2>4. \A p \in PIDs : p = pcb_obj \/ table[p] = pcb[p]
    BY <1>1
  <2> HIDE DEF table
  <2> QED
    BY <2>1, <2>2, <2>3, <2>4, StartFillsDescriptors DEF ClosedAreNull
<1>4. CASE ~IsBaseShell
  <2>1. pcb' = [pcb EXCEPT ![pcb_obj] = Halted(pcb[pcb_obj])]
    BY <1>4 DEF system_halt, HaltToParent
  <2> QED
    BY <1>1, <2>1, HaltedIsShut DEF ClosedAreNull
<1> QED
  BY <1>3, <1>4

LEMMA RunningIsActive ==
  ASSUME IInv, pcb_obj \in PIDs
  PROVE  pcb[pcb_obj].active = 1
BY MaxProcessesAssumption DEF IInv, TableInv, NULL, PIDs

LEMMA NextKeepsClosedNull ==
  ASSUME IInv, ClosedAreNull(pcb), [Next]_vars
  PROVE  ClosedAreNull(pcb')
<1>1. pcb \in [PIDs -> PcbType]
  BY DEF IInv, TypeOK
<1>2. ASSUME NEW call \in BootCalls, Boot(call) PROVE ClosedAreNull(pcb')
  <2>1. CASE call
    BY <1>1, <1>2, <2>1, StartKeepsClosedNull DEF Boot
  <2>2. CASE ~call
    BY <1>2, <2>2 DEF Boot
  <2> QED
    BY <2>1, <2>2
<1>3. ASSUME NEW hasSpace \in BOOLEAN, Execute(hasSpace) PROVE ClosedAreNull(pcb')
  BY <1>1, <1>3, StartKeepsClosedNull DEF Execute
<1>4. ASSUME NEW status \in Statuses, Halt(status) PROVE ClosedAreNull(pcb')
  BY <1>4, HaltKeepsClosedNull DEF Halt
<1>5. CASE Exception
  BY <1>5, HaltKeepsClosedNull DEF Exception
<1>6. ASSUME NEW t \in Terminals, terminal_switch(t) PROVE ClosedAreNull(pcb')
  <2>1. \/ UNCHANGED pcb
        \/ \E args \in ParsedArgs(FALSE) :
             Start(pcb, TrapStack, Below, "irq", cpu, args)
    BY <1>6 DEF terminal_switch, procVars, Refused
  <2> QED
    BY <1>1, <2>1, StartKeepsClosedNull
<1>7. ASSUME NEW type \in FileTypes, system_open(type) PROVE ClosedAreNull(pcb')
  <2> DEFINE free == {fd \in FDs : fd >= 2 /\ pcb[pcb_obj].fda[fd].flags = 0}
             fd0 == CHOOSE fd \in free : \A g \in free : fd <= g
  <2>1. /\ pcb_obj \in PIDs /\ pcb[pcb_obj].active = 1
        /\ IF free = {} THEN UNCHANGED pcb ELSE SetDescriptor(fd0, Opened(type))
    BY <1>7, RunningIsActive, ReturnToUserTypes DEF system_open
  <2>2. CASE free = {}
    BY <2>1, <2>2
  <2>3. CASE free # {}
    <3>1. \E fd \in free : \A g \in free : fd <= g
      <4>1. free \subseteq Nat
        BY DEF FDs
      <4>2. PICK n \in free : TRUE
        BY <2>3
      <4> QED
        BY <4>1, <4>2, LeastOfNaturals
    <3>2. fd0 \in FDs
      BY <3>1
    <3>3. Opened(type) \in Descriptor /\ Opened(type).flags = 1
      BY DEF Opened, Descriptor
    <3> HIDE DEF fd0
    <3> QED
      BY <2>1, <2>3, <3>2, <3>3, SettingKeepsClosedNull
  <2> QED
    BY <2>2, <2>3
<1>8. ASSUME NEW fd \in FDs, system_close(fd) PROVE ClosedAreNull(pcb')
  <2>1. pcb_obj \in PIDs /\ pcb[pcb_obj].active = 1 /\ SetDescriptor(fd, Closed)
    BY <1>8, RunningIsActive, ReturnToUserTypes DEF system_close
  <2>2. Closed \in Descriptor
    BY DEF Closed, Descriptor
  <2> QED
    BY <2>1, <2>2, SettingKeepsClosedNull
<1>9. ExecuteInvalid \/ ExecuteRefused \/ Launch \/ HaltReturn \/ ReadEnd
        \/ (\E fd \in FDs : ReadBegin(fd)) \/ UNCHANGED vars => UNCHANGED pcb
  BY DEF ExecuteInvalid, ExecuteRefused, Refused, Launch, HaltReturn, ReadEnd,
         ReadBegin, procVars, vars
<1> QED
  BY <1>2, <1>3, <1>4, <1>5, <1>6, <1>7, <1>8, <1>9 DEF Next

\* write dispatches through the operations of a descriptor without a look at its
\* flags: one that is not open has the null operations, in the PCB of a live
\* process (never opened, or closed) and in a free one (halted to its parent by
\* itself or by an exception).  The base shell's halt resets the flags only; the
\* restart that ends it fills its descriptors anew.
THEOREM ClosedDescriptorsStayNull == Spec => []ClosedDescriptorsDispatchToNull
<1>1. Init => ClosedDescriptorsDispatchToNull
  BY DEF Init, FreePcb, ClosedDescriptorsDispatchToNull
<1>2. IInv /\ ClosedDescriptorsDispatchToNull /\ [Next]_vars
        => ClosedDescriptorsDispatchToNull'
  BY NextKeepsClosedNull DEF ClosedDescriptorsDispatchToNull, ClosedAreNull, ShutIsClosed, Active
<1> QED
  BY <1>1, <1>2, InvariantHolds, PTL DEF Spec

-----------------------------------------------------------------------------
(***************************************************************************)
(* The frames halt returns through survive when no key comes between its    *)
(* sti and its switch of stacks.                                            *)
(*                                                                         *)
(* The frame that waits for process p lies on a kernel stack below p, and   *)
(* above the frames that wait for earlier processes on the same stack.  The *)
(* running process overwrites its own stack only, and an interrupt pushes   *)
(* above what is there; a halt returns through the topmost frame of all.    *)
(* What a frame resumes is a state of the caller in which this holds again. *)
(***************************************************************************)

\* Where the CPU's stack is while process n runs, or -1 for none.
StackFits(c, n) ==
  /\ c.mode = "read" => c.stack = n
  /\ c.mode = "launch" => c.stack = 0 \/ c.stack < n
  /\ c.mode \in {"boot", "idle"} => c.stack = 0

\* What the frame that waits for process p goes on with.
Resumable(c, n) == c.mode # "halting" /\ StackFits(c, n)

\* The frames that wait for processes 1..top, at the places R on stacks K.
Waits(K, r, p) ==
  /\ r.stack \in 0..(p - 1)
  /\ r.height \in 1..Len(K[r.stack])
  /\ K[r.stack][r.height].child = p
  /\ Resumable(K[r.stack][r.height].resume, p - 1)

Frames(K, R, top) ==
  /\ \A p \in 1..top : Waits(K, R[p], p)
  /\ \A p, q \in 1..top :
       p < q /\ R[p].stack = R[q].stack => R[p].height < R[q].height

\* A process that halts still needs its frame after its PCB is freed.
Top == IF cpu.mode = "halting" THEN Height + 1 ELSE Height
refs == [p \in 1..Top |-> IF p <= Height THEN pcb[p].saved ELSE cpu.ret.to]

FramesInv ==
  /\ Frames(kstack, refs, Top)
  /\ cpu.mode = "halting" => Height >= 0 /\ cpu.ret.child = Height + 1
  /\ StackFits(cpu, Height)

-----------------------------------------------------------------------------
(* Facts about the stacks *)

\* The stack of the running process, or a higher one, holds no such frame.
LEMMA OwnStackIsFree ==
  ASSUME NEW top \in Int, NEW K \in [PIDs -> Seq(FrameType)], NEW R,
         Frames(K, R, top), NEW s \in PIDs, s >= top, NEW x
  PROVE  Frames([K EXCEPT ![s] = x], R, top)
<1> DEFINE L == [K EXCEPT ![s] = x]
<1>1. ASSUME NEW p \in 1..top PROVE Waits(L, R[p], p)
  <2>1. Waits(K, R[p], p)
    BY DEF Frames
  <2>2. R[p].stack \in PIDs /\ R[p].stack # s
    BY <2>1, MaxProcessesAssumption DEF Waits, PIDs
  <2>3. L[R[p].stack] = K[R[p].stack]
    BY <2>2
  <2> HIDE DEF L
  <2> QED
    BY <2>1, <2>3 DEF Waits
<1> QED
  BY <1>1 DEF Frames

\* A frame below process p lies on a kernel stack that exists.
LEMMA LowerStack ==
  ASSUME NEW n \in Int, n <= MAX_PROCESSES, NEW p \in 1..n, NEW t \in 0..(p - 1)
  PROVE  t \in PIDs /\ t # n
BY MaxProcessesAssumption DEF PIDs

LEMMA PrefixBelow ==
  ASSUME NEW q \in Seq(FrameType), NEW h \in 1..Len(q)
  PROVE  /\ Len(SubSeq(q, 1, h - 1)) = h - 1
         /\ \A k \in 1..(h - 1) : SubSeq(q, 1, h - 1)[k] = q[k]
<1>1. Len(q) \in Nat
  BY LenProperties
<1> QED
  BY <1>1

\* Execute pushes the frame of the next process: on the stack of the running
\* one, or on top of what another stack holds.
LEMMA PushAddsFrame ==
  ASSUME NEW n \in Int, n >= 0, n + 1 \in PIDs,
         NEW K \in [PIDs -> Seq(FrameType)],
         NEW R, NEW R2, Frames(K, R, n),
         NEW s \in PIDs, s <= n, NEW below \in Seq(FrameType),
         s = n \/ below = K[s],
         NEW f \in FrameType, f.child = n + 1, Resumable(f.resume, n),
         \A p \in 1..n : R2[p] = R[p],
         R2[n + 1] = [stack |-> s, height |-> Len(below) + 1]
  PROVE  Frames([K EXCEPT ![s] = Append(below, f)], R2, n + 1)
<1> DEFINE L == [K EXCEPT ![s] = Append(below, f)]
           h == Len(below) + 1
<1>1. /\ h \in Nat /\ L[s] = Append(below, f)
      /\ Len(L[s]) = h /\ L[s][h] = f
      /\ \A k \in 1..Len(below) : L[s][k] = below[k]
  BY LenProperties, AppendProperties
<1>2. ASSUME NEW p \in 1..n
      PROVE  /\ Waits(L, R[p], p)
             /\ R[p].stack = s => R[p].height < h
  <2>1. Waits(K, R[p], p)
    BY DEF Frames
  <2>2. R[p].stack \in PIDs /\ R[p].stack # n
    <3>1. R[p].stack \in 0..(p - 1)
      BY <2>1 DEF Waits
    <3>2. n <= MAX_PROCESSES
      BY MaxProcessesAssumption DEF PIDs
    <3> QED
      BY <3>1, <3>2, LowerStack
  <2>3. CASE R[p].stack # s
    <3>1. L[R[p].stack] = K[R[p].stack]
      BY <2>2, <2>3
    <3> HIDE DEF L
    <3> QED
      BY <2>1, <2>3, <3>1 DEF Waits
  <2>4. CASE R[p].stack = s
    <3>1. below = K[s]
      BY <2>2, <2>4
    <3>2. R[p].height \in 1..Len(below)
      BY <2>1, <2>4, <3>1 DEF Waits
    <3>3. R[p].height \in 1..h /\ R[p].height < h
      BY <3>2, LenProperties
    <3>4. L[s][R[p].height] = K[s][R[p].height]
      BY <1>1, <3>1, <3>2
    <3> HIDE DEF L, h
    <3> QED
      BY <1>1, <2>1, <2>4, <3>3, <3>4 DEF Waits
  <2> QED
    BY <2>3, <2>4
<1>3. Waits(L, R2[n + 1], n + 1)
  <2>1. s \in 0..((n + 1) - 1) /\ h \in 1..h /\ (n + 1) - 1 = n
    <3>1. Len(below) \in Nat
      BY LenProperties
    <3> QED
      BY <3>1, MaxProcessesAssumption DEF PIDs
  <2> HIDE DEF L, h
  <2>2. R2[n + 1].stack = s /\ R2[n + 1].height = h
    BY DEF h
  <2> QED
    BY <1>1, <2>1, <2>2 DEF Waits
<1> HIDE DEF L, h
<1>4. \A p \in 1..(n + 1) : p \in 1..n \/ p = n + 1
  OBVIOUS
<1>5. \A p \in 1..(n + 1) : Waits(L, R2[p], p)
  BY <1>2, <1>3, <1>4
<1>6. ASSUME NEW p \in 1..(n + 1), NEW q \in 1..(n + 1), p < q,
             R2[p].stack = R2[q].stack
      PROVE  R2[p].height < R2[q].height
  <2>1. p \in 1..n /\ R2[p] = R[p]
    BY <1>6
  <2>2. CASE q \in 1..n
    BY <1>6, <2>1, <2>2 DEF Frames
  <2>3. CASE q = n + 1
    <3>1. R2[q].stack = s /\ R2[q].height = h
      BY <2>3 DEF h
    <3>2. R[p].stack = s => R[p].height < h
      BY <1>2, <2>1
    <3> QED
      BY <1>6, <2>1, <3>1, <3>2
  <2> QED
    BY <1>4, <2>2, <2>3
<1> QED
  BY <1>5, <1>6 DEF Frames, L, h

\* Returning through the topmost frame leaves the others.
LEMMA PopKeepsFrames ==
  ASSUME NEW n \in Int, n >= 0, n + 1 \in PIDs \cup {MAX_PROCESSES},
         NEW K \in [PIDs -> Seq(FrameType)], NEW R, Frames(K, R, n + 1)
  PROVE  Frames([K EXCEPT ![R[n + 1].stack] = SubSeq(@, 1, R[n + 1].height - 1)],
                R, n)
<1> DEFINE s == R[n + 1].stack
           h == R[n + 1].height
           L == [K EXCEPT ![s] = SubSeq(K[s], 1, h - 1)]
<1>1. Waits(K, R[n + 1], n + 1)
  BY DEF Frames
<1>2. s \in PIDs /\ h \in 1..Len(K[s])
  <2>1. s \in 0..((n + 1) - 1) /\ h \in 1..Len(K[s])
    BY <1>1, Zenon DEF Waits
  <2> QED
    BY <2>1, MaxProcessesAssumption DEF PIDs
<1>3. K[s] \in Seq(FrameType) /\ Len(K[s]) \in Nat
  BY <1>2, LenProperties
<1>4. /\ Len(L[s]) = h - 1
      /\ \A k \in 1..(h - 1) : L[s][k] = K[s][k]
  <2>1. L[s] = SubSeq(K[s], 1, h - 1)
    BY <1>2
  <2> HIDE DEF L, s, h
  <2> QED
    BY <1>2, <1>3, <2>1, PrefixBelow
<1>5. ASSUME NEW p \in 1..n PROVE Waits(L, R[p], p)
  <2>1. Waits(K, R[p], p)
    BY DEF Frames
  <2>2. R[p].stack \in PIDs
    BY <2>1, MaxProcessesAssumption DEF Waits, PIDs
  <2>3. CASE R[p].stack # s
    <3>1. L[R[p].stack] = K[R[p].stack]
      BY <2>2, <2>3
    <3> HIDE DEF L
    <3> QED
      BY <2>1, <2>3, <3>1 DEF Waits
  <2>4. CASE R[p].stack = s
    <3>1. R[p].height < h
      <4>1. p \in 1..(n + 1) /\ n + 1 \in 1..(n + 1) /\ p < n + 1
        OBVIOUS
      <4> QED
        BY <2>4, <4>1 DEF Frames
    <3>2. R[p].height \in 1..(h - 1)
      BY <1>2, <1>3, <2>1, <2>4, <3>1 DEF Waits
    <3>3. L[s][R[p].height] = K[s][R[p].height]
      BY <1>4, <3>2
    <3> HIDE DEF L, s, h
    <3> QED
      BY <1>4, <2>1, <2>4, <3>2, <3>3 DEF Waits
  <2> QED
    BY <2>3, <2>4
<1>6. \A p, q \in 1..n : p < q /\ R[p].stack = R[q].stack => R[p].height < R[q].height
  BY DEF Frames
<1> QED
  BY <1>5, <1>6 DEF Frames

LEMMA FramesAgree ==
  ASSUME NEW top \in Int, NEW K, NEW R, NEW R2, Frames(K, R, top),
         \A p \in 1..top : R2[p] = R[p]
  PROVE  Frames(K, R2, top)
BY DEF Frames

-----------------------------------------------------------------------------
(* What the operations do *)

LEMMA StateFacts ==
  ASSUME IInv
  PROVE  /\ kstack \in [PIDs -> Seq(FrameType)]
         /\ pcb \in [PIDs -> PcbType]
         /\ Height \in Int /\ -1 <= Height /\ Height < MAX_PROCESSES
         /\ pcb_obj = IF Height = -1 THEN NULL ELSE Height
         /\ Top \in Int
BY CallersFollowFromHeight DEF IInv, TypeOK, Top

\* A step that starts and ends no process.
LEMMA QuietKeepsFrames ==
  ASSUME IInv, FramesInv, cpu.mode # "halting", cpu'.mode # "halting",
         UNCHANGED pcb_obj, \A p \in PIDs : pcb'[p].saved = pcb[p].saved,
         Frames(kstack', refs, Top), StackFits(cpu', Height)
  PROVE  FramesInv'
<1>1. Height' = Height /\ Top = Height /\ Top' = Height
  BY DEF Height, Top
<1>2. \A p \in 1..Height : p \in PIDs
  BY StateFacts, MaxProcessesAssumption DEF PIDs
<1>3. \A p \in 1..Height : refs'[p] = refs[p]
  BY <1>1, <1>2, StateFacts DEF refs
<1>4. Frames(kstack', refs', Height)
  BY <1>1, <1>3, StateFacts, FramesAgree
<1> QED
  BY <1>1, <1>4 DEF FramesInv

\* The running process may do with its own stack what it likes.
LEMMA OwnStackStep ==
  ASSUME IInv, FramesInv, cpu.mode # "halting", pcb_obj \in PIDs, NEW x
  PROVE  Frames([kstack EXCEPT ![pcb_obj] = x], refs, Top)
<1>1. pcb_obj = Height /\ Top = Height
  BY StateFacts, MaxProcessesAssumption DEF Top, NULL, PIDs
<1>2. Frames(kstack, refs, Top) /\ Top \in Int /\ kstack \in [PIDs -> Seq(FrameType)]
  BY StateFacts DEF FramesInv
<1>3. pcb_obj >= Top
  BY <1>1, <1>2
<1> QED
  BY <1>2, <1>3, OwnStackIsFree, Zenon

LEMMA StartKeepsFrames ==
  ASSUME IInv, IInv', FramesInv, cpu.mode # "halting",
         NEW s \in PIDs, NEW below \in Seq(FrameType),
         NEW kind \in {"boot", "syscall", "irq", "restart"},
         NEW resume \in CpuState, NEW args \in {"none", "given", "garbage"},
         Start(pcb, s, below, kind, resume, args),
         s = 0 \/ s <= Height,
         s = Height \/ below = kstack[s],
         Height >= 0 => Resumable(resume, Height)
  PROVE  FramesInv'
<1> DEFINE n == Height
<1>1. /\ n \in Int /\ -1 <= n /\ n < MAX_PROCESSES /\ Top = n
      /\ kstack \in [PIDs -> Seq(FrameType)] /\ pcb \in [PIDs -> PcbType]
      /\ Frames(kstack, refs, n)
  BY StateFacts DEF Top, FramesInv
<1>2. /\ pcb_obj' = n + 1
      /\ n + 1 = assign_PID(pcb)
      /\ cpu' = Running("launch", s)
      /\ kstack' = [kstack EXCEPT ![s] = Append(below, Frame(kind, resume, n + 1))]
      /\ pcb' = [pcb EXCEPT ![n + 1] =
                   NewPcb(n + 1, pid, args, [stack |-> s, height |-> Len(below) + 1])]
  <2>1. pcb_obj' = n + 1
    BY StartFromTable
  <2>2. n + 1 = assign_PID(pcb)
    BY <2>1, Zenon DEF Start
  <2> QED
    BY <2>1, <2>2, Zenon DEF Start
<1>3. n + 1 \in PIDs /\ Height' = n + 1
  <2>1. pcb_obj' \in PIDs \/ pcb_obj' = NULL
    BY Zenon DEF IInv, TableInv
  <2>2. n + 1 # NULL
    BY <1>1 DEF NULL
  <2> QED
    BY <1>2, <2>1, <2>2 DEF Height
<1>4. cpu'.mode = "launch" /\ cpu'.stack = s /\ Top' = n + 1
  BY <1>2, <1>3 DEF Running, Top
<1>5. StackFits(cpu', n + 1)
  BY <1>1, <1>4, MaxProcessesAssumption DEF StackFits, PIDs
<1>6. Frames(kstack', refs', n + 1)
  <2>1. CASE n = -1
    BY <2>1 DEF Frames
  <2>2. CASE n # -1
    <3>1. /\ n >= 0 /\ s <= n
          /\ Resumable(resume, n)
      BY <1>1, <2>2, MaxProcessesAssumption DEF PIDs
    <3>2. /\ Frame(kind, resume, n + 1) \in FrameType
          /\ Frame(kind, resume, n + 1).child = n + 1
          /\ Frame(kind, resume, n + 1).resume = resume
      BY <1>3 DEF Frame, FrameType
    <3>3. \A p \in 1..n : p \in PIDs /\ p # n + 1 /\ p \in 1..(n + 1)
      BY <1>1, MaxProcessesAssumption DEF PIDs
    <3>4. \A p \in 1..n : refs'[p] = refs[p]
      <4>1. \A p \in 1..n : refs[p] = pcb[p].saved /\ refs'[p] = pcb'[p].saved
        BY <1>1, <1>3, <1>4, <3>3 DEF refs
      <4>2. \A p \in 1..n : pcb'[p] = pcb[p]
        BY <1>1, <1>2, <1>3, <3>3
      <4> QED
        BY <4>1, <4>2
    <3>5. refs'[n + 1] = [stack |-> s, height |-> Len(below) + 1]
      <4>1. n + 1 \in 1..(n + 1)
        BY <1>1, <3>1
      <4>2. refs'[n + 1] = pcb'[n + 1].saved
        BY <1>3, <1>4, <4>1 DEF refs
      <4>3. pcb'[n + 1] = NewPcb(n + 1, pid, args, [stack |-> s, height |-> Len(below) + 1])
        BY <1>1, <1>2, <1>3
      <4> QED
        BY <4>2, <4>3 DEF NewPcb
    <3> HIDE DEF n
    <3> QED
      <4>1. n \in Int /\ n >= 0 /\ n + 1 \in PIDs /\ Frames(kstack, refs, n)
            /\ kstack \in [PIDs -> Seq(FrameType)]
        BY <1>1, <1>3, <3>1
      <4>2. (s = n \/ below = kstack[s]) /\ s <= n
        BY <3>1 DEF n
      <4>3. Resumable(Frame(kind, resume, n + 1).resume, n)
        BY <3>1, <3>2
      <4> DEFINE F == Frame(kind, resume, n + 1)
                 R2 == refs'
      <4>4. F \in FrameType /\ F.child = n + 1 /\ Resumable(F.resume, n)
            /\ (\A p \in 1..n : R2[p] = refs[p])
            /\ R2[n + 1] = [stack |-> s, height |-> Len(below) + 1]
        BY <3>2, <3>4, <3>5, <4>3
      <4> HIDE DEF F, R2
      <4>5. Frames([kstack EXCEPT ![s] = Append(below, F)], R2, n + 1)
        BY <4>1, <4>2, <4>4, PushAddsFrame
      <4> QED
        BY <1>2, <4>5 DEF F, R2
  <2> QED
    BY <2>1, <2>2
<1> QED
  BY <1>3, <1>4, <1>5, <1>6 DEF FramesInv

LEMMA HaltKeepsFrames ==
  ASSUME IInv, IInv', FramesInv, cpu.mode \in {"user", "read"}, NEW status, NEW cause,
         system_halt(status, cause)
  PROVE  FramesInv'
<1>1. /\ pcb_obj \in PIDs /\ pcb_obj = Height /\ Top = Height
      /\ kstack \in [PIDs -> Seq(FrameType)] /\ pcb \in [PIDs -> PcbType]
  BY TrapTypes, StateFacts, MaxProcessesAssumption DEF Top, NULL, PIDs
<1>2. TrapStack = pcb_obj
  BY <1>1, TrapTypes DEF TrapStack, FramesInv, StackFits
<1>3. CASE IsBaseShell
  <2>1. pcb_obj = 0
    BY <1>1, <1>3, BaseShellIsZero
  <2>2. PICK args \in ParsedArgs(FALSE) :
          Start([pcb EXCEPT ![pcb_obj] = HaltedBase(@)], TrapStack, Below,
                "restart", Fault, args)
    BY <1>3 DEF system_halt, RestartShell
  <2>3. cpu' = Running("launch", 0)
    BY <1>2, <2>1, <2>2 DEF Start
  <2>4. Height' = 0 /\ Top' = 0
    <3>1. pcb_obj' = 0
      BY <2>1, HaltLowers, MaxProcessesAssumption DEF PIDs
    <3> QED
      BY <2>3, <3>1 DEF Height, Top, Running, NULL
  <2>5. Frames(kstack', refs', 0)
    BY DEF Frames
  <2>6. StackFits(cpu', 0) /\ cpu'.mode # "halting"
    BY <2>3 DEF StackFits, Running
  <2> QED
    BY <2>4, <2>5, <2>6 DEF FramesInv
<1>4. CASE ~IsBaseShell
  <2> DEFINE n == pcb_obj
  <2>1. /\ pcb[n].parent_pid = n - 1 /\ n - 1 \in PIDs /\ n > 0
    BY <1>1, <1>4, BaseShellIsZero
  <2>2. /\ pcb_obj' = n - 1
        /\ pcb' = [pcb EXCEPT ![n] = Halted(pcb[n])]
        /\ kstack' = [kstack EXCEPT ![n] = <<>>]
        /\ cpu'.mode = "halting"
        /\ cpu'.ret.to = pcb[n].saved
        /\ cpu'.ret.child = n
    BY <1>2, <1>4, <2>1 DEF system_halt, HaltToParent
  <2>3. Height' = n - 1 /\ Top' = n
    BY <1>1, <2>1, <2>2, MaxProcessesAssumption DEF Height, Top, NULL, PIDs
  <2>4. Frames(kstack', refs, n)
    BY <1>1, <2>2, OwnStackStep
  <2>5. \A p \in 1..n : refs'[p] = refs[p]
    <3> SUFFICES ASSUME NEW p \in 1..n PROVE refs'[p] = refs[p]
      OBVIOUS
    <3>1. refs[p] = pcb[p].saved
      BY <1>1 DEF refs
    <3>2. refs'[p] = IF p <= n - 1 THEN pcb'[p].saved ELSE pcb[n].saved
      BY <2>2, <2>3 DEF refs
    <3>3. p <= n - 1 => pcb'[p] = pcb[p]
      BY <1>1, <2>2, MaxProcessesAssumption DEF PIDs
    <3>4. ~(p <= n - 1) => p = n
      BY <1>1, MaxProcessesAssumption DEF PIDs
    <3> QED
      BY <3>1, <3>2, <3>3, <3>4
  <2>6. Frames(kstack', refs', n)
    BY <1>1, <2>4, <2>5, FramesAgree, MaxProcessesAssumption DEF PIDs
  <2>7. StackFits(cpu', n - 1)
    BY <2>2 DEF StackFits
  <2>8. n - 1 >= 0 /\ cpu'.ret.child = (n - 1) + 1
    BY <1>1, <2>1, <2>2, MaxProcessesAssumption DEF PIDs
  <2> QED
    BY <2>3, <2>6, <2>7, <2>8 DEF FramesInv
<1> QED
  BY <1>3, <1>4

\* The switch of stacks goes through the topmost of the frames.
LEMMA HaltReturnKeepsFrames ==
  ASSUME IInv, IInv', FramesInv, HaltReturn
  PROVE  FramesInv'
<1> DEFINE n == Height
           r == cpu.ret
           f == kstack[r.to.stack][r.to.height]
<1>1. /\ n \in Int /\ n >= 0 /\ n < MAX_PROCESSES /\ Top = n + 1
      /\ r.child = n + 1
      /\ kstack \in [PIDs -> Seq(FrameType)]
      /\ Frames(kstack, refs, n + 1)
  BY StateFacts DEF HaltReturn, Top, FramesInv
<1>2. n + 1 \in 1..(n + 1)
  BY <1>1
<1>3. refs[n + 1] = r.to
  BY <1>1, <1>2 DEF refs
<1>4. Waits(kstack, r.to, n + 1)
  BY <1>1, <1>2, <1>3 DEF Frames
<1>5. FrameIntact(r)
  BY <1>1, <1>4 DEF Waits, FrameIntact
<1>6. /\ cpu' = f.resume
      /\ kstack' = [kstack EXCEPT ![r.to.stack] = SubSeq(@, 1, r.to.height - 1)]
      /\ UNCHANGED <<pcb_obj, pcb>>
  BY <1>5 DEF HaltReturn, procVars
<1>7. Resumable(f.resume, n)
  <2>1. Resumable(f.resume, (n + 1) - 1)
    BY <1>4, Zenon DEF Waits
  <2>2. (n + 1) - 1 = n
    BY <1>1
  <2> QED
    BY <2>1, <2>2
<1>8. Height' = n /\ Top' = n
  <2>1. cpu'.mode # "halting"
    BY <1>6, <1>7 DEF Resumable
  <2> QED
    BY <1>6, <2>1 DEF Height, Top
<1>9. Frames(kstack', refs, n)
  <2>1. n + 1 \in PIDs \cup {MAX_PROCESSES}
    BY <1>1, MaxProcessesAssumption DEF PIDs
  <2> HIDE DEF n
  <2>2. Frames([kstack EXCEPT ![refs[n + 1].stack] =
                  SubSeq(@, 1, refs[n + 1].height - 1)], refs, n)
    BY <1>1, <2>1, PopKeepsFrames
  <2> QED
    BY <1>3, <1>6, <2>2
<1>10. \A p \in 1..n : refs'[p] = refs[p]
  <2>1. \A p \in 1..n : p \in 1..(n + 1) /\ p <= n
    BY <1>1
  <2> QED
    BY <1>1, <1>6, <1>8, <2>1 DEF refs
<1>11. Frames(kstack', refs', n)
  BY <1>1, <1>9, <1>10, FramesAgree
<1>12. StackFits(cpu', n) /\ cpu'.mode # "halting"
  BY <1>6, <1>7 DEF Resumable
<1> QED
  BY <1>8, <1>11, <1>12 DEF FramesInv

\* A call that returns at once uses the stack of the running process and leaves
\* it empty.
LEMMA ReturnToUserKeepsFrames ==
  ASSUME IInv, FramesInv, ReturnToUser, UNCHANGED pcb_obj,
         \A p \in PIDs : pcb'[p].saved = pcb[p].saved
  PROVE  FramesInv'
<1>1. pcb_obj \in PIDs /\ EntryStack = pcb_obj
  BY TrapTypes DEF ReturnToUser
<1>2. /\ kstack' = [kstack EXCEPT ![pcb_obj] = <<>>]
      /\ cpu.mode = "user" /\ cpu' = User
  BY <1>1 DEF ReturnToUser
<1>3. Frames(kstack', refs, Top)
  BY <1>1, <1>2, OwnStackStep
<1>4. StackFits(cpu', Height) /\ cpu'.mode # "halting"
  BY <1>2 DEF User, Running, StackFits
<1> QED
  BY <1>2, <1>3, <1>4, QuietKeepsFrames

LEMMA SetDescriptorKeepsSaved ==
  ASSUME IInv, pcb_obj \in PIDs, NEW fd, NEW d, SetDescriptor(fd, d)
  PROVE  \A p \in PIDs : pcb'[p].saved = pcb[p].saved
<1>1. pcb \in [PIDs -> PcbType] /\ pcb[pcb_obj] \in PcbType
  BY DEF IInv, TypeOK
<1> DEFINE b == [pcb[pcb_obj] EXCEPT !.fda = [@ EXCEPT ![fd] = d]]
<1>2. pcb' = [pcb EXCEPT ![pcb_obj] = b]
  BY DEF SetDescriptor
<1>3. b.saved = pcb[pcb_obj].saved
  BY <1>1 DEF PcbType
<1> HIDE DEF b
<1> QED
  BY <1>1, <1>2, <1>3

\* An interrupt between halt's sti and its switch of stacks is excluded.
LEMMA SwitchKeepsFrames ==
  ASSUME IInv, IInv', FramesInv, ~KeysDuringHalt,
         NEW t \in Terminals, terminal_switch(t)
  PROVE  FramesInv'
<1>1. cpu.mode \in {"idle", "user", "read", "launch"}
  BY DEF terminal_switch, Interruptible
<1>2. /\ cpu \in CpuState /\ TrapStack \in PIDs /\ Below \in Seq(FrameType)
      /\ cpu.mode = "user" => EntryStack = pcb_obj /\ pcb_obj \in PIDs
      /\ cpu.mode # "idle" => pcb_obj \in PIDs
      /\ StackFits(cpu, Height)
  BY <1>1, TrapTypes DEF FramesInv
<1>3. /\ pcb_obj \in PIDs => pcb_obj = Height
      /\ Height \in Int
      /\ kstack \in [PIDs -> Seq(FrameType)]
  BY StateFacts, MaxProcessesAssumption DEF NULL, PIDs
<1>4. /\ TrapStack = 0 \/ TrapStack <= Height
      /\ TrapStack = Height \/ Below = kstack[TrapStack]
  <2>1. CASE cpu.mode = "user"
    BY <1>2, <1>3, <2>1, MaxProcessesAssumption DEF TrapStack, PIDs
  <2>2. CASE cpu.mode # "user"
    <3>1. TrapStack = cpu.stack /\ Below = kstack[TrapStack]
      BY <2>2 DEF TrapStack, Below
    <3>2. cpu.stack = 0 \/ cpu.stack <= Height
      BY <1>1, <1>2, <1>3, <2>2, <3>1, MaxProcessesAssumption DEF StackFits, PIDs
    <3> QED
      BY <3>1, <3>2
  <2> QED
    BY <2>1, <2>2
<1>5. ASSUME HandlerReturns, UNCHANGED <<pcb_obj, pcb>> PROVE FramesInv'
  <2>1. UNCHANGED cpu /\ kstack' = [kstack EXCEPT ![TrapStack] = Below]
    BY <1>5 DEF HandlerReturns
  <2>2. CASE cpu.mode = "user"
    <3>1. TrapStack = pcb_obj /\ pcb_obj \in PIDs
      BY <1>2, <2>2 DEF TrapStack
    <3>2. Frames(kstack', refs, Top)
      BY <2>1, <2>2, <3>1, OwnStackStep
    <3> QED
      BY <1>1, <1>2, <1>5, <2>1, <3>2, QuietKeepsFrames
  <2>3. CASE cpu.mode # "user"
    <3>1. kstack' = kstack
      BY <1>2, <1>3, <2>1, <2>3 DEF Below
    <3>2. Frames(kstack', refs, Top)
      BY <3>1 DEF FramesInv
    <3> QED
      BY <1>1, <1>2, <1>5, <2>1, <3>2, QuietKeepsFrames
  <2> QED
    BY <2>2, <2>3
<1>6. CASE cpu' = Fault /\ UNCHANGED <<procVars, kstack, termVars>>
  <2>1. /\ Frames(kstack', refs, Top)
        /\ UNCHANGED pcb_obj /\ \A p \in PIDs : pcb'[p].saved = pcb[p].saved
        /\ StackFits(cpu', Height) /\ cpu'.mode # "halting"
    BY <1>6 DEF FramesInv, procVars, Fault, Running, StackFits
  <2> QED
    BY <1>1, <2>1, QuietKeepsFrames
<1>7. CASE HandlerReturns /\ UNCHANGED <<procVars, terminal_active>>
  BY <1>5, <1>7 DEF procVars
<1>8. CASE Refused /\ HandlerReturns
  BY <1>5, <1>8 DEF Refused
<1>9. ASSUME NEW args \in ParsedArgs(FALSE),
             Start(pcb, TrapStack, Below, "irq", cpu, args)
      PROVE  FramesInv'
  <2>1. args \in {"none", "given", "garbage"}
    BY DEF ParsedArgs
  <2>2. Resumable(cpu, Height)
    BY <1>1, <1>2 DEF Resumable
  <2> QED
    BY <1>1, <1>2, <1>4, <1>9, <2>1, <2>2, StartKeepsFrames
<1> QED
  BY <1>6, <1>7, <1>8, <1>9 DEF terminal_switch

-----------------------------------------------------------------------------
(* The invariant *)

LEMMA NextKeepsFrames ==
  ASSUME IInv, IInv', FramesInv, ~KeysDuringHalt, [Next]_vars
  PROVE  FramesInv'
<1>1. ASSUME NEW call \in BootCalls, Boot(call) PROVE FramesInv'
  <2>1. pcb_obj = NULL /\ Height = -1 /\ cpu.mode = "boot" /\ 0 \in PIDs
    BY <1>1, MaxProcessesAssumption DEF Boot, IInv, TableInv, Height, PIDs
  <2>2. CASE call
    <3>1. PICK args \in ParsedArgs(FALSE) :
            Start(pcb, 0, <<>>, "boot", Running("idle", 0), args)
      BY <1>1, <2>2 DEF Boot
    <3>2. pcb_obj' = 0 /\ cpu' = Running("launch", 0)
      <4>1. pcb_obj' = Height + 1
        BY <3>1, StartFromTable
      <4>2. cpu' = Running("launch", 0)
        BY <3>1 DEF Start
      <4> QED
        BY <2>1, <4>1, <4>2
    <3>3. Height' = 0 /\ Top' = 0 /\ cpu'.mode = "launch" /\ cpu'.stack = 0
      BY <3>2 DEF Height, Top, Running, NULL
    <3>4. Frames(kstack', refs', 0)
      BY DEF Frames
    <3> QED
      BY <3>3, <3>4 DEF FramesInv, StackFits
  <2>3. CASE ~call
    <3>1. cpu' = Running("idle", 0) /\ UNCHANGED <<pcb_obj, pcb, kstack>>
      BY <1>1, <2>3 DEF Boot
    <3>2. /\ cpu'.mode # "halting" /\ StackFits(cpu', Height)
          /\ Frames(kstack', refs, Top)
          /\ \A p \in PIDs : pcb'[p].saved = pcb[p].saved
      BY <3>1 DEF Running, StackFits, FramesInv
    <3> QED
      BY <2>1, <3>1, <3>2, QuietKeepsFrames
  <2> QED
    BY <2>2, <2>3
<1>2. ASSUME NEW hasSpace \in BOOLEAN, Execute(hasSpace) PROVE FramesInv'
  <2>1. PICK args \in ParsedArgs(hasSpace) :
          Start(pcb, EntryStack, <<>>, "syscall", User, args)
    BY <1>2 DEF Execute
  <2>2. /\ cpu.mode = "user" /\ EntryStack = pcb_obj /\ pcb_obj \in PIDs
        /\ pcb_obj = Height
    BY <1>2, TrapTypes, StateFacts, MaxProcessesAssumption DEF Execute, NULL, PIDs
  <2>3. args \in {"none", "given", "garbage"} /\ <<>> \in Seq(FrameType)
        /\ User \in CpuState
    BY CpuConstants DEF ParsedArgs
  <2>4. Resumable(User, Height)
    BY DEF Resumable, User, Running, StackFits
  <2>5. EntryStack <= Height
    BY <2>2, MaxProcessesAssumption DEF PIDs
  <2> QED
    BY <2>1, <2>2, <2>3, <2>4, <2>5, StartKeepsFrames
<1>3. CASE ExecuteInvalid
  BY <1>3, ReturnToUserKeepsFrames DEF ExecuteInvalid, procVars
<1>4. CASE ExecuteRefused
  BY <1>4, ReturnToUserKeepsFrames DEF ExecuteRefused, Refused
<1>5. CASE Launch
  <2>1. /\ cpu.mode = "launch" /\ cpu' = User
        /\ UNCHANGED <<pcb_obj, pcb, kstack>>
    BY <1>5 DEF Launch, procVars
  <2>2. /\ cpu'.mode # "halting" /\ StackFits(cpu', Height)
        /\ Frames(kstack', refs, Top)
        /\ \A p \in PIDs : pcb'[p].saved = pcb[p].saved
    BY <2>1 DEF User, Running, StackFits, FramesInv
  <2> QED
    BY <2>1, <2>2, QuietKeepsFrames
<1>6. ASSUME NEW status \in Statuses, Halt(status) PROVE FramesInv'
  BY <1>6, HaltKeepsFrames DEF Halt
<1>7. CASE Exception
  BY <1>7, HaltKeepsFrames DEF Exception
<1>8. CASE HaltReturn
  BY <1>8, HaltReturnKeepsFrames
<1>9. ASSUME NEW t \in Terminals, terminal_switch(t) PROVE FramesInv'
  BY <1>9, SwitchKeepsFrames
<1>10. ASSUME NEW fd \in FDs, ReadBegin(fd) PROVE FramesInv'
  <2>1. /\ cpu.mode = "user" /\ EntryStack = pcb_obj /\ pcb_obj \in PIDs
        /\ pcb_obj = Height
    BY <1>10, TrapTypes, StateFacts, MaxProcessesAssumption DEF ReadBegin, NULL, PIDs
  <2>2. /\ cpu' = Running("read", pcb_obj)
        /\ kstack' = [kstack EXCEPT ![pcb_obj] = <<Frame("syscall", User, NoPid)>>]
        /\ UNCHANGED <<pcb_obj, pcb>>
    BY <1>10, <2>1 DEF ReadBegin, procVars
  <2>3. Frames(kstack', refs, Top)
    BY <2>1, <2>2, OwnStackStep
  <2>4. cpu'.mode # "halting" /\ StackFits(cpu', Height)
    BY <2>1, <2>2 DEF Running, StackFits
  <2> QED
    BY <2>1, <2>2, <2>3, <2>4, QuietKeepsFrames
<1>11. CASE ReadEnd
  <2>1. /\ cpu.mode = "read" /\ pcb_obj \in PIDs /\ cpu.stack = pcb_obj
    BY <1>11, TrapTypes, StateFacts, MaxProcessesAssumption
       DEF ReadEnd, FramesInv, StackFits, NULL, PIDs
  <2>2. /\ cpu' = User
        /\ kstack' = [kstack EXCEPT ![pcb_obj] = <<>>]
        /\ UNCHANGED <<pcb_obj, pcb>>
    BY <1>11, <2>1 DEF ReadEnd, procVars
  <2>3. Frames(kstack', refs, Top)
    BY <2>1, <2>2, OwnStackStep
  <2>4. cpu'.mode # "halting" /\ StackFits(cpu', Height)
    BY <2>2 DEF User, Running, StackFits
  <2> QED
    BY <2>1, <2>2, <2>3, <2>4, QuietKeepsFrames
<1>12. ASSUME NEW type \in FileTypes, system_open(type) PROVE FramesInv'
  <2>1. ReturnToUser /\ UNCHANGED pcb_obj /\ pcb_obj \in PIDs
    BY <1>12, ReturnToUserTypes DEF system_open
  <2>2. \A p \in PIDs : pcb'[p].saved = pcb[p].saved
    <3>1. UNCHANGED pcb \/ \E fd : SetDescriptor(fd, Opened(type))
      BY <1>12, Zenon DEF system_open
    <3> QED
      BY <2>1, <3>1, SetDescriptorKeepsSaved
  <2> QED
    BY <2>1, <2>2, ReturnToUserKeepsFrames
<1>13. ASSUME NEW fd \in FDs, system_close(fd) PROVE FramesInv'
  <2>1. /\ ReturnToUser /\ UNCHANGED pcb_obj /\ pcb_obj \in PIDs
        /\ SetDescriptor(fd, Closed)
    BY <1>13, ReturnToUserTypes DEF system_close
  <2>2. \A p \in PIDs : pcb'[p].saved = pcb[p].saved
    BY <2>1, SetDescriptorKeepsSaved
  <2> QED
    BY <2>1, <2>2, ReturnToUserKeepsFrames
<1>14. CASE UNCHANGED vars
  BY <1>14 DEF vars, FramesInv, Top, Height, refs
<1> QED
  BY <1>1, <1>2, <1>3, <1>4, <1>5, <1>6, <1>7, <1>8, <1>9, <1>10, <1>11,
     <1>12, <1>13, <1>14 DEF Next

LEMMA InitEstablishesFrames ==
  ASSUME Init
  PROVE  FramesInv
<1>1. Height = -1 /\ Top = -1 /\ cpu.mode = "boot" /\ cpu.stack = 0
  BY DEF Init, Height, Top, Running
<1>2. Frames(kstack, refs, -1)
  BY DEF Frames
<1> QED
  BY <1>1, <1>2 DEF FramesInv, StackFits

\* Without keys between the sti of halt and its switch of stacks, the frame that
\* halt returns through is there, for the process that halts and for every other
\* one when its turn comes: no entry, interrupt or nested shell overwrites it.
THEOREM ReturnFramesAreKept ==
  ASSUME ~KeysDuringHalt
  PROVE  Spec => []ReturnFramesSurvive
<1>1. Init => FramesInv
  BY InitEstablishesFrames
<1>2. IInv /\ IInv' /\ FramesInv /\ [Next]_vars => FramesInv'
  BY NextKeepsFrames
<1>3. IInv /\ FramesInv => ReturnFramesSurvive
  <2> SUFFICES ASSUME IInv, FramesInv PROVE ReturnFramesSurvive
    OBVIOUS
  <2>1. Height \in Int /\ Top \in Int /\ Top >= Height
    BY StateFacts DEF Top
  <2>2. \A p \in 1..Top : Waits(kstack, refs[p], p)
    BY DEF FramesInv, Frames
  <2>3. ASSUME cpu.mode = "halting" PROVE FrameIntact(cpu.ret)
    <3>1. Top = Height + 1 /\ Top \in 1..Top /\ cpu.ret.child = Top
      BY <2>1, <2>3 DEF FramesInv, Top
    <3>2. refs[Top] = cpu.ret.to
      BY <2>1, <3>1 DEF refs
    <3> QED
      BY <2>2, <3>1, <3>2 DEF Waits, FrameIntact
  <2>4. ASSUME NEW p \in PIDs \ {0}, Active(p)
        PROVE  FrameIntact([cpu.ret EXCEPT !.to = pcb[p].saved, !.child = p])
    <3>1. p \in 1..Height
      <4>1. \A q \in PIDs : pcb[q].active = 0 <=> q > Height
        BY CallersFollowFromHeight
      <4> QED
        BY <2>1, <2>4, <4>1, MaxProcessesAssumption DEF Active, PIDs
    <3>2. p \in 1..Top /\ refs[p] = pcb[p].saved
      BY <2>1, <3>1 DEF refs
    <3>3. Waits(kstack, pcb[p].saved, p)
      BY <2>2, <3>2
    <3> DEFINE r == [cpu.ret EXCEPT !.to = pcb[p].saved, !.child = p]
    <3>4. r.to = pcb[p].saved /\ r.child = p
      <4>1. cpu.ret \in ReturnInfo
        BY CpuConstants DEF IInv, TypeOK, CpuState, Running
      <4> QED
        BY <4>1 DEF ReturnInfo
    <3> HIDE DEF r
    <3>5. FrameIntact(r)
      BY <3>3, <3>4 DEF Waits, FrameIntact
    <3> QED
      BY <3>5 DEF r
  <2> QED
    BY <2>3, <2>4 DEF ReturnFramesSurvive
<1> QED
  BY <1>1, <1>2, <1>3, InvariantHolds, PTL DEF Spec
=============================================================================
