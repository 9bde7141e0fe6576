--------------------------- MODULE ProtectionProofs --------------------------
(***************************************************************************)
(* The page tables and the TLB never let a program reach more than its own  *)
(* frame and the screen, for every number of processes, every size of a     *)
(* directory and every place of the pages in it.                           *)
(*                                                                         *)
(* The TLB is the reason for the shape of the invariant: what it keeps is   *)
(* what some earlier walk of the tables gave, so every claim is made of the *)
(* tables and of the TLB together, and holds only from the flush that ends  *)
(* a change of an entry to the start of the next change.                    *)
(***************************************************************************)
EXTENDS Protection, TLAPS

ProgramEntry == kernel_page_directory[PROGRAM_IMG_PDE_INDEX]
VidmemEntry  == kernel_page_directory[VMEM_PDE_INDEX]

\* Where a process is running, or the kernel on its behalf.
InProcess == {"load", "resume", "restart", "user"} \cup ProgramSteps \cup VidmemSteps

\* Where paging has been turned on.
PagedSteps == InProcess \cup {"terminal_videopage_init", "booted", "idle"}

\* Where the program's page is that of the running process.
OwnSteps == {"load", "resume", "user"} \cup VidmemSteps

Mapped(p) == [present |-> 1, user |-> 1, size |-> 1, table_addr |-> <<1 + p, 0>>]

\* The entries that nothing changes after boot.
FixedEntries ==
  /\ kernel_page_directory[0] = [present |-> 1, user |-> 0, size |-> 0,
                                 table_addr |-> <<1, KERNEL_TABLE>>]
  /\ kernel_page_directory[1] = [present |-> 1, user |-> 0, size |-> 1,
                                 table_addr |-> <<1, 0>>]
  /\ \A i \in Index \ {0, 1, PROGRAM_IMG_PDE_INDEX, VMEM_PDE_INDEX} :
       kernel_page_directory[i].present = 0
  /\ \A i \in Index : /\ kernel_page_table[i].user = 0
                      /\ kernel_page_table[i].page_addr = <<0, i>>

VideoTableIsEmpty == \A i \in Index \ {0} : pagetable_video[i].present = 0

\* What the TLB keeps of the pages whose entries are fixed.
FixedTranslations ==
  \A v \in Pages : tlb[v] # NotCached =>
    /\ v[1] \in {0, 1, PROGRAM_IMG_PDE_INDEX, VMEM_PDE_INDEX}
    /\ v[1] \in {0, 1} => tlb[v] = [frame |-> v, user |-> 0]

\* The program's page, in the directory and in the TLB.
ProgramPage ==
  /\ at \in OwnSteps =>
       /\ ProgramEntry = Mapped(running + 1)
       /\ \A v \in Pages : (v[1] = PROGRAM_IMG_PDE_INDEX /\ tlb[v] # NotCached) =>
            tlb[v].frame = <<2 + running, v[2]>>
  /\ at = "user_bit" => ProgramEntry.present = 1
  /\ at = "table_addr" => ProgramEntry.present = 1 /\ ProgramEntry.user = 1
  /\ at = "flush" => ProgramEntry = Mapped(arg)
  /\ paging => ProgramEntry.size = 1

\* The screen at 160MB: not mapped yet, or mapped for good.
VidmemIsMapped ==
  /\ VidmemEntry = [present |-> 1, user |-> 1, size |-> 0,
                    table_addr |-> <<1, VIDEO_TABLE>>]
  /\ pagetable_video[0] = [present |-> 1, user |-> 1,
                           page_addr |-> <<0, VIDEO_ADDR>>]

VidmemPage ==
  /\ (paging /\ at \notin VidmemSteps) =>
       /\ VidmemEntry.present = 0 \/ VidmemIsMapped
       /\ \A v \in Pages : (v[1] = VMEM_PDE_INDEX /\ tlb[v] # NotCached) =>
            v[2] = 0 /\ tlb[v].frame = <<0, VIDEO_ADDR>>
  /\ at \in VidmemSteps =>
       /\ at # "v_present" => VidmemEntry.present = 1
       /\ at \notin {"v_present", "v_user"} => VidmemEntry.user = 1
       /\ at \notin {"v_present", "v_user", "v_size"} => VidmemEntry.size = 0
       /\ at \in {"pte_present", "pte_user", "pte_addr", "v_flush"} =>
            VidmemEntry.table_addr = <<1, VIDEO_TABLE>>
       /\ at \in {"pte_user", "pte_addr", "v_flush"} => pagetable_video[0].present = 1
       /\ at \in {"pte_addr", "v_flush"} => pagetable_video[0].user = 1
       /\ at = "v_flush" => pagetable_video[0].page_addr = <<0, VIDEO_ADDR>>

\* Which call is in progress, and for whom.
CallInProgress ==
  /\ at \in ProgramSteps => \/ next \in {"load", "resume"} /\ arg = running + 1
                            \/ next = "restart" /\ arg = 0 /\ running = 0
  /\ at = "restart" => running = 0
  /\ at \in VidmemSteps => next = "resume"
  /\ at \in InProcess => running # NULL
  /\ at = "terminal_videopage_init" => arg \in 1..3

\* The live processes form one chain that the running one ends.
CallChain ==
  /\ running # NULL => running \in Calls!Live
  /\ \A p \in Calls!Live : /\ caller[p] \in Calls!Live \cup {NoPid}
                           /\ caller[p] # running
  /\ \A p, q \in Calls!Live : p # q => caller[p] # caller[q]
  /\ running = NULL => Calls!Live = {}

Gates ==
  /\ at = "start" => idt = [i \in Vectors |-> NoGate]
  /\ at # "start" => idt = init_IDT
  /\ at \in {"start", "entry", "rtc_init", "stopped"} => ~if_flag
  /\ at \in InProcess \ {"user"} => ~if_flag

IInv ==
  /\ TypeOK
  /\ at \in PagedSteps => paging
  /\ paging => FixedEntries /\ FixedTranslations
  /\ VideoTableIsEmpty
  /\ ProgramPage
  /\ VidmemPage
  /\ CallInProgress
  /\ CallChain
  /\ Gates

-----------------------------------------------------------------------------
(* Constants and single steps *)

\* The regions and pages the code names lie in the directory and in a table.
LEMMA IndexFacts ==
  /\ SPACE \in Nat /\ Index = 0..(SPACE - 1)
  /\ 0 \in Index /\ 1 \in Index /\ KERNEL_TABLE \in Index /\ VIDEO_TABLE \in Index
  /\ VIDEO_ADDR \in Index /\ \A t \in 1..3 : VIDEO_ADDR + t \in Index
  /\ PROGRAM_IMG_PDE_INDEX \in Index \ {0, 1}
  /\ VMEM_PDE_INDEX \in Index \ {0, 1, PROGRAM_IMG_PDE_INDEX}
  /\ \A a \in 0..MAX_PROCESSES : 1 + a \in Index
  /\ KERNEL_TABLE # VIDEO_TABLE
BY SpaceAssumption, RegionsAssumption, TablesAssumption, ProcessesAssumption DEF Index

\* A frame is never the one that stands for an unknown frame.
LEMMA FrameFacts ==
  /\ Wild \notin Frame
  /\ NotCached \notin Translation
  /\ \A v \in Pages : v \in Frame /\ v[1] \in Index /\ v[2] \in Index /\ v = <<v[1], v[2]>>
  /\ \A d, k \in Index : <<d, k>> \in Frame
<1>1. NotCached \notin Translation
  BY DEF NotCached, Translation, Bit
<1> QED
  BY <1>1, WildAssumption, PagesAssumption DEF Frame

\* What a walk gives while the fixed entries stand: the kernel's regions are
\* mapped to themselves, and only the program's and vidmap's are there besides.
LEMMA WalkIsFixed ==
  ASSUME TypeOK, FixedEntries, NEW v \in Pages, NEW tr, Walk(v, tr)
  PROVE  /\ v[1] \in {0, 1, PROGRAM_IMG_PDE_INDEX, VMEM_PDE_INDEX}
         /\ v[1] \in {0, 1} => tr = [frame |-> v, user |-> 0]
         /\ tr \in Translation
<1> DEFINE e == kernel_page_directory[v[1]]
<1>1. v[1] \in Index /\ v[2] \in Index /\ v = <<v[1], v[2]>>
  BY FrameFacts
<1>2. e.present = 1 /\ tr \in Translation
  BY DEF Walk
<1>3. v[1] \in {0, 1, PROGRAM_IMG_PDE_INDEX, VMEM_PDE_INDEX}
  BY <1>1, <1>2 DEF FixedEntries
<1>4. ASSUME v[1] = 1 PROVE tr = [frame |-> v, user |-> 0]
  <2>1. e.size = 1 /\ e.table_addr = <<1, 0>> /\ e.user = 0
    BY <1>4 DEF FixedEntries
  <2>2. tr = [frame |-> <<1, v[2]>>, user |-> 0]
    BY <2>1 DEF Walk
  <2> QED
    BY <1>1, <1>4, <2>2
<1>5. ASSUME v[1] = 0 PROVE tr = [frame |-> v, user |-> 0]
  <2>1. e.size = 0 /\ e.table_addr = <<1, KERNEL_TABLE>> /\ e.user = 0
    BY <1>5 DEF FixedEntries
  <2>2. <<1, KERNEL_TABLE>> # <<1, VIDEO_TABLE>>
    BY IndexFacts
  <2>3. Through(kernel_page_table, e, v, tr)
    BY <2>1, <2>2 DEF Walk
  <2>4. tr.frame = <<0, v[2]>> /\ tr.user = 0
    BY <1>1, <2>1, <2>3 DEF Through, FixedEntries
  <2> QED
    BY <1>1, <1>2, <1>5, <2>4 DEF Translation
<1> QED
  BY <1>2, <1>3, <1>4, <1>5

\* A walk of the program's page when its entry is that of process p.
LEMMA WalkOfProgram ==
  ASSUME NEW p \in Int, ProgramEntry = Mapped(p), NEW v \in Pages,
         v[1] = PROGRAM_IMG_PDE_INDEX, NEW tr, Walk(v, tr)
  PROVE  tr = [frame |-> <<1 + p, v[2]>>, user |-> 1]
BY DEF Walk, ProgramEntry, Mapped

\* A walk of vidmap's region: nothing but the screen in its first page.
LEMMA WalkOfVidmem ==
  ASSUME TypeOK, VideoTableIsEmpty, VidmemEntry.present = 0 \/ VidmemIsMapped,
         NEW v \in Pages, v[1] = VMEM_PDE_INDEX, NEW tr, Walk(v, tr)
  PROVE  v[2] = 0 /\ tr.frame = <<0, VIDEO_ADDR>>
<1> DEFINE e == kernel_page_directory[v[1]]
<1>1. e = VidmemEntry /\ e.present = 1
  BY DEF Walk, VidmemEntry
<1>2. e.size = 0 /\ e.table_addr = <<1, VIDEO_TABLE>> /\ VidmemIsMapped
  BY <1>1 DEF VidmemIsMapped
<1>3. <<1, KERNEL_TABLE>> # <<1, VIDEO_TABLE>>
  BY IndexFacts
<1>4. Through(pagetable_video, e, v, tr)
  BY <1>2, <1>3 DEF Walk
<1>5. v[2] \in Index /\ pagetable_video[v[2]].present = 1
  BY <1>4, FrameFacts DEF Through
<1>6. v[2] = 0
  BY <1>5 DEF VideoTableIsEmpty
<1> QED
  BY <1>2, <1>4, <1>6 DEF Through, VidmemIsMapped

-----------------------------------------------------------------------------
(* Steps that change no entry and keep nothing *)

\* Such a step keeps the invariant if it enters no half-written call and leaves
\* the running process where it was.
LEMMA UnchangedPages ==
  ASSUME IInv, UNCHANGED pageVars, TypeOK', CallInProgress', CallChain', Gates',
         at' \in PagedSteps => paging,
         at' \in OwnSteps => at \in OwnSteps /\ running' = running,
         at' \notin {"user_bit", "table_addr", "flush"},
         at \notin VidmemSteps, at' \notin VidmemSteps \ {"v_present"}
  PROVE  IInv'
<1> USE DEF pageVars, tables
<1>1. (paging => FixedEntries /\ FixedTranslations)' /\ VideoTableIsEmpty'
  BY DEF IInv, FixedEntries, FixedTranslations, VideoTableIsEmpty
<1>2. ProgramPage'
  BY DEF IInv, ProgramPage, ProgramEntry
<1>3. VidmemPage'
  BY DEF IInv, VidmemPage, VidmemEntry, VidmemIsMapped, VidmemSteps
<1> QED
  BY <1>1, <1>2, <1>3 DEF IInv

\* The steps of boot up to paging_init.
LEMMA EarlyBootKeepsInvariant ==
  ASSUME IInv,
         Start \/ Entry \/ RtcInit \/ KeyboardInitialize \/ FilesystemInitialize
  PROVE  IInv'
<1> USE DEF Start, Entry, RtcInit, KeyboardInitialize, FilesystemInitialize, Goto,
            InProcess, OwnSteps, PagedSteps, ProgramSteps, VidmemSteps,
            gateVars, fileVars, termVars, callVars, Calls!Live
<1>1. UNCHANGED <<pageVars, termVars, callVars>>
  OBVIOUS
<1>2. TypeOK /\ CallInProgress /\ CallChain /\ Gates
  BY DEF IInv
<1>3. init_IDT \in [Vectors -> [present : Bit, dpl : {0, 3},
                          handler : {"none", "exception", "keyboard_handler",
                                     "rtc_handler", "syscall_handler"}]]
  BY DEF init_IDT, Gate, NoGate, Bit
<1>4. TypeOK'
  <2>1. PagingTypeOK'
    BY <1>1, <1>2 DEF TypeOK, PagingTypeOK, pageVars, tables
  <2>2. arg' \in 0..(MAX_PROCESSES + 3)
    BY ProcessesAssumption
  <2> QED
    BY <1>1, <1>2, <1>3, <2>1, <2>2 DEF TypeOK
<1>5. CallInProgress' /\ CallChain'
  BY <1>1, <1>2 DEF CallInProgress, CallChain
<1>6. Gates'
  BY <1>2 DEF Gates
<1> QED
  BY <1>1, <1>4, <1>5, <1>6, UnchangedPages

\* Interrupts on, and back to the program; or the base shell anew.
LEMMA ReturnKeepsInvariant ==
  ASSUME IInv, Load \/ Resume \/ Restart
  PROVE  IInv'
<1> USE DEF Load, Resume, Restart, Goto, InProcess, OwnSteps, PagedSteps,
            ProgramSteps, VidmemSteps, gateVars, fileVars, termVars, callVars,
            Calls!Live
<1>1. UNCHANGED <<pageVars, unmasked, idt, fileVars, termVars, callVars>>
  OBVIOUS
<1>2. TypeOK /\ CallInProgress /\ CallChain /\ Gates
  BY DEF IInv
<1>3. TypeOK'
  <2>1. PagingTypeOK'
    BY <1>1, <1>2 DEF TypeOK, PagingTypeOK, pageVars, tables
  <2>2. arg' \in 0..(MAX_PROCESSES + 3)
    BY ProcessesAssumption
  <2> QED
    BY <1>1, <1>2, <2>1, <2>2 DEF TypeOK
<1>4. CallInProgress' /\ CallChain'
  BY <1>1, <1>2 DEF CallInProgress, CallChain
<1>5. Gates'
  BY <1>1, <1>2 DEF Gates
<1>6. at' \in PagedSteps => paging
  BY DEF IInv
<1> QED
  BY <1>1, <1>3, <1>4, <1>5, <1>6, UnchangedPages

-----------------------------------------------------------------------------
(* Calls *)

\* The calls and their types, which every call below keeps.
CallsOK == /\ running \in PIDs \cup {NULL} /\ Calls!Live \subseteq PIDs
           /\ caller \in [Calls!Live -> PIDs \cup {NoPid}]
           /\ CallChain

\* A first process, or one more.
LEMMA CallKeepsChain ==
  ASSUME CallsOK, NEW p \in AssignedPid(Calls!Live),
         IF running = NULL THEN Calls!Begin(p) ELSE Calls!Call(p)
  PROVE  CallsOK' /\ running' = p /\ p \in PIDs
<1>1. p \in PIDs /\ p \notin Calls!Live /\ p # NoPid /\ p # NULL /\ running # NoPid
  BY DEF AssignedPid, CallsOK, PIDs, NoPid, NULL
<1>2. CASE running = NULL
  <2>1. running' = p /\ caller' = [q \in {p} |-> NoPid]
    BY <1>2 DEF Calls!Begin
  <2> QED
    BY <1>1, <2>1 DEF CallsOK, CallChain, Calls!Live
<1>3. CASE running # NULL
  <2>1. /\ running' = p /\ running \in Calls!Live
        /\ caller' = [q \in Calls!Live \cup {p} |-> IF q = p THEN running ELSE caller[q]]
    BY <1>3 DEF Calls!Call, CallsOK, CallChain
  <2>2. Calls!Live' = Calls!Live \cup {p}
    BY <2>1 DEF Calls!Live
  <2> QED
    BY <1>1, <2>1, <2>2 DEF CallsOK, CallChain
<1> QED
  BY <1>1, <1>2, <1>3 DEF CallsOK

\* The running process ends, and its caller runs.
LEMMA ReturnKeepsChain ==
  ASSUME CallsOK, Calls!Return
  PROVE  CallsOK' /\ running' = caller[running] /\ running' \in PIDs
<1>1. /\ running \in Calls!Live /\ caller[running] \in Calls!Live
      /\ caller[running] # running /\ running' = caller[running]
  BY DEF CallsOK, CallChain, Calls!Return
<1>2. caller' = [q \in Calls!Live \ {running} |-> caller[q]]
  BY DEF Calls!Return
<1>3. Calls!Live' = Calls!Live \ {running}
  BY <1>2 DEF Calls!Live
<1>4. NULL \notin PIDs
  BY DEF PIDs, NULL
<1> QED
  BY <1>1, <1>2, <1>3, <1>4 DEF CallsOK, CallChain

\* What system_execute leaves: a new process that runs, or no process changed.
LEMMA ExecuteKeepsCalls ==
  ASSUME CallsOK, if_flag \in BOOLEAN, system_execute
  PROVE  /\ CallsOK'
         /\ arg' \in 0..(MAX_PROCESSES + 3) /\ if_flag' \in BOOLEAN
         /\ \/ at' \in {"crash", "unpaged"} /\ next' = "none"
            \/ /\ at' = "present" /\ next' = "load" /\ arg' = running' + 1
               /\ running' # NULL /\ paging
<1>0. 0 \in 0..(MAX_PROCESSES + 3)
  BY ProcessesAssumption
<1>1. ASSUME UNCHANGED callVars PROVE CallsOK'
  BY <1>1 DEF callVars, CallsOK, CallChain, Calls!Live
<1>2. CASE Goto("crash", 0, "none") /\ UNCHANGED callVars /\ if_flag' = FALSE
  <2>1. CallsOK' /\ at' = "crash" /\ next' = "none" /\ arg' = 0
    BY <1>1, <1>2 DEF Goto
  <2> QED
    BY <1>2, <2>1, <1>0
<1>3. CASE Goto("unpaged", 0, "none") /\ UNCHANGED callVars /\ UNCHANGED if_flag
  <2>1. CallsOK' /\ at' = "unpaged" /\ next' = "none" /\ arg' = 0
    BY <1>1, <1>3 DEF Goto
  <2>2. if_flag' \in BOOLEAN
    BY <1>3
  <2> QED
    BY <2>1, <2>2, <1>0
<1>4. ASSUME paging, if_flag' = FALSE, NEW p \in AssignedPid(Calls!Live),
             IF running = NULL THEN Calls!Begin(p) ELSE Calls!Call(p),
             Goto("present", p + 1, "load")
      PROVE  /\ CallsOK' /\ arg' \in 0..(MAX_PROCESSES + 3)
             /\ at' = "present" /\ next' = "load" /\ arg' = running' + 1
             /\ running' # NULL
  <2>1. CallsOK' /\ running' = p /\ p \in PIDs
    BY <1>4, CallKeepsChain
  <2>2. p # NULL /\ p + 1 \in 0..(MAX_PROCESSES + 3)
    BY <2>1, ProcessesAssumption DEF PIDs, NULL
  <2> QED
    BY <1>4, <2>1, <2>2 DEF Goto
<1> QED
  BY <1>2, <1>3, <1>4 DEF system_execute

\* What system_halt leaves: the caller that runs, or the base shell again.
LEMMA HaltKeepsCalls ==
  ASSUME CallsOK, running # NULL, system_halt
  PROVE  /\ CallsOK' /\ running' # NULL
         /\ arg' \in 0..(MAX_PROCESSES + 3) /\ if_flag' = FALSE /\ at' = "present"
         /\ \/ next' = "resume" /\ arg' = running' + 1
            \/ next' = "restart" /\ arg' = 0 /\ running' = 0
<1>1. CASE IsBaseShell
  <2>1. Goto("present", 0, "restart") /\ UNCHANGED callVars /\ if_flag' = FALSE
    BY <1>1 DEF system_halt
  <2> QED
    BY <1>1, <2>1, ProcessesAssumption
       DEF Goto, IsBaseShell, callVars, CallsOK, CallChain, Calls!Live
<1>2. CASE ~IsBaseShell
  <2>1. Calls!Return /\ Goto("present", caller[running] + 1, "resume") /\ if_flag' = FALSE
    BY <1>2 DEF system_halt
  <2>2. CallsOK' /\ running' = caller[running] /\ running' \in PIDs
    BY <2>1, ReturnKeepsChain
  <2>3. running' # NULL /\ running' + 1 \in 0..(MAX_PROCESSES + 3)
    BY <2>2, ProcessesAssumption DEF PIDs, NULL
  <2> QED
    BY <2>1, <2>2, <2>3 DEF Goto
<1> QED
  BY <1>1, <1>2

\* Every call and every key press, by what it leaves behind.
LEMMA CallKeepsInvariant ==
  ASSUME IInv, at \notin {"start", "entry", "rtc_init", "stopped"},
         at \notin InProcess \ {"user"},
         UNCHANGED <<pageVars, unmasked, idt, fileVars>>,
         curr_terminal_id' \in Terminals, terminal_active' \in [Terminals -> BOOLEAN],
         CallsOK', arg' \in 0..(MAX_PROCESSES + 3), if_flag' \in BOOLEAN,
         \/ at' \in {"crash", "unpaged", "idle"} /\ next' = "none" /\ (at' = "idle" => paging)
         \/ /\ at' = "present" /\ paging /\ running' # NULL /\ if_flag' = FALSE
            /\ \/ next' \in {"load", "resume"} /\ arg' = running' + 1
               \/ next' = "restart" /\ arg' = 0 /\ running' = 0
         \/ /\ at = "user" /\ at' = "v_present" /\ next' = "resume" /\ if_flag' = FALSE
            /\ UNCHANGED running
         \/ UNCHANGED <<at, arg, next, running>>
  PROVE  IInv'
<1> USE DEF InProcess, OwnSteps, PagedSteps, ProgramSteps, VidmemSteps, fileVars
<1>1. TypeOK /\ CallInProgress /\ Gates /\ (at \in PagedSteps => paging)
  BY DEF IInv
<1>2. TypeOK'
  <2>1. PagingTypeOK'
    BY <1>1 DEF TypeOK, PagingTypeOK, pageVars, tables
  <2>2. at' \in {"start", "entry", "stopped", "rtc_init", "keyboard_initialize",
             "filesystem_initialize", "paging_init", "terminal_videopage_init",
             "booted", "idle", "crash", "unpaged", "user", "load", "resume",
             "restart"} \cup ProgramSteps \cup VidmemSteps
        /\ next' \in {"none", "load", "resume", "restart"}
    BY <1>1 DEF TypeOK
  <2>3. /\ unmasked' \subseteq {1, 2, 8}
        /\ idt' \in [Vectors -> [present : Bit, dpl : {0, 3},
                          handler : {"none", "exception", "keyboard_handler",
                                     "rtc_handler", "syscall_handler"}]]
        /\ filesystem_img_addr' \in {"none", "image"}
        /\ filesystem' \in {"none", "image"}
    BY <1>1 DEF TypeOK
  <2> QED
    BY <2>1, <2>2, <2>3 DEF TypeOK, CallsOK
<1>3. CallInProgress' /\ CallChain'
  BY <1>1 DEF CallInProgress, CallsOK
<1>4. Gates'
  BY <1>1 DEF Gates
<1>5. at' \in PagedSteps => paging
  BY <1>1
<1>6. at' \in OwnSteps => at \in OwnSteps /\ running' = running
  OBVIOUS
<1> QED
  BY <1>2, <1>3, <1>4, <1>5, <1>6, UnchangedPages

LEMMA CallsOKHolds ==
  ASSUME IInv
  PROVE  CallsOK /\ if_flag \in BOOLEAN /\ curr_terminal_id \in Terminals
         /\ terminal_active \in [Terminals -> BOOLEAN]
BY DEF IInv, TypeOK, CallsOK

LEMMA ProgramCallKeepsInvariant ==
  ASSUME IInv, Execute \/ Halt \/ (\E past \in BOOLEAN : Vidmap(past))
  PROVE  IInv'
<1>1. CallsOK /\ if_flag \in BOOLEAN /\ at = "user" /\ running # NULL
  BY CallsOKHolds DEF Execute, Halt, Vidmap, IInv, CallInProgress, InProcess
<1>2. UNCHANGED <<pageVars, unmasked, idt, fileVars, termVars>>
  BY DEF Execute, Halt, Vidmap, system_halt
<1>3. curr_terminal_id' \in Terminals /\ terminal_active' \in [Terminals -> BOOLEAN]
  BY <1>2, CallsOKHolds DEF termVars
<1>4. CASE Execute
  <2>1. system_execute
    BY <1>4 DEF Execute
  <2>2. at' = "present" => if_flag' = FALSE
    BY <2>1 DEF system_execute, Goto
  <2> HIDE DEF system_execute
  <2> QED
    BY <1>1, <1>2, <1>3, <2>1, <2>2, ExecuteKeepsCalls, CallKeepsInvariant
<1>5. CASE system_halt
  <2>1. paging
    BY <1>1 DEF IInv, PagedSteps, InProcess
  <2> QED
    BY <1>1, <1>2, <1>3, <1>5, <2>1, HaltKeepsCalls, CallKeepsInvariant
<1>6. CASE ~system_halt /\ \E past \in BOOLEAN : Vidmap(past)
  <2>1. /\ if_flag' = FALSE /\ at' = "v_present" /\ arg' = 0 /\ next' = "resume"
        /\ UNCHANGED callVars
    BY <1>6 DEF Vidmap, Goto
  <2>2. CallsOK' /\ running' = running
    BY <1>1, <2>1 DEF callVars, CallsOK, CallChain, Calls!Live
  <2>3. arg' \in 0..(MAX_PROCESSES + 3)
    BY <2>1, ProcessesAssumption
  <2> QED
    BY <1>1, <1>2, <1>3, <2>1, <2>2, <2>3, CallKeepsInvariant
<1> QED
  BY <1>4, <1>5, <1>6 DEF Halt

LEMMA BootKeepsInvariant ==
  ASSUME IInv, NEW call \in BootCalls, Boot(call)
  PROVE  IInv'
<1>1. CallsOK /\ if_flag \in BOOLEAN /\ at = "booted" /\ paging
  BY CallsOKHolds DEF Boot, IInv, PagedSteps
<1>2. UNCHANGED <<pageVars, unmasked, idt, fileVars>>
  BY DEF Boot
<1>3. curr_terminal_id' \in Terminals /\ terminal_active' \in [Terminals -> BOOLEAN]
  <2>1. 0 \in Terminals
    BY BackingPagesAssumption DEF Terminals
  <2>2. curr_terminal_id' = 0 \/ curr_terminal_id' = curr_terminal_id
    BY DEF Boot, termVars
  <2>3. \/ terminal_active' = [terminal_active EXCEPT ![0] = TRUE]
        \/ terminal_active' = terminal_active
    BY DEF Boot, termVars
  <2> QED
    BY CallsOKHolds, <2>1, <2>2, <2>3
<1>4. CASE system_execute
  <2>1. at' = "present" => if_flag' = FALSE
    BY <1>4 DEF system_execute, Goto
  <2> QED
    BY <1>1, <1>2, <1>3, <1>4, <2>1, ExecuteKeepsCalls, CallKeepsInvariant DEF InProcess,
       ProgramSteps, VidmemSteps
<1>5. CASE ~system_execute
  <2>1. Goto("idle", 0, "none") /\ UNCHANGED <<if_flag, callVars>>
    BY <1>5 DEF Boot
  <2>2. CallsOK' /\ running' = running
    BY <1>1, <2>1 DEF callVars, CallsOK, CallChain, Calls!Live
  <2>3. arg' \in 0..(MAX_PROCESSES + 3) /\ at' = "idle" /\ next' = "none"
    BY <2>1, ProcessesAssumption DEF Goto
  <2>4. if_flag' \in BOOLEAN
    BY <1>1, <2>1
  <2> QED
    BY <1>1, <1>2, <1>3, <2>2, <2>3, <2>4, CallKeepsInvariant DEF InProcess,
       ProgramSteps, VidmemSteps
<1> QED
  BY <1>4, <1>5

LEMMA SwitchKeepsInvariant ==
  ASSUME IInv, NEW t \in Terminals, terminal_switch(t)
  PROVE  IInv'
<1>1. CallsOK /\ if_flag \in BOOLEAN /\ if_flag
  BY CallsOKHolds DEF terminal_switch
<1>2. at \notin {"start", "entry", "rtc_init", "stopped"} /\ at \notin InProcess \ {"user"}
  BY <1>1 DEF IInv, Gates
<1>3. UNCHANGED <<pageVars, unmasked, idt, fileVars>>
  BY DEF terminal_switch
<1>4. curr_terminal_id' \in Terminals /\ terminal_active' \in [Terminals -> BOOLEAN]
  BY CallsOKHolds DEF terminal_switch, termVars
<1>5. CASE system_execute
  <2>1. at' = "present" => if_flag' = FALSE
    BY <1>5 DEF system_execute, Goto
  <2> QED
    BY <1>1, <1>2, <1>3, <1>4, <1>5, <2>1, ExecuteKeepsCalls, CallKeepsInvariant
<1>6. CASE Goto("crash", 0, "none") /\ if_flag' = FALSE /\ UNCHANGED callVars
  <2>1. CallsOK'
    BY <1>1, <1>6 DEF callVars, CallsOK, CallChain, Calls!Live
  <2>2. arg' \in 0..(MAX_PROCESSES + 3) /\ at' = "crash" /\ next' = "none"
    BY <1>6, ProcessesAssumption DEF Goto
  <2> QED
    BY <1>2, <1>3, <1>4, <1>6, <2>1, <2>2, CallKeepsInvariant
<1>7. CASE UNCHANGED <<cpuVars, if_flag, callVars>>
  <2>1. CallsOK' /\ UNCHANGED <<at, arg, next, running>> /\ if_flag' \in BOOLEAN
    BY <1>1, <1>7 DEF callVars, cpuVars, CallsOK, CallChain, Calls!Live
  <2>2. arg' \in 0..(MAX_PROCESSES + 3)
    BY <2>1 DEF IInv, TypeOK
  <2> QED
    BY <1>2, <1>3, <1>4, <2>1, <2>2, CallKeepsInvariant
<1> QED
  BY <1>5, <1>6, <1>7 DEF terminal_switch

-----------------------------------------------------------------------------
(* Steps that change an entry, and the MMU's own *)

\* The MMU keeps what a walk gives.
LEMMA FillKeepsInvariant ==
  ASSUME IInv, MmuFills
  PROVE  IInv'
<1>1. PICK v \in Pages : Fill(v)
  BY DEF MmuFills
<1>2. paging /\ UNCHANGED <<tables, paging>>
  BY <1>1 DEF Fill
<1>3. PICK tr \in Translation : Walk(v, tr) /\ tlb' = [tlb EXCEPT ![v] = tr]
  BY <1>1 DEF Fill
<1>4. UNCHANGED <<cpuVars, gateVars, fileVars, termVars, callVars>>
  BY DEF MmuFills
<1>5. TypeOK /\ FixedEntries /\ FixedTranslations /\ VideoTableIsEmpty
  BY <1>2 DEF IInv
<1>6. tlb \in [Pages -> Translation \cup {NotCached}]
  BY <1>5 DEF TypeOK, PagingTypeOK
<1>7. TypeOK' /\ CallInProgress' /\ CallChain' /\ Gates'
  <2>1. tlb' \in [Pages -> Translation \cup {NotCached}]
    BY <1>3, <1>6
  <2>2. PagingTypeOK'
    BY <1>2, <1>5, <2>1 DEF TypeOK, PagingTypeOK, tables
  <2> QED
    BY <1>4, <2>2 DEF IInv, TypeOK, CallInProgress, CallChain, Gates, cpuVars, gateVars,
       fileVars, termVars, callVars, Calls!Live
<1>8. FixedEntries' /\ VideoTableIsEmpty'
  BY <1>2, <1>5 DEF FixedEntries, VideoTableIsEmpty, tables
<1>9. FixedTranslations'
  BY <1>3, <1>5, <1>6, WalkIsFixed DEF FixedTranslations
<1>10. ProgramPage'
  <2>1. ProgramPage /\ UNCHANGED <<at, arg, running, ProgramEntry, paging>>
    BY <1>2, <1>4 DEF IInv, cpuVars, callVars, ProgramEntry, tables
  <2>2. SUFFICES ASSUME at \in OwnSteps, NEW w \in Pages, w[1] = PROGRAM_IMG_PDE_INDEX,
                        tlb'[w] # NotCached
                 PROVE  tlb'[w].frame = <<2 + running, w[2]>>
    BY <2>1 DEF ProgramPage
  <2>3. CASE w # v
    BY <1>3, <1>6, <2>1, <2>2, <2>3 DEF ProgramPage
  <2>4. CASE w = v
    <3>1. running \in Int
      BY <1>5 DEF TypeOK, PIDs, NULL
    <3>2. tr = [frame |-> <<1 + (running + 1), v[2]>>, user |-> 1]
      BY <1>3, <2>1, <2>2, <2>4, <3>1, WalkOfProgram DEF ProgramPage
    <3>3. 1 + (running + 1) = 2 + running
      BY <3>1
    <3> QED
      BY <1>3, <1>6, <2>4, <3>2, <3>3
  <2> QED
    BY <2>3, <2>4
<1>11. VidmemPage'
  <2>1. /\ VidmemPage
        /\ UNCHANGED <<at, VidmemEntry, pagetable_video, paging>>
    BY <1>2, <1>4 DEF IInv, cpuVars, VidmemEntry, tables
  <2>2. SUFFICES ASSUME at \notin VidmemSteps, NEW w \in Pages, w[1] = VMEM_PDE_INDEX,
                        tlb'[w] # NotCached
                 PROVE  w[2] = 0 /\ tlb'[w].frame = <<0, VIDEO_ADDR>>
    BY <2>1 DEF VidmemPage, VidmemIsMapped
  <2>3. CASE w # v
    BY <1>2, <1>3, <1>6, <2>1, <2>2, <2>3 DEF VidmemPage
  <2>4. CASE w = v
    BY <1>2, <1>3, <1>5, <1>6, <2>1, <2>2, <2>4, WalkOfVidmem DEF VidmemPage
  <2> QED
    BY <2>3, <2>4
<1> QED
  BY <1>2, <1>4, <1>7, <1>8, <1>9, <1>10, <1>11 DEF IInv, cpuVars

\* Paging is turned on, with no translation kept.
LEMMA PagingInitKeepsInvariant ==
  ASSUME IInv, PagingInitialize
  PROVE  IInv'
<1> USE DEF PagingInitialize, Goto
<1>1. /\ kernel_page_directory' = InitialDirectory /\ kernel_page_table' = InitialTable
      /\ paging' = TRUE /\ tlb' = Flushed /\ UNCHANGED pagetable_video
  BY DEF paging_init
<1>2. /\ at' = "terminal_videopage_init" /\ arg' = 1 /\ next' = "none"
      /\ UNCHANGED <<gateVars, fileVars, termVars, callVars>>
  OBVIOUS
<1>3. InitialDirectory \in [Index -> DirectoryEntry]
  BY IndexFacts DEF InitialDirectory, DirectoryEntry, Bit, Frame
<1>4. InitialTable \in [Index -> TableEntry]
  BY IndexFacts DEF InitialTable, TableEntry, Bit, Frame
<1>5. TypeOK'
  <2>1. PagingTypeOK'
    BY <1>1, <1>3, <1>4 DEF IInv, TypeOK, PagingTypeOK, Flushed
  <2>2. arg' \in 0..(MAX_PROCESSES + 3)
    BY <1>2, ProcessesAssumption
  <2> QED
    BY <1>2, <2>1, <2>2 DEF IInv, TypeOK, gateVars, fileVars, termVars, callVars, Calls!Live
<1>6. CallInProgress' /\ CallChain' /\ Gates'
  BY <1>2 DEF IInv, CallInProgress, CallChain, Gates, InProcess, ProgramSteps, VidmemSteps,
     gateVars, callVars, Calls!Live
<1>7. FixedEntries' /\ FixedTranslations'
  BY <1>1, IndexFacts DEF FixedEntries, FixedTranslations, InitialDirectory, InitialTable, Flushed
<1>8. VideoTableIsEmpty'
  BY <1>1 DEF IInv, VideoTableIsEmpty
<1>9. ProgramPage'
  BY <1>1, <1>2, IndexFacts
     DEF ProgramPage, ProgramEntry, InitialDirectory, OwnSteps, VidmemSteps
<1>10. VidmemPage'
  BY <1>1, <1>2, IndexFacts
     DEF VidmemPage, VidmemEntry, InitialDirectory, VidmemSteps, Flushed
<1> QED
  BY <1>1, <1>2, <1>5, <1>6, <1>7, <1>8, <1>9, <1>10 DEF IInv

\* A backing page becomes present; the TLB cannot have kept it.
LEMMA VideopageInitKeepsInvariant ==
  ASSUME IInv, TerminalVideopageInit
  PROVE  IInv'
<1>1. /\ at = "terminal_videopage_init" /\ paging /\ arg \in 1..3
      /\ TypeOK /\ FixedEntries /\ FixedTranslations
  BY DEF IInv, TerminalVideopageInit, PagedSteps, CallInProgress
<1>2. /\ kernel_page_table' = [kernel_page_table EXCEPT ![VIDEO_ADDR + arg] =
            [present |-> 1, user |-> 0, page_addr |-> <<0, VIDEO_ADDR + arg>>]]
      /\ UNCHANGED <<kernel_page_directory, pagetable_video, paging, tlb>>
  BY DEF TerminalVideopageInit, terminal_videopage_init
<1>3. /\ at' \in {"terminal_videopage_init", "booted"} /\ next' = "none"
      /\ at' = "terminal_videopage_init" => arg < 3 /\ arg' = arg + 1
      /\ at' = "booted" => arg' = 0
  BY <1>1 DEF TerminalVideopageInit, Goto
<1>4. UNCHANGED <<gateVars, fileVars, termVars, callVars>>
  BY DEF TerminalVideopageInit
<1>5. VIDEO_ADDR + arg \in Index /\ kernel_page_table \in [Index -> TableEntry]
  BY <1>1, IndexFacts DEF TypeOK, PagingTypeOK
<1>6. TypeOK'
  <2>1. [present |-> 1, user |-> 0, page_addr |-> <<0, VIDEO_ADDR + arg>>] \in TableEntry
    BY <1>5, IndexFacts DEF TableEntry, Bit, Frame
  <2>2. kernel_page_table' \in [Index -> TableEntry]
    BY <1>2, <1>5, <2>1
  <2>3. PagingTypeOK'
    BY <1>1, <1>2, <2>2 DEF TypeOK, PagingTypeOK
  <2>4. arg' \in 0..(MAX_PROCESSES + 3)
    BY <1>1, <1>3, ProcessesAssumption
  <2> QED
    BY <1>1, <1>3, <1>4, <2>3, <2>4 DEF TypeOK, gateVars, fileVars, termVars, callVars, Calls!Live
<1>7. CallInProgress' /\ CallChain' /\ Gates'
  <2>1. at' = "terminal_videopage_init" => arg' \in 1..3
    BY <1>1, <1>3
  <2> QED
    BY <1>1, <1>3, <1>4, <2>1 DEF IInv, CallInProgress, CallChain, Gates, InProcess,
       ProgramSteps, VidmemSteps, gateVars, callVars, Calls!Live
<1>8. FixedEntries' /\ FixedTranslations'
  BY <1>1, <1>2, <1>5 DEF FixedEntries, FixedTranslations
<1>9. VideoTableIsEmpty'
  BY <1>2 DEF IInv, VideoTableIsEmpty
<1>10. ProgramPage' /\ VidmemPage'
  BY <1>1, <1>2, <1>3 DEF IInv, ProgramPage, ProgramEntry, VidmemPage, VidmemEntry,
     VidmemIsMapped, OwnSteps, VidmemSteps
<1> QED
  BY <1>1, <1>2, <1>6, <1>7, <1>8, <1>9, <1>10 DEF IInv

\* Where a statement of execute_paging_init leads, whatever it does.
LEMMA ProgramStepControl ==
  ASSUME IInv, ProgramStep
  PROVE  /\ UNCHANGED <<gateVars, fileVars, termVars, callVars, arg, next>>
         /\ paging /\ at' \in InProcess \ {"user"} /\ at' \notin VidmemSteps
         /\ at = "present" => at' = "user_bit"
         /\ at = "user_bit" => at' = "table_addr"
         /\ at = "table_addr" => at' = "flush"
         /\ at = "flush" => at' = next
         /\ CallInProgress' /\ CallChain' /\ Gates'
<1> USE DEF ProgramSteps, VidmemSteps, InProcess
<1>1. at \in ProgramSteps /\ execute_paging_init(at, arg)
  BY DEF ProgramStep
<1>2. /\ UNCHANGED <<gateVars, fileVars, termVars, callVars, arg, next>>
      /\ at' = AfterProgramStep[at]
  BY DEF ProgramStep, Goto
<1>3. CallInProgress /\ CallChain /\ Gates /\ paging
  BY <1>1 DEF IInv, PagedSteps
<1>4. /\ at = "present" => at' = "user_bit"
      /\ at = "user_bit" => at' = "table_addr"
      /\ at = "table_addr" => at' = "flush"
      /\ at = "flush" => at' = next
  BY <1>1, <1>2 DEF AfterProgramStep
<1>5. next \in {"load", "resume", "restart"}
  BY <1>1, <1>3 DEF CallInProgress
<1>6. CallInProgress'
  <2>1. UNCHANGED <<running, arg, next>>
    BY <1>2 DEF callVars
  <2> QED
    BY <1>1, <1>3, <1>4, <1>5, <2>1 DEF CallInProgress
<1>7. CallChain'
  BY <1>2, <1>3 DEF CallChain, callVars, Calls!Live
<1>8. Gates'
  BY <1>1, <1>2, <1>3, <1>4, <1>5 DEF Gates, gateVars
<1> QED
  BY <1>1, <1>2, <1>3, <1>4, <1>5, <1>6, <1>7, <1>8

\* Only the entry of the program's page changes, and its TLB entries go.
LEMMA ProgramStepPages ==
  ASSUME IInv, ProgramStep
  PROVE  /\ UNCHANGED <<kernel_page_table, pagetable_video, paging>>
         /\ at # "flush" => tlb' = tlb
         /\ at = "flush" => tlb' = Flushed /\ UNCHANGED kernel_page_directory
         /\ kernel_page_directory' \in [Index -> DirectoryEntry]
         /\ \A i \in Index \ {PROGRAM_IMG_PDE_INDEX} :
              kernel_page_directory'[i] = kernel_page_directory[i]
         /\ at = "present" => ProgramEntry' = [ProgramEntry EXCEPT !.present = 1]
         /\ at = "user_bit" => ProgramEntry' = [ProgramEntry EXCEPT !.user = 1]
         /\ at = "table_addr" => ProgramEntry' = [ProgramEntry EXCEPT !.table_addr = <<1 + arg, 0>>]
<1>1. at \in ProgramSteps /\ execute_paging_init(at, arg)
  BY DEF ProgramStep
<1>2. /\ kernel_page_directory \in [Index -> DirectoryEntry]
      /\ PROGRAM_IMG_PDE_INDEX \in Index /\ ProgramEntry \in DirectoryEntry
  BY IndexFacts DEF IInv, TypeOK, PagingTypeOK, ProgramEntry
<1>3. <<1 + arg, 0>> \in Frame
  <2>1. arg \in 0..MAX_PROCESSES
    BY <1>1, ProcessesAssumption DEF IInv, CallInProgress, TypeOK, InProcess, PIDs, NULL
  <2> QED
    BY <2>1, IndexFacts DEF Frame
<1>4. ASSUME NEW e \in DirectoryEntry, SetDirectory(PROGRAM_IMG_PDE_INDEX, e)
      PROVE  /\ UNCHANGED <<kernel_page_table, pagetable_video, paging, tlb>>
             /\ kernel_page_directory' \in [Index -> DirectoryEntry]
             /\ \A i \in Index \ {PROGRAM_IMG_PDE_INDEX} :
                  kernel_page_directory'[i] = kernel_page_directory[i]
             /\ ProgramEntry' = e
  BY <1>2, <1>4 DEF SetDirectory, ProgramEntry
<1>5. CASE at = "present"
  <2>1. SetDirectory(PROGRAM_IMG_PDE_INDEX, [ProgramEntry EXCEPT !.present = 1])
    BY <1>1, <1>5 DEF execute_paging_init, ProgramEntry
  <2>2. [ProgramEntry EXCEPT !.present = 1] \in DirectoryEntry
    BY <1>2 DEF DirectoryEntry, Bit
  <2> QED
    BY <1>4, <1>5, <2>1, <2>2
<1>6. CASE at = "user_bit"
  <2>1. SetDirectory(PROGRAM_IMG_PDE_INDEX, [ProgramEntry EXCEPT !.user = 1])
    BY <1>1, <1>6 DEF execute_paging_init, ProgramEntry
  <2>2. [ProgramEntry EXCEPT !.user = 1] \in DirectoryEntry
    BY <1>2 DEF DirectoryEntry, Bit
  <2> QED
    BY <1>4, <1>6, <2>1, <2>2
<1>7. CASE at = "table_addr"
  <2>1. SetDirectory(PROGRAM_IMG_PDE_INDEX, [ProgramEntry EXCEPT !.table_addr = <<1 + arg, 0>>])
    BY <1>1, <1>7 DEF execute_paging_init, ProgramEntry, ProgramFrame
  <2>2. [ProgramEntry EXCEPT !.table_addr = <<1 + arg, 0>>] \in DirectoryEntry
    BY <1>2, <1>3 DEF DirectoryEntry
  <2> QED
    BY <1>4, <1>7, <2>1, <2>2
<1>8. CASE at = "flush"
  BY <1>1, <1>2, <1>8 DEF execute_paging_init, flush_tlb, tables
<1> QED
  BY <1>1, <1>5, <1>6, <1>7, <1>8 DEF ProgramSteps

\* A statement of execute_paging_init.
LEMMA ProgramStepKeepsInvariant ==
  ASSUME IInv, ProgramStep
  PROVE  IInv'
<1>1. /\ UNCHANGED <<gateVars, fileVars, termVars, callVars, arg, next>>
      /\ paging /\ at' \in InProcess \ {"user"} /\ at' \notin VidmemSteps
      /\ at = "present" => at' = "user_bit"
      /\ at = "user_bit" => at' = "table_addr"
      /\ at = "table_addr" => at' = "flush"
      /\ at = "flush" => at' = next
      /\ CallInProgress' /\ CallChain' /\ Gates'
  BY ProgramStepControl
<1>2. /\ UNCHANGED <<kernel_page_table, pagetable_video, paging>>
      /\ at # "flush" => tlb' = tlb
      /\ at = "flush" => tlb' = Flushed /\ UNCHANGED kernel_page_directory
      /\ kernel_page_directory' \in [Index -> DirectoryEntry]
      /\ \A i \in Index \ {PROGRAM_IMG_PDE_INDEX} :
           kernel_page_directory'[i] = kernel_page_directory[i]
      /\ at = "present" => ProgramEntry' = [ProgramEntry EXCEPT !.present = 1]
      /\ at = "user_bit" => ProgramEntry' = [ProgramEntry EXCEPT !.user = 1]
      /\ at = "table_addr" => ProgramEntry' = [ProgramEntry EXCEPT !.table_addr = <<1 + arg, 0>>]
  BY ProgramStepPages
<1>3. /\ TypeOK /\ FixedEntries /\ FixedTranslations /\ VideoTableIsEmpty
      /\ ProgramPage /\ VidmemPage /\ CallInProgress /\ at \in ProgramSteps
  BY <1>1 DEF IInv, ProgramStep
<1>4. TypeOK'
  <2>1. tlb' \in [Pages -> Translation \cup {NotCached}]
    BY <1>2, <1>3 DEF TypeOK, PagingTypeOK, Flushed
  <2>2. PagingTypeOK'
    BY <1>2, <1>3, <2>1 DEF TypeOK, PagingTypeOK
  <2> QED
    BY <1>1, <1>3, <2>2 DEF TypeOK, InProcess, gateVars, fileVars, termVars, callVars, Calls!Live
<1>5. FixedEntries'
  BY <1>2, <1>3, IndexFacts DEF FixedEntries
<1>6. FixedTranslations' /\ VideoTableIsEmpty'
  BY <1>2, <1>3 DEF FixedTranslations, VideoTableIsEmpty, Flushed
<1>7. ProgramPage'
  <2>1. ProgramEntry \in DirectoryEntry /\ ProgramEntry.size = 1
    BY <1>1, <1>3, IndexFacts DEF TypeOK, PagingTypeOK, ProgramEntry, ProgramPage
  <2>2. CASE at = "present"
    BY <1>1, <1>2, <2>1, <2>2 DEF ProgramPage, OwnSteps, VidmemSteps, DirectoryEntry
  <2>3. CASE at = "user_bit"
    BY <1>1, <1>2, <1>3, <2>1, <2>3 DEF ProgramPage, OwnSteps, VidmemSteps, DirectoryEntry
  <2>4. CASE at = "table_addr"
    <3>1. ProgramEntry' = Mapped(arg)
      BY <1>2, <1>3, <2>1, <2>4 DEF ProgramPage, DirectoryEntry, Mapped
    <3>2. arg' = arg /\ at' = "flush"
      BY <1>1, <2>4
    <3> QED
      BY <3>1, <3>2 DEF ProgramPage, OwnSteps, VidmemSteps, Mapped
  <2>5. CASE at = "flush"
    <3>1. ProgramEntry' = Mapped(arg) /\ \A v \in Pages : tlb'[v] = NotCached
      BY <1>2, <1>3, <2>5 DEF ProgramPage, ProgramEntry, Flushed
    <3>2. \/ at' \in {"load", "resume"} /\ arg = running' + 1
          \/ at' = "restart"
      BY <1>1, <1>3, <2>5 DEF CallInProgress, callVars
    <3>3. ProgramEntry'.size = 1
      BY <3>1 DEF Mapped
    <3> QED
      BY <3>1, <3>2, <3>3 DEF ProgramPage, OwnSteps, VidmemSteps
  <2> QED
    BY <1>3, <2>2, <2>3, <2>4, <2>5 DEF ProgramSteps
<1>8. VidmemPage'
  <2>1. VidmemEntry' = VidmemEntry
    BY <1>2, IndexFacts DEF VidmemEntry
  <2>2. at \notin VidmemSteps
    BY <1>3 DEF ProgramSteps, VidmemSteps
  <2> QED
    BY <1>1, <1>2, <1>3, <2>1, <2>2 DEF VidmemPage, VidmemIsMapped, Flushed
<1> QED
  BY <1>1, <1>2, <1>4, <1>5, <1>6, <1>7, <1>8 DEF IInv

\* Where a statement of map_vidmem leads, whatever it does.
LEMMA VidmemStepControl ==
  ASSUME IInv, VidmemStep
  PROVE  /\ UNCHANGED <<gateVars, fileVars, termVars, callVars, arg, next>>
         /\ paging /\ at' \in VidmemSteps \cup {"resume"} /\ at' # "v_present"
         /\ at' = "v_user" => at = "v_present"
         /\ at' = "v_size" => at = "v_user"
         /\ at' = "v_table" => at = "v_size"
         /\ at' = "pte_present" => at = "v_table"
         /\ at' = "pte_user" => at = "pte_present"
         /\ at' = "pte_addr" => at = "pte_user"
         /\ at' = "v_flush" => at = "pte_addr"
         /\ at' = "resume" => at = "v_flush"
         /\ CallInProgress' /\ CallChain' /\ Gates'
<1> USE DEF VidmemSteps
<1>1. at \in VidmemSteps
  BY DEF VidmemStep
<1>2. /\ UNCHANGED <<gateVars, fileVars, termVars, callVars, arg, next>>
      /\ at' = AfterVidmemStep[at]
  BY DEF VidmemStep, Goto
<1>3. CallInProgress /\ CallChain /\ Gates /\ paging
  BY <1>1 DEF IInv, PagedSteps, InProcess
<1>4. next = "resume" /\ running # NULL /\ ~if_flag
  BY <1>1, <1>3 DEF CallInProgress, Gates, InProcess
<1>5. /\ at' \in VidmemSteps \cup {"resume"} /\ at' # "v_present"
      /\ at' = "v_user" => at = "v_present"
      /\ at' = "v_size" => at = "v_user"
      /\ at' = "v_table" => at = "v_size"
      /\ at' = "pte_present" => at = "v_table"
      /\ at' = "pte_user" => at = "pte_present"
      /\ at' = "pte_addr" => at = "pte_user"
      /\ at' = "v_flush" => at = "pte_addr"
      /\ at' = "resume" => at = "v_flush"
  BY <1>1, <1>2, <1>4 DEF AfterVidmemStep
<1>6. CallInProgress'
  <2>1. UNCHANGED <<running, next>>
    BY <1>2 DEF callVars
  <2> QED
    BY <1>4, <1>5, <2>1 DEF CallInProgress, ProgramSteps
<1>7. CallChain'
  BY <1>2, <1>3 DEF CallChain, callVars, Calls!Live
<1>8. Gates'
  BY <1>1, <1>2, <1>3, <1>4, <1>5 DEF Gates, gateVars
<1> QED
  BY <1>2, <1>3, <1>5, <1>6, <1>7, <1>8

\* Only vidmap's entry and the first one of its table change.
LEMMA VidmemStepPages ==
  ASSUME IInv, VidmemStep
  PROVE  /\ UNCHANGED <<kernel_page_table, paging>>
         /\ at # "v_flush" => tlb' = tlb
         /\ at = "v_flush" => tlb' = Flushed
         /\ kernel_page_directory' \in [Index -> DirectoryEntry]
         /\ pagetable_video' \in [Index -> TableEntry]
         /\ \A i \in Index \ {VMEM_PDE_INDEX} :
              kernel_page_directory'[i] = kernel_page_directory[i]
         /\ \A i \in Index \ {0} : pagetable_video'[i] = pagetable_video[i]
         /\ VidmemEntry' = [present    |-> IF at = "v_present" THEN 1 ELSE VidmemEntry.present,
                            user       |-> IF at = "v_user" THEN 1 ELSE VidmemEntry.user,
                            size       |-> IF at = "v_size" THEN 0 ELSE VidmemEntry.size,
                            table_addr |-> IF at = "v_table" THEN <<1, VIDEO_TABLE>>
                                           ELSE VidmemEntry.table_addr]
         /\ pagetable_video'[0] =
              [present   |-> IF at = "pte_present" THEN 1 ELSE pagetable_video[0].present,
               user      |-> IF at = "pte_user" THEN 1 ELSE pagetable_video[0].user,
               page_addr |-> IF at = "pte_addr" THEN <<0, VIDEO_ADDR>>
                             ELSE pagetable_video[0].page_addr]
<1> DEFINE e == VidmemEntry
           t == pagetable_video[0]
<1>1. at \in VidmemSteps /\ map_vidmem(at)
  BY DEF VidmemStep
<1>2. /\ kernel_page_directory \in [Index -> DirectoryEntry]
      /\ pagetable_video \in [Index -> TableEntry]
      /\ VMEM_PDE_INDEX \in Index /\ 0 \in Index /\ e \in DirectoryEntry /\ t \in TableEntry
  BY IndexFacts DEF IInv, TypeOK, PagingTypeOK, VidmemEntry
<1>3. <<1, VIDEO_TABLE>> \in Frame /\ <<0, VIDEO_ADDR>> \in Frame
  BY IndexFacts DEF Frame
<1>4. /\ e = [present |-> e.present, user |-> e.user, size |-> e.size, table_addr |-> e.table_addr]
      /\ t = [present |-> t.present, user |-> t.user, page_addr |-> t.page_addr]
  BY <1>2 DEF DirectoryEntry, TableEntry
<1>5. ASSUME NEW d \in DirectoryEntry, SetDirectory(VMEM_PDE_INDEX, d)
      PROVE  /\ UNCHANGED <<kernel_page_table, pagetable_video, paging, tlb>>
             /\ kernel_page_directory' \in [Index -> DirectoryEntry]
             /\ \A i \in Index \ {VMEM_PDE_INDEX} :
                  kernel_page_directory'[i] = kernel_page_directory[i]
             /\ VidmemEntry' = d
  BY <1>2, <1>5 DEF SetDirectory, VidmemEntry
<1>6. ASSUME NEW d \in TableEntry, SetVideoTable(d)
      PROVE  /\ UNCHANGED <<kernel_page_table, kernel_page_directory, paging, tlb>>
             /\ pagetable_video' \in [Index -> TableEntry]
             /\ \A i \in Index \ {0} : pagetable_video'[i] = pagetable_video[i]
             /\ pagetable_video'[0] = d
             /\ VidmemEntry' = VidmemEntry
  BY <1>2, <1>6 DEF SetVideoTable, VidmemEntry
<1>7. CASE at = "v_present"
  <2>1. SetDirectory(VMEM_PDE_INDEX, [e EXCEPT !.present = 1])
    BY <1>1, <1>7 DEF map_vidmem, VidmemEntry
  <2>2. [e EXCEPT !.present = 1] \in DirectoryEntry
    BY <1>2 DEF DirectoryEntry, Bit
  <2> QED
    BY <1>2, <1>4, <1>5, <1>7, <2>1, <2>2
<1>8. CASE at = "v_user"
  <2>1. SetDirectory(VMEM_PDE_INDEX, [e EXCEPT !.user = 1])
    BY <1>1, <1>8 DEF map_vidmem, VidmemEntry
  <2>2. [e EXCEPT !.user = 1] \in DirectoryEntry
    BY <1>2 DEF DirectoryEntry, Bit
  <2> QED
    BY <1>2, <1>4, <1>5, <1>8, <2>1, <2>2
<1>9. CASE at = "v_size"
  <2>1. SetDirectory(VMEM_PDE_INDEX, [e EXCEPT !.size = 0])
    BY <1>1, <1>9 DEF map_vidmem, VidmemEntry
  <2>2. [e EXCEPT !.size = 0] \in DirectoryEntry
    BY <1>2 DEF DirectoryEntry, Bit
  <2> QED
    BY <1>2, <1>4, <1>5, <1>9, <2>1, <2>2
<1>10. CASE at = "v_table"
  <2>1. SetDirectory(VMEM_PDE_INDEX, [e EXCEPT !.table_addr = <<1, VIDEO_TABLE>>])
    BY <1>1, <1>10 DEF map_vidmem, VidmemEntry
  <2>2. [e EXCEPT !.table_addr = <<1, VIDEO_TABLE>>] \in DirectoryEntry
    BY <1>2, <1>3 DEF DirectoryEntry
  <2> QED
    BY <1>2, <1>4, <1>5, <1>10, <2>1, <2>2
<1>11. CASE at = "pte_present"
  <2>1. SetVideoTable([t EXCEPT !.present = 1])
    BY <1>1, <1>11 DEF map_vidmem
  <2>2. [t EXCEPT !.present = 1] \in TableEntry
    BY <1>2 DEF TableEntry, Bit
  <2> QED
    BY <1>2, <1>4, <1>6, <1>11, <2>1, <2>2
<1>12. CASE at = "pte_user"
  <2>1. SetVideoTable([t EXCEPT !.user = 1])
    BY <1>1, <1>12 DEF map_vidmem
  <2>2. [t EXCEPT !.user = 1] \in TableEntry
    BY <1>2 DEF TableEntry, Bit
  <2> QED
    BY <1>2, <1>4, <1>6, <1>12, <2>1, <2>2
<1>13. CASE at = "pte_addr"
  <2>1. SetVideoTable([t EXCEPT !.page_addr = <<0, VIDEO_ADDR>>])
    BY <1>1, <1>13 DEF map_vidmem
  <2>2. [t EXCEPT !.page_addr = <<0, VIDEO_ADDR>>] \in TableEntry
    BY <1>2, <1>3 DEF TableEntry
  <2> QED
    BY <1>2, <1>4, <1>6, <1>13, <2>1, <2>2
<1>14. CASE at = "v_flush"
  <2>1. tlb' = Flushed /\ UNCHANGED <<kernel_page_directory, kernel_page_table,
                                      pagetable_video, paging>>
    BY <1>1, <1>14 DEF map_vidmem, flush_tlb, tables
  <2> QED
    BY <1>2, <1>4, <1>14, <2>1 DEF VidmemEntry
<1> QED
  BY <1>1, <1>7, <1>8, <1>9, <1>10, <1>11, <1>12, <1>13, <1>14 DEF VidmemSteps

\* A statement of map_vidmem.
LEMMA VidmemStepKeepsInvariant ==
  ASSUME IInv, VidmemStep
  PROVE  IInv'
<1>1. /\ UNCHANGED <<gateVars, fileVars, termVars, callVars, arg, next>>
      /\ paging /\ at' \in VidmemSteps \cup {"resume"} /\ at' # "v_present"
      /\ at' = "v_user" => at = "v_present"
      /\ at' = "v_size" => at = "v_user"
      /\ at' = "v_table" => at = "v_size"
      /\ at' = "pte_present" => at = "v_table"
      /\ at' = "pte_user" => at = "pte_present"
      /\ at' = "pte_addr" => at = "pte_user"
      /\ at' = "v_flush" => at = "pte_addr"
      /\ at' = "resume" => at = "v_flush"
      /\ CallInProgress' /\ CallChain' /\ Gates'
  BY VidmemStepControl
<1>2. /\ UNCHANGED <<kernel_page_table, paging>>
      /\ at # "v_flush" => tlb' = tlb
      /\ at = "v_flush" => tlb' = Flushed
      /\ kernel_page_directory' \in [Index -> DirectoryEntry]
      /\ pagetable_video' \in [Index -> TableEntry]
      /\ \A i \in Index \ {VMEM_PDE_INDEX} :
           kernel_page_directory'[i] = kernel_page_directory[i]
      /\ \A i \in Index \ {0} : pagetable_video'[i] = pagetable_video[i]
  BY VidmemStepPages
<1>3. /\ VidmemEntry' = [present    |-> IF at = "v_present" THEN 1 ELSE VidmemEntry.present,
                         user       |-> IF at = "v_user" THEN 1 ELSE VidmemEntry.user,
                         size       |-> IF at = "v_size" THEN 0 ELSE VidmemEntry.size,
                         table_addr |-> IF at = "v_table" THEN <<1, VIDEO_TABLE>>
                                        ELSE VidmemEntry.table_addr]
      /\ pagetable_video'[0] =
           [present   |-> IF at = "pte_present" THEN 1 ELSE pagetable_video[0].present,
            user      |-> IF at = "pte_user" THEN 1 ELSE pagetable_video[0].user,
            page_addr |-> IF at = "pte_addr" THEN <<0, VIDEO_ADDR>>
                          ELSE pagetable_video[0].page_addr]
  BY VidmemStepPages
<1>4. /\ TypeOK /\ FixedEntries /\ FixedTranslations /\ VideoTableIsEmpty
      /\ ProgramPage /\ VidmemPage /\ at \in VidmemSteps
  BY <1>1 DEF IInv, VidmemStep
<1>5. TypeOK'
  <2>1. tlb' \in [Pages -> Translation \cup {NotCached}]
    BY <1>2, <1>4 DEF TypeOK, PagingTypeOK, Flushed
  <2>2. PagingTypeOK'
    BY <1>2, <1>4, <2>1 DEF TypeOK, PagingTypeOK
  <2> QED
    BY <1>1, <1>4, <2>2 DEF TypeOK, gateVars, fileVars, termVars, callVars, Calls!Live
<1>6. FixedEntries'
  BY <1>2, <1>4, IndexFacts DEF FixedEntries
<1>7. FixedTranslations' /\ VideoTableIsEmpty'
  BY <1>2, <1>4 DEF FixedTranslations, VideoTableIsEmpty, Flushed
<1>8. ProgramPage'
  <2>1. ProgramEntry' = ProgramEntry /\ running' = running
    BY <1>1, <1>2, IndexFacts DEF ProgramEntry, callVars
  <2>2. at \in OwnSteps /\ at' \in OwnSteps
    BY <1>1, <1>4 DEF OwnSteps
  <2>3. \A v \in Pages : tlb'[v] # NotCached => tlb'[v] = tlb[v]
    BY <1>2 DEF Flushed
  <2>4. at' \notin ProgramSteps
    BY <1>1 DEF VidmemSteps, ProgramSteps
  <2> QED
    BY <1>1, <1>2, <1>4, <2>1, <2>2, <2>3, <2>4 DEF ProgramPage, ProgramSteps
<1>9. VidmemPage'
  <2>1. ASSUME at' \notin VidmemSteps
        PROVE  VidmemIsMapped' /\ \A v \in Pages : tlb'[v] = NotCached
    <3>1. at = "v_flush"
      BY <1>1, <2>1
    <3> QED
      BY <1>2, <1>3, <1>4, <3>1 DEF VidmemPage, VidmemSteps, VidmemIsMapped, Flushed
  <2>2. ASSUME at' \in VidmemSteps
        PROVE  /\ VidmemEntry'.present = 1
               /\ at' # "v_user" => VidmemEntry'.user = 1
               /\ at' \notin {"v_user", "v_size"} => VidmemEntry'.size = 0
               /\ at' \in {"pte_present", "pte_user", "pte_addr", "v_flush"} =>
                    VidmemEntry'.table_addr = <<1, VIDEO_TABLE>>
               /\ at' \in {"pte_user", "pte_addr", "v_flush"} => pagetable_video'[0].present = 1
               /\ at' \in {"pte_addr", "v_flush"} => pagetable_video'[0].user = 1
               /\ at' = "v_flush" => pagetable_video'[0].page_addr = <<0, VIDEO_ADDR>>
    BY <1>1, <1>3, <1>4, <2>2 DEF VidmemPage, VidmemSteps
  <2> QED
    BY <2>1, <2>2 DEF VidmemPage
<1> QED
  BY <1>1, <1>2, <1>5, <1>6, <1>7, <1>8, <1>9 DEF IInv

-----------------------------------------------------------------------------
(* The theorems *)

\* The machine starts with paging off, an empty IDT and no process.
LEMMA InitHolds == Init => IInv
<1> SUFFICES ASSUME Init PROVE IInv
  OBVIOUS
<1> USE DEF Init, PagingInit, Calls!Init, Calls!Live
<1>1. PagingTypeOK
  <2>1. Zero \in Frame
    BY IndexFacts DEF Zero, Frame
  <2> QED
    BY <2>1 DEF PagingTypeOK, DirectoryEntry, TableEntry, Bit, Flushed
<1>2. TypeOK
  <2>1. arg \in 0..(MAX_PROCESSES + 3) /\ curr_terminal_id \in Terminals
    BY ProcessesAssumption, BackingPagesAssumption DEF Terminals
  <2>2. idt \in [Vectors -> [present : Bit, dpl : {0, 3},
                          handler : {"none", "exception", "keyboard_handler",
                                     "rtc_handler", "syscall_handler"}]]
    BY DEF NoGate, Bit
  <2> QED
    BY <1>1, <2>1, <2>2 DEF TypeOK
<1>3. CallInProgress /\ CallChain /\ Gates /\ at \notin PagedSteps
  BY DEF CallInProgress, CallChain, Gates, InProcess, PagedSteps, ProgramSteps, VidmemSteps
<1>4. VideoTableIsEmpty /\ ProgramPage /\ VidmemPage
  BY DEF VideoTableIsEmpty, ProgramPage, VidmemPage, OwnSteps, VidmemSteps
<1> QED
  BY <1>2, <1>3, <1>4 DEF IInv

\* Every step of boot, of the kernel, of a program and of the MMU.
LEMMA NextKeepsInvariant == IInv /\ [Next]_vars => IInv'
<1> SUFFICES ASSUME IInv, [Next]_vars PROVE IInv'
  OBVIOUS
<1>1. CASE Start \/ Entry \/ RtcInit \/ KeyboardInitialize \/ FilesystemInitialize
  BY <1>1, EarlyBootKeepsInvariant
<1>2. CASE PagingInitialize
  BY <1>2, PagingInitKeepsInvariant
<1>3. CASE TerminalVideopageInit
  BY <1>3, VideopageInitKeepsInvariant
<1>4. CASE \E call \in BootCalls : Boot(call)
  BY <1>4, BootKeepsInvariant
<1>5. CASE ProgramStep
  BY <1>5, ProgramStepKeepsInvariant
<1>6. CASE Load \/ Resume \/ Restart
  BY <1>6, ReturnKeepsInvariant
<1>7. CASE Execute \/ Halt \/ (\E past \in BOOLEAN : Vidmap(past))
  BY <1>7, ProgramCallKeepsInvariant
<1>8. CASE VidmemStep
  BY <1>8, VidmemStepKeepsInvariant
<1>9. CASE \E t \in Terminals : terminal_switch(t)
  BY <1>9, SwitchKeepsInvariant
<1>10. CASE MmuFills
  BY <1>10, FillKeepsInvariant
<1>11. CASE UNCHANGED vars
  <2>1. UNCHANGED <<pageVars, cpuVars, gateVars, fileVars, termVars, callVars>>
    BY <1>11 DEF vars
  <2>2. UNCHANGED <<kernel_page_directory, kernel_page_table, pagetable_video, paging, tlb,
                    at, arg, next, if_flag, unmasked, idt, filesystem_img_addr, filesystem,
                    curr_terminal_id, terminal_active, caller, running>>
    BY <2>1 DEF pageVars, tables, cpuVars, gateVars, fileVars, termVars, callVars
  <2>3. TypeOK' /\ CallInProgress' /\ CallChain' /\ Gates'
    BY <2>2 DEF IInv, TypeOK, PagingTypeOK, CallInProgress, CallChain, Gates, Calls!Live
  <2>4. (paging => FixedEntries /\ FixedTranslations)' /\ VideoTableIsEmpty'
    BY <2>2 DEF IInv, FixedEntries, FixedTranslations, VideoTableIsEmpty
  <2>5. ProgramPage' /\ VidmemPage'
    BY <2>2 DEF IInv, ProgramPage, VidmemPage, ProgramEntry, VidmemEntry, VidmemIsMapped
  <2> QED
    BY <2>2, <2>3, <2>4, <2>5 DEF IInv
<1> QED
  BY <1>1, <1>2, <1>3, <1>4, <1>5, <1>6, <1>7, <1>8, <1>9, <1>10, <1>11 DEF Next

\* The invariant of the whole machine, from power on.
LEMMA InvariantHolds == Spec => []IInv
BY InitHolds, NextKeepsInvariant, PTL DEF Spec

\* What a program can reach while it runs, kept translations included.
LEMMA InvariantConfinesTheUser == IInv => UserReachesOnlyItsOwn
<1> SUFFICES ASSUME IInv, at \in {"load", "resume", "user"}
             PROVE  /\ paging
                    /\ \A v \in Pages : \A tr \in Translation :
                         (Reaches(v, tr) /\ tr.user = 1) =>
                           \/ v[1] = PROGRAM_IMG_PDE_INDEX /\ tr.frame = <<2 + running, v[2]>>
                           \/ v = <<VMEM_PDE_INDEX, 0>> /\ tr.frame = <<0, VIDEO_ADDR>>
  BY DEF UserReachesOnlyItsOwn
<1>1. at \in OwnSteps /\ at \in PagedSteps /\ at \notin VidmemSteps
  BY DEF OwnSteps, PagedSteps, InProcess, VidmemSteps
<1>2. /\ paging /\ TypeOK /\ FixedEntries /\ FixedTranslations /\ VideoTableIsEmpty
      /\ ProgramPage /\ VidmemPage
  BY <1>1 DEF IInv
<1> SUFFICES ASSUME NEW v \in Pages, NEW tr \in Translation, Reaches(v, tr), tr.user = 1
             PROVE  \/ v[1] = PROGRAM_IMG_PDE_INDEX /\ tr.frame = <<2 + running, v[2]>>
                    \/ v = <<VMEM_PDE_INDEX, 0>> /\ tr.frame = <<0, VIDEO_ADDR>>
  BY <1>2
<1>3. (tr = tlb[v] /\ tlb[v] # NotCached) \/ Walk(v, tr)
  BY DEF Reaches
<1>4. v[1] \in {0, 1, PROGRAM_IMG_PDE_INDEX, VMEM_PDE_INDEX}
  BY <1>2, <1>3, WalkIsFixed DEF FixedTranslations
<1>5. v[1] \notin {0, 1}
  <2> SUFFICES ASSUME v[1] \in {0, 1} PROVE FALSE
    OBVIOUS
  <2>1. tr = [frame |-> v, user |-> 0]
    BY <1>2, <1>3, WalkIsFixed DEF FixedTranslations
  <2> QED
    BY <2>1
<1>6. CASE v[1] = PROGRAM_IMG_PDE_INDEX
  <2>1. running \in Int
    BY <1>2 DEF TypeOK, PIDs, NULL
  <2>2. ASSUME Walk(v, tr) PROVE tr.frame = <<2 + running, v[2]>>
    <3>1. tr = [frame |-> <<1 + (running + 1), v[2]>>, user |-> 1]
      BY <1>1, <1>2, <1>6, <2>1, <2>2, WalkOfProgram DEF ProgramPage
    <3>2. 1 + (running + 1) = 2 + running
      BY <2>1
    <3> QED
      BY <3>1, <3>2
  <2>3. ASSUME tr = tlb[v], tlb[v] # NotCached PROVE tr.frame = <<2 + running, v[2]>>
    BY <1>1, <1>2, <1>6, <2>3 DEF ProgramPage
  <2> QED
    BY <1>3, <1>6, <2>2, <2>3
<1>7. CASE v[1] = VMEM_PDE_INDEX
  <2>1. ASSUME Walk(v, tr) PROVE v[2] = 0 /\ tr.frame = <<0, VIDEO_ADDR>>
    BY <1>1, <1>2, <1>7, <2>1, WalkOfVidmem DEF VidmemPage
  <2>2. ASSUME tr = tlb[v], tlb[v] # NotCached PROVE v[2] = 0 /\ tr.frame = <<0, VIDEO_ADDR>>
    BY <1>1, <1>2, <1>7, <2>2 DEF VidmemPage
  <2>3. v = <<v[1], v[2]>>
    BY FrameFacts
  <2> QED
    BY <1>3, <1>7, <2>1, <2>2, <2>3
<1> QED
  BY <1>4, <1>5, <1>6, <1>7

\* What an interrupt finds: its gate, and the kernel and the screen in place.
LEMMA InvariantServesInterrupts == IInv => InterruptsFindTheKernel
<1> SUFFICES ASSUME IInv PROVE InterruptsFindTheKernel
  OBVIOUS
<1>1. TypeOK /\ Gates
  BY DEF IInv
<1>2. ASSUME if_flag, NEW irq \in unmasked \cap {1, 8}
      PROVE  idt[VectorOf[irq]] = Gate(IF irq = 1 THEN "keyboard_handler"
                                       ELSE "rtc_handler", 0)
  <2>1. idt = init_IDT
    BY <1>1, <1>2 DEF Gates
  <2>2. /\ KEYBOARD_IRQ \in Vectors /\ RTC_IRQ \in Vectors
        /\ ~(KEYBOARD_IRQ < EXCEPTIONS_NUM) /\ ~(RTC_IRQ < EXCEPTIONS_NUM)
        /\ KEYBOARD_IRQ # RTC_IRQ
    BY VectorsAssumption DEF Vectors
  <2>3. CASE irq = 1
    BY <2>1, <2>2, <2>3 DEF VectorOf, init_IDT
  <2>4. CASE irq = 8
    BY <2>1, <2>2, <2>4 DEF VectorOf, init_IDT
  <2> QED
    BY <2>3, <2>4
<1>3. \A i \in Vectors : idt[i].dpl = 3 => i = SYSCALL
  BY <1>1 DEF Gates, init_IDT, NoGate, Gate
<1>4. ASSUME NEW v \in Pages, NEW tr \in Translation, Reaches(v, tr), v[1] \in {0, 1}
      PROVE  tr = [frame |-> v, user |-> 0]
  <2>1. paging /\ FixedEntries /\ FixedTranslations
    BY <1>4 DEF IInv, Reaches
  <2>2. (tr = tlb[v] /\ tlb[v] # NotCached) \/ Walk(v, tr)
    BY <1>4 DEF Reaches
  <2> QED
    BY <1>1, <1>4, <2>1, <2>2, WalkIsFixed DEF FixedTranslations
<1> QED
  BY <1>2, <1>3, <1>4 DEF InterruptsFindTheKernel

\* Every variable of the machine keeps its type: the entries and translations
\* of paging.c, the descriptors of IDT.c and the calls of syscall.c.
THEOREM TypeCorrect == Spec => []TypeOK
BY InvariantHolds, PTL DEF IInv

\* From execute_paging_init's and map_vidmem's flush on, a running program
\* reaches its own frame and the screen and nothing else, whatever the TLB kept.
THEOREM ProgramsAreConfined == Spec => []UserReachesOnlyItsOwn
BY InvariantHolds, InvariantConfinesTheUser, PTL

\* From rtc_init's sti on, an interrupt that is let through finds the gate
\* init_IDT gave it, and the kernel mapped to itself, out of a program's reach.
THEOREM KernelIsAlwaysThere == Spec => []InterruptsFindTheKernel
BY InvariantHolds, InvariantServesInterrupts, PTL

=============================================================================
