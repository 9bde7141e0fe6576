------------------------------- MODULE Paging --------------------------------
(***************************************************************************)
(* The page directory and the two page tables of the MP3 kernel (paging.c,  *)
(* paging.h), and what the MMU makes of them.                               *)
(*                                                                         *)
(* A page and a frame are both pairs: the number of a 4MB region, and the   *)
(* number of a 4KB page in it.  An entry's 20-bit base address is the pair  *)
(* of its upper and lower ten bits, so that base i of the code (i < 1024)   *)
(* is <<0, i>>.  Every page is writable, and that bit is left out.          *)
(*                                                                         *)
(* The MMU may read an entry and keep what it says in the TLB at any        *)
(* moment, also while the kernel is halfway through changing it; what it    *)
(* kept it goes on using until CR3 is loaded again.                         *)
(***************************************************************************)
EXTENDS Integers

CONSTANTS
  SPACE,                  \* entries of a directory or a table (1024)
  VIDEO_ADDR,             \* the 4KB page of the screen (0xB8)
  PROGRAM_IMG_PDE_INDEX,  \* the program's 4MB page (32: 128MB)
  VMEM_PDE_INDEX,         \* the 4MB region of vidmap's page (40: 160MB)
  KERNEL_TABLE,           \* the pages of the kernel's region that hold
  VIDEO_TABLE,            \* kernel_page_table and pagetable_video
  Pages,                  \* the pages whose translations are followed
  Wild                    \* a frame that no entry of the code names

Index == 0..(SPACE - 1)

ASSUME SpaceAssumption ==
  /\ SPACE \in Nat
  /\ VIDEO_ADDR \in Nat \ {0} /\ VIDEO_ADDR + 3 < SPACE
ASSUME RegionsAssumption ==
  /\ PROGRAM_IMG_PDE_INDEX \in Nat /\ PROGRAM_IMG_PDE_INDEX + 1 \in Index
  /\ PROGRAM_IMG_PDE_INDEX >= 2
  /\ VMEM_PDE_INDEX \in Index /\ VMEM_PDE_INDEX >= 2
  /\ VMEM_PDE_INDEX \notin {PROGRAM_IMG_PDE_INDEX, PROGRAM_IMG_PDE_INDEX + 1}
ASSUME TablesAssumption ==
  /\ KERNEL_TABLE \in Index /\ VIDEO_TABLE \in Index
  /\ KERNEL_TABLE # VIDEO_TABLE
ASSUME PagesAssumption == Pages \subseteq Index \X Index
ASSUME WildAssumption == Wild \notin Index \X Index

VARIABLES
  kernel_page_directory, kernel_page_table, pagetable_video,
  paging,             \* CR0.PG
  tlb                 \* the translation kept for each page, or NotCached

tables   == <<kernel_page_directory, kernel_page_table, pagetable_video>>
pageVars == <<tables, paging, tlb>>

Bit == {0, 1}
Frame == Index \X Index
DirectoryEntry == [present : Bit, user : Bit, size : Bit, table_addr : Frame]
TableEntry     == [present : Bit, user : Bit, page_addr : Frame]
Translation    == [frame : Frame \cup {Wild}, user : Bit]
NotCached      == [frame |-> Wild, user |-> -1]

-----------------------------------------------------------------------------
(* The MMU *)

\* An entry that leads to memory no table of the code occupies, or whose base
\* is not that of a 4MB page, may stand for anything.
Anything(e, tr) == tr.frame = Wild /\ tr.user <= e.user

Through(table, e, v, tr) ==
  /\ table[v[2]].present = 1
  /\ tr.frame = table[v[2]].page_addr
  /\ tr.user = IF e.user = 1 THEN table[v[2]].user ELSE 0

\* tr is what a walk of the tables may make of page v.
Walk(v, tr) ==
  LET e == kernel_page_directory[v[1]] IN
  /\ tr \in Translation
  /\ e.present = 1
  /\ \/ /\ e.size = 1 /\ e.table_addr[2] = 0
        /\ tr = [frame |-> <<e.table_addr[1], v[2]>>, user |-> e.user]
     \/ e.size = 1 /\ e.table_addr[2] # 0 /\ Anything(e, tr)
     \/ /\ e.size = 0 /\ e.table_addr = <<1, KERNEL_TABLE>>
        /\ Through(kernel_page_table, e, v, tr)
     \/ /\ e.size = 0 /\ e.table_addr = <<1, VIDEO_TABLE>>
        /\ Through(pagetable_video, e, v, tr)
     \/ /\ e.size = 0 /\ e.table_addr \notin {<<1, KERNEL_TABLE>>, <<1, VIDEO_TABLE>>}
        /\ Anything(e, tr)

\* What an access to page v may use: a kept translation or a walk.
Reaches(v, tr) == paging /\ (tr = tlb[v] \/ Walk(v, tr)) /\ tr # NotCached

\* The MMU keeps a translation; no instruction has to ask for it.
Fill(v) ==
  /\ paging
  /\ tlb[v] = NotCached
  /\ \E tr \in Translation : Walk(v, tr) /\ tlb' = [tlb EXCEPT ![v] = tr]
  /\ UNCHANGED <<tables, paging>>

Flushed == [v \in Pages |-> NotCached]

\* Whether an access of the kernel to page v faults.
Faults(v) == paging /\ ~\E tr \in Translation : Walk(v, tr)

-----------------------------------------------------------------------------
(* paging.c *)

Zero == <<0, 0>>

\* paging_init fills the directory and the table, and turns paging on.
InitialDirectory ==
  [i \in Index |->
     IF i = 0 THEN [present |-> 1, user |-> 0, size |-> 0,
                    table_addr |-> <<1, KERNEL_TABLE>>]
     ELSE IF i = 1 THEN [present |-> 1, user |-> 0, size |-> 1,
                         table_addr |-> <<1, 0>>]
     ELSE [present |-> 0, user |-> 0, size |-> 1, table_addr |-> <<0, i>>]]

InitialTable ==
  [i \in Index |-> [present |-> IF i = VIDEO_ADDR THEN 1 ELSE 0,
                    user |-> 0, page_addr |-> <<0, i>>]]

paging_init ==
  /\ kernel_page_directory' = InitialDirectory
  /\ kernel_page_table' = InitialTable
  /\ paging' = TRUE
  /\ tlb' = Flushed
  /\ UNCHANGED pagetable_video

\* The backing page of terminal number t - 1.  Nothing is flushed: a page that
\* was not present is not kept.
terminal_videopage_init(t) ==
  /\ kernel_page_table' =
       [kernel_page_table EXCEPT ![VIDEO_ADDR + t] =
          [present |-> 1, user |-> 0, page_addr |-> <<0, VIDEO_ADDR + t>>]]
  /\ UNCHANGED <<kernel_page_directory, pagetable_video, paging, tlb>>

SetDirectory(i, e) ==
  /\ kernel_page_directory' = [kernel_page_directory EXCEPT ![i] = e]
  /\ UNCHANGED <<kernel_page_table, pagetable_video, paging, tlb>>

SetVideoTable(e) ==
  /\ pagetable_video' = [pagetable_video EXCEPT ![0] = e]
  /\ UNCHANGED <<kernel_page_directory, kernel_page_table, paging, tlb>>

\* Fault: CR3 is not loaded again.
flush_tlb_none == UNCHANGED pageVars

\* CR3 is loaded with itself; no entry is global.
flush_tlb == tlb' = Flushed /\ UNCHANGED <<tables, paging>>

\* Fault: the page of the next process.
ProgramFrame_next(arg) == <<2 + arg, 0>>

\* The base execute_paging_init(arg) computes: 8MB and arg - 1 times 4MB.
ProgramFrame(arg) == <<1 + arg, 0>>

\* The statements of execute_paging_init(arg), one at a time.
ProgramSteps == {"present", "user_bit", "table_addr", "flush"}

execute_paging_init(step, arg) ==
  LET e == kernel_page_directory[PROGRAM_IMG_PDE_INDEX] IN
  \/ /\ step = "present"
     /\ SetDirectory(PROGRAM_IMG_PDE_INDEX, [e EXCEPT !.present = 1])
  \/ /\ step = "user_bit"
     /\ SetDirectory(PROGRAM_IMG_PDE_INDEX, [e EXCEPT !.user = 1])
  \/ /\ step = "table_addr"
     /\ SetDirectory(PROGRAM_IMG_PDE_INDEX, [e EXCEPT !.table_addr = ProgramFrame(arg)])
  \/ step = "flush" /\ flush_tlb

\* The statements of map_vidmem, one at a time.
VidmemSteps == {"v_present", "v_user", "v_size", "v_table", "pte_present",
                "pte_user", "pte_addr", "v_flush"}

map_vidmem(step) ==
  LET e == kernel_page_directory[VMEM_PDE_INDEX]
      t == pagetable_video[0]
  IN
  \/ step = "v_present" /\ SetDirectory(VMEM_PDE_INDEX, [e EXCEPT !.present = 1])
  \/ step = "v_user" /\ SetDirectory(VMEM_PDE_INDEX, [e EXCEPT !.user = 1])
  \/ step = "v_size" /\ SetDirectory(VMEM_PDE_INDEX, [e EXCEPT !.size = 0])
  \/ /\ step = "v_table"
     /\ SetDirectory(VMEM_PDE_INDEX, [e EXCEPT !.table_addr = <<1, VIDEO_TABLE>>])
  \/ step = "pte_present" /\ SetVideoTable([t EXCEPT !.present = 1])
  \/ step = "pte_user" /\ SetVideoTable([t EXCEPT !.user = 1])
  \/ step = "pte_addr" /\ SetVideoTable([t EXCEPT !.page_addr = <<0, VIDEO_ADDR>>])
  \/ step = "v_flush" /\ flush_tlb

-----------------------------------------------------------------------------
PagingInit ==
  /\ kernel_page_directory =
       [i \in Index |-> [present |-> 0, user |-> 0, size |-> 0, table_addr |-> Zero]]
  /\ kernel_page_table = [i \in Index |-> [present |-> 0, user |-> 0, page_addr |-> Zero]]
  /\ pagetable_video = [i \in Index |-> [present |-> 0, user |-> 0, page_addr |-> Zero]]
  /\ paging = FALSE
  /\ tlb = Flushed

PagingTypeOK ==
  /\ kernel_page_directory \in [Index -> DirectoryEntry]
  /\ kernel_page_table \in [Index -> TableEntry]
  /\ pagetable_video \in [Index -> TableEntry]
  /\ paging \in BOOLEAN
  /\ tlb \in [Pages -> Translation \cup {NotCached}]

=============================================================================
