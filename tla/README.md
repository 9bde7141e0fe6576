# TLA+ models of the ECE 391 machine problems

This directory holds the verification development of the repository's three
programs: the MP1 blink-list kernel module (`mp1_rthakk21/`), the MP2 Tux
controller driver and maze game (`mp2_rthakk21/`) and, first of all, the MP3
operating system (`mp3_group_59/student-distrib/`). Every definition is
translated from the C or assembly source; `PROJECT.json` (`map`) names the lines.

## 1. Inventory

### MP3: a single-CPU kernel with three terminals (`mp3_group_59/student-distrib`)

| part | state | operations | interacts with |
|---|---|---|---|
| process manager, `syscall.c` (+ `paging.c`, `x86_desc`) | `pid`, `parent_pid`, `pcb_obj`; five PCBs, one at the bottom of each 8kB kernel stack; `tss.esp0`; the 4MB program page | `system_execute`, `system_halt`, `open`, `close`, `read`, `write`, `getargs`, `vidmap`; the exception handlers call `halt(255)` | terminal (a switch may execute a shell), file system, paging |
| terminal driver, `terminal_driver.c` | `curr_terminal_id`, `terminals[3]` (saved line, cursor, video page) | `terminal_init`, `terminal_switch`, `terminal_read`, `terminal_write` | keyboard (shared line buffer and flag), process manager |
| keyboard, `keyboard.c` | `keyboard_buffer[128]`, `num_chars_typed`, `enter_pressed_flag`, modifier flags | `keyboard_handler` (interrupt) | terminal driver, screen |
| RTC, `rtc.c` | interrupt flag, rate | `rtc_handler` (interrupt), `open`, `read`, `write`, `set_freq` | system calls |
| file system, `filesystem.c` | boot block, inodes, data blocks (read only); position in each descriptor | `read_dentry_by_name/index`, `read_data`, file and directory reads | execute, open, read |
| screen, `lib.c` | cursor, 80x25 video memory | `putc`, `clear`, `scroll`, `set_cursor` | keyboard, terminal |
| interrupt controller, `i8259.c` | two mask bytes | `enable_irq`, `disable_irq`, `send_eoi` | all devices |
| paging, `paging.c` | page directory, two page tables, the TLB below them | `paging_init`, `execute_paging_init`, `map_vidmem`, `terminal_videopage_init`, `flush_tlb` | execute, halt, vidmap |
| boot, descriptors, IDT, entry stubs | IDT, segment descriptors, interrupt flag and masks | `start`, `entry`, `init_IDT`, `syscall_handler` | everything |

What is hard: there is no scheduler, but there is a second actor, the interrupts.
A system call runs with interrupts off until it executes `sti`; `terminal_read`,
`rtc_read`, `system_execute` and `system_halt` all do. An Alt+Fn in the keyboard
handler *executes a shell inside the interrupt*, which nests a whole session in
the handler's stack frame. Control comes back only through frames saved in PCBs.
What makes it right: the active PCBs form one chain of waiting callers; the
address space and the stack in the TSS are those of the running process; the
frame a halt returns through is still there; freed PCBs can be reused; a line
typed is delivered once; a tick wakes a waiting read; a program reaches its own memory
only, whatever the TLB has kept.

### MP2: Tux controller driver and maze game (`mp2_rthakk21`)

| part | state | operations | interacts with |
|---|---|---|---|
| line discipline, `module/tuxctl-ld.c` | receive and transmit rings of 64 bytes, parser leftovers | `put`, `get`, `write_wakeup`, `rcv_buf`, `data_callback` | serial port, protocol |
| Tux protocol, `module/tuxctl-ioctl.c` | `ack_flag`, button and LED bytes | `tuxctl_handle_packet`, four ioctls | line discipline, game |
| maze game, `mazegame.c` | position, direction, buttons, `quit`, mutexes, condition variable | RTC thread, keyboard thread, Tux thread | maze, display, driver |
| maze, `maze.c` | grid with walls, fruit, exit, visited | `make_maze`, `check_for_fruit`, `check_for_win`, `find_open_directions`, drawing | game |
| mode X display, `modex.c` | build buffer window, two video pages | `set_view_window`, `draw_*_line`, `show_screen`, ... | maze, game |
| input, text, blocks, assert | terminal settings, fonts, images | | game |

Hard here: the interrupt side of the driver against its write side (a reset and
its acknowledgement, a lost byte, a full ring), the packet framing over arbitrary
splits of the stream, and three threads that use two different mutexes for one
piece of state.

### MP1: blink list (`mp1_rthakk21/mp1.S`)

A linked list of blink structures, walked by `mp1_rtc_tasklet` on every RTC tick
and changed by four ioctls (`add`, `remove`, `find`, `sync`); the tasklet may run
between any two steps of an ioctl and no lock protects the list. Correct means:
no structure is used after it is freed or leaked, each structure toggles after
its own on and off periods, and synchronised ones toggle together.

### Left aside

`fish`, `fsdir`, `createfs`/`elfconvert`, `file.c` (programs and tools given by the
course), images, fonts, demos, build files. Of the user programs the shell, `cat`, `ls`,
`hello` and `pingpong` are modelled with the kernel they run on; what any other program
can do is what the system calls accept.

## 2. Modules

| modules | contents | proofs |
|---|---|---|
| `Process`, `CallTree`, `MCProcess` | the process manager; what execute and halt promise | `ProcessProofs` |
| `Paging`, `Protection`, `MCProtection` | page tables and TLB; boot, interrupt gates, and the page tables under execute, halt, vidmap and Alt+Fn | `ProtectionProofs` |
| `Terminal`, `LineDiscipline`, `MCTerminal` | keyboard interrupt, line buffer, `terminal_read`, switches; what a reader is promised | `TerminalProofs` |
| `Screen`, `FileSystem`, `Interrupts`; `KernelIO` puts them together; `MCKernelIO` | screen output, files, interrupt controllers and RTC, with keys, terminals and user programs | `KernelIOProofs` |
| `TuxLdisc`, `MCTuxLdisc` | rings, serial port, packet framing | `TuxProofs` |
| `TuxLeds`, used by `TuxProtocol`; `MCTuxProtocol` | from the clock to the bytes and to lit segments; driver and controller: buttons, LEDs, reset, acknowledgement | `TuxProofs` |
| `Blink`, `MCBlink` | tasklet against ioctls on the list | `BlinkProofs` |
| `MazeGame`, `MCMazeGame` | threads, mutexes, motion, joining | `MazeGameProofs` |
| `Maze`, `ModeX`; `MazeLevel` puts them together; `MCMazeLevel` | digging a maze, the panned display, a level played on it | `MazeLevelProofs` |

`Process`, `Protection`, `Terminal` and `KernelIO` look at one kernel from four sides. `Process`
owns who runs and on which stack; `Protection` takes who runs from `CallTree`, which `Process`
implements, and owns the page tables and the way up to the first program; `Terminal` owns the line buffer at the grain of single
memory accesses, and sees of a process only the shell that reads; `KernelIO` has the
screen, files, RTC and interrupt levels, and takes code that runs with interrupts off as
one action.

## 3. `Process`: the process manager

**State.** `pid`, `parent_pid`, `pcb_obj` are the globals. `pcb` is the array of
PCBs (`active`, `parent_pid`, the argument string by its origin, the descriptor
array by operations table and flags, the saved frame, `tss_esp0`). `pde` is the
physical address of the program page, `tss_esp0` the TSS field. `kstack` holds,
for each kernel stack, the frames something will still return through; `cpu`
says what the CPU does and on which stack. `exec_ret` is the last value execute
returned to a program, with its cause; it and the PCB's argument string are part of the state for
completeness, the only property about either is `TypeOK`. `curr_terminal_id` and `terminal_active`
are the terminal driver's.

**Stacks.** `esp_val`/`ebp_val` of a PCB point to a frame of `system_execute`; the
model names a frame by its stack and its height, and remembers in the frame for
which child it waits, so that a `leave; ret` through a frame that was overwritten
is seen (`FrameIntact`). An entry from user mode starts at `tss.esp0`, so it
overwrites everything on that stack; an interrupt in kernel mode pushes on the
stack in use. The CHOOSE in `EntryStack` recovers the stack from the address in
the TSS, so the two formulas of the code for that address are both in the model.

**Actions.** One per operation: `Boot`, `Execute`/`ExecuteInvalid`/`ExecuteRefused`
(system_execute succeeding, refusing its argument, refusing for want of a PCB),
`Launch` (its `iret`), `Halt`, `Exception` (both `system_halt` up to its `sti`:
interrupts are off until then), `HaltReturn` (the switch of stacks), `terminal_switch`
(the keyboard interrupt on Alt+Fn with `terminal_init`), `ReadBegin`/`ReadEnd` (a read
that waits with interrupts on), `system_open`, `system_close`. Calls that change no
state of this module (`write`, `getargs`, `vidmap`, a failing `open` or `close`) are not
separate actions. `system_execute` and `system_halt` are split exactly where they
enable interrupts.

**Abstractions.** The file system decides only whether a command can be executed
(both outcomes are possible at any time); the program image, the copied bytes and
`inode_idx`/`file_position` are left out. The image of a program is copied whole from
the inode, so the branch for a short copy cannot be taken. A file is its type.
Memory not yet written (the PCBs at boot) is zero, as the loader leaves it. An
uninitialised `arg_starting_index` is a choice over what the copy can produce
(nothing, or memory that is no part of the command). `BootCalls` chooses whether
`entry()` calls `terminal_init(0)`: as committed the call is commented out
(kernel.c:161) and the kernel idles, the README's own description of the system
needs it, so `process` has both.

**Not in this model**: the line buffer (`Terminal`), the cursor, the
contents of files, user memory, the page tables beyond the program's base (`Protection`).

### Runs

All runs use 3 PCBs, 3 descriptors and 3 terminals (`MCProcess`). Three PCBs are the
least that give a running process, its caller and a base shell together, and a
full table above them; the third descriptor is the one that can be opened and
closed; three terminals is the code's number. One file type suffices, the RTC, for
only its reads wait; the statuses are 255 (extended to 256) and 0. There are no
other bounds: the state space is finite (about half a million states). Without the first
program an Alt+Fn takes the machine down, so the run may stop (`CHECK_DEADLOCK FALSE`).

| run | what it shows |
|---|---|
| `process` | all invariants, and `ImplementsCallTree`, over every interleaving of program calls, exceptions and keyboard interrupts, from either end of `entry()` |
| `halt_window` | violated: with keyboard interrupts also between the `sti` of halt and its switch of stacks (`KeysDuringHalt`), the frame halt returns through can be lost |

The invariants: `ActiveProcessesFormOneChain` (the parent links of active PCBs are one
chain from the running process to the base shell), `AddressSpaceIsCurrent` (page and
`tss.esp0`), `PidIsCurrentOrTableFull` (what a refused execute may spoil),
`ReturnFramesSurvive` (no later kernel entry overwrites a frame that a halt needs),
`ClosedDescriptorsDispatchToNull` (`system_write` has its flags test commented out: in
every PCB, in use or free, a descriptor that is not open has the null operations, and a free
PCB has no open one). The last sees what close, the fresh table of a started program and the
halt to a parent do, each on its own. The base shell's halt has a copy of the cleanup that
resets flags only; the restart fills the same PCB anew in the same step, with interrupts off, so
what that copy does shows nowhere.

`CallTree` states what the process manager promises with no table, page or stack: a
caller waits until the program it executed halts, and then continues.
`ImplementsCallTree` maps its `caller` to the `parent_pid`s of the active PCBs and its
`running` to `pcb_obj`. The restart of the base shell is a stuttering step there.

There is no liveness property: nothing makes a program halt, and the kernel itself
never waits for anything in this module.

### Proofs

For every number of processes (at least 2), descriptors (at least 2) and terminals,
every set of statuses and file types and both values of `KeysDuringHalt` and
`BootCalls`, the prover checks

| module | theorem | property |
|---|---|---|
| `ProcessProofs` | `InvariantHolds` | `IInv` |
| | `TypeCorrect` | `TypeOK` |
| | `AddressSpaceStaysCurrent` | `AddressSpaceIsCurrent` |
| | `PidStaysUsable` | `PidIsCurrentOrTableFull` |
| | `ActiveProcessesStayOneChain` | `ActiveProcessesFormOneChain` |
| | `ProcessImplementsCallTree` | `ImplementsCallTree` |
| | `ClosedDescriptorsStayNull` | `ClosedDescriptorsDispatchToNull` |
| | `ReturnFramesAreKept`, only for `KeysDuringHalt = FALSE` | `ReturnFramesSurvive` |

None of the invariants is inductive: that a refused execute spoils `pid` harmlessly
depends on the table being full exactly when the top process runs, and that a halt
finds a live parent depends on who started whom. `IInv` says why: `assign_PID` takes
the lowest free PCB and a halt frees the running process, so the active PCBs are
always `0..pcb_obj` and the parent of p is p - 1 (`TableInv`). Two lemmas carry the
argument, `AssignPidIsNext` (the lowest free slot above a full block is the next one)
and `HaltedTopShrinksTable`; `StartEstablishesTable` is shared by every way a program
starts (execute, restart, terminal switch, boot); `EntryStackIsOwn` shows that kernel
stacks do not overlap.

The refinement follows from the height of that block alone: `HeightMovesByOne` says that
every step raises it, lowers it or keeps it, and `HeightStepIsCallTreeStep` that each of
these is a step of `CallTree` or a stutter.

For the frames, `FramesInv` says of every process above the base shell that its `saved`
names a frame that waits for it, that this frame lies on the stack of a process *below* it,
and that of two such frames on one stack the later process's is the higher. A kernel entry
from user mode overwrites the stack of the running, topmost process, on which by this no
frame lies that anyone needs (`OwnStackIsFree`); what a frame resumes is a state of the
caller in which the same holds again (`Resumable`). The assumption cannot be dropped: with
`KeysDuringHalt = TRUE` the property is false, which is the run `halt_window`.

The other assumptions are the named ASSUMEs of `Process`. Every property of `process` is
proved, and all but the frames for keys inside halt as well.
`HaltReturnsThroughSavedFrame` is the property of the violated run.

### What the code does besides

Seen while modelling, the subject of no run: a refused execute leaves -99 in the global `pid`
(syscall.c:190-194). `halt(255)` is reported as 256, as an exception is (412-414).
`arg_starting_index` is read uninitialised when the command has no space (130-155).

## 4. `Protection`: boot, gates and page tables

**State.** `Paging` has the directory, the kernel's page table and vidmap's, `paging` (CR0.PG)
and the TLB. `Protection` adds the statement the kernel has come to (`at`, with its
argument and where its call returns), EFLAGS.IF, the IRQs the 8259s pass, the IDT, where the
file system is, which terminals are active, and `CallTree`'s `caller` and `running`, so that who is
executed and who is returned to is exactly what `Process` is proved to implement.

**The MMU** is not code, and is modelled as the manual allows it to behave (external): it may keep
what a walk of the tables gives at any moment, between any two assignments of the kernel, and uses
what it kept until CR3 is loaded again. An access may use the kept translation or a new walk
(`Reaches`). A half-written entry may point where no table or 4MB page of the code is: what is found
there is `Wild`, any memory.

**Actions.** `Start` (boot.S), `Entry` (with its early returns), `RtcInit`, `KeyboardInitialize`,
`FilesystemInitialize`, `PagingInitialize`, `TerminalVideopageInit` (a page at a time: interrupts
are on), `Boot` (the end of `entry()`); `ProgramStep` and `VidmemStep` are the statements of
`execute_paging_init` and `map_vidmem`, one at a time; `Load` is the copy of the program and
its `iret`; `Execute`, `Halt`, `Vidmap`, `Restart`, `Resume` are the calls; `terminal_switch` is Alt+Fn,
at every statement from `rtc_init`'s `sti` on at which interrupts are on; `MmuFills` the TLB.

**Abstractions.** All pages are writable, as they are in the code. The file system is there or not; a
program that is not found changes nothing here. The first `execute` of `terminal_init(0)` is
taken without a key press in it, though interrupts are on. A call past the end of the system call
table (the handler lets 9 and 10 through, the table ends at 8) is taken as an exception. Not
followed: a program started before paging is on (`"unpaged"`), and the machine after a fault of the
kernel itself without a process (`"crash"`). The failure of the copy in `system_execute` cannot be taken.

**Run `protection`.** Directories of six entries, in which the program's, the one behind it and
vidmap's are apart as in the code; three processes, so that a frame is used by a second program after
the first has left it; two terminals; seven watched pages, of every kind one: first page, screen,
backing page, kernel, program, and two of vidmap's region. The machine may crash or stop at boot, so
the run may stop. `UserReachesOnlyItsOwn`: a running program reaches its frame and the screen, and
nothing else. `InterruptsFindTheKernel`: every interrupt let through has its gate, no program calls
another gate than 0x80, and the kernel's pages are mapped to themselves, closed to programs.

**Proofs (`ProtectionProofs`).** Both, and `TypeOK`, for every number of processes, size of a
directory, place of the pages in it and set of watched pages, from the named ASSUMEs of `Paging` and
`Protection` (the tables lie in the kernel's 4MB; the regions are different; every process has its
frame). Neither is inductive. What the TLB keeps is what *some earlier* walk gave, so `IInv` speaks of
the tables and the TLB together: the fixed entries and what was kept of them (`FixedEntries`,
`FixedTranslations`); for the two entries that change, which of their fields are written at which
statement and, outside the call that writes them, that they and what was kept of them are the running
process's (`ProgramPage`, `VidmemPage`). The end of the call flushes, and until then the TLB may have
kept anything of that page: programs do not run there, for interrupts are off (`Gates`) and the call returns
only to where `CallInProgress` says. `WalkIsFixed`, `WalkOfProgram` and `WalkOfVidmem` say what a walk can
give; `ReturnKeepsChain` that a halt returns to a live caller.

**What the code does besides.** Seen while modelling, the subject of no run: `rtc_init` ends with
`sti`, so an Alt+F2 between `keyboard_initialize` and `paging_init` starts a shell without paging
(rtc.c:25). As committed, with `entry()` idle, the first Alt+Fn after boot saves the screen to the address
`video_mem_addr` of terminal 0 never got, and faults (terminal_driver.c:59). vidmap's page stays mapped
after the program that asked for it has halted. The range check of `system_vidmap` lets the first address
after the page pass (syscall.c:596); the store faults, and the exception halts the program. The base
shell's halt maps the kernel's own 4MB at 128MB with the user bit, until the next execute (358).

## 5. `Terminal`: keyboard interrupt and line buffer

**State.** `keyboard_buffer`, `num_chars_typed`, `enter_pressed_flag`, `curr_terminal_id`
and `terminals` are the code's. The buffer has one cell more than the code's array: the
memory behind it, which a line too long writes. A character remembers on which terminal
it was typed. `readers` is the stack of shells: an Alt+Fn on a fresh terminal runs a
shell inside the keyboard handler, so all but the last are interrupted wherever they
were. A reader has the program counter and the locals of `terminal_read` and the user's
buffer.

**Actions.** The keyboard handler runs with interrupts off, so each key is one action:
`Printable` and `Unprintable` (both `print_to_screen`), `Backspace`, `Tab`, `Enter`,
`terminal_switch` (with `terminal_init` and the start of the shell, which may be refused
for want of a PCB). `HaltShell` returns from the handler that started a shell.
`terminal_read` runs with interrupts on and is one action per access to shared state:
`ReadBegin`, `Wake`, `Copy` (a round of either loop), `Test`, `Terminate`, `ResetCount`,
`ResetFlag`, `ClearCell`, `ReadReturn`. Modifier keys, the case of a letter, key releases
and Ctrl-L change no state of this module.

**What it promises.** `LineDiscipline` is the abstract terminal: keys edit one line,
Enter closes it, a closed line is delivered whole to the read that waits, once and
eventually; a switch discards an open line. The refinement reads the line from the
shared buffer until the count is reset and from the user's buffer after that.

| run | what it shows |
|---|---|
| `terminal` | keys and switches anywhere, reads of either kind, lines up to the buffer (2 cells): types, and no terminal's key in the line buffer while another is shown, or in another's saved line (`BuffersAreNotMixed`); no deadlock |
| `terminal_patient` | `ImplementsLineDiscipline`, safety and liveness, with a buffer of 3 cells |

**Bounds.** `MaxTyped` keeps the line within the buffer. Two or three cells show an empty, a
partial and a full line; one letter is enough because letters are only copied; two
terminals give one switch to a fresh terminal, and back. The run `terminal` uses the
view `Observed`, which leaves out the bytes in users' buffers and the saved copy of the
current terminal: no guard, and no property of that run but the type invariant, reads
them.

**Assumption `Patient`.** `ImplementsLineDiscipline` holds for a user who types while a
read waits for an Enter, and for reads with `nbytes >= NUM_CHARS_KB` (the shell reads 1024
bytes into its buffer). Neither can be dropped. A key between the copy and the
resets is lost; with a short `nbytes` the count returned is 0; and an Alt+Fn between an
Enter and the next test of the flag hands that Enter to the other terminal's shell, for
there is one flag for all terminals.

**Fairness.** `WF_vars(ReaderStep)`: interrupts return, and a read that can take a step
(its loop sees the flag, or it is past the loop) takes it. No key, no switch, no halt and
no next read is assumed to happen.

**Proofs (`TerminalProofs`).** For buffers, numbers of terminals and sets of keys and
lengths of every size, `TypeCorrect` (`TypeOK`) and `BuffersStayApart`
(`BuffersAreNotMixed`, of the shared buffer and the saved lines). That the copy loops stay within the buffer is not inductive: it
takes that a reader past its loop test has `i <= NUM_CHARS_KB`, and that a long read's
count is its index. Both are needed of interrupted readers too, which go on with a count
that other readers and keys have changed meanwhile: `ReaderInv` is that, stated of every
element of `readers`.

`TerminalImplementsLineDiscipline` is the refinement, for buffers, terminals and keys of any number and
any nesting of reads: `Spec` implies that the mapped variables start as `LineDiscipline`
starts and change only as its actions let them. It assumes what the run does: a patient user
(`PatientUse`: `Patient` is TRUE, lines fit the buffer, reads are of at least `NUM_CHARS_KB` bytes). Each step of the code is
mapped by a lemma: keys to `Type`, `Erase` and `Enter`, the switch to `Discard`, the reset of the flag to
`Deliver`, the return of the read to `Return`, and all others to a stutter, the reset of the count among them, after which
the line is in the user's buffer only.
`DeliveryInv` is what this takes: that only the reader on top is past its loop, that the line stays
closed and unchanged while it copies, and how much of it the user's buffer has at each place of
`terminal_read` (`LineInv`). The fairness of `LineDiscipline`, the other half of
`ImplementsLineDiscipline`, stays with TLC.

**What the code does besides.** Seen while modelling, the subject of no run: a switch restores the
saved characters but not their count, so the line comes back empty
(terminal_driver.c:77). A read that a switch interrupts goes on with the shared buffer: it may copy the
other terminal's line to its program, and clear it; `BuffersAreNotMixed` is about the shared and the
saved buffers, not about those of programs. Both copy loops run to the end of the line whatever `nbytes` is, and
a short read returns 0 (130-145). A line can outgrow `keyboard_buffer` by what Tab and the
Enter add (keyboard.c:96, 165, 238). Tab raises the count before it stores (165-166).

Not in this model: the screen and `terminal_write`, which are `KernelIO`'s.

## 6. `KernelIO`: screen, files, interrupts and the programs on top

**Parts.** `Screen` has the video memory, the cursor and `putc` as operators on a record;
the cursor may be left of column 0, where Backspace puts it. `FileSystem` has the image
(constants) and the look-ups and reads as operators. `Interrupts` has the two 8259s
(requests `irr`, levels in service `isr`, masks), the RTC's register C and rate, the CPU's
interrupt flag, and rtc.c's `in_count`.

**State of `KernelIO`.** `running` is what the CPU executes, a program or a handler, with its
program counter and locals; `suspended` is what it interrupted or was executed by. `screen`
is the one shown, `terminals` what is saved of the others. History variables say what the
screen should show: `line_start` and `line_base`, where the line being typed starts on the screen and
which index of the buffer is its first; `left_at`, where each terminal's line began when it was
switched away; `tabbed`, whether the line has had a Tab. None is read from what a switch
restores: `line_start` comes back from `left_at`, the cursor from `Restored`. A frame's `printed` (what cat and ls wrote), `count` and `ticked`
(an RTC interrupt came since the read began) also serve properties only.

**Actions.** `ShellStep`, `HelloStep`, `Opens`/`Gets`/`Puts` (cat and ls), `PingpongOpens` and
`PingpongDraws` are the programs' loops, one action per system call; `ReadLine`,
`LineIsRead`, `rtc_read` and `RtcReadReturns` the waits with interrupts on; `Exits` the halt.
`KeyPress` and `RtcTick` are the devices, `Interrupt` the CPU taking a request that the 8259s
pass. Handlers: `RtcHandler`; `print_to_screen`, `HandleBackspace`, `HandleTab`, `HandleEnter`,
`HandleCtrlL`, `HandleAltF` (the switch, which ends the level itself and then
executes a shell in the handler), `KeyboardEoi`.

**Abstractions.** Modifier keys are folded into the key they change. A command typed is any
of the session's commands: what was typed is not parsed. Interrupts in a handler's tail, after
its `sti`, are merged with those just after its return. The image has one entry less than a
full directory (`DirectoryAssumption`), for the index `dir_count` is let through and read.
`Typable` keeps out what the echo does not support, see below: a Backspace more than a row to the left or at
the top left corner (`BackspaceStaysOn`) and one use of Ctrl-L. Lines may lie on any number of rows.

**Run `kernel_io`** (`MCKernelIO`). A 5 x 3 screen; blocks of 4 bytes, reads of 6; six files that
end at, before and behind the end of a block and of a read, with blocks out of order, an empty
one, and a last name without a 0; 3 PCBs and 3 terminals. Eight users, for a keyboard
that does everything at once is out of TLC's reach: three edit lines, two of them with Tabs; one prints
files; three switch terminals, one of them with Tabs; one leaves programs waiting for the RTC behind.
They type at a prompt, one key
after the other (keys between the steps of a read are `Terminal`'s); only the last presses
Alt+Fn at any time, and only with that one does the RTC tick. The refused shell of
a switch on a full table is not reached here; `Process` and `Terminal` have it.

| property | what it says |
|---|---|
| `FilesArePrintedWhole` | cat prints every byte of a text file (one without a byte 0, which ends what is printed of a read), ls every name, once and in order |
| `EchoShowsTheLine` | the cursor is behind the line, counted from where the line began on this terminal, over rows, scrolling, Backspace, Ctrl-L, Tab and switches; and the screen shows the line, as long as it has had no Tab |
| `NoInterruptIsLeftInService` | when a program runs no level is in service |
| `RtcReadsWait` | a read of the RTC returns only after an interrupt that came since it began, though other sessions' reads clear the flag |
| `RtcReadsReturn` | the read of the program on top returns |

**Fairness.** Handlers run to their end; requests of the keyboard are taken. The RTC's need strong
fairness (`SF` on `Interrupt(8)`, `KeyboardEoi` and `RtcReadReturns`): keys pressed without a pause would
keep a lower level out for ever, and nobody types like that; the RTC ticks
(`WF`). The hurried user goes to each terminal at most once.

**Proofs (`KernelIOProofs`).** All four safety properties, for every screen, image, set of users and number of
terminals within the assumptions: `NothingStaysInService` (`NoInterruptIsLeftInService`),
`RtcReadsWaitForATick` (`RtcReadsWait`), `TheLineIsShown` (`EchoShowsTheLine`) and
`FilesAndNamesArePrinted` (`FilesArePrintedWhole`). Two invariants, both about every frame of the
stack, because any of them may run next:

- `IInv` says which handlers can be suspended: only the keyboard's, at its end of interrupt,
  with something below it. So whatever the RTC interrupts has no level in service, and a session
  begun in a handler can end only by returning to one that ends its level again. For the reads:
  while `in_count` is set every waiting read on the stack has had its tick, not only the one on top.
- `EchoInv` adds the screen. `AloneInv`: while the line has characters the frame on top, below handlers only,
  is in its loop of `terminal_read`, so nobody prints over them, and the key that comes next is one typed there
  (`KeyInv`). `LineInv`: the address of the cursor is where the line started plus its characters, also left of
  column 0, after scrolling, which moves both by a row, and after a Tab, which moves neither and counts as one;
  without a Tab, each character is in its cell (`Shows`). `ScreensInv`: the screens saved, and that each
  `left_at` is where its saved cursor is (`LeftWell`), which is what a switch back needs. `BufsInv`: what each cat or ls of the stack has printed is
  the file up to its position, or the names of the entries before it, and where it is between a read
  and its write, its buffer has the part between. Reads begin at multiples of `BUFSIZE`, which is why the newline that a write of
  exactly 79 bytes adds can only be the last thing printed.

The assumptions are the ASSUMEs of the modules: a screen of at least 2 columns and 3 rows; a row longer than a name; `BUFSIZE` above `NUM_COLS`; a line and its Enter shorter than two rows; an image whose tables and
blocks are all there (`ImageAssumption`); commands that are programs, keys that name terminals there are, texts without an Enter (`SessionsAssumption`).
The code's constants meet them (80 x 25, names of 32, `BUFSIZE` 1024, lines of 128).
What is printed is a recursive function of a sequence, of any length: lemmas about it are proved by induction over
the *set* of lengths for which they hold (`NatInd`). `RtcReadsReturn`, liveness, stays with TLC.

**What the code does besides.**
- `rtc_set_freq` returns 1, which `rtc_open` and `rtc_write` report as a failure; `system_open` never
  calls `rtc_open`.
- `i8259_init` writes `ICW2_SLAVE` where the third control word is meant.
- Tab raises the count and stores a character behind the line, and echoes nothing (keyboard.c:161-167). The cursor is
  then as many cells short of the line as there are Tabs: the property counts them (`line_start` moves back by one)
  and says nothing of the cells. A Backspace over a Tab erases the cell before the cursor all the same, of the
  line, of the prompt or, at the top left corner, in front of the video memory. The Tab itself is stored one
  cell too far; the cell it counts keeps what was there, mostly a 0, which ends the line for a program that
  reads it.
- Ctrl-L behind exactly `NUM_COLS` characters puts the cursor in column 80. Backspace does not take the cursor to the row above but to
  negative columns, and more than a row to the left C's remainder puts it out of step with the line, as when
  a line on three rows is erased from its end to its first row. Both are kept out by
  `Typable`: `EchoShowsTheLine` would not hold. Ctrl-L also prints the stale character behind the line.
- A character in the last column is never shown.
- `terminal_write` of 79 bytes prints a newline too many, and short writes return 0.
- The read of a directory ignores `num_bytes`.

## 7. The Tux driver

### `TuxLdisc`

**State and actions.** The two rings; `ctx`, what an ioctl and an interrupt are doing in
`write_wakeup`: it reads the port's room before it takes the lock, takes bytes under the
lock and writes them to the port afterwards, hence `ReadRoom`, `Take`, `Write`. `inPort` is
what the port holds. `rcv_buf` with `data_callback` is one action. The lock is released before
`data_callback` (tuxctl-ld.c:179); what keeps two framings apart is that both run in the port's
interrupt, which is not entered again while it is handled, on one processor. Ioctls do not touch the receive
ring. `wire`, `lost`, `consumed` and `handled` are histories. `overlap` is chosen at the start:
whether an interrupt may come between an ioctl's steps.

**Run `tux_ldisc`.** Rings of 5 (with one cell always free), a packet array of 3, a port of 2, bursts and
commands of 1, 3 and 5 bytes, so that a ring overflows and wraps; 9 bytes received or 7
put. `PacketsAreTheWholeOnes`: however bytes fall into bursts and whatever was lost, what
is handled is exactly the whole packets, by a definition that looks at the stream at
once. `EachByteIsOnce` and `WireKeepsOrder`: a byte is in one place once, and in order unless
interrupts may come in between. `RingDrains`: with weak fairness for the port (it
sends), for its wakeup call and for the contexts' steps. Inputs are bounded, so the run
may stop.

**Proofs (`TuxProofs`).** All four safety properties, for rings, ports and packet arrays of every
size, bursts and commands of every length and any number of them: `TypeCorrect`,
`WholePacketsOnly` (`PacketsAreTheWholeOnes`), `BytesAreOnce` (`EachByteIsOnce`), `WireIsInOrder`
(`WireKeepsOrder`). The loops of the driver are recursive functions in the model, and the library's induction
theorems cannot be used (they take an operator). `NatInd` is induction for a *set* of numbers, from
`NatMin`; with it `LoopExists` gives the sequence of states of a loop, and every lemma about a loop is
an invariant of that sequence. `ReceiveInv`: the bytes saved between calls are the end of those consumed, and of the
last two consumed those not saved are `"next"` bytes, which start no packet; so the next call sees
every packet that is not whole yet, and none twice. `SendInv`: the ring holds the last bytes put; what a
context holds is a run of bytes before them, disjoint from the other's, and only between its taking and its
writing; every byte that left the ring is there, on the wire or lost; and without interrupts in between one context
at most holds any, all behind the wire's. `RingDrains`, liveness, stays with TLC.

`write_wakeup` takes one byte more than the port's room and drops what the port refuses
(tuxctl-ld.c:203). No doc promises otherwise; `lost` has these bytes.

### `TuxLeds` and `TuxProtocol`

**State and actions.** `TuxLeds` has the controller (`dev`) and the values: `tux_clock`, the game's encoding of its
time; `led_set_buf` and `hex_num_to_byte`, which make bytes of it; `Consume`, what the controller
does with a byte as `mtcp.h` describes it (external). `TuxProtocol` has the driver's globals, the
set-LED call in progress (`ioctl`), the two directions of the line, what the game last polled. `tuxctl_handle_packet`, `SetLed`/`SaveLeds`/`tux_set_led`, `tux_buttons` and
`Init` are the driver's; `DeviceStep`, `Press` and `Reset` the controller's. A command is cut
off where the transmit ring is full; a response of the controller may be lost. `cut` is a history:
whether the ring has refused a byte.

**Run `tux_protocol`.** Four LEDs. `TX_ROOM` 11 has room for one answer and a part of a second.
Three budgets of commands, presses, resets and losses put each property's case in reach. Liveness
needs weak fairness for handling packets, for the controller and for the steps of an ioctl; the
game polls the buttons at every tick.

`EveryClockCanBeShown` (in every state in which the controller waits for a command, the bytes sent make it, byte by
byte, show the digits of the clock), `ButtonsReachTheGame` (by name, though two bits are swapped on the way), `LedsAreNotBlocked` (the
flag a set needs is raised again: the driver answers every packet, and so provokes an
acknowledgement), `ResetIsRepaired`: a controller reset before the ring refused a byte is initialised
again. The condition is needed. A command that was cut leaves the controller
waiting for LED bytes; it takes the next command's opcodes for them, and as it acknowledges, the
driver sends the next answer into a ring that is full again. Without `~cut`, TLC finds a cycle
with `TX_ROOM` 11 and four LEDs in which every `MTCP_BIOC_ON` is taken for an LED's value. Whether
the ring of the code (63) has such a cycle was not decided; random runs of it all recovered.

**Proof (`TuxProofs`).** `ClocksAreShown` is `EveryClockCanBeShown` for every time of less than 100 minutes,
one to four LEDs and whatever the waiting controller shows: it needs no invariant, as the property says itself what
a waiting controller is (`IsWaiting`). `ClockBytes`: the digits the shifts and masks take out of the argument
(`Digits`, by division step by step) are those `tux_clock` put there (`ClockValue`), so the mask covers
all LEDs and each byte is that of its digit. `ConsumedIsTaken`: the controller's states over the bytes of a
command are `Taken`, by `NatInd` over the bytes, `TakesByte` being the step: the mask comes first, then the
LEDs in increasing order. `Drawn`: the byte of each digit lights the segments of the digit, with its point or without. The
other three properties are liveness.

What the code does besides: `tux_set_led` always sends six bytes, where `mtcp.h` (216, 240) asks for one per bit
of the mask, so a mask with a gap would shift the digits (the game always sets all LEDs). `SSE` (0xEA) lights
B where an E has D; the clock shows hexadecimal digits from 100 minutes only, when the tens of minutes exceed 9.

## 8. `Blink`: the MP1 kernel module

**State and actions.** `mem` holds the structures by address, `mp1_list_head` the list. The
tasklet is one action (it runs to its end); an ioctl is one action per access to what the
tasklet also sees: link and publish, unlink, free, each copy of a sync, each write to the
screen. `call` holds its registers. `age`, `synced` and `together` are histories; `quiet` is chosen at
the start: whether the tasklet stays away while an ioctl runs.
Memory and copies from the user are external. `AddRefused` is an add without memory; `AddFails` one with a
null argument, a copy that fails or a location outside, which has a structure to free (`Free`, in the code
`add_freemem`). A sync of location 0 with location 0 is the argument 0, which the code refuses.

**Run `blink`.** Two structures on the list and a third for find or a failing add, or three; two cells, so that structures
share one; `WORD` 3 lets the countdown of a structure of length 0 wrap; three calls, four
when the tasklet stays out of them. Weak fairness: the timer ticks and a call goes on.

`ListIsSound`, `NothingLeaks`, `BlinksOnTime` (each structure toggles after its own lengths,
of length 0 after 2^16), `SyncedBlinkTogether`, `ScreenCatchesUp` (a character drawn over the
tasklet's does not stay wrong). `SyncedBlinkTogether` is about syncs that no tick falls
into: one that a tick falls into copies countdown and status from different moments. What `find` returns is not modelled: its
value is in a register when `mp1_free` is called, which may change it (mp1.S:386-398).

**Proofs.** `BlinkProofs` proves `ListStaysSound` (`ListIsSound`), `NothingIsLost`
(`NothingLeaks`), `SyncedStayTogether` (`SyncedBlinkTogether`) and `TogglesOnTime`
(`BlinksOnTime`) for any finite set of structures, any cells, lengths, `WORD` and number of calls; the
assumptions are the two ASSUMEs of `Blink`. `ScreenCatchesUp` is liveness and stays with TLC.

The properties speak of `Path`, a recursive walk through memory. The proof does not: `Linked(L, n)`
says that a sequence L without repetition is linked from the head to NULL, `PathIsTheList` that
the walk then meets just L, and what an ioctl does to the list is one lemma on sequences each
(`ListStays`, `ListGrows`, `ListShrinks`). None of the properties is inductive. `ListInv` adds what the ioctl
in progress holds: a structure allocated and not on the list (`AllAccountedFor`), whose link is the head before
it is published (`RegistersAreRight`); this is why the tasklet may come at any access, and why the order of the two
writes in add matters. `SyncInv` says, access by access, how far the second structure of a sync
has become like the first, and that until the last access the pairs it was in are not
alike (`Midway`). `TimeInv` ties the countdown of every structure no sync set to the ticks since its toggle
(`OnTime`); `CountDown` and `TickIsOnTime` do the 16-bit arithmetic, length 0 included.

## 9. The maze game

### `MazeGame`: three threads

**State and actions.** The globals the threads share, and each thread's place and locals: `rtc`,
`tux`, `keyboard`, `main`. `mtx` guards `next_dir` for the RTC and the keyboard thread; the Tux
thread takes another mutex, so its steps fall between any two of the others. Built
without optimisation, each mention of `next_dir` is a read, hence `TestBackwards`, `Reverse`,
`NewSquare`, `Turn` and `Go`. What a maze has is its open squares, a fruit and an exit.
`OpenAt(DIR_STOP)`: the code reads one element past its array of four
directions, a choice in the model.

**Runs.** `maze_game`: blocks of 3 pixels (an odd square has a middle to reverse in), 2 x 2 rooms, two
levels, up to two ticks at once, the user at the keyboard, or holding one button. `MovesAreLegal`:
the player stands on, or walks between, open squares, at every pixel and through each
reversal. `WinnerHasWon`; `HeldButtonSteers` (a held button is obeyed though its signal may come
before the wait for it); `GameEnds` (a quit or a win ends all threads, though nobody
types). Fairness: each thread runs and the clock ticks; the mutex need not be fair, no key is
assumed. The game ends, so the runs may stop.

`maze_race`: with buttons pressed in turn `MovesAreLegal` is violated: the Tux thread writes
`next_dir` between the test for a reversal and the assignment, and the player turns in the
middle of a square (`findings`).

**Proofs (`MazeGameProofs`).** For mazes, blocks and levels of every size, `EveryMoveIsLegal`
(`MovesAreLegal`, provided `Modes` is without `"buttons"`: `maze_race` shows why) and
`WinnersHaveWon` (`WinnerHasWon`, in all modes). The first takes `SteerInv`: who may write
`next_dir` in each mode, and what, so that in `Reverse` it is still the opposite of `dir`; the
grid lemmas say that setting out, going on and turning round keep a player between two
open squares. The second takes that a level left behind was won unless the user quit.

### `MazeLevel`: a level dug, drawn and played

**Parts.** `Maze` digs (`DropWorm`, `MoveWorm`, `EndWorm`, `Connect`, `Furnish`), with every outcome of
`random()`; `ModeX` is the build buffer with its four planes and the window in it, and the
two pages of the display. `MazeLevel` is what the RTC thread calls in turn; `next_dir` is any
direction at every tick.

A pixel is the image it comes from and its place in it, so that a block drawn
at the wrong place or of the wrong kind shows. A cell that leaves the window becomes `Stale`: it
must be drawn before it counts again. `map_x`/`map_y` are `show_x`/`show_y`, always set together; the
images of the player's four directions are one.

Moving the window in the buffer is a copy between overlapping ranges, which the code makes by a loop upwards or downwards,
as the direction asks (modex.c:475-480). `MovedBy` is what such a copy comes to; the direction that is wrong is its mutant
(`MovedBy_upwards`).

`mark_maze_area` searches breadth first, with a queue; the model has what it marks, the smallest set of rooms that
the search leaves with no neighbour to go to (`Closed`, `Area`).

`WindowAssumption` is what the code takes for granted of its constants: a maze is wider and higher than the
window, less the border of `SHOW_MIN` pixels, two blocks fit in the window, and the squares from which the window
pans are in it. The code's values (320 x 182 pixels, blocks of 12, `SHOW_MIN` 6, `PAN_BORDER` 5, mazes from 14 x 8)
meet it.

**Run `maze_level`.** Mazes of 2 x 1 and 2 x 2 rooms, blocks of 3 pixels, a window of 8 x 5, two levels, as
committed (`GOD_MODE`). The window pans in both directions, leaves the build buffer and moves
in it, up and down, overlapping itself. About 535 000 states, a minute or so. `BuildShowsTheMaze`, `FrameShowsPlayer`,
`DisplayIsWhole`, `EveryRoomIsReachable`, `LevelIsBuilt`, which assumes `WF(MakeMaze)`, `WF(SetView)` (the
thread that builds a level goes on) and `SF(WormEnds)`: `random()` does not keep a worm alive for ever.

**Proofs (`MazeLevelProofs`).** For mazes, blocks, windows and borders of every size within `WindowAssumption`,
every number of levels and both values of `GOD_MODE`: `EveryRoomIsConnected` (`EveryRoomIsReachable`),
`BuildIsRight` (`BuildShowsTheMaze`), `FrameIsRight` (`FrameShowsPlayer`) and `DisplayedPageIsWhole`
(`DisplayIsWhole`), all from `IInv` (`InvariantHolds`), which TLC checked first on the instance of the run. Its parts:

- `MazeInv`, `SearchInv`: the boundary stands, and what `make_maze` has reached can be reached and is counted; so
  when the count of rooms not reached is zero, all rooms are.
- `ViewInv`: the window is within the maze and within the build buffer, so that no two of its pixels share a
  cell of the buffer (the lemmas about `Cell`). Hence drawing a block or a line changes the pixels it should, and
  moving the window, over itself or to the middle of the buffer, keeps those it still shows.
- `PlayerInv`, `FollowInv`: the player is on an open square or between two, and within the window with a border, or the
  window is at the edge of the maze. The latter is also why unveiling is right: the
  square at the other side of the maze, whose boundary is the same array element, is not in the window.
- `PictureInv`: at each place of the thread, which pixels of the window are as they should be: all but the blocks in `redraw`,
  all but the new line, all with the player drawn and what he covers saved.
- `PageInv`: the page that is written is not the one displayed; the two start addresses (1440 and 17824) end in the same
  byte, so of the two writes to the start address the first already completes the change, but for the first frame of
  all, which comes from address 0.

**What the code does besides.** `copy_image` copies 16000 bytes per plane of which a plane has
14560 (modex.c:1117). `draw_mask_block` does not step over the pixels of a row it clips; the
player is never clipped (`FrameShowsPlayer`). The right boundary of a row of the maze and the left one of
the next are one element.

## 10. Not modelled

- MP3 segment descriptors (GDT, LDT, TSS): constants after boot.
- `grep`, `fish` and the call tests: they use the calls that are modelled.
- MP3 `printf` and the string and memory functions, beyond their use; the tests, all of which
  are commented out.
- MP2 VGA registers, palette, fonts and status bar; `input.c` (the game does not link it) and the assertion
  package (given).
- MP1 user space.
- Failures of memory and devices beyond those named: none of the programs handles others.

## 11. Checking

`tlc -config <cfg> <module>` with the pairs of `runs` in PROJECT.json; `tlapm <module>` for the eight modules
named `...Proofs`. Each run ends in a few minutes. The mutants of PROJECT.json are operators in the
modules, each a plausible fault (`Wins_hungry`, `Leftover_one`): put in place of the definition
named, the property named with it fails.

Of the properties, the nine named as liveness stay with TLC (`LevelIsBuilt`, `GameEnds`, `HeldButtonSteers`, `RingDrains`,
`ButtonsReachTheGame`, `LedsAreNotBlocked`, `ResetIsRepaired`, `ScreenCatchesUp`, `RtcReadsReturn`), as does the fairness half of
`ImplementsLineDiscipline`. Every invariant and every other safety property is stated by one of the theorems.
