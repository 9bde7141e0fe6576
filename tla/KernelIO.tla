------------------------------- MODULE KernelIO -------------------------------
(***************************************************************************)
(* The MP3 kernel as its programs and its user see it: the screen, the file *)
(* system and the interrupts, put together with keyboard_handler,           *)
(* rtc_handler, terminal_switch, the read and write calls, and the programs *)
(* shell, cat, ls, hello and pingpong.                                      *)
(*                                                                         *)
(* One thing runs at a time: `running' is the program, or the interrupt     *)
(* handler, that the CPU executes, and `suspended' what it interrupted or   *)
(* was executed by, the oldest first.  Code that runs with interrupts off   *)
(* is one action.  Which frame a halt returns through is Process's, a read  *)
(* interrupted between its accesses to the line buffer is Terminal's.       *)
(***************************************************************************)
EXTENDS Screen, FileSystem, Interrupts

CONSTANTS
  MAX_PROCESSES,     \* 5 in syscall.c
  NUM_TERMINALS,     \* 3 in terminal_driver.h
  BUFSIZE,           \* what cat reads at once (1024)
  Letters,           \* pingpong's characters, from STARTCHAR to ENDCHAR
  MaxTyped,          \* bound: no line gets longer
  Sessions           \* the users: the keys they press, the text their lines
                     \* begin, their commands, whether they type exit, and
                     \* whether the RTC interrupts them

\* Names are not empty, hold no 0 and with a newline are shorter than a row.
ASSUME NamesAssumption ==
  /\ NAME_BYTES + 2 < NUM_COLS
  /\ \A i \in 1..dir_count : LET name == direntries[i].file_name IN
       name # <<>> /\ \A j \in 1..Len(name) : name[j] # Nul

ASSUME BufsizeAssumption == BUFSIZE \in Nat /\ BUFSIZE > NUM_COLS
ASSUME MaxProcessesAssumption == MAX_PROCESSES \in Nat \ {0}

ASSUME TerminalsAssumption == NUM_TERMINALS \in Nat \ {0}

\* A line and its Enter are shorter than two rows, as the code's 128 characters are.
ASSUME MaxTypedAssumption == MaxTyped \in 1..(2 * NUM_COLS - 2)

Terminals == 0..(NUM_TERMINALS - 1)

\* The shell executes no handler, keys name terminals there are, and a text is
\* what a line can hold before its Enter.
ASSUME SessionsAssumption ==
  \A s \in Sessions :
    /\ \A c \in s.commands : c.kind \in {"cat", "ls", "hello", "pingpong"}
    /\ \A k \in s.keys : k.name = "alt_f" => k.terminal \in Terminals
    /\ Len(s.text) \in 0..MaxTyped
    /\ \A i \in 1..Len(s.text) : s.text[i] # NewLine

\* A key: a printable one with its character, Alt+Fn with its terminal.
Key(name, c, t) == [name |-> name, char |-> c, terminal |-> t]
Printable(c) == Key("printable", c, 0)
Tab          == Key("tab", Nul, 0)
Backspace    == Key("backspace", Nul, 0)
Enter        == Key("enter", Nul, 0)
CtrlL        == Key("ctrl_l", Nul, 0)
AltF(t)      == Key("alt_f", Nul, t)
NoKey        == Key("none", Nul, 0)

VARIABLES
  session,
  running, suspended,
  screen,
  keyboard_buffer, num_chars_typed, enter_pressed_flag,
  key_code,                     \* what waits at the keyboard's data port
  curr_terminal_id, terminals,
  line_start, line_base,        \* of the line being typed: where it starts on
                                \* the screen, its first index in the buffer,
  tabbed,                       \* and whether a Tab was typed in it
  left_at                       \* where the user left the other terminals' lines

lineVars == <<line_start, line_base, tabbed, left_at>>
keyVars  == <<keyboard_buffer, num_chars_typed, enter_pressed_flag>>
termVars == <<curr_terminal_id, terminals>>
cpuVars  == <<running, suspended>>
vars == <<session, cpuVars, screen, keyVars, key_code, termVars, lineVars, irqVars>>

-----------------------------------------------------------------------------
(* Frames *)

Handlers == {"keyboard", "rtc"}
NoFd     == [fop |-> "null", inode_idx |-> 0, file_position |-> 0]

\* A program with the descriptor it opened, its buffer, a count of its own,
\* and, to state properties, what it has printed and whether an interrupt of
\* the RTC came since its read began.
Frame(kind, pc, arg) ==
  [kind |-> kind, pc |-> pc, arg |-> arg, d |-> NoFd, buf |-> <<>>, count |-> 0,
   printed |-> <<>>, ticked |-> FALSE]

Program(kind, arg) == Frame(kind, "start", arg)
Handler(irq) == Frame(IF irq = RTC_IRQ THEN "rtc" ELSE "keyboard", "body", <<>>)

\* The active PCBs.
Started(frames) == Cardinality({i \in DOMAIN frames : frames[i].kind \notin Handlers})

Top(frames) == frames[Len(frames)]
Pop(frames) == SubSeq(frames, 1, Len(frames) - 1)

At(kind, pc) == running.kind = kind /\ running.pc = pc
Goto(pc) == running' = [running EXCEPT !.pc = pc] /\ UNCHANGED suspended

\* A program's write to the terminal; a line being typed goes on behind it.
Prints(text) ==
  /\ screen' = terminal_write(screen, text)
  /\ line_start' = CursorOf(screen')
  /\ line_base' = num_chars_typed
  /\ UNCHANGED <<tabbed, left_at>>

\* The calls of a program that touch no more than its own frame.
Quiet == UNCHANGED <<session, suspended, screen, keyVars, key_code, termVars,
                     lineVars, irqVars>>
Printing == UNCHANGED <<session, keyVars, key_code, termVars, irqVars>>

-----------------------------------------------------------------------------
(* system_execute and system_halt *)

Executes(caller, below, program) ==
  /\ suspended' = Append(below, caller)
  /\ running' = program

\* The base shell is started again; another program's caller goes on, a shell
\* with the status and a keyboard handler with its sti.
Halts(status) ==
  IF suspended = <<>>
  THEN running' = Program("shell", <<>>) /\ UNCHANGED suspended
  ELSE LET caller == Top(suspended) IN
       /\ suspended' = Pop(suspended)
       /\ running' = IF caller.kind = "shell"
                     THEN [caller EXCEPT !.pc = IF status = 0 THEN "prompt"
                                                ELSE "abnormal"]
                     ELSE caller

Halting == UNCHANGED <<session, screen, keyVars, key_code, termVars, lineVars, irqVars>>

Exits == running.pc = "exit" /\ Halts(running.count) /\ Halting

\* A program ends after a last message.
Fails(text, status) ==
  /\ Prints(text)
  /\ running' = [running EXCEPT !.pc = "exit", !.count = status]
  /\ UNCHANGED suspended
  /\ Printing

-----------------------------------------------------------------------------
(* ece391shell *)

Starting == <<"S", NewLine>>
Prompt   == <<">">>
NoSuchCommand == <<"?", NewLine>>
Abnormally    == <<"!", NewLine>>

ShellStarts  == At("shell", "start") /\ Prints(Starting) /\ Goto("prompt") /\ Printing
ShellPrompts == At("shell", "prompt") /\ Prints(Prompt) /\ Goto("read") /\ Printing

\* A Tab leaves a 0 in the line, where it ends for the shell.
Command ==
  UpToNul(IF running.buf # <<>> /\ Top(running.buf) = NewLine THEN Pop(running.buf)
          ELSE running.buf)

ShellSkips == At("shell", "line") /\ Command = <<>> /\ Goto("prompt") /\ Quiet

\* The line may name any of the session's commands, or none.
ShellExecutes ==
  /\ At("shell", "line") /\ Command # <<>>
  /\ \E c \in session.commands :
       IF Started(suspended) + 1 < MAX_PROCESSES
       THEN Executes([running EXCEPT !.pc = "executing", !.buf = <<>>], suspended,
                     Program(c.kind, c.arg))
       ELSE Goto("unknown")
  /\ Halting

ShellFindsNoCommand == /\ At("shell", "line") /\ Command # <<>>
                       /\ Goto("unknown")
                       /\ Quiet

ShellExits == /\ At("shell", "line") /\ Command # <<>> /\ session.exits
              /\ Halts(0)
              /\ Halting

ShellComplains ==
  /\ running.kind = "shell"
  /\ \/ running.pc = "unknown" /\ Prints(NoSuchCommand)
     \/ running.pc = "abnormal" /\ Prints(Abnormally)
  /\ Goto("prompt")
  /\ Printing

ShellStep == \/ ShellStarts \/ ShellPrompts \/ ShellSkips \/ ShellExecutes
             \/ ShellFindsNoCommand \/ ShellExits \/ ShellComplains

-----------------------------------------------------------------------------
(* terminal_read, with a buffer for the longest line *)

ReadLine ==
  /\ running.pc = "read"
  /\ Goto("wait")
  /\ Quiet

LineIsRead ==
  /\ running.pc = "wait" /\ enter_pressed_flag = 1
  /\ running' = [running EXCEPT !.pc = "line",
                   !.buf = [i \in 1..num_chars_typed |-> keyboard_buffer[i - 1]]]
  /\ keyboard_buffer' = [i \in DOMAIN keyboard_buffer |-> Nul]
  /\ num_chars_typed' = 0 /\ enter_pressed_flag' = 0
  /\ line_start' = CursorOf(screen) /\ line_base' = 0 /\ tabbed' = FALSE
  /\ UNCHANGED <<session, suspended, screen, key_code, termVars, left_at, irqVars>>

-----------------------------------------------------------------------------
(* ece391hello *)

Question == <<"n", "?">>
Hello    == <<"h", ",">>

HelloStep ==
  /\ running.kind = "hello"
  /\ \/ running.pc = "start" /\ Prints(Question) /\ Goto("read")
     \/ running.pc = "line"  /\ Prints(Hello) /\ Goto("name")
     \/ running.pc = "name"  /\ Prints(UpToNul(running.buf)) /\ Goto("exit")
  /\ Printing

-----------------------------------------------------------------------------
(* ece391cat and ece391ls *)

Sorry == <<"e", NewLine>>

\* cat's argument, empty when the command had none; ls opens the directory.
Opens ==
  /\ running.kind \in {"cat", "ls"} /\ running.pc = "start"
  /\ LET entry == read_dentry_by_name(IF running.kind = "ls" THEN <<".">>
                                      ELSE running.arg)
     IN IF running.kind = "cat" /\ running.arg = <<>> THEN Fails(Sorry, 3)
        ELSE IF entry = {} THEN Fails(Sorry, 2)
        ELSE /\ running' = [running EXCEPT !.pc = "get",
                              !.d = Descriptor(CHOOSE e \in entry : TRUE)]
             /\ Quiet

\* The read of a file or a directory; of the RTC, cat waits for a tick.
Gets ==
  /\ running.kind \in {"cat", "ls"} /\ running.pc = "get"
  /\ LET got == IF running.d.fop = "files"
                THEN file_read(running.d, IF running.kind = "cat" THEN BUFSIZE
                                          ELSE NAME_BYTES)
                ELSE directory_read(running.d)
         r == got.result
     IN IF running.d.fop = "rtc" THEN Goto("tick") /\ Quiet
        ELSE IF ~r.ok THEN Fails(Sorry, 3)
        ELSE /\ running' = [running EXCEPT
                  !.d = got.d,
                  !.pc = IF r.bytes = <<>> THEN "exit" ELSE "put",
                  !.buf = IF running.kind = "ls" THEN Append(r.bytes, NewLine)
                          ELSE r.bytes]
             /\ Quiet

Puts ==
  /\ running.kind \in {"cat", "ls"} /\ running.pc = "put"
  /\ Prints(running.buf)
  /\ running' = [running EXCEPT !.pc = "get", !.printed = @ \o Written(running.buf)]
  /\ UNCHANGED suspended
  /\ Printing

-----------------------------------------------------------------------------
(* ece391pingpong, and rtc_read *)

Inner == NUM_COLS - 4      \* the columns between the walls: STARTLOOP..LOOPMAX - 1

\* The j-th turn of its loops: out and back with each letter.
Ball(turn) == LET step == turn % (2 * Inner)
              IN 2 + (IF step < Inner THEN step ELSE 2 * Inner - 1 - step)

Court(turn) ==
  [i \in 1..NUM_COLS |->
     CASE i - 1 = Ball(turn) -> Letters[(turn \div (2 * Inner)) + 1]
       [] i - 1 \in {1, NUM_COLS - 2} -> "|"
       [] i = NUM_COLS -> NewLine
       [] OTHER -> Space]

\* rtc_open is not called by system_open, so the rate is the last one written.
PingpongOpens ==
  /\ At("pingpong", "start")
  /\ Goto("draw")
  /\ rtc_set_freq(32)
  /\ UNCHANGED <<session, screen, keyVars, key_code, termVars, lineVars>>

PingpongDraws ==
  /\ At("pingpong", "draw")
  /\ Prints(Court(running.count))
  /\ running' = [running EXCEPT !.pc = "tick",
                   !.count = (@ + 1) % (2 * Inner * Len(Letters))]
  /\ UNCHANGED suspended
  /\ Printing

rtc_read ==
  /\ running.pc = "tick"
  /\ RtcReadBegins
  /\ running' = [running EXCEPT !.pc = "rtc_wait", !.ticked = FALSE]
  /\ UNCHANGED <<session, suspended, screen, keyVars, key_code, termVars, lineVars>>

\* The loop of rtc_read ends; cat takes its 0 for the end of the file.
RtcReadReturns ==
  /\ running.pc = "rtc_wait"
  /\ RtcReadEnds
  /\ Goto(IF running.kind = "cat" THEN "exit" ELSE "draw")
  /\ UNCHANGED <<session, screen, keyVars, key_code, termVars, lineVars>>

ProgramStep == \/ Exits \/ ShellStep \/ ReadLine \/ LineIsRead \/ HelloStep
               \/ Opens \/ Gets \/ Puts
               \/ PingpongOpens \/ PingpongDraws \/ rtc_read \/ RtcReadReturns

-----------------------------------------------------------------------------
(* Interrupts *)

\* The user types at a prompt, one key after the other.
AtPrompt == running.pc = "wait" /\ enter_pressed_flag = 0

\* Left of the top of the screen Backspace writes outside of it, and more than a
\* row to the left of column 0 the remainder of C puts the cursor out of step.
BackspaceStaysOn == CursorOf(screen) > 0 /\ screen.x > -NUM_COLS

\* Bounds: a line is no longer than the user's text, and what is not a Tab is from
\* there; Backspace stays on the screen; no Ctrl-L is pressed behind exactly
\* NUM_COLS characters, where the cursor leaves the screen to the right; and a user
\* in a hurry goes to a terminal once.
Typable(k) ==
  /\ k.name \in {"printable", "tab"} => num_chars_typed < Len(session.text)
  /\ k.name = "printable" => k.char = session.text[num_chars_typed + 1]
  /\ k.name = "backspace" /\ num_chars_typed > 0 => BackspaceStaysOn
  /\ k.name = "ctrl_l" => num_chars_typed # NUM_COLS
  /\ k.name = "alt_f" /\ session.hurried => ~terminals[k.terminal].active

KeyPress(k) ==
  /\ key_code = NoKey
  /\ AtPrompt \/ (session.hurried /\ k.name = "alt_f")
  /\ Typable(k)
  /\ key_code' = k
  /\ irr' = irr \cup {KEYBOARD_IRQ_NUM}
  /\ UNCHANGED <<session, cpuVars, screen, keyVars, termVars, lineVars,
                 if_flag, unmasked, isr, reg_c, rate, in_count>>

RtcTick == /\ session.hurried
           /\ Tick
           /\ UNCHANGED <<session, cpuVars, screen, keyVars, key_code, termVars,
                          lineVars>>

Interrupt(irq) ==
  /\ Take(irq)
  /\ suspended' = Append(suspended, running)
  /\ running' = Handler(irq)
  /\ UNCHANGED <<session, screen, keyVars, key_code, termVars, lineVars>>

\* A handler ends with popal and iret, to a program or handler that had
\* interrupts on; an interrupt on that way out does what it would do behind it.
Returns(frames) == /\ running' = Top(frames)
                   /\ suspended' = Pop(frames)

\* rtc_handler, whose EOI comes before its sti.
RtcHandler ==
  /\ At("rtc", "body")
  /\ rtc_handler
  /\ Returns([i \in DOMAIN suspended |->
                [suspended[i] EXCEPT !.ticked = suspended[i].pc = "rtc_wait"]])
  /\ UNCHANGED <<session, screen, keyVars, key_code, termVars, lineVars>>

-----------------------------------------------------------------------------
(* keyboard_handler *)

\* The key is read, and after the switch come sti and, as the last thing, EOI.
Handles(name) == /\ At("keyboard", "body")
                 /\ key_code.name = name
                 /\ key_code' = NoKey

ToEoi == /\ running' = [running EXCEPT !.pc = "eoi"]
         /\ if_flag' = TRUE
         /\ UNCHANGED <<session, suspended, unmasked, irr, isr, reg_c, rate, in_count>>

\* How far a character printed at the cursor moves the line up.
Rise(c) == IF Scrolls(screen, c) THEN NUM_COLS ELSE 0

print_to_screen ==
  /\ Handles("printable")
  /\ keyboard_buffer' = [keyboard_buffer EXCEPT ![num_chars_typed] = key_code.char]
  /\ num_chars_typed' = num_chars_typed + 1
  /\ screen' = putc(screen, key_code.char)
  /\ line_start' = line_start - Rise(key_code.char)
  /\ ToEoi
  /\ UNCHANGED <<enter_pressed_flag, termVars, line_base, tabbed, left_at>>

\* A Tab takes an index of the buffer, which keeps what it held, and no cell of the
\* screen: it is stored one further on, where the next character goes.
HandleTab ==
  /\ Handles("tab")
  /\ num_chars_typed' = num_chars_typed + 1
  /\ keyboard_buffer' = [keyboard_buffer EXCEPT ![num_chars_typed + 1] = "tab"]
  /\ line_start' = line_start - 1 /\ tabbed' = TRUE
  /\ ToEoi
  /\ UNCHANGED <<enter_pressed_flag, screen, termVars, line_base, left_at>>

HandleBackspace ==
  /\ Handles("backspace")
  /\ IF num_chars_typed > 0
     THEN /\ num_chars_typed' = num_chars_typed - 1
          /\ screen' = EraseOnScreen(screen)
     ELSE UNCHANGED <<num_chars_typed, screen>>
  /\ ToEoi
  /\ UNCHANGED <<keyboard_buffer, enter_pressed_flag, termVars, lineVars>>

HandleEnter ==
  /\ Handles("enter")
  /\ enter_pressed_flag' = 1
  /\ keyboard_buffer' = [keyboard_buffer EXCEPT ![num_chars_typed] = NewLine]
  /\ num_chars_typed' = num_chars_typed + 1
  /\ screen' = putc(screen, NewLine)
  /\ line_start' = CursorOf(screen') /\ line_base' = num_chars_typed'
  /\ ToEoi
  /\ UNCHANGED <<termVars, tabbed, left_at>>

HandleCtrlL ==
  /\ Handles("ctrl_l")
  /\ screen' = Redraw(screen, keyboard_buffer, num_chars_typed)
  /\ line_start' = 0 /\ line_base' = 0
  /\ ToEoi
  /\ UNCHANGED <<keyVars, termVars, tabbed, left_at>>

EmptyBuffer == [i \in 0..MaxTyped |-> Nul]

\* Fault: the EOI is left to the end of the handler, which the new shell puts
\* off until it halts.
EoiBeforeShell_left == isr

\* terminal_init's EOI, sent for the handler that will not end before the shell.
EoiBeforeShell == AfterEoi(isr, KEYBOARD_IRQ_NUM)

\* Fault: the cursor stays where clear and set_cursor(0, 0) have put it.
Restored_atTop(s) == set_cursor(s, 0, 0)

\* The saved text and cursor of a terminal, put back.
Restored(s) == s

\* terminal_switch, for another terminal than the current one.
HandleAltF ==
  LET t == key_code.terminal
      saved == [terminals EXCEPT ![curr_terminal_id].screen = screen,
                                 ![curr_terminal_id].keyboard_buffer = keyboard_buffer]
  IN
  /\ Handles("alt_f") /\ t # curr_terminal_id
  /\ curr_terminal_id' = t
  /\ num_chars_typed' = 0
  /\ \/ /\ terminals[t].active
        /\ terminals' = saved
        /\ screen' = Restored(terminals[t].screen)
        /\ line_start' = left_at[t]
        /\ keyboard_buffer' = terminals[t].keyboard_buffer
        /\ ToEoi
     \/ /\ ~terminals[t].active
        /\ terminals' = [saved EXCEPT ![t] =
             [active |-> TRUE, screen |-> Screen(Blank, 0, 0),
              keyboard_buffer |-> EmptyBuffer]]
        /\ screen' = Screen(Blank, 0, 0)
        /\ line_start' = 0
        /\ keyboard_buffer' = EmptyBuffer
        /\ isr' = EoiBeforeShell
        /\ if_flag' = TRUE
        /\ LET caller == [running EXCEPT !.pc = "eoi"] IN
           IF Started(suspended) < MAX_PROCESSES
           THEN Executes(caller, suspended, Program("shell", <<>>))
           ELSE running' = caller /\ UNCHANGED suspended
        /\ UNCHANGED <<session, unmasked, irr, reg_c, rate, in_count>>
  /\ left_at' = [left_at EXCEPT ![curr_terminal_id] =
                    line_start + num_chars_typed - line_base]
  /\ line_base' = 0 /\ tabbed' = FALSE
  /\ UNCHANGED enter_pressed_flag

\* Alt+Fn of the current terminal.
HandleAltFCurrent ==
  /\ Handles("alt_f") /\ key_code.terminal = curr_terminal_id
  /\ ToEoi
  /\ UNCHANGED <<screen, keyVars, termVars, lineVars>>

KeyboardEoi ==
  /\ At("keyboard", "eoi")
  /\ isr' = AfterEoi(isr, KEYBOARD_IRQ_NUM)
  /\ Returns(suspended)
  /\ UNCHANGED <<session, screen, keyVars, key_code, termVars, lineVars,
                 if_flag, unmasked, irr, reg_c, rate, in_count>>

KeyboardStep == \/ print_to_screen \/ HandleTab \/ HandleBackspace \/ HandleEnter
                \/ HandleCtrlL \/ HandleAltF \/ HandleAltFCurrent \/ KeyboardEoi

-----------------------------------------------------------------------------
\* entry() when it has called terminal_init(0) (its call is commented out in
\* kernel.c, and without it the first Alt+Fn faults): the screen was cleared,
\* and the base shell has been executed with interrupts on.
Init ==
  /\ session \in Sessions
  /\ running = Program("shell", <<>>)
  /\ suspended = <<>>
  /\ screen = Screen(Blank, 0, 0)
  /\ keyboard_buffer = EmptyBuffer
  /\ num_chars_typed = 0 /\ enter_pressed_flag = 0
  /\ key_code = NoKey
  /\ curr_terminal_id = 0
  /\ terminals = [t \in Terminals |->
       [active |-> t = 0, screen |-> Screen(Blank, 0, 0),
        keyboard_buffer |-> EmptyBuffer]]
  /\ line_start = 0 /\ line_base = 0 /\ tabbed = FALSE
  /\ left_at = [t \in Terminals |-> 0]
  /\ if_flag = TRUE /\ unmasked = EnabledAtBoot
  /\ irr = {} /\ isr = {} /\ reg_c = FALSE /\ rate = 1024 /\ in_count = 0

Next ==
  \/ ProgramStep
  \/ RtcHandler
  \/ KeyboardStep
  \/ \E irq \in Devices : Interrupt(irq)
  \/ \E k \in session.keys : KeyPress(k)
  \/ RtcTick

\* Handlers run to their end; the RTC ticks for ever, and its interrupt gets
\* past the keyboard's because keys come slowly.  The end of a handler that a
\* shell had put off and the loop of rtc_read are each a few instructions that
\* interrupts cannot keep from running for ever.
Fairness ==
  /\ WF_vars(KeyboardStep) /\ WF_vars(RtcHandler)
  /\ SF_vars(KeyboardEoi) /\ SF_vars(RtcReadReturns)
  /\ WF_vars(RtcTick)
  /\ WF_vars(Interrupt(KEYBOARD_IRQ_NUM)) /\ SF_vars(Interrupt(RTC_IRQ))

Spec == Init /\ [][Next]_vars /\ Fairness

-----------------------------------------------------------------------------
(* Properties *)

\* The first n of a sequence of pieces, one behind the other.
Joined(pieces, n) ==
  LET upTo[i \in 0..Len(pieces)] == IF i = 0 THEN <<>> ELSE upTo[i - 1] \o pieces[i]
  IN upTo[n]

Content(inode) ==
  LET table == inodes[inode].data_block_num
      blocks == [i \in 1..Len(table) |-> data_blocks[table[i]]]
  IN SubSeq(Joined(blocks, Len(table)), 1, inodes[inode].length)

NamesUpTo(end, n) ==
  Joined([i \in 1..dir_count |-> NamePart(direntries[i].file_name) \o end], n)

\* A last read of NUM_COLS - 1 bytes comes with one newline too many, see
\* TempBuffer; what is printed of a read ends before its first 0.
IsText(file) == \A i \in 1..Len(file) : file[i] # Nul

Expected(program) ==
  LET file == Content(program.d.inode_idx)
  IN CASE program.d.fop = "directories" ->
            NamesUpTo(IF program.kind = "ls" THEN <<NewLine>> ELSE <<>>, dir_count)
       [] program.d.fop = "files" ->
            IF Len(file) % BUFSIZE = NUM_COLS - 1 THEN Append(file, NewLine) ELSE file
       [] OTHER -> <<>>

\* cat prints every byte of a text file once and in order, however its length
\* falls into blocks and reads, and ls every name of the directory on a line;
\* both then end normally.
FilesArePrintedWhole ==
  /\ running.kind \in {"cat", "ls"} /\ running.pc = "exit" /\ running.d # NoFd
  /\ running.d.fop = "files" => IsText(Content(running.d.inode_idx))
  => running.count = 0 /\ running.printed = Expected(running)

\* The cursor stands behind the line being typed, each index of the buffer but a
\* Tab's one cell, across rows, scrolling, Backspace over the end of a row and
\* Ctrl-L; after a switch it stands where that terminal's user left it.  A line with
\* no Tab is shown, but for its characters in the last column.
EchoShowsTheLine ==
  /\ CursorOf(screen) = line_start + num_chars_typed - line_base
  /\ ~tabbed =>
       \A i \in line_base..(num_chars_typed - 1) :
         LET at == line_start + i - line_base IN
         at % NUM_COLS # LastCol => screen.video_mem[at] = keyboard_buffer[i]

\* While a program runs or waits no interrupt level is in service: a shell that
\* a handler executes does not keep the keyboard or the RTC out.
NoInterruptIsLeftInService == running.kind \notin Handlers => isr = {}

\* A read of the RTC returns only after an interrupt that came since it began,
\* whatever reads of other programs came in between.
RtcReadsWait == [][RtcReadReturns => running.ticked]_vars

\* The read of the program on top returns, under any nesting of keys, switches
\* and ticks.
TopReadsRtc ==
  LET frames == Append(suspended, running)
      programs == {i \in DOMAIN frames : frames[i].kind \notin Handlers}
      top == CHOOSE i \in programs : \A j \in programs : j <= i
  IN frames[top].pc = "rtc_wait"

RtcReadsReturn == TopReadsRtc ~> ~TopReadsRtc

=============================================================================
