------------------------------- MODULE Terminal -------------------------------
(***************************************************************************)
(* The keyboard interrupt (keyboard.c) and the terminal driver's line       *)
(* buffer (terminal_driver.c).                                              *)
(*                                                                         *)
(* terminal_read runs with interrupts on, so keyboard_handler, which is     *)
(* atomic, may run between any two of its accesses to the shared buffer,    *)
(* count and flag.  Alt+Fn on a terminal not used before executes a shell   *)
(* inside the handler: the reader it interrupted goes on when that shell    *)
(* halts.  Each step of terminal_read is one access to shared state.        *)
(***************************************************************************)
EXTENDS Integers, Sequences

CONSTANTS
  NUM_CHARS_KB,     \* size of keyboard_buffer (128 in keyboard.h)
  NUM_TERMINALS,    \* 3 in terminal_driver.h
  Keys,             \* the printable characters
  Nbytes,           \* the lengths programs pass to read
  MaxTyped,         \* bound: no key adds to num_chars_typed beyond this
  Patient           \* the user waits for the prompt: no key between an Enter
                    \* and the next read

ASSUME NumCharsAssumption == NUM_CHARS_KB \in Nat \ {0}
ASSUME NumTerminalsAssumption == NUM_TERMINALS \in Nat \ {0}
ASSUME NbytesAssumption == Nbytes \subseteq Nat \ {0}
ASSUME MaxTypedAssumption == MaxTyped \in 0..(NUM_CHARS_KB + 1)
ASSUME PatientAssumption == Patient \in BOOLEAN

Terminals  == 0..(NUM_TERMINALS - 1)
NoTerminal == -1

\* A character; a printable one with the terminal current when it was typed.
Char(key, t) == [key |-> key, at |-> t]
Nul     == Char("nul", NoTerminal)
NewLine == Char("newline", NoTerminal)
TabChar == Char("tab", NoTerminal)
Old     == Char("old", NoTerminal)  \* what a user's buffer held before the read

VARIABLES
  keyboard_buffer,     \* with the cell behind it, which an overrun writes
  num_chars_typed, enter_pressed_flag,
  curr_terminal_id, terminals,
  readers              \* the shells, each interrupted by the next one's start

vars == <<keyboard_buffer, num_chars_typed, enter_pressed_flag,
          curr_terminal_id, terminals, readers>>

Cells     == 0..(NUM_CHARS_KB - 1)
Behind    == NUM_CHARS_KB
UserCells == 0..(NUM_CHARS_KB + 1)

Cleared == [c \in Cells |-> Nul]

\* The line typed so far: what a read would copy now.
Line == [k \in 1..num_chars_typed |-> keyboard_buffer[k - 1]]

Idle   == [pc |-> "user", nbytes |-> 1, i |-> 0, count |-> 0,
           buf |-> [c \in UserCells |-> Old]]
Reader == readers[Len(readers)]
Step(r) == readers' = [readers EXCEPT ![Len(readers)] = r]

-----------------------------------------------------------------------------
(* keyboard_handler *)

KeyMayArrive == Patient => Reader.pc = "wait" /\ enter_pressed_flag = 0

Store(i, c) == keyboard_buffer' = [keyboard_buffer EXCEPT ![i] = c]

print_to_screen(c) ==
  /\ KeyMayArrive
  /\ num_chars_typed < MaxTyped
  /\ Store(num_chars_typed, c)
  /\ num_chars_typed' = num_chars_typed + 1
  /\ UNCHANGED <<enter_pressed_flag, curr_terminal_id, terminals, readers>>

\* A printable key; Escape and other keys without a character store a 0.
Printable == \E key \in Keys : print_to_screen(Char(key, curr_terminal_id))
Unprintable == print_to_screen(Nul)

\* Fault: no test that there is a character to erase.
Backspace_unguarded ==
  /\ KeyMayArrive
  /\ num_chars_typed' = num_chars_typed - 1
  /\ UNCHANGED <<keyboard_buffer, enter_pressed_flag, curr_terminal_id, terminals,
                 readers>>

Backspace ==
  /\ KeyMayArrive
  /\ num_chars_typed > 0
  /\ num_chars_typed' = num_chars_typed - 1
  /\ UNCHANGED <<keyboard_buffer, enter_pressed_flag, curr_terminal_id, terminals,
                 readers>>

\* The count is raised first, so the tab lands behind the line and the line
\* gets whatever its next cell held.
Tab ==
  /\ KeyMayArrive
  /\ num_chars_typed < MaxTyped /\ num_chars_typed < Behind
  /\ num_chars_typed' = num_chars_typed + 1
  /\ Store(num_chars_typed + 1, TabChar)
  /\ UNCHANGED <<enter_pressed_flag, curr_terminal_id, terminals, readers>>

Enter ==
  /\ KeyMayArrive
  /\ num_chars_typed < MaxTyped
  /\ enter_pressed_flag' = 1
  /\ Store(num_chars_typed, NewLine)
  /\ num_chars_typed' = num_chars_typed + 1
  /\ UNCHANGED <<curr_terminal_id, terminals, readers>>

\* memcpy of NUM_CHARS_KB bytes from, and to, keyboard_buffer.
Saved       == [c \in Cells |-> keyboard_buffer[c]]
Restored(b) == [c \in Cells \cup {Behind} |->
                  IF c \in Cells THEN b[c] ELSE keyboard_buffer[c]]

\* Fault: the buffer is not cleared before it is given to the new terminal.
BufferOfNew_uncleared == Saved

\* What clear_keyboard_buff leaves for the new terminal.
BufferOfNew == Cleared

\* terminal_switch(t); a new terminal's shell runs on top of the reader that
\* was interrupted, unless all PCBs are taken.
terminal_switch(t) ==
  /\ KeyMayArrive
  /\ t # curr_terminal_id
  /\ curr_terminal_id' = t
  /\ num_chars_typed' = 0
  /\ LET saved == [terminals EXCEPT ![curr_terminal_id].keyboard_buffer = Saved] IN
     \/ /\ terminals[t].active
        /\ terminals' = saved
        /\ keyboard_buffer' = Restored(saved[t].keyboard_buffer)
        /\ UNCHANGED readers
     \/ /\ ~terminals[t].active
        /\ terminals' = [saved EXCEPT ![t] = [active |-> TRUE,
                                              keyboard_buffer |-> BufferOfNew]]
        /\ keyboard_buffer' = Restored(BufferOfNew)
        /\ \/ readers' = Append(readers, Idle)
           \/ UNCHANGED readers
  /\ UNCHANGED enter_pressed_flag

\* A shell started by a switch halts: the handler that started it returns.
\* (The first program's halt starts it anew, on the same stack.)
HaltShell ==
  /\ Len(readers) > 1
  /\ Reader.pc = "user"
  /\ readers' = SubSeq(readers, 1, Len(readers) - 1)
  /\ UNCHANGED <<keyboard_buffer, num_chars_typed, enter_pressed_flag,
                 curr_terminal_id, terminals>>

-----------------------------------------------------------------------------
(* terminal_read *)

sharedVars == <<keyboard_buffer, num_chars_typed, enter_pressed_flag,
                curr_terminal_id, terminals>>

ReadBegin(n) ==
  /\ Reader.pc = "user"
  /\ Step([Idle EXCEPT !.pc = "wait", !.nbytes = n])
  /\ UNCHANGED sharedVars

\* Fault: the wait is left out.
Wake_atOnce ==
  /\ Reader.pc = "wait"
  /\ Step([Reader EXCEPT !.pc = "copy"])
  /\ UNCHANGED sharedVars

Wake ==
  /\ Reader.pc = "wait"
  /\ enter_pressed_flag = 1
  /\ Step([Reader EXCEPT !.pc = "copy"])
  /\ UNCHANGED sharedVars

\* One round of either copy loop: the test of num_chars_typed and one byte.
Copy ==
  LET r == Reader
      c == keyboard_buffer[r.i]
      b == [r.buf EXCEPT ![r.i] = c]
  IN
  /\ r.pc = "copy"
  /\ \/ /\ r.i >= num_chars_typed
        /\ Step([r EXCEPT !.pc = IF r.nbytes < NUM_CHARS_KB THEN "reset" ELSE "end"])
     \/ /\ r.i < num_chars_typed
        /\ r.nbytes < NUM_CHARS_KB
        /\ Step(IF c = Nul
                THEN [r EXCEPT !.buf = b, !.count = r.i + 1, !.pc = "reset"]
                ELSE [r EXCEPT !.buf = b, !.pc = "test"])
     \/ /\ r.i < num_chars_typed
        /\ r.nbytes >= NUM_CHARS_KB
        /\ Step([r EXCEPT !.buf = b, !.count = @ + 1, !.i = @ + 1])
  /\ UNCHANGED sharedVars

\* The short copy tests the count again after each byte; it can only have
\* become i through a Backspace since the loop's own test.
Test ==
  LET r == Reader IN
  /\ r.pc = "test"
  /\ Step(IF r.i = num_chars_typed
          THEN [r EXCEPT !.buf[r.i] = Nul, !.count = r.i + 1, !.pc = "reset"]
          ELSE [r EXCEPT !.i = @ + 1, !.pc = "copy"])
  /\ UNCHANGED sharedVars

\* The long copy ends its string where the count is by now.
Terminate ==
  /\ Reader.pc = "end"
  /\ Step([Reader EXCEPT !.buf[num_chars_typed] = Nul, !.pc = "reset"])
  /\ UNCHANGED sharedVars

ResetCount ==
  /\ Reader.pc = "reset"
  /\ num_chars_typed' = 0
  /\ Step([Reader EXCEPT !.pc = "flag"])
  /\ UNCHANGED <<keyboard_buffer, enter_pressed_flag, curr_terminal_id, terminals>>

\* Fault: the flag stays set.
ResetFlag_forgotten ==
  /\ Reader.pc = "flag"
  /\ Step([Reader EXCEPT !.pc = "clear", !.i = 0])
  /\ UNCHANGED sharedVars

ResetFlag ==
  /\ Reader.pc = "flag"
  /\ enter_pressed_flag' = 0
  /\ Step([Reader EXCEPT !.pc = "clear", !.i = 0])
  /\ UNCHANGED <<keyboard_buffer, num_chars_typed, curr_terminal_id, terminals>>

\* clear_keyboard_buff, and the return.
ClearCell ==
  /\ Reader.pc = "clear"
  /\ Reader.i \in Cells
  /\ Store(Reader.i, Nul)
  /\ Step([Reader EXCEPT !.i = @ + 1])
  /\ UNCHANGED <<num_chars_typed, enter_pressed_flag, curr_terminal_id, terminals>>

ReadReturn ==
  /\ Reader.pc = "clear"
  /\ Reader.i = NUM_CHARS_KB
  /\ num_chars_typed' = 0
  /\ Step(Idle)
  /\ UNCHANGED <<keyboard_buffer, enter_pressed_flag, curr_terminal_id, terminals>>

ReaderStep == \/ Wake \/ Copy \/ Test \/ Terminate
              \/ ResetCount \/ ResetFlag \/ ClearCell \/ ReadReturn

-----------------------------------------------------------------------------
\* keyboard_initialize, and entry() when it has called terminal_init(0), which
\* is commented out in kernel.c: without it the first Alt+Fn faults.
Init ==
  /\ keyboard_buffer = [c \in Cells \cup {Behind} |-> Nul]
  /\ num_chars_typed = 0
  /\ enter_pressed_flag = 0
  /\ curr_terminal_id = 0
  /\ readers = <<Idle>>
  /\ terminals = [t \in Terminals |->
                    [active |-> t = 0, keyboard_buffer |-> Cleared]]

Next ==
  \/ Printable \/ Unprintable \/ Backspace \/ Tab \/ Enter
  \/ \E t \in Terminals : terminal_switch(t)
  \/ HaltShell
  \/ \E n \in Nbytes : ReadBegin(n)
  \/ ReaderStep

\* Interrupts return, and the reader they interrupted runs on.
Spec == Init /\ [][Next]_vars /\ WF_vars(ReaderStep)

-----------------------------------------------------------------------------
(* Types *)

Characters == {Nul, NewLine, TabChar} \cup [key : Keys, at : Terminals]
ReaderType == [pc : {"user", "wait", "copy", "test", "end", "reset", "flag", "clear"},
               nbytes : Nat, i : 0..(NUM_CHARS_KB + 1), count : 0..(NUM_CHARS_KB + 1),
               buf : [UserCells -> Characters \cup {Old}]]

TypeOK ==
  /\ keyboard_buffer \in [Cells \cup {Behind} -> Characters]
  /\ num_chars_typed \in 0..MaxTyped
  /\ enter_pressed_flag \in {0, 1}
  /\ curr_terminal_id \in Terminals
  /\ terminals \in [Terminals -> [active : BOOLEAN,
                                  keyboard_buffer : [Cells -> Characters]]]
  /\ readers \in Seq(ReaderType) /\ readers # <<>>

-----------------------------------------------------------------------------
(* Properties *)

\* The shared buffer holds what was typed on the current terminal, and a saved
\* buffer what was typed on its own, whatever a reader is in the middle of when
\* Alt+Fn interrupts it.  What an interrupted read then copies to its program
\* is another matter: it goes on with the buffer of the terminal now shown.
TypedOn(b, t) == \A c \in Cells : b[c].at \in {t, NoTerminal}

BuffersAreNotMixed ==
  /\ TypedOn(keyboard_buffer, curr_terminal_id)
  /\ \A t \in Terminals \ {curr_terminal_id} : TypedOn(terminals[t].keyboard_buffer, t)

\* With a patient user and long reads the driver implements LineDiscipline:
\* every closed line is delivered whole and once, also across shells started
\* by a switch, and eventually.
Copied == [k \in 1..Reader.count |-> Reader.buf[k - 1]]

TypedLine == IF Reader.pc = "flag" THEN Copied
             ELSE IF Reader.pc = "clear" THEN <<>> ELSE Line
Delivered == IF Reader.pc = "clear" THEN Copied ELSE <<>>

LD == INSTANCE LineDiscipline
        WITH Symbols <- Characters,
             line    <- TypedLine,
             closed  <- enter_pressed_flag = 1,
             out     <- Delivered

ImplementsLineDiscipline == LD!Spec

=============================================================================
