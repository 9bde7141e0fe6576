---------------------------- MODULE TerminalProofs ----------------------------
(***************************************************************************)
(* Proofs about Terminal, for buffers of every size, any number of          *)
(* terminals and any nesting of readers.                                    *)
(*                                                                         *)
(* Types are not inductive as they stand: the index of a copy that a        *)
(* Backspace overtakes stays in range only because it was below the count   *)
(* when its byte was copied, and the long copy's count because it goes with  *)
(* its index.  Both hold of interrupted readers too (ReaderInv).            *)
(*                                                                         *)
(* That Terminal implements LineDiscipline takes DeliveryInv: how much of a *)
(* closed line is in the reader's buffer at each place of terminal_read,    *)
(* and that only the reader on top is past its loop.                        *)
(***************************************************************************)
EXTENDS Terminal, SequenceTheorems, TLAPS

ReaderInv(r) ==
  /\ r \in ReaderType
  /\ r.pc = "test" => r.i <= NUM_CHARS_KB /\ r.nbytes < NUM_CHARS_KB
  /\ r.pc \in {"wait", "copy"} /\ r.nbytes >= NUM_CHARS_KB => r.count = r.i

ReadersInv == \A d \in DOMAIN readers : ReaderInv(readers[d])

IInv == TypeOK /\ ReadersInv

-----------------------------------------------------------------------------
(* Facts *)

LEMMA CharacterTypes ==
  /\ {Nul, NewLine, TabChar} \subseteq Characters
  /\ \A key \in Keys, t \in Terminals : Char(key, t) \in Characters
  /\ Cleared \in [Cells -> Characters]
BY DEF Characters, Char, Nul, Cleared

LEMMA IdleInv == ReaderInv(Idle)
<1>1. Idle.pc = "user" /\ Idle \in ReaderType
  BY NumCharsAssumption DEF Idle, ReaderType, UserCells, Old
<1> QED
  BY <1>1 DEF ReaderInv

\* The running reader is the last of readers.
LEMMA ReaderFacts ==
  ASSUME IInv
  PROVE  /\ Len(readers) \in Nat \ {0}
         /\ Len(readers) \in DOMAIN readers
         /\ readers \in Seq(ReaderType)
         /\ ReaderInv(Reader)
<1>1. readers \in Seq(ReaderType) /\ readers # <<>>
  BY DEF IInv, TypeOK
<1>2. Len(readers) \in Nat \ {0} /\ DOMAIN readers = 1..Len(readers)
  BY <1>1, LenProperties, EmptySeq
<1> QED
  BY <1>1, <1>2 DEF IInv, ReadersInv, Reader

\* A step of the running reader keeps the invariant of all.
LEMMA StepKeepsReaders ==
  ASSUME IInv, NEW r, ReaderInv(r), Step(r)
  PROVE  readers' \in Seq(ReaderType) /\ readers' # <<>> /\ ReadersInv'
<1> DEFINE n == Len(readers)
<1>1. /\ n \in Nat \ {0} /\ n \in DOMAIN readers /\ readers \in Seq(ReaderType)
      /\ readers' = [readers EXCEPT ![n] = r]
      /\ r \in ReaderType
  BY ReaderFacts DEF Step, ReaderInv
<1>2. /\ readers' \in Seq(ReaderType) /\ Len(readers') = n
      /\ \A d \in DOMAIN readers' :
           d \in DOMAIN readers /\ readers'[d] = IF d = n THEN r ELSE readers[d]
  BY <1>1, ExceptSeq
<1>3. readers' # <<>>
  BY <1>1, <1>2, EmptySeq
<1>4. \A d \in DOMAIN readers' : ReaderInv(readers'[d])
  BY <1>2 DEF IInv, ReadersInv
<1> QED
  BY <1>2, <1>3, <1>4 DEF ReadersInv

LEMMA SameReaders ==
  ASSUME IInv, UNCHANGED readers
  PROVE  readers' \in Seq(ReaderType) /\ readers' # <<>> /\ ReadersInv'
BY DEF IInv, TypeOK, ReadersInv, ReaderInv

\* A step of a reader that leaves the shared state alone.
LEMMA LocalStepKeepsInvariant ==
  ASSUME IInv, NEW r, ReaderInv(r), Step(r), UNCHANGED sharedVars
  PROVE  IInv'
<1>1. readers' \in Seq(ReaderType) /\ readers' # <<>> /\ ReadersInv'
  BY StepKeepsReaders
<1> QED
  BY <1>1 DEF IInv, TypeOK, sharedVars

LEMMA StoreType ==
  ASSUME TypeOK, NEW i, NEW c \in Characters, Store(i, c)
  PROVE  keyboard_buffer' \in [Cells \cup {Behind} -> Characters]
BY DEF TypeOK, Store

-----------------------------------------------------------------------------
(* The keys *)

LEMMA PrintKeepsInvariant ==
  ASSUME IInv, NEW c \in Characters, print_to_screen(c)
  PROVE  IInv'
<1>1. keyboard_buffer' \in [Cells \cup {Behind} -> Characters]
  BY StoreType DEF IInv, print_to_screen
<1>2. num_chars_typed' \in 0..MaxTyped
  BY MaxTypedAssumption, NumCharsAssumption DEF IInv, TypeOK, print_to_screen
<1>3. readers' \in Seq(ReaderType) /\ readers' # <<>> /\ ReadersInv'
  BY SameReaders DEF print_to_screen
<1> QED
  BY <1>1, <1>2, <1>3 DEF IInv, TypeOK, print_to_screen

LEMMA OtherKeysKeepInvariant ==
  ASSUME IInv, Backspace \/ Tab \/ Enter
  PROVE  IInv'
<1>1. UNCHANGED readers
  BY DEF Backspace, Tab, Enter
<1>2. readers' \in Seq(ReaderType) /\ readers' # <<>> /\ ReadersInv'
  BY <1>1, SameReaders
<1>3. keyboard_buffer' \in [Cells \cup {Behind} -> Characters]
  <2>1. TabChar \in Characters /\ NewLine \in Characters
    BY CharacterTypes
  <2>2. CASE Backspace
    BY <2>2 DEF Backspace, IInv, TypeOK
  <2>3. CASE Tab
    BY <2>1, <2>3, StoreType DEF Tab, IInv
  <2>4. CASE Enter
    BY <2>1, <2>4, StoreType DEF Enter, IInv
  <2> QED
    BY <2>2, <2>3, <2>4
<1>4. num_chars_typed' \in 0..MaxTyped
  BY MaxTypedAssumption, NumCharsAssumption DEF IInv, TypeOK, Backspace, Tab, Enter
<1>5. enter_pressed_flag' \in {0, 1} /\ UNCHANGED <<curr_terminal_id, terminals>>
  BY DEF IInv, TypeOK, Backspace, Tab, Enter
<1> QED
  BY <1>2, <1>3, <1>4, <1>5 DEF IInv, TypeOK

\* The buffers before and after a switch.
LEMMA SwitchBuffers ==
  ASSUME TypeOK
  PROVE  /\ Saved \in [Cells -> Characters]
         /\ \A b \in [Cells -> Characters] :
              Restored(b) \in [Cells \cup {Behind} -> Characters]
         /\ BufferOfNew \in [Cells -> Characters]
BY CharacterTypes DEF TypeOK, Saved, Restored, BufferOfNew

LEMMA SwitchKeepsInvariant ==
  ASSUME IInv, NEW t \in Terminals, terminal_switch(t)
  PROVE  IInv'
<1> DEFINE saved == [terminals EXCEPT ![curr_terminal_id].keyboard_buffer = Saved]
           TerminalType == [active : BOOLEAN, keyboard_buffer : [Cells -> Characters]]
<1>1. /\ curr_terminal_id' = t /\ num_chars_typed' = 0 /\ UNCHANGED enter_pressed_flag
      /\ terminals \in [Terminals -> TerminalType] /\ curr_terminal_id \in Terminals
      /\ enter_pressed_flag \in {0, 1}
  BY DEF terminal_switch, IInv, TypeOK
<1>2. saved \in [Terminals -> TerminalType]
  <2>1. \A x \in TerminalType :
          [x EXCEPT !.keyboard_buffer = Saved] \in TerminalType
    BY SwitchBuffers DEF IInv
  <2> QED
    BY <1>1, <2>1
<1>3. /\ terminals' \in [Terminals -> TerminalType]
      /\ keyboard_buffer' \in [Cells \cup {Behind} -> Characters]
  <2>1. CASE terminals' = saved /\ keyboard_buffer' = Restored(saved[t].keyboard_buffer)
    <3>1. saved[t].keyboard_buffer \in [Cells -> Characters]
      BY <1>2
    <3> QED
      BY <1>2, <2>1, <3>1, SwitchBuffers DEF IInv
  <2>2. CASE /\ terminals' = [saved EXCEPT ![t] = [active |-> TRUE,
                                                   keyboard_buffer |-> BufferOfNew]]
             /\ keyboard_buffer' = Restored(BufferOfNew)
    <3>1. [active |-> TRUE, keyboard_buffer |-> BufferOfNew] \in TerminalType
      BY SwitchBuffers DEF IInv
    <3> HIDE DEF saved, TerminalType
    <3> QED
      BY <1>2, <2>2, <3>1, SwitchBuffers DEF IInv
  <2> QED
    BY <2>1, <2>2 DEF terminal_switch
<1>4. readers' \in Seq(ReaderType) /\ readers' # <<>> /\ ReadersInv'
  <2>1. CASE UNCHANGED readers
    BY <2>1, SameReaders
  <2>2. CASE readers' = Append(readers, Idle)
    <3>1. readers \in Seq(ReaderType) /\ Idle \in ReaderType
      BY ReaderFacts, IdleInv DEF ReaderInv
    <3>2. /\ readers' \in Seq(ReaderType) /\ readers' # <<>>
          /\ \A d \in DOMAIN readers' :
               \/ d \in DOMAIN readers /\ readers'[d] = readers[d]
               \/ readers'[d] = Idle
      <4>1. /\ readers' \in Seq(ReaderType) /\ Len(readers') = Len(readers) + 1
            /\ \A d \in 1..Len(readers) : readers'[d] = readers[d]
            /\ readers'[Len(readers) + 1] = Idle
            /\ DOMAIN readers = 1..Len(readers) /\ DOMAIN readers' = 1..Len(readers')
            /\ Len(readers) \in Nat
        BY <2>2, <3>1, AppendProperties, LenProperties
      <4>2. \A d \in 1..(Len(readers) + 1) :
              d \in 1..Len(readers) \/ d = Len(readers) + 1
        BY <4>1
      <4>3. readers' # <<>>
        BY <4>1, EmptySeq
      <4> QED
        BY <4>1, <4>2, <4>3
    <3>3. \A d \in DOMAIN readers' : ReaderInv(readers'[d])
      BY <3>2, IdleInv DEF IInv, ReadersInv
    <3> QED
      BY <3>2, <3>3 DEF ReadersInv
  <2> QED
    BY <2>1, <2>2 DEF terminal_switch
<1>5. 0 \in 0..MaxTyped
  BY MaxTypedAssumption, NumCharsAssumption
<1> QED
  BY <1>1, <1>3, <1>4, <1>5 DEF IInv, TypeOK

LEMMA HaltShellKeepsInvariant ==
  ASSUME IInv, HaltShell
  PROVE  IInv'
<1> DEFINE n == Len(readers)
<1>1. /\ n \in Nat /\ n > 1 /\ readers \in Seq(ReaderType)
      /\ readers' = SubSeq(readers, 1, n - 1)
  BY ReaderFacts DEF HaltShell
<1>2. /\ readers' \in Seq(ReaderType) /\ Len(readers') = n - 1
      /\ \A d \in 1..(n - 1) : readers'[d] = readers[d]
  <2>1. DOMAIN readers = 1..n /\ 1 \in 1..(n + 1) /\ n - 1 \in 0..n
    BY <1>1, LenProperties
  <2>2. \A d \in 1..(n - 1) : readers[d] \in ReaderType
    BY <1>1, <2>1, ElementOfSeq
  <2>3. /\ SubSeq(readers, 1, n - 1) \in Seq(ReaderType)
        /\ Len(SubSeq(readers, 1, n - 1)) = n - 1
        /\ \A d \in 1..(n - 1) : SubSeq(readers, 1, n - 1)[d] = readers[d]
    <3> HIDE DEF n
    <3> QED
      BY <1>1, <2>1, <2>2, SubSeqProperties
  <2> QED
    BY <1>1, <2>3
<1>3. /\ DOMAIN readers' = 1..(n - 1) /\ 1..(n - 1) \subseteq DOMAIN readers
      /\ readers' # <<>>
  <2>1. DOMAIN readers = 1..n /\ DOMAIN readers' = 1..Len(readers')
    BY <1>1, <1>2, LenProperties
  <2>2. Len(readers') # 0
    BY <1>1, <1>2
  <2>3. readers' # <<>>
    BY <2>2, EmptySeq
  <2> HIDE DEF n
  <2> QED
    BY <1>1, <1>2, <2>1, <2>3
<1>4. \A d \in DOMAIN readers' : ReaderInv(readers'[d])
  BY <1>2, <1>3 DEF IInv, ReadersInv
<1> QED
  BY <1>2, <1>3, <1>4 DEF IInv, TypeOK, ReadersInv, HaltShell

-----------------------------------------------------------------------------
(* terminal_read *)

Buffers == [UserCells -> Characters \cup {Old}]

\* The reader after a copy that ends, after a byte of the short copy, and after
\* one of the long copy.
LEMMA EndOfCopyInv ==
  ASSUME NEW r, ReaderInv(r), NEW b \in Buffers, r.i <= NUM_CHARS_KB
  PROVE  ReaderInv([r EXCEPT !.buf = b, !.count = r.i + 1, !.pc = "reset"])
<1> DEFINE s == [r EXCEPT !.buf = b, !.count = r.i + 1, !.pc = "reset"]
<1>1. r.i + 1 \in 0..(NUM_CHARS_KB + 1) /\ r \in ReaderType
  BY NumCharsAssumption DEF ReaderInv, ReaderType
<1>2. s \in ReaderType /\ s.pc = "reset"
  BY <1>1 DEF ReaderType, Buffers
<1> QED
  BY <1>2 DEF ReaderInv

LEMMA ShortCopyInv ==
  ASSUME NEW r, ReaderInv(r), NEW b \in Buffers, r.i <= NUM_CHARS_KB,
         r.nbytes < NUM_CHARS_KB
  PROVE  ReaderInv([r EXCEPT !.buf = b, !.pc = "test"])
<1> DEFINE s == [r EXCEPT !.buf = b, !.pc = "test"]
<1>1. r \in ReaderType
  BY DEF ReaderInv
<1>2. s \in ReaderType /\ s.pc = "test" /\ s.i = r.i /\ s.nbytes = r.nbytes
  BY <1>1 DEF ReaderType, Buffers
<1> QED
  BY <1>2 DEF ReaderInv

LEMMA LongCopyInv ==
  ASSUME NEW r, ReaderInv(r), NEW b \in Buffers, r.i <= NUM_CHARS_KB,
         r.pc = "copy", r.nbytes >= NUM_CHARS_KB
  PROVE  ReaderInv([r EXCEPT !.buf = b, !.count = @ + 1, !.i = @ + 1])
<1> DEFINE s == [r EXCEPT !.buf = b, !.count = @ + 1, !.i = @ + 1]
<1>1. r \in ReaderType /\ r.count = r.i /\ r.i + 1 \in 0..(NUM_CHARS_KB + 1)
  BY NumCharsAssumption DEF ReaderInv, ReaderType
<1>2. s \in ReaderType /\ s.pc = "copy" /\ s.i = r.i + 1 /\ s.count = r.count + 1
  BY <1>1 DEF ReaderType, Buffers
<1> QED
  BY <1>1, <1>2 DEF ReaderInv

LEMMA ReadBeginKeepsInvariant ==
  ASSUME IInv, NEW n \in Nbytes, ReadBegin(n)
  PROVE  IInv'
<1> DEFINE r == [Idle EXCEPT !.pc = "wait", !.nbytes = n]
<1>1. ReaderInv(r)
  BY NbytesAssumption, NumCharsAssumption, IdleInv
  DEF ReaderInv, ReaderType, Idle, UserCells
<1>2. Step(r) /\ UNCHANGED sharedVars
  BY DEF ReadBegin
<1> HIDE DEF r
<1> QED
  BY <1>1, <1>2, LocalStepKeepsInvariant

LEMMA WakeKeepsInvariant ==
  ASSUME IInv, Wake
  PROVE  IInv'
<1> DEFINE r == [Reader EXCEPT !.pc = "copy"]
<1>1. ReaderInv(r)
  BY ReaderFacts DEF Wake, ReaderInv, ReaderType
<1>2. Step(r) /\ UNCHANGED sharedVars
  BY DEF Wake
<1> HIDE DEF r
<1> QED
  BY <1>1, <1>2, LocalStepKeepsInvariant

LEMMA CopyKeepsInvariant ==
  ASSUME IInv, Copy
  PROVE  IInv'
<1> DEFINE r == Reader
           c == keyboard_buffer[r.i]
           b == [r.buf EXCEPT ![r.i] = c]
<1>1. /\ ReaderInv(r) /\ r.pc = "copy" /\ UNCHANGED sharedVars
      /\ num_chars_typed \in 0..(NUM_CHARS_KB + 1)
      /\ NUM_CHARS_KB \in Nat \ {0}
  BY ReaderFacts, MaxTypedAssumption, NumCharsAssumption DEF Copy, IInv, TypeOK
<1> HIDE DEF r
<1>2. CASE r.i >= num_chars_typed
  <2> DEFINE s == [r EXCEPT !.pc = IF r.nbytes < NUM_CHARS_KB THEN "reset" ELSE "end"]
  <2>1. ReaderInv(s)
    BY <1>1 DEF ReaderInv, ReaderType
  <2>2. Step(s)
    BY <1>1, <1>2 DEF Copy, ReaderInv, ReaderType, r
  <2> HIDE DEF s
  <2> QED
    BY <1>1, <2>1, <2>2, LocalStepKeepsInvariant
<1>3. CASE r.i < num_chars_typed
  <2>1. r.i \in 0..NUM_CHARS_KB /\ r.i \in UserCells
    BY <1>1, <1>3 DEF ReaderInv, ReaderType, UserCells
  <2>2. c \in Characters
    <3>1. r.i \in Cells \cup {Behind}
      BY <1>1, <2>1 DEF Cells, Behind
    <3> QED
      BY <3>1 DEF IInv, TypeOK
  <2>3. b \in Buffers
    BY <1>1, <2>1, <2>2 DEF ReaderInv, ReaderType, Buffers
  <2> HIDE DEF c, b
  <2>4. CASE r.nbytes < NUM_CHARS_KB
    <3> DEFINE s == [r EXCEPT !.buf = b, !.count = r.i + 1, !.pc = "reset"]
               u == [r EXCEPT !.buf = b, !.pc = "test"]
    <3>1. r.i <= NUM_CHARS_KB
      BY <1>1, <2>1
    <3>2. ReaderInv(s) /\ ReaderInv(u)
      BY <1>1, <2>3, <2>4, <3>1, EndOfCopyInv, ShortCopyInv
    <3>3. Step(s) \/ Step(u)
      BY <1>1, <1>3, <2>4 DEF Copy, ReaderInv, ReaderType, r, c, b
    <3> HIDE DEF s, u
    <3> QED
      BY <1>1, <3>2, <3>3, LocalStepKeepsInvariant
  <2>5. CASE r.nbytes >= NUM_CHARS_KB
    <3> DEFINE s == [r EXCEPT !.buf = b, !.count = @ + 1, !.i = @ + 1]
    <3>1. ReaderInv(s)
      <4>1. r.i <= NUM_CHARS_KB
        BY <1>1, <2>1
      <4> QED
        BY <1>1, <2>3, <2>5, <4>1, LongCopyInv
    <3>2. Step(s)
      BY <1>1, <1>3, <2>5 DEF Copy, ReaderInv, ReaderType, r, c, b
    <3> HIDE DEF s
    <3> QED
      BY <1>1, <3>1, <3>2, LocalStepKeepsInvariant
  <2> QED
    BY <1>1, <2>4, <2>5 DEF ReaderInv, ReaderType
<1> QED
  BY <1>1, <1>2, <1>3 DEF ReaderInv, ReaderType

LEMMA TestKeepsInvariant ==
  ASSUME IInv, Test
  PROVE  IInv'
<1> DEFINE r == Reader
           b == [r.buf EXCEPT ![r.i] = Nul]
           s == [r EXCEPT !.buf = b, !.count = r.i + 1, !.pc = "reset"]
           u == [r EXCEPT !.i = @ + 1, !.pc = "copy"]
<1>1. /\ ReaderInv(r) /\ r.pc = "test" /\ UNCHANGED sharedVars
      /\ NUM_CHARS_KB \in Nat \ {0} /\ Nul \in Characters
  BY ReaderFacts, NumCharsAssumption, CharacterTypes DEF Test
<1> HIDE DEF r
<1>2. ReaderInv(s)
  <2>1. b \in Buffers
    BY <1>1 DEF ReaderInv, ReaderType, Buffers
  <2>2. r.i <= NUM_CHARS_KB
    BY <1>1 DEF ReaderInv
  <2> HIDE DEF b
  <2> QED
    BY <1>1, <2>1, <2>2, EndOfCopyInv
<1>3. ReaderInv(u)
  <2>1. r \in ReaderType /\ r.i + 1 \in 0..(NUM_CHARS_KB + 1) /\ r.nbytes < NUM_CHARS_KB
    BY <1>1 DEF ReaderInv, ReaderType
  <2>2. u \in ReaderType /\ u.pc = "copy" /\ u.nbytes = r.nbytes
    BY <2>1 DEF ReaderType
  <2>3. ~(r.nbytes >= NUM_CHARS_KB)
    BY <1>1, <2>1 DEF ReaderType
  <2> HIDE DEF u
  <2> QED
    BY <2>2, <2>3 DEF ReaderInv
<1>4. Step(s) \/ Step(u)
  BY DEF Test, r
<1> HIDE DEF s, u
<1> QED
  BY <1>1, <1>2, <1>3, <1>4, LocalStepKeepsInvariant

LEMMA TerminateKeepsInvariant ==
  ASSUME IInv, Terminate
  PROVE  IInv'
<1> DEFINE q == Reader
           b == [q.buf EXCEPT ![num_chars_typed] = Nul]
           r == [q EXCEPT !.buf = b, !.pc = "reset"]
<1>1. num_chars_typed \in UserCells /\ Nul \in Characters
  BY MaxTypedAssumption, NumCharsAssumption, CharacterTypes DEF IInv, TypeOK, UserCells
<1>2. ReaderInv(q)
  BY ReaderFacts
<1> HIDE DEF q
<1>3. ReaderInv(r)
  <2>1. b \in Buffers /\ q \in ReaderType
    BY <1>1, <1>2 DEF ReaderInv, ReaderType, Buffers
  <2> HIDE DEF b
  <2>2. r \in ReaderType /\ r.pc = "reset"
    BY <2>1 DEF ReaderType, Buffers
  <2> QED
    BY <2>2 DEF ReaderInv
<1>4. Step(r) /\ UNCHANGED sharedVars
  BY DEF Terminate, q
<1> HIDE DEF r
<1> QED
  BY <1>3, <1>4, LocalStepKeepsInvariant

LEMMA ResetKeepsInvariant ==
  ASSUME IInv, ResetCount \/ ResetFlag
  PROVE  IInv'
<1> DEFINE q == Reader
           r == [q EXCEPT !.pc = "flag"]
           s == [q EXCEPT !.pc = "clear", !.i = 0]
<1>1. q \in ReaderType /\ NUM_CHARS_KB \in Nat \ {0}
  BY ReaderFacts, NumCharsAssumption DEF ReaderInv
<1> HIDE DEF q
<1>2. ReaderInv(r) /\ ReaderInv(s)
  <2>1. r \in ReaderType /\ r.pc = "flag"
    BY <1>1 DEF ReaderType
  <2>2. 0 \in 0..(NUM_CHARS_KB + 1)
    BY <1>1
  <2>3. s \in ReaderType /\ s.pc = "clear"
    BY <1>1, <2>2 DEF ReaderType
  <2> QED
    BY <2>1, <2>3 DEF ReaderInv
<1>3. Step(r) \/ Step(s)
  BY DEF ResetCount, ResetFlag, q
<1> HIDE DEF r, s
<1>4. readers' \in Seq(ReaderType) /\ readers' # <<>> /\ ReadersInv'
  BY <1>2, <1>3, StepKeepsReaders
<1>5. num_chars_typed' \in 0..MaxTyped /\ enter_pressed_flag' \in {0, 1}
  BY MaxTypedAssumption, NumCharsAssumption DEF IInv, TypeOK, ResetCount, ResetFlag
<1>6. UNCHANGED <<keyboard_buffer, curr_terminal_id, terminals>>
  BY DEF ResetCount, ResetFlag
<1> QED
  BY <1>4, <1>5, <1>6 DEF IInv, TypeOK

LEMMA ClearKeepsInvariant ==
  ASSUME IInv, ClearCell \/ ReadReturn
  PROVE  IInv'
<1>1. ReaderInv(Reader) /\ NUM_CHARS_KB \in Nat \ {0}
  BY ReaderFacts, NumCharsAssumption
<1>2. CASE ClearCell
  <2> DEFINE r == [Reader EXCEPT !.i = @ + 1]
  <2>1. ReaderInv(r)
    BY <1>1, <1>2 DEF ClearCell, ReaderInv, ReaderType, Cells
  <2>2. Step(r) /\ UNCHANGED <<num_chars_typed, enter_pressed_flag, curr_terminal_id,
                               terminals>>
    BY <1>2 DEF ClearCell
  <2> HIDE DEF r
  <2>3. readers' \in Seq(ReaderType) /\ readers' # <<>> /\ ReadersInv'
    BY <2>1, <2>2, StepKeepsReaders
  <2>4. keyboard_buffer' \in [Cells \cup {Behind} -> Characters]
    BY <1>2, CharacterTypes, StoreType DEF ClearCell, IInv
  <2> QED
    BY <2>2, <2>3, <2>4 DEF IInv, TypeOK
<1>3. CASE ReadReturn
  <2>1. readers' \in Seq(ReaderType) /\ readers' # <<>> /\ ReadersInv'
    BY <1>3, IdleInv, StepKeepsReaders DEF ReadReturn
  <2>2. 0 \in 0..MaxTyped
    BY MaxTypedAssumption, NumCharsAssumption
  <2> QED
    BY <1>3, <2>1, <2>2 DEF ReadReturn, IInv, TypeOK
<1> QED
  BY <1>2, <1>3

-----------------------------------------------------------------------------
(* Types *)

LEMMA InitEstablishesInvariant == Init => IInv
<1> SUFFICES ASSUME Init PROVE IInv
  OBVIOUS
<1>1. /\ keyboard_buffer \in [Cells \cup {Behind} -> Characters]
      /\ 0 \in Terminals
      /\ num_chars_typed \in 0..MaxTyped
  BY CharacterTypes, NumTerminalsAssumption, MaxTypedAssumption, NumCharsAssumption
  DEF Init, Terminals
<1>2. terminals \in [Terminals -> [active : BOOLEAN,
                                    keyboard_buffer : [Cells -> Characters]]]
  BY CharacterTypes DEF Init
<1>3. readers \in Seq(ReaderType) /\ readers # <<>> /\ ReadersInv
  <2>1. readers = <<Idle>> /\ Idle \in ReaderType
    BY IdleInv DEF Init, ReaderInv
  <2>2. \A d \in DOMAIN readers : readers[d] = Idle
    BY <2>1
  <2> QED
    BY <2>1, <2>2, IdleInv DEF ReadersInv
<1> QED
  BY <1>1, <1>2, <1>3 DEF IInv, TypeOK, Init

LEMMA NextKeepsInvariant == IInv /\ [Next]_vars => IInv'
<1> SUFFICES ASSUME IInv, [Next]_vars PROVE IInv'
  OBVIOUS
<1>1. CASE Printable \/ Unprintable
  <2>1. CASE Printable
    <3>1. PICK key \in Keys : print_to_screen(Char(key, curr_terminal_id))
      BY <2>1 DEF Printable
    <3>2. Char(key, curr_terminal_id) \in Characters
      BY CharacterTypes DEF IInv, TypeOK
    <3> QED
      BY <3>1, <3>2, PrintKeepsInvariant
  <2>2. CASE Unprintable
    BY <2>2, CharacterTypes, PrintKeepsInvariant DEF Unprintable
  <2> QED
    BY <1>1, <2>1, <2>2
<1>2. CASE Backspace \/ Tab \/ Enter
  BY <1>2, OtherKeysKeepInvariant
<1>3. CASE \E t \in Terminals : terminal_switch(t)
  BY <1>3, SwitchKeepsInvariant
<1>4. CASE HaltShell
  BY <1>4, HaltShellKeepsInvariant
<1>5. CASE \E n \in Nbytes : ReadBegin(n)
  BY <1>5, ReadBeginKeepsInvariant
<1>6. CASE ReaderStep
  BY <1>6, WakeKeepsInvariant, CopyKeepsInvariant, TestKeepsInvariant,
     TerminateKeepsInvariant, ResetKeepsInvariant, ClearKeepsInvariant
  DEF ReaderStep
<1>7. CASE UNCHANGED vars
  BY <1>7, SameReaders DEF vars, IInv, TypeOK
<1> QED
  BY <1>1, <1>2, <1>3, <1>4, <1>5, <1>6, <1>7 DEF Next

LEMMA InvariantHolds == Spec => []IInv
<1>1. Init => IInv
  BY InitEstablishesInvariant
<1>2. IInv /\ [Next]_vars => IInv'
  BY NextKeepsInvariant
<1> QED
  BY <1>1, <1>2, PTL DEF Spec

\* The driver keeps inside its buffers, whatever key comes between whichever
\* two steps of whichever read: no copy leaves the user's buffer.
THEOREM TypeCorrect == Spec => []TypeOK
<1>1. IInv => TypeOK
  BY DEF IInv
<1> QED
  BY <1>1, InvariantHolds, PTL

-----------------------------------------------------------------------------
(* Buffers *)

\* Keys and the clearing of cells store what is typed on the current terminal.
LEMMA StoreKeepsBuffers ==
  ASSUME TypeOK, BuffersAreNotMixed, NEW i, NEW c, Store(i, c),
         c.at \in {curr_terminal_id, NoTerminal},
         UNCHANGED <<curr_terminal_id, terminals>>
  PROVE  BuffersAreNotMixed'
BY DEF TypeOK, BuffersAreNotMixed, TypedOn, Store

LEMMA SameBuffers ==
  ASSUME BuffersAreNotMixed, UNCHANGED <<keyboard_buffer, curr_terminal_id, terminals>>
  PROVE  BuffersAreNotMixed'
BY DEF BuffersAreNotMixed, TypedOn

LEMMA SwitchKeepsBuffers ==
  ASSUME TypeOK, BuffersAreNotMixed, NEW t \in Terminals, terminal_switch(t)
  PROVE  BuffersAreNotMixed'
<1> DEFINE saved == [terminals EXCEPT ![curr_terminal_id].keyboard_buffer = Saved]
<1>1. /\ curr_terminal_id' = t /\ t # curr_terminal_id
      /\ curr_terminal_id \in Terminals
      /\ terminals \in [Terminals -> [active : BOOLEAN,
                                       keyboard_buffer : [Cells -> Characters]]]
  BY DEF terminal_switch, TypeOK
<1>2. TypedOn(Saved, curr_terminal_id)
  BY DEF TypedOn, Saved, BuffersAreNotMixed
<1>3. \A u \in Terminals : TypedOn(saved[u].keyboard_buffer, u)
  <2>1. saved[curr_terminal_id].keyboard_buffer = Saved
    BY <1>1
  <2>2. \A u \in Terminals \ {curr_terminal_id} : saved[u] = terminals[u]
    BY <1>1
  <2> HIDE DEF saved
  <2> QED
    BY <1>2, <2>1, <2>2 DEF BuffersAreNotMixed
<1>4. \A b, u : TypedOn(b, u) => TypedOn(Restored(b), u)
  BY DEF TypedOn, Restored
<1>5. TypedOn(BufferOfNew, t)
  BY DEF TypedOn, BufferOfNew, Cleared, Nul, Char
<1>6. saved \in [Terminals -> [active : BOOLEAN,
                               keyboard_buffer : [Cells -> Characters]]]
  <2>1. DOMAIN saved = Terminals
    BY <1>1
  <2> QED
    BY <1>1, SwitchBuffers
<1> HIDE DEF saved
<1>7. /\ TypedOn(keyboard_buffer', t)
      /\ \A u \in Terminals \ {t} : terminals'[u] = saved[u]
  <2>1. CASE terminals' = saved /\ keyboard_buffer' = Restored(saved[t].keyboard_buffer)
    BY <1>3, <1>4, <2>1
  <2>2. CASE /\ terminals' = [saved EXCEPT ![t] = [active |-> TRUE,
                                                   keyboard_buffer |-> BufferOfNew]]
             /\ keyboard_buffer' = Restored(BufferOfNew)
    BY <1>4, <1>5, <1>6, <2>2
  <2> QED
    BY <2>1, <2>2 DEF terminal_switch, saved
<1>8. \A u \in Terminals \ {t} : TypedOn(terminals'[u].keyboard_buffer, u)
  BY <1>3, <1>7
<1>9. /\ TypedOn(keyboard_buffer, curr_terminal_id)'
      /\ \A u \in Terminals : TypedOn(terminals[u].keyboard_buffer, u)'
                             <=> TypedOn(terminals'[u].keyboard_buffer, u)
  BY <1>1, <1>7 DEF TypedOn
<1> QED
  BY <1>1, <1>8, <1>9 DEF BuffersAreNotMixed

LEMMA NextKeepsBuffers ==
  TypeOK /\ BuffersAreNotMixed /\ [Next]_vars => BuffersAreNotMixed'
<1> SUFFICES ASSUME TypeOK, BuffersAreNotMixed, [Next]_vars
             PROVE  BuffersAreNotMixed'
  OBVIOUS
<1>1. /\ \A key, t : Char(key, t).at = t
      /\ NewLine.at = NoTerminal /\ TabChar.at = NoTerminal /\ Nul.at = NoTerminal
  BY DEF Char, NewLine, TabChar, Nul
<1>2. CASE Printable \/ Unprintable
  <2>1. PICK c : print_to_screen(c) /\ c.at \in {curr_terminal_id, NoTerminal}
    BY <1>1, <1>2 DEF Printable, Unprintable
  <2> QED
    BY <2>1, StoreKeepsBuffers DEF print_to_screen
<1>3. CASE Tab
  BY <1>1, <1>3, StoreKeepsBuffers DEF Tab
<1>4. CASE Enter
  BY <1>1, <1>4, StoreKeepsBuffers DEF Enter
<1>5. CASE ClearCell
  BY <1>1, <1>5, StoreKeepsBuffers DEF ClearCell
<1>6. CASE \E t \in Terminals : terminal_switch(t)
  BY <1>6, SwitchKeepsBuffers
<1>7. CASE Backspace \/ HaltShell \/ (\E n \in Nbytes : ReadBegin(n))
  BY <1>7, SameBuffers DEF Backspace, HaltShell, ReadBegin, sharedVars
<1>8. CASE Wake \/ Copy \/ Test \/ Terminate \/ ResetCount \/ ResetFlag \/ ReadReturn
  <2>1. UNCHANGED <<keyboard_buffer, curr_terminal_id, terminals>>
    BY <1>8 DEF Wake, Copy, Test, Terminate, ResetCount, ResetFlag, ReadReturn, sharedVars
  <2> QED
    BY <2>1, SameBuffers
<1>9. CASE UNCHANGED vars
  BY <1>9, SameBuffers DEF vars
<1> QED
  BY <1>2, <1>3, <1>4, <1>5, <1>6, <1>7, <1>8, <1>9 DEF Next, ReaderStep

\* What is typed on one terminal is never in the shared buffer while another is
\* shown, nor in another's saved buffer, for any number of terminals and
\* switches inside reads.
THEOREM BuffersStayApart == Spec => []BuffersAreNotMixed
<1>1. Init => BuffersAreNotMixed
  BY DEF Init, BuffersAreNotMixed, TypedOn, Cleared, Nul, Char
<1>2. TypeOK /\ BuffersAreNotMixed /\ [Next]_vars => BuffersAreNotMixed'
  BY NextKeepsBuffers
<1> QED
  BY <1>1, <1>2, TypeCorrect, PTL DEF Spec

-----------------------------------------------------------------------------
(* The line discipline *)

\* The user types at the prompt, lines fit the buffer, and programs read with
\* a buffer for the longest line.
PatientUse ==
  /\ Patient
  /\ MaxTyped <= NUM_CHARS_KB
  /\ \A n \in Nbytes : n >= NUM_CHARS_KB

\* The line of the first n cells of f.
Text(f, n) == [k \in 1..n |-> f[k - 1]]

Matches(r, n) == \A k \in 0..(n - 1) : r.buf[k] = keyboard_buffer[k]

\* Readers below the running one wait, and so hold nothing of a line.
WaitingInv ==
  \A d \in DOMAIN readers :
    /\ readers[d].pc # "user" => readers[d].nbytes >= NUM_CHARS_KB
    /\ readers[d].pc = "wait" => readers[d].i = 0
    /\ d < Len(readers) => readers[d].pc = "wait"

\* What of a closed line is in the shared buffer, and what in the reader's.
LineInv ==
  /\ Reader.pc # "test"
  /\ Reader.pc \in {"user", "clear"} => enter_pressed_flag = 0
  /\ Reader.pc \in {"copy", "end", "reset", "flag"} => enter_pressed_flag = 1
  /\ enter_pressed_flag = 1 /\ Reader.pc # "flag" => num_chars_typed > 0
  /\ Reader.pc = "copy" => Reader.i <= num_chars_typed /\ Matches(Reader, Reader.i)
  /\ Reader.pc \in {"end", "reset"} =>
       Reader.count = num_chars_typed /\ Matches(Reader, Reader.count)
  /\ Reader.pc \in {"flag", "clear"} => Reader.count > 0

DeliveryInv == WaitingInv /\ LineInv

LEMMA TextFacts ==
  ASSUME NEW f, NEW n \in Nat, \A k \in 0..(n - 1) : f[k] \in Characters
  PROVE  /\ Text(f, n) \in Seq(Characters) /\ Len(Text(f, n)) = n
         /\ \A i \in 1..n : Text(f, n)[i] = f[i - 1]
<1>1. Text(f, n) \in [1..n -> Characters]
  BY DEF Text
<1>2. Text(f, n) \in Seq(Characters)
  BY <1>1, SeqDef
<1>3. DOMAIN Text(f, n) = 1..n /\ DOMAIN Text(f, n) = 1..Len(Text(f, n))
      /\ Len(Text(f, n)) \in Nat
  BY <1>1, <1>2, LenProperties
<1>4. Len(Text(f, n)) = n
  BY <1>3
<1> QED
  BY <1>2, <1>4 DEF Text

LEMMA NoText == \A f : Text(f, 0) = <<>>
BY DEF Text

LEMMA SameText ==
  ASSUME NEW f, NEW g, NEW n \in Nat, \A k \in 0..(n - 1) : f[k] = g[k]
  PROVE  Text(f, n) = Text(g, n)
<1>1. \A k \in 1..n : k - 1 \in 0..(n - 1)
  OBVIOUS
<1> QED
  BY <1>1 DEF Text

LEMMA LongerText ==
  ASSUME NEW f, NEW g, NEW n \in Nat, \A k \in 0..(n - 1) : f[k] = g[k],
         \A k \in 0..n : g[k] \in Characters
  PROVE  Text(g, n + 1) = Append(Text(f, n), g[n])
<1> DEFINE s == Text(f, n)
           t == Text(g, n + 1)
<1>0. /\ n \in 0..n /\ n + 1 \in Nat /\ \A k \in 0..((n + 1) - 1) : k \in 0..n
      /\ \A k \in 0..(n - 1) : k \in 0..n
      /\ \A i \in 1..(n + 1) : i = n + 1 \/ (i \in 1..n /\ i - 1 \in 0..(n - 1) /\ i <= n)
      /\ ~(n + 1 <= n)
  OBVIOUS
<1>1. s \in Seq(Characters) /\ Len(s) = n /\ \A i \in 1..n : s[i] = f[i - 1]
  BY <1>0, TextFacts
<1>2. t \in Seq(Characters) /\ Len(t) = n + 1 /\ \A i \in 1..(n + 1) : t[i] = g[i - 1]
  <2> DEFINE m == n + 1
  <2>1. m \in Nat /\ \A k \in 0..(m - 1) : g[k] \in Characters
    BY <1>0
  <2> HIDE DEF m
  <2>2. /\ Text(g, m) \in Seq(Characters) /\ Len(Text(g, m)) = m
        /\ \A i \in 1..m : Text(g, m)[i] = g[i - 1]
    BY <2>1, TextFacts
  <2> QED
    BY <2>2 DEF m
<1> HIDE DEF s, t
<1>3. /\ Append(s, g[n]) \in Seq(Characters) /\ Len(Append(s, g[n])) = n + 1
      /\ \A i \in 1..n : Append(s, g[n])[i] = s[i]
      /\ Append(s, g[n])[n + 1] = g[n]
  BY <1>0, <1>1, AppendProperties
<1>4. \A i \in 1..(n + 1) : t[i] = Append(s, g[n])[i]
  <2> TAKE i \in 1..(n + 1)
  <2>1. CASE i = n + 1
    <3>1. i - 1 = n
      BY <2>1
    <3> QED
      BY <2>1, <3>1, <1>2, <1>3
  <2>2. CASE i \in 1..n /\ i - 1 \in 0..(n - 1)
    BY <2>2, <1>1, <1>2, <1>3
  <2> QED
    BY <1>0, <2>1, <2>2
<1>5. t = Append(s, g[n])
  BY <1>2, <1>3, <1>4, SeqEqual
<1> QED
  BY <1>5 DEF s, t

LEMMA ShorterText ==
  ASSUME NEW f, NEW n \in Nat \ {0}, \A k \in 0..(n - 1) : f[k] \in Characters
  PROVE  /\ Text(f, n) # <<>>
         /\ Text(f, n - 1) = SubSeq(Text(f, n), 1, Len(Text(f, n)) - 1)
<1> DEFINE s == Text(f, n)
           t == Text(f, n - 1)
<1>0. /\ n - 1 \in Nat /\ 1 \in Int /\ \A k \in 0..((n - 1) - 1) : k \in 0..(n - 1)
      /\ \A i \in 1..(n - 1) : i \in 1..n /\ 1 + i - 1 = i
      /\ (IF 1 <= n - 1 THEN (n - 1) - 1 + 1 ELSE 0) = n - 1 /\ (n - 1) - 1 + 1 = n - 1
  OBVIOUS
<1>1. s \in Seq(Characters) /\ Len(s) = n /\ \A i \in 1..n : s[i] = f[i - 1]
  BY TextFacts
<1>2. t \in Seq(Characters) /\ Len(t) = n - 1 /\ \A i \in 1..(n - 1) : t[i] = f[i - 1]
  BY <1>0, TextFacts
<1> HIDE DEF s, t
<1>3. s # <<>>
  BY <1>1, EmptySeq
<1>4. \A i \in 1..(n - 1) : s[i] \in Characters
  BY <1>0, <1>1, ElementOfSeq
<1>5. /\ SubSeq(s, 1, n - 1) \in Seq(Characters) /\ Len(SubSeq(s, 1, n - 1)) = n - 1
      /\ \A i \in 1..(n - 1) : SubSeq(s, 1, n - 1)[i] = s[i]
  <2>1. /\ SubSeq(s, 1, n - 1) \in Seq(Characters)
        /\ Len(SubSeq(s, 1, n - 1)) = IF 1 <= n - 1 THEN (n - 1) - 1 + 1 ELSE 0
        /\ \A i \in 1..((n - 1) - 1 + 1) : SubSeq(s, 1, n - 1)[i] = s[1 + i - 1]
    BY <1>0, <1>4, SubSeqProperties
  <2> QED
    BY <1>0, <2>1
<1>6. \A i \in 1..(n - 1) : t[i] = SubSeq(s, 1, n - 1)[i]
  BY <1>0, <1>1, <1>2, <1>5
<1>7. t = SubSeq(s, 1, n - 1)
  BY <1>2, <1>5, <1>6, SeqEqual
<1> QED
  BY <1>1, <1>3, <1>7 DEF s, t

\* What the running reader and its shared state are, for the proofs below.
LEMMA LineFacts ==
  ASSUME PatientUse, IInv
  PROVE  /\ num_chars_typed \in 0..NUM_CHARS_KB /\ NUM_CHARS_KB \in Nat \ {0}
         /\ enter_pressed_flag \in {0, 1}
         /\ \A k \in 0..NUM_CHARS_KB : keyboard_buffer[k] \in Characters
         /\ keyboard_buffer \in [0..NUM_CHARS_KB -> Characters]
         /\ Line = Text(keyboard_buffer, num_chars_typed)
         /\ Copied = Text(Reader.buf, Reader.count)
         /\ Reader \in ReaderType
<1>1. Cells \cup {Behind} = 0..NUM_CHARS_KB
  BY NumCharsAssumption DEF Cells, Behind
<1>2. keyboard_buffer \in [0..NUM_CHARS_KB -> Characters]
  BY <1>1 DEF IInv, TypeOK
<1>3. num_chars_typed \in 0..NUM_CHARS_KB
  BY MaxTypedAssumption, NumCharsAssumption DEF IInv, TypeOK, PatientUse
<1>4. Reader \in ReaderType
  BY ReaderFacts DEF ReaderInv
<1> QED
  BY <1>2, <1>3, <1>4, NumCharsAssumption DEF IInv, TypeOK, Line, Copied, Text

\* A step of the running reader: it becomes r, the others stay.
LEMMA StepFacts ==
  ASSUME IInv, NEW r \in ReaderType, Step(r)
  PROVE  /\ Reader' = r /\ Len(readers') = Len(readers)
         /\ DOMAIN readers' = DOMAIN readers
         /\ \A d \in DOMAIN readers : d # Len(readers) => readers'[d] = readers[d]
         /\ readers'[Len(readers)] = r
<1> DEFINE n == Len(readers)
<1>1. /\ n \in Nat \ {0} /\ n \in DOMAIN readers /\ readers \in Seq(ReaderType)
      /\ readers' = [readers EXCEPT ![n] = r]
      /\ DOMAIN readers = 1..n
  BY ReaderFacts, LenProperties DEF Step
<1>2. /\ readers' \in Seq(ReaderType) /\ Len(readers') = n
      /\ \A d \in 1..n : readers'[d] = IF d = n THEN r ELSE readers[d]
  BY <1>1, ExceptSeq
<1>3. DOMAIN readers' = 1..n
  BY <1>1
<1> QED
  BY <1>1, <1>2, <1>3 DEF Reader

LEMMA StepKeepsWaiting ==
  ASSUME IInv, WaitingInv, NEW r \in ReaderType, Step(r), r.nbytes >= NUM_CHARS_KB \/ r.pc = "user",
         r.pc = "wait" => r.i = 0
  PROVE  WaitingInv'
<1>1. /\ Len(readers') = Len(readers) /\ DOMAIN readers' = DOMAIN readers
      /\ \A d \in DOMAIN readers : d # Len(readers) => readers'[d] = readers[d]
      /\ readers'[Len(readers)] = r
  BY StepFacts
<1>2. ~(Len(readers) < Len(readers))
  BY ReaderFacts
<1> QED
  BY <1>1, <1>2 DEF WaitingInv

LEMMA SameWaiting ==
  ASSUME WaitingInv, UNCHANGED readers
  PROVE  WaitingInv' /\ Reader' = Reader
BY DEF WaitingInv, Reader

LEMMA KeyComesAtPrompt ==
  ASSUME PatientUse, KeyMayArrive
  PROVE  Reader.pc = "wait" /\ enter_pressed_flag = 0
BY DEF PatientUse, KeyMayArrive

LEMMA AtPromptLine ==
  ASSUME Reader.pc \in {"user", "wait"}
  PROVE  TypedLine = Line /\ Delivered = <<>>
BY DEF TypedLine, Delivered

\* A key that changes only the line leaves the reader at its prompt.
LEMMA KeyKeepsDelivery ==
  ASSUME PatientUse, IInv, DeliveryInv, KeyMayArrive, UNCHANGED readers,
         enter_pressed_flag' = 1 => num_chars_typed' > 0
  PROVE  /\ DeliveryInv' /\ Reader.pc = "wait" /\ Reader'.pc = "wait"
         /\ TypedLine = Line /\ Delivered = <<>>
         /\ TypedLine' = Line' /\ Delivered' = <<>>
         /\ enter_pressed_flag = 0
<1>1. WaitingInv' /\ Reader' = Reader
  BY SameWaiting DEF DeliveryInv
<1>2. Reader.pc = "wait" /\ enter_pressed_flag = 0
  BY KeyComesAtPrompt
<1>3. LineInv'
  BY <1>1, <1>2 DEF LineInv
<1>4. TypedLine = Line /\ Delivered = <<>>
  BY <1>2, AtPromptLine
<1>5. TypedLine' = Line' /\ Delivered' = <<>>
  BY <1>1, <1>2 DEF TypedLine, Delivered
<1> QED
  BY <1>1, <1>2, <1>3, <1>4, <1>5 DEF DeliveryInv

\* A character stored behind the line, or further, while the count is raised.
LEMMA LineGrows ==
  ASSUME PatientUse, IInv, IInv', num_chars_typed' = num_chars_typed + 1,
         \A k \in 0..(num_chars_typed - 1) : keyboard_buffer'[k] = keyboard_buffer[k]
  PROVE  /\ Line' = Append(Line, keyboard_buffer'[num_chars_typed])
         /\ keyboard_buffer'[num_chars_typed] \in Characters
<1> DEFINE n == num_chars_typed
           f == keyboard_buffer
           g == keyboard_buffer'
<1>1. n \in Nat /\ n + 1 <= NUM_CHARS_KB /\ NUM_CHARS_KB \in Nat
      /\ (\A k \in 0..NUM_CHARS_KB : g[k] \in Characters)
      /\ Line = Text(f, n) /\ Line' = Text(g, n + 1)
  <2>1. n \in 0..NUM_CHARS_KB /\ NUM_CHARS_KB \in Nat /\ Line = Text(f, n)
    BY LineFacts
  <2>2. PatientUse'
    BY DEF PatientUse
  <2>3. /\ num_chars_typed' \in 0..NUM_CHARS_KB
        /\ (\A k \in 0..NUM_CHARS_KB : g[k] \in Characters)
    BY MaxTypedAssumption, NumCharsAssumption DEF IInv, TypeOK, PatientUse, Cells, Behind
  <2>4. Line' = Text(g, n + 1)
    BY DEF Line, Text
  <2> QED
    BY <2>1, <2>3, <2>4
<1>2. \A k \in 0..n : g[k] \in Characters
  BY <1>1
<1>3. \A k \in 0..(n - 1) : f[k] = g[k]
  OBVIOUS
<1>4. n \in 0..n
  BY <1>1
<1> HIDE DEF n, f, g
<1>5. Text(g, n + 1) = Append(Text(f, n), g[n])
  <2>1. n \in Nat
    BY <1>1
  <2> QED
    BY <2>1, <1>2, <1>3, LongerText
<1> QED
  BY <1>1, <1>2, <1>4, <1>5 DEF n, f, g

\* What each action keeps, and what LineDiscipline sees of it.
Implements == DeliveryInv' /\ [LD!Next]_(LD!vars)

LEMMA UnseenImplements ==
  ASSUME DeliveryInv', TypedLine' = TypedLine, Delivered' = Delivered,
         (enter_pressed_flag = 1)' <=> enter_pressed_flag = 1
  PROVE  Implements
BY DEF Implements, LD!vars

LEMMA PrintImplements ==
  ASSUME PatientUse, IInv, IInv', DeliveryInv, NEW c \in Characters, print_to_screen(c)
  PROVE  Implements
<1>1. /\ DeliveryInv' /\ TypedLine = Line /\ Delivered = <<>> /\ enter_pressed_flag = 0
      /\ TypedLine' = Line' /\ Delivered' = <<>>
  <2>1. KeyMayArrive /\ UNCHANGED <<readers, enter_pressed_flag>>
    BY DEF print_to_screen
  <2>2. enter_pressed_flag = 0
    BY <2>1, KeyComesAtPrompt
  <2>3. enter_pressed_flag' # 1
    BY <2>1, <2>2
  <2> QED
    BY <2>1, <2>2, <2>3, KeyKeepsDelivery
<1>2. /\ num_chars_typed \in 0..NUM_CHARS_KB
      /\ keyboard_buffer' = [keyboard_buffer EXCEPT ![num_chars_typed] = c]
      /\ num_chars_typed' = num_chars_typed + 1 /\ UNCHANGED enter_pressed_flag
  BY LineFacts DEF print_to_screen, Store
<1>3. /\ keyboard_buffer'[num_chars_typed] = c
      /\ \A k \in 0..(num_chars_typed - 1) : keyboard_buffer'[k] = keyboard_buffer[k]
  BY <1>2, LineFacts
<1>4. Line' = Append(Line, c)
  BY <1>2, <1>3, LineGrows
<1>5. LD!Type(c)
  BY <1>1, <1>2, <1>4 DEF LD!Type
<1> QED
  BY <1>1, <1>5 DEF Implements, LD!Next

LEMMA TabImplements ==
  ASSUME PatientUse, IInv, IInv', DeliveryInv, Tab
  PROVE  Implements
<1>1. /\ DeliveryInv' /\ TypedLine = Line /\ Delivered = <<>> /\ enter_pressed_flag = 0
      /\ TypedLine' = Line' /\ Delivered' = <<>>
  <2>1. KeyMayArrive /\ UNCHANGED <<readers, enter_pressed_flag>>
    BY DEF Tab
  <2>2. enter_pressed_flag = 0
    BY <2>1, KeyComesAtPrompt
  <2>3. enter_pressed_flag' # 1
    BY <2>1, <2>2
  <2> QED
    BY <2>1, <2>2, <2>3, KeyKeepsDelivery
<1>2. /\ num_chars_typed \in 0..NUM_CHARS_KB
      /\ keyboard_buffer' = [keyboard_buffer EXCEPT ![num_chars_typed + 1] = TabChar]
      /\ num_chars_typed' = num_chars_typed + 1 /\ UNCHANGED enter_pressed_flag
  BY LineFacts DEF Tab, Store
<1>3. \A k \in 0..(num_chars_typed - 1) : keyboard_buffer'[k] = keyboard_buffer[k]
  BY <1>2, LineFacts
<1>4. PICK c \in Characters : Line' = Append(Line, c)
  BY <1>2, <1>3, LineGrows
<1>5. LD!Type(c)
  BY <1>1, <1>2, <1>4 DEF LD!Type
<1> QED
  BY <1>1, <1>5 DEF Implements, LD!Next

LEMMA EnterImplements ==
  ASSUME PatientUse, IInv, IInv', DeliveryInv, Enter
  PROVE  Implements
<1>2. /\ num_chars_typed \in 0..NUM_CHARS_KB
      /\ keyboard_buffer' = [keyboard_buffer EXCEPT ![num_chars_typed] = NewLine]
      /\ num_chars_typed' = num_chars_typed + 1 /\ enter_pressed_flag' = 1
  BY LineFacts DEF Enter, Store
<1>1. /\ DeliveryInv' /\ TypedLine = Line /\ Delivered = <<>> /\ enter_pressed_flag = 0
      /\ TypedLine' = Line' /\ Delivered' = <<>>
  <2>1. KeyMayArrive /\ UNCHANGED readers
    BY DEF Enter
  <2>2. num_chars_typed' > 0
    BY <1>2
  <2> QED
    BY <2>1, <2>2, KeyKeepsDelivery
<1>3. /\ keyboard_buffer'[num_chars_typed] = NewLine
      /\ \A k \in 0..(num_chars_typed - 1) : keyboard_buffer'[k] = keyboard_buffer[k]
  BY <1>2, LineFacts
<1>4. Line' = Append(Line, NewLine)
  BY <1>2, <1>3, LineGrows
<1>5. LD!Enter
  BY <1>1, <1>2, <1>4 DEF LD!Enter
<1> QED
  BY <1>1, <1>5 DEF Implements, LD!Next

LEMMA BackspaceImplements ==
  ASSUME PatientUse, IInv, DeliveryInv, Backspace
  PROVE  Implements
<1>1. /\ DeliveryInv' /\ TypedLine = Line /\ Delivered = <<>> /\ enter_pressed_flag = 0
      /\ TypedLine' = Line' /\ Delivered' = <<>>
  <2>1. KeyMayArrive /\ UNCHANGED <<readers, enter_pressed_flag>>
    BY DEF Backspace
  <2>2. enter_pressed_flag = 0
    BY <2>1, KeyComesAtPrompt
  <2>3. enter_pressed_flag' # 1
    BY <2>1, <2>2
  <2> QED
    BY <2>1, <2>2, <2>3, KeyKeepsDelivery
<1>2. /\ num_chars_typed \in Nat \ {0} /\ num_chars_typed <= NUM_CHARS_KB
      /\ NUM_CHARS_KB \in Nat
      /\ num_chars_typed' = num_chars_typed - 1
      /\ UNCHANGED <<keyboard_buffer, enter_pressed_flag>>
  BY LineFacts DEF Backspace
<1>3. /\ Line = Text(keyboard_buffer, num_chars_typed)
      /\ Line' = Text(keyboard_buffer, num_chars_typed - 1)
  BY <1>2, LineFacts DEF Line, Text
<1>4. \A k \in 0..(num_chars_typed - 1) : keyboard_buffer[k] \in Characters
  BY <1>2, LineFacts
<1>5. Line # <<>> /\ Line' = SubSeq(Line, 1, Len(Line) - 1)
  BY <1>2, <1>3, <1>4, ShorterText
<1>6. LD!Erase
  BY <1>1, <1>2, <1>5 DEF LD!Erase
<1> QED
  BY <1>1, <1>6 DEF Implements, LD!Next

\* A switch leaves the line behind; a shell started on top finds none.
LEMMA SwitchImplements ==
  ASSUME PatientUse, IInv, DeliveryInv, NEW t \in Terminals, terminal_switch(t)
  PROVE  Implements
<1>1. /\ KeyMayArrive /\ num_chars_typed' = 0 /\ UNCHANGED enter_pressed_flag
      /\ \/ UNCHANGED readers
         \/ readers' = Append(readers, Idle)
  BY DEF terminal_switch
<1>2. Reader.pc = "wait" /\ enter_pressed_flag = 0
  BY <1>1, KeyComesAtPrompt
<1>3. Line' = <<>>
  BY <1>1 DEF Line
<1>4. /\ DeliveryInv' /\ TypedLine = Line /\ Delivered = <<>>
      /\ TypedLine' = Line' /\ Delivered' = <<>>
  <2>1. CASE UNCHANGED readers
    <3>1. enter_pressed_flag' # 1
      BY <1>1, <1>2
    <3> QED
      BY <1>1, <2>1, <3>1, KeyKeepsDelivery
  <2>2. CASE readers' = Append(readers, Idle)
    <3> DEFINE n == Len(readers)
    <3>1. readers \in Seq(ReaderType) /\ Idle \in ReaderType /\ n \in Nat \ {0}
          /\ DOMAIN readers = 1..n
      BY ReaderFacts, IdleInv, LenProperties DEF ReaderInv
    <3>2. /\ readers' \in Seq(ReaderType) /\ Len(readers') = n + 1
          /\ \A d \in 1..n : readers'[d] = readers[d]
          /\ readers'[n + 1] = Idle
      BY <2>2, <3>1, AppendProperties
    <3>3. DOMAIN readers' = 1..(n + 1)
      BY <3>2, LenProperties
    <3>4. Reader' = Idle /\ Idle.pc = "user"
      BY <3>2 DEF Reader, Idle
    <3>6. readers[n].pc = "wait"
      BY <1>2 DEF Reader
    <3> HIDE DEF n
    <3>5. \A d \in 1..(n + 1) : (d \in 1..n /\ (d < n \/ d = n)) \/ (d = n + 1 /\ ~(d < n + 1))
      BY <3>1
    <3>7. WaitingInv'
      <4> SUFFICES ASSUME NEW d \in 1..(n + 1)
                   PROVE  /\ readers'[d].pc # "user" => readers'[d].nbytes >= NUM_CHARS_KB
                          /\ readers'[d].pc = "wait" => readers'[d].i = 0
                          /\ d < n + 1 => readers'[d].pc = "wait"
        BY <3>2, <3>3 DEF WaitingInv
      <4>1. CASE d \in 1..n /\ (d < n \/ d = n)
        BY <3>1, <3>2, <3>6, <4>1 DEF DeliveryInv, WaitingInv, n
      <4>2. CASE d = n + 1 /\ ~(d < n + 1)
        BY <3>2, <3>4, <4>2
      <4> QED
        BY <3>5, <4>1, <4>2
    <3>8. LineInv'
      BY <1>1, <1>2, <3>4 DEF LineInv
    <3> QED
      BY <1>2, <3>4, <3>7, <3>8, AtPromptLine DEF DeliveryInv, TypedLine, Delivered
  <2> QED
    BY <1>1, <2>1, <2>2
<1>5. LD!Discard
  BY <1>1, <1>2, <1>3, <1>4 DEF LD!Discard
<1> QED
  BY <1>4, <1>5 DEF Implements, LD!Next

\* The reader below a shell that halts waits at its prompt.
LEMMA HaltShellImplements ==
  ASSUME PatientUse, IInv, DeliveryInv, HaltShell
  PROVE  Implements
<1> DEFINE n == Len(readers)
<1>1. /\ n \in Nat /\ n > 1 /\ readers \in Seq(ReaderType) /\ DOMAIN readers = 1..n
      /\ readers' = SubSeq(readers, 1, n - 1) /\ Reader.pc = "user"
      /\ UNCHANGED <<keyboard_buffer, num_chars_typed, enter_pressed_flag>>
  BY ReaderFacts, LenProperties DEF HaltShell
<1>2. /\ readers' \in Seq(ReaderType) /\ Len(readers') = n - 1
      /\ \A d \in 1..(n - 1) : readers'[d] = readers[d]
  <2>1. 1 \in Int /\ n - 1 \in Int /\ \A i \in 1..(n - 1) : i \in 1..n
    BY <1>1
  <2>2. \A d \in 1..(n - 1) : readers[d] \in ReaderType
    BY <1>1, <2>1, ElementOfSeq
  <2>3. /\ SubSeq(readers, 1, n - 1) \in Seq(ReaderType)
        /\ Len(SubSeq(readers, 1, n - 1)) = n - 1
        /\ \A d \in 1..(n - 1) : SubSeq(readers, 1, n - 1)[d] = readers[d]
    <3>1. /\ (IF 1 <= n - 1 THEN (n - 1) - 1 + 1 ELSE 0) = n - 1
          /\ (n - 1) - 1 + 1 = n - 1
          /\ \A d \in 1..(n - 1) : 1 + d - 1 = d
      BY <1>1
    <3> HIDE DEF n
    <3>2. /\ SubSeq(readers, 1, n - 1) \in Seq(ReaderType)
          /\ Len(SubSeq(readers, 1, n - 1)) = IF 1 <= n - 1 THEN (n - 1) - 1 + 1 ELSE 0
          /\ \A d \in 1..((n - 1) - 1 + 1) : SubSeq(readers, 1, n - 1)[d] = readers[1 + d - 1]
      BY <2>1, <2>2, SubSeqProperties
    <3> QED
      BY <3>1, <3>2
  <2> QED
    BY <1>1, <2>3
<1>3. /\ DOMAIN readers' = 1..(n - 1) /\ n - 1 \in 1..(n - 1)
      /\ \A d \in 1..(n - 1) : d \in DOMAIN readers /\ d < n
  BY <1>1, <1>2, LenProperties
<1> HIDE DEF n
<1>4. WaitingInv'
  BY <1>2, <1>3 DEF DeliveryInv, WaitingInv, n
<1>5. Reader' = readers[n - 1] /\ Reader'.pc = "wait"
  BY <1>2, <1>3 DEF Reader, DeliveryInv, WaitingInv, n
<1>6. LineInv'
  BY <1>1, <1>5 DEF LineInv, DeliveryInv
<1>7. /\ TypedLine = Line /\ Delivered = <<>>
      /\ TypedLine' = Line' /\ Delivered' = <<>>
      /\ Line' = Line
  BY <1>1, <1>5, AtPromptLine DEF TypedLine, Delivered, Line
<1>8. DeliveryInv'
  BY <1>4, <1>6 DEF DeliveryInv
<1> QED
  BY <1>1, <1>7, <1>8, UnseenImplements


\* The running reader becomes r.
LEMMA ReaderBecomes ==
  ASSUME IInv, DeliveryInv, NEW r \in ReaderType, Step(r),
         r.nbytes >= NUM_CHARS_KB \/ r.pc = "user", r.pc = "wait" => r.i = 0
  PROVE  WaitingInv' /\ Reader' = r
BY StepFacts, StepKeepsWaiting DEF DeliveryInv

\* A reader inside terminal_read: its parts.
LEMMA InsideRead ==
  ASSUME IInv, DeliveryInv, Reader.pc # "user"
  PROVE  /\ Reader \in ReaderType /\ Reader.nbytes >= NUM_CHARS_KB
         /\ NUM_CHARS_KB \in Nat /\ Reader.nbytes \in Nat
         /\ Reader.pc = "wait" => Reader.i = 0
         /\ Reader.pc \in {"wait", "copy"} => Reader.count = Reader.i
<1>1. ReaderInv(Reader) /\ Len(readers) \in DOMAIN readers
  BY ReaderFacts
<1> QED
  BY <1>1, NumCharsAssumption DEF ReaderInv, ReaderType, DeliveryInv, WaitingInv, Reader

LEMMA ReadBeginImplements ==
  ASSUME PatientUse, IInv, DeliveryInv, NEW n \in Nbytes, ReadBegin(n)
  PROVE  Implements
<1> DEFINE r == [Idle EXCEPT !.pc = "wait", !.nbytes = n]
<1>1. r \in ReaderType /\ r.pc = "wait" /\ r.i = 0 /\ r.nbytes >= NUM_CHARS_KB
  BY NbytesAssumption, NumCharsAssumption, IdleInv
  DEF ReaderInv, ReaderType, Idle, UserCells, PatientUse
<1>2. Step(r) /\ UNCHANGED sharedVars /\ Reader.pc = "user"
  BY DEF ReadBegin
<1> HIDE DEF r
<1>3. WaitingInv' /\ Reader'.pc = "wait"
  BY <1>1, <1>2, ReaderBecomes
<1>4. enter_pressed_flag = 0 /\ enter_pressed_flag' = 0
  BY <1>2, LineFacts DEF DeliveryInv, LineInv, sharedVars
<1>5. DeliveryInv'
  BY <1>3, <1>4 DEF DeliveryInv, LineInv
<1>6. /\ TypedLine = Line /\ Delivered = <<>> /\ TypedLine' = Line' /\ Delivered' = <<>>
      /\ Line' = Line
  BY <1>2, <1>3, AtPromptLine DEF TypedLine, Delivered, Line, sharedVars
<1> QED
  BY <1>4, <1>5, <1>6, UnseenImplements

LEMMA WakeImplements ==
  ASSUME PatientUse, IInv, DeliveryInv, Wake
  PROVE  Implements
<1> DEFINE r == [Reader EXCEPT !.pc = "copy"]
<1>1. /\ Reader.pc = "wait" /\ enter_pressed_flag = 1
      /\ Step(r) /\ UNCHANGED sharedVars
  BY DEF Wake
<1>2. /\ r \in ReaderType /\ r.pc = "copy" /\ r.i = 0 /\ r.nbytes >= NUM_CHARS_KB
  BY <1>1, InsideRead DEF ReaderType
<1> HIDE DEF r
<1>3. WaitingInv' /\ Reader' = r
  BY <1>1, <1>2, ReaderBecomes
<1>4. /\ UNCHANGED <<keyboard_buffer, num_chars_typed, enter_pressed_flag>>
      /\ num_chars_typed > 0 /\ num_chars_typed \in Nat
  BY <1>1, LineFacts DEF sharedVars, DeliveryInv, LineInv
<1>5. Matches(Reader, Reader.i)'
  BY <1>2, <1>3 DEF Matches
<1>6. DeliveryInv'
  BY <1>1, <1>2, <1>3, <1>4, <1>5 DEF DeliveryInv, LineInv
<1>7. /\ TypedLine = Line /\ Delivered = <<>> /\ TypedLine' = Line' /\ Delivered' = <<>>
      /\ Line' = Line
  BY <1>1, <1>2, <1>3, <1>4, AtPromptLine DEF TypedLine, Delivered, Line
<1> QED
  BY <1>4, <1>6, <1>7, UnseenImplements

\* One byte more, or the end of a copy that has reached the count.
LEMMA CopyImplements ==
  ASSUME PatientUse, IInv, DeliveryInv, Copy
  PROVE  Implements
<1> DEFINE r == Reader
           c == keyboard_buffer[r.i]
           b == [r.buf EXCEPT ![r.i] = c]
<1>1. /\ r.pc = "copy" /\ UNCHANGED sharedVars
      /\ r \in ReaderType /\ r.nbytes >= NUM_CHARS_KB /\ r.count = r.i
      /\ num_chars_typed \in 0..NUM_CHARS_KB /\ NUM_CHARS_KB \in Nat
      /\ r.i \in Nat /\ r.nbytes \in Nat
  BY InsideRead, LineFacts DEF Copy, ReaderType
<1>2. /\ r.i <= num_chars_typed /\ Matches(r, r.i)
      /\ num_chars_typed > 0 /\ enter_pressed_flag = 1
  BY <1>1 DEF DeliveryInv, LineInv
<1>3. ~(r.nbytes < NUM_CHARS_KB)
  BY <1>1
<1>4. UNCHANGED <<keyboard_buffer, num_chars_typed, enter_pressed_flag>>
  BY <1>1 DEF sharedVars
<1>5. SUFFICES ASSUME NEW s \in ReaderType, Step(s), s.nbytes >= NUM_CHARS_KB,
                      \/ /\ s.pc = "end" /\ s.count = num_chars_typed
                         /\ Matches(s, s.count)
                      \/ /\ s.pc = "copy" /\ s.i <= num_chars_typed
                         /\ Matches(s, s.i)
               PROVE  Implements
  <2>1. CASE r.i >= num_chars_typed
    <3> DEFINE s == [r EXCEPT !.pc = "end"]
    <3>1. Step(s)
      BY <1>1, <1>3, <2>1 DEF Copy
    <3>2. s \in ReaderType /\ s.pc = "end" /\ s.nbytes = r.nbytes /\ s.count = r.i
          /\ s.buf = r.buf
      BY <1>1 DEF ReaderType
    <3>3. r.i = num_chars_typed
      BY <1>1, <1>2, <2>1
    <3>4. Matches(s, s.count)
      BY <1>2, <3>2 DEF Matches
    <3> HIDE DEF s, r
    <3> QED
      BY <1>1, <1>5, <3>1, <3>2, <3>3, <3>4
  <2>2. CASE r.i < num_chars_typed
    <3> DEFINE s == [r EXCEPT !.buf = b, !.count = @ + 1, !.i = @ + 1]
    <3>1. Step(s)
      BY <1>1, <1>3, <2>2 DEF Copy
    <3>2. /\ r.i \in UserCells /\ c \in Characters /\ r.i \in 0..NUM_CHARS_KB
          /\ r.i + 1 \in 0..(NUM_CHARS_KB + 1) /\ r.i + 1 <= num_chars_typed
      BY <1>1, <2>2, LineFacts DEF UserCells
    <3>3. /\ b \in Buffers /\ b[r.i] = c /\ \A k \in UserCells : k # r.i => b[k] = r.buf[k]
      BY <1>1, <3>2 DEF ReaderType, Buffers
    <3> HIDE DEF b
    <3>4. /\ s \in ReaderType /\ s.pc = "copy" /\ s.nbytes = r.nbytes /\ s.i = r.i + 1
          /\ s.buf = b
      BY <1>1, <3>2, <3>3 DEF ReaderType, Buffers
    <3>5. Matches(s, s.i)
      <4>1. \A k \in 0..(s.i - 1) : k = r.i \/ (k \in 0..(r.i - 1) /\ k \in UserCells /\ k # r.i)
        BY <1>1, <3>2, <3>4 DEF UserCells
      <4> QED
        BY <1>2, <3>3, <3>4, <4>1 DEF Matches
    <3> HIDE DEF s, r
    <3> QED
      BY <1>1, <1>5, <3>1, <3>2, <3>4, <3>5
  <2> QED
    BY <1>1, <2>1, <2>2
<1>6. WaitingInv' /\ Reader' = s
  BY <1>5, ReaderBecomes
<1> DEFINE m == s.count
           j == s.i
<1>7. /\ Matches(s, m) => Matches(Reader, m)'
      /\ Matches(s, j) => Matches(Reader, j)'
  BY <1>4, <1>6 DEF Matches
<1>8. LineInv'
  BY <1>2, <1>4, <1>5, <1>6, <1>7 DEF LineInv
<1>9. /\ TypedLine = Line /\ Delivered = <<>> /\ TypedLine' = Line' /\ Delivered' = <<>>
      /\ Line' = Line
  BY <1>1, <1>4, <1>5, <1>6 DEF TypedLine, Delivered, Line
<1>10. DeliveryInv'
  BY <1>6, <1>8 DEF DeliveryInv
<1> QED
  BY <1>4, <1>9, <1>10, UnseenImplements

\* The end of string lands behind the line that was copied.
LEMMA TerminateImplements ==
  ASSUME PatientUse, IInv, DeliveryInv, Terminate
  PROVE  Implements
<1> DEFINE q == Reader
           n == num_chars_typed
           b == [q.buf EXCEPT ![n] = Nul]
           r == [q EXCEPT !.buf = b, !.pc = "reset"]
<1>1. /\ q.pc = "end" /\ Step(r) /\ UNCHANGED sharedVars
      /\ q \in ReaderType /\ q.nbytes >= NUM_CHARS_KB
      /\ n \in 0..NUM_CHARS_KB /\ NUM_CHARS_KB \in Nat
  BY InsideRead, LineFacts DEF Terminate
<1>2. q.count = n /\ Matches(q, n) /\ n > 0 /\ enter_pressed_flag = 1
  BY <1>1 DEF DeliveryInv, LineInv
<1>3. /\ b \in Buffers
      /\ \A k \in 0..(n - 1) : b[k] = q.buf[k]
  <2>1. Nul \in Characters /\ n \in UserCells
        /\ \A k \in 0..(n - 1) : k \in UserCells /\ k # n
    BY <1>1, CharacterTypes DEF UserCells
  <2> HIDE DEF n
  <2> QED
    BY <1>1, <2>1 DEF ReaderType, Buffers
<1> HIDE DEF b
<1>4. /\ r \in ReaderType /\ r.pc = "reset" /\ r.nbytes = q.nbytes /\ r.count = n
      /\ r.buf = b
  BY <1>1, <1>2, <1>3 DEF ReaderType, Buffers
<1> HIDE DEF r
<1>5. WaitingInv' /\ Reader' = r
  BY <1>1, <1>4, ReaderBecomes
<1>6. UNCHANGED <<keyboard_buffer, num_chars_typed, enter_pressed_flag>>
  BY <1>1 DEF sharedVars
<1>7. Matches(Reader, Reader.count)'
  BY <1>2, <1>3, <1>4, <1>5, <1>6 DEF Matches
<1>8. DeliveryInv'
  BY <1>2, <1>4, <1>5, <1>6, <1>7 DEF DeliveryInv, LineInv
<1>9. /\ TypedLine = Line /\ Delivered = <<>> /\ TypedLine' = Line' /\ Delivered' = <<>>
      /\ Line' = Line
  BY <1>1, <1>4, <1>5, <1>6 DEF TypedLine, Delivered, Line
<1> QED
  BY <1>6, <1>8, <1>9, UnseenImplements

\* The count goes; what was copied is the whole line.
LEMMA ResetCountImplements ==
  ASSUME PatientUse, IInv, DeliveryInv, ResetCount
  PROVE  Implements
<1> DEFINE r == [Reader EXCEPT !.pc = "flag"]
<1>1. /\ Reader.pc = "reset" /\ Step(r) /\ num_chars_typed' = 0
      /\ UNCHANGED <<keyboard_buffer, enter_pressed_flag>>
      /\ Reader \in ReaderType /\ Reader.nbytes >= NUM_CHARS_KB
      /\ num_chars_typed \in 0..NUM_CHARS_KB
  BY InsideRead, LineFacts DEF ResetCount
<1>2. /\ Reader.count = num_chars_typed /\ Matches(Reader, Reader.count)
      /\ num_chars_typed > 0 /\ enter_pressed_flag = 1
  BY <1>1 DEF DeliveryInv, LineInv
<1>3. /\ r \in ReaderType /\ r.pc = "flag" /\ r.nbytes = Reader.nbytes
      /\ r.count = Reader.count /\ r.buf = Reader.buf
  BY <1>1 DEF ReaderType
<1> HIDE DEF r
<1>4. WaitingInv' /\ Reader' = r
  BY <1>1, <1>3, ReaderBecomes
<1>5. DeliveryInv'
  BY <1>1, <1>2, <1>3, <1>4 DEF DeliveryInv, LineInv
<1>6. Copied = Line
  <2>1. \A k \in 0..(num_chars_typed - 1) : Reader.buf[k] = keyboard_buffer[k]
    BY <1>2 DEF Matches
  <2>2. num_chars_typed \in Nat
    BY <1>1
  <2>3. Text(Reader.buf, num_chars_typed) = Text(keyboard_buffer, num_chars_typed)
    BY <2>1, <2>2, SameText
  <2> QED
    BY <1>2, <2>3, LineFacts
<1>7. TypedLine' = Copied' /\ Copied' = Copied /\ Delivered' = <<>>
  BY <1>3, <1>4 DEF TypedLine, Delivered, Copied
<1>8. TypedLine = Line /\ Delivered = <<>>
  BY <1>1 DEF TypedLine, Delivered
<1> QED
  BY <1>1, <1>5, <1>6, <1>7, <1>8, UnseenImplements

\* Deliver.
LEMMA ResetFlagImplements ==
  ASSUME PatientUse, IInv, DeliveryInv, ResetFlag
  PROVE  Implements
<1> DEFINE r == [Reader EXCEPT !.pc = "clear", !.i = 0]
<1>1. /\ Reader.pc = "flag" /\ Step(r) /\ enter_pressed_flag' = 0
      /\ Reader \in ReaderType /\ Reader.nbytes >= NUM_CHARS_KB
      /\ NUM_CHARS_KB \in Nat
  BY InsideRead DEF ResetFlag
<1>2. Reader.count > 0 /\ enter_pressed_flag = 1
  BY <1>1 DEF DeliveryInv, LineInv
<1>3. /\ r \in ReaderType /\ r.pc = "clear" /\ r.nbytes = Reader.nbytes
      /\ r.count = Reader.count /\ r.buf = Reader.buf
  <2>1. 0 \in 0..(NUM_CHARS_KB + 1)
    BY <1>1
  <2> QED
    BY <1>1, <2>1 DEF ReaderType
<1> HIDE DEF r
<1>4. WaitingInv' /\ Reader' = r
  BY <1>1, <1>3, ReaderBecomes
<1>5. DeliveryInv'
  BY <1>1, <1>2, <1>3, <1>4 DEF DeliveryInv, LineInv
<1>6. TypedLine' = <<>> /\ Delivered' = Copied' /\ Copied' = Copied
  BY <1>3, <1>4 DEF TypedLine, Delivered, Copied
<1>7. TypedLine = Copied
  BY <1>1 DEF TypedLine
<1>8. LD!Deliver
  BY <1>1, <1>2, <1>6, <1>7 DEF LD!Deliver
<1> QED
  BY <1>5, <1>8 DEF Implements, LD!Next

LEMMA ClearCellImplements ==
  ASSUME PatientUse, IInv, DeliveryInv, ClearCell
  PROVE  Implements
<1> DEFINE r == [Reader EXCEPT !.i = @ + 1]
<1>1. /\ Reader.pc = "clear" /\ Step(r) /\ Reader.i \in Cells
      /\ UNCHANGED <<num_chars_typed, enter_pressed_flag>>
      /\ Reader \in ReaderType /\ Reader.nbytes >= NUM_CHARS_KB
      /\ NUM_CHARS_KB \in Nat
  BY InsideRead DEF ClearCell
<1>2. Reader.count > 0 /\ enter_pressed_flag = 0
  BY <1>1 DEF DeliveryInv, LineInv
<1>3. /\ r \in ReaderType /\ r.pc = "clear" /\ r.nbytes = Reader.nbytes
      /\ r.count = Reader.count /\ r.buf = Reader.buf
  BY <1>1 DEF ReaderType, Cells
<1> HIDE DEF r
<1>4. WaitingInv' /\ Reader' = r
  BY <1>1, <1>3, ReaderBecomes
<1>5. DeliveryInv'
  BY <1>1, <1>2, <1>3, <1>4 DEF DeliveryInv, LineInv
<1>6. /\ TypedLine = <<>> /\ TypedLine' = <<>>
      /\ Delivered = Copied /\ Delivered' = Copied' /\ Copied' = Copied
  BY <1>1, <1>3, <1>4 DEF TypedLine, Delivered, Copied
<1> QED
  BY <1>1, <1>5, <1>6, UnseenImplements

\* Return: the program has the line.
LEMMA ReadReturnImplements ==
  ASSUME PatientUse, IInv, DeliveryInv, ReadReturn
  PROVE  Implements
<1>1. /\ Reader.pc = "clear" /\ Step(Idle) /\ num_chars_typed' = 0
      /\ UNCHANGED enter_pressed_flag /\ Idle \in ReaderType
      /\ Idle.pc = "user" /\ Reader \in ReaderType
  BY InsideRead, IdleInv DEF ReadReturn, ReaderInv, Idle
<1>2. Reader.count > 0 /\ enter_pressed_flag = 0
  BY <1>1 DEF DeliveryInv, LineInv
<1>3. WaitingInv' /\ Reader' = Idle
  BY <1>1, ReaderBecomes
<1>4. DeliveryInv'
  BY <1>1, <1>2, <1>3 DEF DeliveryInv, LineInv
<1>5. TypedLine' = <<>> /\ Delivered' = <<>>
  BY <1>1, <1>3 DEF TypedLine, Delivered, Line
<1>6. TypedLine = <<>> /\ Delivered = Copied
  BY <1>1 DEF TypedLine, Delivered
<1>7. Copied # <<>>
  <2>1. 1 \in 1..Reader.count
    BY <1>1, <1>2 DEF ReaderType
  <2>2. 1 \in DOMAIN Copied
    BY <2>1 DEF Copied
  <2> QED
    BY <2>2
<1>8. LD!Return
  BY <1>1, <1>5, <1>6, <1>7 DEF LD!Return
<1> QED
  BY <1>4, <1>8 DEF Implements, LD!Next

LEMMA StutterImplements ==
  ASSUME DeliveryInv, UNCHANGED vars
  PROVE  Implements
<1>1. WaitingInv' /\ Reader' = Reader
  BY SameWaiting DEF DeliveryInv, vars
<1>2. LineInv'
  BY <1>1 DEF DeliveryInv, LineInv, Matches, vars
<1>3. TypedLine' = TypedLine /\ Delivered' = Delivered
  BY <1>1 DEF TypedLine, Delivered, Line, Copied, vars
<1> QED
  BY <1>1, <1>2, <1>3, UnseenImplements DEF DeliveryInv, vars

LEMMA InitImplements == Init => DeliveryInv /\ LD!Init
<1> SUFFICES ASSUME Init PROVE DeliveryInv /\ LD!Init
  OBVIOUS
<1>1. /\ readers = <<Idle>> /\ Len(readers) = 1 /\ DOMAIN readers = {1}
      /\ readers[1] = Idle /\ Idle.pc = "user"
  BY DEF Init, Idle
<1>2. Reader = Idle
  BY <1>1 DEF Reader
<1>3. DeliveryInv
  BY <1>1, <1>2 DEF DeliveryInv, WaitingInv, LineInv, Init
<1>4. Line = <<>>
  BY DEF Init, Line
<1> QED
  BY <1>1, <1>2, <1>3, <1>4 DEF LD!Init, TypedLine, Delivered, Init

LEMMA NextImplements ==
  ASSUME PatientUse
  PROVE  IInv /\ IInv' /\ DeliveryInv /\ [Next]_vars => Implements
<1> SUFFICES ASSUME IInv, IInv', DeliveryInv, [Next]_vars PROVE Implements
  OBVIOUS
<1>1. CASE Printable \/ Unprintable
  <2>1. PICK c \in Characters : print_to_screen(c)
    BY <1>1, CharacterTypes DEF Printable, Unprintable, IInv, TypeOK
  <2> QED
    BY <2>1, PrintImplements
<1>2. CASE Backspace
  BY <1>2, BackspaceImplements
<1>3. CASE Tab
  BY <1>3, TabImplements
<1>4. CASE Enter
  BY <1>4, EnterImplements
<1>5. CASE \E t \in Terminals : terminal_switch(t)
  BY <1>5, SwitchImplements
<1>6. CASE HaltShell
  BY <1>6, HaltShellImplements
<1>7. CASE \E n \in Nbytes : ReadBegin(n)
  BY <1>7, ReadBeginImplements
<1>8. CASE Wake
  BY <1>8, WakeImplements
<1>9. CASE Copy
  BY <1>9, CopyImplements
<1>10. CASE Test
  BY <1>10 DEF Test, DeliveryInv, LineInv
<1>11. CASE Terminate
  BY <1>11, TerminateImplements
<1>12. CASE ResetCount
  BY <1>12, ResetCountImplements
<1>13. CASE ResetFlag
  BY <1>13, ResetFlagImplements
<1>14. CASE ClearCell
  BY <1>14, ClearCellImplements
<1>15. CASE ReadReturn
  BY <1>15, ReadReturnImplements
<1>16. CASE UNCHANGED vars
  BY <1>16, StutterImplements
<1> QED
  BY <1>1, <1>2, <1>3, <1>4, <1>5, <1>6, <1>7, <1>8, <1>9, <1>10, <1>11, <1>12,
     <1>13, <1>14, <1>15, <1>16 DEF Next, ReaderStep

\* With lines that fit and a user who waits for the prompt, every line a
\* program gets is the line that was typed and closed, whole and once, however
\* deep the shells that switches start are nested: the steps of the keyboard
\* handler and terminal_read are steps of LineDiscipline or invisible to it.
THEOREM TerminalImplementsLineDiscipline ==
  ASSUME PatientUse
  PROVE  Spec => LD!Init /\ [][LD!Next]_(LD!vars)
<1>1. Init => DeliveryInv /\ LD!Init
  BY InitImplements
<1>2. IInv /\ IInv' /\ DeliveryInv /\ [Next]_vars => DeliveryInv' /\ [LD!Next]_(LD!vars)
  BY NextImplements DEF Implements
<1>3. QED
  BY <1>1, <1>2, InvariantHolds, PTL DEF Spec
=============================================================================
