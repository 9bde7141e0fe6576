---------------------------- MODULE KernelIOProofs ----------------------------
(***************************************************************************)
(* Proofs about KernelIO, for any screen, image and users, and any nesting  *)
(* of programs and handlers.                                                *)
(*                                                                         *)
(* No property is inductive: what the CPU runs next may be any of the       *)
(* suspended frames, so the invariants speak of them all.                   *)
(*                                                                         *)
(* IInv is about interrupts: a suspended handler is the keyboard's, waits   *)
(* at its EOI and has something below it; and where in_count is set,        *)
(* whoever waits for it has seen the tick.                                  *)
(*                                                                         *)
(* EchoInv adds the data.  While a line has characters, the frame on top is *)
(* in its loop of terminal_read, below handlers only, so nobody prints over *)
(* them; and each frame of cat or ls has printed what comes before its      *)
(* position, but for the read it is about to print.                         *)
(***************************************************************************)
EXTENDS KernelIO, SequenceTheorems, WellFoundedInduction, TLAPS

IsFrame(f) ==
  {"kind", "pc", "arg", "d", "buf", "count", "printed", "ticked"} \subseteq DOMAIN f
Waited(f, n) == f.pc = "rtc_wait" /\ n # 0 => f.ticked = TRUE

\* A frame that may be left behind, below others or not.
MayWait(f, n) ==
  /\ IsFrame(f) /\ Waited(f, n)
  /\ f.kind \in Handlers => f.kind = "keyboard" /\ f.pc = "eoi"

FramesInv(frames, n) ==
  /\ IsSequence(frames)
  /\ \A i \in DOMAIN frames : /\ MayWait(frames[i], n)
                              /\ frames[i].kind \in Handlers => i > 1

RunningInv ==
  /\ IsFrame(running) /\ Waited(running, in_count)
  /\ running.kind \notin Handlers => isr = {}
  /\ running.kind = "rtc" => running.pc = "body" /\ isr \subseteq {RTC_IRQ, IRQ_SECONDARY}
  /\ running.kind = "keyboard" => /\ running.pc \in {"body", "eoi"}
                                  /\ isr \subseteq {KEYBOARD_IRQ_NUM}
  /\ running.kind \in Handlers => /\ Len(suspended) > 0
                                  /\ running.pc = "body" => if_flag = FALSE

IInv == session \in Sessions /\ RunningInv /\ FramesInv(suspended, in_count)

-----------------------------------------------------------------------------
(* Frames *)

LEMMA AnySequence ==
  ASSUME NEW S, NEW s \in Seq(S)
  PROVE  IsSequence(s)
<1>1. DOMAIN s = 1..Len(s) /\ Len(s) \in Nat /\ s \in [1..Len(s) -> S]
  BY LenProperties
<1>2. s \in [1..Len(s) -> {s[i] : i \in DOMAIN s}]
  <2>1. s = [i \in 1..Len(s) |-> s[i]]
    BY <1>1
  <2>2. \A i \in 1..Len(s) : s[i] \in {s[j] : j \in DOMAIN s}
    BY <1>1
  <2> QED
    BY <2>1, <2>2
<1> DEFINE R == {s[i] : i \in DOMAIN s}
<1>3. Len(s) \in Nat /\ s \in [1..Len(s) -> R]
  BY <1>1, <1>2
<1> HIDE DEF R
<1>4. s \in Seq(R)
  BY <1>3, IsASeq
<1> QED
  BY <1>4 DEF IsSequence, R

LEMMA SequenceFacts ==
  ASSUME NEW s, IsSequence(s)
  PROVE  Len(s) \in Nat /\ DOMAIN s = 1..Len(s)
BY LenProperties DEF IsSequence

LEMMA PushKeepsFrames ==
  ASSUME NEW frames, NEW n, FramesInv(frames, n), NEW f, MayWait(f, n),
         f.kind \in Handlers => Len(frames) > 0
  PROVE  FramesInv(Append(frames, f), n) /\ Len(Append(frames, f)) > 0
<1> DEFINE m == Len(frames)
           S == {frames[i] : i \in DOMAIN frames} \cup {f}
           pushed == Append(frames, f)
<1>1. /\ m \in Nat /\ DOMAIN frames = 1..m /\ frames \in Seq(S)
  <2>1. IsSequence(frames)
    BY DEF FramesInv
  <2>2. Len(frames) \in Nat /\ DOMAIN frames = 1..Len(frames)
    BY <2>1, SequenceFacts
  <2>3. frames \in [1..Len(frames) -> S]
    BY <2>1, <2>2, LenProperties DEF IsSequence
  <2> QED
    BY <2>2, <2>3, IsASeq
<1>2. /\ pushed \in Seq(S) /\ Len(pushed) = m + 1
      /\ \A i \in 1..m : pushed[i] = frames[i]
      /\ pushed[m + 1] = f
  BY <1>1, AppendProperties
<1>3. IsSequence(pushed) /\ DOMAIN pushed = 1..(m + 1)
  BY <1>2, AnySequence, LenProperties
<1>4. \A i \in 1..(m + 1) : i \in 1..m \/ (i = m + 1 /\ (m > 0 => i > 1))
  BY <1>1
<1>5. m + 1 > 0
  BY <1>1
<1> HIDE DEF pushed, m, S
<1>6. \A i \in 1..(m + 1) : /\ MayWait(pushed[i], n)
                            /\ pushed[i].kind \in Handlers => i > 1
  <2> TAKE i \in 1..(m + 1)
  <2>1. CASE i \in 1..m
    BY <1>1, <1>2, <2>1 DEF FramesInv
  <2>2. CASE i = m + 1 /\ (m > 0 => i > 1)
    BY <1>2, <2>2 DEF m
  <2> QED
    BY <1>4, <2>1, <2>2
<1> QED
  BY <1>2, <1>3, <1>5, <1>6 DEF FramesInv, pushed

LEMMA PopKeepsFrames ==
  ASSUME NEW frames, NEW n, FramesInv(frames, n), Len(frames) > 0
  PROVE  /\ FramesInv(Pop(frames), n)
         /\ MayWait(Top(frames), n)
         /\ Top(frames).kind \in Handlers => Len(Pop(frames)) > 0
<1> DEFINE m == Len(frames)
           S == {frames[i] : i \in DOMAIN frames}
           popped == Pop(frames)
<1>1. m \in Nat /\ m > 0 /\ DOMAIN frames = 1..m /\ frames \in Seq(S)
  BY SequenceFacts DEF FramesInv, IsSequence
<1>2. 1 \in 1..(m + 1) /\ m - 1 \in 0..m /\ 1..(m - 1) \subseteq 1..m /\ m \in 1..m
  BY <1>1
<1>3. /\ popped \in Seq(S) /\ Len(popped) = m - 1
      /\ \A i \in 1..(m - 1) : popped[i] = frames[i]
  <2>1. \A i \in 1..(m - 1) : frames[i] \in S
    BY <1>1, <1>2
  <2>2. /\ SubSeq(frames, 1, m - 1) \in Seq(S)
        /\ Len(SubSeq(frames, 1, m - 1)) = IF 1 <= m - 1 THEN (m - 1) - 1 + 1 ELSE 0
        /\ \A i \in 1..((m - 1) - 1 + 1) : SubSeq(frames, 1, m - 1)[i] = frames[1 + i - 1]
    <3> HIDE DEF m, S
    <3> QED
      BY <1>1, <1>2, <2>1, SubSeqProperties
  <2>3. /\ (m - 1) - 1 + 1 = m - 1
        /\ \A i \in 1..(m - 1) : 1 + i - 1 = i
        /\ (IF 1 <= m - 1 THEN (m - 1) - 1 + 1 ELSE 0) = m - 1
    BY <1>1
  <2> HIDE DEF m, S
  <2> QED
    BY <2>2, <2>3 DEF Pop, m
<1>4. IsSequence(popped) /\ DOMAIN popped = 1..(m - 1)
  BY <1>3, AnySequence, LenProperties
<1>5. m > 1 => m - 1 > 0
  BY <1>1
<1> HIDE DEF m, S, popped
<1>6. FramesInv(popped, n)
  BY <1>1, <1>2, <1>3, <1>4 DEF FramesInv
<1>7. MayWait(frames[m], n) /\ (frames[m].kind \in Handlers => m > 1)
  BY <1>1, <1>2 DEF FramesInv
<1> QED
  BY <1>3, <1>5, <1>6, <1>7 DEF Top, m, popped

-----------------------------------------------------------------------------
(* Programs *)

\* Where a program runs: its places are none of a handler's.
IsProgram(f) == IsFrame(f) /\ f.kind \notin Handlers

LEMMA NotInHandler ==
  ASSUME IInv, running.pc \notin {"body", "eoi"}
  PROVE  IsProgram(running) /\ isr = {}
BY DEF IInv, RunningInv, IsProgram, Handlers

LEMMA KindIsProgram ==
  ASSUME IInv, running.kind \notin {"keyboard", "rtc"}
  PROVE  IsProgram(running) /\ isr = {}
BY DEF IInv, RunningInv, IsProgram, Handlers

\* A step of the program itself, which a tick came before or which ends no wait.
LEMMA ProgramStepKeepsInvariant ==
  ASSUME IInv, isr = {}, IsProgram(running'), Waited(running', in_count),
         UNCHANGED <<session, suspended, isr, in_count>>
  PROVE  IInv'
BY DEF IInv, RunningInv, IsProgram, Handlers

LEMMA GotoFacts ==
  ASSUME NEW pc, IsProgram(running), Goto(pc), pc # "rtc_wait"
  PROVE  IsProgram(running') /\ Waited(running', in_count) /\ UNCHANGED suspended
BY DEF Goto, IsProgram, IsFrame, Waited

LEMMA StartedIsProgram ==
  \A kind, arg : kind \notin Handlers =>
    /\ IsProgram(Program(kind, arg))
    /\ \A n : Waited(Program(kind, arg), n)
BY DEF Program, Frame, IsProgram, IsFrame, Waited

LEMMA ExecutesKeepsInvariant ==
  ASSUME IInv, NEW caller, MayWait(caller, in_count),
         caller.kind \in Handlers => Len(suspended) > 0,
         NEW program, IsProgram(program), Waited(program, in_count),
         Executes(caller, suspended, program),
         isr' = {}, UNCHANGED <<session, in_count>>
  PROVE  IInv'
<1>1. FramesInv(suspended, in_count)
  BY DEF IInv
<1>2. FramesInv(suspended', in_count)
  BY <1>1, PushKeepsFrames DEF Executes
<1> QED
  BY <1>2 DEF IInv, RunningInv, IsProgram, Executes, Handlers

LEMMA HaltsKeepsInvariant ==
  ASSUME IInv, isr = {}, NEW status, Halts(status),
         UNCHANGED <<session, isr, if_flag, in_count>>
  PROVE  IInv'
<1>1. CASE suspended = <<>>
  <2>1. running' = Program("shell", <<>>) /\ UNCHANGED suspended
    BY <1>1 DEF Halts
  <2>2. "shell" \notin Handlers
    BY DEF Handlers
  <2> QED
    BY <2>1, <2>2, StartedIsProgram, ProgramStepKeepsInvariant
<1>2. CASE suspended # <<>>
  <2> DEFINE caller == Top(suspended)
  <2>1. FramesInv(suspended, in_count) /\ Len(suspended) > 0
    <3>1. IsSequence(suspended) /\ FramesInv(suspended, in_count)
      BY DEF IInv, FramesInv
    <3>2. Len(suspended) \in Nat /\ Len(suspended) # 0
      BY <1>2, <3>1, SequenceFacts, EmptySeq DEF IsSequence
    <3> QED
      BY <3>1, <3>2
  <2>2. /\ FramesInv(Pop(suspended), in_count)
        /\ MayWait(caller, in_count)
        /\ caller.kind \in Handlers => Len(Pop(suspended)) > 0
    BY <2>1, PopKeepsFrames
  <2>3. /\ suspended' = Pop(suspended)
        /\ running' = IF caller.kind = "shell"
                      THEN [caller EXCEPT !.pc = IF status = 0 THEN "prompt"
                                                 ELSE "abnormal"]
                      ELSE caller
    BY <1>2 DEF Halts
  <2> HIDE DEF caller
  <2>4. CASE caller.kind = "shell"
    <3>1. IsProgram(running') /\ Waited(running', in_count)
      BY <2>2, <2>3, <2>4 DEF MayWait, IsProgram, IsFrame, Waited, Handlers
    <3> QED
      BY <2>2, <2>3, <3>1 DEF IInv, RunningInv, IsProgram, Handlers
  <2>5. CASE caller.kind # "shell"
    BY <2>2, <2>3, <2>5 DEF IInv, RunningInv, MayWait, Handlers
  <2> QED
    BY <2>4, <2>5
<1> QED
  BY <1>1, <1>2

LEMMA ShellKeepsInvariant ==
  ASSUME IInv, ShellStep
  PROVE  IInv'
<1>1. running.kind = "shell" /\ IsProgram(running) /\ isr = {}
  <2>1. running.kind = "shell"
    BY DEF ShellStep, ShellStarts, ShellPrompts, ShellSkips, ShellExecutes,
           ShellFindsNoCommand, ShellExits, ShellComplains, At
  <2> QED
    BY <2>1, KindIsProgram
<1>2. ASSUME NEW pc \in {"prompt", "read", "unknown"}, Goto(pc),
             UNCHANGED <<session, irqVars>>
      PROVE  IInv'
  <2>1. IsProgram(running') /\ Waited(running', in_count) /\ UNCHANGED suspended
    BY <1>1, <1>2, GotoFacts
  <2> QED
    BY <1>1, <1>2, <2>1, ProgramStepKeepsInvariant DEF irqVars
<1>3. CASE ShellStarts \/ ShellPrompts \/ ShellSkips \/ ShellFindsNoCommand \/ ShellComplains
  BY <1>2, <1>3 DEF ShellStarts, ShellPrompts, ShellSkips, ShellFindsNoCommand,
                    ShellComplains, Printing, Quiet
<1>4. CASE ShellExecutes
  <2> DEFINE caller == [running EXCEPT !.pc = "executing", !.buf = <<>>]
  <2>1. UNCHANGED <<session, irqVars>>
    BY <1>4 DEF ShellExecutes, Halting
  <2>2. PICK c \in session.commands :
          \/ Executes(caller, suspended, Program(c.kind, c.arg))
          \/ Goto("unknown")
    BY <1>4 DEF ShellExecutes
  <2>3. CASE Executes(caller, suspended, Program(c.kind, c.arg))
    <3>1. c.kind \notin Handlers
      BY SessionsAssumption DEF IInv, Handlers
    <3>2. MayWait(caller, in_count) /\ caller.kind \notin Handlers
      BY <1>1 DEF MayWait, IsProgram, IsFrame, Waited
    <3>3. IsProgram(Program(c.kind, c.arg)) /\ Waited(Program(c.kind, c.arg), in_count)
      BY <3>1, StartedIsProgram
    <3> HIDE DEF caller
    <3> QED
      BY <1>1, <2>1, <2>3, <3>2, <3>3, ExecutesKeepsInvariant DEF irqVars
  <2> QED
    BY <1>2, <2>1, <2>2, <2>3
<1>5. CASE ShellExits
  BY <1>1, <1>5, HaltsKeepsInvariant DEF ShellExits, Halting, irqVars
<1> QED
  BY <1>3, <1>4, <1>5 DEF ShellStep

LEMMA ReadersKeepInvariant ==
  ASSUME IInv, ReadLine \/ LineIsRead \/ HelloStep
  PROVE  IInv'
<1>1. IsProgram(running) /\ isr = {}
  <2>1. running.pc \in {"read", "wait"} \/ running.kind = "hello"
    BY DEF ReadLine, LineIsRead, HelloStep
  <2> QED
    BY <2>1, NotInHandler, KindIsProgram
<1>2. UNCHANGED <<session, irqVars>>
  BY DEF ReadLine, LineIsRead, HelloStep, Quiet, Printing
<1>3. IsProgram(running') /\ Waited(running', in_count) /\ UNCHANGED suspended
  <2>1. CASE LineIsRead
    BY <1>1, <2>1 DEF LineIsRead, IsProgram, IsFrame, Waited
  <2>2. CASE ReadLine \/ HelloStep
    <3>1. \E pc \in {"wait", "read", "name", "exit"} : Goto(pc)
      BY <2>2 DEF ReadLine, HelloStep
    <3> QED
      BY <1>1, <3>1, GotoFacts
  <2> QED
    BY <2>1, <2>2
<1> QED
  BY <1>1, <1>2, <1>3, ProgramStepKeepsInvariant DEF irqVars

LEMMA FilesKeepInvariant ==
  ASSUME IInv, Opens \/ Gets \/ Puts
  PROVE  IInv'
<1>1. IsProgram(running) /\ isr = {}
  BY KindIsProgram DEF Opens, Gets, Puts
<1>2. ASSUME NEW text, NEW status, Fails(text, status)
      PROVE  IsProgram(running') /\ Waited(running', in_count)
             /\ UNCHANGED <<session, suspended, irqVars>>
  BY <1>1, <1>2 DEF Fails, Printing, IsProgram, IsFrame, Waited
<1>3. IsProgram(running') /\ Waited(running', in_count)
      /\ UNCHANGED <<session, suspended, irqVars>>
  <2>1. CASE Opens
    <3>1. \/ \E text, status : Fails(text, status)
          \/ /\ \E d : running' = [running EXCEPT !.pc = "get", !.d = d]
             /\ Quiet
      <4> DEFINE entry == read_dentry_by_name(IF running.kind = "ls" THEN <<".">>
                                              ELSE running.arg)
                 d == Descriptor(CHOOSE e \in entry : TRUE)
      <4>1. \/ Fails(Sorry, 3)
            \/ Fails(Sorry, 2)
            \/ running' = [running EXCEPT !.pc = "get", !.d = d] /\ Quiet
        BY <2>1, Zenon DEF Opens
      <4> HIDE DEF d
      <4> QED
        BY <4>1, Zenon
    <3>2. CASE \E text, status : Fails(text, status)
      BY <1>2, <3>2, Zenon
    <3>3. ASSUME NEW d, running' = [running EXCEPT !.pc = "get", !.d = d], Quiet
          PROVE  IsProgram(running') /\ Waited(running', in_count)
                 /\ UNCHANGED <<session, suspended, irqVars>>
      BY <1>1, <3>3 DEF Quiet, IsProgram, IsFrame, Waited
    <3> QED
      BY <3>1, <3>2, <3>3, Zenon
  <2>2. CASE Gets
    <3> DEFINE got == IF running.d.fop = "files"
                      THEN file_read(running.d, IF running.kind = "cat" THEN BUFSIZE
                                                ELSE NAME_BYTES)
                      ELSE directory_read(running.d)
               r == got.result
               pc == IF r.bytes = <<>> THEN "exit" ELSE "put"
               buf == IF running.kind = "ls" THEN Append(r.bytes, NewLine) ELSE r.bytes
    <3>1. \/ Fails(Sorry, 3)
          \/ Goto("tick") /\ Quiet
          \/ running' = [running EXCEPT !.d = got.d, !.pc = pc, !.buf = buf] /\ Quiet
      BY <2>2 DEF Gets
    <3> HIDE DEF got, r, buf
    <3>2. CASE Goto("tick") /\ Quiet
      BY <1>1, <3>2, GotoFacts DEF Quiet
    <3>3. CASE running' = [running EXCEPT !.d = got.d, !.pc = pc, !.buf = buf] /\ Quiet
      BY <1>1, <3>3 DEF Quiet, IsProgram, IsFrame, Waited
    <3> QED
      BY <1>2, <3>1, <3>2, <3>3
  <2>3. CASE Puts
    BY <1>1, <2>3 DEF Puts, Printing, IsProgram, IsFrame, Waited
  <2> QED
    BY <2>1, <2>2, <2>3
<1> QED
  BY <1>1, <1>3, ProgramStepKeepsInvariant DEF irqVars

LEMMA RtcReadersKeepInvariant ==
  ASSUME IInv, PingpongOpens \/ PingpongDraws \/ rtc_read \/ RtcReadReturns
  PROVE  IInv'
<1>1. IsProgram(running) /\ isr = {}
  <2>1. running.pc \in {"tick", "rtc_wait"} \/ running.kind = "pingpong"
    BY DEF PingpongOpens, PingpongDraws, rtc_read, RtcReadReturns, At
  <2> QED
    BY <2>1, NotInHandler, KindIsProgram
<1>2. CASE PingpongOpens \/ RtcReadReturns
  <2>1. \E pc \in {"draw", "exit"} : Goto(pc)
    BY <1>2 DEF PingpongOpens, RtcReadReturns
  <2>2. UNCHANGED <<session, isr, in_count>>
    BY <1>2 DEF PingpongOpens, RtcReadReturns, rtc_set_freq, RtcReadEnds, irqVars
  <2> QED
    BY <1>1, <2>1, <2>2, GotoFacts, ProgramStepKeepsInvariant
<1>3. CASE PingpongDraws
  <2>1. /\ IsProgram(running') /\ Waited(running', in_count)
        /\ UNCHANGED <<session, suspended, irqVars>>
    BY <1>1, <1>3 DEF PingpongDraws, Printing, IsProgram, IsFrame, Waited
  <2> QED
    BY <1>1, <2>1, ProgramStepKeepsInvariant DEF irqVars
<1>4. CASE rtc_read
  <2>1. /\ in_count' = 0 /\ UNCHANGED <<session, suspended, isr>>
        /\ running' = [running EXCEPT !.pc = "rtc_wait", !.ticked = FALSE]
    BY <1>4 DEF rtc_read, RtcReadBegins
  <2>2. IsProgram(running') /\ Waited(running', in_count')
    BY <1>1, <2>1 DEF IsProgram, IsFrame, Waited
  <2>3. FramesInv(suspended', in_count')
    BY <2>1 DEF IInv, FramesInv, MayWait, Waited
  <2> QED
    BY <1>1, <2>1, <2>2, <2>3 DEF IInv, RunningInv, IsProgram, Handlers
<1> QED
  BY <1>2, <1>3, <1>4

-----------------------------------------------------------------------------
(* Interrupts *)

LEMMA InterruptKeepsInvariant ==
  ASSUME IInv, NEW irq \in Devices, Interrupt(irq)
  PROVE  IInv'
<1>1. /\ if_flag = TRUE /\ Passes(irq)
      /\ if_flag' = FALSE /\ isr' = isr \cup LevelsOf(irq)
      /\ suspended' = Append(suspended, running) /\ running' = Handler(irq)
      /\ UNCHANGED <<session, in_count>>
  BY DEF Interrupt, Take
<1>2. MayWait(running, in_count) /\ (running.kind \in Handlers => Len(suspended) > 0)
  BY <1>1 DEF IInv, RunningInv, MayWait, Handlers
<1>3. isr = {}
  BY <1>1, <1>2 DEF IInv, RunningInv, MayWait, Handlers, Devices, Passes,
     KEYBOARD_IRQ_NUM, RTC_IRQ
<1>4. FramesInv(suspended', in_count') /\ Len(suspended') > 0
  BY <1>1, <1>2, PushKeepsFrames DEF IInv
<1>5. /\ IsFrame(running') /\ running'.pc = "body"
      /\ \/ irq = RTC_IRQ /\ running'.kind = "rtc"
         \/ irq = KEYBOARD_IRQ_NUM /\ running'.kind = "keyboard"
  BY <1>1 DEF Devices, Handler, Frame, IsFrame, KEYBOARD_IRQ_NUM, RTC_IRQ
<1>6. RunningInv'
  BY <1>1, <1>3, <1>4, <1>5
  DEF RunningInv, Waited, Handlers, LevelsOf, KEYBOARD_IRQ_NUM, RTC_IRQ, IRQ_PRIM_NUM,
      IRQ_SECONDARY
<1> QED
  BY <1>1, <1>4, <1>6 DEF IInv

\* A handler that is over leaves nothing in service, and who goes on is any
\* frame that may wait.
LEMMA ReturnKeepsInvariant ==
  ASSUME IInv, NEW frames, FramesInv(frames, in_count'), Len(frames) > 0,
         Returns(frames), isr' = {}, UNCHANGED session
  PROVE  IInv'
<1>1. /\ FramesInv(suspended', in_count')
      /\ MayWait(running', in_count')
      /\ running'.kind \in Handlers => Len(suspended') > 0
  BY PopKeepsFrames DEF Returns
<1> QED
  BY <1>1 DEF IInv, RunningInv, MayWait, Handlers

LEMMA RtcHandlerKeepsInvariant ==
  ASSUME IInv, RtcHandler
  PROVE  IInv'
<1> DEFINE frames == [i \in DOMAIN suspended |->
                        [suspended[i] EXCEPT !.ticked = suspended[i].pc = "rtc_wait"]]
<1>1. Returns(frames) /\ in_count' = 1 /\ UNCHANGED session /\ isr' = {}
  BY DEF RtcHandler, rtc_handler, At, IInv, RunningInv, Handlers, AfterEoi, RTC_IRQ,
         IRQ_PRIM_NUM, IRQ_SECONDARY
<1>2. /\ Len(suspended) \in Nat /\ DOMAIN suspended = 1..Len(suspended)
      /\ Len(suspended) > 0
  BY SequenceFacts DEF IInv, RunningInv, FramesInv, RtcHandler, At, Handlers
<1>3. IsSequence(frames) /\ DOMAIN frames = DOMAIN suspended /\ Len(frames) = Len(suspended)
  <2>1. frames \in [1..Len(suspended) -> {frames[i] : i \in DOMAIN frames}]
    BY <1>2
  <2>2. DOMAIN frames = DOMAIN suspended
    OBVIOUS
  <2> HIDE DEF frames
  <2>3. frames \in Seq({frames[i] : i \in DOMAIN frames})
    BY <1>2, <2>1, IsASeq
  <2>4. Len(frames) \in Nat /\ DOMAIN frames = 1..Len(frames)
    BY <2>3, LenProperties
  <2> QED
    BY <1>2, <2>2, <2>3, <2>4 DEF IsSequence
<1>4. \A i \in DOMAIN suspended : /\ MayWait(frames[i], 1)
                                  /\ frames[i].kind = suspended[i].kind
  BY DEF IInv, FramesInv, MayWait, IsFrame, Waited
<1>5. FramesInv(frames, 1)
  BY <1>3, <1>4 DEF IInv, FramesInv
<1> HIDE DEF frames
<1> QED
  BY <1>1, <1>2, <1>3, <1>5, ReturnKeepsInvariant

LEMMA KeyboardKeepsInvariant ==
  ASSUME IInv, KeyboardStep
  PROVE  IInv'
<1>1. /\ IsFrame(running) /\ running.kind = "keyboard" /\ Len(suspended) > 0
      /\ isr \subseteq {KEYBOARD_IRQ_NUM}
      /\ AfterEoi(isr, KEYBOARD_IRQ_NUM) = {}
  <2>1. running.kind = "keyboard"
    BY DEF KeyboardStep, print_to_screen, HandleTab, HandleBackspace, HandleEnter, HandleCtrlL,
           HandleAltF, HandleAltFCurrent, KeyboardEoi, Handles, At
  <2> QED
    BY <2>1 DEF IInv, RunningInv, Handlers, AfterEoi, KEYBOARD_IRQ_NUM, IRQ_PRIM_NUM
<1>2. ASSUME running' = [running EXCEPT !.pc = "eoi"], UNCHANGED <<session, suspended, in_count>>,
             isr' \subseteq {KEYBOARD_IRQ_NUM}
      PROVE  IInv'
  BY <1>1, <1>2 DEF IInv, RunningInv, IsFrame, Waited, Handlers
<1>3. CASE ToEoi
  BY <1>1, <1>2, <1>3 DEF ToEoi
<1>4. CASE /\ isr' = EoiBeforeShell /\ UNCHANGED <<session, in_count>>
           /\ \/ Executes([running EXCEPT !.pc = "eoi"], suspended, Program("shell", <<>>))
              \/ running' = [running EXCEPT !.pc = "eoi"] /\ UNCHANGED suspended
  <2> DEFINE caller == [running EXCEPT !.pc = "eoi"]
  <2>1. isr' = {}
    BY <1>1, <1>4 DEF EoiBeforeShell
  <2>2. CASE Executes(caller, suspended, Program("shell", <<>>))
    <3>1. MayWait(caller, in_count)
      BY <1>1 DEF MayWait, IsFrame, Waited, Handlers
    <3>2. /\ IsProgram(Program("shell", <<>>))
          /\ Waited(Program("shell", <<>>), in_count)
      BY StartedIsProgram DEF Handlers
    <3> HIDE DEF caller
    <3> QED
      BY <1>1, <1>4, <2>1, <2>2, <3>1, <3>2, ExecutesKeepsInvariant
  <2> QED
    BY <1>2, <1>4, <2>1, <2>2
<1>5. CASE KeyboardEoi
  <2>1. Returns(suspended) /\ isr' = {} /\ UNCHANGED <<session, in_count>>
    BY <1>1, <1>5 DEF KeyboardEoi
  <2>2. FramesInv(suspended, in_count')
    BY <2>1 DEF IInv
  <2> QED
    BY <1>1, <2>1, <2>2, ReturnKeepsInvariant
<1>6. CASE HandleAltF
  BY <1>3, <1>4, <1>6 DEF HandleAltF
<1> QED
  BY <1>3, <1>5, <1>6 DEF KeyboardStep, print_to_screen, HandleTab, HandleBackspace,
     HandleEnter, HandleCtrlL, HandleAltFCurrent

-----------------------------------------------------------------------------
(* The invariant *)

LEMMA InitEstablishesInvariant == Init => IInv
<1> SUFFICES ASSUME Init PROVE IInv
  OBVIOUS
<1>1. IsSequence(suspended) /\ DOMAIN suspended = {}
  <2>1. suspended = <<>> /\ <<>> \in Seq({})
    BY DEF Init
  <2>2. IsSequence(suspended)
    BY <2>1, AnySequence, Zenon
  <2> QED
    BY <2>1, <2>2
<1>2. IsProgram(running) /\ Waited(running, in_count)
  BY StartedIsProgram DEF Init, Handlers
<1> QED
  BY <1>1, <1>2 DEF Init, IInv, RunningInv, FramesInv, IsProgram, Handlers

LEMMA NextKeepsInvariant == IInv /\ [Next]_vars => IInv'
<1> SUFFICES ASSUME IInv, [Next]_vars PROVE IInv'
  OBVIOUS
<1>1. CASE ProgramStep
  <2>1. CASE Exits
    <3>1. running.pc = "exit" /\ Halts(running.count) /\ UNCHANGED <<session, irqVars>>
      BY <2>1 DEF Exits, Halting
    <3> QED
      BY <3>1, NotInHandler, HaltsKeepsInvariant DEF irqVars
  <2> QED
    BY <1>1, <2>1, ShellKeepsInvariant, ReadersKeepInvariant, FilesKeepInvariant,
       RtcReadersKeepInvariant
    DEF ProgramStep
<1>2. CASE RtcHandler
  BY <1>2, RtcHandlerKeepsInvariant
<1>3. CASE KeyboardStep
  BY <1>3, KeyboardKeepsInvariant
<1>4. CASE \E irq \in Devices : Interrupt(irq)
  BY <1>4, InterruptKeepsInvariant
<1>5. CASE (\E k \in session.keys : KeyPress(k)) \/ RtcTick \/ UNCHANGED vars
  <2>1. UNCHANGED <<session, running, suspended, isr, in_count, if_flag>>
    BY <1>5 DEF KeyPress, RtcTick, Tick, vars, cpuVars, irqVars
  <2> QED
    BY <2>1 DEF IInv, RunningInv, FramesInv, MayWait
<1> QED
  BY <1>1, <1>2, <1>3, <1>4, <1>5 DEF Next

LEMMA InvariantHolds == Spec => []IInv
<1>1. Init => IInv
  BY InitEstablishesInvariant
<1>2. IInv /\ [Next]_vars => IInv'
  BY NextKeepsInvariant
<1> QED
  BY <1>1, <1>2, PTL DEF Spec

\* A program never runs with an interrupt level in service, however many shells
\* the keyboard handler has started inside itself: the next key and the next
\* tick get through.
THEOREM NothingStaysInService == Spec => []NoInterruptIsLeftInService
<1>1. IInv => NoInterruptIsLeftInService
  BY DEF IInv, RunningInv, NoInterruptIsLeftInService
<1> QED
  BY <1>1, InvariantHolds, PTL

\* rtc_read's flag is one for all programs, and still no read of the RTC returns
\* without an interrupt of its own.
THEOREM RtcReadsWaitForATick == Spec => RtcReadsWait
<1>1. IInv /\ [Next]_vars => [RtcReadReturns => running.ticked]_vars
  <2> SUFFICES ASSUME IInv, RtcReadReturns PROVE running.ticked
    OBVIOUS
  <2> QED
    BY DEF IInv, RunningInv, Waited, RtcReadReturns, RtcReadEnds
<1> QED
  BY <1>1, InvariantHolds, PTL DEF Spec, RtcReadsWait

-----------------------------------------------------------------------------
(* Induction, over sets *)

LEMMA NatMin ==
  ASSUME NEW S \in SUBSET Nat, S # {}
  PROVE  \E x \in S : \A y \in S : x <= y
<1> DEFINE R == {p \in Nat \X Nat : p[1] < p[2]}
<1>1. IsWellFoundedOn(R, Nat)
  BY NatLessThanWellFounded DEF OpToRel
<1>2. \E x \in S : \A y \in S : ~ (<<y, x>> \in R)
  <2> HIDE DEF R
  <2> QED
    BY <1>1, WFMin, Zenon
<1>3. PICK x \in S : \A y \in S : <<y, x>> \notin R
  <2> HIDE DEF R
  <2> QED
    BY <1>2
<1>4. \A y \in S : x <= y
  <2> TAKE y \in S
  <2>1. <<y, x>> \in Nat \X Nat /\ <<y, x>>[1] = y /\ <<y, x>>[2] = x
    OBVIOUS
  <2>2. ~ (y < x)
    BY <1>3, <2>1
  <2> QED
    BY <2>2
<1> QED
  BY <1>4

LEMMA NatInd ==
  ASSUME NEW T \in SUBSET Nat, 0 \in T, \A n \in T : n + 1 \in T
  PROVE  T = Nat
<1> SUFFICES ASSUME Nat \ T # {} PROVE FALSE
  OBVIOUS
<1>1. PICK x \in Nat \ T : \A y \in Nat \ T : x <= y
  <2>1. Nat \ T \in SUBSET Nat
    OBVIOUS
  <2> QED
    BY <2>1, NatMin, Zenon
<1>2. x # 0 /\ x - 1 \in Nat /\ ~(x <= x - 1)
  BY <1>1
<1>3. x - 1 \in T
  BY <1>1, <1>2
<1>4. (x - 1) + 1 = x
  BY <1>1
<1> QED
  BY <1>1, <1>3, <1>4

-----------------------------------------------------------------------------
(* The screen *)

LEMMA Sizes ==
  /\ NUM_COLS \in Nat /\ NUM_COLS >= 2 /\ NUM_ROWS \in Nat /\ NUM_ROWS >= 3
  /\ LastCol = NUM_COLS - 1 /\ LastRow = NUM_ROWS - 1
  /\ LastCol \in Nat /\ LastRow \in Nat
BY ScreenAssumption DEF LastCol, LastRow

\* The first address of a row.
LEMMA RowStarts ==
  ASSUME NEW y \in Nat
  PROVE  /\ NUM_COLS * y \in Nat
         /\ NUM_COLS * (y + 1) = NUM_COLS * y + NUM_COLS
         /\ y <= LastRow => NUM_COLS * y + NUM_COLS <= NUM_ROWS * NUM_COLS
         /\ y > 0 => NUM_COLS * y >= NUM_COLS
         /\ NUM_COLS * LastRow = NUM_ROWS * NUM_COLS - NUM_COLS
         /\ NUM_ROWS * NUM_COLS \in Nat /\ NUM_ROWS * NUM_COLS >= 3 * NUM_COLS
<1>1. NUM_COLS \in Nat /\ NUM_ROWS \in Nat /\ NUM_ROWS >= 3 /\ LastRow = NUM_ROWS - 1
  BY Sizes
<1>2. NUM_COLS * y \in Nat /\ NUM_COLS * (y + 1) = NUM_COLS * y + NUM_COLS
  BY <1>1
<1>3. NUM_COLS * LastRow = NUM_ROWS * NUM_COLS - NUM_COLS
  BY <1>1
<1>4. NUM_ROWS * NUM_COLS \in Nat /\ NUM_ROWS * NUM_COLS >= 3 * NUM_COLS
  BY <1>1
<1>5. ASSUME y <= LastRow PROVE NUM_COLS * y + NUM_COLS <= NUM_ROWS * NUM_COLS
  <2>1. NUM_COLS * (y + 1) <= NUM_COLS * NUM_ROWS
    BY <1>1, <1>5
  <2> QED
    BY <1>1, <1>2, <2>1
<1>6. ASSUME y > 0 PROVE NUM_COLS * y >= NUM_COLS
  BY <1>1, <1>6
<1> QED
  BY <1>2, <1>3, <1>4, <1>5, <1>6

LEMMA Columns ==
  ASSUME NEW y \in Nat, NEW x \in 0..LastCol
  PROVE  (NUM_COLS * y + x) % NUM_COLS = x
BY Sizes

LEMMA ColumnsAbove ==
  ASSUME NEW a \in Nat, a >= NUM_COLS
  PROVE  (a - NUM_COLS) % NUM_COLS = a % NUM_COLS
<1> DEFINE q == a \div NUM_COLS
           r == a % NUM_COLS
<1>1. q \in Nat /\ r \in 0..LastCol /\ a = NUM_COLS * q + r
  BY Sizes
<1> HIDE DEF q, r
<1>2. q > 0
  <2>1. q = 0 => NUM_COLS * q = 0
    BY Sizes
  <2> QED
    BY <1>1, <2>1, Sizes
<1>3. q - 1 \in Nat /\ NUM_COLS * ((q - 1) + 1) = NUM_COLS * (q - 1) + NUM_COLS
      /\ (q - 1) + 1 = q /\ NUM_COLS * (q - 1) \in Nat
  BY <1>1, <1>2, RowStarts
<1>4. a - NUM_COLS = NUM_COLS * (q - 1) + r
  BY <1>1, <1>3, Sizes
<1>5. (NUM_COLS * (q - 1) + r) % NUM_COLS = r
  BY <1>1, <1>3, Columns
<1> QED
  BY <1>4, <1>5 DEF r

\* The cursor may be left of its row, by a row at most, but not of the screen.
ScreenOk(s) ==
  /\ DOMAIN s.video_mem = Cells
  /\ s.y \in 0..LastRow /\ s.x \in (-NUM_COLS)..LastCol
  /\ CursorOf(s) >= 0

LEMMA ScreenFields ==
  \A mem, px, py : /\ Screen(mem, px, py).video_mem = mem
                   /\ Screen(mem, px, py).x = px /\ Screen(mem, px, py).y = py
                   /\ CursorOf(Screen(mem, px, py)) = NUM_COLS * py + px
BY DEF Screen, CursorOf, Address

LEMMA CursorFacts ==
  ASSUME NEW s, ScreenOk(s)
  PROVE  /\ s.x \in Int /\ s.y \in Nat /\ s.y <= LastRow /\ s.x <= LastCol /\ s.x >= -NUM_COLS
         /\ NUM_COLS * s.y \in Nat /\ CursorOf(s) = NUM_COLS * s.y + s.x
         /\ CursorOf(s) \in Cells /\ CursorOf(s) \in Nat
<1>1. s.y \in Nat /\ s.x \in Int /\ s.y <= LastRow /\ s.x <= LastCol /\ s.x >= -NUM_COLS
  BY Sizes DEF ScreenOk
<1>2. /\ NUM_COLS * s.y \in Nat /\ NUM_COLS * s.y + NUM_COLS <= NUM_ROWS * NUM_COLS
      /\ NUM_ROWS * NUM_COLS \in Nat
  BY <1>1, RowStarts
<1>3. CursorOf(s) = NUM_COLS * s.y + s.x /\ CursorOf(s) >= 0
  BY DEF ScreenOk, CursorOf, Address
<1> DEFINE w == NUM_COLS * s.y
           size == NUM_ROWS * NUM_COLS
<1> HIDE DEF w, size
<1>4. w + s.x >= 0 /\ w + s.x <= size - 1
  BY <1>1, <1>2, <1>3, Sizes DEF w, size
<1>5. w + s.x \in Nat /\ w + s.x \in 0..(size - 1)
  BY <1>1, <1>2, <1>4 DEF w, size
<1> QED
  BY <1>1, <1>2, <1>3, <1>5 DEF Cells, w, size

\* A character within its row.
LEMMA PutcShows ==
  ASSUME NEW s, ScreenOk(s), NEW c, c # NewLine, s.x # LastCol
  PROVE  /\ ScreenOk(putc(s, c))
         /\ CursorOf(putc(s, c)) = CursorOf(s) + 1
         /\ putc(s, c).x = s.x + 1 /\ putc(s, c).y = s.y
         /\ putc(s, c).video_mem = [s.video_mem EXCEPT ![CursorOf(s)] = c]
<1>1. Remainder(s.x + 1) = s.x + 1
  <2>1. s.x + 1 \in Int /\ s.x + 1 <= LastCol /\ s.x + 1 > -NUM_COLS
    BY CursorFacts, Sizes
  <2>2. CASE s.x + 1 >= 0
    <3>1. (s.x + 1) % NUM_COLS = s.x + 1
      BY <2>1, <2>2, Sizes
    <3> QED
      BY <2>2, <3>1 DEF Remainder
  <2>3. CASE ~(s.x + 1 >= 0)
    <3>1. (-(s.x + 1)) % NUM_COLS = -(s.x + 1)
      BY <2>1, <2>3, Sizes
    <3>2. -(-(s.x + 1)) = s.x + 1
      BY <2>1
    <3> QED
      BY <2>3, <3>1, <3>2 DEF Remainder
  <2> QED
    BY <2>2, <2>3
<1>2. putc(s, c) = Screen([s.video_mem EXCEPT ![CursorOf(s)] = c], s.x + 1, s.y)
  BY <1>1 DEF putc, Scrolls
<1> DEFINE mem == [s.video_mem EXCEPT ![CursorOf(s)] = c]
<1>3. DOMAIN mem = Cells
  BY DEF ScreenOk
<1> HIDE DEF mem
<1>4. /\ putc(s, c).video_mem = mem /\ putc(s, c).x = s.x + 1 /\ putc(s, c).y = s.y
      /\ CursorOf(putc(s, c)) = NUM_COLS * s.y + (s.x + 1)
  BY <1>2, ScreenFields DEF mem
<1>5. CursorOf(putc(s, c)) = CursorOf(s) + 1 /\ CursorOf(s) + 1 >= 0
  BY <1>4, CursorFacts
<1>6. s.x + 1 \in (-NUM_COLS)..LastCol /\ s.y \in 0..LastRow
  BY CursorFacts, Sizes DEF ScreenOk
<1> QED
  BY <1>3, <1>4, <1>5, <1>6 DEF ScreenOk, mem

\* A character in the last column, or a newline, above the last row.
LEMMA PutcWraps ==
  ASSUME NEW s, ScreenOk(s), NEW c, c = NewLine \/ s.x = LastCol, s.y # LastRow
  PROVE  /\ ScreenOk(putc(s, c))
         /\ putc(s, c).x = 0 /\ putc(s, c).y = s.y + 1
         /\ putc(s, c).video_mem = s.video_mem
         /\ CursorOf(putc(s, c)) = NUM_COLS * (s.y + 1)
         /\ s.x = LastCol => CursorOf(putc(s, c)) = CursorOf(s) + 1
<1>1. putc(s, c) = Screen(s.video_mem, 0, s.y + 1)
  BY DEF putc, Scrolls, set_cursor
<1>2. s.y + 1 \in Nat /\ s.y + 1 \in 0..LastRow /\ 0 \in (-NUM_COLS)..LastCol
  BY CursorFacts, Sizes
<1>3. NUM_COLS * (s.y + 1) \in Nat
  BY <1>2, RowStarts
<1>4. CursorOf(putc(s, c)) = NUM_COLS * (s.y + 1) + 0
  BY <1>1, ScreenFields
<1>5. CursorOf(putc(s, c)) = NUM_COLS * (s.y + 1)
  BY <1>3, <1>4
<1>6. ASSUME s.x = LastCol PROVE NUM_COLS * (s.y + 1) = CursorOf(s) + 1
  <2>1. NUM_COLS * (s.y + 1) = NUM_COLS * s.y + NUM_COLS
    BY CursorFacts, RowStarts
  <2> QED
    BY <1>6, <2>1, CursorFacts, Sizes
<1>7. CursorOf(putc(s, c)) >= 0
  BY <1>3, <1>5
<1> QED
  BY <1>1, <1>2, <1>5, <1>6, <1>7, ScreenFields DEF ScreenOk

LEMMA ScrollFacts ==
  ASSUME NEW s, ScreenOk(s), NEW c, Scrolls(s, c)
  PROVE  /\ ScreenOk(putc(s, c))
         /\ putc(s, c).x = 0 /\ putc(s, c).y = LastRow /\ s.y = LastRow
         /\ CursorOf(putc(s, c)) = NUM_COLS * s.y
         /\ \A a \in Cells : a + NUM_COLS \in Cells =>
              putc(s, c).video_mem[a] = s.video_mem[a + NUM_COLS]
<1> DEFINE mem == [a \in Cells |-> IF a + NUM_COLS \in Cells THEN s.video_mem[a + NUM_COLS]
                                   ELSE Space]
<1>1. putc(s, c) = Screen(mem, 0, LastRow) /\ s.y = LastRow
  BY DEF putc, scrolling, Scrolls
<1>2. DOMAIN mem = Cells /\ \A a \in Cells : a + NUM_COLS \in Cells =>
                              mem[a] = s.video_mem[a + NUM_COLS]
  OBVIOUS
<1> HIDE DEF mem
<1>3. LastRow \in 0..LastRow /\ 0 \in (-NUM_COLS)..LastCol /\ NUM_COLS * s.y \in Nat
  BY CursorFacts, Sizes
<1>4. CursorOf(putc(s, c)) = NUM_COLS * LastRow + 0
  BY <1>1, ScreenFields
<1>5. CursorOf(putc(s, c)) = NUM_COLS * s.y /\ CursorOf(putc(s, c)) >= 0
  BY <1>1, <1>3, <1>4
<1> QED
  BY <1>1, <1>2, <1>3, <1>5, ScreenFields DEF ScreenOk

LEMMA PutcIsOk ==
  ASSUME NEW s, ScreenOk(s), NEW c
  PROVE  ScreenOk(putc(s, c)) /\ (c = NewLine => putc(s, c).x = 0)
BY PutcShows, PutcWraps, ScrollFacts DEF Scrolls

-----------------------------------------------------------------------------
(* puts *)

\* The screens between the characters of a string.
IsPrinting(f, s, str) ==
  /\ f[0] = s
  /\ \A i \in 1..Len(str) : f[i] = putc(f[i - 1], str[i])

PrintsUpTo(f, s, str, n) ==
  f = [i \in 0..n |-> IF i = 0 THEN s ELSE putc(f[i - 1], str[i])]

LEMMA PrintingExists ==
  ASSUME NEW s, NEW str, NEW n \in Nat
  PROVE  \E f : PrintsUpTo(f, s, str, n)
<1> DEFINE T == {m \in Nat : \E f : PrintsUpTo(f, s, str, m)}
<1>1. 0 \in T
  <2>1. PrintsUpTo([i \in 0..0 |-> s], s, str, 0)
    BY DEF PrintsUpTo
  <2> QED
    BY <2>1
<1>2. \A m \in T : m + 1 \in T
  <2> TAKE m \in T
  <2>1. PICK f : PrintsUpTo(f, s, str, m)
    OBVIOUS
  <2> DEFINE next == putc(f[m], str[m + 1])
             g == [i \in 0..(m + 1) |-> IF i <= m THEN f[i] ELSE next]
             body(i) == IF i = 0 THEN s ELSE putc(g[i - 1], str[i])
  <2> HIDE DEF next
  <2>2. \A i \in 0..(m + 1) : g[i] = body(i)
    <3> TAKE i \in 0..(m + 1)
    <3>1. CASE i = 0
      <4>1. 0 <= m /\ 0 \in 0..m /\ 0 \in 0..(m + 1)
        OBVIOUS
      <4>2. g[0] = f[0] /\ f[0] = s
        BY <2>1, <4>1 DEF PrintsUpTo
      <4> QED
        BY <3>1, <4>2
    <3>2. CASE i # 0 /\ i <= m
      <4>1. i \in 0..m /\ i - 1 \in 0..(m + 1) /\ i - 1 <= m
        BY <3>2
      <4>2. g[i] = f[i] /\ g[i - 1] = f[i - 1] /\ f[i] = putc(f[i - 1], str[i])
        BY <2>1, <3>2, <4>1 DEF PrintsUpTo
      <4> QED
        BY <3>2, <4>2
    <3>3. CASE i = m + 1
      <4>1. ~(m + 1 <= m) /\ (m + 1) - 1 = m /\ m \in 0..(m + 1) /\ m <= m /\ m + 1 # 0
            /\ m + 1 \in 0..(m + 1)
        OBVIOUS
      <4>2. g[m + 1] = next /\ g[m] = f[m]
        BY <4>1
      <4> QED
        BY <3>3, <4>1, <4>2 DEF next
    <3> QED
      BY <3>1, <3>2, <3>3
  <2>3. g = [i \in 0..(m + 1) |-> body(i)]
    BY <2>2
  <2>4. PrintsUpTo(g, s, str, m + 1)
    BY <2>3 DEF PrintsUpTo
  <2> HIDE DEF g, body
  <2> QED
    BY <2>4
<1>3. T \in SUBSET Nat
  OBVIOUS
<1>4. T = Nat
  <2> HIDE DEF T
  <2> QED
    BY <1>1, <1>2, <1>3, NatInd
<1>5. n \in T
  BY <1>4
<1> QED
  BY <1>5

LEMMA PutsFacts ==
  ASSUME NEW s, NEW str, Len(str) \in Nat
  PROVE  \E f : IsPrinting(f, s, str) /\ puts(s, str) = f[Len(str)]
<1> DEFINE n == Len(str)
           step(f, i) == IF i = 0 THEN s ELSE putc(f[i - 1], str[i])
           code(f, i) ==
             IF i = 0 THEN s
             ELSE CHOOSE after \in {putc(before, str[i]) : before \in {f[i - 1]}} : TRUE
<1>1. \A f, i : code(f, i) = step(f, i)
  <2> TAKE f, i
  <2>1. \A z : (CHOOSE after \in {putc(before, str[i]) : before \in {z}} : TRUE) = putc(z, str[i])
    <3> TAKE z
    <3>1. putc(z, str[i]) \in {putc(before, str[i]) : before \in {z}}
      OBVIOUS
    <3>2. \A a \in {putc(before, str[i]) : before \in {z}} : a = putc(z, str[i])
      OBVIOUS
    <3> QED
      BY <3>1, <3>2
  <2> QED
    BY <2>1
<1> DEFINE printed == CHOOSE f : f = [i \in 0..n |-> code(f, i)]
<1>2. \E f : f = [i \in 0..n |-> code(f, i)]
  <2>1. PICK f : f = [i \in 0..n |-> step(f, i)]
    <3>1. \E f : PrintsUpTo(f, s, str, n)
      BY PrintingExists
    <3> QED
      BY <3>1 DEF PrintsUpTo
  <2>2. [i \in 0..n |-> step(f, i)] = [i \in 0..n |-> code(f, i)]
    <3> HIDE DEF step, code
    <3> QED
      BY <1>1
  <2> HIDE DEF step, code
  <2>3. f = [i \in 0..n |-> code(f, i)]
    BY <2>1, <2>2
  <2> QED
    BY <2>3
<1>3. puts(s, str) = printed[n]
  BY DEF puts
<1>4. printed = [i \in 0..n |-> code(printed, i)]
  <2> HIDE DEF code
  <2> QED
    BY <1>2
<1> HIDE DEF printed, code
<1>5. \A i \in 0..n : printed[i] = step(printed, i)
  BY <1>1, <1>4
<1>6. IsPrinting(printed, s, str)
  <2>1. 0 \in 0..n /\ \A i \in 1..n : i \in 0..n /\ i # 0
    OBVIOUS
  <2> QED
    BY <1>5, <2>1 DEF IsPrinting
<1> QED
  BY <1>3, <1>6

\* Whatever is printed, the cursor stays on the screen.
LEMMA PutsIsOk ==
  ASSUME NEW s, ScreenOk(s), NEW str, Len(str) \in Nat
  PROVE  ScreenOk(puts(s, str))
<1>1. PICK f : IsPrinting(f, s, str) /\ puts(s, str) = f[Len(str)]
  BY PutsFacts
<1> DEFINE n == Len(str)
           T == {m \in Nat : m <= n => ScreenOk(f[m])}
<1>2. 0 \in T
  BY <1>1 DEF IsPrinting
<1>3. \A m \in T : m + 1 \in T
  <2> SUFFICES ASSUME NEW m \in T, m + 1 <= n PROVE ScreenOk(f[m + 1])
    OBVIOUS
  <2>1. m + 1 \in 1..n /\ (m + 1) - 1 = m /\ m <= n
    OBVIOUS
  <2>2. f[m + 1] = putc(f[m], str[m + 1]) /\ ScreenOk(f[m])
    BY <1>1, <2>1 DEF IsPrinting
  <2> QED
    BY <2>2, PutcIsOk
<1>4. T = Nat
  <2>1. T \in SUBSET Nat
    OBVIOUS
  <2> HIDE DEF T
  <2> QED
    BY <1>2, <1>3, <2>1, NatInd
<1>5. n \in T /\ n <= n
  BY <1>4
<1> QED
  BY <1>1, <1>5

LEMMA SetCursorOk ==
  ASSUME NEW s, ScreenOk(s), NEW px \in (-NUM_COLS)..LastCol, NUM_COLS * s.y + px >= 0
  PROVE  /\ ScreenOk(set_cursor(s, px, s.y))
         /\ CursorOf(set_cursor(s, px, s.y)) = NUM_COLS * s.y + px
         /\ set_cursor(s, px, s.y).x = px
         /\ set_cursor(s, px, s.y).video_mem = s.video_mem
         /\ set_cursor(s, px, s.y).y = s.y
BY ScreenFields DEF set_cursor, ScreenOk

\* Backspace, where the line before the cursor ends in the row above at most.
LEMMA EraseFacts ==
  ASSUME NEW s, ScreenOk(s), s.x > -NUM_COLS, CursorOf(s) > 0
  PROVE  /\ ScreenOk(EraseOnScreen(s))
         /\ CursorOf(EraseOnScreen(s)) = CursorOf(s) - 1
         /\ EraseOnScreen(s).y = s.y
         /\ EraseOnScreen(s).video_mem = [s.video_mem EXCEPT ![CursorOf(s) - 1] = Space]
<1> DEFINE b == set_cursor(s, s.x - 1, s.y)
           e == putc(b, Space)
           w == NUM_COLS * s.y
<1>1. /\ s.x \in Int /\ s.x - 1 \in (-NUM_COLS)..LastCol /\ s.x - 1 # LastCol
      /\ w + (s.x - 1) >= 0 /\ w \in Nat /\ CursorOf(s) = w + s.x
  BY CursorFacts, Sizes
<1>2. /\ ScreenOk(b) /\ CursorOf(b) = w + (s.x - 1) /\ b.x = s.x - 1 /\ b.y = s.y
      /\ b.video_mem = s.video_mem
  BY <1>1, SetCursorOk
<1>3. Space # NewLine
  BY DEF Space, NewLine
<1>4. /\ ScreenOk(e) /\ CursorOf(e) = CursorOf(b) + 1 /\ e.x = b.x + 1 /\ e.y = b.y
      /\ e.video_mem = [b.video_mem EXCEPT ![CursorOf(b)] = Space]
  BY <1>1, <1>2, <1>3, PutcShows
<1>5. EraseOnScreen(s) = set_cursor(e, e.x - 1, e.y)
  BY DEF EraseOnScreen
<1> HIDE DEF b, e, w
<1>6. e.x - 1 = s.x - 1 /\ CursorOf(b) = CursorOf(s) - 1 /\ e.y = s.y
  BY <1>1, <1>2, <1>4
<1>7. NUM_COLS * e.y + (e.x - 1) = CursorOf(s) - 1
  BY <1>1, <1>6 DEF w
<1> QED
  BY <1>1, <1>2, <1>4, <1>5, <1>6, <1>7, SetCursorOk DEF w

\* The screen shows the first n cells of line from address start on, but for
\* the last column.
Shows(mem, start, line, n) ==
  \A i \in 0..(n - 1) : (start + i) % NUM_COLS # LastCol => mem[start + i] = line[i]

\* One character more at the end of what is shown, where it fits in its row, ...
LEMMA ShowsOneMore ==
  ASSUME NEW mem, DOMAIN mem = Cells, NEW start \in Nat, NEW n \in Nat, NEW line, NEW c,
         start + n \in Cells, Shows(mem, start, line, n),
         NEW longer, \A i \in 0..(n - 1) : longer[i] = line[i], longer[n] = c
  PROVE  Shows([mem EXCEPT ![start + n] = c], start, longer, n + 1)
<1> SUFFICES ASSUME NEW i \in 0..n, (start + i) % NUM_COLS # LastCol
             PROVE  [mem EXCEPT ![start + n] = c][start + i] = longer[i]
  BY DEF Shows
<1>1. start + i \in Cells
  <2> DEFINE size == NUM_ROWS * NUM_COLS
  <2>1. size \in Nat
    BY Sizes
  <2>2. start + n \in 0..(size - 1)
    BY DEF Cells
  <2> HIDE DEF size
  <2>3. start + i \in 0..(size - 1)
    BY <2>1, <2>2
  <2> QED
    BY <2>3 DEF Cells, size
<1>2. CASE i = n
  BY <1>2
<1>3. CASE i # n
  BY <1>1, <1>3 DEF Shows
<1> QED
  BY <1>2, <1>3

\* ... and where it is lost in the last column.
LEMMA ShowsLost ==
  ASSUME NEW mem, NEW start \in Nat, NEW n \in Nat, NEW line,
         (start + n) % NUM_COLS = LastCol, Shows(mem, start, line, n),
         NEW longer, \A i \in 0..(n - 1) : longer[i] = line[i]
  PROVE  Shows(mem, start, longer, n + 1)
<1> SUFFICES ASSUME NEW i \in 0..n, (start + i) % NUM_COLS # LastCol
             PROVE  mem[start + i] = longer[i]
  BY DEF Shows
<1>1. i \in 0..(n - 1)
  OBVIOUS
<1> QED
  BY <1>1 DEF Shows

\* A printable key moves the cursor to the next cell, up a row if the text moves.
LEMMA KeyMoves ==
  ASSUME NEW s, ScreenOk(s), NEW c, c # NewLine
  PROVE  /\ ScreenOk(putc(s, c))
         /\ CursorOf(putc(s, c)) = CursorOf(s) + 1 - (IF Scrolls(s, c) THEN NUM_COLS ELSE 0)
<1> DEFINE w == NUM_COLS * s.y
<1>1. /\ w \in Nat /\ NUM_COLS \in Nat /\ LastCol = NUM_COLS - 1 /\ s.x \in Int
      /\ CursorOf(s) = w + s.x /\ CursorOf(s) \in Nat
  BY CursorFacts, Sizes
<1>2. CASE Scrolls(s, c)
  <2>1. ScreenOk(putc(s, c)) /\ CursorOf(putc(s, c)) = w
    BY <1>2, ScrollFacts
  <2>2. s.x = LastCol
    BY <1>2 DEF Scrolls
  <2> HIDE DEF w
  <2> QED
    BY <1>1, <1>2, <2>1, <2>2
<1>3. CASE ~Scrolls(s, c)
  <2>1. ScreenOk(putc(s, c)) /\ CursorOf(putc(s, c)) = CursorOf(s) + 1
    BY <1>3, PutcShows, PutcWraps DEF Scrolls
  <2> QED
    BY <1>1, <1>3, <2>1
<1> QED
  BY <1>2, <1>3

\* A printable key behind a line of n characters, which with its Enter is shorter
\* than two rows.
KeyFits(s, start, n, line, c, longer, after) ==
  /\ ScreenOk(s) /\ start \in Nat /\ n \in Nat /\ c # NewLine
  /\ CursorOf(s) = start + n /\ n + 1 <= 2 * NUM_COLS - 2
  /\ Shows(s.video_mem, start, line, n)
  /\ \A i \in 0..(n - 1) : longer[i] = line[i]
  /\ longer[n] = c
  /\ after = start - (IF Scrolls(s, c) THEN NUM_COLS ELSE 0)

LEMMA KeyShows ==
  ASSUME NEW s, NEW start, NEW n, NEW line, NEW c, NEW longer, NEW after,
         KeyFits(s, start, n, line, c, longer, after)
  PROVE  after \in Nat /\ Shows(putc(s, c).video_mem, after, longer, n + 1)
<1> USE DEF KeyFits
<1> DEFINE w == NUM_COLS * s.y
<1>1. /\ w \in Nat /\ NUM_COLS \in Nat /\ NUM_COLS >= 2 /\ s.y \in Nat
      /\ s.x \in Int /\ start + n = w + s.x
      /\ start + n \in Cells
  BY CursorFacts, Sizes
<1>2. CASE s.x # LastCol
  <2>1. after = start
    BY <1>1, <1>2 DEF Scrolls
  <2>2. putc(s, c).video_mem = [s.video_mem EXCEPT ![start + n] = c]
    BY <1>2, PutcShows
  <2>3. DOMAIN s.video_mem = Cells
    BY DEF ScreenOk
  <2> DEFINE m == s.video_mem
  <2> HIDE DEF m
  <2>4. Shows([m EXCEPT ![start + n] = c], start, longer, n + 1)
    BY <1>1, <2>3, ShowsOneMore DEF m
  <2> QED
    BY <2>1, <2>2, <2>4 DEF m
<1>3. CASE s.x = LastCol
  <2>1. start + n = w + (NUM_COLS - 1) /\ LastCol = NUM_COLS - 1 /\ LastCol \in 0..LastCol
    BY <1>1, <1>3, Sizes
  <2>2. (start + n) % NUM_COLS = LastCol
    BY <1>1, <2>1, Columns
  <2>3. Shows(s.video_mem, start, longer, n + 1)
    BY <2>2, ShowsLost
  <2>4. CASE s.y # LastRow
    <3>1. after = start
      BY <1>1, <2>4 DEF Scrolls
    <3>2. putc(s, c).video_mem = s.video_mem
      BY <1>3, <2>4, PutcWraps
    <3> QED
      BY <2>3, <3>1, <3>2
  <2>5. CASE s.y = LastRow
    <3>1. Scrolls(s, c) /\ after = start - NUM_COLS
      BY <1>3, <2>5 DEF Scrolls
    <3> DEFINE p == putc(s, c)
    <3>2. \A a \in Cells : a + NUM_COLS \in Cells =>
            p.video_mem[a] = s.video_mem[a + NUM_COLS]
      BY <3>1, ScrollFacts
    <3>3. w >= 2 * NUM_COLS
      <4> DEFINE size == NUM_ROWS * NUM_COLS
      <4>1. w = size - NUM_COLS /\ size \in Nat /\ size >= 3 * NUM_COLS
        BY <1>1, <2>5, RowStarts
      <4> HIDE DEF w, size
      <4> QED
        BY <1>1, <4>1
    <3> HIDE DEF w, p
    <3>4. after \in Nat /\ after + NUM_COLS = start
      BY <1>1, <2>1, <3>1, <3>3
    <3>5. Shows(p.video_mem, after, longer, n + 1)
      <4> SUFFICES ASSUME NEW i \in 0..n, (after + i) % NUM_COLS # LastCol
                   PROVE  p.video_mem[after + i] = longer[i]
        BY DEF Shows
      <4>1. /\ start + i \in Nat /\ start + i >= NUM_COLS /\ after + i = (start + i) - NUM_COLS
            /\ i \in 0..((n + 1) - 1) /\ (after + i) + NUM_COLS = start + i
        BY <1>1, <3>4
      <4>2. (start + i) % NUM_COLS = (after + i) % NUM_COLS
        BY <4>1, ColumnsAbove
      <4>3. s.video_mem[start + i] = longer[i]
        BY <2>3, <4>1, <4>2 DEF Shows
      <4>4. start + i \in Cells /\ after + i \in Cells
        <5> DEFINE size == NUM_ROWS * NUM_COLS
        <5>1. size \in Nat
          BY Sizes
        <5>2. start + n \in 0..(size - 1)
          BY <1>1 DEF Cells
        <5> HIDE DEF size
        <5>3. start + i \in 0..(size - 1) /\ after + i \in 0..(size - 1)
          BY <1>1, <3>4, <4>1, <5>1, <5>2
        <5> QED
          BY <5>3 DEF Cells, size
      <4> QED
        BY <3>2, <4>1, <4>3, <4>4
    <3> QED
      BY <3>4, <3>5 DEF p
  <2> QED
    BY <2>4, <2>5
<1> QED
  BY <1>2, <1>3

\* The first character of a second row is printed behind the last column of the
\* first.
LEMMA InTwoRows ==
  ASSUME NEW s, ScreenOk(s), NEW m \in Nat, CursorOf(s) = m, s.x >= 0, s.y <= 1,
         m + 1 < 2 * NUM_COLS
  PROVE  s.x = LastCol => s.y = 0 /\ m % NUM_COLS = LastCol
<1> SUFFICES ASSUME s.x = LastCol PROVE s.y = 0 /\ m % NUM_COLS = LastCol
  OBVIOUS
<1>1. s.y \in Nat /\ m = NUM_COLS * s.y + (NUM_COLS - 1) /\ LastCol \in 0..LastCol
      /\ LastCol = NUM_COLS - 1
  BY CursorFacts, Sizes
<1>2. s.y # 1
  <2>1. s.y = 1 => NUM_COLS * s.y = NUM_COLS
    BY Sizes
  <2> QED
    BY <1>1, <2>1, Sizes
<1> QED
  BY <1>1, <1>2, Columns

\* What is on the screen while a line is printed from the top.
OnTop(s, line, m) ==
  /\ ScreenOk(s) /\ CursorOf(s) = m /\ s.x >= 0 /\ s.y <= 1
  /\ Shows(s.video_mem, 0, line, m)

LEMMA OnTopNext ==
  ASSUME NEW s, NEW line, NEW m \in Nat, OnTop(s, line, m), line[m] # NewLine,
         m + 1 < 2 * NUM_COLS
  PROVE  OnTop(putc(s, line[m]), line, m + 1)
<1> DEFINE c == line[m]
           p == putc(s, c)
<1>1. ScreenOk(s) /\ CursorOf(s) = m /\ s.x >= 0 /\ s.y <= 1 /\ c # NewLine
      /\ Shows(s.video_mem, 0, line, m) /\ s.x \in Int
  BY CursorFacts DEF OnTop
<1>2. CASE s.x # LastCol
  <2>1. /\ ScreenOk(p) /\ CursorOf(p) = m + 1 /\ p.x = s.x + 1 /\ p.y = s.y
        /\ p.video_mem = [s.video_mem EXCEPT ![m] = c]
    BY <1>1, <1>2, PutcShows
  <2>2. Shows([s.video_mem EXCEPT ![m] = c], 0, line, m + 1)
    <3> DEFINE mem == s.video_mem
    <3>1. DOMAIN mem = Cells /\ 0 \in Nat /\ 0 + m = m /\ m \in Cells
      BY <1>1, CursorFacts DEF ScreenOk
    <3> HIDE DEF mem
    <3>2. Shows([mem EXCEPT ![0 + m] = c], 0, line, m + 1)
      BY <1>1, <3>1, ShowsOneMore DEF mem
    <3> QED
      BY <3>1, <3>2 DEF mem
  <2> HIDE DEF c, p
  <2>3. p.x >= 0
    BY <1>1, <2>1
  <2> QED
    BY <1>1, <2>1, <2>2, <2>3 DEF OnTop, c, p
<1>3. CASE s.x = LastCol
  <2>1. s.y = 0 /\ m % NUM_COLS = LastCol
    BY <1>1, <1>3, InTwoRows
  <2>2. s.y # LastRow /\ 0 + m = m /\ 0 \in Nat
    BY <2>1, Sizes
  <2>3. /\ ScreenOk(p) /\ CursorOf(p) = m + 1 /\ p.x = 0 /\ p.y = 1
        /\ p.video_mem = s.video_mem
    BY <1>1, <1>3, <2>1, <2>2, PutcWraps
  <2>4. Shows(s.video_mem, 0, line, m + 1)
    BY <1>1, <2>1, <2>2, ShowsLost
  <2> HIDE DEF c, p
  <2> QED
    BY <2>3, <2>4 DEF OnTop, c, p
<1> QED
  BY <1>2, <1>3

\* Ctrl-L, behind any number of characters but NUM_COLS.
LEMMA RedrawFacts ==
  ASSUME NEW s, NEW line, NEW n \in Nat, n <= 2 * NUM_COLS - 2, n # NUM_COLS
  PROVE  /\ ScreenOk(Redraw(s, line, n)) /\ CursorOf(Redraw(s, line, n)) = n
         /\ (\A i \in 0..(n - 1) : line[i] # NewLine) =>
              Shows(Redraw(s, line, n).video_mem, 0, line, n)
<1> DEFINE top == set_cursor(clear(s), 0, 0)
           str == [i \in 1..(n + 1) |-> line[i - 1]]
<1>1. Len(str) = n + 1 /\ n + 1 \in Nat
  <2> DEFINE S == {str[i] : i \in 1..(n + 1)}
  <2>1. n + 1 \in Nat /\ DOMAIN str = 1..(n + 1) /\ str \in [1..(n + 1) -> S]
    OBVIOUS
  <2> HIDE DEF str, S
  <2>2. str \in Seq(S)
    BY <2>1, IsASeq
  <2>3. DOMAIN str = 1..Len(str) /\ Len(str) \in Nat
    BY <2>2, LenProperties
  <2> QED
    BY <2>1, <2>3
<1>2. \A i \in 1..(n + 1) : str[i] = line[i - 1]
  OBVIOUS
<1>3. OnTop(top, line, 0)
  <2>1. top = Screen(Blank, 0, 0)
    BY ScreenFields DEF set_cursor, clear
  <2>2. DOMAIN Blank = Cells
    BY DEF Blank
  <2>3. NUM_COLS * 0 + 0 = 0 /\ 0 \in (-NUM_COLS)..LastCol /\ 0 \in 0..LastRow /\ 0 <= 1
    BY Sizes
  <2>4. Shows(top.video_mem, 0, line, 0)
    BY DEF Shows
  <2> HIDE DEF top
  <2> QED
    BY <2>1, <2>2, <2>3, <2>4, ScreenFields DEF OnTop, ScreenOk
<1> HIDE DEF str, top
<1>4. PICK f : IsPrinting(f, top, str) /\ puts(top, str) = f[n + 1]
  BY <1>1, PutsFacts
<1>5. f[0] = top /\ \A m \in 0..n : f[m + 1] = putc(f[m], line[m])
  <2>1. \A m \in 0..n : m + 1 \in 1..(n + 1) /\ (m + 1) - 1 = m
    OBVIOUS
  <2> QED
    BY <1>1, <1>2, <1>4, <2>1 DEF IsPrinting
<1> DEFINE p == puts(top, str)
<1>6. ScreenOk(p)
  BY <1>1, <1>3, PutsIsOk DEF OnTop
<1>7. p = putc(f[n], line[n])
  BY <1>4, <1>5
<1> HIDE DEF p
<1>8. DOMAIN p.video_mem = Cells
  BY <1>6 DEF ScreenOk
<1>10. ASSUME \A i \in 0..(n - 1) : line[i] # NewLine
       PROVE  Shows(p.video_mem, 0, line, n)
  <2> DEFINE g == f[n]
  <2>1. OnTop(g, line, n)
    <3> DEFINE T == {m \in Nat : m <= n => OnTop(f[m], line, m)}
    <3>1. 0 \in T
      BY <1>3, <1>5
    <3>2. \A m \in T : m + 1 \in T
      <4> SUFFICES ASSUME NEW m \in T, m + 1 <= n PROVE OnTop(f[m + 1], line, m + 1)
        OBVIOUS
      <4>1. m \in 0..n /\ m \in 0..(n - 1) /\ m <= n /\ m + 1 < 2 * NUM_COLS
        BY Sizes
      <4> QED
        BY <1>5, <1>10, <4>1, OnTopNext
    <3>3. T = Nat
      <4>1. T \in SUBSET Nat
        OBVIOUS
      <4> HIDE DEF T
      <4> QED
        BY <3>1, <3>2, <4>1, NatInd
    <3>4. n \in T /\ n <= n
      BY <3>3
    <3> QED
      BY <3>4
  <2> HIDE DEF g
  <2>2. /\ ScreenOk(g) /\ CursorOf(g) = n /\ g.x >= 0 /\ g.y <= 1
        /\ Shows(g.video_mem, 0, line, n) /\ p = putc(g, line[n])
    BY <1>7, <2>1 DEF OnTop, g
  <2>3. g.y # LastRow
    BY <2>2, Sizes, CursorFacts
  <2>4. CASE line[n] = NewLine \/ g.x = LastCol
    BY <2>2, <2>3, <2>4, PutcWraps
  <2>5. CASE line[n] # NewLine /\ g.x # LastCol
    <3> DEFINE m == g.video_mem
    <3>1. p.video_mem = [m EXCEPT ![n] = line[n]]
      BY <2>2, <2>5, PutcShows
    <3>2. DOMAIN m = Cells
      BY <2>2 DEF ScreenOk
    <3> HIDE DEF m
    <3>3. \A i \in 0..(n - 1) : 0 + i = i /\ i # n
      OBVIOUS
    <3> QED
      BY <2>2, <3>1, <3>2, <3>3 DEF Shows, m
  <2> QED
    BY <2>4, <2>5
<1>11. Redraw(s, line, n) = CursorBehind(p, n)
  BY DEF Redraw, top, str, p
<1>12. NUM_COLS * 0 = 0 /\ NUM_COLS * 1 = NUM_COLS /\ NUM_COLS \in Nat
  BY Sizes
<1> DEFINE r == Redraw(s, line, n)
<1>13. CASE n > NUM_COLS
  <2>1. r = Screen(p.video_mem, n - NUM_COLS, 1)
    BY <1>11, <1>13 DEF CursorBehind, set_cursor
  <2>2. n - NUM_COLS \in (-NUM_COLS)..LastCol /\ 1 \in 0..LastRow
        /\ NUM_COLS + (n - NUM_COLS) = n
    BY <1>13, Sizes
  <2> HIDE DEF r
  <2>3. /\ r.video_mem = p.video_mem /\ r.x = n - NUM_COLS /\ r.y = 1
        /\ CursorOf(r) = NUM_COLS * 1 + (n - NUM_COLS)
    BY <2>1, ScreenFields
  <2>4. CursorOf(r) = n
    BY <1>12, <2>2, <2>3
  <2>5. ScreenOk(r)
    BY <1>8, <2>2, <2>3, <2>4 DEF ScreenOk
  <2> QED
    BY <1>10, <2>3, <2>4, <2>5 DEF r
<1>14. CASE ~(n > NUM_COLS)
  <2>1. r = Screen(p.video_mem, n, 0)
    BY <1>11, <1>14 DEF CursorBehind, set_cursor
  <2>2. n \in (-NUM_COLS)..LastCol /\ 0 \in 0..LastRow /\ 0 + n = n
    BY <1>14, Sizes
  <2> HIDE DEF r
  <2>3. /\ r.video_mem = p.video_mem /\ r.x = n /\ r.y = 0
        /\ CursorOf(r) = NUM_COLS * 0 + n
    BY <2>1, ScreenFields
  <2>4. CursorOf(r) = n
    BY <1>12, <2>2, <2>3
  <2>5. ScreenOk(r)
    BY <1>8, <2>2, <2>3, <2>4 DEF ScreenOk
  <2> QED
    BY <1>10, <2>3, <2>4, <2>5 DEF r
<1> QED
  BY <1>13, <1>14

-----------------------------------------------------------------------------
(* Sequences, whatever they are of *)

LEMMA TupleFacts ==
  ASSUME NEW n \in Nat, NEW s, DOMAIN s = 1..n, s = [i \in 1..n |-> s[i]]
  PROVE  IsSequence(s) /\ Len(s) = n
<1> DEFINE S == {s[i] : i \in 1..n}
<1>1. s \in [1..n -> S]
  OBVIOUS
<1> HIDE DEF S
<1>2. s \in Seq(S)
  BY <1>1, IsASeq
<1>3. IsSequence(s)
  BY <1>2, AnySequence
<1>4. Len(s) \in Nat /\ DOMAIN s = 1..Len(s)
  BY <1>2, LenProperties
<1> QED
  BY <1>3, <1>4

LEMMA Wider ==
  ASSUME NEW s, IsSequence(s), NEW S, \A i \in 1..Len(s) : s[i] \in S
  PROVE  s \in Seq(S)
<1>1. Len(s) \in Nat /\ DOMAIN s = 1..Len(s)
  BY SequenceFacts
<1>2. s \in [1..Len(s) -> S]
  BY <1>1, LenProperties DEF IsSequence
<1> QED
  BY <1>1, <1>2, IsASeq

LEMMA EmptyIsSequence == IsSequence(<<>>) /\ Len(<<>>) = 0
<1>1. <<>> \in Seq({}) /\ Len(<<>>) = 0
  OBVIOUS
<1>2. IsSequence(<<>>)
  BY <1>1, AnySequence, Zenon
<1> QED
  BY <1>1, <1>2

LEMMA SingleIsSequence ==
  ASSUME NEW c
  PROVE  IsSequence(<<c>>) /\ Len(<<c>>) = 1 /\ <<c>>[1] = c
<1>1. <<c>> \in Seq({c}) /\ Len(<<c>>) = 1 /\ <<c>>[1] = c
  OBVIOUS
<1>2. IsSequence(<<c>>)
  BY <1>1, AnySequence, Zenon
<1> QED
  BY <1>1, <1>2

LEMMA ConcatFacts ==
  ASSUME NEW a, IsSequence(a), NEW b, IsSequence(b)
  PROVE  /\ IsSequence(a \o b) /\ Len(a \o b) = Len(a) + Len(b)
         /\ \A i \in 1..Len(a) : (a \o b)[i] = a[i]
         /\ \A i \in 1..Len(b) : (a \o b)[Len(a) + i] = b[i]
<1> DEFINE S == {a[i] : i \in 1..Len(a)} \cup {b[i] : i \in 1..Len(b)}
<1>1. Len(a) \in Nat /\ Len(b) \in Nat
  BY SequenceFacts
<1>2. a \in Seq(S) /\ b \in Seq(S)
  <2>1. (\A i \in 1..Len(a) : a[i] \in S) /\ (\A i \in 1..Len(b) : b[i] \in S)
    OBVIOUS
  <2> HIDE DEF S
  <2> QED
    BY <2>1, Wider
<1> HIDE DEF S
<1>3. /\ a \o b \in Seq(S) /\ Len(a \o b) = Len(a) + Len(b)
      /\ \A i \in 1..(Len(a) + Len(b)) : (a \o b)[i] = IF i <= Len(a) THEN a[i]
                                                      ELSE b[i - Len(a)]
  BY <1>2, ConcatProperties
<1>4. IsSequence(a \o b)
  BY <1>3, AnySequence
<1>5. \A i \in 1..Len(b) : /\ Len(a) + i \in 1..(Len(a) + Len(b)) /\ ~(Len(a) + i <= Len(a))
                           /\ (Len(a) + i) - Len(a) = i
  BY <1>1
<1>6. \A i \in 1..Len(a) : i \in 1..(Len(a) + Len(b)) /\ i <= Len(a)
  BY <1>1
<1> QED
  BY <1>3, <1>4, <1>5, <1>6

LEMMA AppendFacts ==
  ASSUME NEW a, IsSequence(a), NEW c
  PROVE  /\ IsSequence(Append(a, c)) /\ Len(Append(a, c)) = Len(a) + 1
         /\ \A i \in 1..Len(a) : Append(a, c)[i] = a[i]
         /\ Append(a, c)[Len(a) + 1] = c
<1> DEFINE S == {a[i] : i \in 1..Len(a)} \cup {c}
<1>1. a \in Seq(S) /\ c \in S
  <2>1. \A i \in 1..Len(a) : a[i] \in S
    OBVIOUS
  <2>2. c \in S
    OBVIOUS
  <2> HIDE DEF S
  <2> QED
    BY <2>1, <2>2, Wider
<1> HIDE DEF S
<1>2. /\ Append(a, c) \in Seq(S) /\ Len(Append(a, c)) = Len(a) + 1
      /\ \A i \in 1..Len(a) : Append(a, c)[i] = a[i]
      /\ Append(a, c)[Len(a) + 1] = c
  BY <1>1, AppendProperties
<1> QED
  BY <1>2, AnySequence

LEMMA SameSequence ==
  ASSUME NEW a, IsSequence(a), NEW b, IsSequence(b), Len(a) = Len(b),
         \A i \in 1..Len(a) : a[i] = b[i]
  PROVE  a = b
<1> DEFINE S == {a[i] : i \in 1..Len(a)}
<1>1. a \in Seq(S) /\ b \in Seq(S)
  <2>1. (\A i \in 1..Len(a) : a[i] \in S) /\ (\A i \in 1..Len(b) : b[i] \in S)
    OBVIOUS
  <2> HIDE DEF S
  <2> QED
    BY <2>1, Wider
<1> HIDE DEF S
<1> QED
  BY <1>1, SeqEqual

LEMMA AppendedOne ==
  ASSUME NEW a, IsSequence(a), NEW c
  PROVE  Append(a, c) = a \o <<c>>
<1>1. /\ IsSequence(Append(a, c)) /\ Len(Append(a, c)) = Len(a) + 1
      /\ \A i \in 1..Len(a) : Append(a, c)[i] = a[i]
      /\ Append(a, c)[Len(a) + 1] = c
  BY AppendFacts
<1>2. /\ IsSequence(a \o <<c>>) /\ Len(a \o <<c>>) = Len(a) + 1
      /\ \A i \in 1..Len(a) : (a \o <<c>>)[i] = a[i]
      /\ (a \o <<c>>)[Len(a) + 1] = c
  <2>1. IsSequence(<<c>>) /\ Len(<<c>>) = 1 /\ <<c>>[1] = c /\ 1 \in 1..1
    BY SingleIsSequence
  <2> QED
    BY <2>1, ConcatFacts
<1>3. Len(a) \in Nat /\ \A i \in 1..(Len(a) + 1) : i \in 1..Len(a) \/ i = Len(a) + 1
  BY SequenceFacts
<1> QED
  BY <1>1, <1>2, <1>3, SameSequence

LEMMA FirstOf ==
  ASSUME NEW s, IsSequence(s), NEW n \in 0..Len(s)
  PROVE  /\ IsSequence(SubSeq(s, 1, n)) /\ Len(SubSeq(s, 1, n)) = n
         /\ \A i \in 1..n : SubSeq(s, 1, n)[i] = s[i]
<1> DEFINE S == {s[i] : i \in 1..Len(s)}
<1>1. n \in Int /\ 1 \in Int /\ \A i \in 1..n : s[i] \in S
  BY SequenceFacts
<1> HIDE DEF S
<1>2. /\ SubSeq(s, 1, n) \in Seq(S)
      /\ Len(SubSeq(s, 1, n)) = IF 1 <= n THEN n - 1 + 1 ELSE 0
      /\ \A i \in 1..(n - 1 + 1) : SubSeq(s, 1, n)[i] = s[1 + i - 1]
  BY <1>1, SubSeqProperties
<1>3. /\ (IF 1 <= n THEN n - 1 + 1 ELSE 0) = n /\ n - 1 + 1 = n
      /\ \A i \in 1..n : 1 + i - 1 = i
  BY SequenceFacts
<1> QED
  BY <1>2, <1>3, AnySequence

LEMMA EmptyIffNoLength ==
  ASSUME NEW s, IsSequence(s)
  PROVE  s = <<>> <=> Len(s) = 0
BY EmptySeq DEF IsSequence

-----------------------------------------------------------------------------
(* terminal_write *)

LEMMA NoNulIsKept ==
  ASSUME NEW s, \A i \in 1..Len(s) : s[i] # Nul
  PROVE  UpToNul(s) = s
<1>1. {i \in 1..Len(s) : s[i] = Nul} = {}
  OBVIOUS
<1> QED
  BY <1>1 DEF UpToNul

LEMMA CutAtNul ==
  ASSUME NEW s, IsSequence(s), NEW k \in 1..Len(s), s[k] = Nul
  PROVE  \E m \in 1..k : /\ s[m] = Nul /\ (\A i \in 1..(m - 1) : s[i] # Nul)
                         /\ UpToNul(s) = SubSeq(s, 1, m - 1)
<1> DEFINE nuls == {i \in 1..Len(s) : s[i] = Nul}
<1>1. nuls \in SUBSET Nat /\ k \in nuls /\ Len(s) \in Nat
  BY SequenceFacts
<1>2. \E m \in nuls : \A j \in nuls : m <= j
  <2> HIDE DEF nuls
  <2>1. nuls # {}
    BY <1>1
  <2> QED
    BY <1>1, <2>1, NatMin, Zenon
<1> DEFINE m == CHOOSE i \in nuls : \A j \in nuls : i <= j
<1>3. m \in nuls /\ \A j \in nuls : m <= j
  <2> HIDE DEF nuls
  <2> QED
    BY <1>2
<1>4. UpToNul(s) = SubSeq(s, 1, m - 1)
  BY <1>1 DEF UpToNul
<1> HIDE DEF m
<1>5. m \in 1..k /\ s[m] = Nul /\ \A i \in 1..(m - 1) : s[i] # Nul
  <2>1. m \in 1..Len(s) /\ s[m] = Nul /\ m <= k
    BY <1>1, <1>3
  <2>2. ASSUME NEW i \in 1..(m - 1), s[i] = Nul PROVE FALSE
    <3>1. i \in nuls /\ ~(m <= i)
      BY <1>1, <2>1, <2>2
    <3> QED
      BY <1>3, <3>1
  <2> QED
    BY <1>1, <2>1, <2>2
<1> QED
  BY <1>4, <1>5

LEMMA TempBufferFacts ==
  ASSUME NEW buf
  PROVE  /\ IsSequence(TempBuffer(buf)) /\ Len(TempBuffer(buf)) = NUM_COLS
         /\ \A i \in 1..NUM_COLS :
              TempBuffer(buf)[i] = IF i <= Len(buf) THEN buf[i]
                                   ELSE IF i = NUM_COLS THEN NewLine ELSE Nul
<1> DEFINE t == TempBuffer(buf)
<1>1. /\ DOMAIN t = 1..NUM_COLS /\ t = [i \in 1..NUM_COLS |-> t[i]]
      /\ \A i \in 1..NUM_COLS :
           t[i] = IF i <= Len(buf) THEN buf[i]
                  ELSE IF i = NUM_COLS THEN NewLine ELSE Nul
  BY DEF TempBuffer
<1> HIDE DEF t
<1>2. IsSequence(t) /\ Len(t) = NUM_COLS
  BY <1>1, TupleFacts, Sizes
<1> QED
  BY <1>1, <1>2 DEF t

LEMMA CutIsSequence ==
  ASSUME NEW s, IsSequence(s)
  PROVE  IsSequence(UpToNul(s))
<1>1. CASE \A i \in 1..Len(s) : s[i] # Nul
  BY <1>1, NoNulIsKept
<1>2. CASE \E i \in 1..Len(s) : s[i] = Nul
  <2>1. PICK k \in 1..Len(s) : s[k] = Nul
    BY <1>2
  <2>2. PICK m \in 1..k : UpToNul(s) = SubSeq(s, 1, m - 1)
    BY <2>1, CutAtNul
  <2>3. m - 1 \in 0..Len(s)
    BY SequenceFacts
  <2> QED
    BY <2>2, <2>3, FirstOf
<1> QED
  BY <1>1, <1>2

\* What is written has a length, ...
LEMMA WrittenIsSequence ==
  ASSUME NEW buf, IsSequence(buf)
  PROVE  IsSequence(Written(buf)) /\ Len(Written(buf)) \in Nat
<1>1. IsSequence(Written(buf))
  <2>1. IsSequence(UpToNul(TempBuffer(buf))) /\ IsSequence(UpToNul(buf))
    BY CutIsSequence, TempBufferFacts
  <2> QED
    BY <2>1, EmptyIsSequence DEF Written
<1> QED
  BY <1>1, SequenceFacts

\* ... and is all that was to be, unless it holds a 0 or is one short of a row.
LEMMA WrittenFacts ==
  ASSUME NEW buf, IsSequence(buf), buf # <<>>, \A i \in 1..Len(buf) : buf[i] # Nul
  PROVE  Written(buf) = IF Len(buf) = NUM_COLS - 1 THEN buf \o <<NewLine>> ELSE buf
<1> DEFINE n == Len(buf)
           t == TempBuffer(buf)
<1>1. n \in Nat /\ n # 0
  BY SequenceFacts, EmptyIffNoLength
<1>2. /\ IsSequence(t) /\ Len(t) = NUM_COLS
      /\ \A i \in 1..NUM_COLS : t[i] = IF i <= n THEN buf[i]
                                       ELSE IF i = NUM_COLS THEN NewLine ELSE Nul
  BY TempBufferFacts
<1>3. NewLine # Nul /\ NUM_COLS \in Nat /\ NUM_COLS >= 2
  BY Sizes DEF NewLine, Nul
<1>4. UpToNul(buf) = buf
  BY NoNulIsKept
<1>5. Written(buf) = IF n <= NUM_COLS THEN UpToNul(t) ELSE buf
  BY <1>4 DEF Written
<1> HIDE DEF n, t
<1>6. CASE n > NUM_COLS
  BY <1>1, <1>3, <1>5, <1>6 DEF n
<1>7. CASE n = NUM_COLS
  <2>1. t = buf
    <3>1. \A i \in 1..NUM_COLS : i <= n
      BY <1>7
    <3> QED
      BY <1>2, <1>7, <3>1, SameSequence DEF n
  <2> QED
    BY <1>3, <1>4, <1>5, <1>7, <2>1 DEF n
<1>8. CASE n = NUM_COLS - 1
  <2> DEFINE u == buf \o <<NewLine>>
  <2>1. /\ IsSequence(u) /\ Len(u) = n + 1 /\ (\A i \in 1..n : u[i] = buf[i])
        /\ u[n + 1] = NewLine
    <3>1. IsSequence(<<NewLine>>) /\ Len(<<NewLine>>) = 1 /\ <<NewLine>>[1] = NewLine
          /\ 1 \in 1..1
      BY SingleIsSequence
    <3> QED
      BY <3>1, ConcatFacts DEF n
  <2> HIDE DEF u
  <2>2. \A i \in 1..NUM_COLS : (i \in 1..n /\ i <= n) \/ (i = n + 1 /\ i = NUM_COLS /\ ~(i <= n))
    BY <1>1, <1>3, <1>8
  <2>3. n + 1 = NUM_COLS
    BY <1>1, <1>3, <1>8
  <2>4. \A i \in 1..NUM_COLS : t[i] = u[i]
    BY <1>2, <2>1, <2>2
  <2>5. t = u
    BY <1>2, <2>1, <2>3, <2>4, SameSequence
  <2>6. \A i \in 1..NUM_COLS : t[i] # Nul
    BY <1>2, <1>3, <2>2 DEF n
  <2>7. UpToNul(t) = t
    BY <1>2, <2>6, NoNulIsKept
  <2>8. n <= NUM_COLS
    BY <1>1, <1>3, <1>8
  <2> QED
    BY <1>5, <1>8, <2>5, <2>7, <2>8 DEF n, u
<1>9. CASE n < NUM_COLS - 1
  <2>1. n + 1 \in 1..NUM_COLS /\ ~(n + 1 <= n) /\ n + 1 # NUM_COLS /\ n <= NUM_COLS
        /\ n # NUM_COLS - 1 /\ n \in 0..NUM_COLS
    BY <1>1, <1>3, <1>9
  <2>2. t[n + 1] = Nul
    BY <1>2, <2>1
  <2>3. PICK m \in 1..(n + 1) : /\ t[m] = Nul
                                /\ UpToNul(t) = SubSeq(t, 1, m - 1)
    <3> DEFINE k == n + 1
    <3>1. k \in 1..Len(t) /\ t[k] = Nul
      BY <1>2, <2>1, <2>2
    <3> HIDE DEF k
    <3>2. \E m \in 1..k : t[m] = Nul /\ UpToNul(t) = SubSeq(t, 1, m - 1)
      BY <1>2, <3>1, CutAtNul
    <3> QED
      BY <3>2 DEF k
  <2>4. m = n + 1
    <3> SUFFICES ASSUME m # n + 1 PROVE FALSE
      OBVIOUS
    <3>1. m \in 1..n /\ m \in 1..NUM_COLS /\ m <= n
      BY <1>1, <1>3, <2>1
    <3>2. t[m] = buf[m]
      BY <1>2, <3>1
    <3> QED
      BY <2>3, <3>1, <3>2 DEF n
  <2>5. m - 1 = n
    BY <1>1, <2>4
  <2>6. UpToNul(t) = SubSeq(t, 1, n)
    BY <2>3, <2>5
  <2>7. /\ IsSequence(SubSeq(t, 1, n)) /\ Len(SubSeq(t, 1, n)) = n
        /\ \A i \in 1..n : SubSeq(t, 1, n)[i] = t[i]
    BY <1>2, <2>1, FirstOf
  <2>8. \A i \in 1..n : i \in 1..NUM_COLS /\ i <= n
    BY <1>1, <1>3, <1>9
  <2>9. SubSeq(t, 1, n) = buf
    BY <1>2, <2>7, <2>8, SameSequence DEF n
  <2> QED
    BY <1>5, <2>1, <2>6, <2>9 DEF n
<1> QED
  BY <1>1, <1>3, <1>6, <1>7, <1>8, <1>9

-----------------------------------------------------------------------------
(* The line being typed *)

BufferOk(b) == DOMAIN b = 0..MaxTyped

TerminalOk(t) == /\ {"active", "screen", "keyboard_buffer"} \subseteq DOMAIN t
                 /\ ScreenOk(t.screen) /\ BufferOk(t.keyboard_buffer)

\* A terminal in the background has the cursor where its user left it.
LeftWell(t) == terminals[t].active /\ t # curr_terminal_id =>
                 left_at[t] = CursorOf(terminals[t].screen)

ScreensInv ==
  /\ ScreenOk(screen) /\ BufferOk(keyboard_buffer)
  /\ DOMAIN terminals = Terminals /\ DOMAIN left_at = Terminals
  /\ \A t \in Terminals : TerminalOk(terminals[t]) /\ LeftWell(t)

\* The program on top is in its loop of terminal_read.
AtRead(frames, f) ==
  \/ f.pc = "wait"
  \/ /\ f.kind \in Handlers
     /\ \E i \in DOMAIN frames :
          /\ frames[i].pc = "wait"
          /\ \A j \in DOMAIN frames : j > i => frames[j].kind \in Handlers

\* A key that edits the line came at a prompt, and is handled there.
KeyInv ==
  /\ key_code.name = "alt_f" => key_code.terminal \in Terminals
  /\ key_code.name \notin {"none", "alt_f"} =>
       /\ enter_pressed_flag = 0 /\ Typable(key_code)
       /\ \/ running.pc = "wait" /\ running.kind \notin Handlers
          \/ /\ running.kind \in Handlers /\ running.pc = "body"
             /\ Top(suspended).pc = "wait"

LineInv ==
  /\ enter_pressed_flag \in {0, 1} /\ num_chars_typed \in Nat /\ line_start \in Int
  /\ enter_pressed_flag = 1 => line_base = num_chars_typed /\ CursorOf(screen) = line_start
  /\ enter_pressed_flag = 0 =>
       /\ line_base = 0 /\ CursorOf(screen) = line_start + num_chars_typed
       /\ num_chars_typed <= MaxTyped
       /\ ~tabbed =>
            /\ line_start \in Nat
            /\ \A i \in 0..(num_chars_typed - 1) : keyboard_buffer[i] # NewLine
            /\ Shows(screen.video_mem, line_start, keyboard_buffer, num_chars_typed)

\* Nobody prints over the characters of a line.
AloneInv ==
  enter_pressed_flag = 0 /\ num_chars_typed > 0 => AtRead(suspended, running)

\* The first n bytes of a file, what a write of its last read adds, and what ls
\* puts behind a name.
Prefix(inode, n) == [k \in 1..n |-> ByteAt(inode, k - 1)]
Extra(n)   == IF n % BUFSIZE = NUM_COLS - 1 THEN <<NewLine>> ELSE <<>>
LineEnd(f) == IF f.kind = "ls" THEN <<NewLine>> ELSE <<>>

\* cat's reads are of BUFSIZE bytes but for the last, and what it has printed is
\* the file up to the read that it is about to print.
FileInv(f) ==
  LET inode == f.d.inode_idx
      p     == f.d.file_position
      end   == inodes[inode].length
  IN /\ f.kind = "cat" /\ inode \in DOMAIN inodes /\ p \in 0..end
     /\ f.pc = "get" => p % BUFSIZE = 0 \/ p = end
     /\ f.pc = "put" =>
          \E q \in 0..(p - 1) :
            /\ q % BUFSIZE = 0 /\ (p - q = BUFSIZE \/ (p = end /\ p - q < BUFSIZE))
            /\ f.buf = [k \in 1..(p - q) |-> ByteAt(inode, q + k - 1)]
            /\ IsText(Content(inode)) => f.printed = Prefix(inode, q)
     /\ f.pc \in {"get", "exit"} /\ IsText(Content(inode)) =>
          f.printed = Prefix(inode, p) \o Extra(p)
     /\ f.pc = "exit" => p = end

\* A name is printed after each read of the directory but the last.
DirectoryInv(f) ==
  LET p == f.d.file_position IN
  /\ p \in Nat
  /\ f.pc = "get" => p <= dir_count /\ f.printed = NamesUpTo(LineEnd(f), p)
  /\ f.pc = "put" => /\ p \in 1..dir_count /\ f.printed = NamesUpTo(LineEnd(f), p - 1)
                     /\ f.buf = NamePart(direntries[p].file_name) \o LineEnd(f)
  /\ f.pc = "exit" => f.printed = NamesUpTo(LineEnd(f), dir_count)

Reading(f) ==
  \/ f.d.fop = "files" /\ f.pc \in {"get", "put", "exit"} /\ FileInv(f)
  \/ f.d.fop = "directories" /\ f.pc \in {"get", "put", "exit"} /\ DirectoryInv(f)
  \/ /\ f.d.fop = "rtc" /\ f.kind = "cat" /\ f.printed = <<>>
     /\ f.pc \in {"get", "tick", "rtc_wait", "exit"}

IsDescriptor(d) == {"fop", "inode_idx", "file_position"} \subseteq DOMAIN d

ReaderInv(f) ==
  /\ f.pc = "start" => f.d = NoFd /\ f.count = 0
  /\ f.d = NoFd => f.pc \in {"start", "exit"} /\ f.printed = <<>>
  /\ f.d # NoFd => f.count = 0 /\ IsDescriptor(f.d) /\ Reading(f)

\* What a program prints is a sequence.
GoodFrame(f) == IsSequence(f.buf) /\ (f.kind \in {"cat", "ls"} => ReaderInv(f))

GoodFrames(frames) == \A i \in 1..Len(frames) : GoodFrame(frames[i])

BufsInv == GoodFrame(running) /\ GoodFrames(suspended)

EchoInv == IInv /\ ScreensInv /\ KeyInv /\ LineInv /\ AloneInv /\ BufsInv

\* A line starts wherever the cursor is.
LEMMA LineStarts ==
  ASSUME NEW s, ScreenOk(s)
  PROVE  CursorOf(s) \in Nat /\ CursorOf(s) \in Int
BY CursorFacts

LEMMA NothingShown ==
  ASSUME NEW mem, NEW start, NEW line
  PROVE  Shows(mem, start, line, 0)
BY DEF Shows

LEMMA EmptyLine ==
  ASSUME NEW start \in Nat
  PROVE  MaxTyped >= 0 /\ 0..(0 - 1) = {} /\ start + 0 = start
<1>1. MaxTyped \in 1..(2 * NUM_COLS - 2) /\ NUM_COLS \in Nat
  BY MaxTypedAssumption, Sizes
<1> QED
  BY <1>1

LEMMA EchoFollows ==
  ASSUME LineInv
  PROVE  EchoShowsTheLine
<1>1. num_chars_typed \in Nat /\ line_start \in Int /\ enter_pressed_flag \in {0, 1}
  BY DEF LineInv
<1>2. CASE enter_pressed_flag = 1
  <2>1. line_base = num_chars_typed /\ CursorOf(screen) = line_start
    BY <1>2 DEF LineInv
  <2>2. \A i \in line_base..(num_chars_typed - 1) : FALSE
    BY <1>1, <2>1
  <2>3. line_start + num_chars_typed - line_base = line_start
    BY <1>1, <2>1
  <2> QED
    BY <2>1, <2>2, <2>3 DEF EchoShowsTheLine
<1>3. CASE enter_pressed_flag = 0
  <2>1. line_base = 0 /\ CursorOf(screen) = line_start + num_chars_typed
        /\ (~tabbed => Shows(screen.video_mem, line_start, keyboard_buffer, num_chars_typed))
    BY <1>3 DEF LineInv
  <2>2. \A i \in 0..(num_chars_typed - 1) : line_start + i - 0 = line_start + i
    BY <1>1
  <2>3. line_start + num_chars_typed - 0 = line_start + num_chars_typed
    BY <1>1
  <2> QED
    BY <2>1, <2>2, <2>3 DEF EchoShowsTheLine, Shows
<1> QED
  BY <1>1, <1>2, <1>3

-----------------------------------------------------------------------------
(* What a program prints *)

\* A program that is not in terminal_read has no line in front of it.
LEMMA NoLine ==
  ASSUME EchoInv, running.kind \notin Handlers, running.pc # "wait" \/ enter_pressed_flag = 1
  PROVE  /\ key_code.name \in {"none", "alt_f"}
         /\ enter_pressed_flag = 0 => num_chars_typed = 0 /\ line_base = 0
BY DEF EchoInv, KeyInv, LineInv, AloneInv, AtRead

LEMMA PrintsKeepsLine ==
  ASSUME EchoInv, running.kind \notin Handlers, running.pc # "wait",
         NEW text, IsSequence(text), Prints(text),
         UNCHANGED <<session, keyVars, key_code, termVars>>
  PROVE  /\ ScreensInv' /\ LineInv' /\ KeyInv' /\ AloneInv'
<1>1. ScreenOk(screen')
  <2>1. Len(Written(text)) \in Nat
    BY WrittenIsSequence
  <2> QED
    BY <2>1, PutsIsOk DEF Prints, terminal_write, EchoInv, ScreensInv
<1>2. /\ key_code.name \in {"none", "alt_f"}
      /\ enter_pressed_flag = 0 => num_chars_typed = 0
      /\ num_chars_typed \in Nat /\ enter_pressed_flag \in {0, 1}
  BY NoLine DEF EchoInv, LineInv
<1>3. /\ line_start' = CursorOf(screen') /\ line_base' = num_chars_typed
      /\ UNCHANGED <<keyboard_buffer, num_chars_typed, enter_pressed_flag, key_code,
                     curr_terminal_id, terminals, tabbed, left_at>>
  BY DEF Prints, keyVars, termVars
<1>4. line_start' \in Nat /\ line_start' \in Int
  BY <1>1, <1>3, LineStarts
<1>5. ScreensInv'
  BY <1>1, <1>3 DEF EchoInv, ScreensInv, LeftWell
<1>6. KeyInv'
  BY <1>2, <1>3 DEF EchoInv, KeyInv
<1>7. AloneInv'
  BY <1>2, <1>3 DEF AloneInv
<1>8. LineInv'
  <2>1. CASE enter_pressed_flag = 1
    BY <1>2, <1>3, <1>4, <2>1 DEF LineInv
  <2>2. CASE enter_pressed_flag = 0
    <3>1. MaxTyped >= 0 /\ 0..(0 - 1) = {} /\ line_start' + 0 = line_start'
      BY <1>4, EmptyLine
    <3>2. Shows(screen'.video_mem, line_start', keyboard_buffer', 0)
      BY NothingShown
    <3> QED
      BY <1>2, <1>3, <1>4, <2>2, <3>1, <3>2 DEF LineInv
  <2> QED
    BY <1>2, <2>1, <2>2
<1> QED
  BY <1>5, <1>6, <1>7, <1>8

\* A step of a program that prints nothing and types nothing.
LEMMA QuietKeepsLine ==
  ASSUME EchoInv, running.kind \notin Handlers, running.pc # "wait",
         UNCHANGED <<session, screen, keyVars, key_code, termVars, lineVars>>
  PROVE  /\ ScreensInv' /\ LineInv' /\ KeyInv' /\ AloneInv'
<1>1. /\ key_code.name \in {"none", "alt_f"}
      /\ enter_pressed_flag = 0 => num_chars_typed = 0
      /\ UNCHANGED <<screen, keyboard_buffer, num_chars_typed, enter_pressed_flag, key_code,
                     curr_terminal_id, terminals, line_start, line_base, tabbed, left_at>>
  BY NoLine DEF keyVars, termVars, lineVars
<1>2. ScreensInv' /\ LineInv'
  BY <1>1 DEF EchoInv, ScreensInv, LeftWell, LineInv
<1>3. KeyInv' /\ AloneInv'
  BY <1>1 DEF EchoInv, KeyInv, AloneInv
<1> QED
  BY <1>2, <1>3

LEMMA LineIsReadKeepsLine ==
  ASSUME EchoInv, LineIsRead
  PROVE  ScreensInv' /\ LineInv' /\ KeyInv' /\ AloneInv' /\ GoodFrame(running')
<1>1. running.kind \notin Handlers /\ enter_pressed_flag = 1 /\ running.pc = "wait"
      /\ IsFrame(running)
  BY NotInHandler DEF LineIsRead, EchoInv, IsProgram
<1>2. key_code.name \in {"none", "alt_f"}
  BY <1>1, NoLine
<1>3. /\ keyboard_buffer' = [i \in DOMAIN keyboard_buffer |-> Nul]
      /\ num_chars_typed' = 0 /\ enter_pressed_flag' = 0
      /\ line_start' = CursorOf(screen) /\ line_base' = 0
      /\ UNCHANGED <<screen, key_code, curr_terminal_id, terminals, left_at>>
      /\ running' = [running EXCEPT !.pc = "line",
                       !.buf = [i \in 1..num_chars_typed |-> keyboard_buffer[i - 1]]]
  BY DEF LineIsRead, termVars
<1>4. ScreenOk(screen) /\ num_chars_typed \in Nat
  BY DEF EchoInv, ScreensInv, LeftWell, LineInv
<1>5. line_start' \in Nat /\ line_start' \in Int
  BY <1>3, <1>4, LineStarts
<1>6. ScreensInv'
  BY <1>3 DEF EchoInv, ScreensInv, LeftWell, BufferOk
<1>7. KeyInv' /\ AloneInv'
  BY <1>2, <1>3 DEF EchoInv, KeyInv, AloneInv
<1>8. LineInv'
  <2>1. MaxTyped >= 0 /\ 0..(0 - 1) = {} /\ line_start' + 0 = line_start'
    BY <1>5, EmptyLine
  <2>2. Shows(screen'.video_mem, line_start', keyboard_buffer', 0)
    BY NothingShown
  <2> QED
    BY <1>3, <1>5, <2>1, <2>2 DEF LineInv
<1>9. GoodFrame(running')
  <2> DEFINE read == [i \in 1..num_chars_typed |-> keyboard_buffer[i - 1]]
  <2>1. IsSequence(read)
    <3>1. DOMAIN read = 1..num_chars_typed /\ read = [i \in 1..num_chars_typed |-> read[i]]
      OBVIOUS
    <3> HIDE DEF read
    <3> QED
      BY <1>4, <3>1, TupleFacts
  <2>2. running'.buf = read /\ running'.kind = running.kind
    BY <1>1, <1>3 DEF IsFrame
  <2>3. running.kind \notin {"cat", "ls"}
    <3>1. running.kind \in {"cat", "ls"} => ReaderInv(running)
      BY DEF EchoInv, BufsInv, GoodFrame
    <3> QED
      BY <1>1, <3>1 DEF ReaderInv, Reading
  <2> QED
    BY <2>1, <2>2, <2>3 DEF GoodFrame
<1> QED
  BY <1>6, <1>7, <1>8, <1>9

-----------------------------------------------------------------------------
(* Keys *)

LEMMA KeyIsThere ==
  ASSUME EchoInv, NEW name \in {"printable", "tab", "backspace", "enter", "ctrl_l"}, Handles(name)
  PROVE  /\ enter_pressed_flag = 0 /\ Typable(key_code) /\ key_code.name = name
         /\ running.kind = "keyboard" /\ Len(suspended) > 0 /\ Top(suspended).pc = "wait"
<1>1. running.kind = "keyboard" /\ running.pc = "body" /\ key_code.name = name
  BY DEF Handles, At
<1> QED
  BY <1>1 DEF EchoInv, KeyInv, Handlers, IInv, RunningInv

\* A handler goes on to its EOI, above the program that reads.
LEMMA ToEoiFacts ==
  ASSUME EchoInv, running.kind = "keyboard", ToEoi
  PROVE  /\ BufsInv' /\ UNCHANGED session
         /\ Len(suspended) > 0 /\ Top(suspended).pc = "wait" => AtRead(suspended', running')
         /\ AtRead(suspended, running) => AtRead(suspended', running')
<1>1. /\ running' = [running EXCEPT !.pc = "eoi"] /\ UNCHANGED <<session, suspended>>
      /\ IsFrame(running) /\ IsSequence(suspended)
      /\ running.pc \in {"body", "eoi"}
  BY DEF ToEoi, EchoInv, IInv, RunningInv, FramesInv
<1>2. running'.kind = "keyboard" /\ running'.buf = running.buf
  BY <1>1 DEF IsFrame
<1>3. BufsInv'
  <2>1. IsSequence(running'.buf) /\ GoodFrames(suspended)
    BY <1>2 DEF EchoInv, BufsInv, GoodFrame
  <2> QED
    BY <1>1, <1>2, <2>1 DEF BufsInv, GoodFrame
<1>4. ASSUME Len(suspended) > 0, Top(suspended).pc = "wait" PROVE AtRead(suspended', running')
  <2> DEFINE i == Len(suspended)
  <2>1. i \in DOMAIN suspended /\ (\A j \in DOMAIN suspended : ~(j > i))
    BY <1>1, <1>4, SequenceFacts
  <2>2. suspended[i].pc = "wait"
    BY <1>4 DEF Top
  <2> HIDE DEF i
  <2> QED
    BY <1>1, <1>2, <2>1, <2>2 DEF AtRead, Handlers
<1>5. AtRead(suspended, running) => AtRead(suspended', running')
  BY <1>1, <1>2 DEF AtRead, Handlers
<1> QED
  BY <1>1, <1>3, <1>4, <1>5

LEMMA KeyIsGone ==
  ASSUME NEW name, Handles(name)
  PROVE  KeyInv'
BY DEF Handles, KeyInv, NoKey, Key

\* There is room in the buffer behind the line.
LEMMA RoomInBuffer ==
  ASSUME NEW n \in Nat, n < Len(session.text), session \in Sessions
  PROVE  /\ n + 1 \in 1..Len(session.text) /\ n + 1 <= MaxTyped
         /\ n \in 0..MaxTyped /\ session.text[n + 1] # NewLine
<1>1. /\ Len(session.text) \in 0..MaxTyped
      /\ \A i \in 1..Len(session.text) : session.text[i] # NewLine
  BY SessionsAssumption
<1>2. MaxTyped \in Nat
  BY MaxTypedAssumption, Sizes
<1>3. n + 1 \in 1..Len(session.text) /\ n + 1 <= MaxTyped /\ n \in 0..MaxTyped
  BY <1>1, <1>2
<1> QED
  BY <1>1, <1>3

LEMMA PrintableKeepsLine ==
  ASSUME EchoInv, print_to_screen
  PROVE  ScreensInv' /\ LineInv' /\ KeyInv' /\ AloneInv' /\ BufsInv'
<1> DEFINE n == num_chars_typed
           c == key_code.char
           b == [keyboard_buffer EXCEPT ![n] = c]
           up == IF Scrolls(screen, c) THEN NUM_COLS ELSE 0
<1>1. /\ enter_pressed_flag = 0 /\ Typable(key_code) /\ key_code.name = "printable"
      /\ running.kind = "keyboard" /\ Len(suspended) > 0 /\ Top(suspended).pc = "wait"
  BY KeyIsThere DEF print_to_screen
<1>2. /\ keyboard_buffer' = b /\ num_chars_typed' = n + 1 /\ screen' = putc(screen, c)
      /\ line_start' = line_start - up
      /\ UNCHANGED <<enter_pressed_flag, curr_terminal_id, terminals, line_base,
                     tabbed, left_at>>
      /\ ToEoi
  BY DEF print_to_screen, Rise, termVars
<1>3. /\ n \in Nat /\ line_base = 0 /\ line_start \in Int
      /\ CursorOf(screen) = line_start + n
      /\ ScreenOk(screen) /\ BufferOk(keyboard_buffer)
  BY <1>1 DEF EchoInv, LineInv, ScreensInv
<1>4. n < Len(session.text) /\ c = session.text[n + 1] /\ session \in Sessions
  BY <1>1 DEF Typable, EchoInv, IInv
<1>5. n + 1 <= MaxTyped /\ n \in 0..MaxTyped /\ c # NewLine
  BY <1>3, <1>4, RoomInBuffer
<1>6. n + 1 \in Nat /\ (n + 1) - 1 = n /\ n + 1 <= 2 * NUM_COLS - 2
  BY <1>3, <1>5, MaxTypedAssumption, Sizes
<1>7. /\ DOMAIN b = 0..MaxTyped /\ b[n] = c
      /\ \A i \in 0..(n - 1) : b[i] = keyboard_buffer[i]
  <2>1. MaxTyped \in Nat
    BY MaxTypedAssumption, Sizes
  <2>2. \A i \in 0..(n - 1) : i # n /\ i \in 0..MaxTyped
    BY <1>3, <1>5, <2>1
  <2>3. DOMAIN keyboard_buffer = 0..MaxTyped
    BY <1>3 DEF BufferOk
  <2> QED
    BY <1>5, <2>2, <2>3
<1> HIDE DEF b, n, c
<1>8. /\ ScreenOk(putc(screen, c)) /\ line_start' \in Int
      /\ CursorOf(putc(screen, c)) = line_start' + (n + 1)
  <2>1. /\ ScreenOk(putc(screen, c))
        /\ CursorOf(putc(screen, c)) = CursorOf(screen) + 1 - up
    BY <1>3, <1>5, KeyMoves
  <2>2. up \in Int
    BY Sizes
  <2> HIDE DEF up
  <2> QED
    BY <1>2, <1>3, <2>1, <2>2
<1>9. ASSUME ~tabbed
      PROVE  /\ line_start' \in Nat
             /\ \A i \in 0..n : b[i] # NewLine
             /\ Shows(putc(screen, c).video_mem, line_start', b, n + 1)
  <2>1. /\ line_start \in Nat /\ \A i \in 0..(n - 1) : keyboard_buffer[i] # NewLine
        /\ Shows(screen.video_mem, line_start, keyboard_buffer, n)
    BY <1>1, <1>9 DEF EchoInv, LineInv, n
  <2>2. \A i \in 0..n : i \in 0..(n - 1) \/ i = n
    BY <1>3
  <2>3. \A i \in 0..n : b[i] # NewLine
    BY <1>5, <1>7, <2>1, <2>2
  <2> DEFINE after == line_start'
             s == screen
             start == line_start
             line == keyboard_buffer
  <2> HIDE DEF after, s, start, line
  <2>4. KeyFits(s, start, n, line, c, b, after)
    BY <1>2, <1>3, <1>5, <1>6, <1>7, <2>1 DEF KeyFits, after, s, start, line
  <2>5. after \in Nat /\ Shows(putc(s, c).video_mem, after, b, n + 1)
    BY <2>4, KeyShows
  <2> QED
    BY <2>3, <2>5 DEF after, s
<1>10. LineInv'
  BY <1>1, <1>2, <1>3, <1>5, <1>6, <1>8, <1>9 DEF LineInv
<1>11. ScreensInv'
  BY <1>2, <1>7, <1>8 DEF EchoInv, ScreensInv, LeftWell, BufferOk
<1>12. BufsInv' /\ AtRead(suspended', running')
  BY <1>1, <1>2, ToEoiFacts
<1>13. KeyInv'
  BY KeyIsGone DEF print_to_screen
<1> QED
  BY <1>10, <1>11, <1>12, <1>13 DEF AloneInv

LEMMA TabKeepsLine ==
  ASSUME EchoInv, HandleTab
  PROVE  ScreensInv' /\ LineInv' /\ KeyInv' /\ AloneInv' /\ BufsInv'
<1> DEFINE n == num_chars_typed
<1>1. /\ enter_pressed_flag = 0 /\ Typable(key_code) /\ key_code.name = "tab"
      /\ running.kind = "keyboard" /\ Len(suspended) > 0 /\ Top(suspended).pc = "wait"
  BY KeyIsThere DEF HandleTab
<1>2. /\ keyboard_buffer' = [keyboard_buffer EXCEPT ![n + 1] = "tab"]
      /\ num_chars_typed' = n + 1
      /\ line_start' = line_start - 1 /\ tabbed' = TRUE
      /\ UNCHANGED <<enter_pressed_flag, screen, curr_terminal_id, terminals, line_base,
                     left_at>>
      /\ ToEoi
  BY DEF HandleTab, termVars
<1>3. /\ n \in Nat /\ line_base = 0 /\ line_start \in Int
      /\ CursorOf(screen) = line_start + n
  BY <1>1 DEF EchoInv, LineInv
<1>4. n + 1 <= MaxTyped
  <2>1. n < Len(session.text) /\ session \in Sessions
    BY <1>1 DEF Typable, EchoInv, IInv
  <2> QED
    BY <1>3, <2>1, RoomInBuffer
<1> HIDE DEF n
<1>5. /\ n + 1 \in Nat /\ line_start - 1 \in Int
      /\ line_start + n = (line_start - 1) + (n + 1)
  BY <1>3
<1>6. LineInv'
  BY <1>1, <1>2, <1>3, <1>4, <1>5 DEF LineInv
<1>7. ScreensInv'
  BY <1>2 DEF EchoInv, ScreensInv, LeftWell, BufferOk
<1>8. BufsInv' /\ AtRead(suspended', running') /\ KeyInv'
  BY <1>1, <1>2, ToEoiFacts, KeyIsGone DEF HandleTab
<1> QED
  BY <1>6, <1>7, <1>8 DEF AloneInv

LEMMA BackspaceKeepsLine ==
  ASSUME EchoInv, HandleBackspace
  PROVE  ScreensInv' /\ LineInv' /\ KeyInv' /\ AloneInv' /\ BufsInv'
<1> DEFINE n == num_chars_typed
<1>1. /\ enter_pressed_flag = 0 /\ Typable(key_code) /\ key_code.name = "backspace"
      /\ running.kind = "keyboard" /\ Len(suspended) > 0 /\ Top(suspended).pc = "wait"
  BY KeyIsThere DEF HandleBackspace
<1>2. /\ UNCHANGED <<keyboard_buffer, enter_pressed_flag, curr_terminal_id, terminals,
                     line_start, line_base, tabbed, left_at>>
      /\ ToEoi
  BY DEF HandleBackspace, termVars, lineVars
<1>3. /\ n \in Nat /\ line_base = 0 /\ line_start \in Int
      /\ CursorOf(screen) = line_start + n /\ n <= MaxTyped
      /\ ScreenOk(screen)
  BY <1>1 DEF EchoInv, LineInv, ScreensInv
<1>4. BufsInv' /\ AtRead(suspended', running') /\ KeyInv'
  BY <1>1, <1>2, ToEoiFacts, KeyIsGone DEF HandleBackspace
<1>5. CASE n > 0
  <2> DEFINE e == EraseOnScreen(screen)
  <2>1. num_chars_typed' = n - 1 /\ screen' = e
    BY <1>5 DEF HandleBackspace
  <2>2. screen.x > -NUM_COLS /\ CursorOf(screen) > 0
    BY <1>1, <1>5 DEF Typable, BackspaceStaysOn
  <2>3. /\ ScreenOk(e) /\ CursorOf(e) = CursorOf(screen) - 1
        /\ e.video_mem = [screen.video_mem EXCEPT ![CursorOf(screen) - 1] = Space]
    BY <1>3, <2>2, EraseFacts
  <2> HIDE DEF e, n
  <2>4. /\ n - 1 \in Nat /\ CursorOf(screen) - 1 = line_start + (n - 1)
        /\ \A i \in 0..((n - 1) - 1) : i \in 0..(n - 1) /\ line_start + i # line_start + (n - 1)
    BY <1>3, <1>5
  <2>5. n - 1 <= MaxTyped
    <3>1. MaxTyped \in Int
      BY MaxTypedAssumption, Sizes
    <3> QED
      BY <1>3, <3>1
  <2>6. ASSUME ~tabbed
        PROVE  /\ line_start \in Nat
               /\ \A i \in 0..((n - 1) - 1) : keyboard_buffer[i] # NewLine
               /\ Shows(e.video_mem, line_start, keyboard_buffer, n - 1)
    <3>1. /\ line_start \in Nat /\ \A i \in 0..(n - 1) : keyboard_buffer[i] # NewLine
          /\ Shows(screen.video_mem, line_start, keyboard_buffer, n)
      BY <1>1, <2>6 DEF EchoInv, LineInv, n
    <3> DEFINE mem == screen.video_mem
               at == line_start + (n - 1)
    <3>2. e.video_mem = [mem EXCEPT ![at] = Space] /\ DOMAIN mem = Cells
      BY <1>3, <2>3, <2>4 DEF ScreenOk
    <3> HIDE DEF mem, at
    <3>3. \A i \in 0..((n - 1) - 1) : (line_start + i) % NUM_COLS # LastCol =>
            mem[line_start + i] = keyboard_buffer[i] /\ line_start + i # at
      BY <2>4, <3>1 DEF Shows, mem, at
    <3>4. \A a : a # at => e.video_mem[a] = mem[a]
      BY <3>2
    <3> QED
      BY <2>4, <3>1, <3>3, <3>4 DEF Shows
  <2>7. LineInv'
    <3> DEFINE m == n - 1
    <3> HIDE DEF m
    <3>1. /\ m \in Nat /\ m <= MaxTyped /\ CursorOf(e) = line_start + m
          /\ num_chars_typed' = m
      BY <2>1, <2>3, <2>4, <2>5 DEF m
    <3>2. ~tabbed => /\ line_start \in Nat
                     /\ \A i \in 0..(m - 1) : keyboard_buffer[i] # NewLine
                     /\ Shows(e.video_mem, line_start, keyboard_buffer, m)
      BY <2>6 DEF m
    <3> QED
      BY <1>1, <1>2, <1>3, <2>1, <3>1, <3>2 DEF LineInv
  <2>8. ScreensInv'
    BY <1>2, <2>1, <2>3 DEF EchoInv, ScreensInv, LeftWell
  <2> QED
    BY <1>4, <2>7, <2>8 DEF AloneInv
<1>6. CASE ~(n > 0)
  <2>1. UNCHANGED <<num_chars_typed, screen>>
    BY <1>6 DEF HandleBackspace
  <2>2. LineInv' /\ ScreensInv'
    BY <1>2, <2>1 DEF EchoInv, LineInv, ScreensInv, LeftWell
  <2> QED
    BY <1>4, <2>2 DEF AloneInv
<1> QED
  BY <1>5, <1>6

LEMMA EnterKeepsLine ==
  ASSUME EchoInv, HandleEnter
  PROVE  ScreensInv' /\ LineInv' /\ KeyInv' /\ AloneInv' /\ BufsInv'
<1>1. running.kind = "keyboard"
  BY DEF HandleEnter, Handles, At
<1>2. /\ enter_pressed_flag' = 1 /\ num_chars_typed' = num_chars_typed + 1
      /\ keyboard_buffer' = [keyboard_buffer EXCEPT ![num_chars_typed] = NewLine]
      /\ screen' = putc(screen, NewLine)
      /\ line_start' = CursorOf(screen') /\ line_base' = num_chars_typed'
      /\ UNCHANGED <<curr_terminal_id, terminals, tabbed, left_at>> /\ ToEoi
  BY DEF HandleEnter, termVars
<1>3. BufsInv' /\ KeyInv'
  BY <1>1, <1>2, ToEoiFacts, KeyIsGone DEF HandleEnter
<1>4. ScreenOk(screen')
  BY <1>2, PutcIsOk DEF EchoInv, ScreensInv, LeftWell
<1>5. line_start' \in Nat /\ line_start' \in Int
  BY <1>2, <1>4, LineStarts
<1>6. num_chars_typed' \in Nat
  BY <1>2 DEF EchoInv, LineInv
<1>7. LineInv'
  BY <1>2, <1>5, <1>6 DEF LineInv
<1>8. ScreensInv'
  BY <1>2, <1>4 DEF EchoInv, ScreensInv, LeftWell, BufferOk
<1> QED
  BY <1>2, <1>3, <1>7, <1>8 DEF AloneInv

LEMMA CtrlLKeepsLine ==
  ASSUME EchoInv, HandleCtrlL
  PROVE  ScreensInv' /\ LineInv' /\ KeyInv' /\ AloneInv' /\ BufsInv'
<1> DEFINE n == num_chars_typed
           r == Redraw(screen, keyboard_buffer, n)
<1>1. /\ enter_pressed_flag = 0 /\ Typable(key_code) /\ key_code.name = "ctrl_l"
      /\ running.kind = "keyboard" /\ Len(suspended) > 0 /\ Top(suspended).pc = "wait"
  BY KeyIsThere DEF HandleCtrlL
<1>2. /\ screen' = r /\ line_start' = 0 /\ line_base' = 0
      /\ UNCHANGED <<keyboard_buffer, num_chars_typed, enter_pressed_flag,
                     curr_terminal_id, terminals, tabbed, left_at>>
      /\ ToEoi
  BY DEF HandleCtrlL, keyVars, termVars
<1>3. /\ n \in Nat /\ n <= MaxTyped
      /\ ~tabbed => \A i \in 0..(n - 1) : keyboard_buffer[i] # NewLine
  BY <1>1 DEF EchoInv, LineInv
<1>4. n # NUM_COLS
  BY <1>1 DEF Typable
<1>5. n <= 2 * NUM_COLS - 2
  BY <1>3, MaxTypedAssumption, Sizes
<1>6. /\ ScreenOk(r) /\ CursorOf(r) = n
      /\ ~tabbed => Shows(r.video_mem, 0, keyboard_buffer, n)
  BY <1>3, <1>4, <1>5, RedrawFacts
<1> HIDE DEF r
<1>7. 0 + n = n
  BY <1>3
<1>8. LineInv'
  BY <1>1, <1>2, <1>3, <1>6, <1>7 DEF LineInv
<1>9. ScreensInv'
  BY <1>2, <1>6 DEF EchoInv, ScreensInv, LeftWell
<1>10. BufsInv' /\ AtRead(suspended', running') /\ KeyInv'
  BY <1>1, <1>2, ToEoiFacts, KeyIsGone DEF HandleCtrlL
<1> QED
  BY <1>8, <1>9, <1>10 DEF AloneInv

LEMMA BlankIsOk == ScreenOk(Screen(Blank, 0, 0)) /\ BufferOk(EmptyBuffer)
<1>1. DOMAIN Blank = Cells /\ DOMAIN EmptyBuffer = 0..MaxTyped
  BY DEF Blank, EmptyBuffer
<1>2. NUM_COLS * 0 + 0 = 0 /\ 0 \in (-NUM_COLS)..LastCol /\ 0 \in 0..LastRow
  BY Sizes
<1> QED
  BY <1>1, <1>2, ScreenFields DEF ScreenOk, BufferOk

\* Alt+Fn, to a terminal of its own screen and with no line.
LEMMA AltFKeepsLine ==
  ASSUME EchoInv, HandleAltF
  PROVE  ScreensInv' /\ LineInv' /\ KeyInv' /\ AloneInv'
<1> DEFINE t == key_code.terminal
           saved == [terminals EXCEPT ![curr_terminal_id].screen = screen,
                                      ![curr_terminal_id].keyboard_buffer = keyboard_buffer]
           new == [active |-> TRUE, screen |-> Screen(Blank, 0, 0),
                   keyboard_buffer |-> EmptyBuffer]
           end == line_start + num_chars_typed - line_base
<1>1. /\ num_chars_typed' = 0 /\ line_base' = 0 /\ curr_terminal_id' = t
      /\ enter_pressed_flag' = enter_pressed_flag /\ key_code.name = "alt_f"
      /\ t # curr_terminal_id
      /\ left_at' = [left_at EXCEPT ![curr_terminal_id] = end]
      /\ \/ /\ terminals' = saved /\ screen' = terminals[t].screen
            /\ keyboard_buffer' = terminals[t].keyboard_buffer
            /\ terminals[t].active /\ line_start' = left_at[t]
         \/ /\ terminals' = [saved EXCEPT ![t] = new] /\ screen' = Screen(Blank, 0, 0)
            /\ keyboard_buffer' = EmptyBuffer /\ line_start' = 0
  BY DEF HandleAltF, Handles, Restored
<1>2. t \in Terminals
  BY <1>1 DEF EchoInv, KeyInv
<1>3. /\ ScreenOk(screen) /\ BufferOk(keyboard_buffer)
      /\ DOMAIN terminals = Terminals /\ DOMAIN left_at = Terminals
      /\ \A u \in Terminals : TerminalOk(terminals[u]) /\ LeftWell(u)
      /\ end = CursorOf(screen)
  BY EchoFollows DEF EchoInv, ScreensInv, EchoShowsTheLine
<1>4. /\ DOMAIN saved = Terminals
      /\ \A u \in Terminals :
           /\ TerminalOk(saved[u])
           /\ u = curr_terminal_id => saved[u].screen = screen
           /\ u # curr_terminal_id => saved[u] = terminals[u]
  <2>1. DOMAIN saved = Terminals
    BY <1>3
  <2>2. ASSUME NEW u \in Terminals
        PROVE  /\ TerminalOk(saved[u])
               /\ u = curr_terminal_id => saved[u].screen = screen
               /\ u # curr_terminal_id => saved[u] = terminals[u]
    <3>1. CASE u = curr_terminal_id
      <4> DEFINE old == terminals[u]
                 one == [old EXCEPT !.screen = screen]
      <4>1. saved[u] = [one EXCEPT !.keyboard_buffer = keyboard_buffer]
        BY <1>3, <2>2, <3>1
      <4>2. {"active", "screen", "keyboard_buffer"} \subseteq DOMAIN old
        BY <1>3, <2>2 DEF TerminalOk
      <4> HIDE DEF old, saved
      <4>3. /\ {"active", "screen", "keyboard_buffer"} \subseteq DOMAIN saved[u]
            /\ saved[u].screen = screen /\ saved[u].keyboard_buffer = keyboard_buffer
        BY <4>1, <4>2
      <4> QED
        BY <1>3, <3>1, <4>3 DEF TerminalOk
    <3>2. CASE u # curr_terminal_id
      <4>1. saved[u] = terminals[u]
        BY <1>3, <2>2, <3>2
      <4> QED
        BY <1>3, <2>2, <3>2, <4>1
    <3> QED
      BY <3>1, <3>2
  <2> QED
    BY <2>1, <2>2
<1>5. TerminalOk(new)
  BY BlankIsOk DEF TerminalOk
<1> HIDE DEF saved, new, t, end
<1>6. ScreenOk(screen') /\ BufferOk(keyboard_buffer')
  BY <1>1, <1>2, <1>3, BlankIsOk DEF TerminalOk
<1>7. ScreensInv'
  <2>1. DOMAIN terminals' = Terminals /\ DOMAIN left_at' = Terminals
    BY <1>1, <1>3, <1>4
  <2>2. ASSUME NEW u \in Terminals PROVE TerminalOk(terminals'[u]) /\ LeftWell(u)'
    <3>1. CASE u = t
      BY <1>1, <1>4, <1>5, <2>2, <3>1 DEF LeftWell
    <3>2. CASE u # t
      <4>1. terminals'[u] = saved[u] /\ TerminalOk(saved[u])
        BY <1>1, <1>4, <2>2, <3>2
      <4>2. CASE u = curr_terminal_id
        <5>1. left_at'[u] = end /\ saved[u].screen = screen
          BY <1>1, <1>3, <1>4, <2>2, <4>2
        <5> QED
          BY <1>3, <4>1, <5>1 DEF LeftWell
      <4>3. CASE u # curr_terminal_id
        <5>1. left_at'[u] = left_at[u] /\ saved[u] = terminals[u] /\ LeftWell(u)
          BY <1>1, <1>3, <1>4, <2>2, <4>3
        <5> QED
          BY <4>1, <4>3, <5>1 DEF LeftWell
      <4> QED
        BY <4>2, <4>3
    <3> QED
      BY <3>1, <3>2
  <2> QED
    BY <1>6, <2>1, <2>2 DEF ScreensInv
<1>8. line_start' = CursorOf(screen') /\ line_start' \in Nat /\ line_start' \in Int
  <2>1. line_start' = CursorOf(screen')
    <3>1. CursorOf(Screen(Blank, 0, 0)) = 0
      BY ScreenFields, Sizes DEF CursorOf, Address
    <3>2. terminals[t].active => left_at[t] = CursorOf(terminals[t].screen)
      BY <1>1, <1>2, <1>3 DEF LeftWell
    <3> QED
      BY <1>1, <3>1, <3>2
  <2> QED
    BY <1>6, <2>1, LineStarts
<1>9. LineInv'
  <2>1. MaxTyped >= 0 /\ 0..(0 - 1) = {} /\ line_start' + 0 = line_start'
    BY <1>8, EmptyLine
  <2>2. Shows(screen'.video_mem, line_start', keyboard_buffer', 0)
    BY NothingShown
  <2>3. enter_pressed_flag' \in {0, 1}
    BY <1>1 DEF EchoInv, LineInv
  <2> QED
    BY <1>1, <1>8, <2>1, <2>2, <2>3 DEF LineInv
<1>10. KeyInv'
  BY KeyIsGone DEF HandleAltF
<1>11. AloneInv'
  BY <1>1 DEF AloneInv
<1> QED
  BY <1>7, <1>9, <1>10, <1>11

-----------------------------------------------------------------------------
(* Frames *)

LEMMA PushKeepsGood ==
  ASSUME NEW frames, IsSequence(frames), GoodFrames(frames), NEW f, GoodFrame(f)
  PROVE  GoodFrames(Append(frames, f))
<1>1. /\ Len(Append(frames, f)) = Len(frames) + 1 /\ Append(frames, f)[Len(frames) + 1] = f
      /\ \A i \in 1..Len(frames) : Append(frames, f)[i] = frames[i]
  BY AppendFacts
<1>2. Len(frames) \in Nat /\ \A i \in 1..(Len(frames) + 1) : i \in 1..Len(frames)
                                                            \/ i = Len(frames) + 1
  BY SequenceFacts
<1> QED
  BY <1>1, <1>2 DEF GoodFrames

LEMMA PopFacts ==
  ASSUME NEW frames, IsSequence(frames), Len(frames) > 0
  PROVE  /\ IsSequence(Pop(frames)) /\ Len(Pop(frames)) = Len(frames) - 1
         /\ \A i \in 1..(Len(frames) - 1) : Pop(frames)[i] = frames[i]
         /\ Len(frames) \in 1..Len(frames) /\ Top(frames) = frames[Len(frames)]
<1>1. Len(frames) - 1 \in 0..Len(frames) /\ Len(frames) \in 1..Len(frames)
  BY SequenceFacts
<1> QED
  BY <1>1, FirstOf DEF Pop, Top

LEMMA PopKeepsGood ==
  ASSUME NEW frames, IsSequence(frames), Len(frames) > 0, GoodFrames(frames)
  PROVE  GoodFrames(Pop(frames)) /\ GoodFrame(Top(frames))
<1>1. /\ Len(Pop(frames)) = Len(frames) - 1
      /\ \A i \in 1..(Len(frames) - 1) : Pop(frames)[i] = frames[i]
      /\ Len(frames) \in 1..Len(frames) /\ Top(frames) = frames[Len(frames)]
  BY PopFacts
<1>2. \A i \in 1..(Len(frames) - 1) : i \in 1..Len(frames)
  BY SequenceFacts
<1> QED
  BY <1>1, <1>2 DEF GoodFrames

LEMMA PushAtRead ==
  ASSUME NEW frames, IsSequence(frames), NEW f, AtRead(frames, f),
         NEW h, h.kind \in Handlers
  PROVE  AtRead(Append(frames, f), h)
<1> DEFINE n == Len(frames)
           g == Append(frames, f)
<1>1. /\ IsSequence(g) /\ Len(g) = n + 1 /\ g[n + 1] = f
      /\ \A i \in 1..n : g[i] = frames[i]
  BY AppendFacts
<1>2. n \in Nat /\ DOMAIN frames = 1..n /\ DOMAIN g = 1..(n + 1)
  BY <1>1, SequenceFacts
<1> HIDE DEF g, n
<1>3. CASE f.pc = "wait"
  <2>1. n + 1 \in 1..(n + 1) /\ \A j \in 1..(n + 1) : ~(j > n + 1)
    BY <1>2
  <2> QED
    BY <1>1, <1>2, <1>3, <2>1 DEF AtRead, g
<1>4. CASE f.pc # "wait"
  <2>1. f.kind \in Handlers
    BY <1>4 DEF AtRead
  <2>2. PICK i \in 1..n : frames[i].pc = "wait" /\ \A j \in 1..n : j > i => frames[j].kind \in Handlers
    BY <1>2, <1>4 DEF AtRead
  <2>3. i \in 1..(n + 1) /\ \A j \in 1..(n + 1) : j \in 1..n \/ j = n + 1
    BY <1>2
  <2>4. g[i].pc = "wait" /\ \A j \in 1..(n + 1) : j > i => g[j].kind \in Handlers
    BY <1>1, <2>1, <2>2, <2>3
  <2> QED
    BY <1>2, <2>3, <2>4 DEF AtRead, g
<1> QED
  BY <1>3, <1>4

LEMMA PopAtRead ==
  ASSUME NEW frames, IsSequence(frames), Len(frames) > 0,
         NEW h, h.pc # "wait", AtRead(frames, h)
  PROVE  AtRead(Pop(frames), Top(frames))
<1> DEFINE n == Len(frames)
           g == Pop(frames)
<1>1. /\ IsSequence(g) /\ Len(g) = n - 1 /\ n \in 1..n /\ Top(frames) = frames[n]
      /\ \A i \in 1..(n - 1) : g[i] = frames[i]
  BY PopFacts
<1>2. n \in Nat /\ DOMAIN frames = 1..n /\ DOMAIN g = 1..(n - 1)
  BY <1>1, SequenceFacts
<1> HIDE DEF g, n
<1>3. PICK i \in 1..n : frames[i].pc = "wait" /\ \A j \in 1..n : j > i => frames[j].kind \in Handlers
  BY <1>2 DEF AtRead
<1>4. CASE i = n
  BY <1>1, <1>3, <1>4 DEF AtRead
<1>5. CASE i # n
  <2>1. i \in 1..(n - 1) /\ n > i /\ \A j \in 1..(n - 1) : j \in 1..n
    BY <1>2, <1>5
  <2>2. frames[n].kind \in Handlers
    BY <1>1, <1>3, <2>1
  <2>3. g[i].pc = "wait" /\ \A j \in 1..(n - 1) : j > i => g[j].kind \in Handlers
    BY <1>1, <1>3, <2>1
  <2> QED
    BY <1>1, <1>2, <2>1, <2>2, <2>3 DEF AtRead, g
<1> QED
  BY <1>4, <1>5

-----------------------------------------------------------------------------
(* Handlers *)

LEMMA HandlerIsGood == \A irq : GoodFrame(Handler(irq)) /\ Handler(irq).kind \in Handlers
                                /\ Handler(irq).pc = "body"
BY EmptyIsSequence DEF Handler, Frame, GoodFrame, Handlers

LEMMA InterruptKeepsEcho ==
  ASSUME EchoInv, NEW irq \in Devices, Interrupt(irq)
  PROVE  EchoInv'
<1>1. /\ if_flag = TRUE /\ suspended' = Append(suspended, running) /\ running' = Handler(irq)
      /\ UNCHANGED <<session, screen, keyVars, key_code, termVars, lineVars>>
  BY DEF Interrupt, Take
<1>2. /\ IInv' /\ IsSequence(suspended) /\ running'.kind \in Handlers /\ running'.pc = "body"
      /\ GoodFrame(running')
  BY <1>1, InterruptKeepsInvariant, HandlerIsGood DEF EchoInv, IInv, FramesInv
<1>3. BufsInv'
  BY <1>1, <1>2, PushKeepsGood DEF EchoInv, BufsInv
<1>4. ScreensInv' /\ LineInv'
  BY <1>1 DEF EchoInv, ScreensInv, LeftWell, LineInv, keyVars, termVars, lineVars
<1>5. AloneInv'
  BY <1>1, <1>2, PushAtRead DEF EchoInv, AloneInv, keyVars
<1>6. KeyInv'
  <2>1. running.pc = "wait" => Top(suspended').pc = "wait"
    <3>1. Len(suspended') = Len(suspended) + 1 /\ suspended'[Len(suspended) + 1] = running
      BY <1>1, <1>2, AppendFacts
    <3> QED
      BY <3>1 DEF Top
  <2>2. ~(running.kind \in Handlers /\ running.pc = "body")
    BY <1>1 DEF EchoInv, IInv, RunningInv
  <2> QED
    BY <1>1, <1>2, <2>1, <2>2 DEF EchoInv, KeyInv, Typable, BackspaceStaysOn, keyVars, termVars, lineVars
<1> QED
  BY <1>2, <1>3, <1>4, <1>5, <1>6 DEF EchoInv

\* Whoever goes on when a handler is over.
LEMMA ReturnKeepsEcho ==
  ASSUME EchoInv, IInv', NEW frames, IsSequence(frames), Len(frames) > 0,
         Returns(frames), GoodFrames(frames), running.kind \in Handlers,
         AtRead(suspended, running) => AtRead(frames, running),
         running.pc = "body" => Top(frames).pc = Top(suspended).pc,
         UNCHANGED <<session, screen, keyVars, key_code, termVars, lineVars>>
  PROVE  EchoInv'
<1>1. running' = Top(frames) /\ suspended' = Pop(frames)
  BY DEF Returns
<1>2. ScreensInv' /\ LineInv'
  BY DEF EchoInv, ScreensInv, LeftWell, LineInv, keyVars, termVars, lineVars
<1>3. BufsInv'
  BY <1>1, PopKeepsGood DEF BufsInv
<1>4. running.pc # "wait"
  BY DEF EchoInv, IInv, RunningInv, Handlers
<1>5. AloneInv'
  BY <1>1, <1>4, PopAtRead DEF EchoInv, AloneInv, keyVars
<1>6. KeyInv'
  <2>1. running'.pc = "wait" => running'.kind \notin Handlers
    BY DEF IInv, RunningInv, Handlers
  <2> QED
    BY <1>1, <2>1 DEF EchoInv, KeyInv, Typable, BackspaceStaysOn, keyVars, termVars, lineVars
<1> QED
  BY <1>2, <1>3, <1>5, <1>6 DEF EchoInv

LEMMA SameFrame ==
  ASSUME NEW f, NEW g, GoodFrame(f), g.kind = f.kind, g.pc = f.pc, g.d = f.d, g.buf = f.buf,
         g.count = f.count, g.printed = f.printed
  PROVE  GoodFrame(g)
BY DEF GoodFrame, ReaderInv, Reading, FileInv, DirectoryInv, LineEnd

LEMMA RtcHandlerKeepsEcho ==
  ASSUME EchoInv, RtcHandler
  PROVE  EchoInv'
<1> DEFINE frames == [i \in DOMAIN suspended |->
                        [suspended[i] EXCEPT !.ticked = suspended[i].pc = "rtc_wait"]]
           n == Len(suspended)
<1>1. /\ running.kind = "rtc" /\ running.pc = "body" /\ Returns(frames)
      /\ UNCHANGED <<session, screen, keyVars, key_code, termVars, lineVars>>
  BY DEF RtcHandler, At
<1>2. IInv'
  BY RtcHandlerKeepsInvariant DEF EchoInv
<1>3. IsSequence(suspended) /\ n > 0 /\ n \in Nat /\ DOMAIN suspended = 1..n
  BY <1>1, SequenceFacts DEF EchoInv, IInv, FramesInv, RunningInv, Handlers
<1>4. IsSequence(frames) /\ Len(frames) = n
  <2>1. DOMAIN frames = 1..n /\ frames = [i \in 1..n |-> frames[i]]
    BY <1>3
  <2> HIDE DEF frames, n
  <2> QED
    BY <1>3, <2>1, TupleFacts
<1>5. \A i \in 1..n : /\ frames[i].kind = suspended[i].kind /\ frames[i].pc = suspended[i].pc
                      /\ frames[i].d = suspended[i].d /\ frames[i].buf = suspended[i].buf
                      /\ frames[i].count = suspended[i].count
                      /\ frames[i].printed = suspended[i].printed
  <2> TAKE i \in 1..n
  <2>1. IsFrame(suspended[i])
    BY <1>3 DEF EchoInv, IInv, FramesInv, MayWait
  <2>2. frames[i] = [suspended[i] EXCEPT !.ticked = suspended[i].pc = "rtc_wait"]
    BY <1>3
  <2> QED
    BY <2>1, <2>2 DEF IsFrame
<1> HIDE DEF frames
<1>6. GoodFrames(frames)
  BY <1>4, <1>5, SameFrame DEF GoodFrames, EchoInv, BufsInv
<1>7. AtRead(suspended, running) => AtRead(frames, running)
  <2>1. DOMAIN frames = 1..n
    BY <1>4, SequenceFacts
  <2> QED
    BY <1>3, <1>5, <2>1 DEF AtRead
<1>8. Top(frames).pc = Top(suspended).pc
  <2>1. n \in 1..n
    BY <1>3
  <2> QED
    BY <1>4, <1>5, <2>1 DEF Top
<1> QED
  BY <1>1, <1>2, <1>3, <1>4, <1>6, <1>7, <1>8, ReturnKeepsEcho DEF Handlers

LEMMA KeyboardKeepsEcho ==
  ASSUME EchoInv, KeyboardStep
  PROVE  EchoInv'
<1>1. IInv'
  BY KeyboardKeepsInvariant DEF EchoInv
<1>2. running.kind = "keyboard" /\ IsSequence(suspended) /\ Len(suspended) > 0
      /\ IsFrame(running) /\ GoodFrame(running) /\ GoodFrames(suspended)
  <2>1. running.kind = "keyboard"
    BY DEF KeyboardStep, print_to_screen, HandleTab, HandleBackspace, HandleEnter, HandleCtrlL,
           HandleAltF, HandleAltFCurrent, KeyboardEoi, Handles, At
  <2> QED
    BY <2>1 DEF EchoInv, BufsInv, IInv, RunningInv, FramesInv, Handlers
<1>3. CASE print_to_screen \/ HandleTab \/ HandleBackspace \/ HandleEnter \/ HandleCtrlL
  BY <1>1, <1>3, PrintableKeepsLine, TabKeepsLine, BackspaceKeepsLine, EnterKeepsLine, CtrlLKeepsLine
  DEF EchoInv
<1>4. CASE HandleAltFCurrent
  <2>1. /\ ToEoi /\ UNCHANGED <<screen, keyVars, termVars, lineVars>>
        /\ KeyInv'
    BY <1>4, KeyIsGone DEF HandleAltFCurrent
  <2>2. ScreensInv' /\ LineInv'
    BY <2>1 DEF EchoInv, ScreensInv, LeftWell, LineInv, keyVars, termVars, lineVars
  <2>3. BufsInv' /\ AloneInv'
    BY <1>2, <2>1, ToEoiFacts DEF EchoInv, AloneInv, keyVars
  <2> QED
    BY <1>1, <2>1, <2>2, <2>3 DEF EchoInv
<1>5. CASE KeyboardEoi
  <2>1. /\ Returns(suspended) /\ running.pc = "eoi"
        /\ UNCHANGED <<session, screen, keyVars, key_code, termVars, lineVars>>
    BY <1>5 DEF KeyboardEoi, At
  <2> QED
    BY <1>1, <1>2, <2>1, ReturnKeepsEcho DEF Handlers
<1>6. CASE HandleAltF
  <2> DEFINE caller == [running EXCEPT !.pc = "eoi"]
             shell == Program("shell", <<>>)
  <2>1. \/ running' = caller /\ UNCHANGED suspended
        \/ running' = shell /\ suspended' = Append(suspended, caller)
    BY <1>6 DEF HandleAltF, ToEoi, Executes
  <2>2. GoodFrame(caller)
    BY <1>2 DEF GoodFrame
  <2>3. GoodFrame(shell)
    BY EmptyIsSequence DEF GoodFrame, Program, Frame
  <2> HIDE DEF caller, shell
  <2>4. BufsInv'
    BY <1>2, <2>1, <2>2, <2>3, PushKeepsGood DEF BufsInv
  <2> QED
    BY <1>1, <1>6, <2>4, AltFKeepsLine DEF EchoInv
<1> QED
  BY <1>3, <1>4, <1>5, <1>6 DEF KeyboardStep

LEMMA KeyPressKeepsEcho ==
  ASSUME EchoInv, IInv', NEW k \in session.keys, KeyPress(k)
  PROVE  EchoInv'
<1>1. /\ Typable(k) /\ key_code' = k
      /\ UNCHANGED <<session, running, suspended, screen, keyVars, termVars, lineVars>>
  BY DEF KeyPress, cpuVars
<1>2. ScreensInv' /\ LineInv' /\ AloneInv' /\ BufsInv'
  BY <1>1 DEF EchoInv, ScreensInv, LeftWell, LineInv, AloneInv, BufsInv, keyVars, termVars, lineVars
<1>3. k.name = "alt_f" => k.terminal \in Terminals
  BY SessionsAssumption DEF EchoInv, IInv
<1>4. running.pc = "wait" => running.kind \notin Handlers
  BY DEF EchoInv, IInv, RunningInv, Handlers
<1>5. AtPrompt \/ k.name = "alt_f"
  BY DEF KeyPress
<1>6. Typable(k)'
  BY <1>1 DEF KeyPress, Typable, BackspaceStaysOn, keyVars, termVars, lineVars
<1>7. KeyInv'
  BY <1>1, <1>3, <1>4, <1>5, <1>6 DEF KeyInv, AtPrompt, keyVars, Typable, BackspaceStaysOn
<1> QED
  BY <1>2, <1>7 DEF EchoInv

-----------------------------------------------------------------------------
(* Programs *)

\* Two characters at most, and pingpong's row.
LEMMA TextsAreSequences ==
  /\ \A c, d : IsSequence(<<c, d>>)
  /\ \A c : IsSequence(<<c>>)
  /\ \A turn : IsSequence(Court(turn))
<1>1. ASSUME NEW c, NEW d PROVE IsSequence(<<c, d>>)
  <2>1. <<c, d>> \in Seq({c, d})
    OBVIOUS
  <2> QED
    BY <2>1, AnySequence, Zenon
<1>2. ASSUME NEW turn PROVE IsSequence(Court(turn))
  <2> DEFINE court == Court(turn)
  <2>1. DOMAIN court = 1..NUM_COLS /\ court = [i \in 1..NUM_COLS |-> court[i]]
    BY DEF Court
  <2> HIDE DEF court
  <2> QED
    BY <2>1, TupleFacts, Sizes DEF court
<1> QED
  BY <1>1, <1>2, SingleIsSequence

\* A program's own step: it prints or not, and what it is then is good.
LEMMA ProgramKeepsEcho ==
  ASSUME EchoInv, IInv', running.kind \notin Handlers, running.pc # "wait",
         GoodFrame(running'), GoodFrames(suspended'),
         UNCHANGED <<session, keyVars, key_code, termVars>>,
         \/ \E text : IsSequence(text) /\ Prints(text)
         \/ UNCHANGED <<screen, lineVars>>
  PROVE  EchoInv'
<1>1. BufsInv'
  BY DEF BufsInv
<1> QED
  BY <1>1, PrintsKeepsLine, QuietKeepsLine DEF EchoInv

LEMMA NewProgramIsGood ==
  \A kind, arg : GoodFrame(Program(kind, arg))
BY EmptyIsSequence DEF GoodFrame, Program, Frame, ReaderInv, NoFd

LEMMA HaltsKeepsGood ==
  ASSUME EchoInv, NEW status, Halts(status)
  PROVE  GoodFrame(running') /\ GoodFrames(suspended')
<1>1. IsSequence(suspended) /\ GoodFrames(suspended)
  BY DEF EchoInv, IInv, FramesInv, BufsInv
<1>2. CASE suspended = <<>>
  BY <1>1, <1>2, NewProgramIsGood DEF Halts
<1>3. CASE suspended # <<>>
  <2> DEFINE caller == Top(suspended)
             pc == IF status = 0 THEN "prompt" ELSE "abnormal"
  <2>1. Len(suspended) > 0
    BY <1>1, <1>3, SequenceFacts, EmptyIffNoLength
  <2>2. GoodFrames(Pop(suspended)) /\ GoodFrame(caller)
    BY <1>1, <2>1, PopKeepsGood
  <2>3. IsFrame(caller)
    BY <2>1, PopKeepsFrames DEF EchoInv, IInv, MayWait
  <2>4. /\ suspended' = Pop(suspended)
        /\ running' = IF caller.kind = "shell" THEN [caller EXCEPT !.pc = pc] ELSE caller
    BY <1>3 DEF Halts
  <2> HIDE DEF caller, pc
  <2>5. caller.kind = "shell" => GoodFrame([caller EXCEPT !.pc = pc])
    BY <2>2, <2>3 DEF GoodFrame, IsFrame
  <2> QED
    BY <2>2, <2>4, <2>5
<1> QED
  BY <1>2, <1>3

\* What a program is that only goes on.
LEMMA GotoKeepsGood ==
  ASSUME EchoInv, running.kind \notin {"cat", "ls"}, IsFrame(running), NEW pc, Goto(pc)
  PROVE  GoodFrame(running') /\ GoodFrames(suspended')
BY DEF Goto, EchoInv, BufsInv, GoodFrame, IsFrame

LEMMA ShellKeepsEcho ==
  ASSUME EchoInv, ShellStep
  PROVE  EchoInv'
<1>1. IInv' /\ IInv
  BY ShellKeepsInvariant DEF EchoInv
<1>2. running.kind = "shell" /\ running.pc # "wait"
  BY DEF ShellStep, ShellStarts, ShellPrompts, ShellSkips, ShellExecutes,
         ShellFindsNoCommand, ShellExits, ShellComplains, At
<1>3. IsFrame(running) /\ IsSequence(suspended) /\ running.kind \notin Handlers
      /\ GoodFrames(suspended)
  BY <1>2 DEF EchoInv, IInv, RunningInv, FramesInv, Handlers, BufsInv
<1>4. UNCHANGED <<session, keyVars, key_code, termVars>>
  BY DEF ShellStep, ShellStarts, ShellPrompts, ShellSkips, ShellExecutes,
         ShellFindsNoCommand, ShellExits, ShellComplains, Quiet, Printing, Halting
<1>5. GoodFrame(running') /\ GoodFrames(suspended')
  <2>1. CASE \E pc : Goto(pc)
    BY <1>2, <1>3, <2>1, GotoKeepsGood
  <2>2. CASE ShellExits
    BY <2>2, HaltsKeepsGood DEF ShellExits
  <2>3. CASE ShellExecutes
    <3> DEFINE caller == [running EXCEPT !.pc = "executing", !.buf = <<>>]
    <3>1. (\E pc : Goto(pc)) \/ \E c : Executes(caller, suspended, Program(c.kind, c.arg))
      BY <2>3 DEF ShellExecutes
    <3>2. GoodFrame(caller)
      BY <1>2, <1>3, EmptyIsSequence DEF GoodFrame, IsFrame
    <3> HIDE DEF caller
    <3>3. CASE \E c : Executes(caller, suspended, Program(c.kind, c.arg))
      BY <1>3, <3>2, <3>3, NewProgramIsGood, PushKeepsGood DEF Executes
    <3> QED
      BY <2>1, <3>1, <3>3
  <2> QED
    BY <2>1, <2>2, <2>3 DEF ShellStep, ShellStarts, ShellPrompts, ShellSkips,
       ShellFindsNoCommand, ShellComplains
<1>6. \/ \E text : IsSequence(text) /\ Prints(text)
      \/ UNCHANGED <<screen, lineVars>>
  BY TextsAreSequences DEF ShellStep, ShellStarts, ShellPrompts, ShellSkips, ShellExecutes,
         ShellFindsNoCommand, ShellExits, ShellComplains, Quiet, Halting, Starting, Prompt,
         NoSuchCommand, Abnormally
<1> QED
  BY <1>1, <1>2, <1>3, <1>4, <1>5, <1>6, ProgramKeepsEcho

LEMMA ReadersKeepEcho ==
  ASSUME EchoInv, ReadLine \/ LineIsRead \/ HelloStep
  PROVE  EchoInv'
<1>1. IInv' /\ GoodFrame(running) /\ GoodFrames(suspended)
  BY ReadersKeepInvariant DEF EchoInv, BufsInv
<1>2. IsFrame(running) /\ running.kind \notin Handlers
  <2>1. running.pc \in {"read", "wait"} \/ running.kind = "hello"
    BY DEF ReadLine, LineIsRead, HelloStep
  <2> QED
    BY <2>1, NotInHandler, KindIsProgram DEF EchoInv, IsProgram
<1>3. CASE LineIsRead
  <2>1. UNCHANGED suspended
    BY <1>3 DEF LineIsRead
  <2> QED
    BY <1>1, <1>3, <2>1, LineIsReadKeepsLine DEF EchoInv, BufsInv
<1>4. CASE ReadLine \/ HelloStep
  <2>1. running.pc # "wait" /\ running.kind \notin {"cat", "ls"}
    BY <1>1, <1>4 DEF ReadLine, HelloStep, GoodFrame, ReaderInv, Reading
  <2>2. \E pc : Goto(pc)
    BY <1>4 DEF ReadLine, HelloStep
  <2>3. GoodFrame(running') /\ GoodFrames(suspended')
    BY <1>2, <2>1, <2>2, GotoKeepsGood
  <2>4. \/ \E text : IsSequence(text) /\ Prints(text)
        \/ UNCHANGED <<screen, lineVars>>
    <3>1. running.kind = "hello" => IsSequence(UpToNul(running.buf))
      BY <1>1, CutIsSequence DEF GoodFrame
    <3>2. CASE ReadLine
      BY <3>2 DEF ReadLine, Quiet
    <3>3. CASE HelloStep
      <4>1. \/ Prints(Question)
            \/ Prints(Hello)
            \/ running.kind = "hello" /\ Prints(UpToNul(running.buf))
        BY <3>3, Zenon DEF HelloStep
      <4>2. IsSequence(Question) /\ IsSequence(Hello)
        BY TextsAreSequences, Zenon DEF Question, Hello
      <4> QED
        BY <4>1, <4>2, <3>1, Zenon
    <3> QED
      BY <1>4, <3>2, <3>3
  <2>5. UNCHANGED <<session, keyVars, key_code, termVars>>
    BY <1>4 DEF ReadLine, HelloStep, Quiet, Printing
  <2> QED
    BY <1>1, <1>2, <2>1, <2>3, <2>4, <2>5, ProgramKeepsEcho
<1> QED
  BY <1>3, <1>4

LEMMA RtcReadersKeepEcho ==
  ASSUME EchoInv, PingpongOpens \/ PingpongDraws \/ rtc_read \/ RtcReadReturns
  PROVE  EchoInv'
<1>1. IInv' /\ GoodFrame(running) /\ GoodFrames(suspended)
  BY RtcReadersKeepInvariant DEF EchoInv, BufsInv
<1>2. IsFrame(running) /\ running.kind \notin Handlers
  <2>1. running.pc \in {"tick", "rtc_wait"} \/ running.kind = "pingpong"
    BY DEF PingpongOpens, PingpongDraws, rtc_read, RtcReadReturns, At
  <2> QED
    BY <2>1, NotInHandler, KindIsProgram DEF EchoInv, IsProgram
<1>3. running.pc # "wait" /\ UNCHANGED suspended
  BY DEF PingpongOpens, PingpongDraws, rtc_read, RtcReadReturns, At, Goto
<1>4. UNCHANGED <<session, keyVars, key_code, termVars>>
  BY DEF PingpongOpens, PingpongDraws, rtc_read, RtcReadReturns, Printing
<1>5. \/ \E text : IsSequence(text) /\ Prints(text)
      \/ UNCHANGED <<screen, lineVars>>
  BY TextsAreSequences DEF PingpongOpens, PingpongDraws, rtc_read, RtcReadReturns
<1>6. GoodFrame(running')
  <2>1. CASE running.kind \notin {"cat", "ls"}
    <3>1. running'.kind = running.kind /\ running'.buf = running.buf
      BY <1>2 DEF PingpongOpens, PingpongDraws, rtc_read, RtcReadReturns, Goto, IsFrame
    <3> QED
      BY <1>1, <2>1, <3>1 DEF GoodFrame
  <2>2. CASE running.kind \in {"cat", "ls"}
    <3>1. (rtc_read /\ running.pc = "tick") \/ (RtcReadReturns /\ running.pc = "rtc_wait")
      BY <2>2 DEF PingpongOpens, PingpongDraws, rtc_read, RtcReadReturns, At
    <3>2. /\ running.d.fop = "rtc" /\ running.kind = "cat" /\ running.printed = <<>>
          /\ running.count = 0 /\ running.d # NoFd /\ IsDescriptor(running.d)
      BY <1>1, <2>2, <3>1 DEF GoodFrame, ReaderInv, Reading
    <3>3. /\ running'.kind = "cat" /\ running'.d = running.d /\ running'.buf = running.buf
          /\ running'.count = 0 /\ running'.printed = <<>>
          /\ running'.pc \in {"rtc_wait", "exit"}
      BY <1>2, <3>1, <3>2 DEF rtc_read, RtcReadReturns, Goto, IsFrame
    <3> QED
      BY <1>1, <3>2, <3>3 DEF GoodFrame, ReaderInv, Reading
  <2> QED
    BY <2>1, <2>2
<1> QED
  BY <1>1, <1>2, <1>3, <1>4, <1>5, <1>6, ProgramKeepsEcho

-----------------------------------------------------------------------------
(* Pieces one behind the other *)

JoinsUpTo(f, pieces, n) ==
  f = [i \in 0..n |-> IF i = 0 THEN <<>> ELSE f[i - 1] \o pieces[i]]

LEMMA JoinExists ==
  ASSUME NEW pieces, NEW n \in Nat
  PROVE  \E f : JoinsUpTo(f, pieces, n)
<1> DEFINE T == {m \in Nat : \E f : JoinsUpTo(f, pieces, m)}
<1>1. 0 \in T
  <2>1. JoinsUpTo([i \in 0..0 |-> <<>>], pieces, 0)
    BY DEF JoinsUpTo
  <2> QED
    BY <2>1
<1>2. \A m \in T : m + 1 \in T
  <2> TAKE m \in T
  <2>1. PICK f : JoinsUpTo(f, pieces, m)
    OBVIOUS
  <2> DEFINE next == f[m] \o pieces[m + 1]
             g == [i \in 0..(m + 1) |-> IF i <= m THEN f[i] ELSE next]
             body(i) == IF i = 0 THEN <<>> ELSE g[i - 1] \o pieces[i]
  <2> HIDE DEF next
  <2>2. \A i \in 0..(m + 1) : g[i] = body(i)
    <3> TAKE i \in 0..(m + 1)
    <3>1. CASE i = 0
      <4>1. 0 <= m /\ 0 \in 0..m /\ 0 \in 0..(m + 1)
        OBVIOUS
      <4>2. g[0] = f[0] /\ f[0] = <<>>
        BY <2>1, <4>1 DEF JoinsUpTo
      <4> QED
        BY <3>1, <4>2
    <3>2. CASE i # 0 /\ i <= m
      <4>1. i \in 0..m /\ i - 1 \in 0..(m + 1) /\ i - 1 <= m
        BY <3>2
      <4>2. g[i] = f[i] /\ g[i - 1] = f[i - 1] /\ f[i] = f[i - 1] \o pieces[i]
        BY <2>1, <3>2, <4>1 DEF JoinsUpTo
      <4> QED
        BY <3>2, <4>2
    <3>3. CASE i = m + 1
      <4>1. ~(m + 1 <= m) /\ (m + 1) - 1 = m /\ m \in 0..(m + 1) /\ m <= m /\ m + 1 # 0
            /\ m + 1 \in 0..(m + 1)
        OBVIOUS
      <4>2. g[m + 1] = next /\ g[m] = f[m]
        BY <4>1
      <4> QED
        BY <3>3, <4>1, <4>2 DEF next
    <3> QED
      BY <3>1, <3>2, <3>3
  <2>3. g = [i \in 0..(m + 1) |-> body(i)]
    BY <2>2
  <2>4. JoinsUpTo(g, pieces, m + 1)
    BY <2>3 DEF JoinsUpTo
  <2> HIDE DEF g, body
  <2> QED
    BY <2>4
<1>3. T \in SUBSET Nat
  OBVIOUS
<1>4. T = Nat
  <2> HIDE DEF T
  <2> QED
    BY <1>1, <1>2, <1>3, NatInd
<1>5. n \in T
  BY <1>4
<1> QED
  BY <1>5

LEMMA JoinedFacts ==
  ASSUME NEW pieces, Len(pieces) \in Nat
  PROVE  /\ Joined(pieces, 0) = <<>>
         /\ \A m \in 0..(Len(pieces) - 1) :
              Joined(pieces, m + 1) = Joined(pieces, m) \o pieces[m + 1]
<1> DEFINE n == Len(pieces)
           step(f, i) == IF i = 0 THEN <<>> ELSE f[i - 1] \o pieces[i]
           upTo == CHOOSE f : f = [i \in 0..n |-> step(f, i)]
<1>1. \E f : f = [i \in 0..n |-> step(f, i)]
  BY JoinExists DEF JoinsUpTo
<1>2. upTo = [i \in 0..n |-> step(upTo, i)]
  <2> HIDE DEF step
  <2> QED
    BY <1>1
<1>3. \A m : Joined(pieces, m) = upTo[m]
  BY DEF Joined
<1> HIDE DEF upTo
<1>4. \A i \in 0..n : upTo[i] = step(upTo, i)
  BY <1>2
<1>5. 0 \in 0..n /\ \A m \in 0..(n - 1) : m + 1 \in 0..n /\ m + 1 # 0 /\ (m + 1) - 1 = m
  OBVIOUS
<1> QED
  BY <1>3, <1>4, <1>5

LEMMA ConcatEmpty ==
  ASSUME NEW s, IsSequence(s)
  PROVE  s \o <<>> = s
<1>1. s \in Seq({s[i] : i \in DOMAIN s})
  BY DEF IsSequence
<1> HIDE DEF IsSequence
<1> QED
  BY <1>1, ConcatEmptySeq

LEMMA Regroup ==
  ASSUME NEW a, IsSequence(a), NEW b, IsSequence(b), NEW c, IsSequence(c)
  PROVE  (a \o b) \o c = a \o (b \o c)
<1> DEFINE l == (a \o b) \o c
           r == a \o (b \o c)
           na == Len(a)
           nb == Len(b)
           nc == Len(c)
<1>1. na \in Nat /\ nb \in Nat /\ nc \in Nat
  BY SequenceFacts
<1>2. /\ IsSequence(a \o b) /\ Len(a \o b) = na + nb
      /\ \A i \in 1..na : (a \o b)[i] = a[i]
      /\ \A i \in 1..nb : (a \o b)[na + i] = b[i]
  BY ConcatFacts
<1>3. /\ IsSequence(b \o c) /\ Len(b \o c) = nb + nc
      /\ \A i \in 1..nb : (b \o c)[i] = b[i]
      /\ \A i \in 1..nc : (b \o c)[nb + i] = c[i]
  BY ConcatFacts
<1>4. /\ IsSequence(l) /\ Len(l) = (na + nb) + nc
      /\ \A i \in 1..(na + nb) : l[i] = (a \o b)[i]
      /\ \A i \in 1..nc : l[(na + nb) + i] = c[i]
  BY <1>2, ConcatFacts
<1>5. /\ IsSequence(r) /\ Len(r) = na + (nb + nc)
      /\ \A i \in 1..na : r[i] = a[i]
      /\ \A i \in 1..(nb + nc) : r[na + i] = (b \o c)[i]
  BY <1>3, ConcatFacts
<1> HIDE DEF l, r, na, nb, nc
<1>6. ASSUME NEW i \in 1..((na + nb) + nc) PROVE l[i] = r[i]
  <2>1. CASE i <= na
    <3>1. i \in 1..na /\ i \in 1..(na + nb)
      BY <1>1, <2>1
    <3> QED
      BY <1>2, <1>4, <1>5, <3>1
  <2>2. CASE i > na /\ i <= na + nb
    <3> DEFINE j == i - na
    <3>1. j \in 1..nb /\ j \in 1..(nb + nc) /\ i = na + j /\ i \in 1..(na + nb)
      BY <1>1, <2>2
    <3> HIDE DEF j
    <3> QED
      BY <1>2, <1>3, <1>4, <1>5, <3>1
  <2>3. CASE i > na + nb
    <3> DEFINE j == i - (na + nb)
    <3>1. j \in 1..nc /\ nb + j \in 1..(nb + nc) /\ i = (na + nb) + j /\ i = na + (nb + j)
      BY <1>1, <2>3
    <3> HIDE DEF j
    <3> QED
      BY <1>3, <1>4, <1>5, <3>1
  <2> QED
    BY <1>1, <2>1, <2>2, <2>3
<1>7. (na + nb) + nc = na + (nb + nc)
  BY <1>1
<1>8. l = r
  BY <1>4, <1>5, <1>6, <1>7, SameSequence
<1> QED
  BY <1>8 DEF l, r

-----------------------------------------------------------------------------
(* Files *)

\* A position in a block.
LEMMA BlockPositions ==
  ASSUME NEW m \in Nat, NEW j \in 0..(BYTES_4KB - 1)
  PROVE  (m * BYTES_4KB + j) \div BYTES_4KB = m /\ (m * BYTES_4KB + j) % BYTES_4KB = j
BY BlockAssumption

LEMMA PrefixFacts ==
  ASSUME NEW inode, NEW n \in Nat
  PROVE  /\ IsSequence(Prefix(inode, n)) /\ Len(Prefix(inode, n)) = n
         /\ \A k \in 1..n : Prefix(inode, n)[k] = ByteAt(inode, k - 1)
<1> DEFINE s == Prefix(inode, n)
<1>1. /\ DOMAIN s = 1..n /\ s = [k \in 1..n |-> s[k]]
      /\ \A k \in 1..n : s[k] = ByteAt(inode, k - 1)
  BY DEF Prefix
<1> HIDE DEF s
<1> QED
  BY <1>1, TupleFacts DEF s

\* A file is the bytes of its blocks up to its length.
LEMMA ContentFacts ==
  ASSUME NEW inode \in DOMAIN inodes
  PROVE  Content(inode) = Prefix(inode, inodes[inode].length) /\ inodes[inode].length \in Nat
<1> DEFINE table == inodes[inode].data_block_num
           blocks == [i \in 1..Len(table) |-> data_blocks[table[i]]]
           n == Len(table)
           size == inodes[inode].length
           whole(m) == /\ IsSequence(Joined(blocks, m)) /\ Len(Joined(blocks, m)) = m * BYTES_4KB
                       /\ \A k \in 1..(m * BYTES_4KB) : Joined(blocks, m)[k] = ByteAt(inode, k - 1)
           T == {m \in Nat : m <= n => whole(m)}
<1>1. /\ IsSequence(table) /\ size \in 0..(n * BYTES_4KB)
      /\ \A i \in 1..n : table[i] \in DOMAIN data_blocks
  BY ImageAssumption
<1>2. n \in Nat /\ BYTES_4KB \in Nat /\ BYTES_4KB >= 1 /\ n * BYTES_4KB \in Nat
  BY <1>1, SequenceFacts, BlockAssumption
<1>3. /\ Len(blocks) = n
      /\ \A i \in 1..n : /\ blocks[i] = data_blocks[table[i]]
                         /\ IsSequence(blocks[i]) /\ Len(blocks[i]) = BYTES_4KB
  <2>1. DOMAIN blocks = 1..n /\ blocks = [i \in 1..n |-> blocks[i]]
    OBVIOUS
  <2>2. \A i \in 1..n : blocks[i] = data_blocks[table[i]]
    OBVIOUS
  <2> HIDE DEF blocks, n, table
  <2> QED
    BY <1>1, <1>2, <2>1, <2>2, TupleFacts, ImageAssumption
<1>4. Content(inode) = SubSeq(Joined(blocks, n), 1, size)
  BY DEF Content
<1> HIDE DEF table, blocks, n, size
<1>5. 0 \in T
  <2>1. Joined(blocks, 0) = <<>> /\ 0 * BYTES_4KB = 0
    BY <1>2, <1>3, JoinedFacts
  <2> QED
    BY <2>1, EmptyIsSequence
<1>6. \A m \in T : m + 1 \in T
  <2> SUFFICES ASSUME NEW m \in T, m + 1 <= n PROVE whole(m + 1)
    OBVIOUS
  <2>1. m <= n /\ m \in 0..(n - 1) /\ m + 1 \in 1..n /\ whole(m)
    BY <1>2
  <2> DEFINE j == Joined(blocks, m)
             b == blocks[m + 1]
             w == m * BYTES_4KB
  <2>2. Joined(blocks, m + 1) = j \o b
    BY <1>2, <1>3, <2>1, JoinedFacts
  <2>3. /\ IsSequence(j \o b) /\ Len(j \o b) = w + BYTES_4KB
        /\ \A k \in 1..w : (j \o b)[k] = j[k]
        /\ \A k \in 1..BYTES_4KB : (j \o b)[w + k] = b[k]
    <3>1. IsSequence(j) /\ Len(j) = w /\ IsSequence(b) /\ Len(b) = BYTES_4KB
      BY <1>3, <2>1
    <3> HIDE DEF j, b, w
    <3>2. /\ IsSequence(j \o b) /\ Len(j \o b) = Len(j) + Len(b)
          /\ \A k \in 1..Len(j) : (j \o b)[k] = j[k]
          /\ \A k \in 1..Len(b) : (j \o b)[Len(j) + k] = b[k]
      <4>1. IsSequence(j) /\ IsSequence(b)
        BY <3>1
      <4> QED
        BY ONLY <4>1, ConcatFacts
    <3> QED
      BY <3>1, <3>2, Zenon
  <2>4. w \in Nat /\ (m + 1) * BYTES_4KB = w + BYTES_4KB
    BY <1>2
  <2>5. \A k \in 1..w : j[k] = ByteAt(inode, k - 1)
    BY <2>1
  <2>6. b = data_blocks[table[m + 1]]
    BY <1>3, <2>1
  <2> HIDE DEF j, b
  <2>7. \A k \in 1..BYTES_4KB : ByteAt(inode, (w + k) - 1) = b[k]
    <3> TAKE k \in 1..BYTES_4KB
    <3> DEFINE i == k - 1
    <3>1. i \in 0..(BYTES_4KB - 1) /\ (w + k) - 1 = w + i /\ i + 1 = k
      BY <1>2, <2>4
    <3> HIDE DEF i
    <3>2. (w + i) \div BYTES_4KB = m /\ (w + i) % BYTES_4KB = i
      BY <3>1, BlockPositions
    <3> HIDE DEF w
    <3> QED
      BY <2>6, <3>1, <3>2 DEF ByteAt, table
  <2> HIDE DEF w
  <2>8. \A k \in 1..(w + BYTES_4KB) : (j \o b)[k] = ByteAt(inode, k - 1)
    <3> TAKE k \in 1..(w + BYTES_4KB)
    <3>1. CASE k <= w
      <4>1. k \in 1..w
        BY <2>4, <3>1
      <4> QED
        BY <2>3, <2>5, <4>1
    <3>2. CASE ~(k <= w)
      <4> DEFINE i == k - w
      <4>1. i \in 1..BYTES_4KB /\ k = w + i
        BY <1>2, <2>4, <3>2
      <4> HIDE DEF i
      <4> QED
        BY <2>3, <2>7, <4>1
    <3> QED
      BY <3>1, <3>2
  <2> QED
    BY <2>2, <2>3, <2>4, <2>8
<1>7. T = Nat
  <2>1. T \in SUBSET Nat
    OBVIOUS
  <2> HIDE DEF T
  <2> QED
    BY <1>5, <1>6, <2>1, NatInd
<1>8. whole(n)
  <2>1. n \in T /\ n <= n
    BY <1>2, <1>7
  <2> QED
    BY <2>1
<1>9. size \in Nat
  BY <1>1, <1>2
<1> DEFINE all == Joined(blocks, n)
<1>10. /\ IsSequence(all) /\ size \in 0..Len(all)
       /\ \A k \in 1..(n * BYTES_4KB) : all[k] = ByteAt(inode, k - 1)
  BY <1>1, <1>8
<1> HIDE DEF all, whole, T
<1>11. \A k \in 1..size : k \in 1..(n * BYTES_4KB)
  BY <1>1, <1>2
<1>12. /\ IsSequence(SubSeq(all, 1, size)) /\ Len(SubSeq(all, 1, size)) = size
       /\ \A k \in 1..size : SubSeq(all, 1, size)[k] = ByteAt(inode, k - 1)
  BY <1>10, <1>11, FirstOf
<1>13. SubSeq(all, 1, size) = Prefix(inode, size)
  <2> DEFINE l == SubSeq(all, 1, size)
             r == Prefix(inode, size)
  <2>1. /\ IsSequence(r) /\ Len(r) = size
        /\ \A k \in 1..size : r[k] = ByteAt(inode, k - 1)
    BY <1>9, PrefixFacts
  <2>2. /\ IsSequence(l) /\ Len(l) = size
        /\ \A k \in 1..size : l[k] = ByteAt(inode, k - 1)
    BY <1>12
  <2> HIDE DEF l, r
  <2>3. l = r
    BY <2>1, <2>2, SameSequence
  <2> QED
    BY <2>3 DEF l, r
<1> QED
  BY <1>4, <1>9, <1>13 DEF all, size

-----------------------------------------------------------------------------
(* cat and ls *)

LEMMA NamePartFacts ==
  ASSUME NEW name, IsSequence(name)
  PROVE  /\ IsSequence(NamePart(name)) /\ Len(NamePart(name)) <= NAME_BYTES
         /\ name # <<>> => NamePart(name) # <<>>
         /\ name = <<>> => NamePart(name) = <<>>
         /\ \A i \in 1..Len(NamePart(name)) : i \in 1..Len(name) /\ NamePart(name)[i] = name[i]
<1> DEFINE n == IF Len(name) < NAME_BYTES THEN Len(name) ELSE NAME_BYTES
<1>1. Len(name) \in Nat /\ NAME_BYTES \in Nat \ {0}
  BY SequenceFacts, NameAssumption
<1>2. n \in 0..Len(name) /\ n <= NAME_BYTES /\ (n = 0 <=> Len(name) = 0)
  BY <1>1
<1>3. NamePart(name) = SubSeq(name, 1, n)
  BY DEF NamePart
<1> HIDE DEF n
<1>4. /\ IsSequence(NamePart(name)) /\ Len(NamePart(name)) = n
      /\ \A i \in 1..n : NamePart(name)[i] = name[i]
  BY <1>2, <1>3, FirstOf
<1>5. \A i \in 1..n : i \in 1..Len(name)
  BY <1>1, <1>2
<1>6. (name = <<>> <=> Len(name) = 0) /\ (NamePart(name) = <<>> <=> n = 0)
  BY <1>4, EmptyIffNoLength
<1> QED
  BY <1>2, <1>4, <1>5, <1>6

LEMMA NamesFacts ==
  ASSUME NEW end
  PROVE  /\ NamesUpTo(end, 0) = <<>> /\ dir_count \in Nat
         /\ \A m \in 0..(dir_count - 1) :
              NamesUpTo(end, m + 1) =
                NamesUpTo(end, m) \o (NamePart(direntries[m + 1].file_name) \o end)
<1> DEFINE pieces == [i \in 1..dir_count |-> NamePart(direntries[i].file_name) \o end]
<1>1. dir_count \in Nat
  BY ImageAssumption, SequenceFacts DEF dir_count
<1>2. /\ DOMAIN pieces = 1..dir_count /\ pieces = [i \in 1..dir_count |-> pieces[i]]
      /\ \A i \in 1..dir_count : pieces[i] = NamePart(direntries[i].file_name) \o end
  OBVIOUS
<1>3. \A m : NamesUpTo(end, m) = Joined(pieces, m)
  BY DEF NamesUpTo
<1> HIDE DEF pieces, dir_count
<1>4. Len(pieces) = dir_count
  BY <1>1, <1>2, TupleFacts
<1>5. \A m \in 0..(dir_count - 1) : m + 1 \in 1..dir_count
  BY <1>1
<1>6. Joined(pieces, 0) = <<>> /\ \A m \in 0..(dir_count - 1) :
        Joined(pieces, m + 1) = Joined(pieces, m) \o pieces[m + 1]
  BY <1>1, <1>4, JoinedFacts
<1> QED
  BY <1>1, <1>2, <1>3, <1>5, <1>6

\* The entry that a name opens is one in use, of that name.
LEMMA FoundByName ==
  ASSUME NEW fname, read_dentry_by_name(fname) # {}
  PROVE  \E i \in 1..dir_count : /\ SameName(fname, direntries[i].file_name)
                                 /\ read_dentry_by_name(fname) = {direntries[i]}
<1> DEFINE found == {i \in 1..dir_count : SameName(fname, direntries[i].file_name)}
           first == CHOOSE i \in found : \A j \in found : i <= j
<1>1. dir_count \in Nat /\ NUM_MAX_FILES \in Nat /\ dir_count < NUM_MAX_FILES
  BY ImageAssumption, DirectoryAssumption, SequenceFacts DEF dir_count
<1> HIDE DEF dir_count
<1>2. found # {} /\ read_dentry_by_name(fname) = read_dentry_by_index(first - 1)
  BY DEF read_dentry_by_name
<1>3. found \in SUBSET Nat
  BY <1>1
<1>4. first \in found
  <2> HIDE DEF found
  <2>1. \E i \in found : \A j \in found : i <= j
    BY <1>2, <1>3, NatMin
  <2> QED
    BY <2>1
<1> HIDE DEF first
<1>5. first \in 1..dir_count /\ SameName(fname, direntries[first].file_name)
  BY <1>4
<1>6. /\ ~(first - 1 > dir_count) /\ ~(NUM_MAX_FILES < first - 1) /\ first - 1 # dir_count
      /\ (first - 1) + 1 = first
  BY <1>1, <1>5
<1>7. read_dentry_by_index(first - 1) = {direntries[first]}
  BY <1>6 DEF read_dentry_by_index
<1> QED
  BY <1>2, <1>5, <1>7

LEMMA OpensKeepsGood ==
  ASSUME GoodFrame(running), IsFrame(running), Opens
  PROVE  GoodFrame(running')
<1> DEFINE fname == IF running.kind = "ls" THEN <<".">> ELSE running.arg
           entry == read_dentry_by_name(fname)
           e == CHOOSE x \in entry : TRUE
<1>1. /\ running.kind \in {"cat", "ls"} /\ running.pc = "start"
      /\ IsSequence(running.buf)
      /\ running.d = NoFd /\ running.count = 0 /\ running.printed = <<>>
  BY DEF Opens, GoodFrame, ReaderInv
<1>2. ASSUME NEW status, running' = [running EXCEPT !.pc = "exit", !.count = status]
      PROVE  GoodFrame(running')
  <2>1. /\ running'.kind = running.kind /\ running'.pc = "exit" /\ running'.d = running.d
        /\ running'.buf = running.buf /\ running'.printed = running.printed
    BY <1>2 DEF IsFrame
  <2> QED
    BY <1>1, <2>1 DEF GoodFrame, ReaderInv
<1>3. CASE entry # {} /\ running' = [running EXCEPT !.pc = "get", !.d = Descriptor(e)]
  <2>1. PICK i \in 1..dir_count : /\ SameName(fname, direntries[i].file_name)
                                  /\ entry = {direntries[i]}
    BY <1>3, FoundByName
  <2>2. e = direntries[i]
    BY <2>1
  <2>3. /\ e.file_type \in 0..2
        /\ e.file_type = 2 => e.inode_num \in DOMAIN inodes
        /\ SameName(<<".">>, e.file_name) => e.file_type = 1
    BY <2>1, <2>2, ImageAssumption
  <2> HIDE DEF e
  <2>4. running.kind = "ls" => e.file_type = 1
    BY <2>1, <2>2, <2>3
  <2> DEFINE d == Descriptor(e)
  <2>5. /\ d.file_position = 0 /\ d.inode_idx = e.inode_num
        /\ e.file_type = 0 => d.fop = "rtc"
        /\ e.file_type = 1 => d.fop = "directories"
        /\ e.file_type = 2 => d.fop = "files"
        /\ IsDescriptor(d)
    BY DEF Descriptor, IsDescriptor
  <2> HIDE DEF d, fname, entry
  <2>6. e.file_type = 0 \/ e.file_type = 1 \/ e.file_type = 2
    BY <2>3
  <2>7. d # NoFd
    BY <2>5, <2>6 DEF NoFd
  <2>8. /\ running'.kind = running.kind /\ running'.pc = "get" /\ running'.d = d
        /\ running'.buf = running.buf /\ running'.printed = <<>> /\ running'.count = 0
    BY <1>1, <1>3 DEF IsFrame, d
  <2>9. CASE e.file_type = 0
    BY <1>1, <2>4, <2>5, <2>7, <2>8, <2>9 DEF GoodFrame, ReaderInv, Reading
  <2>10. CASE e.file_type = 1
    <3>1. NamesUpTo(LineEnd(running'), 0) = <<>> /\ dir_count \in Nat /\ 0 <= dir_count
      BY NamesFacts
    <3>2. DirectoryInv(running')
      BY <2>5, <2>8, <3>1 DEF DirectoryInv
    <3> QED
      BY <1>1, <2>5, <2>7, <2>8, <2>10, <3>2 DEF GoodFrame, ReaderInv, Reading
  <2>11. CASE e.file_type = 2
    <3>1. e.inode_num \in DOMAIN inodes /\ running.kind = "cat"
      BY <1>1, <2>3, <2>4, <2>11
    <3>2. inodes[e.inode_num].length \in Nat
      BY <3>1, ContentFacts
    <3>3. 0 % BUFSIZE = 0 /\ 0 # NUM_COLS - 1
      BY BufsizeAssumption, Sizes
    <3>4. Prefix(e.inode_num, 0) \o Extra(0) = <<>>
      <4>1. /\ IsSequence(Prefix(e.inode_num, 0)) /\ Len(Prefix(e.inode_num, 0)) = 0
        BY PrefixFacts
      <4>2. Prefix(e.inode_num, 0) = <<>>
        BY <4>1, EmptyIffNoLength
      <4>3. Extra(0) = <<>>
        BY <3>3 DEF Extra
      <4> QED
        BY <4>2, <4>3, ConcatEmpty, EmptyIsSequence
    <3>5. FileInv(running')
      <4>1. 0 \in 0..inodes[e.inode_num].length
        BY <3>2
      <4> QED
        BY <2>5, <2>8, <3>1, <3>3, <3>4, <4>1 DEF FileInv
    <3> QED
      BY <1>1, <2>5, <2>7, <2>8, <2>11, <3>5 DEF GoodFrame, ReaderInv, Reading
  <2> QED
    BY <2>6, <2>9, <2>10, <2>11
<1>4. \/ \E status : running' = [running EXCEPT !.pc = "exit", !.count = status]
      \/ entry # {} /\ running' = [running EXCEPT !.pc = "get", !.d = Descriptor(e)]
  BY DEF Opens, Fails
<1> QED
  BY <1>2, <1>3, <1>4

LEMMA NothingExtra ==
  ASSUME NEW s, IsSequence(s), NEW n, n % BUFSIZE = 0
  PROVE  s \o Extra(n) = s
<1>1. Extra(n) = <<>>
  BY Sizes DEF Extra
<1> QED
  BY <1>1, ConcatEmpty

\* Behind so many whole reads, and behind one more.
LEMMA ReadPositions ==
  ASSUME NEW x \in Nat, x % BUFSIZE = 0, NEW y \in 0..BUFSIZE
  PROVE  (x + y) % BUFSIZE = IF y = BUFSIZE THEN 0 ELSE y
<1> DEFINE z == x \div BUFSIZE
<1>1. BUFSIZE \in Nat /\ BUFSIZE > 0
  BY BufsizeAssumption, Sizes
<1>2. z \in Nat /\ x = BUFSIZE * z
  BY <1>1
<1> HIDE DEF z
<1>3. \A u \in Nat, v \in 0..(BUFSIZE - 1) : (BUFSIZE * u + v) % BUFSIZE = v
  BY <1>1
<1>4. CASE y = BUFSIZE
  <2>1. x + y = BUFSIZE * (z + 1) + 0 /\ z + 1 \in Nat /\ 0 \in 0..(BUFSIZE - 1)
    BY <1>1, <1>2, <1>4
  <2> QED
    BY <1>3, <1>4, <2>1
<1>5. CASE y # BUFSIZE
  <2>1. y \in 0..(BUFSIZE - 1)
    BY <1>1, <1>5
  <2> QED
    BY <1>2, <1>3, <1>5, <2>1
<1> QED
  BY <1>4, <1>5

LEMMA MovedFacts ==
  ASSUME NEW d, IsDescriptor(d), NEW n
  PROVE  /\ Moved(d, n).fop = d.fop /\ Moved(d, n).inode_idx = d.inode_idx
         /\ Moved(d, n).file_position = d.file_position + n
         /\ IsDescriptor(Moved(d, n))
BY DEF Moved, IsDescriptor

\* A read of a file by cat.
LEMMA FileIsRead ==
  ASSUME GoodFrame(running), IsFrame(running), running.pc = "get", running.d.fop = "files",
         running.kind \in {"cat", "ls"}, Gets
  PROVE  GoodFrame(running')
<1> DEFINE d == running.d
           inode == d.inode_idx
           p == d.file_position
           end == inodes[inode].length
           r == read_data(inode, p, BUFSIZE)
           f == running'
<1>1. /\ d # NoFd /\ running.count = 0 /\ FileInv(running) /\ IsDescriptor(d)
  BY DEF GoodFrame, ReaderInv, Reading, NoFd
<1>2. /\ running.kind = "cat" /\ inode \in DOMAIN inodes /\ p \in 0..end
      /\ p % BUFSIZE = 0 \/ p = end
      /\ IsText(Content(inode)) => running.printed = Prefix(inode, p) \o Extra(p)
  BY <1>1 DEF FileInv
<1>3. end \in Nat /\ BUFSIZE \in Nat /\ BUFSIZE > 0 /\ BUFSIZE > NUM_COLS
  BY <1>2, ContentFacts, BufsizeAssumption, Sizes
<1>4. ~(BUFSIZE <= 0)
  BY <1>3
<1>5. file_read(d, BUFSIZE) =
        [result |-> r, d |-> IF r.ok THEN Moved(d, Len(r.bytes)) ELSE d]
  BY <1>4 DEF file_read
<1>6. r.ok = TRUE => running' = [running EXCEPT
                 !.d = Moved(d, Len(r.bytes)),
                 !.pc = IF r.bytes = <<>> THEN "exit" ELSE "put",
                 !.buf = r.bytes]
  <2>1. /\ running.d.fop = "files" /\ running.kind = "cat" /\ running.kind # "ls"
        /\ running.d.fop # "rtc"
    BY <1>2
  <2> DEFINE got == file_read(running.d, BUFSIZE)
  <2>2. got.result.ok => running' = [running EXCEPT
                 !.d = got.d,
                 !.pc = IF got.result.bytes = <<>> THEN "exit" ELSE "put",
                 !.buf = got.result.bytes]
    BY <2>1 DEF Gets
  <2> HIDE DEF r
  <2>3. got.result = r /\ (r.ok => got.d = Moved(d, Len(r.bytes)))
    BY <1>5
  <2> HIDE DEF got
  <2> QED
    BY <2>2, <2>3
<1> HIDE DEF d, inode, p, end, r
<1>7. ASSUME r.ok = TRUE
      PROVE  /\ f.kind = "cat" /\ f.count = 0 /\ f.printed = running.printed
             /\ f.pc = (IF r.bytes = <<>> THEN "exit" ELSE "put") /\ f.buf = r.bytes
             /\ IsDescriptor(f.d) /\ f.d.fop = "files" /\ f.d.inode_idx = inode
             /\ f.d.file_position = p + Len(r.bytes)
  <2> DEFINE moved == Moved(d, Len(r.bytes))
  <2>1. /\ moved.fop = d.fop /\ moved.inode_idx = inode /\ IsDescriptor(moved)
        /\ moved.file_position = p + Len(r.bytes)
    BY <1>1, MovedFacts DEF inode, p
  <2>2. d.fop = "files"
    BY DEF d
  <2> HIDE DEF moved
  <2>3. /\ f.kind = "cat" /\ f.count = 0 /\ f.printed = running.printed
        /\ f.pc = (IF r.bytes = <<>> THEN "exit" ELSE "put") /\ f.buf = r.bytes
        /\ f.d = moved
    BY <1>1, <1>2, <1>6, <1>7 DEF IsFrame, moved
  <2> QED
    BY <2>1, <2>2, <2>3
<1>8. ASSUME r.ok = TRUE, IsSequence(r.bytes), FileInv(f)
      PROVE  GoodFrame(f)
  <2> HIDE DEF f
  <2>1. f.d # NoFd
    <3>1. f.d.fop = "files"
      BY <1>7, <1>8
    <3>2. NoFd.fop = "null"
      BY DEF NoFd
    <3> QED
      BY <3>1, <3>2
  <2>2. f.pc \in {"exit", "put"}
    BY <1>7, <1>8
  <2> QED
    BY <1>7, <1>8, <2>1, <2>2 DEF GoodFrame, ReaderInv, Reading
<1>9. CASE p >= end
  <2>1. p = end /\ p + 0 = p
    BY <1>2, <1>3, <1>9
  <2>2. r = Read(<<>>)
    BY <1>2, <1>9 DEF read_data, r, inode, p, end, d
  <2>3. r.ok = TRUE /\ r.bytes = <<>> /\ Len(r.bytes) = 0 /\ IsSequence(r.bytes)
    BY <2>2, EmptyIsSequence DEF Read
  <2>4. FileInv(f)
    <3>1. f.d.file_position = p /\ f.pc = "exit" /\ f.kind = "cat" /\ f.d.inode_idx = inode
          /\ f.printed = running.printed
      BY <1>7, <2>1, <2>3
    <3> HIDE DEF f
    <3> QED
      BY <1>2, <2>1, <3>1 DEF FileInv, end
  <2> QED
    BY <1>8, <2>3, <2>4
<1>10. CASE ~(p >= end)
  <2> DEFINE stop == IF p + BUFSIZE < end THEN p + BUFSIZE ELSE end
             bytes == [i \in 1..(stop - p) |-> ByteAt(inode, p + i - 1)]
  <2>1. /\ stop \in 0..end /\ stop - p \in Nat /\ stop - p > 0
        /\ stop - p = BUFSIZE \/ (stop = end /\ stop - p < BUFSIZE)
        /\ p + (stop - p) = stop /\ p \in 0..(stop - 1) /\ p # end
    BY <1>2, <1>3, <1>10
  <2>2. r = Read(bytes)
    BY <1>2, <1>10 DEF read_data, r, inode, p, end, d
  <2>3. IsSequence(bytes) /\ Len(bytes) = stop - p
    <3>1. DOMAIN bytes = 1..(stop - p) /\ bytes = [i \in 1..(stop - p) |-> bytes[i]]
      OBVIOUS
    <3> HIDE DEF bytes, stop
    <3> QED
      BY <2>1, <3>1, TupleFacts
  <2>4. r.ok = TRUE /\ r.bytes = bytes
    BY <2>2 DEF Read
  <2> HIDE DEF stop
  <2>5. bytes # <<>>
    <3> HIDE DEF bytes
    <3> QED
      BY <2>1, <2>3, EmptyIffNoLength
  <2>6. p % BUFSIZE = 0
    BY <1>2, <2>1
  <2>7. IsText(Content(inode)) => running.printed = Prefix(inode, p)
    <3>1. IsSequence(Prefix(inode, p))
      <4>1. p \in Nat
        BY <1>2, <1>3
      <4> QED
        BY <4>1, PrefixFacts
    <3> QED
      BY <1>2, <2>6, <3>1, NothingExtra
  <2>8. FileInv(f)
    <3>1. /\ f.d.file_position = stop /\ f.pc = "put" /\ f.kind = "cat" /\ f.d.inode_idx = inode
          /\ f.printed = running.printed /\ f.buf = bytes
      BY <1>7, <2>1, <2>3, <2>4, <2>5
    <3> HIDE DEF f
    <3> QED
      BY <1>2, <2>1, <2>6, <2>7, <3>1 DEF FileInv, end
  <2> HIDE DEF bytes
  <2> QED
    BY <1>8, <2>3, <2>4, <2>8
<1> QED
  BY <1>9, <1>10

\* What cat prints of it.
LEMMA FileIsPrinted ==
  ASSUME GoodFrame(running), IsFrame(running), running.pc = "put", running.d.fop = "files",
         running.kind \in {"cat", "ls"}, Puts
  PROVE  GoodFrame(running')
<1> DEFINE inode == running.d.inode_idx
           p == running.d.file_position
           end == inodes[inode].length
           buf == running.buf
           f == running'
<1>1. /\ running.d # NoFd /\ running.count = 0 /\ FileInv(running) /\ IsDescriptor(running.d)
  BY DEF GoodFrame, ReaderInv, Reading, NoFd
<1>2. running.kind = "cat" /\ inode \in DOMAIN inodes /\ p \in 0..end
  BY <1>1 DEF FileInv
<1>3. PICK q \in 0..(p - 1) :
        /\ q % BUFSIZE = 0 /\ (p - q = BUFSIZE \/ (p = end /\ p - q < BUFSIZE))
        /\ buf = [k \in 1..(p - q) |-> ByteAt(inode, q + k - 1)]
        /\ IsText(Content(inode)) => running.printed = Prefix(inode, q)
  BY <1>1 DEF FileInv
<1>4. /\ f.kind = "cat" /\ f.count = 0 /\ f.printed = running.printed \o Written(buf)
      /\ f.pc = "get" /\ f.buf = buf /\ f.d = running.d
  BY <1>1, <1>2 DEF Puts, IsFrame
<1>5. /\ end \in Nat /\ BUFSIZE \in Nat /\ BUFSIZE > 0 /\ BUFSIZE > NUM_COLS
      /\ NUM_COLS \in Nat /\ NUM_COLS >= 2
  BY <1>2, ContentFacts, BufsizeAssumption, Sizes
<1> HIDE DEF inode, p, end
<1>6. p \in Nat /\ q \in Nat /\ p - q \in Nat /\ p - q > 0 /\ q + (p - q) = p
  <2>1. p \in Nat
    BY <1>2, <1>5
  <2>2. q \in 0..(p - 1)
    OBVIOUS
  <2> QED
    BY <2>1, <2>2
<1>7. IsSequence(buf) /\ Len(buf) = p - q /\ \A k \in 1..(p - q) : buf[k] = ByteAt(inode, q + k - 1)
  <2>1. DOMAIN buf = 1..(p - q) /\ buf = [i \in 1..(p - q) |-> buf[i]]
        /\ \A k \in 1..(p - q) : buf[k] = ByteAt(inode, q + k - 1)
    BY <1>3
  <2> HIDE DEF buf
  <2> QED
    BY <1>6, <2>1, TupleFacts
<1> HIDE DEF buf, f
<1>8. p % BUFSIZE = 0 \/ p = end
  <2>1. ASSUME p - q = BUFSIZE PROVE p % BUFSIZE = 0
    <3>1. p = q + BUFSIZE /\ BUFSIZE \in 0..BUFSIZE
      BY <1>5, <1>6, <2>1
    <3> QED
      BY <1>3, <1>6, <3>1, ReadPositions
  <2> QED
    BY <1>3, <2>1
<1>9. ASSUME IsText(Content(inode)) PROVE f.printed = Prefix(inode, p) \o Extra(p)
  <2>1. Content(inode) = Prefix(inode, end) /\ Len(Prefix(inode, end)) = end
        /\ \A k \in 1..end : Prefix(inode, end)[k] = ByteAt(inode, k - 1)
    BY <1>2, <1>5, ContentFacts, PrefixFacts DEF end
  <2>2. \A k \in 1..(p - q) : buf[k] # Nul
    <3> TAKE k \in 1..(p - q)
    <3>1. q + k \in 1..end /\ (q + k) - 1 = q + k - 1
      BY <1>2, <1>5, <1>6
    <3>2. Prefix(inode, end)[q + k] # Nul
      BY <1>9, <2>1, <3>1 DEF IsText
    <3> QED
      BY <1>7, <2>1, <3>1, <3>2
  <2>3. buf # <<>>
    BY <1>6, <1>7, EmptyIffNoLength
  <2>4. Written(buf) = IF p - q = NUM_COLS - 1 THEN buf \o <<NewLine>> ELSE buf
    <3>1. Written(buf) = IF Len(buf) = NUM_COLS - 1 THEN buf \o <<NewLine>> ELSE buf
      BY <1>7, <2>2, <2>3, WrittenFacts
    <3> QED
      BY <1>7, <3>1
  <2>5. (p % BUFSIZE = NUM_COLS - 1) <=> (p - q = NUM_COLS - 1)
    <3>1. CASE p - q = BUFSIZE
      <4>1. p = q + BUFSIZE /\ BUFSIZE \in 0..BUFSIZE
        BY <1>5, <1>6, <3>1
      <4>2. p % BUFSIZE = 0
        BY <1>3, <1>6, <4>1, ReadPositions
      <4> QED
        BY <1>5, <3>1, <4>2
    <3>2. CASE p - q < BUFSIZE
      <4> DEFINE y == p - q
      <4>1. y \in 0..BUFSIZE /\ y # BUFSIZE /\ q + y = p
        BY <1>5, <1>6, <3>2
      <4> HIDE DEF y
      <4>2. (q + y) % BUFSIZE = y
        BY <1>3, <1>6, <4>1, ReadPositions
      <4> QED
        BY <4>1, <4>2 DEF y
    <3> QED
      BY <1>3, <3>1, <3>2
  <2>6. IsSequence(Prefix(inode, q)) /\ IsSequence(Prefix(inode, p))
        /\ Len(Prefix(inode, q)) = q /\ Len(Prefix(inode, p)) = p
        /\ (\A k \in 1..q : Prefix(inode, q)[k] = ByteAt(inode, k - 1))
        /\ (\A k \in 1..p : Prefix(inode, p)[k] = ByteAt(inode, k - 1))
    BY <1>6, PrefixFacts
  <2>7. Prefix(inode, q) \o buf = Prefix(inode, p)
    <3> DEFINE a == Prefix(inode, q)
               c == Prefix(inode, p)
               l == a \o buf
    <3>1. /\ IsSequence(l) /\ Len(l) = q + (p - q)
          /\ \A k \in 1..q : l[k] = a[k]
          /\ \A k \in 1..(p - q) : l[q + k] = buf[k]
      <4> HIDE DEF a
      <4>1. IsSequence(a) /\ Len(a) = q
        BY <2>6 DEF a
      <4>2. /\ IsSequence(a \o buf) /\ Len(a \o buf) = Len(a) + Len(buf)
            /\ \A k \in 1..Len(a) : (a \o buf)[k] = a[k]
            /\ \A k \in 1..Len(buf) : (a \o buf)[Len(a) + k] = buf[k]
        <5>1. IsSequence(a) /\ IsSequence(buf)
          BY <1>7, <4>1
        <5> QED
          BY ONLY <5>1, ConcatFacts
      <4> QED
        BY <1>7, <4>1, <4>2, Zenon
    <3> HIDE DEF l
    <3>2. \A k \in 1..p : l[k] = c[k]
      <4> TAKE k \in 1..p
      <4>1. CASE k <= q
        <5>1. k \in 1..q
          BY <1>6, <4>1
        <5> QED
          BY <2>6, <3>1, <5>1
      <4>2. CASE ~(k <= q)
        <5> DEFINE i == k - q
        <5>1. i \in 1..(p - q) /\ q + i = k /\ q + i - 1 = k - 1
          BY <1>6, <4>2
        <5> HIDE DEF i
        <5> QED
          BY <1>7, <2>6, <3>1, <5>1
      <4> QED
        BY <4>1, <4>2
    <3>3. l = c
      <4> HIDE DEF c
      <4>1. IsSequence(c) /\ Len(c) = p
        BY <2>6 DEF c
      <4> QED
        BY <1>6, <3>1, <3>2, <4>1, SameSequence
    <3> QED
      BY <3>3 DEF l
  <2>8. running.printed = Prefix(inode, q)
    BY <1>3, <1>9
  <2>9. CASE p - q = NUM_COLS - 1
    <3>1. Extra(p) = <<NewLine>> /\ Written(buf) = buf \o <<NewLine>>
      BY <2>4, <2>5, <2>9 DEF Extra
    <3>2. (Prefix(inode, q) \o buf) \o <<NewLine>> = Prefix(inode, q) \o (buf \o <<NewLine>>)
      <4>1. IsSequence(Prefix(inode, q)) /\ IsSequence(<<NewLine>>) /\ IsSequence(buf)
        BY <1>7, <2>6, SingleIsSequence
      <4> QED
        BY ONLY <4>1, Regroup
    <3> QED
      BY <1>4, <2>7, <2>8, <3>1, <3>2
  <2>10. CASE p - q # NUM_COLS - 1
    <3>1. Extra(p) = <<>> /\ Written(buf) = buf
      BY <2>4, <2>5, <2>10 DEF Extra
    <3>2. Prefix(inode, p) \o <<>> = Prefix(inode, p)
      BY <2>6, ConcatEmpty
    <3> QED
      BY <1>4, <2>7, <2>8, <3>1, <3>2
  <2> QED
    BY <2>9, <2>10
<1>10. FileInv(f)
  BY <1>2, <1>4, <1>8, <1>9 DEF FileInv, inode, p, end
<1>11. GoodFrame(f)
  BY <1>1, <1>4, <1>7, <1>10 DEF GoodFrame, ReaderInv, Reading
<1> QED
  BY <1>11 DEF f

\* A name with what ls puts behind it is shorter than a row, and nothing is added.
LEMMA NamesArePrinted ==
  ASSUME NEW i \in 1..dir_count, NEW end, end = <<>> \/ end = <<NewLine>>
  PROVE  LET name == NamePart(direntries[i].file_name) IN
         /\ IsSequence(name) /\ name # <<>> /\ IsSequence(name \o end)
         /\ Written(name \o end) = name \o end
<1> DEFINE name == NamePart(direntries[i].file_name)
           n == Len(name)
           m == Len(end)
           buf == name \o end
<1>1. /\ IsSequence(direntries[i].file_name) /\ direntries[i].file_name # <<>>
      /\ \A j \in 1..Len(direntries[i].file_name) : direntries[i].file_name[j] # Nul
      /\ NAME_BYTES + 2 < NUM_COLS /\ NAME_BYTES \in Nat /\ NUM_COLS \in Nat
  BY ImageAssumption, NamesAssumption, NameAssumption, Sizes
<1>2. /\ IsSequence(name) /\ n <= NAME_BYTES /\ name # <<>>
      /\ \A j \in 1..n : name[j] # Nul
  BY <1>1, NamePartFacts
<1>3. IsSequence(end) /\ m \in {0, 1} /\ \A j \in 1..m : end[j] # Nul
  <2>1. CASE end = <<>>
    BY <2>1, EmptyIsSequence
  <2>2. CASE end = <<NewLine>>
    <3>1. IsSequence(<<NewLine>>) /\ Len(<<NewLine>>) = 1 /\ <<NewLine>>[1] = NewLine
      BY SingleIsSequence
    <3>2. NewLine # Nul
      BY DEF NewLine, Nul
    <3> QED
      BY <2>2, <3>1, <3>2
  <2> QED
    BY <2>1, <2>2
<1>4. n \in Nat /\ n # 0
  BY <1>2, SequenceFacts, EmptyIffNoLength
<1> HIDE DEF name
<1>5. /\ IsSequence(buf) /\ Len(buf) = n + m /\ (\A j \in 1..n : buf[j] = name[j])
      /\ \A j \in 1..m : buf[n + j] = end[j]
  <2>1. IsSequence(name) /\ IsSequence(end)
    BY <1>2, <1>3
  <2> QED
    BY ONLY <2>1, ConcatFacts
<1> HIDE DEF buf, n, m
<1>6. \A j \in 1..Len(buf) : buf[j] # Nul
  <2> TAKE j \in 1..Len(buf)
  <2>1. CASE j <= n
    <3>1. j \in 1..n
      BY <1>4, <1>5, <2>1
    <3> QED
      BY <1>2, <1>5, <3>1
  <2>2. CASE ~(j <= n)
    <3>1. m = 1 /\ j = n + 1 /\ 1 \in 1..m
      BY <1>3, <1>4, <1>5, <2>2
    <3> QED
      BY <1>3, <1>5, <3>1
  <2> QED
    BY <2>1, <2>2
<1>7. Len(buf) # 0 /\ Len(buf) # NUM_COLS - 1
  BY <1>1, <1>2, <1>3, <1>4, <1>5
<1>8. buf # <<>>
  BY <1>5, <1>7, EmptyIffNoLength
<1>9. Written(buf) = buf
  BY <1>5, <1>6, <1>7, <1>8, WrittenFacts
<1> QED
  BY <1>2, <1>5, <1>9 DEF name, buf

\* A read of the directory.
LEMMA DirectoryIsRead ==
  ASSUME GoodFrame(running), IsFrame(running), running.pc = "get",
         running.d.fop = "directories", running.kind \in {"cat", "ls"}, Gets
  PROVE  GoodFrame(running')
<1> DEFINE d == running.d
           p == d.file_position
           end == LineEnd(running)
           entry == IF p = dir_count THEN ZeroEntry ELSE direntries[p + 1]
           bytes == NamePart(entry.file_name)
           f == running'
<1>1. /\ d # NoFd /\ running.count = 0 /\ DirectoryInv(running) /\ IsDescriptor(d)
  BY DEF GoodFrame, ReaderInv, Reading, NoFd
<1>2. /\ p \in Nat /\ p <= dir_count /\ running.printed = NamesUpTo(end, p)
  BY <1>1 DEF DirectoryInv
<1>3. dir_count \in Nat /\ NUM_MAX_FILES \in Nat /\ dir_count < NUM_MAX_FILES
  BY NamesFacts, DirectoryAssumption
<1>4. read_dentry_by_index(p) = {entry}
  <2>1. ~(p > dir_count \/ NUM_MAX_FILES < p)
    BY <1>2, <1>3
  <2> QED
    BY <2>1 DEF read_dentry_by_index
<1>5. directory_read(d).result = Read(bytes) /\ directory_read(d).d = Moved(d, 1)
  <2>1. {entry} # {} /\ (CHOOSE x \in {entry} : TRUE) = entry
    OBVIOUS
  <2> HIDE DEF entry, d
  <2> QED
    BY <1>4, <2>1 DEF directory_read, p
<1> DEFINE put == IF running.kind = "ls" THEN Append(bytes, NewLine) ELSE bytes
<1>6. running' = [running EXCEPT !.d = Moved(d, 1),
                    !.pc = IF bytes = <<>> THEN "exit" ELSE "put", !.buf = put]
  <2> DEFINE got == directory_read(running.d)
             r == got.result
  <2>1. running.d.fop # "files" /\ running.d.fop # "rtc"
    OBVIOUS
  <2>2. r.ok => running' = [running EXCEPT !.d = got.d,
                    !.pc = IF r.bytes = <<>> THEN "exit" ELSE "put",
                    !.buf = IF running.kind = "ls" THEN Append(r.bytes, NewLine) ELSE r.bytes]
    BY <2>1 DEF Gets
  <2> HIDE DEF bytes, got
  <2>3. got.d = Moved(d, 1) /\ r.ok = TRUE /\ r.bytes = bytes
    BY <1>5 DEF Read, got
  <2> QED
    BY <2>2, <2>3
<1>7. /\ IsSequence(bytes) /\ (p = dir_count => bytes = <<>>) /\ (p # dir_count => bytes # <<>>)
  <2>1. CASE p = dir_count
    <3>1. entry.file_name = <<>>
      BY <2>1 DEF ZeroEntry
    <3> QED
      BY <2>1, <3>1, EmptyIsSequence, NamePartFacts
  <2>2. CASE p # dir_count
    <3>1. p + 1 \in 1..dir_count /\ entry = direntries[p + 1]
      BY <1>2, <1>3, <2>2
    <3> HIDE DEF entry
    <3> QED
      BY <2>2, <3>1, NamesArePrinted
  <2> QED
    BY <2>1, <2>2
<1>8. IsSequence(put) /\ (p # dir_count => put = bytes \o end)
  <2> HIDE DEF bytes
  <2>1. CASE running.kind = "ls"
    <3>1. Append(bytes, NewLine) = bytes \o <<NewLine>> /\ IsSequence(Append(bytes, NewLine))
      BY <1>7, AppendedOne, AppendFacts
    <3> QED
      BY <2>1, <3>1 DEF LineEnd
  <2>2. CASE running.kind # "ls"
    BY <1>7, <2>2, ConcatEmpty DEF LineEnd
  <2> QED
    BY <2>1, <2>2
<1>9. bytes = NamePart(direntries[p + 1].file_name) \/ p = dir_count
  OBVIOUS
<1> HIDE DEF bytes, put, entry, p, end
<1>10. /\ f.kind = running.kind /\ f.count = 0 /\ f.printed = running.printed
       /\ f.pc = (IF bytes = <<>> THEN "exit" ELSE "put") /\ f.buf = put
       /\ f.d = Moved(d, 1)
  BY <1>1, <1>6 DEF IsFrame
<1> HIDE DEF f, d
<1>11. /\ f.d.fop = "directories" /\ f.d.file_position = p + 1 /\ IsDescriptor(f.d)
  <2>1. d.fop = "directories"
    BY DEF d
  <2> QED
    BY <1>1, <1>10, <2>1, MovedFacts DEF p
<1>12. LineEnd(f) = end
  BY <1>10 DEF LineEnd, end
<1>13. DirectoryInv(f) /\ f.pc \in {"exit", "put"}
  <2>1. CASE p = dir_count
    <3>1. f.pc = "exit" /\ f.printed = NamesUpTo(end, dir_count) /\ p + 1 \in Nat
      BY <1>2, <1>7, <1>10, <2>1
    <3> QED
      BY <1>11, <1>12, <3>1 DEF DirectoryInv
  <2>2. CASE p # dir_count
    <3>1. p + 1 \in 1..dir_count /\ p + 1 \in Nat /\ (p + 1) - 1 = p
      BY <1>2, <1>3, <2>2
    <3>2. f.pc = "put" /\ f.printed = NamesUpTo(end, p)
      BY <1>2, <1>7, <1>10, <2>2
    <3>3. f.buf = NamePart(direntries[p + 1].file_name) \o end
      BY <1>8, <1>9, <1>10, <2>2
    <3> QED
      BY <1>11, <1>12, <3>1, <3>2, <3>3 DEF DirectoryInv
  <2> QED
    BY <2>1, <2>2
<1>14. f.d # NoFd
  <2>1. NoFd.fop = "null"
    BY DEF NoFd
  <2> QED
    BY <1>11, <2>1
<1>15. GoodFrame(f)
  BY <1>8, <1>10, <1>11, <1>13, <1>14 DEF GoodFrame, ReaderInv, Reading
<1> QED
  BY <1>15 DEF f

\* What is printed of it.
LEMMA NameIsPrinted ==
  ASSUME GoodFrame(running), IsFrame(running), running.pc = "put",
         running.d.fop = "directories", running.kind \in {"cat", "ls"}, Puts
  PROVE  GoodFrame(running')
<1> DEFINE p == running.d.file_position
           end == LineEnd(running)
           buf == running.buf
           f == running'
<1>1. /\ running.d # NoFd /\ running.count = 0 /\ DirectoryInv(running) /\ IsDescriptor(running.d)
      /\ IsSequence(buf)
  BY DEF GoodFrame, ReaderInv, Reading, NoFd
<1>2. /\ p \in 1..dir_count /\ running.printed = NamesUpTo(end, p - 1)
      /\ buf = NamePart(direntries[p].file_name) \o end
  BY <1>1 DEF DirectoryInv
<1>3. /\ f.kind = running.kind /\ f.count = 0 /\ f.printed = running.printed \o Written(buf)
      /\ f.pc = "get" /\ f.buf = buf /\ f.d = running.d
  BY <1>1 DEF Puts, IsFrame
<1>4. end = <<>> \/ end = <<NewLine>>
  BY DEF LineEnd
<1> HIDE DEF p, end, buf, f
<1>5. Written(buf) = buf
  BY <1>2, <1>4, NamesArePrinted
<1>6. /\ p - 1 \in 0..(dir_count - 1) /\ (p - 1) + 1 = p /\ p \in Nat /\ p <= dir_count
  <2>1. dir_count \in Nat
    BY NamesFacts
  <2> QED
    BY <1>2, <2>1
<1>7. NamesUpTo(end, p) = NamesUpTo(end, p - 1) \o buf
  <2>1. NamesUpTo(end, (p - 1) + 1) =
          NamesUpTo(end, p - 1) \o (NamePart(direntries[(p - 1) + 1].file_name) \o end)
    BY <1>6, NamesFacts
  <2> QED
    BY <1>2, <1>6, <2>1
<1>8. LineEnd(f) = end /\ f.d.file_position = p
  BY <1>3 DEF LineEnd, end, p
<1>9. DirectoryInv(f)
  BY <1>2, <1>3, <1>5, <1>6, <1>7, <1>8 DEF DirectoryInv
<1>10. GoodFrame(f)
  BY <1>1, <1>3, <1>9 DEF GoodFrame, ReaderInv, Reading
<1> QED
  BY <1>10 DEF f

LEMMA FilesKeepEcho ==
  ASSUME EchoInv, Opens \/ Gets \/ Puts
  PROVE  EchoInv'
<1>1. /\ IInv' /\ GoodFrame(running) /\ GoodFrames(suspended)
      /\ running.kind \in {"cat", "ls"} /\ IsFrame(running) /\ running.kind \notin Handlers
  BY FilesKeepInvariant, KindIsProgram
  DEF EchoInv, BufsInv, Opens, Gets, Puts, IsProgram
<1>2. running.pc \in {"start", "get", "put"} /\ IsSequence(running.buf)
  BY <1>1 DEF Opens, Gets, Puts, GoodFrame
<1>3. UNCHANGED <<session, suspended, keyVars, key_code, termVars>>
  BY DEF Opens, Gets, Puts, Fails, Goto, Quiet, Printing
<1>4. \/ \E text : IsSequence(text) /\ Prints(text)
      \/ UNCHANGED <<screen, lineVars>>
  <2>1. IsSequence(Sorry)
    BY TextsAreSequences DEF Sorry
  <2> QED
    BY <1>2, <2>1 DEF Opens, Gets, Puts, Fails, Quiet
<1>5. GoodFrame(running')
  <2>1. CASE Opens
    BY <1>1, <2>1, OpensKeepsGood
  <2>2. CASE Gets \/ Puts
    <3>1. /\ running.d # NoFd /\ running.count = 0 /\ IsDescriptor(running.d)
          /\ \/ running.d.fop = "files"
             \/ running.d.fop = "directories"
             \/ running.d.fop = "rtc" /\ Reading(running) /\ running.pc # "put"
      BY <1>1, <2>2 DEF Gets, Puts, GoodFrame, ReaderInv, Reading
    <3>2. CASE running.d.fop = "files"
      BY <1>1, <2>2, <3>2, FileIsRead, FileIsPrinted DEF Gets, Puts
    <3>3. CASE running.d.fop = "directories"
      BY <1>1, <2>2, <3>3, DirectoryIsRead, NameIsPrinted DEF Gets, Puts
    <3>4. CASE running.d.fop = "rtc"
      <4>1. running.kind = "cat" /\ running.printed = <<>> /\ running.pc # "put"
        BY <3>1, <3>4 DEF Reading
      <4>2. running' = [running EXCEPT !.pc = "tick"]
        BY <2>2, <3>4, <4>1 DEF Gets, Puts, Goto
      <4>3. /\ running'.kind = "cat" /\ running'.d = running.d /\ running'.buf = running.buf
            /\ running'.count = 0 /\ running'.printed = <<>> /\ running'.pc = "tick"
        BY <1>1, <3>1, <4>1, <4>2 DEF IsFrame
      <4> QED
        BY <1>2, <3>1, <3>4, <4>3 DEF GoodFrame, ReaderInv, Reading
    <3> QED
      BY <3>1, <3>2, <3>3, <3>4
  <2> QED
    BY <2>1, <2>2
<1>6. GoodFrames(suspended') /\ running.pc # "wait"
  BY <1>1, <1>2, <1>3
<1> QED
  BY <1>1, <1>3, <1>4, <1>5, <1>6, ProgramKeepsEcho

-----------------------------------------------------------------------------
(* The line and the files *)

LEMMA InitEstablishesEcho == Init => EchoInv
<1> SUFFICES ASSUME Init PROVE EchoInv
  OBVIOUS
<1>1. IInv
  BY InitEstablishesInvariant
<1>2. /\ screen = Screen(Blank, 0, 0) /\ keyboard_buffer = EmptyBuffer
      /\ num_chars_typed = 0 /\ enter_pressed_flag = 0 /\ key_code = NoKey
      /\ line_start = 0 /\ line_base = 0 /\ curr_terminal_id = 0
      /\ left_at = [t \in Terminals |-> 0]
      /\ running = Program("shell", <<>>) /\ suspended = <<>>
      /\ terminals = [t \in Terminals |->
           [active |-> t = 0, screen |-> Screen(Blank, 0, 0),
            keyboard_buffer |-> EmptyBuffer]]
  BY DEF Init
<1>3. ScreensInv
  <2>1. \A b : TerminalOk([active |-> b, screen |-> Screen(Blank, 0, 0),
                           keyboard_buffer |-> EmptyBuffer])
    BY BlankIsOk DEF TerminalOk
  <2>2. \A t \in Terminals : ~(terminals[t].active /\ t # curr_terminal_id)
    BY <1>2
  <2>3. /\ DOMAIN terminals = Terminals /\ DOMAIN left_at = Terminals
        /\ \A t \in Terminals : TerminalOk(terminals[t])
    BY <1>2, <2>1
  <2> QED
    BY <1>2, <2>2, <2>3, BlankIsOk DEF ScreensInv, LeftWell
<1>4. KeyInv
  BY <1>2 DEF KeyInv, NoKey, Key
<1>5. LineInv
  <2>1. CursorOf(screen) = 0
    <3>1. NUM_COLS * 0 + 0 = 0
      BY Sizes
    <3> QED
      BY <1>2, <3>1, ScreenFields
  <2>2. MaxTyped >= 0 /\ 0..(0 - 1) = {} /\ 0 + 0 = 0
    BY EmptyLine
  <2>3. Shows(screen.video_mem, 0, keyboard_buffer, 0)
    BY NothingShown
  <2> QED
    BY <1>2, <2>1, <2>2, <2>3 DEF LineInv
<1>6. AloneInv
  BY <1>2 DEF AloneInv
<1>7. BufsInv
  BY <1>2, NewProgramIsGood, EmptyIsSequence DEF BufsInv, GoodFrames
<1> QED
  BY <1>1, <1>3, <1>4, <1>5, <1>6, <1>7 DEF EchoInv

LEMMA NextKeepsEcho == EchoInv /\ [Next]_vars => EchoInv'
<1> SUFFICES ASSUME EchoInv, [Next]_vars PROVE EchoInv'
  OBVIOUS
<1>1. IInv'
  BY NextKeepsInvariant DEF EchoInv
<1>2. CASE ProgramStep
  <2>1. CASE Exits
    <3>1. /\ running.pc = "exit" /\ Halts(running.count)
          /\ UNCHANGED <<session, screen, keyVars, key_code, termVars, lineVars>>
      BY <2>1 DEF Exits, Halting
    <3>2. running.kind \notin Handlers
      BY <3>1, NotInHandler DEF EchoInv, IsProgram
    <3>3. GoodFrame(running') /\ GoodFrames(suspended')
      BY <3>1, HaltsKeepsGood
    <3> QED
      BY <1>1, <3>1, <3>2, <3>3, ProgramKeepsEcho
  <2> QED
    BY <1>2, <2>1, ShellKeepsEcho, ReadersKeepEcho, FilesKeepEcho, RtcReadersKeepEcho
    DEF ProgramStep
<1>3. CASE RtcHandler
  BY <1>3, RtcHandlerKeepsEcho
<1>4. CASE KeyboardStep
  BY <1>4, KeyboardKeepsEcho
<1>5. CASE \E irq \in Devices : Interrupt(irq)
  BY <1>5, InterruptKeepsEcho
<1>6. CASE \E k \in session.keys : KeyPress(k)
  BY <1>1, <1>6, KeyPressKeepsEcho
<1>7. CASE RtcTick \/ UNCHANGED vars
  <2>1. UNCHANGED <<session, running, suspended, screen, keyboard_buffer, num_chars_typed,
                    enter_pressed_flag, key_code, curr_terminal_id, terminals,
                    line_start, line_base, tabbed, left_at>>
    BY <1>7 DEF RtcTick, vars, cpuVars, keyVars, termVars, lineVars
  <2> QED
    BY <1>1, <2>1 DEF EchoInv, ScreensInv, LeftWell, KeyInv, LineInv, AloneInv, BufsInv, Typable,
       BackspaceStaysOn
<1> QED
  BY <1>2, <1>3, <1>4, <1>5, <1>6, <1>7 DEF Next

LEMMA EchoHolds == Spec => []EchoInv
<1>1. Init => EchoInv
  BY InitEstablishesEcho
<1>2. EchoInv /\ [Next]_vars => EchoInv'
  BY NextKeepsEcho
<1> QED
  BY <1>1, <1>2, PTL DEF Spec

\* The cursor stands behind the line that is being typed, each index of the buffer
\* but a Tab's one cell, and a line with no Tab stands on the screen as in the
\* buffer: after any keys that Typable lets through, prints, scrolling and switches,
\* which bring a terminal's cursor back to where its user left it.
THEOREM TheLineIsShown == Spec => []EchoShowsTheLine
<1>1. EchoInv => EchoShowsTheLine
  BY EchoFollows DEF EchoInv
<1> QED
  BY <1>1, EchoHolds, PTL

\* A program that has printed a file or the directory has printed all of it.
LEMMA WholeAtTheEnd ==
  ASSUME GoodFrame(running), running.kind \in {"cat", "ls"}, running.pc = "exit",
         running.d # NoFd,
         running.d.fop = "files" => IsText(Content(running.d.inode_idx))
  PROVE  running.count = 0 /\ running.printed = Expected(running)
<1> DEFINE inode == running.d.inode_idx
           end == inodes[inode].length
<1>1. running.count = 0 /\ Reading(running)
  BY DEF GoodFrame, ReaderInv
<1>2. CASE running.d.fop = "files"
  <2>1. /\ inode \in DOMAIN inodes
        /\ running.printed = Prefix(inode, end) \o Extra(end)
    BY <1>1, <1>2 DEF Reading, FileInv
  <2>2. /\ Content(inode) = Prefix(inode, end) /\ IsSequence(Prefix(inode, end))
        /\ Len(Prefix(inode, end)) = end
    BY <2>1, ContentFacts, PrefixFacts
  <2>3. Expected(running) = IF end % BUFSIZE = NUM_COLS - 1
                            THEN Append(Prefix(inode, end), NewLine) ELSE Prefix(inode, end)
    BY <1>2, <2>2 DEF Expected
  <2>4. /\ Append(Prefix(inode, end), NewLine) = Prefix(inode, end) \o <<NewLine>>
        /\ Prefix(inode, end) \o <<>> = Prefix(inode, end)
    BY <2>2, AppendedOne, ConcatEmpty
  <2> QED
    BY <1>1, <2>1, <2>3, <2>4 DEF Extra
<1>3. CASE running.d.fop = "directories"
  <2>1. running.printed = NamesUpTo(LineEnd(running), dir_count)
    BY <1>1, <1>3 DEF Reading, DirectoryInv
  <2>2. Expected(running) =
          NamesUpTo(IF running.kind = "ls" THEN <<NewLine>> ELSE <<>>, dir_count)
    BY <1>3 DEF Expected
  <2> QED
    BY <1>1, <2>1, <2>2 DEF LineEnd
<1>4. CASE running.d.fop = "rtc"
  <2>1. running.printed = <<>>
    BY <1>1, <1>4 DEF Reading
  <2>2. Expected(running) = <<>>
    BY <1>4 DEF Expected
  <2> QED
    BY <1>1, <2>1, <2>2
<1> QED
  BY <1>1, <1>2, <1>3, <1>4 DEF Reading

\* cat prints every byte of a text file once and in order and ls every name,
\* whatever the blocks of the image, the reads and the rows, and whatever
\* interrupts come in between.
THEOREM FilesAndNamesArePrinted == Spec => []FilesArePrintedWhole
<1>1. EchoInv => FilesArePrintedWhole
  BY WholeAtTheEnd DEF EchoInv, BufsInv, FilesArePrintedWhole
<1> QED
  BY <1>1, EchoHolds, PTL
=============================================================================
