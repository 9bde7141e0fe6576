---------------------------- MODULE LineDiscipline ----------------------------
(***************************************************************************)
(* What a program that reads the keyboard is promised: the keys edit one    *)
(* line, Enter closes it, and a closed line is handed whole, once, to the   *)
(* read that waits for it.  Switching terminals discards an open line.      *)
(***************************************************************************)
EXTENDS Integers, Sequences

CONSTANTS Symbols, NewLine

VARIABLES
  line, closed,     \* the line being typed, and whether Enter ended it
  out               \* the line a read is about to return, <<>> if none

vars == <<line, closed, out>>

Init == line = <<>> /\ closed = FALSE /\ out = <<>>

Type(c) == /\ ~closed /\ out = <<>>
           /\ line' = Append(line, c)
           /\ UNCHANGED <<closed, out>>

Erase == /\ ~closed /\ out = <<>>
         /\ line # <<>>
         /\ line' = SubSeq(line, 1, Len(line) - 1)
         /\ UNCHANGED <<closed, out>>

Enter == /\ ~closed /\ out = <<>>
         /\ line' = Append(line, NewLine)
         /\ closed' = TRUE
         /\ UNCHANGED out

Discard == /\ ~closed /\ out = <<>>
           /\ line' = <<>>
           /\ UNCHANGED <<closed, out>>

Deliver == /\ closed
           /\ out' = line
           /\ line' = <<>>
           /\ closed' = FALSE

Return == /\ out # <<>>
          /\ out' = <<>>
          /\ UNCHANGED <<line, closed>>

Next == \/ \E c \in Symbols : Type(c)
        \/ Erase \/ Enter \/ Discard \/ Deliver \/ Return

Spec == Init /\ [][Next]_vars /\ WF_vars(Deliver) /\ WF_vars(Return)
=============================================================================
