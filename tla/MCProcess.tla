----------------------------- MODULE MCProcess ------------------------------
(***************************************************************************)
(* TLC's instances of Process.  Three PCBs are the least that give a        *)
(* running process, its caller and the base shell at once, and a full table *)
(* above them; three descriptors give one that can be opened and closed     *)
(* beside stdin and stdout; three terminals are the code's own number.      *)
(***************************************************************************)
EXTENDS Process

\* The RTC is the one file whose read waits, so it is enough to have both
\* kinds of read.
OneFileType == {"rtc"}

\* 255 is the status halt extends to 256; any other value is passed on as is.
TwoStatuses == {0, 255}

BootsFirstTerminal == {TRUE}
BothBoots          == {TRUE, FALSE}
=============================================================================
