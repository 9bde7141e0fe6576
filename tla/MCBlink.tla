------------------------------- MODULE MCBlink -------------------------------
(* Instances of Blink.                                                        *)
EXTENDS Blink

MCCalls   == [q \in BOOLEAN |-> IF q THEN 4 ELSE 3]
MCLengths == {<<1, 2>>, <<0, 1>>}

=============================================================================
