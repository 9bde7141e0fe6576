------------------------------ MODULE CallTree -------------------------------
(***************************************************************************)
(* What execute and halt promise together, with no table, page or stack:   *)
(* a program that executes another waits until that one halts, and only    *)
(* then goes on; nothing else starts, ends or changes caller.              *)
(*                                                                         *)
(* caller maps every live process to the one that waits for it, and the    *)
(* first process to Nobody.  A halt of the first process is its own        *)
(* restart, which this specification does not see.                         *)
(***************************************************************************)
CONSTANTS Processes, Nobody, Idle

VARIABLES caller, running

Live == DOMAIN caller

Init == caller = [p \in {} |-> Nobody] /\ running = Idle

\* A first process, when there is none.
Begin(p) == /\ running = Idle
            /\ caller' = [q \in {p} |-> Nobody]
            /\ running' = p

Call(p) == /\ running # Idle
           /\ p \notin Live
           /\ caller' = [q \in Live \cup {p} |->
                           IF q = p THEN running ELSE caller[q]]
           /\ running' = p

Return == /\ running # Idle
          /\ caller[running] # Nobody
          /\ running' = caller[running]
          /\ caller' = [q \in Live \ {running} |-> caller[q]]

Next == Return \/ \E p \in Processes : Begin(p) \/ Call(p)

Spec == Init /\ [][Next]_<<caller, running>>
=============================================================================
