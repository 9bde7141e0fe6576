---------------------------- MODULE MCTuxProtocol ----------------------------
(* Instances of TuxProtocol.                                                 *)
EXTENDS TuxProtocol

\* Every digit from 0 to 9.
MCTimes   == {60 * 98 + 7, 60 * 65 + 43, 60 * 12}
MCArgs    == {tux_clock(754)}
MCPresses == {<<15, 14>>, <<14, 11>>}
MCBudgets == {[sets |-> 1, presses |-> 0, resets |-> 1, losses |-> 0],
              [sets |-> 0, presses |-> 2, resets |-> 1, losses |-> 0],
              [sets |-> 1, presses |-> 0, resets |-> 0, losses |-> 1]}

=============================================================================
