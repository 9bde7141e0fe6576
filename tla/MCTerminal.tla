------------------------------ MODULE MCTerminal ------------------------------
(***************************************************************************)
(* Model checking of Terminal.                                              *)
(***************************************************************************)
EXTENDS Terminal

\* The state without what no guard, assignment or property of its run reads:
\* the bytes copied to users' buffers, and what was saved of the terminal that
\* is current now, which is saved anew before it can be restored.
Observed ==
  <<keyboard_buffer, num_chars_typed, enter_pressed_flag, curr_terminal_id,
    [t \in Terminals |->
       <<terminals[t].active,
         IF t = curr_terminal_id THEN Cleared ELSE terminals[t].keyboard_buffer>>],
    [d \in DOMAIN readers |-> <<readers[d].pc, readers[d].nbytes, readers[d].i>>]>>

=============================================================================
