\* Keys at any time; both kinds of read; a line never overruns the buffer.
SPECIFICATION Spec
CONSTANTS
  NUM_CHARS_KB = 2
  NUM_TERMINALS = 2
  Keys = {"a"}
  Nbytes = {1, 2}
  MaxTyped = 2
  Patient = FALSE
INVARIANTS
  TypeOK
  BuffersAreNotMixed
VIEW Observed
