\* The user types at the prompt; programs read with a buffer of full size.
SPECIFICATION Spec
CONSTANTS
  NUM_CHARS_KB = 3
  NUM_TERMINALS = 2
  Keys = {"a"}
  Nbytes = {3}
  MaxTyped = 3
  Patient = TRUE
PROPERTIES
  ImplementsLineDiscipline
