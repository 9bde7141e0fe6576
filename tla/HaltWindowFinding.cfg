\* A terminal switch between sti and the stack switch of halt.
SPECIFICATION Spec
CONSTANTS
  MAX_PROCESSES = 3
  MAX_OPEN_FILES = 3
  NUM_TERMINALS = 3
  FileTypes <- OneFileType
  Statuses <- TwoStatuses
  BootCalls <- BootsFirstTerminal
  KeysDuringHalt = TRUE
INVARIANT HaltReturnsThroughSavedFrame
