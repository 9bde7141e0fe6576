\* Every nesting of execute, halt, restart and terminal switches, with either
\* end of entry(); without its first program Alt+Fn crashes, and nothing goes on.
SPECIFICATION Spec
CONSTANTS
  MAX_PROCESSES = 3
  MAX_OPEN_FILES = 3
  NUM_TERMINALS = 3
  FileTypes <- OneFileType
  Statuses <- TwoStatuses
  BootCalls <- BothBoots
  KeysDuringHalt = FALSE
INVARIANTS
  TypeOK
  ActiveProcessesFormOneChain
  AddressSpaceIsCurrent
  PidIsCurrentOrTableFull
  ReturnFramesSurvive
  ClosedDescriptorsDispatchToNull
PROPERTIES
  ImplementsCallTree
CHECK_DEADLOCK FALSE
