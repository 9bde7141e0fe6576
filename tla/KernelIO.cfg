\* Eight users of the kernel, its screen, files, terminals and interrupts.
SPECIFICATION Spec
CONSTANTS
  NUM_COLS = 5
  NUM_ROWS = 3
  NUM_MAX_FILES = 7
  NAME_BYTES = 2
  BYTES_4KB = 4
  direntries <- Root
  inodes <- Inodes
  data_blocks <- Blocks
  MAX_PROCESSES = 3
  NUM_TERMINALS = 3
  BUFSIZE = 6
  Letters <- TwoLetters
  MaxTyped = 8
  Sessions <- Users
INVARIANTS
  FilesArePrintedWhole
  EchoShowsTheLine
  NoInterruptIsLeftInService
PROPERTIES
  RtcReadsWait
  RtcReadsReturn
