\* Two structures on the list and a third for find or a failing add, or three; two cells.
SPECIFICATION Spec
CONSTANTS
  Structs = {1, 2, 3}
  NULL = 0
  Cells = {0, 1}
  Outside = 2
  Lengths <- MCLengths
  WORD = 3
  CALLS <- MCCalls
INVARIANTS
  ListIsSound
  NothingLeaks
  SyncedBlinkTogether
PROPERTIES
  BlinksOnTime
  ScreenCatchesUp
CHECK_DEADLOCK FALSE
