\* The keyboard, or one button held: a 3 x 3 maze, two levels.
SPECIFICATION Spec
CONSTANTS
  BLOCK = 3
  X_DIM = 2
  Y_DIM = 2
  MAX_LEVEL = 2
  MAX_TICKS = 2
  Layouts <- NearAndFar
  Modes = {"keyboard", "button"}
INVARIANTS
  MovesAreLegal
  WinnerHasWon
PROPERTIES
  HeldButtonSteers
  GameEnds
CHECK_DEADLOCK FALSE
