CONSTANTS
  MAZE_MIN_X_DIM = 2
  MAZE_MAX_X_DIM = 2
  MAZE_MIN_Y_DIM = 1
  MAZE_MAX_Y_DIM = 2
  SCAN_BELOW = 2
  MAX_TRIALS = 2
  GOD_MODE = TRUE
  SCROLL_X_DIM = 8
  SCROLL_Y_DIM = 5
  BUILD_EXTRA = 2
  BLOCK = 3
  MAX_LEVEL = 2
  SHOW_MIN = 2
  PAN_BORDER = 1
  MASK <- Diagonal
SPECIFICATION Spec
INVARIANTS
  BuildShowsTheMaze
  FrameShowsPlayer
  DisplayIsWhole
  EveryRoomIsReachable
PROPERTY LevelIsBuilt
