\* Buttons pressed in turn: tux_thread writes next_dir without mtx.
SPECIFICATION Spec
CONSTANTS
  BLOCK = 3
  X_DIM = 2
  Y_DIM = 2
  MAX_LEVEL = 1
  MAX_TICKS = 1
  Layouts <- Far
  Modes = {"buttons"}
INVARIANT MovesAreLegal
CHECK_DEADLOCK FALSE
