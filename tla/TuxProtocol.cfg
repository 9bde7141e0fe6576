\* A ring with room for one answer and a bit.
SPECIFICATION Spec
CONSTANTS
  LED_COUNT = 4
  Times <- MCTimes
  TX_ROOM = 11
  RX_PACKETS = 1
  Args <- MCArgs
  Presses <- MCPresses
  Budgets <- MCBudgets
INVARIANTS
  EveryClockCanBeShown
PROPERTIES
  ButtonsReachTheGame
  LedsAreNotBlocked
  ResetIsRepaired
