\* Boot, and every nesting of programs; the machine may crash or stop.
SPECIFICATION Spec
CONSTANTS
  SPACE = 6
  VIDEO_ADDR = 1
  PROGRAM_IMG_PDE_INDEX = 2
  VMEM_PDE_INDEX = 4
  KERNEL_TABLE = 1
  VIDEO_TABLE = 2
  Pages <- WatchedPages
  Wild = Wild
  MAX_PROCESSES = 3
  NUM_TERMINALS = 2
  VECTOR_NUM = 6
  EXCEPTIONS_NUM = 2
  KEYBOARD_IRQ = 3
  RTC_IRQ = 4
  SYSCALL = 5
  BootCalls <- BothBoots
INVARIANTS
  UserReachesOnlyItsOwn
  InterruptsFindTheKernel
CHECK_DEADLOCK FALSE
