\* Bursts and commands of 1 to 5 bytes over rings of 5 cells.
SPECIFICATION Spec
CONSTANTS
  TUXCTL_BUFSIZE = 5
  PACKET_BUF = 3
  PORT = 2
  NoByte = NoByte
  Lengths = {1, 3, 5}
  Bounds <- MCBounds
INVARIANTS
  TypeOK
  PacketsAreTheWholeOnes
  EachByteIsOnce
  WireKeepsOrder
PROPERTIES
  RingDrains
CHECK_DEADLOCK FALSE
