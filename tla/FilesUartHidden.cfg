SPECIFICATION Spec
CONSTANTS
  Procs = {p1, p2}
  Slots = {0, 1}
  StdSlots = {0}
  Nodes = {n1}
  RomNodes = {r1}
  RomSize = 1
  Offsets = {0}
  Uart = uart
  Handles = {h1, h2, h3, h4}
  MaxFileSize = 2
  MaxExecs = 1
  KilledInside = FALSE
  UartHidden = TRUE
  None = none
SYMMETRY Symmetry
CHECK_DEADLOCK FALSE
INVARIANT FdsOwnFiles
