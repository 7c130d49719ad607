SPECIFICATION Spec
CONSTANTS
  Threads = {t1, t2}
  Nothing = nothing
  BufferSize = 2
  FifoSize = 1
  Numbers = 4
INVARIANT InputIntact
PROPERTIES ReaderServed OutputLeavesAlone
