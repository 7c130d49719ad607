SPECIFICATION SlabSpec
CONSTANTS
  MaxOrder = 2
  MaxPages = 4
  RefMod = 2
  PageSize = 8
  HeaderSize = 4
  MaxChunkSize = 2
  NumPools = 2
  Reserved = {3}
  Sizes = {1, 2, 3, 9}
INVARIANT NothingKept
PROPERTY HeapSpec
CHECK_DEADLOCK FALSE
