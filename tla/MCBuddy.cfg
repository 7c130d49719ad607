SPECIFICATION Spec
CONSTANTS
  MaxOrder = 3
  MaxPages = 8
  RefMod = 4
  MaxRefs = 2
INVARIANTS TypeOK Partition MasksMatchLists FullyMerged CountsFollowHolders
PROPERTY ImplementsPagePool
CHECK_DEADLOCK FALSE
