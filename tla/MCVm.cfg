SPECIFICATION Spec
CONSTANTS
  Tasks = {t1, t2}
  Values = {x, y}
  Junk = Junk
  Frames = {f1, f2, f3, f4}
  ZeroFrame = ZeroFrame
  RefMod = 8
  PageSize = 2
  NumVPages = 4
  StackBase = 6
  ProgSizes = {1}
  Hints = {0, 2}
  MmapLens = {1, 7}
  PopulateLens = {2}
  Prots <- MCProts
  OutOfMemory = FALSE
SYMMETRY FrameSymmetry
INVARIANTS TypeOK RefsCountMappings SharedIsReadOnly AreasDisjoint
PROPERTY IsolatedSpaces
CHECK_DEADLOCK FALSE
