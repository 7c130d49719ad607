SPECIFICATION Spec
CONSTANTS
  Tasks = {t1}
  Values = {x}
  Junk = Junk
  Frames = {f1}
  ZeroFrame = ZeroFrame
  RefMod = 8
  PageSize = 2
  NumVPages = 6
  StackBase = 10
  ProgSizes = {1, 3}
  Hints = {0, 2, 4, 6, 8}
  MmapLens = {1, 4, 5}
  PopulateLens = {2}
  Prots <- MCProts
  OutOfMemory = FALSE
SYMMETRY FrameSymmetry
INVARIANTS AreasDisjoint
CHECK_DEADLOCK FALSE
