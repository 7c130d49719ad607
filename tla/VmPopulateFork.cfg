SPECIFICATION Spec
CONSTANTS
  Tasks = {t1, t2}
  Values = {x, y}
  Junk = Junk
  Frames = {f1, f2, f3}
  ZeroFrame = ZeroFrame
  RefMod = 8
  PageSize = 2
  NumVPages = 4
  StackBase = 6
  ProgSizes = {1}
  Hints = {2}
  MmapLens = {}
  PopulateLens = {4}
  Prots <- MCProts
  OutOfMemory = FALSE
PROPERTY IsolatedSpaces
CHECK_DEADLOCK FALSE
