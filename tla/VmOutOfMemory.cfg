SPECIFICATION Spec
CONSTANTS
  Tasks = {t1, t2}
  Values = {x, y}
  Junk = Junk
  Frames = {f1}
  ZeroFrame = ZeroFrame
  RefMod = 8
  PageSize = 2
  NumVPages = 2
  StackBase = 2
  ProgSizes = {1}
  Hints = {}
  MmapLens = {}
  PopulateLens = {}
  Prots <- MCProts
  OutOfMemory = TRUE
PROPERTY IsolatedSpaces
CHECK_DEADLOCK FALSE
