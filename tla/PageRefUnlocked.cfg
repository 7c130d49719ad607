SPECIFICATION RefsSpec
CONSTANTS
  MaxOrder = 2
  MaxPages = 4
  RefMod = 8
  Tasks = {t1, t2, t3}
  Windows = {"unlocked"}
SYMMETRY TaskSymmetry
INVARIANT FreedExactlyAtZero
CHECK_DEADLOCK FALSE
