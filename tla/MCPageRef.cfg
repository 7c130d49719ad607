SPECIFICATION RefsSpec
CONSTANTS
  MaxOrder = 2
  MaxPages = 4
  RefMod = 8
  Tasks = {t1, t2, t3}
  Windows = {"copy", "decided"}
SYMMETRY TaskSymmetry
INVARIANTS RefsTypeOK CountIsHolders FreedExactlyAtZero
CHECK_DEADLOCK FALSE
