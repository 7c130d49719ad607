SPECIFICATION Spec
CONSTANTS
  Users = {u1, u2}
  Idles = {i1, i2}
  Shell = Shell
  Nobody = Nobody
  Windows = {"schedule"}
  Killable = {u1,u2}
  TypeAhead = FALSE
SYMMETRY UserSymmetry
PROPERTY FreedOnlyWhenDone
CHECK_DEADLOCK FALSE
