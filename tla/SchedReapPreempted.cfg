SPECIFICATION Spec
CONSTANTS
  Users = {u1, u2}
  Idles = {i1, i2}
  Shell = Shell
  Nobody = Nobody
  Windows = {"release"}
  Killable = {u1,u2}
  TypeAhead = FALSE
SYMMETRY UserSymmetry
PROPERTY ShellAfterAll
CHECK_DEADLOCK FALSE
