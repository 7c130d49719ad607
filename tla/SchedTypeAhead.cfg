SPECIFICATION FairSpec
CONSTANTS
  Users = {u1, u2}
  Idles = {i1, i2}
  Shell = Shell
  Nobody = Nobody
  Windows = {}
  Killable = {u1,u2}
  TypeAhead = TRUE
PROPERTY ShellReturns
CHECK_DEADLOCK FALSE
