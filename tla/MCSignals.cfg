SPECIFICATION Spec
CONSTANTS
  Procs = {p1, p2}
  First = p1
  Sent = {9}
  Caught = {9}
  Nothing = nothing
  MaxExecs = 1
INVARIANTS OwnProgram MainIsKept
PROPERTY FaultKills
CHECK_DEADLOCK FALSE
