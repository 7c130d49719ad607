SPECIFICATION VfsSpec
CONSTANTS
  Tasks = {p1, p2}
  Names = {"a"}
  MaxVnodes = 6
  MaxMounts = 3
  Stacked = TRUE
  Nothing = nothing
INVARIANT DotDotReturns
CHECK_DEADLOCK FALSE
