SPECIFICATION VfsSpec
CONSTANTS
  Tasks = {p1, p2}
  Names = {"a"}
  MaxVnodes = 7
  MaxMounts = 3
  Stacked = FALSE
  Nothing = nothing
INVARIANT DotDotReturns
PROPERTY PathsAreStable
SYMMETRY Symmetry
CHECK_DEADLOCK FALSE
