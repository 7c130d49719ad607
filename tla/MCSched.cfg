SPECIFICATION FairSpec
CONSTANTS
  Users = {u1, u2}
  Idles = {i1, i2}
  Shell = Shell
  Nobody = Nobody
  Windows = {"kill"}
  Killable = {u1, u2}
  TypeAhead = FALSE
INVARIANTS TypeOK QueueComplete NoDangling
PROPERTIES OnlyRunnableResumes FreedOnlyWhenDone ShellAfterAll EveryRunnableRuns DeadAreReaped ShellReturns
CHECK_DEADLOCK FALSE
