SPECIFICATION Spec
CONSTANTS
  Threads = {t1, t2}
  Shell = shell
  None = none
  Period = 2
  EchoDelays = {1, 3}
  EchoOverlaps = FALSE
  MaxEchoes = 2
  MaxNest = 2
INVARIANTS NoTaskLeft TimerArmed
PROPERTIES TicksKeepComing
\* a call through a null pointer is the end of what is modelled
CHECK_DEADLOCK FALSE
