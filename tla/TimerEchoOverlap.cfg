SPECIFICATION Spec
CONSTANTS
  Threads = {t1, t2}
  Shell = shell
  None = none
  Period = 2
  EchoDelays = {1, 3}
  EchoOverlaps = TRUE
  MaxEchoes = 2
  MaxNest = 2
INVARIANT TimerArmed
