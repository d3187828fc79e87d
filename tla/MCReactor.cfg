CONSTANTS
  Fd = {f1}
  Worker = {w1}
  Timer = {t1, t2}
  None = None
  MaxRequests = 0
  MaxFd = 1
  MinCount = 0
  Lifetime = 1
  ListenET = FALSE
  ServesEmptyFile = TRUE
  Paces = {FALSE}
SPECIFICATION LiveSpec
INVARIANTS
  TypeOK
  TimerCoverage
  BatchTimerLive
PROPERTY IdleConnectionsReaped
CHECK_DEADLOCK FALSE
