CONSTANTS
  Fd = {f1}
  Worker = {w1}
  Timer = {t1, t2}
  None = None
  MaxRequests = 1
  MaxFd = 1
  MinCount = 0
  Lifetime = 2
  ListenET = FALSE
  ServesEmptyFile = TRUE
  Paces = {TRUE}
SPECIFICATION Spec
PROPERTY TimerClosesOnlyInactive
CHECK_DEADLOCK FALSE
