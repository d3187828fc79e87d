CONSTANTS
  Fd = {f1, f2}
  Worker = {w1}
  Timer = {t1, t2}
  None = None
  MaxRequests = 1
  MaxFd = 2
  MinCount = 0
  Lifetime = 1
  ListenET = TRUE
  ServesEmptyFile = FALSE
  Paces = {TRUE, FALSE}
SPECIFICATION Spec
SYMMETRY Symmetry
INVARIANTS
  UserCountExact
  ExclusiveConnection
PROPERTY TimerClosesOnlyInactive
CHECK_DEADLOCK FALSE
