CONSTANTS
  Worker = {w1, w2, w3}
  Caller = {c1, c2}
  Request = {r1, r2}
  MaxRequests = 1
  MaxPermits = 1
  None = None
SPECIFICATION LiveSpec
INVARIANTS
  TypeOK
  LockHeldIffInside
  NoLostWakeup
PROPERTIES
  DispatchesInOrder
  EveryJobRuns
