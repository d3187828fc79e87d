CONSTANTS
  Timer = {t1, t2, t3, t4}
  Lifetime = 2
  MaxTime = 4
  ClockSetBack = TRUE
  ExtendOnly = TRUE
  NULL = NULL
SPECIFICATION Spec
SYMMETRY Symmetry
INVARIANTS
  TypeOK
  WellLinked
  SortedByExpiry
PROPERTY ServesTimers
