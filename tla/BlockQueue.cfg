CONSTANTS
  Consumer = {c1, c2}
  Item = {x1, x2}
  MaxSize = 3
  None = None
SPECIFICATION LiveSpec
INVARIANTS
  TypeOK
  NoSleepOverItem
PROPERTIES
  QueueIsFifo
  QueueServed
