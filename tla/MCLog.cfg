CONSTANTS
  Thread = {t1, t2}
  Writer = Writer
  m_split_lines = 2
  MaxQueue = 1
  MaxLines = 3
  MaxDay = 1
  None = None
SYMMETRY Symmetry
SPECIFICATION Spec
INVARIANTS
  TypeOK
  NoLineTwice
  FilesNearSplit
PROPERTY NoLineLost
\* The threads stop logging.
CHECK_DEADLOCK FALSE
