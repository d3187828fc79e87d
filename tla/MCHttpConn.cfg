CONSTANTS
  Requests <- MCRequests
  READ_BUFFER_SIZE = 12
  BufferSizes = {1, 3}
  FileSizes = {1, 4}
  WholeHeader = TRUE
SPECIFICATION Spec
INVARIANTS
  TypeOK
  AcceptsWholeRequest
  LineStartsAfterLine
  AnswersWithoutBody
  SentIsPrefix
  IdleMeansComplete
  FileMapped
  MappingReleased
PROPERTY KeptOnlyIfAsked
