CONSTANTS
  Requests <- MCRequests
  READ_BUFFER_SIZE = 12
  BufferSizes = {1, 3}
  FileSizes = {1, 4}
  WholeHeader = FALSE
SPECIFICATION Spec
INVARIANT SentIsPrefix
