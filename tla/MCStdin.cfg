CONSTANTS
  StreamStdio = {TRUE, FALSE}
  Present = {0}
  Input <- MCInput
  MayFail = {0}
  SinkCopies = TRUE
  BufferSize = 1
  Byte = {0, 1, 2, 3, 4}
  MemSize = 3
  ReadArg <- MCReads
  WriteArg <- NoVector
  MaxSent = 0
  ReturnOnExit = TRUE
  Asyncified = {TRUE}
SPECIFICATION Spec
INVARIANT ReadsInOrder
PROPERTY ZeroMeansEnd
PROPERTY CallsAdvance
CHECK_DEADLOCK FALSE
