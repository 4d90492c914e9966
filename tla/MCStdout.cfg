CONSTANTS
  StreamStdio = {TRUE, FALSE}
  Present = {1, 2}
  Input <- NoInput
  MayFail = {1, 2}
  SinkCopies = TRUE
  BufferSize = 1
  Byte = {0, 1}
  MemSize = 2
  ReadArg <- NoVector
  WriteArg <- MCWrites
  MaxSent = 3
  ReturnOnExit = FALSE
  Asyncified = {TRUE, FALSE}
SPECIFICATION Spec
INVARIANT OutputIntact
INVARIANT WritesCounted
INVARIANT AnswerMeansFlushed
PROPERTY SyncWritesSucceed
PROPERTY CallsAdvance
PROPERTY ByteStreams
CHECK_DEADLOCK FALSE
