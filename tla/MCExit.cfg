CONSTANTS
  StreamStdio = {TRUE, FALSE}
  Present = {0, 1, 2}
  Input <- OneByte
  MayFail = {0, 1, 2}
  SinkCopies = TRUE
  BufferSize = 1
  Byte = {0, 1}
  MemSize = 1
  ReadArg <- OneBuffer
  WriteArg <- OneBuffer
  MaxSent = 1
  ReturnOnExit = TRUE
  Asyncified = {TRUE}
SPECIFICATION Spec
INVARIANT ExitIsReported
CHECK_DEADLOCK FALSE
