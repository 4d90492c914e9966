CONSTANTS
  FrameSize = 6
  Word = 16
  MemSize = 4
  Byte = {0, 1}
  ResultSize = {1}
  IovSize = 1
  DirLen = {0}
  PtrArg = {0, 1, 3}
  SizeArg = {1, 2, 14}
  VecArg <- MCVectors
SPECIFICATION Spec
INVARIANT TypeOK
INVARIANT ViewsApart
INVARIANT Transparent
INVARIANT ResultsArrive
CHECK_DEADLOCK FALSE
