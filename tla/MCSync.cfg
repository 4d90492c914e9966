SPECIFICATION Spec
CONSTANTS
  a = a
  x = x
  y = y
  Name <- MCName
  LongName = {}
  Byte = {0, 1}
  FileMax = 2
  Capacity = 4
  Preopens <- MCPreopens
  Fs <- MCFs
  MaxFd = 5
  Addr <- MCAddr
  Stamp = {100}
  FdArg = {0, 3, 4, 5}
  PathArg <- MCPathArg
  EntryArg = {}
  OflagsArg <- MCOflagsArg
  RightsArg <- MCRightsArg
  AppendArg = {FALSE, TRUE}
  ToArg = {}
  FstArg = {}
  IovsArg <- MCIovsArg
  OffsetArg <- MCOffsetArg
SYMMETRY Symmetric
VIEW View
INVARIANT
  SyncIsNoop
CHECK_DEADLOCK FALSE
