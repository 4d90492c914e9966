SPECIFICATION Spec
CONSTANTS
  a = a
  b = b
  long = long
  x = x
  Name <- MCName
  LongName <- MCLongName
  Byte = {0, 1}
  FileMax = 1
  Capacity = 4
  Preopens <- MCPreopens
  Fs <- MCFs
  MaxFd = 5
  Addr = {x}
  Stamp = {100}
  FdArg = {1, 3, 4, 5}
  PathArg <- MCPathArg
  EntryArg <- MCEntryArg
  OflagsArg <- MCOflagsArg
  RightsArg <- MCRightsArg
  AppendArg = {FALSE}
  ToArg = {}
  FstArg = {}
  IovsArg <- MCIovsArg
  OffsetArg = {}
VIEW View
INVARIANT
  LfsErrorsKnown
CHECK_DEADLOCK FALSE
