SPECIFICATION Spec
CONSTANTS
  a = a
  b = b
  long = long
  x = x
  Name <- MCName
  LongName <- MCLongName
  Byte = {0, 1}
  FileMax = 1
  Capacity = 4
  Preopens <- MCPreopens
  Fs <- MCFs
  MaxFd = 4
  Addr = {x}
  Stamp = {100, 7}
  FdArg = {1, 3, 4}
  PathArg <- MCPathArg
  EntryArg <- MCEntryArg
  OflagsArg <- MCOflagsArg
  RightsArg <- MCRightsArg
  AppendArg = {FALSE}
  ToArg = {}
  FstArg <- MCFstArg
  IovsArg <- MCIovsArg
  OffsetArg = {}
VIEW View
PROPERTY
  RenamedFilesAreFlushed
CHECK_DEADLOCK FALSE
