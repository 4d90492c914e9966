SPECIFICATION Spec
CONSTANTS
  a = a
  x = x
  y = y
  Name <- MCName
  LongName = {}
  Byte = {0}
  FileMax = 1
  Capacity = 3
  Preopens <- MCPreopens
  Fs <- MCFs
  MaxFd = 6
  Addr <- MCAddr
  Stamp = {100}
  FdArg = {1, 3, 4, 5, 6}
  PathArg <- MCPathArg
  OflagsArg <- MCOflagsArg
  RightsArg <- MCSomeRights
  ToArg = {1, 3, 6}
  EntryArg = {}
  AppendArg = {FALSE}
  FstArg = {}
  IovsArg <- MCIovsArg
  OffsetArg = {}
SYMMETRY Symmetric
VIEW View
INVARIANTS
  TypeOK
  OwnershipInv
  AccessorsSafe
  PreopensPinned
  RightsInv
PROPERTY
  TableSpec
  RightsAttenuate
CHECK_DEADLOCK FALSE
