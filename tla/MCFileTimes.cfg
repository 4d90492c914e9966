CONSTANTS
  MaxNow = 40
  Word = 128
SPECIFICATION Spec
INVARIANT NowIsDateNow
CHECK_DEADLOCK FALSE
