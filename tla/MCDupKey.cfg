CONSTANTS
  LongMax = 32767
  Uint32Max = 65535
  IndexMax1 = 1
  IndexMax2 = 2
  IndexMax3 = 3
  MaxDigits = 5
  Uint64Max = 65535
  Uint64Digits = 5
  OptUint32Max = 131071
  MaxDepthLimit = 100
  HtMaxSize = 70000
  Calls <- LongKeyCalls
  Addr <- MCAddr
  Fresh <- MCFresh
SPECIFICATION RoundTripSpec
CHECK_DEADLOCK FALSE
INVARIANT NoDuplicateIteratorKeys
