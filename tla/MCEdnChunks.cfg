CONSTANTS
  LongMax = 100
  Uint32Max = 2
  IndexMax1 = 0
  IndexMax2 = 1
  IndexMax3 = 2
  MaxDigits = 3
  ArgsSet <- MCArgs
  Tokens <- MCTokens
  MaxItems = 5
SPECIFICATION Spec
CHECK_DEADLOCK FALSE
INVARIANT OnlyChunksInStrings
