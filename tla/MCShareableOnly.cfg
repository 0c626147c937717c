CONSTANTS
  LongMax = 60002
  Uint64Max = 120005
  Uint32Max = 255
  MaxDigits = 6
  IndexMax1 = 0
  IndexMax2 = 1
  IndexMax3 = 2
  Modes = {FALSE}
  Lengths <- MCLengths
  Tokens <- MCTokens
  ArgsSet <- ShareableOnlyArgs
  Explored <- ShareableOnlyItems
  ExploredLengths <- ShareableOnlyLengths
SPECIFICATION Spec
CHECK_DEADLOCK FALSE
INVARIANTS
  ShareableOnlyWraps
