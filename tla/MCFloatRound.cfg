CONSTANTS
  LongMax = 127
  Uint32Max = 255
  IndexMax1 = 0
  IndexMax2 = 1
  IndexMax3 = 2
  MaxDigits = 5
  Uint64Max = 255
  Uint64Digits = 3
  OptUint32Max = 131071
  MaxDepthLimit = 10000
  HtMaxSize = 70000
  Radix = 16
  DigitMillionths = 830482
  F64_EXP_BITS = 5
  F64_FRAC_BITS = 7
  F32_EXP_BITS = 4
  F32_FRAC_BITS = 5
  F16_EXP_BITS = 3
  F16_FRAC_BITS = 3
  Kinds = {"float"}
  MaxText = 4
  MaxIntStr = 5
  MaxDecimal = 6
  MaxOptions = 2
SPECIFICATION MCSpec
CHECK_DEADLOCK FALSE
INVARIANT
  RoundsToNearest
