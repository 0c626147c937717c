CONSTANTS
  LongMax = 60002
  Uint64Max = 120005
  Uint32Max = 255
  MaxDigits = 6
  IndexMax1 = 0
  IndexMax2 = 1
  IndexMax3 = 2
  Modes = {TRUE, FALSE}
  Lengths <- MCLengths
  Tokens <- MCTokens
  ArgsSet <- MCArgs
  Explored <- MCExplored
  ExploredLengths <- MCExploredLengths
SPECIFICATION MCSpec
CHECK_DEADLOCK FALSE
INVARIANTS
  DepthBounded
  AgreesWithGrammar
  Decodes
  TruncatedIsShort
  NamespacesBalanced
  NamespaceInScope
  NoAliases
  PlaceholderNotShared
  SharedComplete
PROPERTIES
  SharedValueStable
  SharedIdentity
  CallsTerminate
