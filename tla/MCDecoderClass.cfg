CONSTANTS
  empty = empty
  s1 = s1
  s2 = s2
  StrIds = {empty, s1, s2}
  EmptyStr = empty
  ShrinkAt = 1
  MaxTotal = 4
  Inputs <- MCInputs
  Offsets <- MCOffsets
  AddLengths <- MCLengths
  EdnModes = {TRUE, FALSE}
SPECIFICATION Spec
CHECK_DEADLOCK FALSE
SYMMETRY Symmetry
INVARIANTS
  BufferValid
  RefcountExact
PROPERTIES
  UserStringsStable
  Refines
