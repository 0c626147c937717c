CONSTANTS
  x1 = x1
  x2 = x2
  x3 = x3
  x4 = x4
  Var <- MCVar
  Obj = {1, 2}
  StrId = {1, 2}
  UndefId = {1, 2}
  MaxCalls = 9
SPECIFICATION Spec
SYMMETRY MCSymmetry
CHECK_DEADLOCK FALSE
INVARIANTS
  StringsCounted
  UndefinedUnique
