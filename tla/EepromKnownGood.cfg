SPECIFICATION Spec
CONSTANTS
  VarTab <- MCVarTab
  Vals <- MCVals
  FFFF = FFFF
  Absent = Absent
  NoRequest = NoRequest
  PageSize = 4
  MaxResets = 1
INVARIANT KnownGoodState
