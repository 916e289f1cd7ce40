SPECIFICATION Spec
CONSTANTS
  VarTab <- MCVarTab
  Vals <- MCValsErased
  FFFF = FFFF
  Absent = Absent
  NoRequest = NoRequest
  PageSize = 5
  MaxResets = 2
INVARIANTS TypeOK KnownGoodWhileIntact
PROPERTIES AtomicAndDurable ReadsLastStored
CONSTRAINT StillIntact
