SPECIFICATION FairSpec
CONSTANTS
  Reqs <- MCReqs
  Silent = Silent
  BufSize = 5
  MaxVal = 1
  MaxLate = 1
  MaxHolds = 1
  MaxOutages = 1
INVARIANTS OwnSlave OwnAnswer
PROPERTY EndsSettled
