SPECIFICATION FairSpec
CONSTANTS
  NumInputs = 2
  Bytes <- TwoBytes
  MaxChanges = 2
INVARIANTS TypeOK ChangeKept
PROPERTY EndsPublished
