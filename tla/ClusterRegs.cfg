SPECIFICATION FairSpec
CONSTANTS
  a = a
  b = b
  c = c
  Nodes = {a, b}
  NumPoints = 2
  Owner <- TwoOwners
  Vals = {0, 1}
  Registers = TRUE
  RingLen = 1
  MaxChanges = 2
  MaxOutages = 1
  MaxDrops = 1
INVARIANT TypeOK
PROPERTIES NoOldValue EndsAgreedIfSent
CONSTRAINT StillOfUse
