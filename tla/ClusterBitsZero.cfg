SPECIFICATION FairSpec
CONSTANTS
  a = a
  b = b
  c = c
  Nodes = {a, b, c}
  NumPoints = 1
  Owner <- OneOwner
  Vals = {0, 1}
  Registers = FALSE
  RingLen = 2
  MaxChanges = 2
  MaxOutages = 1
  MaxDrops = 0
PROPERTIES EndsAgreedIfSent
