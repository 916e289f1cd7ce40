SPECIFICATION ServerFairSpec
CONSTANTS
  Slots = {1, 2}
  Conns = {c1, c2, c3}
  Size = 1
  MaxRequests = 1
INVARIANTS OwnSlot AnswersRight
PROPERTY EndsFree
