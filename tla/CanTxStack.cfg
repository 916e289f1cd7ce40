SPECIFICATION FairSpec
CONSTANTS
  StackLength = 3
  Parts <- MCParts
  Mailboxes = 2
  TxGap = 1
  MaxTry = 3
  MaxPackets = 5
INVARIANTS TypeOK RingInv InOrder NothingStranded NeverSentTwice
PROPERTIES QueueSpec Delivered
