SPECIFICATION FairSpec
CONSTANTS
  PackQuantity = 2
  Timeout = 2
  HeartbeatMax = 2
  MaxFaults = 2
INVARIANTS TypeOK NeverSlips
PROPERTIES FinishedMeansConfigured EndsConfigured EndsOffline
