SPECIFICATION DoFairSpec
CONSTANTS
  NumModules = 2
  Steady <- SecondSteady
  HeartbeatMax = 1
  MaxFrames = 1
  MaxLosses = 1
INVARIANT ChangeKept
PROPERTIES EndsSettled AllRefreshed
