SPECIFICATION FairSpec
CONSTANTS
  Limit = 2
  TelemetryAt = 1
  StatusAt = 2
  TmrSize = 4
  MaxTurns = 2
  MaxTimes = 1
  NumRegs = 1
  MaxWrites = 2
INVARIANTS TypeOK NothingUnannounced WritesArrive
PROPERTIES EndsReported EndsSame
