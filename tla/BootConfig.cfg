SPECIFICATION FairSpec
CONSTANTS
  Regs <- MCRegs
  AiType = "ai_type"
  KeyVar = "key"
  LoaderVar = "loader"
  ConfigKeyVar = "config_key"
  Vals = {"default", "other"}
  Default = "default"
  Key = "0x3235"
  ConfigKey = "0x1215"
  ToLoader = "0"
  ToProgram = "2"
  Absent = Absent
  NoRequest = NoRequest
  LoaderTicks = 3
  MaxOrders = 2
  MaxCuts = 2
INVARIANTS Configured LoaderOnlyAsked
PROPERTIES Survives EndsRestarted
\* The interrupt of the LCD that waits before the watchdog is on waits forever.
CHECK_DEADLOCK FALSE
