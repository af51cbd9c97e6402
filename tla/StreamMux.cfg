SPECIFICATION Spec
CONSTANTS
  Keys = {"hd", "copy"}
  BypassKeys = {"copy"}
  NoKey = "none"
  MaxOutputs = 4
  MaxEvents = 3
  Low <- LowOf3
  High <- HighOf3
  Original = 3
  Rates = {1, 3, 8}
  InputRates = {2, 4}
  MinBitRate = 1
  MaxBitRate = 7
  Slowdown = 1
  DelayUp = 2
  DelayDown = 1
  Minute = 3
  KeyFrames = {1, 3}
  MaxPackets = 3
  MaxConfigs = 2
INVARIANTS TypeOK SwitchingSafe NoHaste
PROPERTIES RequestReached Settles
CHECK_DEADLOCK FALSE
