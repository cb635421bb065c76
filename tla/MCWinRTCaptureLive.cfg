SPECIFICATION CapFairSpec
CONSTANTS
  MediaTypes = {"slow"}
  FrameFormat <- MCFrameFormat
  NoType = NoType
  Reloads = {FALSE}
  MaxItems = 2
  MaxClockCalls = 1
  MaxFaults = 0
  MaxSessions = 1
PROPERTIES
  WaitsEnd
