SPECIFICATION CapSpec
CONSTANTS
  MediaTypes = {"slow"}
  FrameFormat <- MCFrameFormat
  NoType = NoType
  Reloads = {TRUE, FALSE}
  MaxItems = 3
  MaxClockCalls = 2
  MaxFaults = 1
  MaxSessions = 2
VIEW WithoutHistory
INVARIANTS
  CapTypeOK
  StopIsBarrier
  OutputInOrder
  NoFrameLost
  SinkCallMeetsLiveStream
