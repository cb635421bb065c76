SPECIFICATION FairSpec
CONSTANTS
  MediaTypes = {"slow"}
  FrameFormat <- MCFrameFormat
  NoType = NoType
  MaxItems = 3
  MaxClockCalls = 2
  MaxFaults = 1
PROPERTIES
  ItemsSettled
  CallsAnswered
