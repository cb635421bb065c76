SPECIFICATION Spec
CONSTANTS
  MediaTypes = {"slow"}
  FrameFormat <- MCFrameFormat
  NoType = NoType
  MaxItems = 2
  MaxClockCalls = 2
  MaxFaults = 0
PROPERTIES
  StoppedTakesNoSample
