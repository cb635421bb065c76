SPECIFICATION Spec
CONSTANTS
  MediaTypes = {"slow", "fast", "other"}
  FrameFormat <- MCFrameFormat
  NoType = NoType
  MaxItems = 4
  MaxClockCalls = 2
  MaxFaults = 1
INVARIANTS
  TypeOK
  DeliveredInOrder
  MarkerAfterSamples
  EveryItemHasWork
  NoStarvation
  OneSamplePerStart
  ClockEventsFollowCalls
PROPERTIES
  QuietAfterShutdown
