CONSTANTS
  maxSampleQueueSize = 4
  MaxFrames = 2
  MaxRequests = 2
  Formats = {small, large}
  MaxPosted = 2
SPECIFICATION RendererSpec
INVARIANT EveryRequestCompleted
CHECK_DEADLOCK FALSE
