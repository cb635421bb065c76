\* The queue of the code, and frames enough to overflow it twice.
CONSTANTS
  maxSampleQueueSize = 4
  MaxFrames = 8
  MaxRequests = 5
  Formats = {small, large}
  MaxPosted = 2
SPECIFICATION RendererSpec
SYMMETRY Interchangeable
INVARIANTS SourceTypeOK NoIdleRequest PlayedAsAsked
PROPERTIES SilentAfterShutdown RecentFrameOnce
\* The source may be shut down for good.
CHECK_DEADLOCK FALSE
