\* Three frames and requests: two requests can wait while a third arrives.
CONSTANTS
  MaxFrames = 3
  MaxRequests = 3
  MaxTicks = 3
  MaxFailures = 2
SPECIFICATION SchemeSpec
INVARIANTS SourceTypeOK NoIdleRequest Timeline NullUseNeedsLateRequest UnansweredNeedsClose
PROPERTY NewestFrameOnce
\* The source may stop for good.
CHECK_DEADLOCK FALSE
