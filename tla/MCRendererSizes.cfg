\* Two sizes to be torn, and a call of either process that fails.
CONSTANTS
  Handles = {h1, h2, h3, h4, h5}
  NoHandle = NoHandle
  MaxSessions = 1
  MaxSizes = 2
  MaxFailures = 1
  FrameSizes = {1}
  MaxSwapChains = 1
SYMMETRY HandleSymmetry
SPECIFICATION Spec
INVARIANTS
  SizeFollowsPanel
  
\* A process may be lost for good.
CHECK_DEADLOCK FALSE
