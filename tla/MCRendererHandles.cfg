\* Stops and starts of both processes; the second swap chain can take the number
\* of the first.
CONSTANTS
  Handles = {h1, h2, h3, h4, h5}
  NoHandle = NoHandle
  MaxSessions = 2
  MaxSizes = 0
  MaxFailures = 0
  FrameSizes = {1}
  MaxSwapChains = 2
SYMMETRY HandleSymmetry
SPECIFICATION Spec
INVARIANTS
  RendererTypeOK
  
  NumberNamesSwapChain
  PanelShowsCurrent
PROPERTIES
  NeverBackwards
\* A process may be lost for good.
CHECK_DEADLOCK FALSE
