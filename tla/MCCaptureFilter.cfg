SPECIFICATION FilterSpec
CONSTANTS
  Panel <- MCPanel
  MaxDetections = 2
  Filters = {g1, g2}
  DefaultSize <- MCDefaultSize
  Requests <- MCRequests
  Rates = {15}
  Degrees = {90, 270}
  Offers <- MCOffers
  MaxSessions = 2
  MaxSettings = 2
INVARIANTS
  FilterTypeOK
  CamerasInOrder
  ProfileFollowsRequests
  DimensionsFollowRequest
  EachWaitsForItsOwn
  FrameReadInItsSize
SYMMETRY Symmetry
VIEW WithoutCameras
CHECK_DEADLOCK FALSE
