SPECIFICATION FairSpec
CONSTANTS
  front = front
  yard = yard
  MaxCalls = 3
  MaxUnloads = 2
  PageSize = 2
  SeenLimit = 2
  PushRefreshes = 1
  Cameras = {front}
  CameraOf <- OneCamera
  Reordering = FALSE
PROPERTIES EveryCallReported
