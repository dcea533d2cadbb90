SPECIFICATION Spec
CONSTANTS
  front = front
  yard = yard
  MaxCalls = 4
  MaxUnloads = 2
  PageSize = 2
  SeenLimit = 2
  PushRefreshes = 2
  Cameras = {front, yard}
  CameraOf <- TwoCameras
  Reordering = FALSE
INVARIANTS IInv NoCallSwallowed
PROPERTIES FiresOnlyNewer DeliversAsPromised
