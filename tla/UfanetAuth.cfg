SPECIFICATION FairSpec
CONSTANTS
  door = door
  camera = camera
  archive = archive
  nobody = nobody
  Calls = {door, camera, archive}
  UcamsCalls = {camera, archive}
  MaxAgings = 1
INVARIANTS IInv NeverExecutedTwice NoNeedlessExchange RenewedBeforeGivingUp
PROPERTIES EveryCallEnds
CHECK_DEADLOCK FALSE
