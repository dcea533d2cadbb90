SPECIFICATION Spec
CONSTANTS
  door = door
  camera = camera
  archive = archive
  nobody = nobody
  Calls = {door, camera, archive}
  UcamsCalls = {camera, archive}
  MaxAgings = 0
INVARIANTS RefusedBeforeGivingUp
CHECK_DEADLOCK FALSE
