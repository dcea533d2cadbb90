CONSTANTS
  RepairTicks = 2
  StallTicks = 3
  BaseDelay = 1
  MaxDelay = 4
  MaxFailures = 4
  MaxLosses = 0
SPECIFICATION Spec
INVARIANT RestartsBackOff
CHECK_DEADLOCK FALSE
