SPECIFICATION Spec
CONSTANTS
  first = first
  second = second
  third = third
  NoId = NoId
  Ids = {first, second, third}
  MaxSwitches = 2
  MaxKills = 0
  StoreFails = FALSE
INVARIANTS LeftoversAreNeverSilent
CHECK_DEADLOCK FALSE
