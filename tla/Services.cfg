SPECIFICATION ServicesSpec
CONSTANTS
  KeyCalls = {r1, r2}
  Renamers = {r1}
  Keys = {k1}
  Names = {n1, n2}
  Gone = Gone
  Cleared = Cleared
  Delays <- TwoDelays
  Cooldown = 1
  MaxChanges = 1
  Faulty = TRUE
  RepairTicks = 2
  StallTicks = 3
  BaseDelay = 1
  MaxDelay = 4
  MaxFailures = 4
  MaxLosses = 2
INVARIANTS KeyInv IInv PollingReturns RepairIssueIsTrue
PROPERTIES CallsAreAnswered OutagesEnd
CHECK_DEADLOCK FALSE
