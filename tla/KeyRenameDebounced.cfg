SPECIFICATION KeySpec
CONSTANTS
  KeyCalls = {r1}
  Renamers = {r1}
  Keys = {k1}
  Names = {n1, n2}
  Gone = Gone
  Cleared = Cleared
  Delays <- FiveDelays
  Cooldown = 20
  MaxChanges = 0
  Faulty = FALSE
INVARIANTS GivenUpAfterReadBack
CHECK_DEADLOCK FALSE
