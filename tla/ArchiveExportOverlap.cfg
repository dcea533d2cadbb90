SPECIFICATION ExportSpec
CONSTANTS
  ring = ring
  theRing = theRing
  Jobs = {x1, x2}
  Fragments = {ring}
  CallOf <- OneCall
  NoCall = NoCall
  Retries = 1
  MaxFiles = 0
  MaxRuns = 2
  MaxReloads = 0
SYMMETRY JobsAlike
INVARIANT ExportsAreAtomic
CHECK_DEADLOCK FALSE
