SPECIFICATION Spec
CONSTANTS
  fob = fob
  card = card
  Keys = {fob, card}
  KeyOf <- KeysTakeTurns
  NumIntercoms = 2
  MaxPassages = 3
  MaxTime = 2
  MaxUnloads = 1
  PageSize = 2
INVARIANTS IInv NoDuplicatePassage NoPassageSwallowed
