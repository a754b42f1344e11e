SPECIFICATION FairSpec
CONSTANTS
  Callers = {c1, c2, c3}
  FirstId = 2
  MaxId = 4
CHECK_DEADLOCK FALSE
INVARIANTS
  IdsUnique
  IdsKept
PROPERTIES
  LockReleased
