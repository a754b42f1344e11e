SPECIFICATION FairSpec
CONSTANTS
  Cpus = {0, 1}
  NewIds = {3, 4}
  Signals = {}
  CantBlock = {}
  Spaces = {}
INVARIANTS
  RunningIsCurrent
  RegistersInOnePlace
  EntryStackPrivate
PROPERTIES
  SwitchLockReleased
