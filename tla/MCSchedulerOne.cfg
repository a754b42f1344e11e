SPECIFICATION FairSpec
CONSTANTS
  Cpus = {0}
  NewIds = {2, 3}
  Signals = {"KILL", "USR"}
  CantBlock = {"KILL"}
  Spaces <- AnySpace
INVARIANTS
  AddressSpaceLoaded
PROPERTIES
  IdleYields
  RoundRobin
