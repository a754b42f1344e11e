SPECIFICATION Spec
CONSTANTS
  Entries = 8
  EntrySize = 2
  FrameSize = 2
  LowFrame = 2
  StackFrames = 2
  MaxTake = 2
  MaxRegions = 12
  Machines <- MCMachines
  MaxGrants = 2
  MCHoles = FALSE
  MCLongBootstrap = FALSE
  MCFramebuffers = {TRUE, FALSE}
CHECK_DEADLOCK FALSE
INVARIANTS
  KernelKeepsOff
  LoaderKeepsOff
  RegionsSorted
  LayoutAgreed
