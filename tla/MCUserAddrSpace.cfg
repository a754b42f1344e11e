SPECIFICATION Spec
CONSTANTS
  PageSize = 3
  SmallMax = 1
  MediumMax = 2
  BasePage = 1
  PhysPages = 24
  P1Pages = 2
  P2Pages = 8
  StackPage = 48
  StackPages = 2
  BootPage = 56
  BootPages = 1
  LastPage = 63
  Limits = {1, 6, 9, 13, 24}
  Contexts = {c1}
  Sizes = {1, 2, 3, 4, 7}
  MaxBuffers = 5
CHECK_DEADLOCK FALSE
INVARIANTS
  DropExact
  LargeApart
  ResolveExact
  OnlyFramesPanic
