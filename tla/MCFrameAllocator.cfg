SPECIFICATION FairSpec
CONSTANTS
  Window = 2
  Start = 4
  PhysMemSize = 18
  MaxRangeCount = 3
  RegionLists <- MCRegionLists
  Counts = {1, 2, 3}
  MaxCalls = 3
  MCStarts = {0, 3, 5, 6, 8, 9}
  MCLengths = {0, 1, 3, 4}
  MCMaxRegions = 3
CHECK_DEADLOCK FALSE
INVARIANTS
  MergeExact
  PanicsOnlyWhenFull
PROPERTIES
  RequestsAnswered
  ImplementsSource
