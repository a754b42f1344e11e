SPECIFICATION Spec
CONSTANTS
  Entries = 7
  EntrySize = 2
  Sizes = {1, 2, 3, 4, 5}
PROPERTIES
  HandsOutFree
  OneFoundWhileFree
