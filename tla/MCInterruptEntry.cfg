SPECIFICATION Spec
CHECK_DEADLOCK FALSE
CONSTANTS
  MaxDepth = 3
INVARIANTS
  GsRight
  Transparent
  FrameAsStruct
