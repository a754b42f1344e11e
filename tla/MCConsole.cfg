SPECIFICATION Spec
CONSTANTS
  Cpus = {c1, c2}
  NoCpu = NoCpu
  Framebuffers <- MCFramebuffers
  RasterWidth = 2
  RasterHeight = 3
  LINE_SPACING = 1
  BORDER_PADDING = 1
  Chars = {"glyph", "newline", "return"}
  MaxText = 3
  MaxRecords = 1
  MCWidths = {3, 5, 6}
  MCHeights = {4, 9, 10}
  MCPads = {0, 2}
CHECK_DEADLOCK FALSE
INVARIANTS
  InsideScreen
  RecordsWhole
PROPERTIES
  PanicReported
