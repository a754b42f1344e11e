SPECIFICATION Spec
CONSTANTS
  PageSize = 4
  PtrLen = 2
  Elfs <- MCElfs
  Base = 16
  KernelSpares = {1, 13}
  UserSpares = {4, 17}
  MCText = {3, 4, 5}
  MCData = {0, 1, 3, 4, 6}
  MCBss = {0, 1, 4, 9}
  MCLast = {0, 2}
  MCStart = 8
CHECK_DEADLOCK FALSE
INVARIANTS
  ImageRight
  RightsRight
  FileUntouched
  FramesAccounted
