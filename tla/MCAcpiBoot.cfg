SPECIFICATION Spec
CHECK_DEADLOCK FALSE
CONSTANTS
  Madts <- MCMadts
  MaxCpus = 4
  CPUs = {0, 1, 2, 5, 6}
  BspId = 5
  X2 = TRUE
  ResetDest = 0
INVARIANTS
  OwnIdAndStack
  NoBorrowPanic
  AllReady
  RoutedAsMadt
  HandledWhereSent

  
