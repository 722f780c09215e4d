SPECIFICATION LiveSpec
CONSTANTS
  ChanCap = 1
  MaxArrivals = 4
CHECK_DEADLOCK FALSE
INVARIANTS
  TypeOK
  HandledInOrder
  NothingLost
  CancelIsFinal
PROPERTIES
  EveryMessageHandled
  ExitsUnlessBlocked
