SPECIFICATION LiveSpec
CONSTANTS
  Node <- MCNode3
  Tree <- MCTree3
  MaxRequests <- MCRequests3
CHECK_DEADLOCK FALSE
INVARIANTS
  TypeOK
  AcksLater
PROPERTIES
  AcknowledgedAlone
  ClocksAdvance
  Granted
