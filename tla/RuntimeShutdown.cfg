SPECIFICATION LiveSpec
CONSTANTS
  ChanCap = 1
  MaxArrivals = 4
CHECK_DEADLOCK FALSE
PROPERTY TerminatesGracefully
