SPECIFICATION LiveSpec
CONSTANTS
  Node <- MCNode
  Neigh <- MCLollipop
  Rumors = {"rumor2trust"}
  Thresholds = {0, 2}
  Commands <- MCCommands
  MaxDistribute = 1
  MaxLoss = 1
CHECK_DEADLOCK FALSE
INVARIANTS
  TrustedAtThreshold
  CopiesConserved
PROPERTIES
  RumorSpreads
