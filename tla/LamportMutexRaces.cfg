SPECIFICATION LiveSpec
CONSTANTS
  Node <- MCNode2
  Tree <- MCTree2
  MaxRequests <- MCRequests2
CHECK_DEADLOCK FALSE
PROPERTY MutualExclusion
