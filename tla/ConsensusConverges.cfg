SPECIFICATION Spec
CONSTANTS
  Node <- MCNode
  Neigh <- MCNeigh
  Leader = 1
  Parent <- MCParent
  MaxTime = 2
  Initial <- MCInitial
  sVote = 1
  pNeighs <- MCpNeighsAll
  aMax <- MCaMaxNone
  MaxRounds = 2
  MayFail = {}
CHECK_DEADLOCK FALSE
INVARIANT ConvergedQuiet
