SPECIFICATION Spec
CONSTANTS
  Node <- MCNode
  Neigh <- MCNeighLine
  Leader = 1
  Parent <- MCParent
  Scripts <- MCScriptsOther
  MaxSnapshots <- MCMaxSnapshotsOther
CHECK_DEADLOCK FALSE
INVARIANT CausesRecorded
