SPECIFICATION Spec
CONSTANTS
  Node <- MCNode
  Neigh <- MCNeigh
  Leader = 1
  Parent <- MCParent
  Scripts <- MCScripts
  MaxSnapshots <- MCMaxSnapshots
CHECK_DEADLOCK FALSE
INVARIANTS TypeOK FloodOrder UpdatedTogether StraysByShortcut  SnapshotOver EndsWhenDone
