SPECIFICATION LiveSpec
CONSTANTS
  Node <- MCNode4
  Neigh <- MCLollipop
  Coins <- MCPairs
  MaxCommands = 1
  PromptStart = TRUE
  MaxLoss = 1
CHECK_DEADLOCK FALSE
INVARIANTS
  TypeOK
  Validity
  EchoOncePerChild
  ResultVisitsOnce
  LeaderHasTree
PROPERTIES
  WaveGrows
  Elects
  SoleCandidateElected
