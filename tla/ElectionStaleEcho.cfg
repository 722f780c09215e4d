SPECIFICATION LiveSpec
CONSTANTS
  Node <- MCNode5
  Neigh <- MCTree
  Coins <- MCThree
  MaxCommands = 1
  PromptStart = TRUE
  MaxLoss = 0
CHECK_DEADLOCK FALSE
PROPERTY LargestWins
