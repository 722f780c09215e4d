SPECIFICATION LiveSpec
CONSTANTS
  Node <- MCNode
  Neigh <- MCNeigh
  Leader = 1
  Parent <- MCParent
  MaxTime = 2
  Initial <- MCInitial
  sVote = 1
  pNeighs <- MCpNeighs
  aMax <- MCaMax
  MaxRounds = 3
  MayFail <- MCMayFail
CHECK_DEADLOCK FALSE
INVARIANTS TypeOK FourCounters VotesConserved VotingBounded AnswersConserved CollectsAlone ResultTrue
PROPERTY Reported
