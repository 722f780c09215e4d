SPECIFICATION ScriptSpec
CONSTANTS
  Node <- MCNode3
  Tree <- MCTree3
  MaxRequests <- MCScripted
CHECK_DEADLOCK FALSE
INVARIANT NoDeadlock
