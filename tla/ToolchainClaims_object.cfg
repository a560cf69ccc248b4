SPECIFICATION MainSpec
CONSTANTS
  Width = 3
  Files <- Smallest
  Orders = {"index"}
  SIMULATION_STACK_CAP = 3
  Builds = {"release"}
  Leftovers <- NoLeftovers
INVARIANT ObjectIsThisProgram
