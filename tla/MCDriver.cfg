SPECIFICATION MainFairSpec
CONSTANTS
  Width = 3
  Files <- MCFiles
  Orders = {"index", "call"}
  SIMULATION_STACK_CAP = 3
  Builds = {"debug", "release"}
  Leftovers <- MCLeftovers
INVARIANTS HandsOver LastDeclarationsWin OnlyDropsCorrupt DebugBuildLinksIt ToolsTakeTurns
PROPERTIES PushedValuesAreExact DriverStops MainStops
