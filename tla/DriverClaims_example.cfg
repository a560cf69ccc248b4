SPECIFICATION Spec
CONSTANTS
  Width = 3
  Files <- Example
  Orders = {"index", "call"}
  SIMULATION_STACK_CAP = 16
INVARIANT ExampleEvaluates
