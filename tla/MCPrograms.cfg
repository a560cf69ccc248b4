SPECIFICATION FairSpec
CONSTANTS
  Width = 3
  Programs <- MCPrograms
  ArgReads = {"declared", "poisoned", "fault"}
  MAX_STACK_TYPES_CAP = 20
  CTX_STACK_TYPES_CAP = 10
  MaxNesting = 6
  RSP_STACK_CAP = 4
  STACK_CAP = 10
  REGISTERS = 2
  DATA = 5
  DATA_SIZE = 2
  FRAME = 8
INVARIANTS TypeOK AcceptedIsCertified ContextOfTheBody JumpsLand StackIsTyped ArgumentIsOwn SavedPointersNest FaultsAreLimits Inductive CompilerInductive
PROPERTIES RoutinesKeepApart CompilerStops
