SPECIFICATION Spec
CONSTANTS
  Width = 3
  Programs <- FuncInProc
  ArgReads = {"declared"}
  MAX_STACK_TYPES_CAP = 16
  CTX_STACK_TYPES_CAP = 16
  MaxNesting = 6
  RSP_STACK_CAP = 4
  STACK_CAP = 10
  REGISTERS = 2
  DATA = 5
  DATA_SIZE = 2
  FRAME = 8
INVARIANT InlineHasOwnContext
