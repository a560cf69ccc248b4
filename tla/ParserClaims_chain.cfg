SPECIFICATION Spec
CONSTANTS
  Sources <- LoopInThen
  MaxRets = 6
INVARIANT BlocksEnd
