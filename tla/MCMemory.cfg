SPECIFICATION Spec
CONSTANTS
  args = args
  rets = rets
  Vecs = {args, rets}
  ElemSize <- Sizes
  Values <- MCValues
  Words <- MCWords
  ARENA_MB = 20
  CHAR_ARENA_MB = 1
  MAX_MB = 12
  MB = 12
  MAX_STRING_BUFFER = 4
  INITIAL_CAPACITY = 1
  MaxCalls = 5
INVARIANT
  BlocksApart
  Inductive
PROPERTY KeepsContents
