SPECIFICATION LexerFairSpec
CONSTANTS
  Disks <- MCDisks
  MainPath <- Main
  SIZEOF_TOKEN = 2
  LINE_CAP = 10
  LINES_CAP = 6
  ITEMS_CAP = 5
  MAXIMUM_TOKENS_AMOUNT_PER_LINE = 4
  FILES_CAP = 4
  LOCS_CAP = 8
  PATH_CAP = 3
INVARIANTS LexesAsWritten LocationsPoint TextsAreSafe
PROPERTY LexerStops
