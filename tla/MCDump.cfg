SPECIFICATION Spec
CONSTANTS
  Width = 9
  ROOM = 5
  Strings <- MCStrings
INVARIANT
  WritesTop
  StaysInBuffer
PROPERTY DumpStops
