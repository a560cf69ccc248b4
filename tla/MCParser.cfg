SPECIFICATION Spec
CONSTANTS
  Sources <- MCSources
  MaxRets = 6
INVARIANTS ParsesAsWritten AcceptsThePrograms ChainsGoForward
