SPECIFICATION Spec
CONSTANTS
  s1 = s1
  s2 = s2
  s3 = s3
  Callers = {c1, c2}
  Symbols <- MCSymbols
  Settings <- Unwired
  Marks <- MCMarks
  Spreads <- MCSpreads
  Day = 2
  MaxTrades = 3
  MaxClock = 5
PROPERTIES
  LossStopsEntries
CHECK_DEADLOCK FALSE
