SPECIFICATION Spec
CONSTANTS
  s1 = s1
  s2 = s2
  s3 = s3
  Callers = {c1}
  Symbols <- MCSymbols
  Settings <- DailyLimit
  Marks <- MCMarks
  Spreads <- MCSpreads
  Day = 2
  MaxTrades = 3
  MaxClock = 5
PROPERTIES
  DailyLimitStopsEntries
CHECK_DEADLOCK FALSE
