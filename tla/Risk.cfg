SPECIFICATION Spec
CONSTANTS
  s1 = s1
  s2 = s2
  s3 = s3
  Callers = {c1, c2}
  Symbols <- MCSymbols
  Settings <- MCSettings
  Marks <- MCMarks
  Spreads <- MCSpreads
  Day = 2
  MaxTrades = 3
  MaxClock = 5
SYMMETRY CallerSymmetry
INVARIANTS
  BudgetsBounded
  CooldownWindow
  RefusalIsEarned
  ExclusionBounded
PROPERTIES
  StreakIsFinal
CHECK_DEADLOCK FALSE
