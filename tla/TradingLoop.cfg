SPECIFICATION LoopSpec
CONSTANTS
  Loops = {eval, exits}
  MaxErrors = 2
  MaxStarts = 3
  Callers = {c1, c2}
  Policies <- MCPolicies
  Readings <- MCReadings
  Weighting <- MCWeighting
  Opinions <- MCOpinions
  Amount = 100
  UpdateInterval = 2
  MaxAttempts = 2
  MaxClock = 2
  Fusions <- MCFusions
  Scores <- MCScores
  Volatilities <- MCVolatilities
  Changes <- MCChanges
  Announcements <- MCAnnouncements
  Conditions <- MCConditions
  Overrides <- MCOverrides
  Frames <- MCFrames
  Weightings <- MCWeightings
  Ranges <- MCWeightings
  Trends <- MCTrends
  Factors = {0, 30, 100}
  Values = {40, 70}
INVARIANTS
  OneTaskPerLoop
  StoppedIsQuiet
  StatusTruthful
  JudgedByARegime
  TruthTold
  SidesAreMeant
  WorseIsStricter
PROPERTIES
  PauseHolds
  StopEnds
  LoopsGoOn
SYMMETRY CallerSymmetry
CHECK_DEADLOCK FALSE
