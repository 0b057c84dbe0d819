SPECIFICATION Spec
CONSTANTS
  ClientIds = {"t1"}
  Amounts = {1}
  initial_asset = 2
  PartialFills = TRUE
  Prices = {4, 14}
  Loops = {l1, l2}
  NoLoop = NoLoop
  entry = 10
  atrs = {0, 2, 4}
  tp1_atr = 1
  tp2_atr = 2
  sl_atr = 2
  tp1_close_pct = 50
  enable_breakeven = TRUE
  min_base_to_exit = 0
  BusRaises = TRUE
  max_impact_pct = 50
INVARIANTS
  AccountTrue
  ClosedIsBacked
SYMMETRY LoopSymmetry
CHECK_DEADLOCK FALSE
