SPECIFICATION Spec
CONSTANTS
  ClientIds = {"t1"}
  Amounts = {1}
  initial_asset = 2
  PartialFills = FALSE
  Prices = {8, 12}
  Loops = {l1, l2}
  NoLoop = NoLoop
  entry = 10
  atrs = {2}
  tp1_atr = 1
  tp2_atr = 2
  sl_atr = 2
  tp1_close_pct = 50
  enable_breakeven = TRUE
  min_base_to_exit = 0
  BusRaises = FALSE
  max_impact_pct = 50
PROPERTIES
  BreakevenAfterTP1
CHECK_DEADLOCK FALSE
