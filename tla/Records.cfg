SPECIFICATION RecordsSpec
CONSTANTS
  Writers = {w1, w2}
  Kinds <- MCKinds
  MaxTrades = 4
  Orders = {o1, o2}
  Size = 2
  Passes = {p1, p2}
  Rounds = 3
  Changes = 3
  Connections = {c1, c2}
  Names = {k1, k2}
  Ttls = {0, 2}
  LastMs = 5
  OrderIds = {i1, i2}
  Amounts = {0, 1, 2}
  Moves = 1
  Runs = 2
INVARIANTS
  CashConserved
  FifoMatchesUnits
  SameVersionSameRow
  SettledOnce
  OrdersAgree
  GrantedOnce
  RunsSettle
SYMMETRY Symmetry
CHECK_DEADLOCK FALSE
