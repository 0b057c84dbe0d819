SPECIFICATION Spec
CONSTANTS
  Calls = {c1, c2}
  Symbols = {btc}
  NoSymbol = NoSymbol
  Requests <- MCRequests
  CallerIds = {}
  NoId = NoId
  FixedAmount = 1
  MaxRetries = 2
  Verdicts = {"reduce", "block"}
  Faults = {"storage", "bus"}
  MaxMinute = 1
  MaxSession = 1
INVARIANTS
  OneOrderPerKey
  OrdersPassedTheGates
  ExecutedIsReal
  DuplicateHasOriginal
PROPERTIES
  ImplementsOnce
SYMMETRY CallSymmetry
CHECK_DEADLOCK FALSE
