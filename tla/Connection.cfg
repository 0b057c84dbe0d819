SPECIFICATION Spec
CONSTANTS
  Callers = {c1, c2}
  Operations = {"create_market_buy_quote", "create_market_sell_base"}
  Named = {"create_market_buy_quote"}
  Unit = 2
  Backoff = 1
  Capacity = 2
  Attempts = 3
  Threshold = 2
  ResetAfter = 2
  Quote = 6
  Asked = 13
  Prices = {0, 5}
  Markets <- MCMarkets
  MaxTime = 6
  CcxtTime = 3
  Readers = {r1, r2}
  Symbols = {s1, s2}
  BrokerTtl = 1
  StoreTtl = 1
  StoreSize = 2
  Flight = 1
  LastTime = 3
  Clients = {q1, q2}
  Configs = {"short", "long"}
  Retries = 2
  Sizes = {0, 1, 2}
  Swaps = 2
INVARIANTS
  RequestsBounded
  OrdersAsAsked
  QuotesBounded
PROPERTY
  RequestsEnd
SYMMETRY Symmetry
CHECK_DEADLOCK FALSE
