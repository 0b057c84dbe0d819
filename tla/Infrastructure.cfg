SPECIFICATION InfrastructureSpec
CONSTANTS
  MaxPubs = 4
  NoKey = NoKey
  exact = exact
  wild = wild
  order = order
  quiet = quiet
  k1 = k1
  k2 = k2
  k3 = k3
  Messages <- MCMessages
  Subs = {exact, wild}
  Covers <- MCCovers
  DlqSubs = {d1}
  MaxAttempts = 2
  TopicConcurrency = 1
  DedupeSize = 2
  Owners = {a, b, c}
  NoRow = NoRow
  ttl_sec = 1
  MaxTime = 3
  Starts = {s1, s2}
  Plan <- pymigrations
  MaxStarts = 4
  Jobs = {j1, j2}
  LastSecond = 1
  Writes = 1
  Commands = 3
INVARIANTS
  NoEarlyRedelivery
  Accounted
  MutualExclusion
  StartsSafe
  RestoredWhole
PROPERTIES
  PublishEnds
SYMMETRY Symmetry
CHECK_DEADLOCK FALSE
