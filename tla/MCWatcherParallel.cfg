SPECIFICATION WatcherSpec
CONSTANTS
  i1 = i1
  i2 = i2
  d1 = d1
  d2 = d2
  m1 = m1
  Identities = {i1, i2}
  RequestIds = {}
  Outputs = {d1, d2, m1}
  Blocks <- MCBlocks
  Amounts = {}
  Times = {}
  NoRow = NoRow
  Watchers = {w1, w2}
  Chains <- Growing
  Genesis = "genesis"
  Vins <- MCVins
  IdentityAddresses <- MCAddresses
  AccountOf <- MCAccountOf
  Value <- MCValue
  ManualOutputs = {}
  StartHeight = 0
  Lookback = 1
  MaxPerPoll = 2
  MinConf = 1
  ReorgsMidPoll = TRUE
  MaxFailures = 1
INVARIANTS
  CursorCertifies
  CountedOnce
  HistoryIgnored
