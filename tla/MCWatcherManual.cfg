SPECIFICATION WatcherSpec
CONSTANTS
  i1 = i1
  i2 = i2
  d1 = d1
  d2 = d2
  m1 = m1
  Identities = {i1, i2}
  RequestIds = {}
  Outputs = {d1, d2, m1}
  Blocks <- MCBlocks
  Amounts = {}
  Times = {}
  NoRow = NoRow
  Watchers = {w1}
  Chains <- ManualReplaced
  Genesis = "genesis"
  Vins <- MCVins
  IdentityAddresses <- MCAddresses
  AccountOf <- MCAccountOf
  Value <- MCValue
  ManualOutputs = {m1}
  StartHeight = 1
  Lookback = 3
  MaxPerPoll = 4
  MinConf = 1
  ReorgsMidPoll = FALSE
  MaxFailures = 0
INVARIANTS
  UnattributedNotAutoCredited
