SPECIFICATION LiveFacilitatorSpec
CONSTANTS
  i1 = i1
  r1 = r1
  r2 = r2
  Identities = {i1}
  RequestIds = {r1}
  Outputs = {o1}
  Blocks = {b1}
  Amounts = {1}
  Times = {0}
  NoRow = NoRow
  Calls = {c1, c2}
  Payer <- MCPayer
  IssuedAt <- MCIssuedAt
  Price <- MCPrice
  Tolerance = 2
  ReserveTtl = 1
  MinHorizon = 4
  RpcMax = 1
  ReaperGap = 1
  MaxTime = 9
INVARIANTS
  FacilitatorTypeOK
  ChargeMatchesStatus
  ChargedAtMostOnce
  AckedCommitIsFinal
PROPERTIES
  NoReplayAfterPurge
  BlockTakesEffect
  CleanupNeverUndercutsReaper
  ReservationsSettle
