SPECIFICATION FacilitatorSpec
CONSTANTS
  i1 = i1
  r1 = r1
  r2 = r2
  Identities = {i1}
  RequestIds = {r1}
  Outputs = {o1}
  Blocks = {b1}
  Amounts = {1}
  Times = {0}
  NoRow = NoRow
  Calls = {c1}
  Payer <- MCPayer
  IssuedAt <- MCIssuedAt
  Price <- MCPrice
  Tolerance = 5
  ReserveTtl = 5
  MinHorizon = 10
  RpcMax = 1
  ReaperGap = 1
  MaxTime = 13
PROPERTIES
  CleanupNeverUndercutsReaper
