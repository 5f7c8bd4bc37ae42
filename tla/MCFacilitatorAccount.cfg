SPECIFICATION FacilitatorSpec
CONSTANTS
  i1 = i1
  r1 = r1
  r2 = r2
  Identities = {i1}
  RequestIds = {r1, r2}
  Outputs = {o1}
  Blocks = {b1}
  Amounts = {1, 2}
  Times = {0}
  NoRow = NoRow
  Calls = {c1}
  Payer <- MCPayer
  IssuedAt <- MCIssuedAt
  Price <- MCPrice
  Tolerance = 1
  ReserveTtl = 1
  MinHorizon = 3
  RpcMax = 1
  ReaperGap = 1
  MaxTime = 5
INVARIANTS
  AssertionNeverThrows
  RepeatedCommitSucceeds
PROPERTIES
  OneRowPerMovement
  RowsOnlySettle
  OverdraftOnlyLate
  ImplementsAccount
