SPECIFICATION PaidSpec
CONSTANTS
  i1 = i1
  Identities = {i1}
  RequestIds = {r1, r2}
  Outputs = {o1}
  Blocks = {b1}
  Amounts = {2}
  Times = {0}
  NoRow = NoRow
  Tools = {t1, t2}
  Payer = i1
  Route = "report"
  RuleSets <- MCRuleSets
  MaxRetries = 0
  PriceRetries = 1
  MaxPerRequest = 2
  MaxTotal = 2
  Earlier = 1
  MaxOpen = 2
  Outcomes = {"ok", "failed"}
  Adapters = {"proxy", "nestjs"}
  MaxDeploys = 0
INVARIANTS
  SpendWithinCap
