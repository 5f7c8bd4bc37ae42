SPECIFICATION LivePaidSpec
CONSTANTS
  i1 = i1
  Identities = {i1}
  RequestIds = {r1, r2, r3}
  Outputs = {o1}
  Blocks = {b1}
  Amounts = {3}
  Times = {0}
  NoRow = NoRow
  Tools = {t1}
  Payer = i1
  Route = "report"
  RuleSets <- MCRuleSets
  MaxRetries = 1
  PriceRetries = 1
  MaxPerRequest = 1
  MaxTotal = 2
  Earlier = 1
  MaxOpen = 1
  Outcomes = {"ok", "throttled", "payment", "failed", "unavailable"}
  Adapters = {"proxy", "nestjs"}
  MaxDeploys = 2
INVARIANTS
  PaidTypeOK
  ChargedOnlyIfServed
  ServedAtMostOnce
  OnePaymentPerCall
  MismatchMeansPriceMoved
  ChargedAsProbed
PROPERTIES
  CallsEnd
