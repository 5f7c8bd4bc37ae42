SPECIFICATION VerifierSpec
CONSTANTS
  i1 = i1
  i2 = i2
  k1 = k1
  k2 = k2
  k3 = k3
  b1 = b1
  b2 = b2
  c1 = c1
  c2 = c2
  None = None
  Checks = {c1, c2}
  Identities = {i1, i2}
  Keys = {k1, k2, k3}
  States <- MCStates
  Initially <- MCInitially
  Later <- MCLater
  Requests <- MCRequests
  Policy <- MCPolicy
  Server <- MCServer
  ExtensionKind <- MCExtensionKind
  IdentityOf <- MCIdentityOf
  MaxExtensions = 2
  Modes = {"rpc", "offline"}
  Ttl = 2
  MinRefreshAge = 1
  MaxEntries = 1
  RpcMax = 1
  Failures = 2
  Recovery = 2
INVARIANTS
  VerifierTypeOK
  AcceptedAsSigned
  FreshKeysHeal
PROPERTIES
  RefreshRateLimited
  OutagesPass
