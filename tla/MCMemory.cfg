SPECIFICATION MemorySpec
CONSTANTS
  Identities = {i1, i2}
  RequestIds = {r1}
  Outputs = {o1, o2}
  Blocks = {b1}
  Amounts = {1}
  Times = {1, 2}
  NoRow = NoRow
  Reader = i1
  PageLimit = 2
  MaxEntries = 3
CONSTRAINT LedgerBound
SYMMETRY Symmetry
PROPERTIES
  ImplementsStorage
  ReadsAgree
