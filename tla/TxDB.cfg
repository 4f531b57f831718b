SPECIFICATION DBSpec
CONSTANTS
  Key = {k1, k2}
  Value = {v1, v2}
  Handle = {h1, h2}
  Reader = {}
  NoValue = NoValue
  Untouched = Untouched
  NoTxn = NoTxn
  MaxBatch = 2
PROPERTIES ReadsAreTransactional ImplementsTxStore
