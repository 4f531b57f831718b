SPECIFICATION Spec
CONSTANTS
  Block <- MCBlock
  Genesis = "g"
  Parent <- MCParent
  Chain <- MCChain
  Height <- MCHeight
  ChainTrust <- MCChainTrust
  Tx <- MCTx
  Coinbase <- MCCoinbase
  Coinstake = {}
  vtx <- MCvtx
  Outpoint = {"f1", "f2", "f3", "o1", "o2"}
  TxOf <- MCTxOf
  Inputs <- MCInputs
  Maturity = 1
  None = None
  Free = {"t5"}
  Large = {"t4"}
  LockTx = {"t2", "t4"}
  MaxOrphans = 2
  Checkpoint = 0
INVARIANT PoolValid
