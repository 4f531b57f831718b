SPECIFICATION Spec
CONSTANTS
  Block <- MCBlock
  Genesis = "g"
  Parent <- MCParent
  Chain <- MCChain
  Height <- MCHeight
  ChainTrust <- MCChainTrust
  Tx <- MCTx
  Coinbase <- MCCoinbase
  Coinstake = {}
  vtx <- MCvtx
  Outpoint = {"of", "of2", "oa", "ob", "o2"}
  TxOf <- MCTxOf
  Inputs <- MCInputs
  Maturity = 1
  None = None
  Unconnectable = {}
  Contested = {"b1", "b2"}
  nCheckDepth = 2
INVARIANT BestBlockIsConnected
