SPECIFICATION FairSpec
CONSTANTS
  Tx = {"t1", "t2"}
  Outpoint = {"o1", "o2"}
  Inputs <- MCInputs
  Masternode = {"m1"}
  Doubtful = {"m1"}
  Own = {"t1"}
  Self = "m1"
  BlockHeight = {0, 5}
  Required = 1
  Lifetime = 1
  None = None
INVARIANTS OneVotePerMasternode LocksEarned
PROPERTIES ReleasedByExpiry LocksExpire
