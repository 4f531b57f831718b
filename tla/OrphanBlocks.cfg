SPECIFICATION FairSpec
CONSTANTS
  Block <- MCBlock
  Genesis = "g"
  NoBlock = NoBlock
  Parent <- MCParent
  Stake <- MCStake
  NoStake = "none"
  Refusable = {"b"}
  Contestable = {"c", "d"}
  MaxOrphanBlocks = 3
INVARIANTS MapsAgree OrphansUnindexed StakesBacked OrphansTakenUp
PROPERTIES PrunesLeaves ProcessBlockEnds
