SPECIFICATION FairSpec
CONSTANTS
  Vin = {"v1", "v2"}
  PubKey <- MCPubKey
  Self = "v2"
  MinDsee = 0
  MinDseep = 0
  Expiration = 1
  Removal = 2
  MaxAhead = 1
  None = None
INVARIANTS UniqueVins
PROPERTIES SilentRemoved SpentLeavesForGood
