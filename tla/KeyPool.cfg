SPECIFICATION Spec
CONSTANTS
  Client = {"r1", "r2", "r3"}
  TargetSize = 1
  RefillSize = {2}
  MaxKey = 6
  None = None
INVARIANTS UsedNeverPooled PoolBacked ReservedExclusive
