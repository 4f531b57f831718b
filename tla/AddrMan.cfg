SPECIFICATION Spec
CONSTANTS
  ha = ha
  ha1 = ha1
  ha2 = ha2
  hb = hb
  hc = hc
  hd = hd
  Service = {ha1, ha2, hb, hc, hd}
  Host = {ha, hb, hc, hd}
  Source = {"s1", "s2"}
  Ip <- MCIp
  NewBucket = {0, 1}
  TriedBucket = {"t1"}
  NewBucketOf <- MCNewBucketOf
  TriedBucketOf <- MCTriedBucketOf
  NewBucketSize = 1
  TriedBucketSize = 2
  BucketsPerAddress = 2
  Inspect = 4
  GetAddrPct = 50
  Time = {1}
  MaxId = 4
  None = None
SYMMETRY MCSymmetry
INVARIANTS Consistent BucketsBounded
PROPERTIES TriedNeverDeleted RestartKeepsAll
