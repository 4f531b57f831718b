----------------------------- MODULE MCAddrMan ------------------------------
(***************************************************************************)
(* Hosts of which one has two ports; a bucket holds one new or two tried   *)
(* addresses.                                                              *)
(***************************************************************************)
EXTENDS AddrMan, TLC

CONSTANTS ha, ha1, ha2, hb, hc, hd

MCIp == [s \in Service |-> IF s \in {ha1, ha2} THEN ha ELSE s]

\* Each source has a bucket of its own.
MCNewBucketOf == [x \in Host \X Source |-> IF x[2] = "s1" THEN 0 ELSE 1]

MCTriedBucketOf == [s \in Service |-> "t1"]

MCSymmetry == Permutations({ha1, ha2}) \cup Permutations({hb, hc, hd})

=============================================================================
