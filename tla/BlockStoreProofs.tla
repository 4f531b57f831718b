-------------------------- MODULE BlockStoreProofs --------------------------
(***************************************************************************)
(* TLAPS proofs about the two stores that blocks go through: the database  *)
(* (TxDB), for every set of keys, values and handles and every batch       *)
(* length, and the orphan blocks (OrphanBlocks), for every tree of blocks, *)
(* every assignment of stakes and every limit.                             *)
(***************************************************************************)
EXTENDS TxDB, OrphanBlocks, FiniteSetTheorems, WellFoundedInduction, TLAPS

-----------------------------------------------------------------------------
(* The transaction database. *)

\* A non-empty set of positions of a sequence has a last member: what makes
\* "the last hit" of a batch scan well defined.
LEMMA MaxPosition ==
  ASSUME NEW n \in Nat, NEW S, S \subseteq 1..n, S # {}
  PROVE  \E i \in S : \A j \in S : j <= i
<1> DEFINE T == {n - i : i \in S}
<1>1. T \subseteq Nat /\ T # {}
  <2>1. \A i \in S : n - i \in Nat
    OBVIOUS
  <2>2. T # {}
    OBVIOUS
  <2> QED  BY <2>1, <2>2
<1>2. PICK x \in T : \A y \in T : ~(<<y, x>> \in OpToRel(<, Nat))
  <2> HIDE DEF T
  <2> QED  BY <1>1, NatLessThanWellFounded, WFMin
<1>3. \A y \in T : x <= y
  <2> SUFFICES ASSUME NEW y \in T, y < x PROVE FALSE
    BY <1>1
  <2>1. x \in Nat /\ y \in Nat
    BY <1>1
  <2>2. <<y, x>> \in OpToRel(<, Nat)
    BY <2>1 DEF OpToRel
  <2> QED  BY <1>2, <2>2
<1>4. PICK i \in S : x = n - i
  OBVIOUS
<1>5. \A j \in S : j <= i
  <2> TAKE j \in S
  <2>1. n - j \in T
    OBVIOUS
  <2>2. x <= n - j
    BY <2>1, <1>3
  <2>3. i \in 1..n /\ j \in 1..n
    OBVIOUS
  <2> QED  BY <2>2, <2>3, <1>4
<1> QED  BY <1>5

\* CBatchScanner: what LastHit chooses is a hit, and no hit lies after it.
LEMMA LastHitProperty ==
  ASSUME NEW batch \in Seq(Entry), NEW k, Hits(batch, k) # {}
  PROVE  /\ LastHit(batch, k) \in Hits(batch, k)
         /\ \A j \in Hits(batch, k) : j <= LastHit(batch, k)
<1>1. Len(batch) \in Nat /\ Hits(batch, k) \subseteq 1..Len(batch)
  BY DEF Hits
<1>2. \E i \in Hits(batch, k) : \A j \in Hits(batch, k) : j <= i
  BY <1>1, MaxPosition
<1> QED  BY <1>2 DEF LastHit

LEMMA LastHitUnique ==
  ASSUME NEW batch \in Seq(Entry), NEW k, NEW i \in Hits(batch, k),
         \A j \in Hits(batch, k) : j <= i
  PROVE  LastHit(batch, k) = i
<1>1. Hits(batch, k) \subseteq 1..Len(batch) /\ Len(batch) \in Nat
  BY DEF Hits
<1>2. /\ LastHit(batch, k) \in Hits(batch, k)
      /\ \A j \in Hits(batch, k) : j <= LastHit(batch, k)
  BY LastHitProperty
<1> QED  BY <1>1, <1>2

\* A scan yields a stored value, a deletion, or Untouched.
LEMMA ScanBatchType ==
  ASSUME NEW batch \in Seq(Entry), NEW k
  PROVE  /\ Hits(batch, k) # {} => /\ ScanBatch(batch, k) = batch[LastHit(batch, k)].val
                                   /\ ScanBatch(batch, k) \in Stored
         /\ Hits(batch, k) = {} => ScanBatch(batch, k) = Untouched
<1>1. CASE Hits(batch, k) # {}
  <2>1. LastHit(batch, k) \in 1..Len(batch)
    BY <1>1, LastHitProperty DEF Hits
  <2>2. batch[LastHit(batch, k)] \in Entry
    BY <2>1
  <2> QED  BY <1>1, <2>2 DEF ScanBatch, Entry
<1>2. CASE Hits(batch, k) = {}
  BY <1>2 DEF ScanBatch
<1> QED  BY <1>1, <1>2

LEMMA ScanEmptyBatch ==
  ASSUME NEW k
  PROVE  ScanBatch(<<>>, k) = Untouched
BY DEF ScanBatch, Hits

\* Appending an entry changes what the scan finds at its key, and only there.
LEMMA ScanAppended ==
  ASSUME NEW batch \in Seq(Entry), NEW e \in Entry, NEW k
  PROVE  ScanBatch(Append(batch, e), k) =
           IF k = e.key THEN e.val ELSE ScanBatch(batch, k)
<1> DEFINE b == Append(batch, e)
           n == Len(batch)
<1>1. /\ b \in Seq(Entry) /\ n \in Nat /\ Len(b) = n + 1
      /\ b[n + 1] = e
      /\ \A i \in 1..n : b[i] = batch[i]
      /\ DOMAIN b = 1..(n + 1) /\ DOMAIN batch = 1..n
  OBVIOUS
<1> HIDE DEF b, n
<1>2. CASE k = e.key
  <2>1. n + 1 \in Hits(b, k)
    BY <1>1, <1>2 DEF Hits
  <2>2. \A j \in Hits(b, k) : j <= n + 1
    BY <1>1 DEF Hits
  <2>3. LastHit(b, k) = n + 1
    BY <1>1, <2>1, <2>2, LastHitUnique
  <2> QED  BY <1>1, <1>2, <2>1, <2>3 DEF ScanBatch, b
<1>3. CASE k # e.key
  <2>1. Hits(b, k) = Hits(batch, k)
    <3>1. Hits(b, k) \subseteq Hits(batch, k)
      <4> SUFFICES ASSUME NEW i \in 1..(n + 1), b[i].key = k PROVE i \in 1..n /\ batch[i].key = k
        BY <1>1 DEF Hits
      <4>1. i # n + 1
        BY <1>1, <1>3
      <4> QED  BY <1>1, <4>1
    <3>2. Hits(batch, k) \subseteq Hits(b, k)
      BY <1>1 DEF Hits
    <3> QED  BY <3>1, <3>2
  <2>2. CASE Hits(batch, k) = {}
    BY <1>3, <2>1, <2>2 DEF ScanBatch, b
  <2>3. CASE Hits(batch, k) # {}
    <3>1. LastHit(b, k) = LastHit(batch, k)
      BY <2>1 DEF LastHit
    <3>2. LastHit(batch, k) \in 1..n
      BY <1>1, <2>3, LastHitProperty DEF Hits
    <3> QED  BY <1>1, <1>3, <2>1, <2>3, <3>1, <3>2 DEF ScanBatch, b
  <2> QED  BY <2>2, <2>3
<1> QED  BY <1>2, <1>3

-----------------------------------------------------------------------------
\* Every step of the database keeps the disk and the batches well formed.
THEOREM DBTypeCorrect == DBSpec => []DBTypeOK
<1>1. DBInit => DBTypeOK
  BY DEF DBInit, DBTypeOK, Stored
<1>2. DBTypeOK /\ [DBNext]_dbVars => DBTypeOK'
  <2> SUFFICES ASSUME DBTypeOK, [DBNext]_dbVars PROVE DBTypeOK'
    OBVIOUS
  <2> USE DEF DBTypeOK
  <2>1. ASSUME NEW h \in Handle, TxnBegin(h) PROVE DBTypeOK'
    BY <2>1 DEF TxnBegin
  <2>2. ASSUME NEW h \in Handle, NEW k \in Key, NEW v \in Stored,
               WriteOrErase(h, k, v)
        PROVE  DBTypeOK'
    <3>1. [key |-> k, val |-> v] \in Entry
      BY DEF Entry
    <3>2. CASE activeBatch[h] # NoTxn
      <4>1. Append(activeBatch[h], [key |-> k, val |-> v]) \in Seq(Entry)
        BY <3>1, <3>2
      <4> QED  BY <2>2, <3>2, <4>1 DEF WriteOrErase
    <3>3. CASE activeBatch[h] = NoTxn
      BY <2>2, <3>3 DEF WriteOrErase
    <3> QED  BY <3>2, <3>3
  <2>3. ASSUME NEW h \in Handle, TxnCommit(h) PROVE DBTypeOK'
    <3>1. activeBatch[h] \in Seq(Entry)
      BY <2>3 DEF TxnCommit
    <3>2. \A k \in Key : Applied(activeBatch[h])[k] \in Stored
      BY <3>1, ScanBatchType DEF Applied
    <3>3. Applied(activeBatch[h]) \in [Key -> Stored]
      BY <3>2 DEF Applied
    <3> QED  BY <2>3, <3>3 DEF TxnCommit
  <2>4. ASSUME NEW h \in Handle, TxnCommitFails(h) PROVE DBTypeOK'
    BY <2>4 DEF TxnCommitFails
  <2>5. ASSUME NEW h \in Handle, TxnAbort(h) PROVE DBTypeOK'
    BY <2>5 DEF TxnAbort
  <2>6. CASE Crash
    BY <2>6 DEF Crash
  <2>7. CASE UNCHANGED dbVars
    BY <2>7 DEF dbVars
  <2> QED  BY <2>1, <2>2, <2>3, <2>4, <2>5, <2>6, <2>7 DEF DBNext
<1> QED  BY <1>1, <1>2, PTL DEF DBSpec

\* The mapped batch is a well-formed set of pending changes, and NoTxn
\* exactly when there is no batch.
LEMMA PendingOfType ==
  ASSUME NEW batch \in Seq(Entry)
  PROVE  /\ PendingOf(batch) = [k \in Key |-> ScanBatch(batch, k)]
         /\ PendingOf(batch) # NoTxn
<1>1. batch # NoTxn
  BY TxDBAssumption DEF Entry, Stored
<1>2. \A k \in Key : ScanBatch(batch, k) \in Value \cup {NoValue, Untouched}
  BY ScanBatchType DEF Stored
<1>3. [k \in Key |-> ScanBatch(batch, k)] \in [Key -> Value \cup {NoValue, Untouched}]
  BY <1>2
<1> QED  BY <1>1, <1>3, TxDBAssumption DEF PendingOf

\* Reads are transactional, whatever the batch holds and however many
\* handles are open: CTxDB::Read, Write, Erase and TxnCommit.
THEOREM TransactionalReads == DBSpec => ReadsAreTransactional
<1>1. ASSUME DBTypeOK,
             NEW h \in Handle, NEW k \in Key, NEW v \in Stored,
             WriteOrErase(h, k, v)
      PROVE  /\ Read(h, k)' = v
             /\ \A j \in Key \ {k} : Read(h, j)' = Read(h, j)
             /\ activeBatch[h] # NoTxn =>
                  \A g \in Handle \ {h}, j \in Key : Read(g, j)' = Read(g, j)
  <2>0. activeBatch \in [Handle -> Seq(Entry) \cup {NoTxn}] /\ disk \in [Key -> Stored]
    BY <1>1 DEF DBTypeOK
  <2>1. CASE activeBatch[h] = NoTxn
    <3>1. disk' = [disk EXCEPT ![k] = v] /\ activeBatch' = activeBatch
      BY <1>1, <2>1 DEF WriteOrErase
    <3> QED  BY <2>0, <2>1, <3>1 DEF Read
  <2>2. CASE activeBatch[h] # NoTxn
    <3> DEFINE e == [key |-> k, val |-> v]
               b == Append(activeBatch[h], e)
    <3>1. activeBatch' = [activeBatch EXCEPT ![h] = b] /\ disk' = disk
      BY <1>1, <2>2 DEF WriteOrErase
    <3>2. activeBatch[h] \in Seq(Entry) /\ e \in Entry /\ b \in Seq(Entry)
      <4>1. activeBatch[h] \in Seq(Entry)
        BY <2>0, <2>2
      <4>2. e \in Entry
        BY DEF Entry
      <4> QED  BY <4>1, <4>2
    <3>3. b # NoTxn
      BY <3>2, TxDBAssumption DEF Entry, Stored
    <3>4. \A j : ScanBatch(b, j) = IF j = k THEN v ELSE ScanBatch(activeBatch[h], j)
      BY <3>2, ScanAppended
    <3>5. v # Untouched
      BY TxDBAssumption DEF Stored
    <3>6. activeBatch'[h] = b /\ \A g \in Handle \ {h} : activeBatch'[g] = activeBatch[g]
      BY <2>0, <3>1
    <3> HIDE DEF e, b
    <3>7. Read(h, k)' = v
      BY <3>3, <3>4, <3>5, <3>6 DEF Read
    <3>8. \A j \in Key \ {k} : Read(h, j)' = Read(h, j)
      BY <2>2, <3>1, <3>3, <3>4, <3>6 DEF Read
    <3>9. \A g \in Handle \ {h}, j \in Key : Read(g, j)' = Read(g, j)
      BY <3>1, <3>6 DEF Read
    <3> QED  BY <3>7, <3>8, <3>9
  <2> QED  BY <2>1, <2>2
<1>2. ASSUME DBTypeOK, NEW h \in Handle, NEW k \in Key, TxnCommit(h)
      PROVE  Read(h, k)' = Read(h, k)
  <2>1. /\ activeBatch[h] # NoTxn
        /\ activeBatch'[h] = NoTxn
        /\ disk'[k] = Applied(activeBatch[h])[k]
    BY <1>2 DEF TxnCommit, DBTypeOK
  <2>2. activeBatch[h] \in Seq(Entry)
    BY <1>2, <2>1 DEF DBTypeOK
  <2>3. CASE Hits(activeBatch[h], k) = {}
    <3>1. ScanBatch(activeBatch[h], k) = Untouched
      BY <2>2, <2>3, ScanBatchType
    <3> QED  BY <2>1, <2>3, <3>1 DEF Read, Applied
  <2>4. CASE Hits(activeBatch[h], k) # {}
    <3>1. /\ ScanBatch(activeBatch[h], k) = activeBatch[h][LastHit(activeBatch[h], k)].val
          /\ ScanBatch(activeBatch[h], k) # Untouched
      BY <2>2, <2>4, ScanBatchType, TxDBAssumption DEF Stored
    <3> QED  BY <2>1, <2>4, <3>1 DEF Read, Applied
  <2> QED  BY <2>3, <2>4
<1>3. DBTypeOK /\ [DBNext]_dbVars => [TransactionalStep]_dbVars
  BY <1>1, <1>2 DEF TransactionalStep
<1> QED  BY <1>3, DBTypeCorrect, PTL DEF DBSpec, ReadsAreTransactional

\* CTxDB implements the transactional store it is used as.
THEOREM Refinement == DBSpec => ImplementsTxStore
<1> DEFINE P == [h \in Handle |-> PendingOf(activeBatch[h])]
<1>1. DBInit => Abstract!Init
  BY DEF DBInit, Abstract!Init, PendingOf
<1>2. DBTypeOK /\ [DBNext]_dbVars => [Abstract!Next]_(Abstract!vars)
  <2> SUFFICES ASSUME DBTypeOK, [DBNext]_dbVars
               PROVE  Abstract!Next \/ UNCHANGED Abstract!vars
    OBVIOUS
  <2>0. activeBatch \in [Handle -> Seq(Entry) \cup {NoTxn}] /\ disk \in [Key -> Stored]
    BY DEF DBTypeOK
  <2>a. PendingOf(NoTxn) = NoTxn
    BY DEF PendingOf
  <2>b. ASSUME NEW h \in Handle,
               activeBatch' = [activeBatch EXCEPT ![h] = NoTxn]
        PROVE  P' = [P EXCEPT ![h] = NoTxn]
    BY <2>0, <2>a, <2>b
  <2>c. ASSUME NEW h \in Handle, activeBatch[h] # NoTxn
        PROVE  /\ activeBatch[h] \in Seq(Entry)
               /\ P[h] = [k \in Key |-> ScanBatch(activeBatch[h], k)]
               /\ P[h] # NoTxn
    BY <2>0, <2>c, PendingOfType
  <2>1. ASSUME NEW h \in Handle, TxnBegin(h) PROVE Abstract!Begin(h)
    <3>1. activeBatch[h] = NoTxn /\ activeBatch' = [activeBatch EXCEPT ![h] = <<>>]
          /\ disk' = disk
      BY <2>1 DEF TxnBegin
    <3>2. <<>> \in Seq(Entry)
      OBVIOUS
    <3>3. PendingOf(<<>>) = [k \in Key |-> Untouched]
      BY <3>2, PendingOfType, ScanEmptyBatch
    <3>4. P' = [P EXCEPT ![h] = [k \in Key |-> Untouched]]
      BY <2>0, <3>1, <3>3
    <3>5. P[h] = NoTxn
      BY <3>1, <2>a
    <3> QED  BY <3>1, <3>4, <3>5 DEF Abstract!Begin
  <2>2. ASSUME NEW h \in Handle, NEW k \in Key, NEW v \in Stored,
               WriteOrErase(h, k, v)
        PROVE  Abstract!Set(h, k, v)
    <3> DEFINE e == [key |-> k, val |-> v]
    <3>1. CASE activeBatch[h] # NoTxn
      <4>1. /\ activeBatch' = [activeBatch EXCEPT ![h] = Append(@, e)]
            /\ disk' = disk
        BY <2>2, <3>1 DEF WriteOrErase
      <4>2. e \in Entry /\ activeBatch[h] \in Seq(Entry)
        BY <2>c, <3>1 DEF Entry
      <4>3. Append(activeBatch[h], e) \in Seq(Entry)
        BY <4>2
      <4>4. PendingOf(Append(activeBatch[h], e)) =
              [kk \in Key |-> ScanBatch(Append(activeBatch[h], e), kk)]
        BY <4>3, PendingOfType
      <4>5. \A kk \in Key : ScanBatch(Append(activeBatch[h], e), kk) =
              IF kk = k THEN v ELSE ScanBatch(activeBatch[h], kk)
        BY <4>2, ScanAppended
      <4>6. PendingOf(Append(activeBatch[h], e)) = [P[h] EXCEPT ![k] = v]
        <5>1. P[h] = [kk \in Key |-> ScanBatch(activeBatch[h], kk)]
          BY <2>c, <3>1
        <5>2. [P[h] EXCEPT ![k] = v] =
                [kk \in Key |-> IF kk = k THEN v ELSE ScanBatch(activeBatch[h], kk)]
          BY <5>1
        <5> HIDE DEF e, P
        <5> QED  BY <4>4, <4>5, <5>2
      <4>7. P' = [P EXCEPT ![h] = [@ EXCEPT ![k] = v]]
        BY <2>0, <4>1, <4>6
      <4> QED  BY <2>c, <3>1, <4>1, <4>7 DEF Abstract!Set
    <3>2. CASE activeBatch[h] = NoTxn
      BY <2>2, <3>2, <2>a DEF WriteOrErase, Abstract!Set
    <3> QED  BY <3>1, <3>2
  <2>3. ASSUME NEW h \in Handle, TxnCommit(h) PROVE Abstract!Commit(h)
    <3>1. /\ activeBatch[h] # NoTxn
          /\ activeBatch' = [activeBatch EXCEPT ![h] = NoTxn]
          /\ disk' = Applied(activeBatch[h])
      BY <2>3 DEF TxnCommit
    <3>2. \A k \in Key : Applied(activeBatch[h])[k] = Abstract!View(h, k)
      <4> TAKE k \in Key
      <4>1. CASE Hits(activeBatch[h], k) = {}
        <5>1. ScanBatch(activeBatch[h], k) = Untouched
          BY <2>c, <3>1, <4>1, ScanBatchType
        <5>2. P[h][k] = Untouched
          BY <2>c, <3>1, <5>1
        <5> QED  BY <4>1, <5>2 DEF Applied, Abstract!View
      <4>2. CASE Hits(activeBatch[h], k) # {}
        <5>1. /\ ScanBatch(activeBatch[h], k) = activeBatch[h][LastHit(activeBatch[h], k)].val
              /\ ScanBatch(activeBatch[h], k) # Untouched
          BY <2>c, <3>1, <4>2, ScanBatchType, TxDBAssumption DEF Stored
        <5> QED  BY <2>c, <3>1, <4>2, <5>1 DEF Applied, Abstract!View
      <4> QED  BY <4>1, <4>2
    <3>3. Applied(activeBatch[h]) = [k \in Key |-> Abstract!View(h, k)]
      BY <3>2 DEF Applied
    <3> QED  BY <2>b, <2>c, <3>1, <3>3 DEF Abstract!Commit
  <2>4. ASSUME NEW h \in Handle, TxnCommitFails(h) \/ TxnAbort(h)
        PROVE  Abstract!Abandon(h)
    BY <2>b, <2>c, <2>4 DEF TxnCommitFails, TxnAbort, Abstract!Abandon
  <2>5. CASE Crash
    <3>1. P' = [h \in Handle |-> NoTxn]
      BY <2>5, <2>a DEF Crash
    <3> QED  BY <2>5, <3>1 DEF Crash, Abstract!Next, Abstract!Crash
  <2>6. CASE UNCHANGED dbVars
    BY <2>6 DEF dbVars, Abstract!vars
  <2>7. ASSUME NEW v PROVE v \in Stored <=> v \in Abstract!Stored
    BY DEF Stored, Abstract!Stored
  <2> QED
    BY <2>1, <2>2, <2>3, <2>4, <2>5, <2>6, <2>7 DEF DBNext, Abstract!Next
<1> QED  BY <1>1, <1>2, DBTypeCorrect, PTL DEF DBSpec, ImplementsTxStore, Abstract!Spec

\* CTxDB::Exists finds what CTxDB::Read would, inside a batch and outside one.
THEOREM ExistsIsComplete == DBSpec => []ExistsMissesNothing
<1>1. DBTypeOK => ExistsMissesNothing
  <2> SUFFICES ASSUME DBTypeOK, NEW h \in Handle, NEW k \in Key, Read(h, k) # NoValue
               PROVE  Exists(h, k)
    BY DEF ExistsMissesNothing
  <2>1. CASE activeBatch[h] # NoTxn /\ ScanBatch(activeBatch[h], k) # Untouched
    <3>1. activeBatch[h] \in Seq(Entry)
      BY <2>1 DEF DBTypeOK
    <3>2. ScanBatch(activeBatch[h], k) \in Stored
      BY <2>1, <3>1, ScanBatchType
    <3> QED  BY <2>1, <3>2 DEF Read, Exists, Stored
  <2>2. CASE ~(activeBatch[h] # NoTxn /\ ScanBatch(activeBatch[h], k) # Untouched)
    BY <2>2 DEF Read, Exists
  <2> QED  BY <2>1, <2>2
<1> QED  BY <1>1, DBTypeCorrect, PTL

-----------------------------------------------------------------------------
(* The orphan blocks. *)

\* While PruneOrphanBlocks walks, it is at an orphan, and the block that is to
\* be entered still is new and lacks its parent.
WalkOK ==
  it # NoBlock => /\ it \in mapOrphanBlocks /\ vWorkQueue = {}
                  /\ shunted \in Block \ {Genesis}
                  /\ shunted \notin mapBlockIndex /\ shunted \notin mapOrphanBlocks
                  /\ Parent[shunted] \notin mapBlockIndex

\* The properties of the maps, and what their induction needs: there are
\* finitely many orphans.
IInv ==
  /\ TypeOK
  /\ MapsAgree
  /\ OrphansUnindexed
  /\ StakesBacked
  /\ OrphansTakenUp
  /\ WalkOK
  /\ IsFiniteSet(mapOrphanBlocks)
  /\ OrphansBounded

\* Stakes of a block set that loses some blocks and gains others.
LEMMA StakesStep ==
  ASSUME NEW seen, NEW orphans, NEW gone, NEW new, seen \subseteq StakesOf(orphans)
  PROVE  (seen \ StakesOf(gone)) \cup StakesOf(new) \subseteq StakesOf((orphans \ gone) \cup new)
BY DEF StakesOf

\* Replace keeps the maps in agreement.
LEMMA ReplaceKeeps ==
  ASSUME TypeOK, MapsAgree, StakesBacked,
         NEW gone, NEW new \in SUBSET (Block \ {Genesis}), Replace(gone, new)
  PROVE  /\ mapOrphanBlocks' = (mapOrphanBlocks \ gone) \cup new
         /\ mapOrphanBlocks' \subseteq Block \ {Genesis}
         /\ mapOrphanBlocksByPrev' \in [Block -> SUBSET Block]
         /\ setStakeSeenOrphan' \subseteq StakesOf(Block)
         /\ MapsAgree'
         /\ StakesBacked'
<1>1. /\ mapOrphanBlocks' = (mapOrphanBlocks \ gone) \cup new
      /\ setStakeSeenOrphan' = (setStakeSeenOrphan \ StakesOf(gone)) \cup StakesOf(new)
      /\ mapOrphanBlocksByPrev' = [p \in Block |->
           (mapOrphanBlocksByPrev[p] \ gone) \cup {b \in new : Parent[b] = p}]
  BY DEF Replace
<1>2. mapOrphanBlocks' \subseteq Block \ {Genesis}
  BY <1>1 DEF TypeOK
<1>3. mapOrphanBlocksByPrev' \in [Block -> SUBSET Block]
  BY <1>1 DEF TypeOK
<1>4. setStakeSeenOrphan' \subseteq StakesOf(Block)
  BY <1>1 DEF TypeOK, StakesOf
<1>5. MapsAgree'
  <2> SUFFICES ASSUME NEW p \in Block
               PROVE  mapOrphanBlocksByPrev'[p] = {b \in mapOrphanBlocks' : Parent[b] = p}
    BY DEF MapsAgree
  <2>1. mapOrphanBlocksByPrev[p] = {b \in mapOrphanBlocks : Parent[b] = p}
    BY DEF MapsAgree
  <2> QED  BY <1>1, <2>1
<1>6. StakesBacked'
  <2>1. setStakeSeenOrphan' \subseteq StakesOf(mapOrphanBlocks')
    BY <1>1, StakesStep DEF StakesBacked
  <2> QED  BY <2>1 DEF StakesBacked, StakesOf
<1> QED  BY <1>1, <1>2, <1>3, <1>4, <1>5, <1>6

LEMMA StakesInBlock ==
  ASSUME NEW b \in Block
  PROVE  StakesOf({b}) \subseteq StakesOf(Block)
BY DEF StakesOf

LEMMA InitIInv == Init => IInv
<1> SUFFICES ASSUME Init PROVE IInv
  OBVIOUS
<1>1. IsFiniteSet(mapOrphanBlocks) /\ Cardinality(mapOrphanBlocks) = 0
  BY FS_EmptySet DEF Init
<1>2. OrphansBounded
  BY <1>1, OrphanBlocksAssumption DEF OrphansBounded, OrphanCount
<1>3. TypeOK
  BY OrphanBlocksAssumption DEF Init, TypeOK, StakesOf
<1> QED  BY <1>1, <1>2, <1>3 DEF IInv, Init, WalkOK, MapsAgree, OrphansUnindexed, StakesBacked, OrphansTakenUp, StakesOf

\* A new block enters the orphans, where there is room or one leaves.
LEMMA EnterStep ==
  ASSUME IInv, NEW b \in Block \ {Genesis}, NEW gone \in SUBSET mapOrphanBlocks,
         Replace(gone, {b}),
         b \notin mapBlockIndex, b \notin mapOrphanBlocks, Parent[b] \notin mapBlockIndex,
         \/ gone = {} /\ Cardinality(mapOrphanBlocks) <= MaxOrphanBlocks
         \/ \E old \in mapOrphanBlocks : gone = {old},
         it' = NoBlock, shunted' \in Block \cup {NoBlock},
         UNCHANGED <<mapBlockIndex, setStakeSeen, vWorkQueue, failed>>
  PROVE  IInv'
<1>0. /\ TypeOK /\ MapsAgree /\ OrphansUnindexed /\ StakesBacked /\ OrphansTakenUp
      /\ IsFiniteSet(mapOrphanBlocks) /\ Cardinality(mapOrphanBlocks) <= MaxOrphanBlocks + 1
      /\ Cardinality(mapOrphanBlocks) \in Nat /\ MaxOrphanBlocks \in Nat
  BY FS_CardinalityType, OrphanBlocksAssumption DEF IInv, OrphansBounded, OrphanCount
<1>1. /\ b \notin mapBlockIndex /\ b \notin mapOrphanBlocks /\ Parent[b] \notin mapBlockIndex
      /\ UNCHANGED <<mapBlockIndex, setStakeSeen, vWorkQueue, failed>>
  OBVIOUS
<1>3. /\ mapOrphanBlocks' = (mapOrphanBlocks \ gone) \cup {b}
      /\ mapOrphanBlocks' \subseteq Block \ {Genesis}
      /\ mapOrphanBlocksByPrev' \in [Block -> SUBSET Block]
      /\ setStakeSeenOrphan' \subseteq StakesOf(Block)
      /\ MapsAgree' /\ StakesBacked'
  BY <1>0, ReplaceKeeps
<1>4. /\ IsFiniteSet(mapOrphanBlocks \ gone)
      /\ Cardinality(mapOrphanBlocks \ gone) \in Nat
      /\ Cardinality(mapOrphanBlocks \ gone) <= MaxOrphanBlocks
  <2>1. CASE gone = {} /\ Cardinality(mapOrphanBlocks) <= MaxOrphanBlocks
    BY <1>0, <2>1
  <2>2. ASSUME NEW old \in mapOrphanBlocks, gone = {old}
        PROVE  /\ IsFiniteSet(mapOrphanBlocks \ gone)
               /\ Cardinality(mapOrphanBlocks \ gone) = Cardinality(mapOrphanBlocks) - 1
    BY <1>0, <2>2, FS_RemoveElement
  <2>3. CASE \E old \in mapOrphanBlocks : gone = {old}
    <3>1. /\ IsFiniteSet(mapOrphanBlocks \ gone)
          /\ Cardinality(mapOrphanBlocks \ gone) = Cardinality(mapOrphanBlocks) - 1
      BY <2>2, <2>3
    <3>2. Cardinality(mapOrphanBlocks \ gone) \in Nat
      BY <3>1, FS_CardinalityType
    <3> QED  BY <1>0, <3>1, <3>2
  <2> QED  BY <2>1, <2>3
<1>5. IsFiniteSet(mapOrphanBlocks') /\ OrphansBounded'
  <2>1. /\ IsFiniteSet(mapOrphanBlocks')
        /\ Cardinality(mapOrphanBlocks') \in
             {Cardinality(mapOrphanBlocks \ gone), Cardinality(mapOrphanBlocks \ gone) + 1}
    BY <1>3, <1>4, FS_AddElement
  <2> QED  BY <1>0, <1>4, <2>1 DEF OrphansBounded, OrphanCount
<1>6. TypeOK'
  BY <1>0, <1>1, <1>3 DEF TypeOK
<1>7. OrphansUnindexed' /\ OrphansTakenUp' /\ WalkOK'
  BY <1>0, <1>1, <1>3 DEF OrphansUnindexed, OrphansTakenUp, WalkOK
<1> QED  BY <1>3, <1>5, <1>6, <1>7 DEF IInv

\* The walk is at an orphan, since the two maps agree.
LEMMA PositionStep ==
  ASSUME IInv, NEW p \in Block, it' \in mapOrphanBlocksByPrev[p],
         shunted' \in Block \ {Genesis}, vWorkQueue = {},
         shunted' \notin mapBlockIndex, shunted' \notin mapOrphanBlocks,
         Parent[shunted'] \notin mapBlockIndex,
         UNCHANGED <<mapBlockIndex, mapOrphanBlocks, mapOrphanBlocksByPrev, setStakeSeen,
                     setStakeSeenOrphan, vWorkQueue, failed>>
  PROVE  IInv'
<1>1. it' \in mapOrphanBlocks /\ it' \in Block
  BY DEF IInv, TypeOK, MapsAgree
<1>2. TypeOK' /\ WalkOK'
  BY <1>1 DEF IInv, TypeOK, WalkOK
<1> QED  BY <1>2 DEF IInv, MapsAgree, OrphansUnindexed, StakesBacked, StakesOf, OrphansTakenUp,
                     OrphansBounded, OrphanCount

LEMMA ShuntStep ==
  ASSUME IInv, NEW b \in Block \ {Genesis}, ShuntOrphan(b)
  PROVE  IInv'
<1>1. /\ b \notin mapBlockIndex /\ b \notin mapOrphanBlocks /\ Parent[b] \notin mapBlockIndex
      /\ it = NoBlock /\ vWorkQueue = {}
      /\ UNCHANGED <<mapBlockIndex, setStakeSeen, vWorkQueue, failed>>
  BY DEF ShuntOrphan, New, Idle
<1>2. CASE Room /\ Replace({}, {b}) /\ UNCHANGED <<shunted, it>>
  <2>1. Cardinality(mapOrphanBlocks) <= MaxOrphanBlocks /\ shunted' \in Block \cup {NoBlock}
    BY <1>2 DEF Room, OrphanCount, IInv, TypeOK
  <2> QED  BY <1>1, <1>2, <2>1, EnterStep
<1>3. CASE /\ shunted' = b
           /\ it' \in UNION {mapOrphanBlocksByPrev[p] : p \in Block}
           /\ UNCHANGED <<mapOrphanBlocks, mapOrphanBlocksByPrev, setStakeSeenOrphan>>
  <2>1. PICK p \in Block : it' \in mapOrphanBlocksByPrev[p]
    BY <1>3
  <2> QED  BY <1>1, <1>3, <2>1, PositionStep
<1> QED  BY <1>2, <1>3 DEF ShuntOrphan

LEMMA WalkStep ==
  ASSUME IInv, Walk
  PROVE  IInv'
<1>1. /\ it \in Block /\ it # NoBlock /\ it' \in mapOrphanBlocksByPrev[it]
      /\ UNCHANGED <<mapBlockIndex, mapOrphanBlocks, mapOrphanBlocksByPrev, setStakeSeen,
                     setStakeSeenOrphan, shunted, vWorkQueue, failed>>
  BY DEF Walk, WaitingUnder, IInv, TypeOK
<1>2. /\ vWorkQueue = {} /\ shunted \in Block \ {Genesis}
      /\ shunted \notin mapBlockIndex /\ shunted \notin mapOrphanBlocks
      /\ Parent[shunted] \notin mapBlockIndex
  BY <1>1 DEF IInv, WalkOK
<1> QED  BY <1>1, <1>2, PositionStep

LEMMA PruningStep ==
  ASSUME IInv, Prune
  PROVE  IInv'
<1>1. /\ it # NoBlock /\ Replace({it}, {shunted}) /\ it' = NoBlock /\ shunted' = NoBlock
      /\ UNCHANGED <<mapBlockIndex, setStakeSeen, vWorkQueue, failed>>
  BY DEF Prune
<1>2. /\ it \in mapOrphanBlocks /\ shunted \in Block \ {Genesis}
      /\ shunted \notin mapBlockIndex /\ shunted \notin mapOrphanBlocks
      /\ Parent[shunted] \notin mapBlockIndex
  BY <1>1 DEF IInv, WalkOK
<1> QED  BY <1>1, <1>2, EnterStep

LEMMA ProcessStep ==
  ASSUME IInv, NEW b \in Block \ {Genesis}, ProcessBlock(b)
  PROVE  IInv'
<1>0. /\ TypeOK /\ MapsAgree /\ OrphansUnindexed /\ StakesBacked /\ OrphansTakenUp
      /\ IsFiniteSet(mapOrphanBlocks) /\ OrphansBounded
  BY DEF IInv
<1>1. /\ b \notin mapBlockIndex /\ b \notin mapOrphanBlocks /\ vWorkQueue = {}
      /\ UNCHANGED <<mapOrphanBlocks, mapOrphanBlocksByPrev, setStakeSeenOrphan>>
  BY DEF ProcessBlock, New, Idle
<1>9. WalkOK'
  BY DEF ProcessBlock, New, Idle, WalkOK
<1>2. MapsAgree' /\ StakesBacked' /\ IsFiniteSet(mapOrphanBlocks)' /\ OrphansBounded'
  BY <1>0, <1>1 DEF MapsAgree, StakesBacked, StakesOf, OrphansBounded, OrphanCount
<1>3. \/ /\ mapBlockIndex' = mapBlockIndex \cup {b}
         /\ setStakeSeen' = setStakeSeen \cup StakesOf({b})
         /\ \/ failed' = failed /\ vWorkQueue' = {b}
            \/ failed' = failed \cup {b} /\ vWorkQueue' = {}
      \/ UNCHANGED <<mapBlockIndex, setStakeSeen, failed, vWorkQueue>>
  BY <1>1 DEF ProcessBlock, Accept, AcceptFails
<1>4. TypeOK'
  BY <1>0, <1>1, <1>3, StakesInBlock DEF TypeOK, ProcessBlock
<1>5. OrphansUnindexed' /\ OrphansTakenUp'
  BY <1>0, <1>1, <1>3 DEF OrphansUnindexed, OrphansTakenUp
<1> QED  BY <1>2, <1>4, <1>5, <1>9 DEF IInv

LEMMA OrphanStep ==
  ASSUME IInv, NEW p \in Block, NEW b \in Block, ProcessOrphan(p, b)
  PROVE  IInv'
<1>0. /\ TypeOK /\ MapsAgree /\ OrphansUnindexed /\ StakesBacked /\ OrphansTakenUp
      /\ IsFiniteSet(mapOrphanBlocks) /\ OrphansBounded
  BY DEF IInv
<1>1. b \in mapOrphanBlocks /\ b \notin mapBlockIndex
  BY <1>0 DEF ProcessOrphan, WaitingUnder, MapsAgree, OrphansUnindexed
<1>2. /\ mapOrphanBlocks' = mapOrphanBlocks \ {b}
      /\ mapOrphanBlocks' \subseteq Block \ {Genesis}
      /\ mapOrphanBlocksByPrev' \in [Block -> SUBSET Block]
      /\ setStakeSeenOrphan' \subseteq StakesOf(Block)
      /\ MapsAgree' /\ StakesBacked'
  <2>1. Replace({b}, {})
    BY DEF ProcessOrphan
  <2> QED  BY <1>0, <2>1, ReplaceKeeps
<1>3. IsFiniteSet(mapOrphanBlocks)' /\ OrphansBounded'
  <2>1. /\ IsFiniteSet(mapOrphanBlocks')
        /\ Cardinality(mapOrphanBlocks') = Cardinality(mapOrphanBlocks) - 1
    BY <1>0, <1>1, <1>2, FS_RemoveElement
  <2>2. Cardinality(mapOrphanBlocks) \in Nat /\ MaxOrphanBlocks \in Nat
    BY <1>0, FS_CardinalityType, OrphanBlocksAssumption
  <2> QED  BY <1>0, <2>1, <2>2 DEF OrphansBounded, OrphanCount
<1>4. \/ /\ mapBlockIndex' = mapBlockIndex \cup {b}
         /\ setStakeSeen' = setStakeSeen \cup StakesOf({b})
         /\ \/ failed' = failed /\ vWorkQueue' = vWorkQueue \cup {b}
            \/ failed' = failed \cup {b} /\ vWorkQueue' = vWorkQueue
      \/ UNCHANGED <<mapBlockIndex, setStakeSeen, failed, vWorkQueue>>
  BY <1>1 DEF ProcessOrphan, Accept, AcceptFails
<1>5. TypeOK'
  BY <1>0, <1>2, <1>4, StakesInBlock DEF TypeOK, ProcessOrphan
<1>6. OrphansUnindexed' /\ OrphansTakenUp'
  BY <1>0, <1>2, <1>4 DEF OrphansUnindexed, OrphansTakenUp
<1>7. WalkOK'
  <2>1. it = NoBlock
    BY DEF ProcessOrphan, IInv, WalkOK
  <2> QED  BY <2>1 DEF ProcessOrphan, WalkOK
<1> QED  BY <1>2, <1>3, <1>5, <1>6, <1>7 DEF IInv

LEMMA InvStep == IInv /\ [Next]_vars => IInv'
<1> SUFFICES ASSUME IInv, [Next]_vars PROVE IInv'
  OBVIOUS
<1>1. ASSUME NEW p \in Block, WorkDone(p) PROVE IInv'
  <2>1. mapOrphanBlocksByPrev[p] = {}
    BY <1>1 DEF WorkDone, WaitingUnder
  <2>2. \A b \in mapOrphanBlocks : Parent[b] # p
    BY <2>1 DEF IInv, MapsAgree
  <2>3. it = NoBlock /\ it' = NoBlock
    BY <1>1 DEF WorkDone, IInv, WalkOK
  <2> QED  BY <1>1, <2>2, <2>3 DEF WorkDone, WalkOK, IInv, TypeOK, MapsAgree, OrphansUnindexed, StakesBacked,
                             StakesOf, OrphansTakenUp, OrphansBounded, OrphanCount
<1>2. ASSUME Restart PROVE IInv'
  <2>1. IsFiniteSet(mapOrphanBlocks') /\ Cardinality(mapOrphanBlocks') = 0
    BY <1>2, FS_EmptySet DEF Restart
  <2>2. OrphansBounded'
    BY <2>1, OrphanBlocksAssumption DEF OrphansBounded, OrphanCount
  <2>3. TypeOK'
    BY <1>2 DEF Restart, IInv, TypeOK, StakesOf
  <2> QED  BY <1>2, <2>1, <2>2, <2>3 DEF Restart, IInv, WalkOK, MapsAgree, OrphansUnindexed,
                                        StakesBacked, OrphansTakenUp
<1>3. CASE UNCHANGED vars
  BY <1>3 DEF vars, IInv, WalkOK, TypeOK, MapsAgree, OrphansUnindexed, StakesBacked, StakesOf,
              OrphansTakenUp, OrphansBounded, OrphanCount
<1> QED  BY <1>1, <1>2, <1>3, ShuntStep, WalkStep, PruningStep, ProcessStep, OrphanStep DEF Next, Drain

LEMMA Invariance == Spec => []IInv
BY InitIInv, InvStep, PTL DEF Spec

-----------------------------------------------------------------------------
\* The block index, the orphan maps and the work queue are well typed.
THEOREM TypeCorrect == Spec => []TypeOK
<1>1. IInv => TypeOK
  BY DEF IInv
<1> QED  BY <1>1, Invariance, PTL

\* When ProcessBlock is done no orphan is left behind, save the children of a
\* block that AcceptBlock failed on after it had entered the index.
THEOREM NoOrphanLeftBehind == Spec => []OrphansTakenUp
<1>1. IInv => OrphansTakenUp
  BY DEF IInv
<1> QED  BY <1>1, Invariance, PTL

\* mapOrphanBlocks and mapOrphanBlocksByPrev agree.
THEOREM OrphanMapsAgree == Spec => []MapsAgree
<1>1. IInv => MapsAgree
  BY DEF IInv
<1> QED  BY <1>1, Invariance, PTL

\* Every stake marked among the orphans is backed by one.
THEOREM OrphanStakesBacked == Spec => []StakesBacked
<1>1. IInv => StakesBacked
  BY DEF IInv
<1> QED  BY <1>1, Invariance, PTL

\* The orphan area never holds more than one block above its limit.
THEOREM OrphanAreaBounded == Spec => []OrphansBounded
<1>1. IInv => OrphansBounded
  BY DEF IInv
<1> QED  BY <1>1, Invariance, PTL

\* PruneOrphanBlocks removes only an orphan that no other waits for: its walk
\* goes by mapOrphanBlocksByPrev, which has every orphan under its parent.
THEOREM PruningTakesLeaves == Spec => PrunesLeaves
<1>1. IInv /\ [Next]_vars => [PruneStep]_vars
  <2> SUFFICES ASSUME IInv, Next PROVE PruneStep
    BY DEF vars
  <2> SUFFICES ASSUME vWorkQueue = {}, mapOrphanBlocks' # {},
                      NEW old \in mapOrphanBlocks \ mapOrphanBlocks',
                      NEW c \in mapOrphanBlocks
               PROVE  Parent[c] # old
    BY DEF PruneStep
  <2>1. ASSUME NEW b \in Block \ {Genesis}, ShuntOrphan(b) PROVE FALSE
    BY <2>1 DEF ShuntOrphan, Replace
  <2>2. ASSUME NEW b \in Block \ {Genesis}, ProcessBlock(b) PROVE FALSE
    BY <2>2 DEF ProcessBlock
  <2>3. ASSUME Drain PROVE FALSE
    BY <2>3 DEF Drain, ProcessOrphan, WorkDone
  <2>4. ASSUME Restart \/ Walk PROVE FALSE
    BY <2>4 DEF Restart, Walk
  <2>5. ASSUME Prune PROVE Parent[c] # old
    <3>1. old = it /\ old \in Block
      BY <2>5 DEF Prune, Replace, IInv, TypeOK
    <3>2. mapOrphanBlocksByPrev[old] = {}
      BY <2>5, <3>1 DEF Prune, WaitingUnder
    <3> QED  BY <3>1, <3>2 DEF IInv, MapsAgree
  <2> QED  BY <2>1, <2>2, <2>3, <2>4, <2>5 DEF Next
<1> QED  BY <1>1, Invariance, PTL DEF Spec, PrunesLeaves

\* No orphan is in the block index, however often and in whatever order blocks
\* come: ProcessBlock takes an orphan out when it accepts it.
THEOREM OrphansAreUnindexed == Spec => []OrphansUnindexed
<1>1. IInv => OrphansUnindexed
  BY DEF IInv
<1> QED  BY <1>1, Invariance, PTL
=============================================================================
