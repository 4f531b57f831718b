--------------------------- MODULE AddrManProofs ----------------------------
(***************************************************************************)
(* Proofs about AddrMan, for any addresses, sources, hashes and sizes: the *)
(* tables agree and stay within their sizes, an address that is tried is   *)
(* never deleted, and a reload changes nothing that is known.              *)
(***************************************************************************)
EXTENDS AddrMan, FiniteSetTheorems, FunctionTheorems, TLAPS

-----------------------------------------------------------------------------
(* The invariant. *)

\* Identifiers are handed out in order.
IdsBelow == \A id \in Live : id < nIdCount

\* While SelectTried works: the entry to place has left the new table, its
\* tried bucket is full, a position is remembered from the first turn on, and
\* the new bucket it came from has room.
EvictionOK ==
  evicting # None =>
    /\ evicting.id \in New
    /\ mapInfo[evicting.id].nLastSuccess # 0
    /\ Len(vvTried[EvictBucket]) >= TriedBucketSize
    /\ evicting.i = 1 => evicting.nOldest = None
    /\ evicting.i > 1 => /\ evicting.nOldestPos \in 1 .. Len(vvTried[EvictBucket])
                         /\ evicting.nOldest \in Id
    /\ Cardinality(vvNew[evicting.origin]) < NewBucketSize

Inv == Consistent /\ BucketsBounded /\ IdsBelow /\ EvictionOK

-----------------------------------------------------------------------------
(* The parts of the invariant, of given tables. *)

LiveOf(info) == {id \in Id : info[id] # None}
NewOf(info) == {id \in LiveOf(info) : ~info[id].fInTried}
TriedOf(info) == {id \in LiveOf(info) : info[id].fInTried}
BucketsOf(news, id) == {b \in NewBucket : id \in news[b]}

InfoOK(info) == info \in [Id -> Info \cup {None}]

RandomOK(info, rnd) ==
  /\ rnd \in Seq(Id)
  /\ \A id \in LiveOf(info) : /\ info[id].nRandomPos \in 1 .. Len(rnd)
                              /\ rnd[info[id].nRandomPos] = id
  /\ \A p \in 1 .. Len(rnd) : rnd[p] \in LiveOf(info) /\ info[rnd[p]].nRandomPos = p

AddrOK(info, addr) ==
  /\ addr \in [Host -> Id \cup {None}]
  /\ \A id \in LiveOf(info) : addr[Ip[info[id].addr]] = id
  /\ \A h \in Host : addr[h] # None =>
       addr[h] \in LiveOf(info) /\ Ip[info[addr[h]].addr] = h

RefsOK(info, news, moving) ==
  /\ news \in [NewBucket -> SUBSET Id]
  /\ \A b \in NewBucket : news[b] \subseteq NewOf(info) \ moving
  /\ \A id \in NewOf(info) \ moving :
       /\ info[id].nRefCount = Cardinality(BucketsOf(news, id))
       /\ info[id].nRefCount \in 1 .. BucketsPerAddress
  /\ \A id \in TriedOf(info) \cup moving : info[id].nRefCount = 0

TriedOK(info, tried) ==
  /\ tried \in [TriedBucket -> Seq(Id)]
  /\ \A id \in TriedOf(info) :
       /\ info[id].nLastSuccess # 0
       /\ \E p \in 1 .. Len(tried[TriedBucketOf[info[id].addr]]) :
            tried[TriedBucketOf[info[id].addr]][p] = id
  /\ \A b \in TriedBucket : \A p \in 1 .. Len(tried[b]) :
       /\ tried[b][p] \in TriedOf(info)
       /\ TriedBucketOf[info[tried[b][p]].addr] = b
       /\ \A q \in 1 .. Len(tried[b]) : tried[b][p] = tried[b][q] => p = q

CountsOK(info, nnew, ntried, moving) ==
  /\ nnew = Cardinality(NewOf(info) \ moving)
  /\ ntried = Cardinality(TriedOf(info))

SizesOK(news, tried) ==
  /\ \A b \in NewBucket : Cardinality(news[b]) <= NewBucketSize
  /\ \A b \in TriedBucket : Len(tried[b]) <= TriedBucketSize

IdsOK(info, n) == n \in 0 .. MaxId /\ \A id \in LiveOf(info) : id < n

TablesOK(n, info, addr, rnd, ntried, tried, nnew, news, moving) ==
  /\ IdsOK(info, n)
  /\ InfoOK(info)
  /\ RandomOK(info, rnd)
  /\ AddrOK(info, addr)
  /\ RefsOK(info, news, moving)
  /\ TriedOK(info, tried)
  /\ CountsOK(info, nnew, ntried, moving)
  /\ SizesOK(news, tried)

-----------------------------------------------------------------------------
(* Sets of identifiers. *)

\* Sets of identifiers are finite.
LEMMA IdFinite ==
  /\ IsFiniteSet(Id) /\ Cardinality(Id) = MaxId
  /\ \A S \in SUBSET Id : IsFiniteSet(S) /\ Cardinality(S) \in Nat
  /\ Id \subseteq Nat
<1>1. MaxId \in Nat /\ MaxId >= 1
  BY AddrManAssumption
<1>2. IsFiniteSet(Id) /\ Cardinality(Id) = MaxId
  BY <1>1, FS_Interval DEF Id
<1>3. ASSUME NEW S \in SUBSET Id PROVE IsFiniteSet(S) /\ Cardinality(S) \in Nat
  BY <1>2, FS_Subset, FS_CardinalityType
<1> QED BY <1>1, <1>2, <1>3 DEF Id

\* Sets of new buckets are finite, so that references can be counted.
LEMMA BucketsFinite ==
  \A S \in SUBSET NewBucket : IsFiniteSet(S) /\ Cardinality(S) \in Nat
BY AddrManAssumption, FS_Subset, FS_CardinalityType

\* The sizes are numbers, and at least one where the code needs it.
LEMMA SizesType ==
  /\ MaxId \in Nat /\ NewBucketSize \in Nat /\ TriedBucketSize \in Nat
  /\ BucketsPerAddress \in Nat /\ Inspect \in Nat
  /\ 1 \in 1 .. BucketsPerAddress /\ 1 <= TriedBucketSize /\ 1 <= Inspect
BY AddrManAssumption

\* The invariant is that of the tables.
LEMMA InvAsTables ==
  Inv <=> /\ TablesOK(nIdCount, mapInfo, mapAddr, vRandom, nTried, vvTried, nNew, vvNew, Moving)
          /\ evicting \in Eviction \cup {None}
          /\ EvictionOK
<1> USE DEF LiveOf, NewOf, TriedOf, BucketsOf, Live, New, Tried, BucketsWith
<1>1. IdsOK(mapInfo, nIdCount) <=> nIdCount \in 0 .. MaxId /\ IdsBelow
  BY DEF IdsBelow, IdsOK
<1>2. vRandom \in Seq(Id) => (RandomExact <=> RandomOK(mapInfo, vRandom))
  BY DEF RandomExact, RandomOK
<1>3. mapAddr \in [Host -> Id \cup {None}] => (AddrExact <=> AddrOK(mapInfo, mapAddr))
  BY DEF AddrExact, AddrOK
<1>4. vvNew \in [NewBucket -> SUBSET Id] => (ReferencesExact <=> RefsOK(mapInfo, vvNew, Moving))
  BY DEF ReferencesExact, RefsOK
<1>5. ASSUME InfoOK(mapInfo), vvTried \in [TriedBucket -> Seq(Id)]
      PROVE  TriedOnce <=> TriedOK(mapInfo, vvTried)
  <2>1. \A b \in TriedBucket : DOMAIN vvTried[b] = 1 .. Len(vvTried[b])
    BY <1>5
  <2>2. \A id \in Tried : TriedBucketOf[mapInfo[id].addr] \in TriedBucket
    BY <1>5, AddrManAssumption DEF InfoOK, Info
  <2> QED BY <1>5, <2>1, <2>2 DEF TriedOnce, TriedOK
<1>6. CountsExact <=> CountsOK(mapInfo, nNew, nTried, Moving)
  BY DEF CountsExact, CountsOK
<1>7. CountsExact => nNew \in Nat /\ nTried \in Nat
  BY IdFinite DEF CountsExact
<1>8. BucketsBounded <=> SizesOK(vvNew, vvTried)
  BY DEF BucketsBounded, SizesOK
<1>9. TypeOK => /\ nIdCount \in 0 .. MaxId
                /\ InfoOK(mapInfo)
                /\ mapAddr \in [Host -> Id \cup {None}]
                /\ vRandom \in Seq(Id)
                /\ vvTried \in [TriedBucket -> Seq(Id)]
                /\ vvNew \in [NewBucket -> SUBSET Id]
                /\ evicting \in Eviction \cup {None}
  BY DEF TypeOK, InfoOK
<1>10. ASSUME nIdCount \in 0 .. MaxId, InfoOK(mapInfo), RandomOK(mapInfo, vRandom),
              AddrOK(mapInfo, mapAddr), RefsOK(mapInfo, vvNew, Moving),
              TriedOK(mapInfo, vvTried), nNew \in Nat, nTried \in Nat,
              evicting \in Eviction \cup {None}
       PROVE  TypeOK
  BY <1>10 DEF TypeOK, InfoOK, RandomOK, AddrOK, RefsOK, TriedOK
<1>11. ASSUME Inv
       PROVE  /\ TablesOK(nIdCount, mapInfo, mapAddr, vRandom, nTried, vvTried, nNew, vvNew, Moving)
              /\ evicting \in Eviction \cup {None}
              /\ EvictionOK
  <2>1. TypeOK /\ RandomExact /\ AddrExact /\ ReferencesExact /\ TriedOnce /\ CountsExact
        /\ BucketsBounded /\ IdsBelow /\ EvictionOK
    BY <1>11 DEF Inv, Consistent
  <2> QED BY ONLY <2>1, <1>1, <1>2, <1>3, <1>4, <1>5, <1>6, <1>8, <1>9 DEF TablesOK
<1>12. ASSUME TablesOK(nIdCount, mapInfo, mapAddr, vRandom, nTried, vvTried, nNew, vvNew, Moving),
              evicting \in Eviction \cup {None},
              EvictionOK
       PROVE  Inv
  <2>1. /\ IdsOK(mapInfo, nIdCount) /\ InfoOK(mapInfo) /\ RandomOK(mapInfo, vRandom)
        /\ AddrOK(mapInfo, mapAddr) /\ RefsOK(mapInfo, vvNew, Moving)
        /\ TriedOK(mapInfo, vvTried) /\ CountsOK(mapInfo, nNew, nTried, Moving)
        /\ SizesOK(vvNew, vvTried)
    BY <1>12 DEF TablesOK
  <2>2. TypeOK
    BY ONLY <1>1, <1>6, <1>7, <1>10, <1>12, <2>1
  <2> QED BY ONLY <1>12, <2>1, <2>2, <1>1, <1>2, <1>3, <1>4, <1>5, <1>6, <1>8, <1>9
          DEF Inv, Consistent
<1> QED BY <1>11, <1>12

\* The same of the next state.
LEMMA InvAsTablesNext ==
  Inv' <=> /\ TablesOK(nIdCount', mapInfo', mapAddr', vRandom', nTried', vvTried', nNew', vvNew',
                       Moving')
           /\ evicting' \in Eviction \cup {None}
           /\ EvictionOK'
<1>1. Inv' <=> (/\ TablesOK(nIdCount, mapInfo, mapAddr, vRandom, nTried, vvTried, nNew, vvNew,
                            Moving)
                /\ evicting \in Eviction \cup {None}
                /\ EvictionOK)'
  BY InvAsTables, PTL
<1> QED BY <1>1 DEF TablesOK

-----------------------------------------------------------------------------
(* Entries. *)

\* Two entries differ at most in the place among the random ones.
Alike(e, f) ==
  /\ e = None <=> f = None
  /\ e # None => /\ e.addr = f.addr /\ e.source = f.source
                 /\ e.nLastSuccess = f.nLastSuccess
                 /\ e.nRefCount = f.nRefCount /\ e.fInTried = f.fInTried

\* What a live entry is made of, and the buckets its hashes select.
LEMMA EntryType ==
  ASSUME NEW info, InfoOK(info), NEW id \in LiveOf(info)
  PROVE  /\ id \in Id /\ info[id] \in Info /\ info[id] # None
         /\ info[id].addr \in Service /\ Ip[info[id].addr] \in Host
         /\ TriedBucketOf[info[id].addr] \in TriedBucket
         /\ info[id].source \in Source
         /\ NewBucketOf[Ip[info[id].addr], info[id].source] \in NewBucket
         /\ info[id].nRefCount \in Nat /\ info[id].fInTried \in BOOLEAN
         /\ info[id].nRandomPos \in Nat
         /\ info[id].nLastSuccess \in Time \cup {0}
<1>1. id \in Id /\ info[id] \in Info /\ info[id] # None
  BY DEF InfoOK, LiveOf
<1>2. /\ info[id].addr \in Service /\ info[id].source \in Source
      /\ info[id].nRefCount \in Nat /\ info[id].fInTried \in BOOLEAN
      /\ info[id].nRandomPos \in Nat /\ info[id].nLastSuccess \in Time \cup {0}
  BY <1>1 DEF Info
<1>3. Ip[info[id].addr] \in Host /\ TriedBucketOf[info[id].addr] \in TriedBucket
  BY <1>2, AddrManAssumption
<1>4. NewBucketOf[Ip[info[id].addr], info[id].source] \in NewBucket
  BY <1>2, <1>3, AddrManAssumption
<1> QED BY <1>1, <1>2, <1>3, <1>4

\* A place of an entry is written.
LEMMA Placed ==
  ASSUME NEW e \in Info, NEW n \in Nat
  PROVE  /\ [e EXCEPT !.nRandomPos = n] \in Info
         /\ [e EXCEPT !.nRandomPos = n] # None
         /\ [e EXCEPT !.nRandomPos = n].nRandomPos = n
         /\ Alike(e, [e EXCEPT !.nRandomPos = n])
BY NoneAssumption DEF Info, Alike

\* What does not depend on places.
LEMMA AlikeKeeps ==
  ASSUME NEW info, NEW info2, InfoOK(info), InfoOK(info2),
         \A id \in Id : Alike(info[id], info2[id])
  PROVE  /\ LiveOf(info2) = LiveOf(info)
         /\ NewOf(info2) = NewOf(info)
         /\ TriedOf(info2) = TriedOf(info)
         /\ \A addr : AddrOK(info, addr) => AddrOK(info2, addr)
         /\ \A news : RefsOK(info, news, {}) => RefsOK(info2, news, {})
         /\ \A tried : TriedOK(info, tried) => TriedOK(info2, tried)
         /\ \A n, t, moving : CountsOK(info, n, t, moving) => CountsOK(info2, n, t, moving)
         /\ \A n : IdsOK(info, n) => IdsOK(info2, n)
<1>1. LiveOf(info2) = LiveOf(info)
  BY DEF LiveOf, Alike
<1>2. \A id \in LiveOf(info) : /\ info2[id].addr = info[id].addr
                               /\ info2[id].nLastSuccess = info[id].nLastSuccess
                               /\ info2[id].nRefCount = info[id].nRefCount
                               /\ info2[id].fInTried = info[id].fInTried
  BY DEF LiveOf, Alike
<1>3. NewOf(info2) = NewOf(info) /\ TriedOf(info2) = TriedOf(info)
  BY <1>1, <1>2 DEF NewOf, TriedOf
<1>4. ASSUME NEW addr, AddrOK(info, addr) PROVE AddrOK(info2, addr)
  BY <1>1, <1>2, <1>4 DEF AddrOK
<1>5. ASSUME NEW news, RefsOK(info, news, {}) PROVE RefsOK(info2, news, {})
  <2>1. NewOf(info) \subseteq LiveOf(info) /\ TriedOf(info) \subseteq LiveOf(info)
    BY DEF NewOf, TriedOf
  <2> QED BY <1>2, <1>3, <1>5, <2>1 DEF RefsOK
<1>6. ASSUME NEW tried, TriedOK(info, tried) PROVE TriedOK(info2, tried)
  <2>1. TriedOf(info) \subseteq LiveOf(info)
    BY DEF TriedOf
  <2> QED BY <1>2, <1>3, <1>6, <2>1 DEF TriedOK
<1>7. ASSUME NEW n, IdsOK(info, n) PROVE IdsOK(info2, n)
  BY <1>1, <1>7 DEF IdsOK
<1> QED BY <1>1, <1>3, <1>4, <1>5, <1>6, <1>7 DEF CountsOK

\* SwapRandom of the last entry of the list into the place of id, and the end
\* of id.
LEMMA ErasedRandom ==
  ASSUME NEW info, NEW rnd, InfoOK(info), RandomOK(info, rnd), NEW id \in LiveOf(info)
  PROVE  /\ InfoOK(Erased(info, rnd, id))
         /\ RandomOK(Erased(info, rnd, id), WithoutPos(rnd, info[id].nRandomPos))
         /\ LiveOf(Erased(info, rnd, id)) = LiveOf(info) \ {id}
         /\ \A j \in Id \ {id} : Alike(info[j], Erased(info, rnd, id)[j])
<1> DEFINE n == Len(rnd)
           p == info[id].nRandomPos
           last == rnd[n]
           info2 == Erased(info, rnd, id)
           rnd2 == WithoutPos(rnd, p)
<1>1. /\ n \in Nat /\ p \in 1 .. n /\ rnd[p] = id /\ n >= 1 /\ n \in 1 .. n
      /\ rnd \in Seq(Id)
  BY DEF RandomOK
<1>2. last \in LiveOf(info) /\ info[last].nRandomPos = n
  BY <1>1 DEF RandomOK
<1>3. /\ last \in Id /\ info[last] \in Info /\ id \in Id
  BY <1>2, EntryType
<1>4. info2 = [j \in Id |-> IF j = id THEN None
                            ELSE IF j = last THEN [info[j] EXCEPT !.nRandomPos = p] ELSE info[j]]
  BY <1>3 DEF Erased, InfoOK
<1>5. [info[last] EXCEPT !.nRandomPos = p] \in Info /\ Alike(info[last], [info[last] EXCEPT !.nRandomPos = p])
      /\ [info[last] EXCEPT !.nRandomPos = p].nRandomPos = p
      /\ [info[last] EXCEPT !.nRandomPos = p] # None
  BY <1>1, <1>3, Placed
<1> HIDE DEF info2
<1>6. InfoOK(info2)
  BY <1>4, <1>5 DEF InfoOK
<1>7. \A j \in Id \ {id} : Alike(info[j], info2[j])
  BY <1>4, <1>5 DEF Alike
<1>8. LiveOf(info2) = LiveOf(info) \ {id}
  BY <1>3, <1>4, <1>5, <1>2 DEF LiveOf
<1>9. /\ rnd2 \in Seq(Id) /\ Len(rnd2) = n - 1
      /\ \A q \in 1 .. n - 1 : rnd2[q] = IF q = p THEN last ELSE rnd[q]
  <2>1. SwapAt(rnd, p, n) \in Seq(Id) /\ Len(SwapAt(rnd, p, n)) = n
        /\ \A q \in 1 .. n - 1 : SwapAt(rnd, p, n)[q] = IF q = p THEN last ELSE rnd[q]
    BY <1>1 DEF SwapAt
  <2> HIDE DEF n, p, last
  <2> QED BY <1>1, <2>1 DEF WithoutPos, n, p, last
<1> HIDE DEF rnd2, n, p, last
<1>10. ASSUME NEW j \in LiveOf(info2)
       PROVE  info2[j].nRandomPos \in 1 .. Len(rnd2) /\ rnd2[info2[j].nRandomPos] = j
  <2>1. j \in LiveOf(info) /\ j # id /\ j \in Id
    BY <1>8 DEF LiveOf
  <2>2. info[j].nRandomPos \in 1 .. n /\ rnd[info[j].nRandomPos] = j
    BY <2>1 DEF RandomOK, n
  <2>3. CASE j = last
    <3>1. info2[j].nRandomPos = p
      BY <1>4, <1>5, <2>1, <2>3
    <3>2. p # n
      BY <1>1, <2>1, <2>3 DEF last
    <3> QED BY <1>1, <1>9, <2>3, <3>1, <3>2
  <2>4. CASE j # last
    <3>1. info2[j].nRandomPos = info[j].nRandomPos
      BY <1>4, <2>1, <2>4
    <3>2. info[j].nRandomPos # n /\ info[j].nRandomPos # p
      BY <1>1, <2>1, <2>2, <2>4 DEF last
    <3> QED BY <1>1, <1>9, <2>2, <3>1, <3>2
  <2> QED BY <2>3, <2>4
<1>11. ASSUME NEW q \in 1 .. Len(rnd2)
       PROVE  rnd2[q] \in LiveOf(info2) /\ info2[rnd2[q]].nRandomPos = q
  <2>1. q \in 1 .. n - 1 /\ q \in 1 .. n /\ q # n
    BY <1>1, <1>9
  <2>2. CASE q = p
    <3>1. rnd2[q] = last /\ last # id
      BY <1>1, <1>2, <1>9, <2>1, <2>2 DEF p
    <3> QED BY <1>2, <1>3, <1>4, <1>5, <1>8, <2>2, <3>1
  <2>3. CASE q # p
    <3>1. rnd2[q] = rnd[q]
      BY <1>9, <2>1, <2>3
    <3>2. rnd[q] \in LiveOf(info) /\ info[rnd[q]].nRandomPos = q
      BY <2>1 DEF RandomOK, n
    <3>3. rnd[q] # id /\ rnd[q] # last /\ rnd[q] \in Id
      BY <1>2, <2>1, <2>3, <3>2 DEF p, LiveOf
    <3> QED BY <1>4, <1>8, <3>1, <3>2, <3>3
  <2> QED BY <2>2, <2>3
<1>12. RandomOK(info2, rnd2)
  BY <1>9, <1>10, <1>11 DEF RandomOK
<1> QED BY <1>6, <1>7, <1>8, <1>12 DEF info2, rnd2, p

\* A reference count is written.
Recount(info, id, k) == [info EXCEPT ![id].nRefCount = k]

\* Writing a reference count changes nothing but the counts.
LEMMA Recounted ==
  ASSUME NEW info, InfoOK(info), NEW id \in LiveOf(info), NEW k \in Nat
  PROVE  /\ InfoOK(Recount(info, id, k))
         /\ LiveOf(Recount(info, id, k)) = LiveOf(info)
         /\ NewOf(Recount(info, id, k)) = NewOf(info) /\ TriedOf(Recount(info, id, k)) = TriedOf(info)
         /\ Recount(info, id, k)[id].nRefCount = k
         /\ \A j \in Id \ {id} : Recount(info, id, k)[j] = info[j]
         /\ \A rnd : RandomOK(info, rnd) => RandomOK(Recount(info, id, k), rnd)
         /\ \A addr : AddrOK(info, addr) => AddrOK(Recount(info, id, k), addr)
         /\ \A tried : TriedOK(info, tried) => TriedOK(Recount(info, id, k), tried)
         /\ \A n, t, moving : CountsOK(info, n, t, moving) => CountsOK(Recount(info, id, k), n, t, moving)
<1> DEFINE info2 == Recount(info, id, k)
           e == [info[id] EXCEPT !.nRefCount = k]
<1>1. id \in Id /\ info[id] \in Info
  BY EntryType
<1>2. /\ e \in Info /\ e # None /\ e.nRefCount = k
      /\ e.addr = info[id].addr /\ e.nRandomPos = info[id].nRandomPos
      /\ e.fInTried = info[id].fInTried /\ e.nLastSuccess = info[id].nLastSuccess
  BY <1>1, NoneAssumption DEF Info
<1>3. info2 = [j \in Id |-> IF j = id THEN e ELSE info[j]]
  BY <1>1 DEF InfoOK, Recount
<1> HIDE DEF info2, e
<1>4. InfoOK(info2)
  BY <1>2, <1>3 DEF InfoOK
<1>5. LiveOf(info2) = LiveOf(info)
  BY <1>2, <1>3 DEF LiveOf
<1>6. \A j \in LiveOf(info) : /\ info2[j].addr = info[j].addr
                              /\ info2[j].nRandomPos = info[j].nRandomPos
                              /\ info2[j].fInTried = info[j].fInTried
                              /\ info2[j].nLastSuccess = info[j].nLastSuccess
  BY <1>2, <1>3 DEF LiveOf
<1>7. NewOf(info2) = NewOf(info) /\ TriedOf(info2) = TriedOf(info)
  BY <1>5, <1>6 DEF NewOf, TriedOf
<1>8. ASSUME NEW rnd, RandomOK(info, rnd) PROVE RandomOK(info2, rnd)
  BY <1>5, <1>6, <1>8 DEF RandomOK
<1>9. ASSUME NEW addr, AddrOK(info, addr) PROVE AddrOK(info2, addr)
  BY <1>5, <1>6, <1>9 DEF AddrOK
<1>10. ASSUME NEW tried, TriedOK(info, tried) PROVE TriedOK(info2, tried)
  <2>1. TriedOf(info) \subseteq LiveOf(info)
    BY DEF TriedOf
  <2> QED BY <1>6, <1>7, <1>10, <2>1 DEF TriedOK
<1>11. info2[id].nRefCount = k /\ \A j \in Id \ {id} : info2[j] = info[j]
  BY <1>1, <1>2, <1>3
<1>12. \A n, t, moving : CountsOK(info, n, t, moving) => CountsOK(info2, n, t, moving)
  BY <1>7 DEF CountsOK
<1> QED BY <1>4, <1>5, <1>7, <1>8, <1>9, <1>10, <1>11, <1>12 DEF info2

\* A new entry is deleted.
Forgotten(addr, info, id) == [addr EXCEPT ![Ip[info[id].addr]] = None]

\* Deleting a new entry as ShrinkNew does keeps the other indexes exact.
LEMMA ErasedTables ==
  ASSUME NEW info, NEW rnd, NEW id \in NewOf(info), InfoOK(info), RandomOK(info, rnd)
  PROVE  /\ NewOf(Erased(info, rnd, id)) = NewOf(info) \ {id}
         /\ TriedOf(Erased(info, rnd, id)) = TriedOf(info)
         /\ \A j \in LiveOf(Erased(info, rnd, id)) :
              Erased(info, rnd, id)[j].nRefCount = info[j].nRefCount
         /\ \A addr : AddrOK(info, addr) => AddrOK(Erased(info, rnd, id), Forgotten(addr, info, id))
         /\ \A tried : TriedOK(info, tried) => TriedOK(Erased(info, rnd, id), tried)
         /\ \A n \in Nat : \A t : CountsOK(info, n, t, {}) =>
              CountsOK(Erased(info, rnd, id), n - 1, t, {})
<1> DEFINE info2 == Erased(info, rnd, id)
<1>1. id \in LiveOf(info) /\ ~info[id].fInTried
  BY DEF NewOf
<1>2. /\ InfoOK(info2) /\ LiveOf(info2) = LiveOf(info) \ {id}
      /\ \A j \in Id \ {id} : Alike(info[j], info2[j])
  BY <1>1, ErasedRandom
<1> HIDE DEF info2
<1>3. \A j \in LiveOf(info2) : /\ info2[j].addr = info[j].addr
                               /\ info2[j].nRefCount = info[j].nRefCount
                               /\ info2[j].fInTried = info[j].fInTried
                               /\ info2[j].nLastSuccess = info[j].nLastSuccess
  BY <1>2 DEF LiveOf, Alike
<1>4. NewOf(info2) = NewOf(info) \ {id} /\ TriedOf(info2) = TriedOf(info)
  BY <1>1, <1>2, <1>3 DEF NewOf, TriedOf
<1>5. ASSUME NEW addr, AddrOK(info, addr) PROVE AddrOK(info2, Forgotten(addr, info, id))
  <2> DEFINE addr2 == Forgotten(addr, info, id)
  <2>1. \A j \in LiveOf(info) : j \in Id /\ Ip[info[j].addr] \in Host
    BY EntryType
  <2>2. addr2 = [h \in Host |-> IF h = Ip[info[id].addr] THEN None ELSE addr[h]]
    BY <1>5 DEF AddrOK, Forgotten
  <2>3. addr2 \in [Host -> Id \cup {None}]
    BY <1>5, <2>2 DEF AddrOK
  <2> HIDE DEF addr2
  <2>4. ASSUME NEW j \in LiveOf(info2) PROVE addr2[Ip[info2[j].addr]] = j
    <3>1. j \in LiveOf(info) /\ j # id
      BY <1>2
    <3>2. addr[Ip[info[j].addr]] = j /\ addr[Ip[info[id].addr]] = id
      BY <1>1, <1>5, <3>1 DEF AddrOK
    <3> QED BY <1>3, <2>1, <2>2, <3>1, <3>2
  <2>5. ASSUME NEW h \in Host, addr2[h] # None
        PROVE  addr2[h] \in LiveOf(info2) /\ Ip[info2[addr2[h]].addr] = h
    <3>1. addr2[h] = addr[h] /\ h # Ip[info[id].addr]
      BY <2>2, <2>5
    <3>2. addr[h] \in LiveOf(info) /\ Ip[info[addr[h]].addr] = h
      BY <1>5, <2>5, <3>1 DEF AddrOK
    <3> QED BY <1>2, <1>3, <3>1, <3>2
  <2> QED BY <2>3, <2>4, <2>5 DEF AddrOK, addr2
<1>6. ASSUME NEW tried, TriedOK(info, tried) PROVE TriedOK(info2, tried)
  <2>1. TriedOf(info2) \subseteq LiveOf(info2)
    BY DEF TriedOf
  <2> QED BY <1>3, <1>4, <1>6, <2>1 DEF TriedOK
<1>7. ASSUME NEW n \in Nat, NEW t, CountsOK(info, n, t, {}) PROVE CountsOK(info2, n - 1, t, {})
  <2>1. IsFiniteSet(NewOf(info)) /\ NewOf(info) \ {} = NewOf(info)
    BY IdFinite DEF NewOf, LiveOf
  <2>2. Cardinality(NewOf(info) \ {id}) = Cardinality(NewOf(info)) - 1
    BY <2>1, FS_RemoveElement
  <2>3. NewOf(info2) \ {} = NewOf(info) \ {id}
    BY <1>4
  <2> QED BY <1>4, <1>7, <2>1, <2>2, <2>3 DEF CountsOK
<1> QED BY <1>3, <1>4, <1>5, <1>6, <1>7 DEF info2

-----------------------------------------------------------------------------
(* Add_. *)

\* The tables before the end of Add_: they agree, except that id has a
\* reference more than buckets.
Ready(info, addr, rnd, count, id, b) ==
  /\ InfoOK(info) /\ RandomOK(info, rnd) /\ AddrOK(info, addr) /\ TriedOK(info, vvTried)
  /\ CountsOK(info, count, nTried, {}) /\ SizesOK(vvNew, vvTried)
  /\ vvNew \in [NewBucket -> SUBSET Id]
  /\ b \in NewBucket /\ id \in NewOf(info) /\ id \notin vvNew[b]
  /\ \A c \in NewBucket : vvNew[c] \subseteq NewOf(info)
  /\ \A j \in NewOf(info) :
       /\ info[j].nRefCount = Cardinality(BucketsOf(vvNew, j)) + IF j = id THEN 1 ELSE 0
       /\ info[j].nRefCount \in 1 .. BucketsPerAddress
  /\ \A j \in TriedOf(info) : info[j].nRefCount = 0

\* The tables agree with id in bucket b.
LEMMA InsertKeeps ==
  ASSUME NEW info, NEW addr, NEW rnd, NEW count, NEW id, NEW b,
         Ready(info, addr, rnd, count, id, b), Insert(info, addr, rnd, count, id, b)
  PROVE  /\ InfoOK(mapInfo') /\ RandomOK(mapInfo', vRandom') /\ AddrOK(mapInfo', mapAddr')
         /\ RefsOK(mapInfo', vvNew', {}) /\ TriedOK(mapInfo', vvTried)
         /\ CountsOK(mapInfo', nNew', nTried, {}) /\ SizesOK(vvNew', vvTried)
         /\ LiveOf(mapInfo') \subseteq LiveOf(info)
         /\ \A h \in Host : addr[h] \in TriedOf(info) => mapAddr'[h] = addr[h]
<1> USE DEF Ready
<1>1. \A j \in NewOf(info) : j \in LiveOf(info) /\ j \in Id /\ ~info[j].fInTried
  BY DEF NewOf, LiveOf
<1>2. \A c \in NewBucket : IsFiniteSet(vvNew[c]) /\ Cardinality(vvNew[c]) \in Nat
  BY IdFinite
<1>3. \A j : IsFiniteSet(BucketsOf(vvNew, j)) /\ Cardinality(BucketsOf(vvNew, j)) \in Nat
  BY BucketsFinite DEF BucketsOf
<1>4. NewBucketSize \in Nat /\ BucketsPerAddress \in Nat
  BY AddrManAssumption
<1>5. CASE /\ Cardinality(vvNew[b]) # NewBucketSize
           /\ mapInfo' = info /\ mapAddr' = addr /\ vRandom' = rnd /\ nNew' = count
           /\ vvNew' = [vvNew EXCEPT ![b] = @ \cup {id}]
  <2>1. vvNew' = [c \in NewBucket |-> IF c = b THEN vvNew[b] \cup {id} ELSE vvNew[c]]
    BY <1>5
  <2>2. vvNew' \in [NewBucket -> SUBSET Id] /\ \A c \in NewBucket : vvNew'[c] \subseteq NewOf(info)
    BY <1>1, <2>1
  <2>3. ASSUME NEW j \in NewOf(info)
        PROVE  info[j].nRefCount = Cardinality(BucketsOf(vvNew', j))
    <3>1. CASE j = id
      <4>1. BucketsOf(vvNew', j) = BucketsOf(vvNew, j) \cup {b} /\ b \notin BucketsOf(vvNew, j)
        BY <2>1, <3>1 DEF BucketsOf
      <4>2. Cardinality(BucketsOf(vvNew', j)) = Cardinality(BucketsOf(vvNew, j)) + 1
        BY <1>3, <4>1, FS_AddElement
      <4> QED BY <3>1, <4>2
    <3>2. CASE j # id
      <4>1. BucketsOf(vvNew', j) = BucketsOf(vvNew, j)
        BY <2>1, <3>2 DEF BucketsOf
      <4> QED BY <1>3, <3>2, <4>1
    <3> QED BY <3>1, <3>2
  <2>4. RefsOK(mapInfo', vvNew', {})
    BY <1>5, <2>2, <2>3 DEF RefsOK
  <2>5. SizesOK(vvNew', vvTried)
    <3>1. Cardinality(vvNew[b] \cup {id}) <= NewBucketSize
      <4>1. Cardinality(vvNew[b] \cup {id}) = Cardinality(vvNew[b]) + 1
        BY <1>2, FS_AddElement
      <4>2. Cardinality(vvNew[b]) <= NewBucketSize
        BY DEF SizesOK
      <4> QED BY <1>2, <1>4, <1>5, <4>1, <4>2
    <3> QED BY <2>1, <3>1 DEF SizesOK
  <2> QED BY <1>5, <2>4, <2>5
<1>6. ASSUME NEW victim \in vvNew[b],
             Cardinality(vvNew[b]) = NewBucketSize,
             ShrinkNew(info, addr, rnd, count, victim),
             vvNew' = [vvNew EXCEPT ![b] = (@ \ {victim}) \cup {id}]
      PROVE  /\ InfoOK(mapInfo') /\ RandomOK(mapInfo', vRandom') /\ AddrOK(mapInfo', mapAddr')
             /\ RefsOK(mapInfo', vvNew', {}) /\ TriedOK(mapInfo', vvTried)
             /\ CountsOK(mapInfo', nNew', nTried, {}) /\ SizesOK(vvNew', vvTried)
             /\ LiveOf(mapInfo') \subseteq LiveOf(info)
             /\ \A h \in Host : addr[h] \in TriedOf(info) => mapAddr'[h] = addr[h]
  <2>1. victim \in NewOf(info) /\ victim # id /\ victim \in Id /\ victim \in LiveOf(info)
    BY <1>1
  <2>2. vvNew' = [c \in NewBucket |-> IF c = b THEN (vvNew[b] \ {victim}) \cup {id} ELSE vvNew[c]]
    BY <1>6
  <2>3. vvNew' \in [NewBucket -> SUBSET Id]
    BY <1>1, <2>2
  <2>4. Cardinality(BucketsOf(vvNew', id)) = Cardinality(BucketsOf(vvNew, id)) + 1
    <3>1. BucketsOf(vvNew', id) = BucketsOf(vvNew, id) \cup {b} /\ b \notin BucketsOf(vvNew, id)
      BY <2>1, <2>2 DEF BucketsOf
    <3> QED BY <1>3, <3>1, FS_AddElement
  <2>5. /\ BucketsOf(vvNew', victim) = BucketsOf(vvNew, victim) \ {b}
        /\ b \in BucketsOf(vvNew, victim)
    BY <2>1, <2>2 DEF BucketsOf
  <2>6. Cardinality(BucketsOf(vvNew', victim)) = Cardinality(BucketsOf(vvNew, victim)) - 1
    BY <1>3, <2>5, FS_RemoveElement
  <2>7. \A j : j # id /\ j # victim => BucketsOf(vvNew', j) = BucketsOf(vvNew, j)
    BY <2>2 DEF BucketsOf
  <2>8. info[victim].nRefCount = Cardinality(BucketsOf(vvNew, victim))
        /\ info[victim].nRefCount \in 1 .. BucketsPerAddress
    BY <1>3, <2>1
  <2>9. SizesOK(vvNew', vvTried)
    <3>1. Cardinality((vvNew[b] \ {victim}) \cup {id}) = Cardinality(vvNew[b])
      <4>1. IsFiniteSet(vvNew[b] \ {victim}) /\ id \notin vvNew[b] \ {victim}
            /\ Cardinality(vvNew[b] \ {victim}) = Cardinality(vvNew[b]) - 1
        BY <1>2, FS_RemoveElement
      <4>2. Cardinality((vvNew[b] \ {victim}) \cup {id}) = Cardinality(vvNew[b] \ {victim}) + 1
        BY <4>1, FS_AddElement
      <4> QED BY <1>2, <4>1, <4>2
    <3> QED BY <2>2, <3>1 DEF SizesOK
  <2>10. CASE /\ info[victim].nRefCount # 1
              /\ mapInfo' = [info EXCEPT ![victim].nRefCount = @ - 1]
              /\ mapAddr' = addr /\ vRandom' = rnd /\ nNew' = count
    <3> DEFINE k == info[victim].nRefCount - 1
    <3>1. k \in Nat /\ k \in 1 .. BucketsPerAddress
      BY <1>4, <2>8, <2>10
    <3>2. mapInfo' = Recount(info, victim, k)
      BY <2>10 DEF Recount
    <3> HIDE DEF k
    <3>3. /\ InfoOK(mapInfo') /\ LiveOf(mapInfo') = LiveOf(info)
          /\ NewOf(mapInfo') = NewOf(info) /\ TriedOf(mapInfo') = TriedOf(info)
          /\ mapInfo'[victim].nRefCount = k
          /\ \A j \in Id \ {victim} : mapInfo'[j] = info[j]
          /\ RandomOK(mapInfo', rnd) /\ AddrOK(mapInfo', addr) /\ TriedOK(mapInfo', vvTried)
          /\ CountsOK(mapInfo', count, nTried, {})
      <4>1. InfoOK(info) /\ RandomOK(info, rnd) /\ AddrOK(info, addr) /\ TriedOK(info, vvTried)
            /\ CountsOK(info, count, nTried, {})
        OBVIOUS
      <4> QED BY ONLY <2>1, <3>1, <3>2, <4>1, Recounted
    <3>4. \A c \in NewBucket : vvNew'[c] \subseteq NewOf(mapInfo') \ {}
      BY <2>2, <3>3
    <3>5. ASSUME NEW j \in NewOf(mapInfo')
          PROVE  /\ mapInfo'[j].nRefCount = Cardinality(BucketsOf(vvNew', j))
                 /\ mapInfo'[j].nRefCount \in 1 .. BucketsPerAddress
      <4>1. j \in NewOf(info) /\ j \in Id
        BY <1>1, <3>3
      <4>2. CASE j = victim
        BY <2>6, <2>8, <3>1, <3>3, <4>2 DEF k
      <4>3. CASE j = id
        BY <2>1, <2>4, <3>3, <4>1, <4>3
      <4>4. CASE j # victim /\ j # id
        BY <1>3, <2>7, <3>3, <4>1, <4>4
      <4> QED BY <4>2, <4>3, <4>4
    <3>6. ASSUME NEW j \in TriedOf(mapInfo') PROVE mapInfo'[j].nRefCount = 0
      <4>1. j \in TriedOf(info) /\ j # victim /\ j \in Id
        BY <2>1, <3>3 DEF NewOf, TriedOf, LiveOf
      <4> QED BY <3>3, <4>1
    <3>7. RefsOK(mapInfo', vvNew', {})
      BY <2>3, <3>4, <3>5, <3>6 DEF RefsOK
    <3> QED BY <2>9, <2>10, <3>3, <3>7
  <2>11. CASE /\ info[victim].nRefCount = 1
              /\ mapInfo' = Erased(info, rnd, victim)
              /\ mapAddr' = [addr EXCEPT ![Ip[info[victim].addr]] = None]
              /\ vRandom' = WithoutPos(rnd, info[victim].nRandomPos)
              /\ nNew' = count - 1
    <3>1. /\ InfoOK(mapInfo') /\ RandomOK(mapInfo', vRandom')
          /\ LiveOf(mapInfo') = LiveOf(info) \ {victim}
      BY <2>1, <2>11, ErasedRandom
    <3>2. /\ NewOf(mapInfo') = NewOf(info) \ {victim}
          /\ TriedOf(mapInfo') = TriedOf(info)
          /\ \A j \in LiveOf(mapInfo') : mapInfo'[j].nRefCount = info[j].nRefCount
          /\ AddrOK(mapInfo', mapAddr') /\ TriedOK(mapInfo', vvTried)
          /\ CountsOK(mapInfo', nNew', nTried, {})
      <4>1. InfoOK(info) /\ RandomOK(info, rnd) /\ AddrOK(info, addr) /\ TriedOK(info, vvTried)
            /\ CountsOK(info, count, nTried, {})
        OBVIOUS
      <4>2. mapAddr' = Forgotten(addr, info, victim)
        BY <2>11 DEF Forgotten
      <4>3. count \in Nat
        BY <4>1, IdFinite DEF CountsOK, NewOf, LiveOf
      <4>4. CountsOK(mapInfo', nNew', nTried, {})
        BY ONLY <2>1, <2>11, <4>1, <4>3, ErasedTables
      <4>5. AddrOK(mapInfo', mapAddr') /\ TriedOK(mapInfo', vvTried)
        <5>1. mapInfo' = Erased(info, rnd, victim)
          BY <2>11
        <5>2. /\ AddrOK(Erased(info, rnd, victim), Forgotten(addr, info, victim))
              /\ TriedOK(Erased(info, rnd, victim), vvTried)
          BY ONLY <2>1, <4>1, ErasedTables
        <5> QED BY ONLY <4>2, <5>1, <5>2
      <4>6. /\ NewOf(mapInfo') = NewOf(info) \ {victim}
            /\ TriedOf(mapInfo') = TriedOf(info)
            /\ \A j \in LiveOf(mapInfo') : mapInfo'[j].nRefCount = info[j].nRefCount
        BY ONLY <2>1, <2>11, <4>1, ErasedTables
      <4> QED BY <4>4, <4>5, <4>6
    <3>3. BucketsOf(vvNew', victim) = {}
      <4>1. IsFiniteSet(BucketsOf(vvNew', victim)) /\ Cardinality(BucketsOf(vvNew', victim)) = 0
        BY <1>3, <2>5, <2>6, <2>8, <2>11, FS_RemoveElement
      <4> QED BY <4>1, FS_EmptySet
    <3>4. \A c \in NewBucket : vvNew'[c] \subseteq NewOf(mapInfo') \ {}
      <4>1. \A c \in NewBucket : victim \notin vvNew'[c]
        BY <3>3 DEF BucketsOf
      <4>2. \A c \in NewBucket : vvNew'[c] \subseteq NewOf(info)
        BY <2>2
      <4> QED BY <3>2, <4>1, <4>2
    <3>5. ASSUME NEW j \in NewOf(mapInfo')
          PROVE  /\ mapInfo'[j].nRefCount = Cardinality(BucketsOf(vvNew', j))
                 /\ mapInfo'[j].nRefCount \in 1 .. BucketsPerAddress
      <4>1. j \in NewOf(info) /\ j # victim /\ mapInfo'[j].nRefCount = info[j].nRefCount
        BY <3>2 DEF NewOf
      <4>2. CASE j = id
        BY <2>4, <4>1, <4>2
      <4>3. CASE j # id
        BY <1>3, <2>7, <4>1, <4>3
      <4> QED BY <4>2, <4>3
    <3>6. \A j \in TriedOf(mapInfo') : mapInfo'[j].nRefCount = 0
      BY <3>2 DEF TriedOf
    <3>7. RefsOK(mapInfo', vvNew', {})
      BY <2>3, <3>4, <3>5, <3>6 DEF RefsOK
    <3>8. \A h \in Host : addr[h] \in TriedOf(info) => mapAddr'[h] = addr[h]
      <4>1. addr[Ip[info[victim].addr]] = victim /\ victim \notin TriedOf(info)
        BY <2>1 DEF AddrOK, NewOf, TriedOf
      <4>2. addr \in [Host -> Id \cup {None}]
        BY DEF AddrOK
      <4> QED BY <2>11, <4>1, <4>2
    <3> QED BY <2>9, <3>1, <3>2, <3>7, <3>8
  <2> QED BY <1>6, <2>10, <2>11 DEF ShrinkNew
<1> QED BY <1>5, <1>6 DEF Insert

\* No address that is tried is forgotten.
TriedStay == \A h \in Host : mapAddr[h] \in Tried => mapAddr'[h] # None

\* The tables outside of SelectTried.
LEMMA InvIdle ==
  ASSUME Inv, evicting = None
  PROVE  /\ TablesOK(nIdCount, mapInfo, mapAddr, vRandom, nTried, vvTried, nNew, vvNew, {})
         /\ Moving = {}
BY InvAsTables DEF Moving

\* The invariant of the next state, when that is outside of SelectTried.
LEMMA InvIdleNext ==
  ASSUME evicting' = None,
         TablesOK(nIdCount', mapInfo', mapAddr', vRandom', nTried', vvTried', nNew', vvNew', {})
  PROVE  Inv'
<1>1. Moving' = {}
  BY DEF Moving
<1>2. EvictionOK'
  BY DEF EvictionOK
<1> QED BY <1>1, <1>2, InvAsTablesNext

\* Add_ of an unknown address, with the victim its bucket may lose.
LEMMA AddNewKeeps ==
  ASSUME Inv, NEW s \in Service, NEW src \in Source, AddNew(s, src)
  PROVE  Inv' /\ TriedStay
<1> DEFINE e == [addr |-> s, source |-> src, nLastSuccess |-> 0, nRefCount |-> 1,
                 fInTried |-> FALSE, nRandomPos |-> Len(vRandom) + 1]
           id == nIdCount
           b == NewBucketOf[Ip[s], src]
           info == [mapInfo EXCEPT ![id] = e]
           addr == [mapAddr EXCEPT ![Ip[s]] = id]
           rnd == Append(vRandom, id)
<1>1. /\ evicting = None /\ mapAddr[Ip[s]] = None /\ nIdCount < MaxId
      /\ nIdCount' = nIdCount + 1
      /\ Insert(info, addr, rnd, nNew + 1, id, b)
      /\ nTried' = nTried /\ vvTried' = vvTried /\ evicting' = evicting
  BY DEF AddNew
<1>2. /\ IdsOK(mapInfo, nIdCount) /\ InfoOK(mapInfo) /\ RandomOK(mapInfo, vRandom)
      /\ AddrOK(mapInfo, mapAddr) /\ RefsOK(mapInfo, vvNew, {}) /\ TriedOK(mapInfo, vvTried)
      /\ CountsOK(mapInfo, nNew, nTried, {}) /\ SizesOK(vvNew, vvTried)
  BY <1>1, InvIdle DEF TablesOK
<1>3. id \in Id /\ id \notin LiveOf(mapInfo) /\ mapInfo[id] = None
  <2>1. nIdCount \in 0 .. MaxId /\ \A j \in LiveOf(mapInfo) : j < nIdCount
    BY <1>2 DEF IdsOK
  <2>2. nIdCount \in Id /\ ~(nIdCount < nIdCount)
    <3>1. nIdCount < MaxId
      BY <1>1
    <3> QED BY ONLY <2>1, <3>1, SizesType DEF Id
  <2> QED BY <2>1, <2>2 DEF LiveOf
<1>4. Ip[s] \in Host /\ b \in NewBucket
  BY AddrManAssumption
<1>5. /\ e \in Info /\ e # None /\ e.addr = s /\ e.fInTried = FALSE /\ e.nRefCount = 1
      /\ e.nRandomPos = Len(vRandom) + 1
  <2>1. Len(vRandom) + 1 \in Nat
    BY <1>2 DEF RandomOK
  <2>2. e \in Info
    BY ONLY <2>1, s \in Service, src \in Source DEF Info
  <2>3. e # None
    BY <2>2, NoneAssumption
  <2> QED BY <2>2, <2>3
<1>6. info = [j \in Id |-> IF j = id THEN e ELSE mapInfo[j]]
  BY <1>3, <1>2 DEF InfoOK
<1> HIDE DEF info, e
<1>7. InfoOK(info)
  BY <1>2, <1>5, <1>6 DEF InfoOK
<1>8. LiveOf(info) = LiveOf(mapInfo) \cup {id}
  BY <1>3, <1>5, <1>6 DEF LiveOf
<1>9. \A j \in LiveOf(mapInfo) : info[j] = mapInfo[j]
  BY <1>3, <1>6 DEF LiveOf
<1>10. info[id] = e
  BY <1>3, <1>6
<1>11. NewOf(info) = NewOf(mapInfo) \cup {id} /\ TriedOf(info) = TriedOf(mapInfo)
       /\ id \notin NewOf(mapInfo)
  BY <1>3, <1>5, <1>8, <1>9, <1>10 DEF NewOf, TriedOf
<1>12. RandomOK(info, rnd)
  <2>1. vRandom \in Seq(Id) /\ Len(vRandom) \in Nat
    BY <1>2 DEF RandomOK
  <2>2. /\ rnd \in Seq(Id) /\ Len(rnd) = Len(vRandom) + 1 /\ rnd[Len(vRandom) + 1] = id
        /\ \A p \in 1 .. Len(vRandom) : rnd[p] = vRandom[p]
    BY <1>3, <2>1
  <2> HIDE DEF rnd, id
  <2>3. ASSUME NEW j \in LiveOf(info)
        PROVE  info[j].nRandomPos \in 1 .. Len(rnd) /\ rnd[info[j].nRandomPos] = j
    <3>1. CASE j = id
      BY <1>5, <1>10, <2>1, <2>2, <3>1
    <3>2. CASE j # id
      <4>1. j \in LiveOf(mapInfo) /\ info[j] = mapInfo[j]
        BY <1>8, <1>9, <3>2
      <4>2. mapInfo[j].nRandomPos \in 1 .. Len(vRandom) /\ vRandom[mapInfo[j].nRandomPos] = j
        BY <1>2, <4>1 DEF RandomOK
      <4> QED BY <2>1, <2>2, <4>1, <4>2
    <3> QED BY <3>1, <3>2
  <2>4. ASSUME NEW p \in 1 .. Len(rnd)
        PROVE  rnd[p] \in LiveOf(info) /\ info[rnd[p]].nRandomPos = p
    <3>1. CASE p = Len(vRandom) + 1
      BY <1>5, <1>8, <1>10, <2>2, <3>1
    <3>2. CASE p # Len(vRandom) + 1
      <4>1. p \in 1 .. Len(vRandom)
        BY <2>1, <2>2, <3>2
      <4>2. vRandom[p] \in LiveOf(mapInfo) /\ mapInfo[vRandom[p]].nRandomPos = p
        BY <1>2, <4>1 DEF RandomOK
      <4> QED BY <1>8, <1>9, <2>2, <4>1, <4>2
    <3> QED BY <3>1, <3>2
  <2> QED BY <2>2, <2>3, <2>4 DEF RandomOK
<1>13. addr = [h \in Host |-> IF h = Ip[s] THEN id ELSE mapAddr[h]]
  BY <1>2, <1>4 DEF AddrOK
<1> HIDE DEF addr
<1>14. \A j \in LiveOf(mapInfo) : /\ Ip[mapInfo[j].addr] \in Host /\ Ip[mapInfo[j].addr] # Ip[s]
                                  /\ mapAddr[Ip[mapInfo[j].addr]] = j
  <2> SUFFICES ASSUME NEW j \in LiveOf(mapInfo)
               PROVE  /\ Ip[mapInfo[j].addr] \in Host /\ Ip[mapInfo[j].addr] # Ip[s]
                      /\ mapAddr[Ip[mapInfo[j].addr]] = j
    OBVIOUS
  <2>1. j \in Id /\ j # None /\ Ip[mapInfo[j].addr] \in Host
    BY <1>2, EntryType, AddrManAssumption
  <2>2. mapAddr[Ip[mapInfo[j].addr]] = j
    BY <1>2 DEF AddrOK
  <2> QED BY <1>1, <2>1, <2>2
<1>15. AddrOK(info, addr)
  <2>1. addr \in [Host -> Id \cup {None}]
    BY <1>2, <1>3, <1>13 DEF AddrOK
  <2>2. ASSUME NEW j \in LiveOf(info) PROVE addr[Ip[info[j].addr]] = j
    <3>1. CASE j = id
      BY <1>4, <1>5, <1>10, <1>13, <3>1
    <3>2. CASE j # id
      BY <1>8, <1>9, <1>13, <1>14, <3>2
    <3> QED BY <3>1, <3>2
  <2>3. ASSUME NEW h \in Host, addr[h] # None
        PROVE  addr[h] \in LiveOf(info) /\ Ip[info[addr[h]].addr] = h
    <3>1. CASE h = Ip[s]
      BY <1>5, <1>8, <1>10, <1>13, <3>1
    <3>2. CASE h # Ip[s]
      <4>1. addr[h] = mapAddr[h]
        BY <1>13, <3>2
      <4>2. mapAddr[h] \in LiveOf(mapInfo) /\ Ip[mapInfo[mapAddr[h]].addr] = h
        BY <1>2, <2>3, <4>1 DEF AddrOK
      <4> QED BY <1>8, <1>9, <4>1, <4>2
    <3> QED BY <3>1, <3>2
  <2> QED BY <2>1, <2>2, <2>3 DEF AddrOK
<1>16. TriedOK(info, vvTried)
  <2>1. TriedOf(mapInfo) \subseteq LiveOf(mapInfo)
    BY DEF TriedOf
  <2> QED BY <1>2, <1>9, <1>11, <2>1 DEF TriedOK
<1>17. CountsOK(info, nNew + 1, nTried, {})
  <2>1. NewOf(info) \ {} = NewOf(mapInfo) \cup {id} /\ NewOf(mapInfo) \ {} = NewOf(mapInfo)
    BY <1>11
  <2>2. IsFiniteSet(NewOf(mapInfo))
    BY IdFinite DEF NewOf, LiveOf
  <2>3. Cardinality(NewOf(mapInfo) \cup {id}) = Cardinality(NewOf(mapInfo)) + 1
    BY <1>11, <2>2, FS_AddElement
  <2> QED BY <1>2, <1>11, <2>1, <2>3 DEF CountsOK
<1>18. vvNew \in [NewBucket -> SUBSET Id] /\ \A c \in NewBucket : vvNew[c] \subseteq NewOf(mapInfo)
  BY <1>2 DEF RefsOK
<1>19. ASSUME NEW j \in NewOf(info)
       PROVE  /\ info[j].nRefCount = Cardinality(BucketsOf(vvNew, j)) + IF j = id THEN 1 ELSE 0
              /\ info[j].nRefCount \in 1 .. BucketsPerAddress
  <2>1. CASE j = id
    <3>1. BucketsOf(vvNew, id) = {}
      BY <1>11, <1>18 DEF BucketsOf
    <3>2. Cardinality(BucketsOf(vvNew, id)) = 0
      BY <3>1, FS_EmptySet
    <3> QED BY <1>5, <1>10, <2>1, <3>2, SizesType
  <2>2. CASE j # id
    <3>1. j \in NewOf(mapInfo) /\ j \in LiveOf(mapInfo) /\ info[j] = mapInfo[j]
      BY <1>9, <1>11, <2>2 DEF NewOf
    <3>2. /\ mapInfo[j].nRefCount = Cardinality(BucketsOf(vvNew, j))
          /\ mapInfo[j].nRefCount \in 1 .. BucketsPerAddress
      BY <1>2, <3>1 DEF RefsOK
    <3> QED BY <2>2, <3>1, <3>2
  <2> QED BY <2>1, <2>2
<1>20. \A j \in TriedOf(info) : info[j].nRefCount = 0
  BY <1>2, <1>9, <1>11 DEF RefsOK, TriedOf
<1>21. Ready(info, addr, rnd, nNew + 1, id, b)
  BY <1>2, <1>4, <1>7, <1>11, <1>12, <1>15, <1>16, <1>17, <1>18, <1>19, <1>20 DEF Ready
<1> HIDE DEF rnd, id, b
<1>22. /\ InfoOK(mapInfo') /\ RandomOK(mapInfo', vRandom') /\ AddrOK(mapInfo', mapAddr')
       /\ RefsOK(mapInfo', vvNew', {}) /\ TriedOK(mapInfo', vvTried)
       /\ CountsOK(mapInfo', nNew', nTried, {}) /\ SizesOK(vvNew', vvTried)
       /\ LiveOf(mapInfo') \subseteq LiveOf(info)
       /\ \A h \in Host : addr[h] \in TriedOf(info) => mapAddr'[h] = addr[h]
  BY ONLY <1>1, <1>21, InsertKeeps
<1>23. IdsOK(mapInfo', nIdCount')
  <2>1. \A j \in LiveOf(mapInfo) : j \in Nat /\ j < nIdCount
    BY <1>2, IdFinite DEF IdsOK, LiveOf
  <2>2. nIdCount \in Nat /\ nIdCount' \in 0 .. MaxId
    BY <1>1, <1>2, AddrManAssumption DEF IdsOK
  <2> QED BY <1>1, <1>8, <1>22, <2>1, <2>2 DEF IdsOK, id
<1>24. Inv'
  BY <1>1, <1>22, <1>23, InvIdleNext DEF TablesOK
<1>25. TriedStay
  <2> SUFFICES ASSUME NEW h \in Host, mapAddr[h] \in Tried PROVE mapAddr'[h] # None
    BY DEF TriedStay
  <2>1. mapAddr[h] \in TriedOf(mapInfo) /\ mapAddr[h] # None
    BY AddrManAssumption DEF Tried, Live, TriedOf, LiveOf
  <2>2. addr[h] = mapAddr[h]
    BY <1>1, <1>13, <2>1
  <2> QED BY <1>11, <1>22, <2>1, <2>2
<1> QED BY <1>24, <1>25

\* Add_ of a known address: one more bucket and one more reference.
LEMMA AddKnownKeeps ==
  ASSUME Inv, NEW s \in Service, NEW src \in Source, AddKnown(s, src)
  PROVE  Inv' /\ TriedStay
<1> DEFINE id == mapAddr[Ip[s]]
           b == NewBucketOf[Ip[s], src]
           k == mapInfo[id].nRefCount + 1
           info == Recount(mapInfo, id, k)
<1>1. /\ evicting = None /\ id # None /\ ~mapInfo[id].fInTried
      /\ mapInfo[id].nRefCount # BucketsPerAddress /\ id \notin vvNew[b]
      /\ Insert(info, mapAddr, vRandom, nNew, id, b)
      /\ nIdCount' = nIdCount /\ nTried' = nTried /\ vvTried' = vvTried /\ evicting' = evicting
  BY DEF AddKnown, Recount
<1>2. /\ IdsOK(mapInfo, nIdCount) /\ InfoOK(mapInfo) /\ RandomOK(mapInfo, vRandom)
      /\ AddrOK(mapInfo, mapAddr) /\ RefsOK(mapInfo, vvNew, {}) /\ TriedOK(mapInfo, vvTried)
      /\ CountsOK(mapInfo, nNew, nTried, {}) /\ SizesOK(vvNew, vvTried)
  BY <1>1, InvIdle DEF TablesOK
<1>3. Ip[s] \in Host /\ b \in NewBucket /\ BucketsPerAddress \in Nat
  BY AddrManAssumption
<1>4. id \in LiveOf(mapInfo) /\ id \in NewOf(mapInfo) /\ id \in Id
  BY <1>1, <1>2, <1>3 DEF AddrOK, NewOf, LiveOf
<1>5. /\ mapInfo[id].nRefCount = Cardinality(BucketsOf(vvNew, id))
      /\ mapInfo[id].nRefCount \in 1 .. BucketsPerAddress
  BY <1>2, <1>4 DEF RefsOK
<1>6. k \in Nat /\ k \in 1 .. BucketsPerAddress
  <2> DEFINE m == mapInfo[id].nRefCount
  <2>1. m \in 1 .. BucketsPerAddress /\ m # BucketsPerAddress /\ k = m + 1
    BY <1>1, <1>5
  <2> HIDE DEF m, k
  <2> QED BY <2>1, SizesType
<1> HIDE DEF id, k, b
<1>7. /\ InfoOK(info) /\ LiveOf(info) = LiveOf(mapInfo)
      /\ NewOf(info) = NewOf(mapInfo) /\ TriedOf(info) = TriedOf(mapInfo)
      /\ info[id].nRefCount = k
      /\ \A j \in Id \ {id} : info[j] = mapInfo[j]
      /\ RandomOK(info, vRandom) /\ AddrOK(info, mapAddr) /\ TriedOK(info, vvTried)
      /\ CountsOK(info, nNew, nTried, {})
  BY ONLY <1>2, <1>4, <1>6, Recounted
<1> HIDE DEF info
<1>8. vvNew \in [NewBucket -> SUBSET Id] /\ \A c \in NewBucket : vvNew[c] \subseteq NewOf(info)
  BY <1>2, <1>7 DEF RefsOK
<1>9. ASSUME NEW j \in NewOf(info)
      PROVE  /\ info[j].nRefCount = Cardinality(BucketsOf(vvNew, j)) + IF j = id THEN 1 ELSE 0
             /\ info[j].nRefCount \in 1 .. BucketsPerAddress
  <2>1. CASE j = id
    BY <1>5, <1>6, <1>7, <2>1 DEF k
  <2>2. CASE j # id
    <3>1. j \in NewOf(mapInfo) /\ info[j] = mapInfo[j]
      BY <1>7, <2>2 DEF NewOf, LiveOf
    <3>2. /\ mapInfo[j].nRefCount = Cardinality(BucketsOf(vvNew, j))
          /\ mapInfo[j].nRefCount \in 1 .. BucketsPerAddress
      BY <1>2, <3>1 DEF RefsOK
    <3> QED BY <2>2, <3>1, <3>2
  <2> QED BY <2>1, <2>2
<1>10. ASSUME NEW j \in TriedOf(info) PROVE info[j].nRefCount = 0
  <2>1. j \in TriedOf(mapInfo) /\ j \in Id /\ j # id
    BY <1>4, <1>7 DEF TriedOf, NewOf, LiveOf
  <2> QED BY <1>2, <1>7, <2>1 DEF RefsOK
<1>11. Ready(info, mapAddr, vRandom, nNew, id, b)
  BY <1>1, <1>2, <1>3, <1>4, <1>7, <1>8, <1>9, <1>10 DEF Ready
<1>12. /\ InfoOK(mapInfo') /\ RandomOK(mapInfo', vRandom') /\ AddrOK(mapInfo', mapAddr')
       /\ RefsOK(mapInfo', vvNew', {}) /\ TriedOK(mapInfo', vvTried)
       /\ CountsOK(mapInfo', nNew', nTried, {}) /\ SizesOK(vvNew', vvTried)
       /\ LiveOf(mapInfo') \subseteq LiveOf(info)
       /\ \A h \in Host : mapAddr[h] \in TriedOf(info) => mapAddr'[h] = mapAddr[h]
  BY ONLY <1>1, <1>11, InsertKeeps
<1>13. IdsOK(mapInfo', nIdCount')
  BY <1>1, <1>2, <1>7, <1>12 DEF IdsOK
<1>14. Inv'
  BY <1>1, <1>12, <1>13, InvIdleNext DEF TablesOK
<1>15. TriedStay
  <2> SUFFICES ASSUME NEW h \in Host, mapAddr[h] \in Tried PROVE mapAddr'[h] # None
    BY DEF TriedStay
  <2>1. mapAddr[h] \in TriedOf(mapInfo) /\ mapAddr[h] # None
    BY AddrManAssumption DEF Tried, Live, TriedOf, LiveOf
  <2> QED BY <1>7, <1>12, <2>1
<1> QED BY <1>14, <1>15

-----------------------------------------------------------------------------
(* Good_. *)

\* An entry is replaced by one of the same address at the same place.
Rewrite(info, id, e) == [info EXCEPT ![id] = e]

\* An entry gets new fields and keeps its address and its place.
LEMMA Rewritten ==
  ASSUME NEW info, InfoOK(info), NEW id \in LiveOf(info), NEW e \in Info,
         e.addr = info[id].addr, e.nRandomPos = info[id].nRandomPos
  PROVE  /\ InfoOK(Rewrite(info, id, e))
         /\ LiveOf(Rewrite(info, id, e)) = LiveOf(info)
         /\ Rewrite(info, id, e)[id] = e
         /\ \A j \in Id \ {id} : Rewrite(info, id, e)[j] = info[j]
         /\ \A j \in LiveOf(info) : Rewrite(info, id, e)[j].addr = info[j].addr
         /\ \A rnd : RandomOK(info, rnd) => RandomOK(Rewrite(info, id, e), rnd)
         /\ \A addr : AddrOK(info, addr) => AddrOK(Rewrite(info, id, e), addr)
         /\ \A n : IdsOK(info, n) => IdsOK(Rewrite(info, id, e), n)
<1> DEFINE info2 == Rewrite(info, id, e)
<1>1. id \in Id
  BY EntryType
<1>2. info2 = [j \in Id |-> IF j = id THEN e ELSE info[j]]
  BY <1>1 DEF InfoOK, Rewrite
<1>3. e # None
  BY NoneAssumption
<1> HIDE DEF info2
<1>4. InfoOK(info2)
  BY <1>2 DEF InfoOK
<1>5. LiveOf(info2) = LiveOf(info)
  BY <1>2, <1>3 DEF LiveOf
<1>6. \A j \in LiveOf(info) : info2[j].addr = info[j].addr /\ info2[j].nRandomPos = info[j].nRandomPos
  BY <1>2 DEF LiveOf
<1>7. ASSUME NEW rnd, RandomOK(info, rnd) PROVE RandomOK(info2, rnd)
  BY <1>5, <1>6, <1>7 DEF RandomOK
<1>8. ASSUME NEW addr, AddrOK(info, addr) PROVE AddrOK(info2, addr)
  BY <1>5, <1>6, <1>8 DEF AddrOK
<1>9. ASSUME NEW n, IdsOK(info, n) PROVE IdsOK(info2, n)
  BY <1>5, <1>9 DEF IdsOK
<1>10. info2[id] = e /\ \A j \in Id \ {id} : info2[j] = info[j]
  BY <1>1, <1>2
<1> QED BY <1>4, <1>5, <1>6, <1>7, <1>8, <1>9, <1>10 DEF info2

\* Good_ of a tried entry.
LEMMA GoodAgainKeeps ==
  ASSUME Inv, NEW s \in Service, NEW t \in Time, GoodAgain(s, t)
  PROVE  Inv' /\ TriedStay
<1> DEFINE id == mapAddr[Ip[s]]
           e == [mapInfo[id] EXCEPT !.nLastSuccess = t]
<1>1. /\ evicting = None /\ id # None /\ mapInfo[id].fInTried
      /\ mapInfo' = [mapInfo EXCEPT ![id].nLastSuccess = t]
      /\ nIdCount' = nIdCount /\ mapAddr' = mapAddr /\ vRandom' = vRandom /\ nTried' = nTried
      /\ vvTried' = vvTried /\ nNew' = nNew /\ vvNew' = vvNew /\ evicting' = evicting
  BY DEF GoodAgain
<1>2. /\ IdsOK(mapInfo, nIdCount) /\ InfoOK(mapInfo) /\ RandomOK(mapInfo, vRandom)
      /\ AddrOK(mapInfo, mapAddr) /\ RefsOK(mapInfo, vvNew, {}) /\ TriedOK(mapInfo, vvTried)
      /\ CountsOK(mapInfo, nNew, nTried, {}) /\ SizesOK(vvNew, vvTried)
  BY <1>1, InvIdle DEF TablesOK
<1>3. Ip[s] \in Host /\ t # 0
  BY AddrManAssumption
<1>4. id \in LiveOf(mapInfo) /\ id \in Id
  BY <1>1, <1>2, <1>3 DEF AddrOK, LiveOf
<1>5. mapInfo[id] \in Info
  BY <1>2, <1>4, EntryType
<1>6. mapInfo' = Rewrite(mapInfo, id, e)
  BY <1>1 DEF Rewrite
<1>7. /\ e \in Info /\ e.addr = mapInfo[id].addr /\ e.nRandomPos = mapInfo[id].nRandomPos
      /\ e.fInTried = mapInfo[id].fInTried /\ e.nRefCount = mapInfo[id].nRefCount
      /\ e.nLastSuccess = t
  BY <1>5 DEF Info
<1> HIDE DEF e, id
<1>8. /\ InfoOK(mapInfo') /\ LiveOf(mapInfo') = LiveOf(mapInfo)
      /\ mapInfo'[id] = e /\ \A j \in Id \ {id} : mapInfo'[j] = mapInfo[j]
      /\ RandomOK(mapInfo', vRandom) /\ AddrOK(mapInfo', mapAddr) /\ IdsOK(mapInfo', nIdCount)
  BY ONLY <1>2, <1>4, <1>6, <1>7, Rewritten
<1>9. \A j \in LiveOf(mapInfo) : /\ mapInfo'[j].fInTried = mapInfo[j].fInTried
                                 /\ mapInfo'[j].nRefCount = mapInfo[j].nRefCount
                                 /\ mapInfo'[j].addr = mapInfo[j].addr
                                 /\ mapInfo'[j].nLastSuccess = IF j = id THEN t ELSE mapInfo[j].nLastSuccess
  BY <1>7, <1>8 DEF LiveOf
<1>10. NewOf(mapInfo') = NewOf(mapInfo) /\ TriedOf(mapInfo') = TriedOf(mapInfo)
  BY <1>8, <1>9 DEF NewOf, TriedOf
<1>11. TriedOf(mapInfo) \subseteq LiveOf(mapInfo) /\ NewOf(mapInfo) \subseteq LiveOf(mapInfo)
  BY DEF TriedOf, NewOf
<1>12. RefsOK(mapInfo', vvNew, {})
  BY <1>2, <1>9, <1>10, <1>11 DEF RefsOK
<1>13. TriedOK(mapInfo', vvTried)
  BY <1>2, <1>3, <1>9, <1>10, <1>11 DEF TriedOK
<1>14. CountsOK(mapInfo', nNew, nTried, {})
  BY <1>2, <1>10 DEF CountsOK
<1>15. Inv'
  BY <1>1, <1>2, <1>8, <1>12, <1>13, <1>14, InvIdleNext DEF TablesOK
<1>16. TriedStay
  BY <1>1, AddrManAssumption DEF TriedStay, Tried, Live
<1> QED BY <1>15, <1>16

\* The entry is in no new bucket any more.
LEMMA LeaveKeeps ==
  ASSUME RefsOK(mapInfo, vvNew, {}), SizesOK(vvNew, vvTried),
         NEW id \in NewOf(mapInfo), NEW origin \in NewBucket, id \in vvNew[origin],
         vvNew' = Leave(id, origin)
  PROVE  /\ vvNew' \in [NewBucket -> SUBSET Id]
         /\ \A b \in NewBucket : /\ vvNew'[b] \subseteq NewOf(mapInfo) \ {id}
                                 /\ Cardinality(vvNew'[b]) <= NewBucketSize
         /\ \A j : j # id => BucketsOf(vvNew', j) = BucketsOf(vvNew, j)
         /\ Cardinality(vvNew'[origin]) < NewBucketSize
<1>1. vvNew' = [b \in NewBucket |-> vvNew[b] \ {id}]
  BY DEF Leave
<1>2. vvNew \in [NewBucket -> SUBSET Id] /\ \A b \in NewBucket : vvNew[b] \subseteq NewOf(mapInfo)
  BY DEF RefsOK
<1>3. vvNew' \in [NewBucket -> SUBSET Id] /\ \A b \in NewBucket : vvNew'[b] \subseteq NewOf(mapInfo) \ {id}
  BY <1>1, <1>2
<1>4. \A j : j # id => BucketsOf(vvNew', j) = BucketsOf(vvNew, j)
  BY <1>1 DEF BucketsOf
<1>5. ASSUME NEW b \in NewBucket
      PROVE  /\ Cardinality(vvNew'[b]) <= NewBucketSize
             /\ id \in vvNew[b] => Cardinality(vvNew'[b]) < NewBucketSize
  <2>1. IsFiniteSet(vvNew[b]) /\ Cardinality(vvNew[b]) \in Nat
    BY <1>2, IdFinite
  <2>2. Cardinality(vvNew[b] \ {id}) =
          IF id \in vvNew[b] THEN Cardinality(vvNew[b]) - 1 ELSE Cardinality(vvNew[b])
    BY <2>1, FS_RemoveElement
  <2>3. Cardinality(vvNew[b]) <= NewBucketSize
    BY DEF SizesOK
  <2>4. vvNew'[b] = vvNew[b] \ {id}
    BY <1>1
  <2> QED BY <2>1, <2>2, <2>3, <2>4, SizesType
<1> QED BY <1>3, <1>4, <1>5

\* MakeTried puts a new entry at the end of its tried bucket.
LEMMA TriedAppended ==
  ASSUME NEW info, NEW info2, NEW tried, NEW id \in NewOf(info), InfoOK(info), InfoOK(info2),
         TriedOK(info, tried), TriedOf(info2) = TriedOf(info) \cup {id},
         \A j \in LiveOf(info) : info2[j].addr = info[j].addr,
         \A j \in TriedOf(info) : info2[j].nLastSuccess = info[j].nLastSuccess,
         info2[id].nLastSuccess # 0,
         NEW kb, kb = TriedBucketOf[info[id].addr]
  PROVE  TriedOK(info2, [tried EXCEPT ![kb] = Append(@, id)])
<1> DEFINE tried2 == [tried EXCEPT ![kb] = Append(@, id)]
<1>1. id \in LiveOf(info) /\ id \in Id /\ id \notin TriedOf(info) /\ kb \in TriedBucket
  BY EntryType DEF NewOf, TriedOf
<1>2. TriedOf(info) \subseteq LiveOf(info)
  BY DEF TriedOf
<1>3. tried \in [TriedBucket -> Seq(Id)]
  BY DEF TriedOK
<1>4. \A b \in TriedBucket : tried[b] \in Seq(Id) /\ Len(tried[b]) \in Nat
  BY <1>3
<1>5. tried2 = [b \in TriedBucket |-> IF b = kb THEN Append(tried[b], id) ELSE tried[b]]
  BY <1>1, <1>3
<1>6. tried2 \in [TriedBucket -> Seq(Id)]
  <2>1. Append(tried[kb], id) \in Seq(Id)
    BY <1>1, <1>4
  <2> QED BY <1>3, <2>1
<1> DEFINE n == Len(tried[kb])
<1>7. /\ n \in Nat /\ Len(tried2[kb]) = n + 1 /\ tried2[kb][n + 1] = id
      /\ \A p \in 1 .. n : tried2[kb][p] = tried[kb][p]
  BY <1>1, <1>4, <1>5
<1>8. \A b \in TriedBucket : b # kb => tried2[b] = tried[b]
  BY <1>5
<1> HIDE DEF tried2, n
<1>9. \A b \in TriedBucket : \A p \in 1 .. Len(tried[b]) :
        p \in 1 .. Len(tried2[b]) /\ tried2[b][p] = tried[b][p]
  BY <1>1, <1>4, <1>7, <1>8 DEF n
<1>10. \A b \in TriedBucket : \A p \in 1 .. Len(tried2[b]) :
         p \in 1 .. Len(tried[b]) \/ (b = kb /\ p = n + 1)
  BY <1>1, <1>4, <1>7, <1>8 DEF n
<1>11. ASSUME NEW j \in TriedOf(info2)
       PROVE  /\ info2[j].nLastSuccess # 0
              /\ \E p \in 1 .. Len(tried2[TriedBucketOf[info2[j].addr]]) :
                   tried2[TriedBucketOf[info2[j].addr]][p] = j
  <2>1. CASE j = id
    <3>1. TriedBucketOf[info2[j].addr] = kb
      BY <1>1, <2>1
    <3>2. n + 1 \in 1 .. Len(tried2[kb])
      BY <1>7
    <3> QED BY <1>7, <2>1, <3>1, <3>2
  <2>2. CASE j # id
    <3>1. j \in TriedOf(info) /\ j \in LiveOf(info) /\ info2[j].addr = info[j].addr
      BY <1>2, <2>2
    <3>2. TriedBucketOf[info[j].addr] \in TriedBucket
      BY <3>1, EntryType
    <3>3. /\ info[j].nLastSuccess # 0
          /\ \E p \in 1 .. Len(tried[TriedBucketOf[info[j].addr]]) :
               tried[TriedBucketOf[info[j].addr]][p] = j
      BY <3>1 DEF TriedOK
    <3> QED BY <1>9, <3>1, <3>2, <3>3
  <2> QED BY <2>1, <2>2
<1>12. ASSUME NEW b \in TriedBucket, NEW p \in 1 .. Len(tried2[b])
       PROVE  /\ tried2[b][p] \in TriedOf(info2)
              /\ TriedBucketOf[info2[tried2[b][p]].addr] = b
              /\ \A q \in 1 .. Len(tried2[b]) : tried2[b][p] = tried2[b][q] => p = q
  <2>1. \A q \in 1 .. Len(tried[b]) : /\ tried[b][q] \in TriedOf(info)
                                      /\ tried[b][q] # id
                                      /\ TriedBucketOf[info[tried[b][q]].addr] = b
    BY <1>1 DEF TriedOK
  <2>2. CASE b = kb /\ p = n + 1
    <3>1. tried2[b][p] = id
      BY <1>7, <2>2
    <3>2. ASSUME NEW q \in 1 .. Len(tried2[b]), tried2[b][p] = tried2[b][q] PROVE p = q
      <4>1. q \notin 1 .. Len(tried[b])
        BY <1>9, <2>1, <3>1, <3>2
      <4> QED BY <1>10, <2>2, <4>1
    <3> QED BY <1>1, <2>2, <3>1, <3>2
  <2>3. CASE p \in 1 .. Len(tried[b])
    <3>1. tried2[b][p] = tried[b][p] /\ tried[b][p] \in TriedOf(info) /\ tried[b][p] \in LiveOf(info)
      BY <1>2, <1>9, <2>1, <2>3
    <3>2. ASSUME NEW q \in 1 .. Len(tried2[b]), tried2[b][p] = tried2[b][q] PROVE p = q
      <4>1. CASE q \in 1 .. Len(tried[b])
        <5>1. tried[b][p] = tried[b][q]
          BY <1>9, <3>1, <3>2, <4>1
        <5> QED BY <2>3, <4>1, <5>1 DEF TriedOK
      <4>2. CASE b = kb /\ q = n + 1
        BY <1>7, <2>1, <2>3, <3>1, <3>2, <4>2
      <4> QED BY <1>10, <4>1, <4>2
    <3> QED BY <2>1, <2>3, <3>1, <3>2
  <2> QED BY <1>10, <2>2, <2>3
<1> QED BY <1>6, <1>11, <1>12 DEF TriedOK, tried2

\* Good_ of a new entry: it leaves all new buckets and goes to its tried
\* bucket, or SelectTried begins.
LEMMA GoodKeeps ==
  ASSUME Inv, NEW s \in Service, NEW t \in Time, NEW origin \in NewBucket, Good(s, t, origin)
  PROVE  Inv' /\ TriedStay
<1> DEFINE id == mapAddr[Ip[s]]
           kb == TriedBucketOf[s]
           seen == [mapInfo EXCEPT ![id].nLastSuccess = t, ![id].nRefCount = 0]
<1>1. /\ evicting = None /\ id # None /\ mapInfo[id].addr = s /\ id \in vvNew[origin]
      /\ vvNew' = Leave(id, origin) /\ nNew' = nNew - 1
      /\ nIdCount' = nIdCount /\ mapAddr' = mapAddr /\ vRandom' = vRandom
  BY DEF Good
<1>2. /\ IdsOK(mapInfo, nIdCount) /\ InfoOK(mapInfo) /\ RandomOK(mapInfo, vRandom)
      /\ AddrOK(mapInfo, mapAddr) /\ RefsOK(mapInfo, vvNew, {}) /\ TriedOK(mapInfo, vvTried)
      /\ CountsOK(mapInfo, nNew, nTried, {}) /\ SizesOK(vvNew, vvTried)
  BY <1>1, InvIdle DEF TablesOK
<1>3. id \in NewOf(mapInfo) /\ id \in LiveOf(mapInfo) /\ id \in Id /\ id \notin TriedOf(mapInfo)
  BY <1>1, <1>2 DEF RefsOK, NewOf, LiveOf, TriedOf
<1>4. mapInfo[id] \in Info /\ t # 0 /\ t \in Time \cup {0} /\ kb \in TriedBucket
  BY <1>2, <1>3, EntryType, AddrManAssumption
<1>5. /\ vvNew' \in [NewBucket -> SUBSET Id]
      /\ \A b \in NewBucket : /\ vvNew'[b] \subseteq NewOf(mapInfo) \ {id}
                              /\ Cardinality(vvNew'[b]) <= NewBucketSize
      /\ \A j : j # id => BucketsOf(vvNew', j) = BucketsOf(vvNew, j)
      /\ Cardinality(vvNew'[origin]) < NewBucketSize
  <2> HIDE DEF id
  <2> QED BY <1>1, <1>2, <1>3, LeaveKeeps
<1>6. Cardinality(NewOf(mapInfo) \ {id}) = nNew - 1
  <2>1. IsFiniteSet(NewOf(mapInfo)) /\ NewOf(mapInfo) \ {} = NewOf(mapInfo)
    BY IdFinite DEF NewOf, LiveOf
  <2> QED BY <1>2, <1>3, <2>1, FS_RemoveElement DEF CountsOK
<1>7. TriedStay
  BY <1>1, AddrManAssumption DEF TriedStay, Tried, Live
<1>8. TriedOf(mapInfo) \subseteq LiveOf(mapInfo) /\ NewOf(mapInfo) \subseteq LiveOf(mapInfo)
  BY DEF TriedOf, NewOf
<1>9. CASE /\ Len(vvTried[kb]) < TriedBucketSize
           /\ vvTried' = [vvTried EXCEPT ![kb] = Append(@, id)]
           /\ nTried' = nTried + 1
           /\ mapInfo' = [seen EXCEPT ![id].fInTried = TRUE]
           /\ evicting' = evicting
  <2> DEFINE e == [mapInfo[id] EXCEPT !.nLastSuccess = t, !.nRefCount = 0, !.fInTried = TRUE]
  <2>1. mapInfo' = Rewrite(mapInfo, id, e)
    BY <1>2, <1>3, <1>4, <1>9 DEF Rewrite, InfoOK, Info
  <2>2. /\ e \in Info /\ e.addr = mapInfo[id].addr /\ e.nRandomPos = mapInfo[id].nRandomPos
        /\ e.fInTried = TRUE /\ e.nRefCount = 0 /\ e.nLastSuccess = t
    BY <1>4 DEF Info
  <2> HIDE DEF e, id, seen, kb
  <2>3. /\ InfoOK(mapInfo') /\ LiveOf(mapInfo') = LiveOf(mapInfo)
        /\ mapInfo'[id] = e /\ \A j \in Id \ {id} : mapInfo'[j] = mapInfo[j]
        /\ \A j \in LiveOf(mapInfo) : mapInfo'[j].addr = mapInfo[j].addr
        /\ RandomOK(mapInfo', vRandom) /\ AddrOK(mapInfo', mapAddr) /\ IdsOK(mapInfo', nIdCount)
    BY ONLY <1>2, <1>3, <2>1, <2>2, Rewritten
  <2>4. /\ NewOf(mapInfo') = NewOf(mapInfo) \ {id}
        /\ TriedOf(mapInfo') = TriedOf(mapInfo) \cup {id}
    BY <1>3, <2>2, <2>3 DEF NewOf, TriedOf, LiveOf
  <2>5. RefsOK(mapInfo', vvNew', {})
    <3>1. ASSUME NEW j \in NewOf(mapInfo')
          PROVE  /\ mapInfo'[j].nRefCount = Cardinality(BucketsOf(vvNew', j))
                 /\ mapInfo'[j].nRefCount \in 1 .. BucketsPerAddress
      <4>1. j \in NewOf(mapInfo) \ {} /\ j # id /\ mapInfo'[j] = mapInfo[j]
        BY <2>3, <2>4 DEF NewOf, LiveOf
      <4>2. BucketsOf(vvNew', j) = BucketsOf(vvNew, j)
        BY <1>5, <4>1
      <4> QED BY <1>2, <4>1, <4>2 DEF RefsOK
    <3>2. ASSUME NEW j \in TriedOf(mapInfo') PROVE mapInfo'[j].nRefCount = 0
      <4>1. CASE j = id
        BY <2>2, <2>3, <4>1
      <4>2. CASE j # id
        BY <1>2, <2>3, <2>4, <4>2 DEF RefsOK, TriedOf, LiveOf
      <4> QED BY <4>1, <4>2
    <3> QED BY <1>5, <2>4, <3>1, <3>2 DEF RefsOK
  <2>6. TriedOK(mapInfo', vvTried')
    <3>1. \A j \in TriedOf(mapInfo) : mapInfo'[j].nLastSuccess = mapInfo[j].nLastSuccess
      BY <1>3, <2>3 DEF TriedOf, LiveOf
    <3>2. mapInfo'[id].nLastSuccess # 0
      BY <1>4, <2>2, <2>3
    <3>3. kb = TriedBucketOf[mapInfo[id].addr]
      BY <1>1 DEF kb
    <3> QED BY ONLY <1>2, <1>3, <1>9, <2>3, <2>4, <3>1, <3>2, <3>3, TriedAppended
  <2>7. CountsOK(mapInfo', nNew', nTried', {})
    <3>1. IsFiniteSet(TriedOf(mapInfo))
      BY IdFinite DEF TriedOf, LiveOf
    <3>2. Cardinality(TriedOf(mapInfo) \cup {id}) = nTried + 1
      BY <1>2, <1>3, <3>1, FS_AddElement DEF CountsOK
    <3>3. NewOf(mapInfo') \ {} = NewOf(mapInfo) \ {id}
      BY <2>4
    <3> QED BY <1>1, <1>6, <1>9, <2>4, <3>2, <3>3 DEF CountsOK
  <2>8. SizesOK(vvNew', vvTried')
    <3>1. vvTried \in [TriedBucket -> Seq(Id)]
      BY <1>2 DEF TriedOK
    <3>2. \A b \in TriedBucket : b # kb => vvTried'[b] = vvTried[b]
      BY <1>9, <3>1
    <3>3. vvTried'[kb] = Append(vvTried[kb], id) /\ vvTried[kb] \in Seq(Id)
      BY <1>4, <1>9, <3>1
    <3>4. Len(vvTried'[kb]) <= TriedBucketSize
      <4>1. Len(vvTried'[kb]) = Len(vvTried[kb]) + 1 /\ Len(vvTried[kb]) \in Nat
        BY <1>3, <3>3
      <4>2. Len(vvTried[kb]) < TriedBucketSize
        BY <1>9
      <4> QED BY ONLY <4>1, <4>2, SizesType
    <3> QED BY <1>2, <1>5, <3>2, <3>4 DEF SizesOK
  <2> QED BY <1>1, <1>7, <1>9, <2>3, <2>5, <2>6, <2>7, <2>8, InvIdleNext DEF TablesOK
<1>10. CASE /\ Len(vvTried[kb]) >= TriedBucketSize
            /\ mapInfo' = seen
            /\ evicting' = [id |-> id, origin |-> origin, i |-> 1,
                            nOldest |-> None, nOldestPos |-> 0]
            /\ vvTried' = vvTried /\ nTried' = nTried
  <2> DEFINE e == [mapInfo[id] EXCEPT !.nLastSuccess = t, !.nRefCount = 0]
  <2>1. mapInfo' = Rewrite(mapInfo, id, e)
    BY <1>2, <1>3, <1>4, <1>10 DEF Rewrite, InfoOK, Info
  <2>2. /\ e \in Info /\ e.addr = mapInfo[id].addr /\ e.nRandomPos = mapInfo[id].nRandomPos
        /\ e.fInTried = mapInfo[id].fInTried /\ e.nRefCount = 0 /\ e.nLastSuccess = t
    BY <1>4 DEF Info
  <2> HIDE DEF e, id, seen, kb
  <2>3. /\ InfoOK(mapInfo') /\ LiveOf(mapInfo') = LiveOf(mapInfo)
        /\ mapInfo'[id] = e /\ \A j \in Id \ {id} : mapInfo'[j] = mapInfo[j]
        /\ \A j \in LiveOf(mapInfo) : mapInfo'[j].addr = mapInfo[j].addr
        /\ RandomOK(mapInfo', vRandom) /\ AddrOK(mapInfo', mapAddr) /\ IdsOK(mapInfo', nIdCount)
    BY ONLY <1>2, <1>3, <2>1, <2>2, Rewritten
  <2>4. \A j \in LiveOf(mapInfo) : mapInfo'[j].fInTried = mapInfo[j].fInTried
    BY <2>2, <2>3 DEF LiveOf
  <2>5. NewOf(mapInfo') = NewOf(mapInfo) /\ TriedOf(mapInfo') = TriedOf(mapInfo)
    BY <2>3, <2>4 DEF NewOf, TriedOf
  <2>6. evicting' # None /\ evicting' \in Eviction /\ evicting'.id = id /\ evicting'.origin = origin
        /\ evicting'.i = 1 /\ evicting'.nOldest = None /\ evicting'.nOldestPos = 0
    <3>1. evicting' \in Eviction
      <4>1. 1 \in 1 .. TriedBucketSize + 1 /\ 0 \in 0 .. TriedBucketSize
        BY SizesType
      <4> QED BY <1>3, <1>10, <4>1 DEF Eviction
    <3>2. evicting' # None
      BY <3>1, NoneAssumption
    <3> QED BY <1>10, <3>1, <3>2
  <2>7. Moving' = {id}
    BY <2>6 DEF Moving
  <2>8. RefsOK(mapInfo', vvNew', {id})
    <3>1. ASSUME NEW j \in NewOf(mapInfo') \ {id}
          PROVE  /\ mapInfo'[j].nRefCount = Cardinality(BucketsOf(vvNew', j))
                 /\ mapInfo'[j].nRefCount \in 1 .. BucketsPerAddress
      <4>1. j \in NewOf(mapInfo) \ {} /\ j # id /\ mapInfo'[j] = mapInfo[j]
        BY <2>3, <2>5 DEF NewOf, LiveOf
      <4>2. BucketsOf(vvNew', j) = BucketsOf(vvNew, j)
        BY <1>5, <4>1
      <4> QED BY <1>2, <4>1, <4>2 DEF RefsOK
    <3>2. ASSUME NEW j \in TriedOf(mapInfo') \cup {id} PROVE mapInfo'[j].nRefCount = 0
      <4>1. CASE j = id
        BY <2>2, <2>3, <4>1
      <4>2. CASE j # id
        BY <1>2, <2>3, <2>5, <4>2 DEF RefsOK, TriedOf, LiveOf
      <4> QED BY <4>1, <4>2
    <3> QED BY <1>5, <2>5, <3>1, <3>2 DEF RefsOK
  <2>9. TriedOK(mapInfo', vvTried')
    <3>1. \A j \in TriedOf(mapInfo) : mapInfo'[j] = mapInfo[j]
      BY <1>3, <2>3 DEF TriedOf, LiveOf
    <3> QED BY <1>2, <1>10, <2>5, <3>1 DEF TriedOK
  <2>10. CountsOK(mapInfo', nNew', nTried', {id})
    BY <1>1, <1>2, <1>6, <1>10, <2>5 DEF CountsOK
  <2>11. SizesOK(vvNew', vvTried')
    BY <1>2, <1>5, <1>10 DEF SizesOK
  <2>12. EvictionOK'
    <3>1. evicting'.id \in New' /\ mapInfo'[evicting'.id].nLastSuccess # 0
      <4>1. id \in NewOf(mapInfo')
        BY <1>3, <2>5
      <4> QED BY <1>4, <2>2, <2>3, <2>6, <4>1 DEF NewOf, LiveOf, New, Live
    <3>2. EvictBucket' = kb
      BY <1>1, <1>3, <2>3, <2>6 DEF EvictBucket, kb
    <3>3. Len(vvTried'[kb]) >= TriedBucketSize
      BY <1>10
    <3> QED BY <1>5, <2>6, <3>1, <3>2, <3>3 DEF EvictionOK
  <2>13. Inv'
    BY <1>1, <2>3, <2>6, <2>7, <2>8, <2>9, <2>10, <2>11, <2>12, InvAsTablesNext DEF TablesOK
  <2> QED BY <1>7, <2>13
<1> QED BY <1>9, <1>10 DEF Good

-----------------------------------------------------------------------------
(* SelectTried and the rest of MakeTried. *)

\* Where the entry at place r is after places p and q are swapped.
Swapped(p, q, r) == IF r = q THEN p ELSE IF r = p THEN q ELSE r

\* A swap of two places permutes the sequence.
LEMMA SwapKeeps ==
  ASSUME NEW seq \in Seq(Id), NEW p \in 1 .. Len(seq), NEW q \in 1 .. Len(seq)
  PROVE  /\ SwapAt(seq, p, q) \in Seq(Id)
         /\ Len(SwapAt(seq, p, q)) = Len(seq)
         /\ \A r \in 1 .. Len(seq) : /\ Swapped(p, q, r) \in 1 .. Len(seq)
                                     /\ SwapAt(seq, p, q)[r] = seq[Swapped(p, q, r)]
                                     /\ Swapped(p, q, Swapped(p, q, r)) = r
<1>1. seq[p] \in Id /\ seq[q] \in Id
  OBVIOUS
<1>2. SwapAt(seq, p, q) \in Seq(Id) /\ Len(SwapAt(seq, p, q)) = Len(seq)
  BY <1>1 DEF SwapAt
<1>3. ASSUME NEW r \in 1 .. Len(seq) PROVE SwapAt(seq, p, q)[r] = seq[Swapped(p, q, r)]
  BY DEF SwapAt, Swapped
<1> QED BY <1>2, <1>3 DEF Swapped

\* A tried bucket has no entry twice.
LEMMA TriedDistinct ==
  ASSUME NEW info, NEW tried, TriedOK(info, tried), NEW b \in TriedBucket,
         NEW p \in 1 .. Len(tried[b]), NEW q \in 1 .. Len(tried[b]), tried[b][p] = tried[b][q]
  PROVE  p = q
BY DEF TriedOK

\* A bucket of the tried table is permuted.
SwapIn(tried, kb, p, q) == [tried EXCEPT ![kb] = SwapAt(tried[kb], p, q)]

\* A swap inside a tried bucket keeps the tried table exact.
LEMMA TriedSwapped ==
  ASSUME NEW info, NEW tried, InfoOK(info), TriedOK(info, tried), NEW kb \in TriedBucket,
         NEW p \in 1 .. Len(tried[kb]), NEW q \in 1 .. Len(tried[kb])
  PROVE  /\ TriedOK(info, SwapIn(tried, kb, p, q))
         /\ \A b \in TriedBucket : Len(SwapIn(tried, kb, p, q)[b]) = Len(tried[b])
<1> DEFINE tried2 == SwapIn(tried, kb, p, q)
<1>1. tried \in [TriedBucket -> Seq(Id)]
  BY DEF TriedOK
<1>2. tried[kb] \in Seq(Id)
  BY <1>1
<1>3. /\ SwapAt(tried[kb], p, q) \in Seq(Id)
      /\ Len(SwapAt(tried[kb], p, q)) = Len(tried[kb])
      /\ \A r \in 1 .. Len(tried[kb]) :
           /\ Swapped(p, q, r) \in 1 .. Len(tried[kb])
           /\ SwapAt(tried[kb], p, q)[r] = tried[kb][Swapped(p, q, r)]
           /\ Swapped(p, q, Swapped(p, q, r)) = r
  BY <1>2, SwapKeeps
<1>4. tried2 \in [TriedBucket -> Seq(Id)] /\ tried2[kb] = SwapAt(tried[kb], p, q)
      /\ \A b \in TriedBucket : b # kb => tried2[b] = tried[b]
  BY <1>1, <1>3 DEF SwapIn
<1> HIDE DEF tried2
<1>5. \A b \in TriedBucket : Len(tried2[b]) = Len(tried[b])
  BY <1>3, <1>4
<1>6. ASSUME NEW j \in TriedOf(info)
      PROVE  \E r \in 1 .. Len(tried2[TriedBucketOf[info[j].addr]]) :
               tried2[TriedBucketOf[info[j].addr]][r] = j
  <2> DEFINE b == TriedBucketOf[info[j].addr]
  <2>1. b \in TriedBucket
    BY EntryType DEF TriedOf
  <2>2. PICK r \in 1 .. Len(tried[b]) : tried[b][r] = j
    BY DEF TriedOK
  <2> HIDE DEF b
  <2>3. CASE b = kb
    <3>1. Swapped(p, q, r) \in 1 .. Len(tried2[b])
      BY <1>3, <1>5, <2>1, <2>2, <2>3
    <3>2. tried2[b][Swapped(p, q, r)] = j
      BY <1>3, <1>4, <2>2, <2>3
    <3> QED BY <3>1, <3>2 DEF b
  <2>4. CASE b # kb
    BY <1>4, <2>1, <2>2, <2>4 DEF b
  <2> QED BY <2>3, <2>4
<1>7. ASSUME NEW b \in TriedBucket, NEW r \in 1 .. Len(tried2[b])
      PROVE  /\ tried2[b][r] \in TriedOf(info)
             /\ TriedBucketOf[info[tried2[b][r]].addr] = b
             /\ \A u \in 1 .. Len(tried2[b]) : tried2[b][r] = tried2[b][u] => r = u
  <2>1. CASE b = kb
    <3>1. r \in 1 .. Len(tried[kb]) /\ Swapped(p, q, r) \in 1 .. Len(tried[kb])
          /\ tried2[b][r] = tried[kb][Swapped(p, q, r)]
      BY <1>3, <1>4, <1>5, <2>1
    <3>2. ASSUME NEW u \in 1 .. Len(tried2[b]), tried2[b][r] = tried2[b][u] PROVE r = u
      <4>1. u \in 1 .. Len(tried[kb]) /\ Swapped(p, q, u) \in 1 .. Len(tried[kb])
            /\ tried2[b][u] = tried[kb][Swapped(p, q, u)]
        BY <1>3, <1>4, <1>5, <2>1
      <4>2. Swapped(p, q, r) = Swapped(p, q, u)
        BY ONLY <3>1, <3>2, <4>1, TriedDistinct, TriedOK(info, tried), kb \in TriedBucket
      <4> QED BY <1>3, <3>1, <4>1, <4>2
    <3>3. tried[kb][Swapped(p, q, r)] \in TriedOf(info)
          /\ TriedBucketOf[info[tried[kb][Swapped(p, q, r)]].addr] = kb
      BY <3>1 DEF TriedOK
    <3> QED BY <2>1, <3>1, <3>2, <3>3
  <2>2. CASE b # kb
    <3>1. tried2[b] = tried[b]
      BY <1>4, <2>2
    <3> QED BY <3>1 DEF TriedOK
  <2> QED BY <2>1, <2>2
<1>8. \A j \in TriedOf(info) : info[j].nLastSuccess # 0
  BY DEF TriedOK
<1>9. TriedOK(info, tried2)
  BY <1>4, <1>6, <1>7, <1>8 DEF TriedOK
<1> QED BY <1>5, <1>9 DEF tried2

\* What is known while SelectTried works.
LEMMA InvEvicting ==
  ASSUME Inv, evicting # None
  PROVE  /\ TablesOK(nIdCount, mapInfo, mapAddr, vRandom, nTried, vvTried, nNew, vvNew,
                     {evicting.id})
         /\ evicting \in Eviction /\ Moving = {evicting.id}
         /\ evicting.id \in NewOf(mapInfo) /\ mapInfo[evicting.id].nLastSuccess # 0
         /\ EvictBucket \in TriedBucket
         /\ Len(vvTried[EvictBucket]) \in Nat
         /\ Len(vvTried[EvictBucket]) >= TriedBucketSize
         /\ Len(vvTried[EvictBucket]) <= TriedBucketSize
         /\ evicting.i = 1 => evicting.nOldest = None
         /\ evicting.i > 1 => /\ evicting.nOldestPos \in 1 .. Len(vvTried[EvictBucket])
                              /\ evicting.nOldest \in Id
         /\ Cardinality(vvNew[evicting.origin]) < NewBucketSize
         /\ evicting.origin \in NewBucket /\ evicting.i \in 1 .. TriedBucketSize + 1
<1>1. /\ TablesOK(nIdCount, mapInfo, mapAddr, vRandom, nTried, vvTried, nNew, vvNew, {evicting.id})
      /\ evicting \in Eviction /\ Moving = {evicting.id} /\ EvictionOK
  BY InvAsTables DEF Moving
<1>2. evicting.id \in NewOf(mapInfo)
  BY <1>1 DEF EvictionOK, New, NewOf, Live, LiveOf
<1>3. EvictBucket \in TriedBucket
  BY <1>1, <1>2, EntryType DEF EvictBucket, NewOf, TablesOK
<1>4. Len(vvTried[EvictBucket]) <= TriedBucketSize /\ Len(vvTried[EvictBucket]) \in Nat
  BY <1>1, <1>3 DEF TablesOK, SizesOK, TriedOK
<1>5. evicting.origin \in NewBucket /\ evicting.i \in 1 .. TriedBucketSize + 1
  BY <1>1 DEF Eviction
<1> QED BY <1>1, <1>2, <1>3, <1>4, <1>5 DEF EvictionOK

\* A turn of SelectTried.
LEMMA SelectTriedKeeps ==
  ASSUME Inv, NEW nPos \in 1 .. TriedBucketSize, SelectTried(nPos)
  PROVE  Inv' /\ TriedStay
<1> DEFINE i == evicting.i
           kb == EvictBucket
           vTried == vvTried[kb]
           nTemp == vTried[nPos]
<1>1. /\ evicting # None /\ i <= Inspect /\ i <= Len(vTried) /\ nPos \in i .. Len(vTried)
      /\ vvTried' = [vvTried EXCEPT ![kb] = SwapAt(vTried, nPos, i)]
      /\ nIdCount' = nIdCount /\ mapInfo' = mapInfo /\ mapAddr' = mapAddr /\ vRandom' = vRandom
      /\ nTried' = nTried /\ nNew' = nNew /\ vvNew' = vvNew
  BY DEF SelectTried, Inspecting
<1>2. evicting' =
        IF \/ evicting.nOldest = None
           \/ mapInfo[nTemp].nLastSuccess < mapInfo[evicting.nOldest].nLastSuccess
        THEN [evicting EXCEPT !.i = i + 1, !.nOldest = nTemp, !.nOldestPos = nPos]
        ELSE [evicting EXCEPT !.i = i + 1]
  BY DEF SelectTried
<1>3. /\ TablesOK(nIdCount, mapInfo, mapAddr, vRandom, nTried, vvTried, nNew, vvNew,
                  {evicting.id})
      /\ evicting \in Eviction /\ Moving = {evicting.id}
      /\ evicting.id \in NewOf(mapInfo) /\ mapInfo[evicting.id].nLastSuccess # 0
      /\ kb \in TriedBucket
      /\ Len(vTried) \in Nat /\ Len(vTried) >= TriedBucketSize /\ Len(vTried) <= TriedBucketSize
      /\ i = 1 => evicting.nOldest = None
      /\ i > 1 => evicting.nOldestPos \in 1 .. Len(vTried) /\ evicting.nOldest \in Id
      /\ Cardinality(vvNew[evicting.origin]) < NewBucketSize
      /\ evicting.origin \in NewBucket /\ i \in 1 .. TriedBucketSize + 1
  BY <1>1, InvEvicting
<1> HIDE DEF i, kb
<1>4. i \in 1 .. Len(vTried) /\ nPos \in 1 .. Len(vTried)
  BY <1>1, <1>3, SizesType
<1>5. nTemp \in Id
  BY <1>3, <1>4 DEF TablesOK, TriedOK
<1>6. TriedOK(mapInfo, vvTried') /\ \A b \in TriedBucket : Len(vvTried'[b]) = Len(vvTried[b])
  <2>1. vvTried' = SwapIn(vvTried, kb, nPos, i)
    BY <1>1 DEF SwapIn
  <2>2. InfoOK(mapInfo) /\ TriedOK(mapInfo, vvTried) /\ kb \in TriedBucket
    BY <1>3 DEF TablesOK
  <2> QED BY ONLY <1>4, <2>1, <2>2, TriedSwapped
<1>7. SizesOK(vvNew, vvTried')
  BY <1>3, <1>6 DEF TablesOK, SizesOK
<1>8. i + 1 \in 1 .. TriedBucketSize + 1 /\ i + 1 > 1 /\ i + 1 # 1 /\ nPos \in 0 .. TriedBucketSize
  <2>1. i \in 1 .. Len(vTried) /\ nPos \in 1 .. Len(vTried) /\ Len(vTried) \in Nat
        /\ Len(vTried) <= TriedBucketSize
    BY <1>3, <1>4
  <2> HIDE DEF vTried
  <2> QED BY ONLY <2>1, SizesType
<1>9. ASSUME NEW ev, \/ ev = [evicting EXCEPT !.i = i + 1, !.nOldest = nTemp, !.nOldestPos = nPos]
                     \/ ev = [evicting EXCEPT !.i = i + 1]
      PROVE  ev \in Eviction /\ ev.id = evicting.id /\ ev.origin = evicting.origin /\ ev.i = i + 1
  BY <1>3, <1>5, <1>8, <1>9 DEF Eviction
<1>10. /\ evicting' \in Eviction /\ evicting'.id = evicting.id
       /\ evicting'.origin = evicting.origin /\ evicting'.i = i + 1
  BY <1>2, <1>9
<1>11. evicting' # None
  BY <1>10, NoneAssumption
<1>12. evicting'.nOldestPos \in 1 .. Len(vTried) /\ evicting'.nOldest \in Id
  <2>1. CASE evicting' = [evicting EXCEPT !.i = i + 1, !.nOldest = nTemp, !.nOldestPos = nPos]
    <3>1. evicting'.nOldestPos = nPos /\ evicting'.nOldest = nTemp
      BY <1>3, <2>1 DEF Eviction
    <3> QED BY <1>4, <1>5, <3>1
  <2>2. CASE evicting.nOldest # None /\ evicting' = [evicting EXCEPT !.i = i + 1]
    <3>1. evicting'.nOldestPos = evicting.nOldestPos /\ evicting'.nOldest = evicting.nOldest
      BY <1>3, <2>2 DEF Eviction
    <3>2. i > 1
      <4>1. i # 1 /\ i \in 1 .. TriedBucketSize + 1
        BY <1>3, <2>2
      <4> QED BY ONLY <4>1, SizesType
    <3> QED BY <1>3, <3>1, <3>2
  <2> QED BY <1>2, <2>1, <2>2
<1>13. Moving' = {evicting.id}
  BY <1>10, <1>11 DEF Moving
<1>14. EvictBucket' = kb
  BY <1>1, <1>10 DEF EvictBucket, kb
<1>15. EvictionOK'
  <2>1. evicting'.id \in New' /\ mapInfo'[evicting'.id].nLastSuccess # 0
    BY <1>1, <1>3, <1>10 DEF New, NewOf, Live, LiveOf
  <2>2. Len(vvTried'[EvictBucket']) = Len(vTried)
    BY <1>3, <1>6, <1>14
  <2>3. evicting'.i # 1
    BY <1>8, <1>10
  <2>4. Cardinality(vvNew'[evicting'.origin]) < NewBucketSize
    BY <1>1, <1>3, <1>10
  <2> QED BY <1>3, <1>12, <2>1, <2>2, <2>3, <2>4 DEF EvictionOK
<1>16. TablesOK(nIdCount', mapInfo', mapAddr', vRandom', nTried', vvTried', nNew', vvNew', Moving')
  BY <1>1, <1>3, <1>6, <1>7, <1>13 DEF TablesOK
<1>17. Inv'
  BY <1>10, <1>15, <1>16, InvAsTablesNext
<1>18. TriedStay
  BY <1>1, AddrManAssumption DEF TriedStay, Tried, Live
<1> QED BY <1>17, <1>18

\* An entry of the tried table gives its place to another one.
ReplaceIn(tried, kb, pos, id) == [tried EXCEPT ![kb][pos] = id]

\* An entry takes the place of another in a tried bucket.
LEMMA TriedReplaced ==
  ASSUME NEW info, NEW info2, NEW tried, InfoOK(info), TriedOK(info, tried),
         NEW kb \in TriedBucket, NEW pos \in 1 .. Len(tried[kb]), NEW id \in NewOf(info),
         TriedBucketOf[info[id].addr] = kb,
         TriedOf(info2) = (TriedOf(info) \ {tried[kb][pos]}) \cup {id},
         \A j \in LiveOf(info) : /\ info2[j].addr = info[j].addr
                                 /\ info2[j].nLastSuccess = info[j].nLastSuccess,
         info[id].nLastSuccess # 0
  PROVE  /\ TriedOK(info2, ReplaceIn(tried, kb, pos, id))
         /\ \A b \in TriedBucket : Len(ReplaceIn(tried, kb, pos, id)[b]) = Len(tried[b])
<1> DEFINE tried2 == ReplaceIn(tried, kb, pos, id)
           old == tried[kb][pos]
<1>1. id \in Id /\ id \in LiveOf(info) /\ id \notin TriedOf(info)
  BY DEF NewOf, LiveOf, TriedOf
<1>2. tried \in [TriedBucket -> Seq(Id)] /\ tried[kb] \in Seq(Id)
  BY DEF TriedOK
<1>3. TriedOf(info) \subseteq LiveOf(info)
  BY DEF TriedOf
<1>4. \A b \in TriedBucket : \A r \in 1 .. Len(tried[b]) :
        /\ tried[b][r] \in TriedOf(info)
        /\ TriedBucketOf[info[tried[b][r]].addr] = b
  BY DEF TriedOK
<1>5. [tried[kb] EXCEPT ![pos] = id] \in Seq(Id) /\ Len([tried[kb] EXCEPT ![pos] = id]) = Len(tried[kb])
      /\ \A r \in 1 .. Len(tried[kb]) :
           [tried[kb] EXCEPT ![pos] = id][r] = IF r = pos THEN id ELSE tried[kb][r]
  BY <1>1, <1>2
<1>6. tried2 \in [TriedBucket -> Seq(Id)] /\ tried2[kb] = [tried[kb] EXCEPT ![pos] = id]
      /\ \A b \in TriedBucket : b # kb => tried2[b] = tried[b]
  BY <1>2, <1>5 DEF ReplaceIn
<1> HIDE DEF tried2
<1>7. \A b \in TriedBucket : Len(tried2[b]) = Len(tried[b])
  BY <1>5, <1>6
<1>8. tried2[kb][pos] = id /\ \A r \in 1 .. Len(tried[kb]) : r # pos => tried2[kb][r] = tried[kb][r]
  BY <1>5, <1>6
<1>9. ASSUME NEW j \in TriedOf(info2)
      PROVE  /\ info2[j].nLastSuccess # 0
             /\ \E r \in 1 .. Len(tried2[TriedBucketOf[info2[j].addr]]) :
                  tried2[TriedBucketOf[info2[j].addr]][r] = j
  <2>1. CASE j = id
    <3>1. TriedBucketOf[info2[j].addr] = kb /\ info2[j].nLastSuccess # 0
      BY <1>1, <2>1
    <3>2. pos \in 1 .. Len(tried2[kb])
      BY <1>7
    <3> QED BY <1>8, <2>1, <3>1, <3>2
  <2>2. CASE j # id
    <3>1. /\ j \in TriedOf(info) /\ j # old /\ j \in LiveOf(info)
          /\ info2[j].addr = info[j].addr /\ info2[j].nLastSuccess = info[j].nLastSuccess
      BY <1>3, <2>2
    <3> DEFINE b == TriedBucketOf[info[j].addr]
    <3>2. b \in TriedBucket
      BY <3>1, EntryType
    <3>3. info[j].nLastSuccess # 0 /\ \E r \in 1 .. Len(tried[b]) : tried[b][r] = j
      BY <3>1 DEF TriedOK
    <3> HIDE DEF b
    <3>4. PICK r \in 1 .. Len(tried[b]) : tried[b][r] = j
      BY <3>3
    <3>5. r \in 1 .. Len(tried2[b]) /\ tried2[b][r] = j
      BY <1>6, <1>7, <1>8, <3>1, <3>2, <3>4
    <3> QED BY <3>1, <3>3, <3>5 DEF b
  <2> QED BY <2>1, <2>2
<1>10. ASSUME NEW b \in TriedBucket, NEW r \in 1 .. Len(tried2[b])
       PROVE  /\ tried2[b][r] \in TriedOf(info2)
              /\ TriedBucketOf[info2[tried2[b][r]].addr] = b
              /\ \A u \in 1 .. Len(tried2[b]) : tried2[b][r] = tried2[b][u] => r = u
  <2>1. ASSUME NEW u \in 1 .. Len(tried2[b])
        PROVE  \/ b = kb /\ u = pos /\ tried2[b][u] = id
               \/ /\ ~(b = kb /\ u = pos) /\ u \in 1 .. Len(tried[b])
                  /\ tried2[b][u] = tried[b][u] /\ tried[b][u] \in TriedOf(info)
    BY <1>4, <1>6, <1>7, <1>8
  <2>2. CASE b = kb /\ r = pos
    <3>1. tried2[b][r] = id
      BY <1>8, <2>2
    <3>2. ASSUME NEW u \in 1 .. Len(tried2[b]), tried2[b][r] = tried2[b][u] PROVE r = u
      BY <1>1, <2>1, <2>2, <3>1, <3>2
    <3> QED BY <1>1, <2>2, <3>1, <3>2
  <2>3. CASE ~(b = kb /\ r = pos)
    <3>1. r \in 1 .. Len(tried[b]) /\ tried2[b][r] = tried[b][r] /\ tried[b][r] \in TriedOf(info)
      BY <2>1, <2>3
    <3>2. tried[b][r] # old
      <4>1. CASE b = kb
        BY ONLY <2>3, <3>1, <4>1, TriedDistinct, TriedOK(info, tried), kb \in TriedBucket,
                pos \in 1 .. Len(tried[kb])
      <4>2. CASE b # kb
        <5>1. TriedBucketOf[info[tried[b][r]].addr] = b /\ TriedBucketOf[info[old].addr] = kb
          BY <1>4, <3>1
        <5> QED BY <4>2, <5>1
      <4> QED BY <4>1, <4>2
    <3>3. ASSUME NEW u \in 1 .. Len(tried2[b]), tried2[b][r] = tried2[b][u] PROVE r = u
      <4>1. u \in 1 .. Len(tried[b]) /\ tried[b][u] = tried[b][r]
        BY <1>1, <2>1, <3>1, <3>3
      <4> QED BY ONLY <3>1, <4>1, TriedDistinct, TriedOK(info, tried), b \in TriedBucket
    <3>4. TriedBucketOf[info2[tried[b][r]].addr] = b
      BY <1>3, <1>4, <3>1
    <3> QED BY <3>1, <3>2, <3>3, <3>4
  <2> QED BY <2>2, <2>3
<1>11. TriedOK(info2, tried2)
  BY <1>6, <1>9, <1>10 DEF TriedOK
<1> QED BY <1>7, <1>11 DEF tried2

\* The rest of MakeTried: the evicted entry finds room in the new table.
LEMMA EvictKeeps ==
  ASSUME Inv, Evict
  PROVE  Inv' /\ TriedStay
<1> DEFINE id == evicting.id
           kb == EvictBucket
           pos == evicting.nOldestPos
           old == vvTried[kb][pos]
           room == Refuge(old, evicting.origin)
<1>1. /\ evicting # None /\ ~Inspecting
      /\ vvNew' = [vvNew EXCEPT ![room] = @ \cup {old}]
      /\ mapInfo' = [mapInfo EXCEPT ![old].fInTried = FALSE, ![old].nRefCount = 1,
                                    ![id].fInTried = TRUE]
      /\ vvTried' = [vvTried EXCEPT ![kb][pos] = id]
      /\ nNew' = nNew + 1 /\ evicting' = None
      /\ nIdCount' = nIdCount /\ mapAddr' = mapAddr /\ vRandom' = vRandom /\ nTried' = nTried
  BY DEF Evict
<1>2. /\ TablesOK(nIdCount, mapInfo, mapAddr, vRandom, nTried, vvTried, nNew, vvNew, {id})
      /\ id \in NewOf(mapInfo) /\ mapInfo[id].nLastSuccess # 0
      /\ kb \in TriedBucket
      /\ Len(vvTried[kb]) \in Nat /\ Len(vvTried[kb]) >= TriedBucketSize
      /\ evicting.i > 1 => pos \in 1 .. Len(vvTried[kb])
      /\ Cardinality(vvNew[evicting.origin]) < NewBucketSize
      /\ evicting.origin \in NewBucket /\ evicting.i \in 1 .. TriedBucketSize + 1
  BY <1>1, InvEvicting
<1>3. /\ IdsOK(mapInfo, nIdCount) /\ InfoOK(mapInfo) /\ RandomOK(mapInfo, vRandom)
      /\ AddrOK(mapInfo, mapAddr) /\ RefsOK(mapInfo, vvNew, {id}) /\ TriedOK(mapInfo, vvTried)
      /\ CountsOK(mapInfo, nNew, nTried, {id}) /\ SizesOK(vvNew, vvTried)
  BY <1>2 DEF TablesOK
<1>4. pos \in 1 .. Len(vvTried[kb])
  <2>1. ~(evicting.i <= Inspect /\ evicting.i <= Len(vvTried[kb]))
    BY <1>1 DEF Inspecting
  <2>2. evicting.i \in Nat /\ evicting.i >= 1
    BY <1>2, SizesType
  <2>3. evicting.i > 1
    <3> DEFINE i == evicting.i
               n == Len(vvTried[kb])
    <3>1. /\ ~(i <= Inspect /\ i <= n) /\ i \in Nat /\ i >= 1
          /\ n \in Nat /\ n >= TriedBucketSize
      BY <1>2, <2>1, <2>2
    <3> HIDE DEF i, n
    <3>2. i > 1
      BY ONLY <3>1, SizesType
    <3> QED BY <3>2 DEF i
  <2> QED BY <1>2, <2>3
<1> HIDE DEF pos
<1>5. old \in TriedOf(mapInfo) /\ TriedBucketOf[mapInfo[old].addr] = kb
  BY <1>2, <1>3, <1>4 DEF TriedOK
<1> HIDE DEF old
<1>6. /\ old \in LiveOf(mapInfo) /\ id \in LiveOf(mapInfo) /\ old # id /\ old \in Id /\ id \in Id
      /\ old \notin NewOf(mapInfo) /\ id \notin TriedOf(mapInfo)
      /\ ~mapInfo[id].fInTried /\ mapInfo[old].fInTried
  BY <1>2, <1>5 DEF NewOf, TriedOf, LiveOf
<1>7. mapInfo[old] \in Info /\ mapInfo[id] \in Info
  BY <1>3, <1>6, EntryType
<1> DEFINE e1 == [mapInfo[old] EXCEPT !.fInTried = FALSE, !.nRefCount = 1]
           e2 == [mapInfo[id] EXCEPT !.fInTried = TRUE]
           info1 == Rewrite(mapInfo, old, e1)
<1>8. /\ e1 \in Info /\ e1.addr = mapInfo[old].addr /\ e1.nRandomPos = mapInfo[old].nRandomPos
      /\ e1.nLastSuccess = mapInfo[old].nLastSuccess
      /\ e1.fInTried = FALSE /\ e1.nRefCount = 1
  BY <1>7 DEF Info
<1>9. /\ e2 \in Info /\ e2.addr = mapInfo[id].addr /\ e2.nRandomPos = mapInfo[id].nRandomPos
      /\ e2.nLastSuccess = mapInfo[id].nLastSuccess
      /\ e2.fInTried = TRUE /\ e2.nRefCount = mapInfo[id].nRefCount
  BY <1>7 DEF Info
<1>10. mapInfo' = Rewrite(info1, id, e2)
  <2> HIDE DEF id, kb, room
  <2>1. mapInfo \in [Id -> Info \cup {None}]
    BY <1>3 DEF InfoOK
  <2> QED BY <1>1, <1>6, <1>7, <2>1 DEF Rewrite, Info
<1> HIDE DEF e1, e2, id, kb, room
<1>11. /\ InfoOK(info1) /\ LiveOf(info1) = LiveOf(mapInfo)
       /\ info1[old] = e1 /\ \A j \in Id \ {old} : info1[j] = mapInfo[j]
       /\ RandomOK(info1, vRandom) /\ AddrOK(info1, mapAddr) /\ IdsOK(info1, nIdCount)
  BY ONLY <1>3, <1>6, <1>8, Rewritten
<1> HIDE DEF info1
<1>12. /\ InfoOK(mapInfo') /\ LiveOf(mapInfo') = LiveOf(mapInfo)
       /\ mapInfo'[id] = e2 /\ \A j \in Id \ {id} : mapInfo'[j] = info1[j]
       /\ RandomOK(mapInfo', vRandom) /\ AddrOK(mapInfo', mapAddr) /\ IdsOK(mapInfo', nIdCount)
  <2>1. info1[id] = mapInfo[id]
    BY <1>6, <1>11
  <2> QED BY ONLY <1>6, <1>9, <1>10, <1>11, <2>1, Rewritten
<1>13. /\ mapInfo'[id] = e2 /\ mapInfo'[old] = e1
       /\ \A j \in Id : j # id /\ j # old => mapInfo'[j] = mapInfo[j]
  BY <1>6, <1>11, <1>12
<1>14. /\ NewOf(mapInfo') = (NewOf(mapInfo) \ {id}) \cup {old}
       /\ TriedOf(mapInfo') = (TriedOf(mapInfo) \ {old}) \cup {id}
  BY <1>6, <1>8, <1>9, <1>12, <1>13 DEF NewOf, TriedOf, LiveOf
<1>15. /\ vvNew \in [NewBucket -> SUBSET Id]
       /\ \A b \in NewBucket : vvNew[b] \subseteq NewOf(mapInfo) \ {id}
  BY <1>3 DEF RefsOK
<1>16. room \in NewBucket /\ Cardinality(vvNew[room]) < NewBucketSize
  <2>1. NewBucketOf[Ip[mapInfo[old].addr], mapInfo[old].source] \in NewBucket
    BY <1>3, <1>6, EntryType
  <2> QED BY <1>2, <2>1 DEF room, Refuge
<1>17. vvNew' = [b \in NewBucket |-> IF b = room THEN vvNew[b] \cup {old} ELSE vvNew[b]]
  BY <1>1, <1>15, <1>16
<1>18. RefsOK(mapInfo', vvNew', {})
  <2>1. vvNew' \in [NewBucket -> SUBSET Id]
    BY <1>6, <1>15, <1>17
  <2>2. \A b \in NewBucket : vvNew'[b] \subseteq NewOf(mapInfo') \ {}
    BY <1>14, <1>15, <1>17
  <2>3. ASSUME NEW j \in NewOf(mapInfo') \ {}
        PROVE  /\ mapInfo'[j].nRefCount = Cardinality(BucketsOf(vvNew', j))
               /\ mapInfo'[j].nRefCount \in 1 .. BucketsPerAddress
    <3>1. CASE j = old
      <4>1. BucketsOf(vvNew', old) = {room}
        BY <1>6, <1>15, <1>16, <1>17 DEF BucketsOf
      <4>2. Cardinality(BucketsOf(vvNew', old)) = 1
        BY <4>1, FS_Singleton
      <4> QED BY <1>8, <1>13, <3>1, <4>2, SizesType
    <3>2. CASE j # old
      <4>1. j \in NewOf(mapInfo) \ {id} /\ j \in Id /\ mapInfo'[j] = mapInfo[j]
        BY <1>13, <1>14, <3>2 DEF NewOf, LiveOf
      <4>2. BucketsOf(vvNew', j) = BucketsOf(vvNew, j)
        BY <1>17, <3>2 DEF BucketsOf
      <4> QED BY <1>3, <4>1, <4>2 DEF RefsOK
    <3> QED BY <3>1, <3>2
  <2>4. ASSUME NEW j \in TriedOf(mapInfo') PROVE mapInfo'[j].nRefCount = 0
    <3>1. \A k \in TriedOf(mapInfo) \cup {id} : mapInfo[k].nRefCount = 0
      BY <1>3 DEF RefsOK
    <3>2. CASE j = id
      BY <1>9, <1>13, <3>1, <3>2
    <3>3. CASE j # id
      <4>1. j \in TriedOf(mapInfo) /\ j # old /\ j \in Id
        BY <1>14, <3>3 DEF TriedOf, LiveOf
      <4> QED BY <1>13, <3>1, <3>3, <4>1
    <3> QED BY <3>2, <3>3
  <2> QED BY <2>1, <2>2, <2>3, <2>4 DEF RefsOK
<1>19. TriedOK(mapInfo', vvTried') /\ \A b \in TriedBucket : Len(vvTried'[b]) = Len(vvTried[b])
  <2>1. vvTried' = ReplaceIn(vvTried, kb, pos, id)
    BY <1>1 DEF ReplaceIn
  <2>2. TriedBucketOf[mapInfo[id].addr] = kb
    BY DEF kb, EvictBucket, id
  <2>3. \A j \in LiveOf(mapInfo) : /\ mapInfo'[j].addr = mapInfo[j].addr
                                   /\ mapInfo'[j].nLastSuccess = mapInfo[j].nLastSuccess
    BY <1>8, <1>9, <1>13 DEF LiveOf
  <2>4. TriedOf(mapInfo') = (TriedOf(mapInfo) \ {vvTried[kb][pos]}) \cup {id}
    BY <1>14 DEF old
  <2> QED BY ONLY <1>2, <1>3, <1>4, <2>1, <2>2, <2>3, <2>4, TriedReplaced
<1>20. CountsOK(mapInfo', nNew', nTried', {})
  <2>1. IsFiniteSet(NewOf(mapInfo) \ {id}) /\ IsFiniteSet(TriedOf(mapInfo))
        /\ Cardinality(TriedOf(mapInfo)) \in Nat
    BY IdFinite DEF NewOf, TriedOf, LiveOf
  <2>2. Cardinality((NewOf(mapInfo) \ {id}) \cup {old}) = nNew + 1
    BY <1>3, <1>6, <2>1, FS_AddElement DEF CountsOK
  <2>3. IsFiniteSet(TriedOf(mapInfo) \ {old})
        /\ Cardinality(TriedOf(mapInfo) \ {old}) = nTried - 1
    BY <1>3, <1>5, <2>1, FS_RemoveElement DEF CountsOK
  <2>4. Cardinality((TriedOf(mapInfo) \ {old}) \cup {id}) = nTried - 1 + 1
    BY <1>6, <2>3, FS_AddElement
  <2>5. nTried \in Nat
    BY <1>3, <2>1 DEF CountsOK
  <2>6. NewOf(mapInfo') \ {} = (NewOf(mapInfo) \ {id}) \cup {old}
    BY <1>14
  <2>7. nNew' = nNew + 1 /\ nTried' = nTried
    BY <1>1
  <2>8. nTried - 1 + 1 = nTried
    BY <2>5
  <2> QED BY ONLY <1>14, <2>2, <2>4, <2>6, <2>7, <2>8 DEF CountsOK
<1>21. SizesOK(vvNew', vvTried')
  <2>1. IsFiniteSet(vvNew[room]) /\ Cardinality(vvNew[room]) \in Nat /\ old \notin vvNew[room]
    BY <1>6, <1>15, <1>16, IdFinite
  <2>2. Cardinality(vvNew[room] \cup {old}) <= NewBucketSize
    <3>1. Cardinality(vvNew[room] \cup {old}) = Cardinality(vvNew[room]) + 1
      BY <2>1, FS_AddElement
    <3> QED BY ONLY <1>16, <2>1, <3>1, SizesType
  <2> QED BY <1>3, <1>17, <1>19, <2>2 DEF SizesOK
<1>22. Inv'
  BY <1>1, <1>12, <1>18, <1>19, <1>20, <1>21, InvIdleNext DEF TablesOK
<1>23. TriedStay
  BY <1>1, AddrManAssumption DEF TriedStay, Tried, Live
<1> QED BY <1>22, <1>23

-----------------------------------------------------------------------------
(* GetAddr_. *)

\* A swap of the random list, with the places the two entries know.
LEMMA GetAddrKeeps ==
  ASSUME Inv, NEW n \in 1 .. Len(vRandom), NEW m \in 1 .. Len(vRandom), GetAddr(n, m)
  PROVE  Inv' /\ TriedStay
<1> DEFINE x == vRandom[n]
           y == vRandom[m]
<1>1. /\ evicting = None
      /\ vRandom' = SwapAt(vRandom, n, m)
      /\ mapInfo' = [mapInfo EXCEPT ![x].nRandomPos = m, ![y].nRandomPos = n]
      /\ nIdCount' = nIdCount /\ mapAddr' = mapAddr /\ nTried' = nTried /\ vvTried' = vvTried
      /\ nNew' = nNew /\ vvNew' = vvNew /\ evicting' = evicting
  BY DEF GetAddr
<1>2. /\ IdsOK(mapInfo, nIdCount) /\ InfoOK(mapInfo) /\ RandomOK(mapInfo, vRandom)
      /\ AddrOK(mapInfo, mapAddr) /\ RefsOK(mapInfo, vvNew, {}) /\ TriedOK(mapInfo, vvTried)
      /\ CountsOK(mapInfo, nNew, nTried, {}) /\ SizesOK(vvNew, vvTried)
  BY <1>1, InvIdle DEF TablesOK
<1>3. /\ x \in LiveOf(mapInfo) /\ mapInfo[x].nRandomPos = n
      /\ y \in LiveOf(mapInfo) /\ mapInfo[y].nRandomPos = m
      /\ vRandom \in Seq(Id)
  BY <1>2 DEF RandomOK
<1>4. x \in Id /\ y \in Id /\ mapInfo[x] \in Info /\ mapInfo[y] \in Info
      /\ n \in Nat /\ m \in Nat
  <2>1. n \in Nat /\ m \in Nat
    BY <1>3
  <2> QED BY <1>2, <1>3, <2>1 DEF InfoOK, LiveOf
<1>5. (x = y) = (n = m)
  BY <1>3
<1>6. mapInfo' = [j \in Id |-> IF j = y THEN [mapInfo[y] EXCEPT !.nRandomPos = n]
                               ELSE IF j = x THEN [mapInfo[x] EXCEPT !.nRandomPos = m]
                               ELSE mapInfo[j]]
  <2>1. CASE x = y
    BY <1>1, <1>2, <1>4, <2>1 DEF InfoOK, Info
  <2>2. CASE x # y
    BY <1>1, <1>2, <1>4, <2>2 DEF InfoOK
  <2> QED BY <2>1, <2>2
<1> HIDE DEF x, y
<1>7. /\ [mapInfo[y] EXCEPT !.nRandomPos = n] \in Info
      /\ [mapInfo[y] EXCEPT !.nRandomPos = n].nRandomPos = n
      /\ Alike(mapInfo[y], [mapInfo[y] EXCEPT !.nRandomPos = n])
      /\ [mapInfo[x] EXCEPT !.nRandomPos = m] \in Info
      /\ [mapInfo[x] EXCEPT !.nRandomPos = m].nRandomPos = m
      /\ Alike(mapInfo[x], [mapInfo[x] EXCEPT !.nRandomPos = m])
  BY <1>4, Placed
<1>8. InfoOK(mapInfo')
  BY <1>2, <1>6, <1>7 DEF InfoOK
<1>9. \A j \in Id : Alike(mapInfo[j], mapInfo'[j])
  BY <1>6, <1>7 DEF Alike
<1>10. /\ LiveOf(mapInfo') = LiveOf(mapInfo)
       /\ AddrOK(mapInfo', mapAddr) /\ RefsOK(mapInfo', vvNew, {}) /\ TriedOK(mapInfo', vvTried)
       /\ CountsOK(mapInfo', nNew, nTried, {}) /\ IdsOK(mapInfo', nIdCount)
  BY <1>2, <1>8, <1>9, AlikeKeeps
<1>11. /\ vRandom' \in Seq(Id) /\ Len(vRandom') = Len(vRandom)
       /\ \A r \in 1 .. Len(vRandom) : /\ Swapped(n, m, r) \in 1 .. Len(vRandom)
                                       /\ vRandom'[r] = vRandom[Swapped(n, m, r)]
                                       /\ Swapped(n, m, Swapped(n, m, r)) = r
  BY <1>1, <1>3, SwapKeeps
<1>12. ASSUME NEW j \in LiveOf(mapInfo)
       PROVE  mapInfo'[j].nRandomPos = Swapped(n, m, mapInfo[j].nRandomPos)
  <2>1. j \in Id
    BY DEF LiveOf
  <2>2. mapInfo[j].nRandomPos \in 1 .. Len(vRandom) /\ vRandom[mapInfo[j].nRandomPos] = j
    BY <1>2 DEF RandomOK
  <2>3. CASE j = y
    BY <1>3, <1>6, <1>7, <2>1, <2>3 DEF Swapped
  <2>4. CASE j = x /\ j # y
    BY <1>3, <1>5, <1>6, <1>7, <2>1, <2>4 DEF Swapped
  <2>5. CASE j # x /\ j # y
    <3>1. mapInfo[j].nRandomPos # n /\ mapInfo[j].nRandomPos # m
      BY <2>2, <2>5 DEF x, y
    <3> QED BY <1>6, <2>1, <2>5, <3>1 DEF Swapped
  <2> QED BY <2>3, <2>4, <2>5
<1>13. RandomOK(mapInfo', vRandom')
  <2>1. ASSUME NEW j \in LiveOf(mapInfo)
        PROVE  mapInfo'[j].nRandomPos \in 1 .. Len(vRandom) /\ vRandom'[mapInfo'[j].nRandomPos] = j
    <3> DEFINE r == mapInfo[j].nRandomPos
    <3>1. r \in 1 .. Len(vRandom) /\ vRandom[r] = j
      BY <1>2 DEF RandomOK
    <3>2. mapInfo'[j].nRandomPos = Swapped(n, m, r)
      BY <1>12
    <3> HIDE DEF r
    <3> QED BY <1>11, <3>1, <3>2
  <2>2. ASSUME NEW r \in 1 .. Len(vRandom)
        PROVE  vRandom'[r] \in LiveOf(mapInfo) /\ mapInfo'[vRandom'[r]].nRandomPos = r
    <3> DEFINE u == Swapped(n, m, r)
    <3>1. u \in 1 .. Len(vRandom) /\ vRandom'[r] = vRandom[u] /\ Swapped(n, m, u) = r
      BY <1>11
    <3> HIDE DEF u
    <3>2. vRandom[u] \in LiveOf(mapInfo) /\ mapInfo[vRandom[u]].nRandomPos = u
      BY <1>2, <3>1 DEF RandomOK
    <3> QED BY <1>12, <3>1, <3>2
  <2> QED BY <1>10, <1>11, <2>1, <2>2 DEF RandomOK
<1>14. Inv'
  BY <1>1, <1>2, <1>8, <1>10, <1>13, InvIdleNext DEF TablesOK
<1>15. TriedStay
  BY <1>1, AddrManAssumption DEF TriedStay, Tried, Live
<1> QED BY <1>14, <1>15

-----------------------------------------------------------------------------
(* The restart: the file holds every entry, none is dropped when it is read,
   and the fields that are not on disk come back as they were.  The entries
   are numbered anew. *)

\* The list has every member of S once.
Lists(seq, S) ==
  /\ seq \in Seq(S) /\ Len(seq) \in Nat
  /\ \A i \in 1 .. Len(seq) : seq[i] \in S
  /\ \A i, j \in 1 .. Len(seq) : seq[i] = seq[j] => i = j
  /\ \A x \in S : \E i \in 1 .. Len(seq) : seq[i] = x

\* The entry i of the new tables is the entry f[i] of the old ones.
Renames(f, H, info, info2) ==
  /\ H \subseteq Id /\ InfoOK(info) /\ InfoOK(info2) /\ LiveOf(info2) = H
  /\ f \in [H -> LiveOf(info)]
  /\ \A i, j \in H : f[i] = f[j] => i = j
  /\ \A j \in LiveOf(info) : \E i \in H : f[i] = j
  /\ \A i \in H : Alike(info[f[i]], info2[i])

\* What stands for the members of a set is as large as the set.
LEMMA SameSize ==
  ASSUME NEW H, IsFiniteSet(H), NEW T, NEW f \in [H -> T],
         \A i, j \in H : f[i] = f[j] => i = j,
         NEW S, \A y \in S : \E i \in H : f[i] = y
  PROVE  Cardinality({i \in H : f[i] \in S}) = Cardinality(S)
<1> DEFINE R == {i \in H : f[i] \in S}
           g == [i \in R |-> f[i]]
<1>1. g \in [R -> S]
  OBVIOUS
<1>2. \A i, j \in R : g[i] = g[j] => i = j
  OBVIOUS
<1>3. \A y \in S : \E i \in R : g[i] = y
  OBVIOUS
<1>4. IsFiniteSet(R)
  BY FS_Subset
<1> HIDE DEF R, g
<1>5. ExistsBijection(R, S)
  BY <1>1, <1>2, <1>3, Fun_IsBij, Fun_ExistsBij
<1>6. Cardinality(S) = Cardinality(R)
  BY <1>4, <1>5, FS_Bijection
<1> QED BY <1>6 DEF R

\* The list of a set of numbers in ascending order has every member once.
LEMMA AscendingOnce ==
  ASSUME NEW S, IsFiniteSet(S), S \subseteq Nat, NEW seq \in Ascending(S)
  PROVE  Lists(seq, S) /\ Len(seq) = Cardinality(S)
<1> DEFINE n == Cardinality(S)
<1>1. IsFiniteSet(S) /\ n \in Nat /\ S \subseteq Nat
  BY FS_CardinalityType
<1> HIDE DEF n
<1>2. seq \in [1 .. n -> S] /\ \A i, j \in 1 .. n : i < j => seq[i] < seq[j]
  BY DEF Ascending, n
<1>3. seq \in Seq(S) /\ Len(seq) = n
  BY <1>1, <1>2
<1>4. ASSUME NEW i \in 1 .. n, NEW j \in 1 .. n, seq[i] = seq[j] PROVE i = j
  <2>1. seq[i] \in Nat /\ seq[j] \in Nat
    BY <1>1, <1>2
  <2>2. ~(seq[i] < seq[j]) /\ ~(seq[j] < seq[i])
    BY <1>4, <2>1
  <2>3. ~(i < j) /\ ~(j < i)
    BY <1>2, <2>2
  <2> QED BY <1>1, <2>3
<1>5. seq \in Injection(1 .. n, S)
  BY <1>2, <1>4, Fun_IsInj
<1>6. Cardinality(1 .. n) = n
  BY <1>1, FS_Interval
<1>7. seq \in Surjection(1 .. n, S)
  BY <1>1, <1>5, <1>6, FS_Injection DEF n
<1>8. \A x \in S : \E i \in 1 .. n : seq[i] = x
  BY <1>7 DEF Surjection
<1> QED BY <1>1, <1>2, <1>3, <1>4, <1>8 DEF n, Lists

\* Renumbered entries differ only in their place, and are new or tried as
\* before.
LEMMA RenamedSets ==
  ASSUME NEW f, NEW H, NEW info, NEW info2, Renames(f, H, info, info2)
  PROVE  /\ \A i \in H : /\ f[i] \in LiveOf(info) /\ i \in LiveOf(info2) /\ i \in Id
                         /\ info2[i].addr = info[f[i]].addr
                         /\ info2[i].source = info[f[i]].source
                         /\ info2[i].nLastSuccess = info[f[i]].nLastSuccess
                         /\ info2[i].nRefCount = info[f[i]].nRefCount
                         /\ info2[i].fInTried = info[f[i]].fInTried
         /\ NewOf(info2) = {i \in H : f[i] \in NewOf(info)}
         /\ TriedOf(info2) = {i \in H : f[i] \in TriedOf(info)}
<1>1. \A i \in H : /\ f[i] \in LiveOf(info) /\ i \in LiveOf(info2) /\ i \in Id
                   /\ info2[i].addr = info[f[i]].addr
                   /\ info2[i].source = info[f[i]].source
                   /\ info2[i].nLastSuccess = info[f[i]].nLastSuccess
                   /\ info2[i].nRefCount = info[f[i]].nRefCount
                   /\ info2[i].fInTried = info[f[i]].fInTried
  BY DEF Renames, Alike, LiveOf
<1>2. LiveOf(info2) = H
  BY DEF Renames
<1> QED BY <1>1, <1>2 DEF NewOf, TriedOf

\* The new buckets of the renumbered entries.
ReNews(news, f, H) == [b \in NewBucket |-> {i \in H : f[i] \in news[b]}]

\* The tried entries of a bucket.
TriedFor(info, b) == {i \in TriedOf(info) : TriedBucketOf[info[i].addr] = b}

\* An index by address that finds the renumbered entries.
ReAddr(addr, addr2, f, H, info) ==
  /\ addr2 = [h \in Host |-> addr2[h]]
  /\ \A h \in Host : /\ addr[h] = None => addr2[h] = None
                     /\ addr[h] # None => addr2[h] \in H /\ Ip[info[f[addr2[h]]].addr] = h

\* The index by address is exact and leads to the same entries.
LEMMA RenamedAddr ==
  ASSUME NEW f, NEW H, NEW info, NEW info2, Renames(f, H, info, info2),
         NEW addr, AddrOK(info, addr), NEW addr2, ReAddr(addr, addr2, f, H, info)
  PROVE  /\ AddrOK(info2, addr2)
         /\ \A h \in Host : /\ addr[h] = None => addr2[h] = None
                            /\ addr[h] # None => /\ addr2[h] # None /\ addr2[h] \in H
                                                 /\ f[addr2[h]] = addr[h]
<1>1. None \notin Id /\ H \subseteq Id /\ LiveOf(info) \subseteq Id
      /\ InfoOK(info) /\ InfoOK(info2) /\ LiveOf(info2) = H
  BY AddrManAssumption DEF Renames, LiveOf
<1>2. \A i \in H : f[i] \in LiveOf(info) /\ info2[i].addr = info[f[i]].addr
  BY RenamedSets
<1>3. \A i, j \in H : f[i] = f[j] => i = j
  BY DEF Renames
<1>4. /\ \A j \in LiveOf(info) : addr[Ip[info[j].addr]] = j
      /\ \A h \in Host : addr[h] # None => addr[h] \in LiveOf(info) /\ Ip[info[addr[h]].addr] = h
  BY DEF AddrOK
<1>5. ASSUME NEW h \in Host, addr[h] = None PROVE addr2[h] = None
  BY <1>5 DEF ReAddr
<1>6. ASSUME NEW h \in Host, addr[h] # None
      PROVE  addr2[h] \in H /\ f[addr2[h]] = addr[h]
  <2>1. addr2[h] \in H /\ Ip[info[f[addr2[h]]].addr] = h
    BY <1>6 DEF ReAddr
  <2> QED BY <1>2, <1>4, <2>1
<1>7. addr2 \in [Host -> Id \cup {None}]
  <2>1. \A h \in Host : addr2[h] \in Id \cup {None}
    BY <1>1, <1>5, <1>6
  <2> QED BY <2>1 DEF ReAddr
<1>8. ASSUME NEW i \in H PROVE addr2[Ip[info2[i].addr]] = i
  <2> DEFINE h == Ip[info2[i].addr]
  <2>1. h \in Host /\ h = Ip[info[f[i]].addr]
    BY <1>1, <1>2, EntryType
  <2>2. addr[h] = f[i] /\ addr[h] # None
    BY <1>1, <1>2, <1>4, <2>1
  <2> HIDE DEF h
  <2>3. addr2[h] = i
    BY <1>3, <1>6, <2>1, <2>2
  <2> QED BY <2>3 DEF h
<1>9. ASSUME NEW h \in Host, addr2[h] # None
      PROVE  addr2[h] \in H /\ Ip[info2[addr2[h]].addr] = h
  BY <1>2, <1>4, <1>5, <1>6, <1>9
<1>10. AddrOK(info2, addr2)
  BY <1>1, <1>7, <1>8, <1>9 DEF AddrOK
<1>11. \A h \in Host : addr[h] # None => addr2[h] # None
  BY <1>1, <1>6
<1> QED BY <1>5, <1>6, <1>10, <1>11

\* Every entry is in the new buckets it was in, and these keep their sizes.
LEMMA RenamedRefs ==
  ASSUME NEW f, NEW H, NEW info, NEW info2, Renames(f, H, info, info2),
         NEW news, RefsOK(info, news, {})
  PROVE  /\ RefsOK(info2, ReNews(news, f, H), {})
         /\ \A i \in H : BucketsOf(ReNews(news, f, H), i) = BucketsOf(news, f[i])
         /\ \A b \in NewBucket : Cardinality(ReNews(news, f, H)[b]) = Cardinality(news[b])
<1> DEFINE news2 == ReNews(news, f, H)
<1>1. H \subseteq Id /\ \A i \in H : info2[i].nRefCount = info[f[i]].nRefCount
  BY RenamedSets DEF Renames
<1>2. /\ NewOf(info2) = {i \in H : f[i] \in NewOf(info)}
      /\ TriedOf(info2) = {i \in H : f[i] \in TriedOf(info)}
  BY RenamedSets
<1>3. \A b \in NewBucket : news2[b] = {i \in H : f[i] \in news[b]}
  BY DEF ReNews
<1>4. news2 \in [NewBucket -> SUBSET Id]
  BY <1>1 DEF ReNews
<1> HIDE DEF news2
<1>5. \A b \in NewBucket : news[b] \subseteq NewOf(info)
  BY DEF RefsOK
<1>6. \A i \in H : BucketsOf(news2, i) = BucketsOf(news, f[i])
  BY <1>3 DEF BucketsOf
<1>7. ASSUME NEW b \in NewBucket PROVE news2[b] \subseteq NewOf(info2) \ {}
  BY <1>2, <1>3, <1>5
<1>8. ASSUME NEW i \in NewOf(info2) \ {}
      PROVE  /\ info2[i].nRefCount = Cardinality(BucketsOf(news2, i))
             /\ info2[i].nRefCount \in 1 .. BucketsPerAddress
  <2>1. i \in H /\ f[i] \in NewOf(info) \ {}
    BY <1>2
  <2>2. /\ info[f[i]].nRefCount = Cardinality(BucketsOf(news, f[i]))
        /\ info[f[i]].nRefCount \in 1 .. BucketsPerAddress
    BY <2>1 DEF RefsOK
  <2> QED BY <1>1, <1>6, <2>1, <2>2
<1>9. ASSUME NEW i \in TriedOf(info2) \cup {} PROVE info2[i].nRefCount = 0
  <2>1. i \in H /\ f[i] \in TriedOf(info) \cup {}
    BY <1>2
  <2>2. info[f[i]].nRefCount = 0
    BY <2>1 DEF RefsOK
  <2> QED BY <1>1, <2>1, <2>2
<1>10. RefsOK(info2, news2, {})
  BY <1>4, <1>7, <1>8, <1>9 DEF RefsOK
<1>11. ASSUME NEW b \in NewBucket PROVE Cardinality(news2[b]) = Cardinality(news[b])
  <2>1. \A y \in news[b] : \E i \in H : f[i] = y
    BY <1>5 DEF NewOf, Renames
  <2>2. f \in [H -> LiveOf(info)] /\ \A i, j \in H : f[i] = f[j] => i = j
    BY DEF Renames
  <2> DEFINE S == news[b]
  <2>3. IsFiniteSet(H) /\ \A y \in S : \E i \in H : f[i] = y
    BY <1>1, <2>1, IdFinite
  <2> HIDE DEF S
  <2>4. Cardinality({i \in H : f[i] \in S}) = Cardinality(S)
    BY ONLY <2>2, <2>3, SameSize
  <2> QED BY <1>3, <2>4 DEF S
<1> QED BY <1>6, <1>10, <1>11 DEF news2

\* There are as many new and tried entries, and as many for each bucket.
LEMMA RenamedCounts ==
  ASSUME NEW f, NEW H, NEW info, NEW info2, Renames(f, H, info, info2),
         NEW n, NEW t, CountsOK(info, n, t, {})
  PROVE  /\ CountsOK(info2, n, t, {})
         /\ \A b \in TriedBucket : Cardinality(TriedFor(info2, b)) = Cardinality(TriedFor(info, b))
<1>1. IsFiniteSet(H) /\ f \in [H -> LiveOf(info)] /\ \A i, j \in H : f[i] = f[j] => i = j
  BY IdFinite DEF Renames
<1>2. /\ NewOf(info2) = {i \in H : f[i] \in NewOf(info)}
      /\ TriedOf(info2) = {i \in H : f[i] \in TriedOf(info)}
      /\ \A i \in H : info2[i].addr = info[f[i]].addr
  BY RenamedSets
<1>3. \A y \in LiveOf(info) : \E i \in H : f[i] = y
  BY DEF Renames
<1>4. NewOf(info) \subseteq LiveOf(info) /\ TriedOf(info) \subseteq LiveOf(info)
  BY DEF NewOf, TriedOf
<1>5. \A y \in NewOf(info) : \E i \in H : f[i] = y
  BY <1>3, <1>4
<1>6. \A y \in TriedOf(info) : \E i \in H : f[i] = y
  BY <1>3, <1>4
<1>7. Cardinality({i \in H : f[i] \in NewOf(info)}) = Cardinality(NewOf(info))
  <2> DEFINE S == NewOf(info)
  <2>1. \A y \in S : \E i \in H : f[i] = y
    BY <1>5
  <2> HIDE DEF S
  <2>2. Cardinality({i \in H : f[i] \in S}) = Cardinality(S)
    BY ONLY <1>1, <2>1, SameSize
  <2> QED BY <2>2 DEF S
<1>8. Cardinality({i \in H : f[i] \in TriedOf(info)}) = Cardinality(TriedOf(info))
  BY ONLY <1>1, <1>6, SameSize
<1>9. NewOf(info) \ {} = NewOf(info) /\ NewOf(info2) \ {} = NewOf(info2)
  OBVIOUS
<1>10. CountsOK(info2, n, t, {})
  BY <1>2, <1>7, <1>8, <1>9 DEF CountsOK
<1>11. ASSUME NEW b \in TriedBucket
       PROVE  Cardinality(TriedFor(info2, b)) = Cardinality(TriedFor(info, b))
  <2>1. TriedFor(info2, b) = {i \in H : f[i] \in TriedFor(info, b)}
    BY <1>2 DEF TriedFor
  <2>2. \A y \in TriedFor(info, b) : \E i \in H : f[i] = y
    BY <1>6 DEF TriedFor
  <2>3. Cardinality({i \in H : f[i] \in TriedFor(info, b)}) = Cardinality(TriedFor(info, b))
    BY ONLY <1>1, <2>2, SameSize
  <2> QED BY <2>1, <2>3
<1> QED BY <1>10, <1>11

\* A tried bucket has the tried entries of its addresses, once each.
LEMMA TriedSize ==
  ASSUME NEW info, NEW tried, InfoOK(info), TriedOK(info, tried), NEW b \in TriedBucket
  PROVE  Cardinality(TriedFor(info, b)) = Len(tried[b])
<1> DEFINE s == tried[b]
           S == TriedFor(info, b)
<1>1. s \in Seq(Id) /\ Len(s) \in Nat
  BY DEF TriedOK
<1>2. \A p \in 1 .. Len(s) : s[p] \in S
  BY DEF TriedOK, TriedFor
<1>3. \A p, q \in 1 .. Len(s) : s[p] = s[q] => p = q
  BY DEF TriedOK
<1>4. \A i \in S : \E p \in 1 .. Len(s) : s[p] = i
  BY DEF TriedOK, TriedFor
<1> HIDE DEF s, S
<1>5. s \in [1 .. Len(s) -> S]
  BY <1>1, <1>2
<1>6. ExistsBijection(1 .. Len(s), S)
  BY <1>3, <1>4, <1>5, Fun_IsBij, Fun_ExistsBij
<1>7. Cardinality(S) = Len(s)
  BY <1>1, <1>6, FS_CountingElements
<1> QED BY <1>7 DEF s, S

\* Tried buckets rebuilt from the entries.
LEMMA TriedRebuilt ==
  ASSUME NEW info, InfoOK(info), NEW tried, tried = [b \in TriedBucket |-> tried[b]],
         \A b \in TriedBucket : tried[b] \in Ascending(TriedFor(info, b)),
         \A i \in TriedOf(info) : info[i].nLastSuccess # 0
  PROVE  /\ TriedOK(info, tried)
         /\ \A b \in TriedBucket : Len(tried[b]) = Cardinality(TriedFor(info, b))
<1>1. TriedOf(info) \subseteq Id /\ TriedOf(info) \subseteq LiveOf(info)
  BY DEF TriedOf, LiveOf
<1>2. \A b \in TriedBucket : TriedFor(info, b) \in SUBSET Id
  BY <1>1 DEF TriedFor
<1>3. ASSUME NEW b \in TriedBucket
      PROVE  /\ tried[b] \in Seq(TriedFor(info, b)) /\ Len(tried[b]) = Cardinality(TriedFor(info, b))
             /\ \A i \in 1 .. Len(tried[b]) : tried[b][i] \in TriedFor(info, b)
             /\ \A i, j \in 1 .. Len(tried[b]) : tried[b][i] = tried[b][j] => i = j
             /\ \A x \in TriedFor(info, b) : \E i \in 1 .. Len(tried[b]) : tried[b][i] = x
  BY <1>2, AscendingOnce, IdFinite DEF Lists
<1>4. \A b \in TriedBucket : tried[b] \in Seq(Id)
  BY <1>2, <1>3
<1>5. tried \in [TriedBucket -> Seq(Id)]
  BY <1>4
<1>6. ASSUME NEW i \in TriedOf(info)
      PROVE  \E p \in 1 .. Len(tried[TriedBucketOf[info[i].addr]]) :
               tried[TriedBucketOf[info[i].addr]][p] = i
  <2> DEFINE b == TriedBucketOf[info[i].addr]
  <2>1. b \in TriedBucket
    BY <1>1, EntryType
  <2>2. i \in TriedFor(info, b)
    BY DEF TriedFor
  <2> HIDE DEF b
  <2>3. \E p \in 1 .. Len(tried[b]) : tried[b][p] = i
    BY <1>3, <2>1, <2>2
  <2> QED BY <2>3 DEF b
<1>7. ASSUME NEW b \in TriedBucket, NEW p \in 1 .. Len(tried[b])
      PROVE  /\ tried[b][p] \in TriedOf(info)
             /\ TriedBucketOf[info[tried[b][p]].addr] = b
             /\ \A q \in 1 .. Len(tried[b]) : tried[b][p] = tried[b][q] => p = q
  BY <1>3 DEF TriedFor
<1>8. TriedOK(info, tried)
  BY <1>5, <1>6, <1>7 DEF TriedOK
<1> QED BY <1>3, <1>8

\* The order in which the entries are numbered: the new ones, then the tried.
LEMMA OrderOnce ==
  ASSUME NEW info, NEW news, Lists(news, NewOf(info)), NEW tried, Lists(tried, TriedOf(info)),
         InfoOK(info)
  PROVE  /\ news \o tried \in Seq(LiveOf(info)) /\ Len(news \o tried) \in 0 .. MaxId
         /\ \A i \in 1 .. Len(news \o tried) : (news \o tried)[i] \in LiveOf(info)
         /\ \A i, j \in 1 .. Len(news \o tried) : (news \o tried)[i] = (news \o tried)[j] => i = j
         /\ \A x \in LiveOf(info) : \E i \in 1 .. Len(news \o tried) : (news \o tried)[i] = x
<1> DEFINE order == news \o tried
           m == Len(news)
           n == Len(tried)
<1>1. /\ NewOf(info) \in SUBSET Id /\ TriedOf(info) \in SUBSET Id
      /\ LiveOf(info) = NewOf(info) \cup TriedOf(info)
      /\ NewOf(info) \cap TriedOf(info) = {}
      /\ LiveOf(info) \in SUBSET Id
  BY EntryType DEF NewOf, TriedOf, LiveOf
<1>2. /\ news \in Seq(NewOf(info)) /\ m \in Nat
      /\ \A i \in 1 .. m : news[i] \in NewOf(info)
      /\ \A i, j \in 1 .. m : news[i] = news[j] => i = j
      /\ \A x \in NewOf(info) : \E i \in 1 .. m : news[i] = x
  BY DEF Lists
<1>3. /\ tried \in Seq(TriedOf(info)) /\ n \in Nat
      /\ \A i \in 1 .. n : tried[i] \in TriedOf(info)
      /\ \A i, j \in 1 .. n : tried[i] = tried[j] => i = j
      /\ \A x \in TriedOf(info) : \E i \in 1 .. n : tried[i] = x
  BY DEF Lists
<1>4. news \in Seq(LiveOf(info)) /\ tried \in Seq(LiveOf(info))
  BY <1>1, <1>2, <1>3
<1>5. /\ order \in Seq(LiveOf(info)) /\ Len(order) = m + n
      /\ \A i \in 1 .. m + n : order[i] = IF i <= m THEN news[i] ELSE tried[i - m]
  BY <1>4
<1> HIDE DEF order, m, n
<1>6. ASSUME NEW i \in 1 .. m + n
      PROVE  \/ i \in 1 .. m /\ order[i] = news[i] /\ order[i] \in NewOf(info)
             \/ i - m \in 1 .. n /\ order[i] = tried[i - m] /\ order[i] \in TriedOf(info)
  <2>1. CASE i <= m
    <3>1. i \in 1 .. m
      BY <1>2, <1>3, <2>1
    <3> QED BY <1>2, <1>5, <2>1, <3>1
  <2>2. CASE ~(i <= m)
    <3>1. i - m \in 1 .. n
      BY <1>2, <1>3, <2>2
    <3> QED BY <1>3, <1>5, <2>2, <3>1
  <2> QED BY <2>1, <2>2
<1>7. ASSUME NEW i \in 1 .. m + n, NEW j \in 1 .. m + n, order[i] = order[j] PROVE i = j
  <2>1. CASE order[i] \in NewOf(info)
    BY <1>1, <1>2, <1>6, <1>7, <2>1
  <2>2. CASE order[i] \notin NewOf(info)
    <3>1. i - m = j - m
      BY <1>3, <1>6, <1>7, <2>2
    <3> QED BY <1>2, <1>3, <3>1
  <2> QED BY <2>1, <2>2
<1>8. ASSUME NEW x \in LiveOf(info) PROVE \E i \in 1 .. m + n : order[i] = x
  <2>1. CASE x \in NewOf(info)
    <3>1. PICK i \in 1 .. m : news[i] = x
      BY <1>2, <2>1
    <3>2. i \in 1 .. m + n /\ i <= m
      BY <1>2, <1>3
    <3> QED BY <1>5, <3>1, <3>2
  <2>2. CASE x \in TriedOf(info)
    <3>1. PICK i \in 1 .. n : tried[i] = x
      BY <1>3, <2>2
    <3>2. i + m \in 1 .. m + n /\ ~(i + m <= m) /\ (i + m) - m = i
      BY <1>2, <1>3
    <3>3. order[i + m] = x
      BY <1>5, <3>1, <3>2
    <3> QED BY <3>2, <3>3
  <2> QED BY <1>1, <2>1, <2>2
<1>9. m + n \in Nat
  BY <1>2, <1>3
<1>10. m + n <= MaxId
  <2>1. order \in [1 .. m + n -> Id]
    BY <1>1, <1>5, <1>6, <1>9
  <2>2. order \in Injection(1 .. m + n, Id)
    BY <1>7, <2>1, Fun_IsInj
  <2>3. Cardinality(1 .. m + n) <= Cardinality(Id)
    BY <2>2, IdFinite, FS_Injection
  <2>4. Cardinality(1 .. m + n) = m + n
    BY <1>9, FS_Interval
  <2> QED BY <2>3, <2>4, IdFinite
<1>11. \A i \in 1 .. m + n : order[i] \in LiveOf(info)
  BY <1>1, <1>6
<1>12. Len(order) \in 0 .. MaxId
  BY <1>5, <1>9, <1>10, SizesType
<1> QED BY <1>5, <1>7, <1>8, <1>11, <1>12 DEF order

\* A written list is complete when the counter is right.
LEMMA UptoAll ==
  ASSUME NEW seq, NEW n, n = Len(seq), Len(seq) \in Nat
  PROVE  Upto(seq, n) = seq
BY DEF Upto

\* Every tried entry finds room: its bucket held it together with those read
\* before it.
LEMMA AllKept ==
  ASSUME NEW info, InfoOK(info), NEW vt, TriedOK(info, vt),
         \A b \in TriedBucket : Len(vt[b]) <= TriedBucketSize,
         NEW tried, Lists(tried, TriedOf(info)), NEW file,
         Len(file.tried) = Len(tried),
         \A k \in 1 .. Len(tried) : file.tried[k].addr = info[tried[k]].addr
  PROVE  Kept(file) = 1 .. Len(tried)
<1> DEFINE N == Len(tried)
<1>1. /\ N \in Nat /\ \A k \in 1 .. N : tried[k] \in TriedOf(info)
      /\ \A i, j \in 1 .. N : tried[i] = tried[j] => i = j
      /\ \A x \in TriedOf(info) : \E i \in 1 .. N : tried[i] = x
      /\ tried \in [1 .. N -> TriedOf(info)]
  BY DEF Lists
<1>2. Len(file.tried) = N
  OBVIOUS
<1> HIDE DEF N
<1>3. IsFiniteSet(1 .. N)
  BY <1>1, FS_Interval
<1>4. ASSUME NEW k \in 1 .. N
      PROVE  Cardinality({j \in 1 .. k - 1 : TriedBucketOf[file.tried[j].addr]
                                             = TriedBucketOf[file.tried[k].addr]}) < TriedBucketSize
  <2> DEFINE b == TriedBucketOf[info[tried[k]].addr]
             S == TriedFor(info, b)
             A == {j \in 1 .. N : tried[j] \in S}
             B == {j \in 1 .. k - 1 : TriedBucketOf[file.tried[j].addr]
                                      = TriedBucketOf[file.tried[k].addr]}
  <2>1. b \in TriedBucket
    BY <1>1, EntryType DEF TriedOf
  <2>2. \A y \in S : \E i \in 1 .. N : tried[i] = y
    BY <1>1 DEF TriedFor
  <2>3. Cardinality(S) = Len(vt[b])
    <3> HIDE DEF b
    <3> QED BY ONLY <2>1, InfoOK(info), TriedOK(info, vt), TriedSize DEF S
  <2>4. A \subseteq 1 .. N /\ k \in A
    BY <1>1 DEF TriedFor
  <2>5. B \subseteq A \ {k}
    <3> SUFFICES ASSUME NEW j \in B PROVE j \in A /\ j # k
      OBVIOUS
    <3>1. j \in 1 .. N /\ j # k /\ TriedBucketOf[file.tried[j].addr] = TriedBucketOf[file.tried[k].addr]
      BY <1>1
    <3>2. TriedBucketOf[info[tried[j]].addr] = b
      BY <3>1, <1>1 DEF N
    <3> QED BY <1>1, <3>1, <3>2 DEF TriedFor
  <2>6. Cardinality(A) = Cardinality(S)
    <3> DEFINE H == 1 .. N
               T == TriedOf(info)
    <3>1. /\ IsFiniteSet(H) /\ tried \in [H -> T]
          /\ \A i, j \in H : tried[i] = tried[j] => i = j
          /\ \A y \in S : \E i \in H : tried[i] = y
      BY <1>1, <1>3, <2>2
    <3> HIDE DEF S, H, T
    <3>2. Cardinality({i \in H : tried[i] \in S}) = Cardinality(S)
      BY ONLY <3>1, SameSize
    <3> QED BY <3>2 DEF H
  <2>7. Len(vt[b]) \in Nat /\ Len(vt[b]) <= TriedBucketSize
    BY <2>1 DEF TriedOK
  <2> HIDE DEF A, B, S, b
  <2>8. IsFiniteSet(A) /\ IsFiniteSet(A \ {k}) /\ Cardinality(A \ {k}) = Cardinality(A) - 1
    BY <1>3, <2>4, FS_Subset, FS_RemoveElement
  <2>9. IsFiniteSet(B) /\ Cardinality(B) <= Cardinality(A \ {k})
    BY <2>5, <2>8, FS_Subset
  <2>10. Cardinality(B) \in Nat /\ Cardinality(A) \in Nat /\ TriedBucketSize \in Nat
    BY <2>8, <2>9, FS_CardinalityType, AddrManAssumption
  <2>11. Cardinality(B) < TriedBucketSize
    BY <2>3, <2>6, <2>7, <2>8, <2>9, <2>10
  <2> QED BY <2>11 DEF B
<1>5. Kept(file) = 1 .. N
  BY <1>2, <1>4 DEF Kept
<1> QED BY <1>5 DEF N

\* Every bucket takes the entries it is written with: none has more
\* references than the reader allows.
LEMMA AllTaken ==
  ASSUME NEW info, NEW news, RefsOK(info, news, {}), NEW list, Lists(list, NewOf(info)),
         NEW file, file.buckets = [b \in NewBucket |-> {k \in 0 .. Len(list) - 1 : list[k + 1] \in news[b]}]
  PROVE  /\ \A i \in 0 .. Len(list) - 1 : \A b \in NewBucket : Taken(file, b, i) <=> list[i + 1] \in news[b]
         /\ \A i \in Nat : i >= Len(list) => \A b \in NewBucket : ~Taken(file, b, i)
<1> DEFINE N == Len(list)
<1>1. N \in Nat /\ \A k \in 1 .. N : list[k] \in NewOf(info)
  BY DEF Lists
<1>2. \A b \in NewBucket : file.buckets[b] = {k \in 0 .. N - 1 : list[k + 1] \in news[b]}
  OBVIOUS
<1> HIDE DEF N
<1>3. ASSUME NEW i \in 0 .. N - 1, NEW b \in NewBucket PROVE Taken(file, b, i) <=> list[i + 1] \in news[b]
  <2> DEFINE B == {c \in NewBucket : c < b /\ i \in file.buckets[c]}
             A == BucketsOf(news, list[i + 1])
  <2>1. i \in file.buckets[b] <=> list[i + 1] \in news[b]
    BY <1>2
  <2>2. ASSUME list[i + 1] \in news[b] PROVE Cardinality(B) < BucketsPerAddress
    <3>1. list[i + 1] \in NewOf(info) \ {}
      BY <1>1
    <3>2. Cardinality(A) \in 1 .. BucketsPerAddress
      BY <3>1 DEF RefsOK
    <3>3. b \in A /\ A \subseteq NewBucket
      BY <2>2 DEF BucketsOf
    <3>4. B \subseteq A \ {b}
      <4> SUFFICES ASSUME NEW c \in B PROVE c \in A /\ c # b
        OBVIOUS
      <4>1. c \in NewBucket /\ c \in Nat /\ b \in Nat /\ c < b /\ list[i + 1] \in news[c]
        BY <1>2, AddrManAssumption
      <4> QED BY <4>1 DEF BucketsOf
    <3> HIDE DEF A, B
    <3>5. IsFiniteSet(A) /\ IsFiniteSet(A \ {b}) /\ Cardinality(A \ {b}) = Cardinality(A) - 1
      BY <3>3, AddrManAssumption, FS_Subset, FS_RemoveElement
    <3>6. IsFiniteSet(B) /\ Cardinality(B) <= Cardinality(A \ {b})
      BY <3>4, <3>5, FS_Subset
    <3>7. Cardinality(B) \in Nat /\ Cardinality(A) \in Nat /\ BucketsPerAddress \in Nat
      BY <3>5, <3>6, FS_CardinalityType, AddrManAssumption
    <3> QED BY <3>2, <3>5, <3>6, <3>7
  <2> QED BY <2>1, <2>2 DEF Taken
<1>4. ASSUME NEW i \in Nat, i >= N, NEW b \in NewBucket PROVE ~Taken(file, b, i)
  BY <1>1, <1>2, <1>4 DEF Taken
<1> QED BY <1>3, <1>4 DEF N

\* A list of a set read in the order of a list of its places.
LEMMA ListOfList ==
  ASSUME NEW S, NEW seq, Lists(seq, S), NEW places, Lists(places, 1 .. Len(seq))
  PROVE  Lists([m \in 1 .. Len(places) |-> seq[places[m]]], S)
<1> DEFINE N == Len(places)
           l == [m \in 1 .. N |-> seq[places[m]]]
<1>1. /\ N \in Nat /\ \A m \in 1 .. N : places[m] \in 1 .. Len(seq)
      /\ \A i, j \in 1 .. N : places[i] = places[j] => i = j
      /\ \A k \in 1 .. Len(seq) : \E m \in 1 .. N : places[m] = k
  BY DEF Lists
<1>2. /\ \A k \in 1 .. Len(seq) : seq[k] \in S
      /\ \A i, j \in 1 .. Len(seq) : seq[i] = seq[j] => i = j
      /\ \A x \in S : \E k \in 1 .. Len(seq) : seq[k] = x
  BY DEF Lists
<1> HIDE DEF N
<1>3. l \in [1 .. N -> S] /\ \A m \in 1 .. N : l[m] = seq[places[m]]
  BY <1>1, <1>2
<1> HIDE DEF l
<1>4. l \in Seq(S) /\ Len(l) = N
  BY <1>1, <1>3
<1>5. ASSUME NEW i \in 1 .. N, NEW j \in 1 .. N, l[i] = l[j] PROVE i = j
  <2>1. seq[places[i]] = seq[places[j]] /\ places[i] \in 1 .. Len(seq) /\ places[j] \in 1 .. Len(seq)
    BY <1>1, <1>3, <1>5
  <2>2. places[i] = places[j]
    BY <1>2, <2>1
  <2> QED BY <1>1, <2>2
<1>6. ASSUME NEW x \in S PROVE \E m \in 1 .. N : l[m] = x
  <2>1. PICK k \in 1 .. Len(seq) : seq[k] = x
    BY <1>2
  <2>2. PICK m \in 1 .. N : places[m] = k
    BY <1>1
  <2> QED BY <1>3, <2>1, <2>2
<1>7. Lists(l, S)
  BY <1>1, <1>3, <1>4, <1>5, <1>6 DEF Lists
<1> QED BY <1>7 DEF l, N

\* Writing the tables and reading them back.
LEMMA RestartKeeps ==
  ASSUME Inv, Restart
  PROVE  Inv' /\ TriedStay /\ \A h \in Host : Profile(h)' = Profile(h)
<1>1. evicting = None /\ evicting' = None
  BY DEF Restart
<1>2. /\ InfoOK(mapInfo) /\ AddrOK(mapInfo, mapAddr) /\ RefsOK(mapInfo, vvNew, {})
      /\ TriedOK(mapInfo, vvTried) /\ CountsOK(mapInfo, nNew, nTried, {})
      /\ SizesOK(vvNew, vvTried)
  BY <1>1, InvIdle DEF TablesOK
<1>3. /\ Tried = TriedOf(mapInfo) /\ Live = LiveOf(mapInfo)
      /\ {id \in Live : mapInfo[id].nRefCount # 0} = NewOf(mapInfo)
  <2>1. \A id \in NewOf(mapInfo) : mapInfo[id].nRefCount # 0
    <3>1. \A id \in NewOf(mapInfo) \ {} : mapInfo[id].nRefCount \in 1 .. BucketsPerAddress
      BY <1>2 DEF RefsOK
    <3> QED BY <3>1, SizesType
  <2>2. \A id \in TriedOf(mapInfo) : mapInfo[id].nRefCount = 0
    BY <1>2 DEF RefsOK
  <2>3. Tried = TriedOf(mapInfo) /\ Live = LiveOf(mapInfo)
    BY DEF Tried, Live, TriedOf, LiveOf
  <2> QED BY <2>1, <2>2, <2>3 DEF NewOf, TriedOf
<1>a. PICK news \in Ascending(NewOf(mapInfo)), tried \in Ascending(TriedOf(mapInfo)) :
        \E kept \in Ascending(Kept(File(Upto(news, nNew), Upto(tried, nTried)))) :
          Load(File(Upto(news, nNew), Upto(tried, nTried)), kept)
  BY <1>3 DEF Restart
<1>b. /\ Lists(news, NewOf(mapInfo)) /\ Lists(tried, TriedOf(mapInfo))
      /\ Upto(news, nNew) = news /\ Upto(tried, nTried) = tried
  <2>1. /\ NewOf(mapInfo) \in SUBSET Id /\ TriedOf(mapInfo) \in SUBSET Id
        /\ NewOf(mapInfo) \ {} = NewOf(mapInfo)
    BY DEF NewOf, TriedOf, LiveOf
  <2>2. /\ IsFiniteSet(NewOf(mapInfo)) /\ NewOf(mapInfo) \subseteq Nat
        /\ IsFiniteSet(TriedOf(mapInfo)) /\ TriedOf(mapInfo) \subseteq Nat
    BY <2>1, IdFinite
  <2>3. Lists(news, NewOf(mapInfo)) /\ Len(news) = Cardinality(NewOf(mapInfo))
    BY ONLY <2>2, AscendingOnce, news \in Ascending(NewOf(mapInfo))
  <2>4. Lists(tried, TriedOf(mapInfo)) /\ Len(tried) = Cardinality(TriedOf(mapInfo))
    BY ONLY <2>2, AscendingOnce, tried \in Ascending(TriedOf(mapInfo))
  <2>5. nNew = Len(news) /\ nTried = Len(tried) /\ Len(news) \in Nat /\ Len(tried) \in Nat
    BY <1>2, <2>1, <2>3, <2>4 DEF CountsOK, Lists
  <2> QED BY <2>3, <2>4, <2>5, UptoAll
<1> DEFINE file == File(news, tried)
<1>c. PICK kept \in Ascending(Kept(file)) : Load(file, kept)
  BY <1>a, <1>b
<1>d. /\ file.new = [k \in 1 .. Len(news) |-> Record(mapInfo[news[k]])]
      /\ file.tried = [k \in 1 .. Len(tried) |-> Record(mapInfo[tried[k]])]
      /\ file.buckets = [b \in NewBucket |-> {k \in 0 .. Len(news) - 1 : news[k + 1] \in vvNew[b]}]
  BY DEF File, Indexes
<1> HIDE DEF file
<1>e. /\ Len(news) \in Nat /\ Len(tried) \in Nat
      /\ Len(file.new) = Len(news) /\ Len(file.tried) = Len(tried)
      /\ \A k \in 1 .. Len(tried) : file.tried[k].addr = mapInfo[tried[k]].addr
  <2>1. Len(news) \in Nat /\ Len(tried) \in Nat
    BY <1>b DEF Lists
  <2>2. file.new \in Seq({Record(mapInfo[news[k]]) : k \in 1 .. Len(news)}) /\ Len(file.new) = Len(news)
    BY <1>d, <2>1
  <2>3. file.tried \in Seq({Record(mapInfo[tried[k]]) : k \in 1 .. Len(tried)}) /\ Len(file.tried) = Len(tried)
    BY <1>d, <2>1
  <2> QED BY <1>d, <2>1, <2>2, <2>3 DEF Record
<1>f. Lists(kept, 1 .. Len(tried)) /\ Len(kept) = Len(tried)
  <2>1. Kept(file) = 1 .. Len(tried)
    <3>1. \A b \in TriedBucket : Len(vvTried[b]) <= TriedBucketSize
      BY <1>2 DEF SizesOK
    <3> QED BY ONLY <1>2, <1>b, <1>e, <3>1, AllKept
  <2>2. IsFiniteSet(1 .. Len(tried)) /\ Cardinality(1 .. Len(tried)) = Len(tried)
        /\ 1 .. Len(tried) \subseteq Nat
    <3> DEFINE N == Len(tried)
    <3>1. N \in Nat
      BY <1>e
    <3> HIDE DEF N
    <3>2. IsFiniteSet(1 .. N) /\ Cardinality(1 .. N) = N
      <4>1. 1 \in Int /\ N \in Int
        BY <3>1
      <4>2. IsFiniteSet(1 .. N) /\ Cardinality(1 .. N) = IF 1 > N THEN 0 ELSE N - 1 + 1
        BY ONLY <4>1, FS_Interval
      <4> QED BY ONLY <3>1, <4>2
    <3>3. 1 .. N \subseteq Nat
      BY <3>1
    <3> QED BY <3>2, <3>3 DEF N
  <2> DEFINE S == 1 .. Len(tried)
  <2>3. IsFiniteSet(S) /\ S \subseteq Nat /\ kept \in Ascending(S)
    BY <2>1, <2>2
  <2> HIDE DEF S
  <2>4. Lists(kept, S) /\ Len(kept) = Cardinality(S)
    BY ONLY <2>3, AscendingOnce
  <2> QED BY <2>2, <2>4 DEF S
<1> DEFINE late == [m \in 1 .. Len(kept) |-> tried[kept[m]]]
           infos == file.new \o [m \in 1 .. Len(kept) |-> file.tried[kept[m]]]
           order == news \o late
           n == Len(infos)
           H == 0 .. n - 1
           f == [i \in H |-> order[i + 1]]
<1>g. Lists(late, TriedOf(mapInfo)) /\ Len(late) = Len(tried)
  <2>1. Lists(late, TriedOf(mapInfo))
    BY ONLY <1>b, <1>f, ListOfList
  <2> QED BY <1>e, <1>f, <2>1
<1>7a. /\ Len(order) \in 0 .. MaxId
       /\ \A i \in 1 .. Len(order) : order[i] \in LiveOf(mapInfo)
       /\ \A i, j \in 1 .. Len(order) : order[i] = order[j] => i = j
       /\ \A x \in LiveOf(mapInfo) : \E i \in 1 .. Len(order) : order[i] = x
  <2>1. InfoOK(mapInfo) /\ Lists(news, NewOf(mapInfo)) /\ Lists(late, TriedOf(mapInfo))
    BY <1>2, <1>b, <1>g
  <2> HIDE DEF late
  <2>2. /\ Len(news \o late) \in 0 .. MaxId
        /\ \A i \in 1 .. Len(news \o late) : (news \o late)[i] \in LiveOf(mapInfo)
        /\ \A i, j \in 1 .. Len(news \o late) : (news \o late)[i] = (news \o late)[j] => i = j
        /\ \A x \in LiveOf(mapInfo) : \E i \in 1 .. Len(news \o late) : (news \o late)[i] = x
    BY ONLY <2>1, OrderOnce
  <2> QED BY ONLY <2>2
<1>h. n = Len(order) /\ \A i \in 1 .. Len(order) : infos[i] = Record(mapInfo[order[i]])
  <2> DEFINE v == [m \in 1 .. Len(kept) |-> file.tried[kept[m]]]
             T == {Record(mapInfo[id]) : id \in LiveOf(mapInfo)}
             x == news
             y == late
             u == file.new
  <2>1. NewOf(mapInfo) \subseteq LiveOf(mapInfo) /\ TriedOf(mapInfo) \subseteq LiveOf(mapInfo)
    BY DEF NewOf, TriedOf
  <2>2. x \in Seq(LiveOf(mapInfo)) /\ y \in Seq(LiveOf(mapInfo))
    <3> HIDE DEF late
    <3> QED BY <1>b, <1>g, <2>1 DEF Lists
  <2>3. u \in [1 .. Len(x) -> T] /\ \A i \in 1 .. Len(x) : u[i] = Record(mapInfo[x[i]])
    <3>1. u = [k \in 1 .. Len(x) |-> Record(mapInfo[x[k]])]
      BY <1>d
    <3>2. \A k \in 1 .. Len(x) : x[k] \in LiveOf(mapInfo)
      BY <1>b, <2>1 DEF Lists
    <3> HIDE DEF u, x, late
    <3>3. \A k \in 1 .. Len(x) : Record(mapInfo[x[k]]) \in T
      BY <3>2
    <3> HIDE DEF T
    <3> QED BY ONLY <3>1, <3>3
  <2>4. /\ \A m \in 1 .. Len(kept) : kept[m] \in 1 .. Len(tried)
        /\ \A k \in 1 .. Len(tried) : tried[k] \in LiveOf(mapInfo)
    BY <1>b, <1>f, <2>1 DEF Lists
  <2>5. ASSUME NEW m \in 1 .. Len(kept)
        PROVE  v[m] = Record(mapInfo[y[m]]) /\ v[m] \in T
    BY <1>d, <2>4
  <2>6. Len(y) = Len(kept) /\ Len(kept) \in Nat /\ Len(x) \in Nat
    BY <1>e, <1>f, <1>g
  <2>7. v \in [1 .. Len(kept) -> T]
    BY <2>5
  <2>8. /\ u \in Seq(T) /\ v \in Seq(T) /\ Len(u) = Len(x) /\ Len(v) = Len(y)
        /\ \A i \in 1 .. Len(y) : v[i] = Record(mapInfo[y[i]])
    <3> HIDE DEF v, T, x, y, u
    <3>1. u \in Seq(T) /\ Len(u) = Len(x)
      BY <2>3, <2>6
    <3>2. v \in Seq(T) /\ Len(v) = Len(kept)
      BY <2>6, <2>7
    <3> QED BY <2>5, <2>6, <3>1, <3>2
  <2> HIDE DEF v, T, x, y, u
  <2>9. /\ u \o v \in Seq(T) /\ Len(u \o v) = Len(x) + Len(y) /\ Len(x \o y) = Len(x) + Len(y)
        /\ \A i \in 1 .. Len(x) + Len(y) :
             /\ (u \o v)[i] = IF i <= Len(x) THEN u[i] ELSE v[i - Len(x)]
             /\ (x \o y)[i] = IF i <= Len(x) THEN x[i] ELSE y[i - Len(x)]
    <3> DEFINE L == LiveOf(mapInfo)
    <3>1. x \in Seq(L) /\ y \in Seq(L) /\ u \in Seq(T) /\ v \in Seq(T)
          /\ Len(u) = Len(x) /\ Len(v) = Len(y)
      BY <2>2, <2>8
    <3> HIDE DEF L
    <3>2. u \o v \in Seq(T) /\ Len(u \o v) = Len(u) + Len(v) /\ Len(x \o y) = Len(x) + Len(y)
      BY ONLY <3>1
    <3>3. \A i \in 1 .. Len(x) + Len(y) :
            (x \o y)[i] = IF i <= Len(x) THEN x[i] ELSE y[i - Len(x)]
      BY ONLY <3>1
    <3>4. \A i \in 1 .. Len(u) + Len(v) :
            (u \o v)[i] = IF i <= Len(u) THEN u[i] ELSE v[i - Len(u)]
      BY ONLY <3>1
    <3>5. Len(u) = Len(x) /\ Len(v) = Len(y)
      BY <3>1
    <3> QED BY ONLY <3>2, <3>3, <3>4, <3>5
  <2>10. ASSUME NEW i \in 1 .. Len(x) + Len(y) PROVE (u \o v)[i] = Record(mapInfo[(x \o y)[i]])
    <3>1. Len(x) \in Nat /\ Len(y) \in Nat
      BY <2>6
    <3>2. CASE i <= Len(x)
      BY <2>3, <2>9, <3>1, <3>2
    <3>3. CASE ~(i <= Len(x))
      <4>1. i - Len(x) \in 1 .. Len(y)
        BY <3>1, <3>3
      <4> QED BY <2>8, <2>9, <3>3, <4>1
    <3> QED BY <3>2, <3>3
  <2> QED BY <2>9, <2>10 DEF v, x, y, u
<1>o. \A i \in 0 .. Len(order) - 1 : /\ (i < Len(news) => order[i + 1] = news[i + 1] /\ order[i + 1] \in NewOf(mapInfo))
                    /\ (i >= Len(news) => order[i + 1] \in TriedOf(mapInfo))
  <2>1. /\ news \in Seq(NewOf(mapInfo)) /\ late \in Seq(TriedOf(mapInfo))
        /\ Len(news) \in Nat /\ Len(late) \in Nat
        /\ \A i \in 1 .. Len(news) : news[i] \in NewOf(mapInfo)
        /\ \A i \in 1 .. Len(late) : late[i] \in TriedOf(mapInfo)
    <3> HIDE DEF late
    <3> QED BY <1>b, <1>g DEF Lists
  <2> HIDE DEF late
  <2> SUFFICES ASSUME NEW i \in 0 .. Len(order) - 1
               PROVE  /\ (i < Len(news) => order[i + 1] = news[i + 1] /\ order[i + 1] \in NewOf(mapInfo))
                      /\ (i >= Len(news) => order[i + 1] \in TriedOf(mapInfo))
    OBVIOUS
  <2>2. /\ Len(order) = Len(news) + Len(late)
        /\ \A k \in 1 .. Len(order) : order[k] = IF k <= Len(news) THEN news[k] ELSE late[k - Len(news)]
    BY <2>1
  <2>3. i \in Nat /\ i + 1 \in 1 .. Len(order)
    BY <2>1, <2>2
  <2>4. CASE i < Len(news)
    <3>1. i + 1 <= Len(news) /\ i + 1 \in 1 .. Len(news) /\ ~(i >= Len(news))
      BY <2>1, <2>3, <2>4
    <3> QED BY <2>1, <2>2, <2>3, <3>1
  <2>5. CASE ~(i < Len(news))
    <3>1. ~(i + 1 <= Len(news)) /\ (i + 1) - Len(news) \in 1 .. Len(late)
      BY <2>1, <2>2, <2>3, <2>5
    <3>2. order[i + 1] = late[(i + 1) - Len(news)]
      BY <2>2, <2>3, <3>1
    <3> QED BY <2>1, <2>5, <3>1, <3>2
  <2> QED BY <2>4, <2>5
<1>j. /\ \A i \in 0 .. Len(news) - 1 : \A b \in NewBucket : Taken(file, b, i) <=> news[i + 1] \in vvNew[b]
      /\ \A i \in Nat : i >= Len(news) => \A b \in NewBucket : ~Taken(file, b, i)
  BY ONLY <1>2, <1>b, <1>d, AllTaken
<1>m. /\ nIdCount' = Len(infos)
      /\ mapInfo' =
           [i \in Id |->
              IF i \in 0 .. Len(infos) - 1
              THEN [addr |-> infos[i + 1].addr, source |-> infos[i + 1].source,
                    nLastSuccess |-> infos[i + 1].nLastSuccess,
                    nRefCount |-> Cardinality({b \in NewBucket : Taken(file, b, i)}),
                    fInTried |-> i >= Len(file.new), nRandomPos |-> i + 1]
              ELSE None]
      /\ mapAddr' = [h \in Host |->
                       IF {i \in 0 .. Len(infos) - 1 : Ip[infos[i + 1].addr] = h} = {} THEN None
                       ELSE CHOOSE i \in {i \in 0 .. Len(infos) - 1 : Ip[infos[i + 1].addr] = h} :
                              \A j \in {k \in 0 .. Len(infos) - 1 : Ip[infos[k + 1].addr] = h} : j <= i]
      /\ vRandom' = [p \in 1 .. Len(infos) |-> p - 1]
      /\ vvNew' = [b \in NewBucket |-> {i \in 0 .. Len(infos) - 1 : Taken(file, b, i)}]
      /\ \E vt \in [TriedBucket -> UNION {Ascending({i \in 0 .. Len(infos) - 1 :
                           i >= Len(file.new) /\ TriedBucketOf[infos[i + 1].addr] = b}) : b \in TriedBucket}] :
           /\ \A b \in TriedBucket :
                vt[b] \in Ascending({i \in 0 .. Len(infos) - 1 :
                           i >= Len(file.new) /\ TriedBucketOf[infos[i + 1].addr] = b})
           /\ vvTried' = vt
      /\ nTried' = nTried - (Len(file.tried) - Len(kept)) /\ nNew' = nNew
  BY ONLY <1>c, Zenon DEF Load
<1>5. /\ nIdCount' = n
      /\ mapInfo' =
           [i \in Id |->
              IF i \in H
              THEN [addr |-> infos[i + 1].addr, source |-> infos[i + 1].source,
                    nLastSuccess |-> infos[i + 1].nLastSuccess,
                    nRefCount |-> Cardinality({b \in NewBucket : Taken(file, b, i)}),
                    fInTried |-> i >= Len(file.new), nRandomPos |-> i + 1]
              ELSE None]
      /\ mapAddr' = [h \in Host |->
                       IF {i \in H : Ip[infos[i + 1].addr] = h} = {} THEN None
                       ELSE CHOOSE i \in {i \in H : Ip[infos[i + 1].addr] = h} :
                              \A j \in {k \in H : Ip[infos[k + 1].addr] = h} : j <= i]
      /\ vRandom' = [p \in 1 .. n |-> p - 1]
      /\ vvNew' = [b \in NewBucket |-> {i \in H : Taken(file, b, i)}]
      /\ nTried' = nTried - (Len(file.tried) - Len(kept)) /\ nNew' = nNew
  BY ONLY <1>m
<1>6. /\ vvTried' = [b \in TriedBucket |-> vvTried'[b]]
      /\ \A b \in TriedBucket :
           vvTried'[b] \in Ascending({i \in H : i >= Len(file.new) /\ TriedBucketOf[infos[i + 1].addr] = b})
  <2> DEFINE TriedIn(b) == {i \in H : i >= Len(file.new) /\ TriedBucketOf[infos[i + 1].addr] = b}
  <2>1. \E vt \in [TriedBucket -> UNION {Ascending(TriedIn(b)) : b \in TriedBucket}] :
           (\A b \in TriedBucket : vt[b] \in Ascending(TriedIn(b))) /\ vvTried' = vt
    BY ONLY <1>m, Zenon
  <2> DEFINE U == UNION {Ascending(TriedIn(b)) : b \in TriedBucket}
  <2>2. vvTried' \in [TriedBucket -> U] /\ \A b \in TriedBucket : vvTried'[b] \in Ascending(TriedIn(b))
    BY ONLY <2>1, Zenon
  <2>3. vvTried' = [b \in TriedBucket |-> vvTried'[b]]
    <3> HIDE DEF U
    <3> QED BY ONLY <2>2
  <2> QED BY ONLY <2>2, <2>3, Zenon
<1>n. n = Len(order) /\ Len(file.new) = Len(news)
  BY ONLY <1>e, <1>h
<1> HIDE DEF order, n, infos, late
<1>7. /\ n \in 0 .. MaxId
      /\ \A i \in 1 .. n : order[i] \in LiveOf(mapInfo)
      /\ \A i, j \in 1 .. n : order[i] = order[j] => i = j
      /\ \A x \in LiveOf(mapInfo) : \E i \in 1 .. n : order[i] = x
  BY ONLY <1>7a, <1>n
<1>i. \A i \in H : /\ (i < Len(news) => order[i + 1] = news[i + 1] /\ order[i + 1] \in NewOf(mapInfo))
                    /\ (i >= Len(news) => order[i + 1] \in TriedOf(mapInfo))
  BY ONLY <1>n, <1>o
<1>k. nTried' = nTried
  <2>1. nTried \in Nat
    BY <1>2, IdFinite DEF CountsOK, TriedOf, LiveOf
  <2> QED BY <1>5, <1>e, <1>f, <2>1
<1>8. n \in Nat /\ H \subseteq Id /\ H \subseteq Nat /\ \A i \in H : i + 1 \in 1 .. n /\ i + 1 \in Nat
  BY <1>7, SizesType DEF Id
<1>9. f \in [H -> LiveOf(mapInfo)] /\ \A i \in H : f[i] = order[i + 1]
  BY <1>7, <1>8
<1>10. /\ \A i, j \in H : f[i] = f[j] => i = j
       /\ \A x \in LiveOf(mapInfo) : \E i \in H : f[i] = x
  <2>1. ASSUME NEW i \in H, NEW j \in H, f[i] = f[j] PROVE i = j
    <3>1. i + 1 = j + 1
      BY <1>7, <1>8, <1>9, <2>1
    <3> QED BY <1>8, <3>1
  <2>2. ASSUME NEW x \in LiveOf(mapInfo) PROVE \E i \in H : f[i] = x
    <3>1. PICK p \in 1 .. n : order[p] = x
      BY <1>7
    <3>2. p - 1 \in H /\ (p - 1) + 1 = p
      BY <1>8
    <3> QED BY <1>9, <3>1, <3>2
  <2> QED BY <2>1, <2>2
<1> HIDE DEF H, f
<1>11. \A i \in H : infos[i + 1].addr = mapInfo[f[i]].addr
  <2>1. \A i \in 1 .. n : infos[i].addr = mapInfo[order[i]].addr
    <3> SUFFICES ASSUME NEW i \in 1 .. n PROVE infos[i].addr = mapInfo[order[i]].addr
      OBVIOUS
    <3> DEFINE e == mapInfo[order[i]]
    <3>1. infos[i] = Record(e)
      BY <1>h
    <3> HIDE DEF e
    <3>2. infos[i].addr = e.addr
      BY ONLY <3>1 DEF Record
    <3> QED BY <3>2 DEF e
  <2> QED BY ONLY <1>8, <1>9, <2>1
<1>12. \A i \in Id \ H : mapInfo'[i] = None
  BY <1>5
<1>l. ASSUME NEW i \in H
      PROVE  /\ (i >= Len(file.new)) = mapInfo[f[i]].fInTried
             /\ {b \in NewBucket : Taken(file, b, i)} = BucketsOf(vvNew, f[i])
             /\ Cardinality({b \in NewBucket : Taken(file, b, i)}) = mapInfo[f[i]].nRefCount
  <2>1. i \in Nat /\ Len(news) \in Nat /\ f[i] = order[i + 1]
    BY <1>8, <1>9, <1>e
  <2>2. CASE i < Len(news)
    <3>1. f[i] = news[i + 1] /\ f[i] \in NewOf(mapInfo) \ {} /\ i \in 0 .. Len(news) - 1 /\ ~(i >= Len(news))
      BY <1>i, <2>1, <2>2
    <3>2. {b \in NewBucket : Taken(file, b, i)} = BucketsOf(vvNew, f[i])
      BY <1>j, <3>1 DEF BucketsOf
    <3>3. mapInfo[f[i]].nRefCount = Cardinality(BucketsOf(vvNew, f[i]))
      BY <1>2, <3>1 DEF RefsOK
    <3>4. mapInfo[f[i]].fInTried = FALSE
      BY <1>2, <3>1, EntryType DEF NewOf
    <3>5. (i >= Len(file.new)) = FALSE
      <4>1. ~(i >= Len(file.new)) /\ i \in Nat /\ Len(file.new) \in Nat
        BY <1>n, <2>1, <3>1
      <4> QED BY ONLY <4>1
    <3> QED BY <3>2, <3>3, <3>4, <3>5
  <2>3. CASE i >= Len(news)
    <3>1. f[i] \in TriedOf(mapInfo) /\ f[i] \in TriedOf(mapInfo) \cup {}
      BY <1>i, <2>1, <2>3
    <3>2. \A b \in NewBucket : ~Taken(file, b, i)
      BY <1>j, <2>1, <2>3
    <3>3. \A b \in NewBucket : f[i] \notin vvNew[b]
      BY <1>2, <3>1 DEF RefsOK, NewOf, TriedOf
    <3>4. {b \in NewBucket : Taken(file, b, i)} = {} /\ BucketsOf(vvNew, f[i]) = {}
      BY <3>2, <3>3 DEF BucketsOf
    <3>5. mapInfo[f[i]].nRefCount = 0
      BY <1>2, <3>1 DEF RefsOK
    <3>6. mapInfo[f[i]].fInTried = TRUE
      BY <1>2, <3>1, EntryType DEF TriedOf
    <3>7. (i >= Len(file.new)) = TRUE
      <4>1. i >= Len(file.new)
        BY ONLY <1>n, <2>3
      <4> QED BY ONLY <4>1, Zenon
    <3> QED BY <3>4, <3>5, <3>6, <3>7, FS_EmptySet
  <2> QED BY <2>1, <2>2, <2>3
<1>13. \A i \in H : mapInfo[f[i]] \in Info
  BY <1>2, <1>9, EntryType
<1>14. \A i \in H : /\ mapInfo'[i] \in Info /\ mapInfo'[i] # None
                    /\ mapInfo'[i].nRandomPos = i + 1
                    /\ Alike(mapInfo[f[i]], mapInfo'[i])
  <2> SUFFICES ASSUME NEW i \in H
               PROVE  /\ mapInfo'[i] \in Info /\ mapInfo'[i] # None
                      /\ mapInfo'[i].nRandomPos = i + 1
                      /\ Alike(mapInfo[f[i]], mapInfo'[i])
    OBVIOUS
  <2> DEFINE e == mapInfo[f[i]]
             q == i + 1
             c == Cardinality({b \in NewBucket : Taken(file, b, i)})
             t == i >= Len(file.new)
  <2>1. mapInfo'[i] = [addr |-> infos[q].addr, source |-> infos[q].source,
                       nLastSuccess |-> infos[q].nLastSuccess,
                       nRefCount |-> c, fInTried |-> t, nRandomPos |-> q]
    BY <1>5, <1>8
  <2>2. infos[q] = Record(e)
    BY <1>8, <1>9, <1>h
  <2>3. e \in Info /\ q \in Nat /\ c = e.nRefCount /\ t = e.fInTried
    BY <1>8, <1>13, <1>l
  <2> HIDE DEF e, q, c, t
  <2>4. mapInfo'[i] = [addr |-> e.addr, source |-> e.source, nLastSuccess |-> e.nLastSuccess,
                       nRefCount |-> e.nRefCount, fInTried |-> e.fInTried, nRandomPos |-> q]
    BY ONLY <2>1, <2>2, <2>3 DEF Record
  <2>5. /\ mapInfo'[i] \in Info /\ mapInfo'[i].nRandomPos = q
    BY ONLY <2>3, <2>4 DEF Info
  <2>6. /\ mapInfo'[i].addr = e.addr /\ mapInfo'[i].source = e.source
        /\ mapInfo'[i].nLastSuccess = e.nLastSuccess
        /\ mapInfo'[i].nRefCount = e.nRefCount /\ mapInfo'[i].fInTried = e.fInTried
    BY ONLY <2>4
  <2>7. mapInfo'[i] # None /\ e # None
    BY <2>3, <2>5, NoneAssumption
  <2> QED BY <2>5, <2>6, <2>7 DEF q, e, Alike
<1>15. InfoOK(mapInfo')
  <2>1. \A i \in Id : mapInfo'[i] \in Info \cup {None}
    BY <1>12, <1>14
  <2>2. mapInfo' = [i \in Id |-> mapInfo'[i]]
    BY <1>5
  <2> QED BY <2>1, <2>2 DEF InfoOK
<1>16. LiveOf(mapInfo') = H
  BY <1>8, <1>12, <1>14 DEF LiveOf
<1>17. Renames(f, H, mapInfo, mapInfo')
  BY <1>2, <1>8, <1>9, <1>10, <1>14, <1>15, <1>16 DEF Renames
<1>18. ReAddr(mapAddr, mapAddr', f, H, mapInfo)
  <2>0. \A h \in Host : {i \in H : Ip[infos[i + 1].addr] = h} = {i \in H : Ip[mapInfo[f[i]].addr] = h}
    BY <1>11
  <2>1. mapAddr' = [h \in Host |-> mapAddr'[h]]
    BY <1>5
  <2>2. ASSUME NEW h \in Host, mapAddr[h] = None PROVE mapAddr'[h] = None
    <3>1. \A x \in LiveOf(mapInfo) : Ip[mapInfo[x].addr] # h
      <4>1. \A x \in LiveOf(mapInfo) : mapAddr[Ip[mapInfo[x].addr]] = x /\ x # None
        BY <1>2, AddrManAssumption DEF AddrOK, LiveOf
      <4> QED BY <2>2, <4>1
    <3>2. {i \in H : Ip[infos[i + 1].addr] = h} = {}
      BY <1>9, <1>11, <3>1
    <3> QED BY <1>5, <3>2
  <2>3. ASSUME NEW h \in Host, mapAddr[h] # None
        PROVE  mapAddr'[h] \in H /\ Ip[mapInfo[f[mapAddr'[h]]].addr] = h
    <3> DEFINE At == {i \in H : Ip[infos[i + 1].addr] = h}
    <3>1. mapAddr[h] \in LiveOf(mapInfo) /\ Ip[mapInfo[mapAddr[h]].addr] = h
      BY <1>2, <2>3 DEF AddrOK
    <3>2. PICK i \in H : f[i] = mapAddr[h]
      BY <1>10, <3>1
    <3>3. i \in At
      BY <1>11, <3>1, <3>2
    <3>4. ASSUME NEW j \in At PROVE j = i
      <4>1. j \in H /\ Ip[mapInfo[f[j]].addr] = h /\ f[j] \in LiveOf(mapInfo)
        BY <1>9, <1>11
      <4>2. f[j] = mapAddr[h]
        BY <1>2, <4>1 DEF AddrOK
      <4> QED BY <1>10, <3>2, <4>1, <4>2
    <3>5. mapAddr'[h] = CHOOSE k \in At : \A j \in At : j <= k
      BY <1>5, <3>3
    <3>6. \E k \in At : \A j \in At : j <= k
      <4>1. i \in Nat
        BY <1>8
      <4> HIDE DEF At
      <4> QED BY <3>3, <3>4, <4>1
    <3> HIDE DEF At
    <3>7. mapAddr'[h] \in At
      BY <3>5, <3>6
    <3> QED BY <1>11, <3>7 DEF At
  <2> QED BY <2>1, <2>2, <2>3 DEF ReAddr
<1>19. vvNew' = ReNews(vvNew, f, H)
  <2>1. \A b \in NewBucket : {i \in H : Taken(file, b, i)} = {i \in H : f[i] \in vvNew[b]}
    <3> SUFFICES ASSUME NEW b \in NewBucket, NEW i \in H
                 PROVE  Taken(file, b, i) <=> f[i] \in vvNew[b]
      OBVIOUS
    <3> QED BY <1>l DEF BucketsOf
  <2> QED BY <1>5, <2>1 DEF ReNews
<1>20. /\ AddrOK(mapInfo', mapAddr')
       /\ \A h \in Host : /\ mapAddr[h] = None => mapAddr'[h] = None
                          /\ mapAddr[h] # None => /\ mapAddr'[h] # None /\ mapAddr'[h] \in H
                                                  /\ f[mapAddr'[h]] = mapAddr[h]
  BY ONLY <1>2, <1>17, <1>18, RenamedAddr
<1>21. /\ RefsOK(mapInfo', vvNew', {})
       /\ \A i \in H : BucketsOf(vvNew', i) = BucketsOf(vvNew, f[i])
       /\ \A b \in NewBucket : Cardinality(vvNew'[b]) = Cardinality(vvNew[b])
  BY ONLY <1>2, <1>17, <1>19, RenamedRefs
<1>22. /\ CountsOK(mapInfo', nNew, nTried, {})
       /\ \A b \in TriedBucket : Cardinality(TriedFor(mapInfo', b)) = Cardinality(TriedFor(mapInfo, b))
  BY ONLY <1>2, <1>17, RenamedCounts
<1>23. /\ TriedOf(mapInfo') = {i \in H : f[i] \in TriedOf(mapInfo)}
       /\ \A i \in H : /\ mapInfo'[i].addr = mapInfo[f[i]].addr
                       /\ mapInfo'[i].source = mapInfo[f[i]].source
                       /\ mapInfo'[i].nLastSuccess = mapInfo[f[i]].nLastSuccess
                       /\ mapInfo'[i].nRefCount = mapInfo[f[i]].nRefCount
                       /\ mapInfo'[i].fInTried = mapInfo[f[i]].fInTried
  BY ONLY <1>17, RenamedSets
<1>24. TriedOK(mapInfo', vvTried') /\ \A b \in TriedBucket : Len(vvTried'[b]) = Len(vvTried[b])
  <2>1. ASSUME NEW b \in TriedBucket PROVE vvTried'[b] \in Ascending(TriedFor(mapInfo', b))
    <3>1. TriedFor(mapInfo', b) = {i \in H : /\ i >= Len(file.new)
                                             /\ TriedBucketOf[infos[i + 1].addr] = b}
      <4>1. \A i \in H : i >= Len(file.new) <=> f[i] \in TriedOf(mapInfo)
        <5>1. ASSUME NEW i \in H PROVE i >= Len(file.new) <=> f[i] \in TriedOf(mapInfo)
          <6>1. f[i] \in LiveOf(mapInfo) /\ (i >= Len(file.new)) = mapInfo[f[i]].fInTried
            BY <1>9, <1>l
          <6> QED BY ONLY <6>1, Zenon DEF TriedOf
        <5> QED BY <5>1
      <4>2. TriedFor(mapInfo', b) = {i \in TriedOf(mapInfo') : TriedBucketOf[mapInfo'[i].addr] = b}
        BY DEF TriedFor
      <4> QED BY ONLY <1>11, <1>23, <4>1, <4>2
    <3> QED BY <1>6, <3>1
  <2>2. \A i \in TriedOf(mapInfo') : mapInfo'[i].nLastSuccess # 0
    BY <1>2, <1>23 DEF TriedOK
  <2>3. TriedOK(mapInfo', vvTried')
        /\ \A b \in TriedBucket : Len(vvTried'[b]) = Cardinality(TriedFor(mapInfo', b))
    BY ONLY <1>6, <1>15, <2>1, <2>2, TriedRebuilt
  <2>4. \A b \in TriedBucket : Cardinality(TriedFor(mapInfo, b)) = Len(vvTried[b])
    BY ONLY <1>2, TriedSize
  <2> QED BY ONLY <1>22, <2>3, <2>4
<1>25. SizesOK(vvNew', vvTried')
  BY <1>2, <1>21, <1>24 DEF SizesOK
<1>26. RandomOK(mapInfo', vRandom')
  <2>1. vRandom' \in [1 .. n -> Id]
    <3>1. \A p \in 1 .. n : p - 1 \in H
      BY <1>8 DEF H
    <3> QED BY <1>5, <1>8, <3>1
  <2>2. vRandom' \in Seq(Id) /\ Len(vRandom') = n
    BY <1>8, <2>1
  <2>3. ASSUME NEW i \in H
        PROVE  mapInfo'[i].nRandomPos \in 1 .. n /\ vRandom'[mapInfo'[i].nRandomPos] = i
    <3>1. i \in Nat /\ i + 1 \in 1 .. n /\ (i + 1) - 1 = i /\ mapInfo'[i].nRandomPos = i + 1
      BY <1>8, <1>14
    <3> QED BY <1>5, <3>1
  <2>4. ASSUME NEW p \in 1 .. n
        PROVE  vRandom'[p] \in H /\ mapInfo'[vRandom'[p]].nRandomPos = p
    <3>1. vRandom'[p] = p - 1 /\ p - 1 \in H /\ (p - 1) + 1 = p
      BY <1>5, <1>8 DEF H
    <3> QED BY <1>14, <3>1
  <2> QED BY <1>16, <2>2, <2>3, <2>4 DEF RandomOK
<1>27. IdsOK(mapInfo', nIdCount')
  <2>1. \A i \in H : i < n
    BY <1>8 DEF H
  <2> QED BY <1>5, <1>7, <1>16, <2>1 DEF IdsOK
<1>28. Inv'
  BY <1>1, <1>5, <1>k, <1>15, <1>20, <1>21, <1>22, <1>24, <1>25, <1>26, <1>27, InvIdleNext DEF TablesOK
<1>29. TriedStay
  BY <1>20, AddrManAssumption DEF TriedStay, Tried, Live
<1>30. ASSUME NEW h \in Host PROVE Profile(h)' = Profile(h)
  <2>1. CASE mapAddr[h] = None
    BY <1>20, <2>1 DEF Profile
  <2>2. CASE mapAddr[h] # None
    <3>1. mapAddr'[h] # None /\ mapAddr'[h] \in H /\ f[mapAddr'[h]] = mapAddr[h]
      BY <1>20, <2>2
    <3>2. /\ BucketsWith(mapAddr[h])' = BucketsOf(vvNew', mapAddr'[h])
          /\ BucketsWith(mapAddr[h]) = BucketsOf(vvNew, mapAddr[h])
      BY DEF BucketsWith, BucketsOf
    <3>3. BucketsWith(mapAddr[h])' = BucketsWith(mapAddr[h])
      BY <1>21, <3>1, <3>2
    <3>4. /\ mapInfo'[mapAddr'[h]].addr = mapInfo[mapAddr[h]].addr
          /\ mapInfo'[mapAddr'[h]].source = mapInfo[mapAddr[h]].source
          /\ mapInfo'[mapAddr'[h]].nLastSuccess = mapInfo[mapAddr[h]].nLastSuccess
          /\ mapInfo'[mapAddr'[h]].nRefCount = mapInfo[mapAddr[h]].nRefCount
          /\ mapInfo'[mapAddr'[h]].fInTried = mapInfo[mapAddr[h]].fInTried
      BY <1>23, <3>1
    <3> QED BY <2>2, <3>1, <3>3, <3>4 DEF Profile
  <2> QED BY <2>1, <2>2
<1> QED BY <1>28, <1>29, <1>30

-----------------------------------------------------------------------------
(* The theorems. *)

\* The empty tables agree.
LEMMA InvInit ==
  ASSUME Init
  PROVE  Inv
<1> USE DEF Init
<1>1. LiveOf(mapInfo) = {}
  BY DEF LiveOf
<1>2. NewOf(mapInfo) = {} /\ TriedOf(mapInfo) = {} /\ Moving = {}
  BY <1>1 DEF NewOf, TriedOf, Moving
<1>3. IdsOK(mapInfo, nIdCount) /\ InfoOK(mapInfo)
  BY <1>1, SizesType DEF IdsOK, InfoOK
<1>4. RandomOK(mapInfo, vRandom)
  BY <1>1 DEF RandomOK
<1>5. AddrOK(mapInfo, mapAddr)
  BY <1>1 DEF AddrOK
<1>6. RefsOK(mapInfo, vvNew, {})
  BY <1>2 DEF RefsOK
<1>7. TriedOK(mapInfo, vvTried)
  <2>1. \A b \in TriedBucket : vvTried[b] = <<>> /\ 1 .. Len(vvTried[b]) = {}
    OBVIOUS
  <2>2. vvTried \in [TriedBucket -> Seq(Id)]
    OBVIOUS
  <2> QED BY <1>2, <2>1, <2>2 DEF TriedOK
<1>8. CountsOK(mapInfo, nNew, nTried, {})
  <2>1. NewOf(mapInfo) \ {} = {}
    BY <1>2
  <2> QED BY <1>2, <2>1, FS_EmptySet DEF CountsOK
<1>9. SizesOK(vvNew, vvTried)
  BY FS_EmptySet, SizesType DEF SizesOK
<1>10. EvictionOK /\ evicting \in Eviction \cup {None}
  BY DEF EvictionOK
<1> QED BY <1>2, <1>3, <1>4, <1>5, <1>6, <1>7, <1>8, <1>9, <1>10, InvAsTables DEF TablesOK

\* Every method keeps the tables in agreement and forgets no tried address.
LEMMA InvStep ==
  ASSUME Inv, [Next]_vars
  PROVE  Inv' /\ TriedStay
<1>1. ASSUME NEW s \in Service, NEW src \in Source, AddNew(s, src) PROVE Inv' /\ TriedStay
  BY <1>1, AddNewKeeps
<1>2. ASSUME NEW s \in Service, NEW src \in Source, AddKnown(s, src) PROVE Inv' /\ TriedStay
  BY <1>2, AddKnownKeeps
<1>3. ASSUME NEW s \in Service, NEW t \in Time, GoodAgain(s, t) PROVE Inv' /\ TriedStay
  BY <1>3, GoodAgainKeeps
<1>4. ASSUME NEW s \in Service, NEW t \in Time, NEW origin \in NewBucket, Good(s, t, origin)
      PROVE  Inv' /\ TriedStay
  BY <1>4, GoodKeeps
<1>5. ASSUME NEW nPos \in 1 .. TriedBucketSize, SelectTried(nPos) PROVE Inv' /\ TriedStay
  BY <1>5, SelectTriedKeeps
<1>6. CASE Evict
  BY <1>6, EvictKeeps
<1>7. ASSUME NEW n \in 1 .. Len(vRandom), NEW m \in 1 .. Len(vRandom), GetAddr(n, m)
      PROVE  Inv' /\ TriedStay
  BY <1>7, GetAddrKeeps
<1>8. CASE Restart
  BY <1>8, RestartKeeps
<1>9. CASE UNCHANGED vars
  <2>1. /\ nIdCount' = nIdCount /\ mapInfo' = mapInfo /\ mapAddr' = mapAddr
        /\ vRandom' = vRandom /\ nTried' = nTried /\ vvTried' = vvTried
        /\ nNew' = nNew /\ vvNew' = vvNew /\ evicting' = evicting
    BY <1>9 DEF vars
  <2>2. Moving' = Moving /\ (EvictionOK' <=> EvictionOK)
    BY <2>1 DEF Moving, EvictionOK, New, Live, EvictBucket
  <2>3. Inv'
    BY <2>1, <2>2, InvAsTables, InvAsTablesNext
  <2>4. TriedStay
    BY <2>1, AddrManAssumption DEF TriedStay, Tried, Live
  <2> QED BY <2>3, <2>4
<1> QED BY <1>1, <1>2, <1>3, <1>4, <1>5, <1>6, <1>7, <1>8, <1>9 DEF Next

\* The invariant holds in every state.
LEMMA Invariance == Spec => []Inv
<1>1. Init => Inv
  BY InvInit
<1>2. Inv /\ [Next]_vars => Inv'
  BY InvStep
<1> QED BY <1>1, <1>2, PTL DEF Spec

\* The five indexes of the address manager agree after every method and every
\* turn of SelectTried: Check_ of addrman.cpp would return 0.
THEOREM TablesConsistent == Spec => []Consistent
<1>1. Inv => Consistent
  BY DEF Inv
<1> QED BY <1>1, Invariance, PTL

\* No bucket is ever over its size: where MakeTried says of the bucket that
\* takes an evicted entry "there is certainly place there", there is.
THEOREM BucketsAreBounded == Spec => []BucketsBounded
<1>1. Inv => BucketsBounded
  BY DEF Inv
<1> QED BY <1>1, Invariance, PTL

\* An address in the tried table keeps its entry in every step: Add_, Good_
\* and the eviction move entries and delete only new ones.
THEOREM TriedAreNeverDeleted == Spec => TriedNeverDeleted
<1>1. Inv /\ [Next]_vars => [\A h \in Host : mapAddr[h] \in Tried => mapAddr'[h] # None]_vars
  BY InvStep DEF TriedStay
<1> QED BY <1>1, Invariance, PTL DEF Spec, TriedNeverDeleted

\* The tables read back from the file tell of every address what they told
\* before: reading drops no tried entry and no place in a bucket, and the
\* reference counts, the tried flags and the counters it rebuilds are those
\* that were not written.
THEOREM RestartLosesNothing == Spec => RestartKeepsAll
<1>1. Inv /\ [Next]_vars => [Restart => \A h \in Host : Profile(h)' = Profile(h)]_vars
  BY RestartKeeps
<1> QED BY <1>1, Invariance, PTL DEF Spec, RestartKeepsAll

=============================================================================
