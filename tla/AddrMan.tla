------------------------------ MODULE AddrMan -------------------------------
(***************************************************************************)
(* The address manager (addrman.cpp, addrman.h): the peers a node knows,   *)
(* in buckets of untried ("new") and of tried addresses, with four indexes *)
(* kept beside them.  Every public method takes the lock cs, so a method   *)
(* is one step; the loop of SelectTried, which changes a bucket while the  *)
(* lock is held, is a step per iteration.                                  *)
(*                                                                         *)
(* Bucket hashes are constant functions of the address and the source.     *)
(* Times other than nLastSuccess are left out, so what they decide is free:*)
(* whether an announcement of a known address is news, which entry of a    *)
(* full bucket is terrible or the oldest, how many calls of GetRandInt     *)
(* lead where.  Attempt_ and Connected_ change nothing else.               *)
(* Positions count from 1.                                                 *)
(***************************************************************************)
EXTENDS Integers, Sequences, FiniteSets

CONSTANTS
  Service,           \* addresses with a port
  Host,              \* addresses without one
  Source,            \* who announces
  Ip,                \* Ip[s]: the address of a service
  NewBucket,         \* the "new" buckets
  TriedBucket,       \* the "tried" buckets
  NewBucketOf,       \* NewBucketOf[h, src], GetNewBucket
  TriedBucketOf,     \* TriedBucketOf[s], GetTriedBucket
  NewBucketSize,     \* ADDRMAN_NEW_BUCKET_SIZE
  TriedBucketSize,   \* ADDRMAN_TRIED_BUCKET_SIZE
  BucketsPerAddress, \* ADDRMAN_NEW_BUCKETS_PER_ADDRESS
  Inspect,           \* ADDRMAN_TRIED_ENTRIES_INSPECT_ON_EVICT
  GetAddrPct,        \* ADDRMAN_GETADDR_MAX_PCT
  Time,              \* values of GetAdjustedTime
  MaxId,             \* bound: identifiers handed out between two restarts
  None

Id == 0 .. MaxId - 1

ASSUME AddrManAssumption ==
  /\ IsFiniteSet(NewBucket) /\ NewBucket \subseteq Nat
  /\ IsFiniteSet(TriedBucket)
  /\ Ip \in [Service -> Host]
  /\ NewBucketOf \in [Host \X Source -> NewBucket]
  /\ TriedBucketOf \in [Service -> TriedBucket]
  /\ NewBucketSize \in Nat \ {0}
  /\ TriedBucketSize \in Nat \ {0}
  /\ BucketsPerAddress \in Nat \ {0}
  /\ Inspect \in Nat \ {0}
  /\ GetAddrPct \in 0 .. 100
  /\ Time \subseteq Nat \ {0}
  /\ MaxId \in Nat \ {0}
  /\ None \notin Id

Info == [addr : Service, source : Source, nLastSuccess : Time \cup {0},
         nRefCount : Nat, fInTried : BOOLEAN, nRandomPos : Nat]

\* Good_ inside SelectTried: the entry to place, the bucket it was found in,
\* the loop's position and its choice.
Eviction == [id : Id, origin : NewBucket, i : 1 .. TriedBucketSize + 1,
             nOldest : Id \cup {None}, nOldestPos : 0 .. TriedBucketSize]

ASSUME NoneAssumption == None \notin Info \cup Eviction

VARIABLES
  nIdCount,   \* the next identifier
  mapInfo,    \* mapInfo[id]: the entry, or None
  mapAddr,    \* mapAddr[h]: its identifier, or None
  vRandom,    \* all identifiers in random order
  nTried,     \* number of tried entries
  vvTried,    \* vvTried[b]: sequence of identifiers
  nNew,       \* number of new entries
  vvNew,      \* vvNew[b]: set of identifiers
  evicting    \* Good_ inside SelectTried, or None

tables == <<nIdCount, mapInfo, mapAddr, vRandom, nTried, vvTried, nNew, vvNew>>
vars == <<nIdCount, mapInfo, mapAddr, vRandom, nTried, vvTried, nNew, vvNew, evicting>>

Live == {id \in Id : mapInfo[id] # None}
New == {id \in Live : ~mapInfo[id].fInTried}
Tried == {id \in Live : mapInfo[id].fInTried}

\* The entry that has left the new table and is not yet in the tried one.
Moving == IF evicting = None THEN {} ELSE {evicting.id}

\* The new buckets an entry is in.
BucketsWith(id) == {b \in NewBucket : id \in vvNew[b]}

SwapAt(seq, p, q) == [seq EXCEPT ![p] = seq[q], ![q] = seq[p]]

-----------------------------------------------------------------------------
Init ==
  /\ nIdCount = 0
  /\ mapInfo = [id \in Id |-> None]
  /\ mapAddr = [h \in Host |-> None]
  /\ vRandom = <<>>
  /\ nTried = 0
  /\ vvTried = [b \in TriedBucket |-> <<>>]
  /\ nNew = 0
  /\ vvNew = [b \in NewBucket |-> {}]
  /\ evicting = None

\* SwapRandom(nRandomPos, last) and the erasure of an entry: the last of the
\* list takes its place.
Erased(info, rnd, id) ==
  [info EXCEPT ![rnd[Len(rnd)]].nRandomPos = info[id].nRandomPos, ![id] = None]

\* SwapRandom(p, last) and pop_back.
WithoutPos(rnd, p) == SubSeq(SwapAt(rnd, p, Len(rnd)), 1, Len(rnd) - 1)

\* ShrinkNew: a reference to id is given up, and with the last one the entry.
ShrinkNew(info, addr, rnd, count, id) ==
  \/ /\ info[id].nRefCount # 1
     /\ mapInfo' = [info EXCEPT ![id].nRefCount = @ - 1]
     /\ mapAddr' = addr
     /\ vRandom' = rnd
     /\ nNew' = count
  \/ /\ info[id].nRefCount = 1
     /\ mapInfo' = Erased(info, rnd, id)
     /\ mapAddr' = [addr EXCEPT ![Ip[info[id].addr]] = None]
     /\ vRandom' = WithoutPos(rnd, info[id].nRandomPos)
     /\ nNew' = count - 1

\* The end of Add_: id goes into bucket b, whose size made room for it.
Insert(info, addr, rnd, count, id, b) ==
  \/ /\ Cardinality(vvNew[b]) # NewBucketSize
     /\ mapInfo' = info
     /\ mapAddr' = addr
     /\ vRandom' = rnd
     /\ nNew' = count
     /\ vvNew' = [vvNew EXCEPT ![b] = @ \cup {id}]
  \/ /\ Cardinality(vvNew[b]) = NewBucketSize
     /\ \E victim \in vvNew[b] :
          /\ ShrinkNew(info, addr, rnd, count, victim)
          /\ vvNew' = [vvNew EXCEPT ![b] = (@ \ {victim}) \cup {id}]

\* Add_ of an unknown address: Create, one reference, Insert.
AddNew(s, src) ==
  /\ evicting = None
  /\ mapAddr[Ip[s]] = None
  /\ nIdCount < MaxId
  /\ nIdCount' = nIdCount + 1
  /\ LET entry == [addr |-> s, source |-> src, nLastSuccess |-> 0, nRefCount |-> 1,
                   fInTried |-> FALSE, nRandomPos |-> Len(vRandom) + 1]
     IN  Insert([mapInfo EXCEPT ![nIdCount] = entry],
                [mapAddr EXCEPT ![Ip[s]] = nIdCount],
                Append(vRandom, nIdCount), nNew + 1,
                nIdCount, NewBucketOf[Ip[s], src])
  /\ UNCHANGED <<nTried, vvTried, evicting>>

\* Add_ of a known address that is news and passes the stochastic test: the
\* entry, found by its host, gets one more bucket.  Without them, nothing
\* modelled here changes.
AddKnown(s, src) ==
  LET id == mapAddr[Ip[s]]
      b == NewBucketOf[Ip[s], src]
  IN  /\ evicting = None
      /\ id # None
      /\ ~mapInfo[id].fInTried
      /\ mapInfo[id].nRefCount # BucketsPerAddress
      /\ id \notin vvNew[b]
      /\ Insert([mapInfo EXCEPT ![id].nRefCount = @ + 1], mapAddr, vRandom, nNew, id, b)
      /\ UNCHANGED <<nIdCount, nTried, vvTried, evicting>>

\* Good_ of an entry that is tried already: only its times change.
GoodAgain(s, t) ==
  LET id == mapAddr[Ip[s]]
  IN  /\ evicting = None
      /\ id # None
      /\ mapInfo[id].addr = s
      /\ mapInfo[id].fInTried
      /\ mapInfo' = [mapInfo EXCEPT ![id].nLastSuccess = t]
      /\ UNCHANGED <<nIdCount, mapAddr, vRandom, nTried, vvTried, nNew, vvNew, evicting>>

\* Mutant: the entry leaves only the bucket it was found in.
LeaveOrigin(id, origin) == [vvNew EXCEPT ![origin] = @ \ {id}]

\* MakeTried takes the entry out of every new bucket.
Leave(id, origin) == [b \in NewBucket |-> vvNew[b] \ {id}]

\* Good_ of a new entry, found in the bucket origin.  MakeTried puts it into
\* its tried bucket if there is room, else SelectTried begins.
Good(s, t, origin) ==
  LET id == mapAddr[Ip[s]]
      kb == TriedBucketOf[s]
      seen == [mapInfo EXCEPT ![id].nLastSuccess = t, ![id].nRefCount = 0]
  IN  /\ evicting = None
      /\ id # None
      /\ mapInfo[id].addr = s
      /\ ~mapInfo[id].fInTried
      /\ id \in vvNew[origin]
      /\ vvNew' = Leave(id, origin)
      /\ nNew' = nNew - 1
      /\ \/ /\ Len(vvTried[kb]) < TriedBucketSize
            /\ vvTried' = [vvTried EXCEPT ![kb] = Append(@, id)]
            /\ nTried' = nTried + 1
            /\ mapInfo' = [seen EXCEPT ![id].fInTried = TRUE]
            /\ UNCHANGED evicting
         \/ /\ Len(vvTried[kb]) >= TriedBucketSize
            /\ mapInfo' = seen
            /\ evicting' = [id |-> id, origin |-> origin, i |-> 1,
                            nOldest |-> None, nOldestPos |-> 0]
            /\ UNCHANGED <<vvTried, nTried>>
      /\ UNCHANGED <<nIdCount, mapAddr, vRandom>>

EvictBucket == TriedBucketOf[mapInfo[evicting.id].addr]

Inspecting == evicting.i <= Inspect /\ evicting.i <= Len(vvTried[EvictBucket])

\* One iteration of SelectTried: the entry at a random position nPos changes
\* places with the one at i.  The position remembered is nPos, where the entry
\* was before.
SelectTried(nPos) ==
  LET i == evicting.i
      vTried == vvTried[EvictBucket]
      nTemp == vTried[nPos]
  IN  /\ evicting # None
      /\ Inspecting
      /\ nPos \in i .. Len(vTried)
      /\ vvTried' = [vvTried EXCEPT ![EvictBucket] = SwapAt(vTried, nPos, i)]
      /\ evicting' =
           IF \/ evicting.nOldest = None
              \/ mapInfo[nTemp].nLastSuccess < mapInfo[evicting.nOldest].nLastSuccess
           THEN [evicting EXCEPT !.i = i + 1, !.nOldest = nTemp, !.nOldestPos = nPos]
           ELSE [evicting EXCEPT !.i = i + 1]
      /\ UNCHANGED <<nIdCount, mapInfo, mapAddr, vRandom, nTried, nNew, vvNew>>

\* Mutant: the evicted entry always goes to the bucket its source selects.
OwnBucket(old, origin) == NewBucketOf[Ip[mapInfo[old].addr], mapInfo[old].source]

\* Where the evicted entry goes: to the bucket its source selects or, when
\* that is full, to the one the new tried entry has just left.
Refuge(old, origin) ==
  LET own == NewBucketOf[Ip[mapInfo[old].addr], mapInfo[old].source]
  IN  IF Cardinality(vvNew[own]) < NewBucketSize THEN own ELSE origin

\* Mutant: the evicted entry is deleted.
EvictDeleting ==
  LET old == vvTried[EvictBucket][evicting.nOldestPos]
  IN  /\ evicting # None
      /\ ~Inspecting
      /\ mapInfo' = [Erased(mapInfo, vRandom, old) EXCEPT ![evicting.id].fInTried = TRUE]
      /\ mapAddr' = [mapAddr EXCEPT ![Ip[mapInfo[old].addr]] = None]
      /\ vRandom' = WithoutPos(vRandom, mapInfo[old].nRandomPos)
      /\ vvTried' = [vvTried EXCEPT ![EvictBucket][evicting.nOldestPos] = evicting.id]
      /\ evicting' = None
      /\ UNCHANGED <<nIdCount, nTried, nNew, vvNew>>

\* The rest of MakeTried: the chosen entry goes back to the new table and
\* the good one takes its place.
Evict ==
  LET old == vvTried[EvictBucket][evicting.nOldestPos]
  IN  /\ evicting # None
      /\ ~Inspecting
      /\ vvNew' = [vvNew EXCEPT ![Refuge(old, evicting.origin)] = @ \cup {old}]
      /\ mapInfo' = [mapInfo EXCEPT ![old].fInTried = FALSE, ![old].nRefCount = 1,
                                    ![evicting.id].fInTried = TRUE]
      /\ vvTried' = [vvTried EXCEPT ![EvictBucket][evicting.nOldestPos] = evicting.id]
      /\ nNew' = nNew + 1
      /\ evicting' = None
      /\ UNCHANGED <<nIdCount, mapAddr, vRandom, nTried>>

\* One SwapRandom of GetAddr_: position n is one of the first nNodes.
GetAddr(n, nRndPos) ==
  LET nNodes == (GetAddrPct * Len(vRandom)) \div 100
  IN  /\ evicting = None
      /\ n \in 1 .. nNodes
      /\ nRndPos \in n .. Len(vRandom)
      /\ vRandom' = SwapAt(vRandom, n, nRndPos)
      /\ mapInfo' = [mapInfo EXCEPT ![vRandom[n]].nRandomPos = nRndPos,
                                    ![vRandom[nRndPos]].nRandomPos = n]
      /\ UNCHANGED <<nIdCount, mapAddr, nTried, vvTried, nNew, vvNew, evicting>>

\* The members of a set of numbers in order; there is one such list.
Ascending(S) == {seq \in [1 .. Cardinality(S) -> S] :
                   \A i, j \in DOMAIN seq : i < j => seq[i] < seq[j]}

-----------------------------------------------------------------------------
(* peers.dat: IMPLEMENT_SERIALIZE of CAddrInfo and of CAddrMan.  The process
   stops in order, so that what is read is what was just written; a file from
   before a crash holds an earlier state of these tables.  Not modelled: a file
   written with another number of new buckets. *)

\* An entry on disk; nRefCount, fInTried and nRandomPos are memory only.
Record(e) == [addr |-> e.addr, source |-> e.source, nLastSuccess |-> e.nLastSuccess]

\* The writer stops after as many entries as it has announced.
Upto(seq, n) == IF n < Len(seq) THEN SubSeq(seq, 1, n) ELSE seq

\* Mutant: entries are numbered in mapUnkIds whether they are written or not.
IndexesOfAll(news, b) ==
  {k \in 0 .. MaxId - 1 : \E all \in Ascending(Live) : k < Len(all) /\ all[k + 1] \in vvNew[b]}

\* A bucket on disk: the places of its entries in the list of new entries.
Indexes(news, b) == {k \in 0 .. Len(news) - 1 : news[k + 1] \in vvNew[b]}

File(news, tried) ==
  [new     |-> [k \in 1 .. Len(news) |-> Record(mapInfo[news[k]])],
   tried   |-> [k \in 1 .. Len(tried) |-> Record(mapInfo[tried[k]])],
   buckets |-> [b \in NewBucket |-> Indexes(news, b)]]

\* The tried entries that find room in their bucket when the file is read.
Kept(file) ==
  {k \in 1 .. Len(file.tried) :
     Cardinality({j \in 1 .. k - 1 : TriedBucketOf[file.tried[j].addr]
                                      = TriedBucketOf[file.tried[k].addr]}) < TriedBucketSize}

\* Bucket b takes entry i when it is read: the buckets before it have not used
\* up the entry's references.
Taken(file, b, i) ==
  /\ i \in file.buckets[b]
  /\ Cardinality({c \in NewBucket : c < b /\ i \in file.buckets[c]}) < BucketsPerAddress

\* Reading: the new entries are numbered first, then the tried ones kept; every
\* table and every field that is not on disk is rebuilt.  nLost tried entries
\* are dropped.
Load(file, kept) ==
  LET infos == file.new \o [m \in 1 .. Len(kept) |-> file.tried[kept[m]]]
      Here == 0 .. Len(infos) - 1
      At(h) == {i \in Here : Ip[infos[i + 1].addr] = h}
      TriedIn(b) == {i \in Here : i >= Len(file.new) /\ TriedBucketOf[infos[i + 1].addr] = b}
      nLost == Len(file.tried) - Len(kept)
  IN  /\ nIdCount' = Len(infos)
      /\ mapInfo' =
           [i \in Id |->
              IF i \in Here
              THEN [addr |-> infos[i + 1].addr, source |-> infos[i + 1].source,
                    nLastSuccess |-> infos[i + 1].nLastSuccess,
                    nRefCount |-> Cardinality({b \in NewBucket : Taken(file, b, i)}),
                    fInTried |-> i >= Len(file.new), nRandomPos |-> i + 1]
              ELSE None]
      /\ mapAddr' = [h \in Host |-> IF At(h) = {} THEN None
                                     ELSE CHOOSE i \in At(h) : \A j \in At(h) : j <= i]
      /\ vRandom' = [p \in 1 .. Len(infos) |-> p - 1]
      /\ vvNew' = [b \in NewBucket |-> {i \in Here : Taken(file, b, i)}]
      /\ \E vt \in [TriedBucket -> UNION {Ascending(TriedIn(b)) : b \in TriedBucket}] :
           /\ \A b \in TriedBucket : vt[b] \in Ascending(TriedIn(b))
           /\ vvTried' = vt
      /\ nTried' = nTried - nLost
      /\ UNCHANGED nNew

\* The tables are written to peers.dat and read back.  Written are the entries
\* with references and those in tried, by their old identifiers.
Restart ==
  /\ evicting = None
  /\ \E news \in Ascending({id \in Live : mapInfo[id].nRefCount # 0}), tried \in Ascending(Tried) :
       LET file == File(Upto(news, nNew), Upto(tried, nTried))
       IN  \E kept \in Ascending(Kept(file)) : Load(file, kept)
  /\ UNCHANGED evicting

-----------------------------------------------------------------------------
Next ==
  \/ \E s \in Service, src \in Source : AddNew(s, src)
  \/ \E s \in Service, src \in Source : AddKnown(s, src)
  \/ \E s \in Service, t \in Time : GoodAgain(s, t)
  \/ \E s \in Service, t \in Time, origin \in NewBucket : Good(s, t, origin)
  \/ \E nPos \in 1 .. TriedBucketSize : SelectTried(nPos)
  \/ Evict
  \/ \E n, nRndPos \in 1 .. Len(vRandom) : GetAddr(n, nRndPos)
  \/ Restart

Spec == Init /\ [][Next]_vars

-----------------------------------------------------------------------------
\* Type invariant.
TypeOK ==
  /\ nIdCount \in 0 .. MaxId
  /\ mapInfo \in [Id -> Info \cup {None}]
  /\ mapAddr \in [Host -> Id \cup {None}]
  /\ vRandom \in Seq(Id)
  /\ nTried \in Nat
  /\ vvTried \in [TriedBucket -> Seq(Id)]
  /\ nNew \in Nat
  /\ vvNew \in [NewBucket -> SUBSET Id]
  /\ evicting \in Eviction \cup {None}

\* vRandom lists every entry once, and every entry knows its place in it
\* (codes -7 and -14 of Check_).  A deletion moves the last entry of the list.
RandomExact ==
  /\ \A id \in Live : /\ mapInfo[id].nRandomPos \in 1 .. Len(vRandom)
                      /\ vRandom[mapInfo[id].nRandomPos] = id
  /\ \A p \in 1 .. Len(vRandom) : /\ vRandom[p] \in Live
                                  /\ mapInfo[vRandom[p]].nRandomPos = p

\* The index by address holds every entry, under its own address, and nothing
\* else (code -5 of Check_): an address is never in the tables twice.
AddrExact ==
  /\ \A id \in Live : mapAddr[Ip[mapInfo[id].addr]] = id
  /\ \A h \in Host : mapAddr[h] # None =>
       mapAddr[h] \in Live /\ Ip[mapInfo[mapAddr[h]].addr] = h

\* A new entry's reference count is the number of new buckets it is in, one
\* at least and BucketsPerAddress at most; tried entries are in none (codes
\* -2, -3, -4, -12, -15 of Check_).  ShrinkNew deletes by this count, and its
\* assertions and those of Select_ rest on the buckets holding live entries.
ReferencesExact ==
  /\ \A b \in NewBucket : vvNew[b] \subseteq New \ Moving
  /\ \A id \in New \ Moving :
       /\ mapInfo[id].nRefCount = Cardinality(BucketsWith(id))
       /\ mapInfo[id].nRefCount \in 1 .. BucketsPerAddress
  /\ \A id \in Tried \cup Moving : mapInfo[id].nRefCount = 0

\* A tried entry is once in the tried buckets, in the one its address selects,
\* and has been connected to (codes -1, -11, -13 of Check_).
TriedOnce ==
  /\ \A id \in Tried :
       /\ mapInfo[id].nLastSuccess # 0
       /\ \E p \in DOMAIN vvTried[TriedBucketOf[mapInfo[id].addr]] :
            vvTried[TriedBucketOf[mapInfo[id].addr]][p] = id
  /\ \A b \in TriedBucket : \A p \in DOMAIN vvTried[b] :
       /\ vvTried[b][p] \in Tried
       /\ TriedBucketOf[mapInfo[vvTried[b][p]].addr] = b
       /\ \A q \in DOMAIN vvTried[b] : vvTried[b][p] = vvTried[b][q] => p = q

\* The counters are right (codes -9 and -10 of Check_).  Select_ picks a table
\* by its counter and then looks for a non-empty bucket without end.
CountsExact ==
  /\ nNew = Cardinality(New \ Moving)
  /\ nTried = Cardinality(Tried)

\* The tables agree after every method, whatever was added, evicted, shuffled
\* and reloaded before, and no index outlives its entry: Check_ would find
\* nothing wrong.
Consistent ==
  TypeOK /\ RandomExact /\ AddrExact /\ ReferencesExact /\ TriedOnce /\ CountsExact

\* No bucket grows past its size: "there is certainly place there", MakeTried
\* says of the bucket that takes an evicted entry.
BucketsBounded ==
  /\ \A b \in NewBucket : Cardinality(vvNew[b]) <= NewBucketSize
  /\ \A b \in TriedBucket : Len(vvTried[b]) <= TriedBucketSize

\* Addresses "are never deleted while in the tried table, only possibly
\* evicted back to the new table" (addrman.h).
TriedNeverDeleted ==
  [][\A h \in Host : mapAddr[h] \in Tried => mapAddr'[h] # None]_vars

\* What is known of an address.
Profile(h) ==
  IF mapAddr[h] = None THEN None
  ELSE LET e == mapInfo[mapAddr[h]]
       IN  [addr |-> e.addr, source |-> e.source, nLastSuccess |-> e.nLastSuccess,
            nRefCount |-> e.nRefCount, fInTried |-> e.fInTried,
            in |-> BucketsWith(mapAddr[h])]

\* Writing the tables and reading them back changes nothing that is known of
\* any address, though every identifier may change.
RestartKeepsAll == [][Restart => \A h \in Host : Profile(h)' = Profile(h)]_vars

=============================================================================
