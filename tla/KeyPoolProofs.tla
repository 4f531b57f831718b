--------------------------- MODULE KeyPoolProofs ----------------------------
(***************************************************************************)
(* TLAPS proofs about KeyPool, for every number of reservations, every     *)
(* size of the pool and every number of keys.                              *)
(***************************************************************************)
EXTENDS KeyPool, TLAPS, FiniteSetTheorems, WellFoundedInduction

Reservation == [nIndex : Index, key : Key]

\* A record holds a reserved key only at the index that was reserved: what
\* KeepKey erases is the record of the key it keeps, or of no used key.
HeldInPlace ==
  \A c \in Held : \A i \in Index : pool[i] = reserved[c].key => i = reserved[c].nIndex

UsedGenerated == \A k \in used : k <= nKeys

\* The inductive invariant.
IInv ==
  /\ TypeOK
  /\ UsedNeverPooled
  /\ KeysOnce
  /\ PoolBacked
  /\ ReservedExclusive
  /\ HeldInPlace
  /\ UsedGenerated

-----------------------------------------------------------------------------
(* Lemmas about the operators. *)

\* A non-empty set of natural numbers has a least member.
LEMMA LeastMember ==
  ASSUME NEW S, S \subseteq Nat, S # {}
  PROVE  \E i \in S : \A j \in S : i <= j
<1>1. PICK x \in S : \A y \in S : ~(<<y, x>> \in OpToRel(<, Nat))
  BY NatLessThanWellFounded, WFMin
<1>2. ASSUME NEW y \in S, y < x PROVE FALSE
  <2>1. x \in Nat /\ y \in Nat
    OBVIOUS
  <2>2. <<y, x>> \in OpToRel(<, Nat)
    BY <1>2, <2>1 DEF OpToRel
  <2> QED  BY <1>1, <2>2
<1> QED  BY <1>2

LEMMA LowestMember ==
  ASSUME NEW S, S \subseteq Nat, S # {}
  PROVE  Lowest(S) \in S
BY LeastMember DEF Lowest

\* A non-empty set of indexes has a greatest member.
LEMMA HighestMember ==
  ASSUME NEW S, S \subseteq Index, S # {}
  PROVE  Highest(S) \in S
<1> DEFINE Mirror == {MaxKey - i : i \in S}
<1>1. MaxKey \in Nat
  BY KeyPoolAssumption
<1>2. Mirror \subseteq Nat /\ Mirror # {}
  <2>1. \A i \in S : MaxKey - i \in Nat
    BY <1>1 DEF Index
  <2>2. PICK i : i \in S
    OBVIOUS
  <2>3. MaxKey - i \in Mirror
    BY <2>2
  <2>4. Mirror \subseteq Nat
    BY <2>1
  <2> QED  BY <2>3, <2>4
<1>3. PICK m \in Mirror : \A j \in Mirror : m <= j
  BY <1>2, LeastMember
<1>4. PICK i \in S : m = MaxKey - i
  BY <1>3
<1>5. \A j \in S : j <= i
  BY <1>1, <1>3, <1>4 DEF Index
<1> QED  BY <1>5 DEF Highest

LEMMA FirstFreeType ==
  ASSUME setKeyPool \subseteq Index
  PROVE  FirstFree \in Nat /\ FirstFree >= 1
<1>1. MaxKey \in Nat
  BY KeyPoolAssumption
<1>2. CASE setKeyPool = {}
  BY <1>2 DEF FirstFree
<1>3. CASE setKeyPool # {}
  <2>1. Highest(setKeyPool) \in Index
    BY <1>3, HighestMember
  <2> QED  BY <1>1, <1>3, <2>1 DEF FirstFree, Index
<1> QED  BY <1>2, <1>3

LEMMA PoolSizeType ==
  ASSUME setKeyPool \subseteq Index
  PROVE  Cardinality(setKeyPool) \in Nat
<1>1. 1 \in Int /\ MaxKey \in Int
  BY KeyPoolAssumption
<1>2. IsFiniteSet(Index)
  BY <1>1, FS_Interval DEF Index
<1> QED  BY <1>2, FS_Subset, FS_CardinalityType

LEMMA MissingType ==
  ASSUME setKeyPool \subseteq Index, NEW size \in Nat
  PROVE  Missing(size) \in Nat
<1>1. Cardinality(setKeyPool) \in Nat
  BY PoolSizeType
<1> QED  BY <1>1 DEF Missing

LEMMA HeldType ==
  ASSUME TypeOK, NEW c \in Held
  PROVE  /\ c \in Client /\ reserved[c] \in Reservation
         /\ reserved[c].nIndex \in Index /\ reserved[c].key \in Key
BY DEF TypeOK, Held, Reservation

\* What new records do: their keys are new, so that the records differ from
\* each other, from every key that was used and from every key that is held.
LEMMA NewRecords ==
  ASSUME TypeOK, UsedNeverPooled, KeysOnce, HeldInPlace, UsedGenerated,
         NEW first \in Nat, first >= 1, NEW n \in Nat, nKeys + n <= MaxKey
  PROVE  LET f == WithNew(first, n)
             new == first .. first + n - 1
         IN  /\ f \in [Index -> Key \cup {None}]
             /\ nKeys + n \in 0 .. MaxKey
             /\ \A i, j \in Index : f[i] # None /\ f[i] = f[j] => i = j
             /\ \A i \in Index : f[i] # None => f[i] <= nKeys + n
             /\ \A i \in Index : f[i] \notin used
             /\ \A c \in Held : reserved[c].key <= nKeys + n
             /\ \A c \in Held, i \in Index : f[i] = reserved[c].key => i = reserved[c].nIndex
             /\ \A k \in used : k <= nKeys + n
             /\ \A i \in Index \cap new : f[i] # None
             /\ \A i \in Index \ new : f[i] = pool[i]
<1> DEFINE f == WithNew(first, n)
           new == first .. first + n - 1
<1>1. /\ MaxKey \in Nat /\ nKeys \in Nat /\ nKeys <= MaxKey
      /\ used \subseteq Key /\ pool \in [Index -> Key \cup {None}]
  BY KeyPoolAssumption DEF TypeOK
<1>2. \A i \in Index : f[i] = IF i \in new THEN nKeys + 1 + i - first ELSE pool[i]
  BY DEF WithNew
<1>3. ASSUME NEW i \in Index, i \in new
      PROVE  /\ f[i] \in Key /\ f[i] > nKeys /\ f[i] <= nKeys + n
             /\ f[i] = nKeys + 1 + i - first
             /\ f[i] # None
  <2>1. f[i] = nKeys + 1 + i - first
    BY <1>2, <1>3
  <2>2. f[i] \in Key /\ f[i] > nKeys /\ f[i] <= nKeys + n
    BY <1>1, <1>3, <2>1 DEF Key, Index
  <2> QED  BY <2>1, <2>2, KeyPoolAssumption
<1>4. ASSUME NEW i \in Index, i \notin new
      PROVE  /\ f[i] = pool[i]
             /\ f[i] # None => f[i] \in Key /\ f[i] <= nKeys
  <2>1. f[i] = pool[i]
    BY <1>2, <1>4
  <2> QED  BY <1>1, <2>1 DEF KeysOnce, Written
<1>5. f \in [Index -> Key \cup {None}]
  <2>1. \A i \in Index : f[i] \in Key \cup {None}
    BY <1>3, <1>4
  <2>2. f = [i \in Index |-> f[i]]
    BY DEF WithNew
  <2> QED  BY <2>1, <2>2
<1>6. nKeys + n \in 0 .. MaxKey
  BY <1>1
<1>7. ASSUME NEW i \in Index, NEW j \in Index, f[i] # None, f[i] = f[j]
      PROVE  i = j
  <2>1. i \in Int /\ j \in Int
    BY DEF Index
  <2>2. CASE i \in new /\ j \in new
    BY <1>1, <1>3, <1>7, <2>1, <2>2
  <2>3. CASE i \in new /\ j \notin new
    BY <1>1, <1>3, <1>4, <1>7, <2>3 DEF Key
  <2>4. CASE i \notin new /\ j \in new
    BY <1>1, <1>3, <1>4, <1>7, <2>4 DEF Key
  <2>5. CASE i \notin new /\ j \notin new
    BY <1>4, <1>7, <2>5 DEF KeysOnce, Written
  <2> QED  BY <2>2, <2>3, <2>4, <2>5
<1>8. \A i \in Index : f[i] # None => f[i] <= nKeys + n
  <2> SUFFICES ASSUME NEW i \in Index, f[i] # None PROVE f[i] <= nKeys + n
    OBVIOUS
  <2>1. CASE i \in new
    BY <1>3, <2>1
  <2>2. CASE i \notin new
    BY <1>1, <1>4, <2>2 DEF Key
  <2> QED  BY <2>1, <2>2
<1>9. \A i \in Index : f[i] \notin used
  <2> SUFFICES ASSUME NEW i \in Index, f[i] \in used PROVE FALSE
    OBVIOUS
  <2>1. CASE i \in new
    BY <1>1, <1>3, <2>1 DEF UsedGenerated, Key
  <2>2. CASE i \notin new
    BY <1>4, <2>2 DEF UsedNeverPooled
  <2> QED  BY <2>1, <2>2
<1>10. ASSUME NEW c \in Held
       PROVE  /\ reserved[c].key <= nKeys + n
              /\ \A i \in Index : f[i] = reserved[c].key => i = reserved[c].nIndex
  <2>1. reserved[c].key \in Key /\ reserved[c].key <= nKeys
    BY HeldType DEF KeysOnce
  <2>2. ASSUME NEW i \in Index, f[i] = reserved[c].key
        PROVE  i = reserved[c].nIndex
    <3>1. i \notin new
      BY <1>1, <1>3, <2>1, <2>2 DEF Key
    <3> QED  BY <1>4, <2>2, <3>1 DEF HeldInPlace
  <2> QED  BY <1>1, <2>1, <2>2 DEF Key
<1>11. \A k \in used : k <= nKeys + n
  BY <1>1 DEF UsedGenerated, Key
<1> HIDE DEF f
<1> QED  BY <1>3, <1>4, <1>5, <1>6, <1>7, <1>8, <1>9, <1>10, <1>11 DEF f

-----------------------------------------------------------------------------
(* The invariant. *)

LEMMA InitInv == Init => IInv
<1> SUFFICES ASSUME Init PROVE IInv
  OBVIOUS
<1>1. TypeOK
  <2>1. MaxKey \in Nat
    BY KeyPoolAssumption
  <2>2. nKeys \in 0 .. MaxKey
    BY <2>1 DEF Init
  <2>3. crypted \in BOOLEAN /\ locked \in BOOLEAN /\ reissued \in BOOLEAN
    BY Zenon DEF Init
  <2> QED  BY <2>2, <2>3 DEF Init, TypeOK
<1>2. Held = {} /\ Written = {} /\ used = {} /\ setKeyPool = {}
  BY DEF Init, Held, Written
<1> QED
  BY <1>1, <1>2 DEF IInv, UsedNeverPooled, KeysOnce, PoolBacked, ReservedExclusive,
                    HeldInPlace, UsedGenerated

\* A refill, of which GetReservedKey and GetKeyFromPool may then take an index.
LEMMA RefillStep ==
  ASSUME IInv, NEW size \in RefillSize \cup {TargetSize}, Generate(FirstFree, Missing(size))
  PROVE  LET n == Missing(size)
             f == WithNew(FirstFree, n)
             S == Refilled(n)
         IN  /\ f \in [Index -> Key \cup {None}] /\ S \subseteq Index
             /\ nKeys' \in 0 .. MaxKey /\ reissued' \in BOOLEAN
             /\ \A i, j \in Index : f[i] # None /\ f[i] = f[j] => i = j
             /\ \A i \in Index : f[i] # None => f[i] <= nKeys'
             /\ \A i \in Index : f[i] \notin used
             /\ \A c \in Held : reserved[c].key <= nKeys'
             /\ \A c \in Held, i \in Index : f[i] = reserved[c].key => i = reserved[c].nIndex
             /\ \A k \in used : k <= nKeys'
             /\ ~reissued' => ~reissued
             /\ ~reissued' /\ rekeying # "erase" => \A i \in S : f[i] # None
             /\ ~reissued' => \A c \in Held : /\ reserved[c].nIndex \notin S
                                              /\ f[reserved[c].nIndex] = reserved[c].key
<1> DEFINE n == Missing(size)
           f == WithNew(FirstFree, n)
           S == Refilled(n)
<1>1. /\ TypeOK /\ setKeyPool \subseteq Index /\ MaxKey \in Nat /\ size \in Nat
      /\ UsedNeverPooled /\ KeysOnce /\ HeldInPlace /\ UsedGenerated
  BY KeyPoolAssumption DEF IInv, TypeOK
<1>2. FirstFree \in Nat /\ FirstFree >= 1 /\ n \in Nat
  BY <1>1, FirstFreeType, MissingType
<1>3. /\ nKeys + n <= MaxKey /\ FirstFree + n - 1 <= MaxKey /\ nKeys' = nKeys + n
      /\ reissued' = (reissued \/ \E c \in Held : reserved[c].nIndex \in NewIndexes(n))
  BY DEF Generate, NewIndexes
<1>4. NewIndexes(n) \subseteq Index /\ NewIndexes(n) = FirstFree .. FirstFree + n - 1
  BY <1>1, <1>2, <1>3 DEF NewIndexes, Index
<1> HIDE DEF n
<1>5. /\ f \in [Index -> Key \cup {None}]
      /\ nKeys + n \in 0 .. MaxKey
      /\ \A i, j \in Index : f[i] # None /\ f[i] = f[j] => i = j
      /\ \A i \in Index : f[i] # None => f[i] <= nKeys + n
      /\ \A i \in Index : f[i] \notin used
      /\ \A c \in Held : reserved[c].key <= nKeys + n
      /\ \A c \in Held, i \in Index : f[i] = reserved[c].key => i = reserved[c].nIndex
      /\ \A k \in used : k <= nKeys + n
      /\ \A i \in NewIndexes(n) : f[i] # None
      /\ \A i \in Index \ NewIndexes(n) : f[i] = pool[i]
  <2> HIDE DEF f
  <2>1. /\ \A i \in Index \cap (FirstFree .. FirstFree + n - 1) : f[i] # None
        /\ \A i \in Index \ (FirstFree .. FirstFree + n - 1) : f[i] = pool[i]
    BY <1>1, <1>2, <1>3, NewRecords DEF f
  <2> QED  BY <1>1, <1>2, <1>3, <1>4, <2>1, NewRecords DEF f
<1> HIDE DEF f
<1>6. S \subseteq Index
  BY <1>1, <1>4 DEF Refilled
<1>7. reissued' \in BOOLEAN /\ (~reissued' => ~reissued)
  BY <1>3
<1>8. ASSUME ~reissued', rekeying # "erase", NEW i \in S
      PROVE  f[i] # None
  <2>1. CASE i \in NewIndexes(n)
    BY <1>5, <2>1
  <2>2. CASE i \notin NewIndexes(n)
    <3>1. i \in setKeyPool /\ i \in Index
      BY <1>6, <1>8, <2>2 DEF Refilled
    <3>2. pool[i] # None
      BY <1>7, <1>8, <3>1 DEF IInv, PoolBacked, Written
    <3> QED  BY <1>5, <2>2, <3>1, <3>2
  <2> QED  BY <2>1, <2>2
<1>9. ASSUME ~reissued', NEW c \in Held
      PROVE  reserved[c].nIndex \notin S /\ f[reserved[c].nIndex] = reserved[c].key
  <2>1. /\ reserved[c].nIndex \notin setKeyPool
        /\ pool[reserved[c].nIndex] = reserved[c].key
    BY <1>7, <1>9 DEF IInv, ReservedExclusive
  <2>2. reserved[c].nIndex \notin NewIndexes(n)
    BY <1>3, <1>9
  <2>3. reserved[c].nIndex \in Index
    BY <1>1, HeldType
  <2> QED  BY <1>5, <2>1, <2>2, <2>3 DEF Refilled
<1> QED  BY <1>3, <1>5, <1>6, <1>7, <1>8, <1>9 DEF f, n

LEMMA RefillKeeps ==
  ASSUME IInv, NEW size \in RefillSize \cup {TargetSize}, TopUpKeyPool(size)
  PROVE  IInv'
<1> DEFINE n == Missing(size)
           f == WithNew(FirstFree, n)
           S == Refilled(n)
<1>1. /\ pool' = f /\ setKeyPool' = S /\ Generate(FirstFree, n)
      /\ UNCHANGED <<reserved, used, crypted, locked, rekeying>>
  BY DEF TopUpKeyPool
<1>2. Held' = Held
  BY <1>1 DEF Held
<1> HIDE DEF n, f, S
<1>3. TypeOK'
  BY <1>1, RefillStep DEF IInv, TypeOK, n, f, S
<1>4. UsedNeverPooled' /\ UsedGenerated'
  BY <1>1, RefillStep DEF UsedNeverPooled, UsedGenerated, n, f, S
<1>5. KeysOnce' /\ HeldInPlace'
  BY <1>1, <1>2, RefillStep DEF KeysOnce, HeldInPlace, Written, n, f, S
<1>6. PoolBacked'
  BY <1>1, RefillStep DEF PoolBacked, Written, n, f, S
<1>7. ReservedExclusive'
  BY <1>1, <1>2, RefillStep DEF IInv, ReservedExclusive, n, f, S
<1> QED  BY <1>3, <1>4, <1>5, <1>6, <1>7 DEF IInv

LEMMA ReserveKeeps ==
  ASSUME IInv, NEW c \in Client, GetReservedKey(c)
  PROVE  IInv'
<1> DEFINE n == Missing(TargetSize)
           f == WithNew(FirstFree, n)
           S == Refilled(n)
           i == Lowest(S)
<1>1. /\ pool' = f /\ Generate(FirstFree, n) /\ reserved[c] = None /\ S # {}
      /\ rekeying = "no"
      /\ UNCHANGED <<used, crypted, locked, rekeying>>
      /\ \/ /\ f[i] # None
            /\ setKeyPool' = S \ {i}
            /\ reserved' = [reserved EXCEPT ![c] = [nIndex |-> i, key |-> f[i]]]
         \/ setKeyPool' = S /\ reserved' = reserved
  BY DEF GetReservedKey
<1>2. TargetSize \in RefillSize \cup {TargetSize}
  OBVIOUS
<1> HIDE DEF n, f, S
<1>3. /\ f \in [Index -> Key \cup {None}] /\ S \subseteq Index
      /\ nKeys' \in 0 .. MaxKey /\ reissued' \in BOOLEAN
      /\ \A k, j \in Index : f[k] # None /\ f[k] = f[j] => k = j
      /\ \A j \in Index : f[j] # None => f[j] <= nKeys'
      /\ \A j \in Index : f[j] \notin used
      /\ \A d \in Held : reserved[d].key <= nKeys'
      /\ \A d \in Held, j \in Index : f[j] = reserved[d].key => j = reserved[d].nIndex
      /\ \A k \in used : k <= nKeys'
      /\ ~reissued' => ~reissued
      /\ ~reissued' => \A j \in S : f[j] # None
      /\ ~reissued' => \A d \in Held : /\ reserved[d].nIndex \notin S
                                       /\ f[reserved[d].nIndex] = reserved[d].key
  BY <1>1, <1>2, RefillStep DEF n, f, S
<1>4. i \in S /\ i \in Index
  <2>1. S \subseteq Nat
    BY <1>3, KeyPoolAssumption DEF Index
  <2> QED  BY <1>1, <1>3, <2>1, LowestMember
<1> HIDE DEF i
<1>5. TypeOK /\ ReservedExclusive
  BY DEF IInv
<1>6. CASE /\ f[i] # None
           /\ setKeyPool' = S \ {i}
           /\ reserved' = [reserved EXCEPT ![c] = [nIndex |-> i, key |-> f[i]]]
  <2>1. /\ c \notin Held /\ Held' = Held \cup {c}
        /\ reserved'[c] = [nIndex |-> i, key |-> f[i]]
        /\ \A d \in Held : reserved'[d] = reserved[d]
    <3>1. f[i] \in Key /\ [nIndex |-> i, key |-> f[i]] \in Reservation
      BY <1>3, <1>4, <1>6 DEF Reservation
    <3>2. [nIndex |-> i, key |-> f[i]] # None
      BY <3>1, KeyPoolAssumption DEF Reservation
    <3> QED  BY <1>1, <1>5, <1>6, <3>2 DEF Held, TypeOK
  <2>2. TypeOK'
    <3>1. [nIndex |-> i, key |-> f[i]] \in [nIndex : Index, key : Key]
      BY <1>3, <1>4, <1>6
    <3> QED  BY <1>1, <1>3, <1>5, <1>6, <3>1 DEF TypeOK
  <2>3. UsedNeverPooled' /\ UsedGenerated'
    BY <1>1, <1>3 DEF UsedNeverPooled, UsedGenerated
  <2>4. KeysOnce'
    BY <1>1, <1>3, <1>4, <1>6, <2>1 DEF KeysOnce, Written
  <2>5. HeldInPlace'
    BY <1>1, <1>3, <1>4, <1>6, <2>1 DEF HeldInPlace
  <2>6. PoolBacked'
    BY <1>1, <1>3, <1>6 DEF PoolBacked, Written
  <2>7. ReservedExclusive'
    BY <1>1, <1>3, <1>4, <1>5, <1>6, <2>1 DEF ReservedExclusive
  <2> QED  BY <2>2, <2>3, <2>4, <2>5, <2>6, <2>7 DEF IInv
<1>7. CASE setKeyPool' = S /\ reserved' = reserved
  <2>1. Held' = Held
    BY <1>7 DEF Held
  <2>2. TypeOK'
    BY <1>1, <1>3, <1>5, <1>7 DEF TypeOK
  <2>3. UsedNeverPooled' /\ UsedGenerated'
    BY <1>1, <1>3 DEF UsedNeverPooled, UsedGenerated
  <2>4. KeysOnce' /\ HeldInPlace'
    BY <1>1, <1>3, <1>7, <2>1 DEF KeysOnce, HeldInPlace, Written
  <2>5. PoolBacked'
    BY <1>1, <1>3, <1>7 DEF PoolBacked, Written
  <2>6. ReservedExclusive'
    BY <1>1, <1>3, <1>5, <1>7, <2>1 DEF ReservedExclusive
  <2> QED  BY <2>2, <2>3, <2>4, <2>5, <2>6 DEF IInv
<1> QED  BY <1>1, <1>6, <1>7

LEMMA KeepKeeps ==
  ASSUME IInv, NEW c \in Client, KeepKey(c)
  PROVE  IInv'
<1> DEFINE i == reserved[c].nIndex
           k == reserved[c].key
<1>1. /\ reserved[c] # None
      /\ pool' = [pool EXCEPT ![i] = None]
      /\ used' = used \cup {k}
      /\ reserved' = [reserved EXCEPT ![c] = None]
      /\ UNCHANGED <<setKeyPool, nKeys, crypted, locked, rekeying, reissued>>
  BY DEF KeepKey
<1>2. TypeOK /\ UsedNeverPooled /\ KeysOnce /\ PoolBacked /\ ReservedExclusive
      /\ HeldInPlace /\ UsedGenerated
  BY DEF IInv
<1>3. c \in Held /\ i \in Index /\ k \in Key
  BY <1>1, <1>2, HeldType DEF Held
<1>4. Held' = Held \ {c} /\ \A d \in Held' : d \in Held /\ reserved'[d] = reserved[d]
  BY <1>1, <1>2 DEF Held, TypeOK
<1>5. pool'[i] = None /\ \A j \in Index : j # i => pool'[j] = pool[j]
  BY <1>1, <1>2, <1>3 DEF TypeOK
<1>6. TypeOK'
  BY <1>1, <1>2, <1>3 DEF TypeOK
<1>7. None \notin Key
  BY KeyPoolAssumption
<1>8. UsedNeverPooled'
  <2> SUFFICES ASSUME NEW j \in Index, pool'[j] \in used' PROVE FALSE
    BY DEF UsedNeverPooled
  <2>1. CASE j = i
    <3>1. None \in used'
      BY <1>3, <1>5, <2>1
    <3> QED  BY <1>6, <1>7, <3>1 DEF TypeOK
  <2>2. CASE j # i
    BY <1>1, <1>2, <1>3, <1>5, <2>2 DEF UsedNeverPooled, HeldInPlace
  <2> QED  BY <2>1, <2>2
<1>9. KeysOnce'
  BY <1>1, <1>2, <1>4, <1>5 DEF KeysOnce, Written
<1>10. HeldInPlace'
  <2> SUFFICES ASSUME NEW d \in Held', NEW j \in Index, pool'[j] = reserved'[d].key
               PROVE  j = reserved'[d].nIndex
    BY DEF HeldInPlace
  <2>1. reserved[d].key \in Key /\ reserved'[d] = reserved[d] /\ d \in Held
    BY <1>2, <1>4, HeldType
  <2> QED  BY <1>2, <1>3, <1>5, <1>7, <2>1 DEF HeldInPlace
<1>11. UsedGenerated'
  BY <1>1, <1>2, <1>3 DEF UsedGenerated, KeysOnce
<1>12. PoolBacked'
  BY <1>1, <1>2, <1>3, <1>5 DEF PoolBacked, ReservedExclusive, Written, TypeOK
<1>13. ReservedExclusive'
  <2> SUFFICES ASSUME ~reissued', NEW d \in Held'
               PROVE  /\ reserved'[d].nIndex \notin setKeyPool'
                      /\ pool'[reserved'[d].nIndex] = reserved'[d].key
                      /\ reserved'[d].key \notin used'
                      /\ \A e \in Held' : reserved'[d].nIndex = reserved'[e].nIndex => d = e
    BY DEF ReservedExclusive
  <2>1. /\ d \in Held /\ d # c /\ reserved'[d] = reserved[d]
        /\ reserved[d].nIndex \in Index
    BY <1>2, <1>4, HeldType
  <2>2. /\ ~reissued /\ reserved[d].nIndex # i
        /\ pool[reserved[d].nIndex] = reserved[d].key /\ pool[i] = k
        /\ reserved[d].key \notin used /\ reserved[d].nIndex \notin setKeyPool
    BY <1>1, <1>2, <1>3, <2>1 DEF ReservedExclusive
  <2>3. reserved[d].key # k
    BY <1>2, <1>3, <2>1, <2>2 DEF HeldInPlace
  <2> QED  BY <1>1, <1>2, <1>4, <1>5, <2>1, <2>2, <2>3 DEF ReservedExclusive
<1> QED  BY <1>6, <1>8, <1>9, <1>10, <1>11, <1>12, <1>13 DEF IInv

LEMMA ReturnKeeps ==
  ASSUME IInv, NEW c \in Client, ReturnKey(c)
  PROVE  IInv'
<1> DEFINE i == reserved[c].nIndex
<1>1. /\ reserved[c] # None
      /\ setKeyPool' = setKeyPool \cup {i}
      /\ reserved' = [reserved EXCEPT ![c] = None]
      /\ UNCHANGED <<pool, used, nKeys, crypted, locked, rekeying, reissued>>
  BY DEF ReturnKey
<1>2. TypeOK /\ UsedNeverPooled /\ KeysOnce /\ PoolBacked /\ ReservedExclusive
      /\ HeldInPlace /\ UsedGenerated
  BY DEF IInv
<1>3. c \in Held /\ i \in Index /\ reserved[c].key \in Key /\ None \notin Key
  BY <1>1, <1>2, HeldType, KeyPoolAssumption DEF Held
<1>4. Held' = Held \ {c} /\ \A d \in Held' : d \in Held /\ reserved'[d] = reserved[d]
  BY <1>1, <1>2 DEF Held, TypeOK
<1>5. TypeOK'
  BY <1>1, <1>2, <1>3 DEF TypeOK
<1>6. UsedNeverPooled' /\ UsedGenerated'
  BY <1>1, <1>2 DEF UsedNeverPooled, UsedGenerated
<1>7. KeysOnce' /\ HeldInPlace'
  BY <1>1, <1>2, <1>4 DEF KeysOnce, HeldInPlace, Written
<1>8. PoolBacked'
  BY <1>1, <1>2, <1>3 DEF PoolBacked, ReservedExclusive, Written
<1>9. ReservedExclusive'
  BY <1>1, <1>2, <1>3, <1>4 DEF ReservedExclusive
<1> QED  BY <1>5, <1>6, <1>7, <1>8, <1>9 DEF IInv

LEMMA TakeKeeps ==
  ASSUME IInv, GetKeyFromPool
  PROVE  IInv'
<1> DEFINE n == Missing(TargetSize)
           f == WithNew(FirstFree, n)
           S == Refilled(n)
           i == Lowest(S)
<1>1. /\ pool' = [f EXCEPT ![i] = None] /\ Generate(FirstFree, n) /\ S # {}
      /\ setKeyPool' = S \ {i}
      /\ used' = used \cup ({f[i]} \ {None})
      /\ rekeying = "no"
      /\ UNCHANGED <<reserved, crypted, locked, rekeying>>
  BY DEF GetKeyFromPool
<1>2. TargetSize \in RefillSize \cup {TargetSize}
  OBVIOUS
<1> HIDE DEF n, f, S
<1>3. /\ f \in [Index -> Key \cup {None}] /\ S \subseteq Index
      /\ nKeys' \in 0 .. MaxKey /\ reissued' \in BOOLEAN
      /\ \A k, j \in Index : f[k] # None /\ f[k] = f[j] => k = j
      /\ \A j \in Index : f[j] # None => f[j] <= nKeys'
      /\ \A j \in Index : f[j] \notin used
      /\ \A d \in Held : reserved[d].key <= nKeys'
      /\ \A d \in Held, j \in Index : f[j] = reserved[d].key => j = reserved[d].nIndex
      /\ \A k \in used : k <= nKeys'
      /\ ~reissued' => ~reissued
      /\ ~reissued' => \A j \in S : f[j] # None
      /\ ~reissued' => \A d \in Held : /\ reserved[d].nIndex \notin S
                                       /\ f[reserved[d].nIndex] = reserved[d].key
  BY <1>1, <1>2, RefillStep DEF n, f, S
<1>4. i \in S /\ i \in Index
  <2>1. S \subseteq Nat
    BY <1>3, KeyPoolAssumption DEF Index
  <2> QED  BY <1>1, <1>3, <2>1, LowestMember
<1> HIDE DEF i
<1>5. TypeOK /\ ReservedExclusive /\ Held' = Held /\ None \notin Key
  BY <1>1, KeyPoolAssumption DEF IInv, Held
<1>6. pool'[i] = None /\ \A j \in Index : j # i => pool'[j] = f[j]
  BY <1>1, <1>3, <1>4
<1>7. TypeOK'
  BY <1>1, <1>3, <1>4, <1>5 DEF TypeOK
<1>8. UsedNeverPooled'
  <2> SUFFICES ASSUME NEW j \in Index, pool'[j] \in used' PROVE FALSE
    BY DEF UsedNeverPooled
  <2>1. j # i
    BY <1>5, <1>6, <1>7 DEF TypeOK
  <2>2. pool'[j] = f[j] /\ (f[j] \in used \/ (f[j] = f[i] /\ f[i] # None))
    BY <1>1, <1>6, <2>1
  <2> QED  BY <1>3, <1>4, <2>1, <2>2
<1>9. KeysOnce'
  BY <1>1, <1>3, <1>5, <1>6 DEF KeysOnce, Written
<1>10. HeldInPlace'
  <2> SUFFICES ASSUME NEW d \in Held, NEW j \in Index, pool'[j] = reserved[d].key
               PROVE  j = reserved[d].nIndex
    BY <1>1, <1>5 DEF HeldInPlace
  <2>1. reserved[d].key \in Key
    BY <1>5, HeldType
  <2> QED  BY <1>3, <1>5, <1>6, <2>1
<1>11. UsedGenerated'
  BY <1>1, <1>3, <1>4 DEF UsedGenerated
<1>12. PoolBacked'
  BY <1>1, <1>3, <1>6 DEF PoolBacked, Written
<1>13. ReservedExclusive'
  <2> SUFFICES ASSUME ~reissued', NEW d \in Held
               PROVE  /\ reserved[d].nIndex \notin setKeyPool'
                      /\ pool'[reserved[d].nIndex] = reserved[d].key
                      /\ reserved[d].key \notin used'
                      /\ \A e \in Held : reserved[d].nIndex = reserved[e].nIndex => d = e
    BY <1>1, <1>5 DEF ReservedExclusive
  <2>1. /\ reserved[d].nIndex \in Index /\ reserved[d].nIndex \notin S
        /\ f[reserved[d].nIndex] = reserved[d].key
    BY <1>3, <1>5, HeldType
  <2>2. reserved[d].key \notin used'
    BY <1>1, <1>3, <1>4, <2>1
  <2>3. \A e \in Held : reserved[d].nIndex = reserved[e].nIndex => d = e
    BY <1>3, <1>5 DEF ReservedExclusive
  <2> QED  BY <1>1, <1>4, <1>6, <2>1, <2>2, <2>3
<1> QED  BY <1>7, <1>8, <1>9, <1>10, <1>11, <1>12, <1>13 DEF IInv

\* EncryptWallet, Lock and Unlock leave the pool alone.
LEMMA PhaseKeeps ==
  ASSUME IInv, EncryptWallet \/ LockUnlock
  PROVE  IInv'
<1>1. /\ UNCHANGED <<pool, setKeyPool, reserved, used, nKeys, reissued>>
      /\ crypted' \in BOOLEAN /\ locked' \in BOOLEAN
      /\ rekeying' \in {"no", "erase", "write"}
      /\ rekeying' # "erase" => rekeying # "erase"
  BY DEF EncryptWallet, LockUnlock, IInv, TypeOK
<1>2. Held' = Held /\ Written' = Written
  BY <1>1 DEF Held, Written
<1>3. TypeOK'
  BY <1>1 DEF IInv, TypeOK
<1>4. UsedNeverPooled' /\ UsedGenerated' /\ KeysOnce' /\ HeldInPlace'
  BY <1>1, <1>2 DEF IInv, UsedNeverPooled, UsedGenerated, KeysOnce, HeldInPlace
<1>5. PoolBacked' /\ ReservedExclusive'
  BY <1>1, <1>2 DEF IInv, PoolBacked, ReservedExclusive
<1> QED  BY <1>3, <1>4, <1>5 DEF IInv

LEMMA EraseKeeps ==
  ASSUME IInv, ErasePool
  PROVE  IInv'
<1>1. TypeOK /\ UsedNeverPooled /\ KeysOnce /\ PoolBacked /\ ReservedExclusive
      /\ HeldInPlace /\ UsedGenerated /\ None \notin Key
  BY KeyPoolAssumption DEF IInv
<1>2. /\ UNCHANGED <<reserved, used, nKeys, crypted, locked, reissued>>
      /\ rekeying = "erase" /\ Held' = Held
  BY DEF ErasePool, Held
<1>3. CASE /\ setKeyPool \cap Written # {}
           /\ pool' = [pool EXCEPT ![Lowest(setKeyPool \cap Written)] = None]
           /\ UNCHANGED <<setKeyPool, rekeying>>
  <2> DEFINE i == Lowest(setKeyPool \cap Written)
  <2>1. i \in setKeyPool /\ i \in Index
    <3>1. setKeyPool \cap Written \subseteq Nat
      <4>1. setKeyPool \subseteq Index
        BY <1>1 DEF TypeOK
      <4>2. Index \subseteq Nat
        BY KeyPoolAssumption DEF Index
      <4> QED  BY <4>1, <4>2
    <3>2. i \in setKeyPool \cap Written
      BY <1>3, <3>1, LowestMember
    <3> QED  BY <3>2 DEF Written
  <2> HIDE DEF i
  <2>2. pool' = [pool EXCEPT ![i] = None]
    BY <1>3 DEF i
  <2>3. pool'[i] = None /\ \A j \in Index : j # i => pool'[j] = pool[j]
    BY <1>1, <2>1, <2>2 DEF TypeOK
  <2>4. TypeOK'
    BY <1>1, <1>2, <1>3, <2>1, <2>2 DEF TypeOK
  <2>5. UsedNeverPooled' /\ UsedGenerated'
    BY <1>1, <1>2, <2>3 DEF UsedNeverPooled, UsedGenerated, TypeOK
  <2>6. KeysOnce'
    BY <1>1, <1>2, <2>3 DEF KeysOnce, Written
  <2>7. HeldInPlace'
    <3> SUFFICES ASSUME NEW d \in Held, NEW j \in Index, pool'[j] = reserved[d].key
                 PROVE  j = reserved[d].nIndex
      BY <1>2 DEF HeldInPlace
    <3>1. reserved[d].key \in Key
      BY <1>1, HeldType
    <3> QED  BY <1>1, <2>3, <3>1 DEF HeldInPlace
  <2>8. PoolBacked'
    BY <1>2, <1>3 DEF PoolBacked
  <2>9. ReservedExclusive'
    <3> SUFFICES ASSUME ~reissued, NEW d \in Held
                 PROVE  /\ reserved[d].nIndex \notin setKeyPool'
                        /\ pool'[reserved[d].nIndex] = reserved[d].key
                        /\ reserved[d].key \notin used
                        /\ \A e \in Held : reserved[d].nIndex = reserved[e].nIndex => d = e
      BY <1>2 DEF ReservedExclusive
    <3>1. reserved[d].nIndex \in Index
      BY <1>1, HeldType
    <3> QED  BY <1>1, <1>3, <2>1, <2>3, <3>1 DEF ReservedExclusive
  <2> QED  BY <2>4, <2>5, <2>6, <2>7, <2>8, <2>9 DEF IInv
<1>4. CASE setKeyPool' = {} /\ rekeying' = "write" /\ pool' = pool
  <2>1. TypeOK'
    BY <1>1, <1>2, <1>4 DEF TypeOK
  <2>2. UsedNeverPooled' /\ UsedGenerated' /\ KeysOnce' /\ HeldInPlace'
    BY <1>1, <1>2, <1>4 DEF UsedNeverPooled, UsedGenerated, KeysOnce, HeldInPlace, Written
  <2>3. PoolBacked' /\ ReservedExclusive'
    BY <1>1, <1>2, <1>4 DEF PoolBacked, ReservedExclusive
  <2> QED  BY <2>1, <2>2, <2>3 DEF IInv
<1> QED  BY <1>3, <1>4 DEF ErasePool

LEMMA WriteKeeps ==
  ASSUME IInv, WritePool
  PROVE  IInv'
<1> DEFINE i == Cardinality(setKeyPool) + 1
           f == WithNew(i, 1)
<1>1. TypeOK /\ UsedNeverPooled /\ KeysOnce /\ PoolBacked /\ ReservedExclusive
      /\ HeldInPlace /\ UsedGenerated /\ MaxKey \in Nat
  BY KeyPoolAssumption DEF IInv
<1>2. UNCHANGED <<reserved, used, crypted>> /\ rekeying = "write" /\ Held' = Held
  BY DEF WritePool, Held
<1>3. i \in Nat /\ i >= 1
  <2>1. Cardinality(setKeyPool) \in Nat
    BY <1>1, PoolSizeType DEF TypeOK
  <2> QED  BY <2>1
<1>4. CASE /\ Generate(i, 1)
           /\ pool' = f
           /\ setKeyPool' = setKeyPool \cup {i}
           /\ UNCHANGED <<rekeying, locked>>
  <2> HIDE DEF i
  <2>1. i .. i + 1 - 1 = {i}
    BY <1>3
  <2>2. /\ nKeys + 1 <= MaxKey /\ i <= MaxKey /\ nKeys' = nKeys + 1
        /\ reissued' = (reissued \/ \E c \in Held : reserved[c].nIndex = i)
    BY <1>3, <1>4, <2>1 DEF Generate
  <2>3. i \in Index
    BY <1>1, <1>3, <2>2 DEF Index
  <2> HIDE DEF f
  <2>4. /\ f \in [Index -> Key \cup {None}]
        /\ nKeys' \in 0 .. MaxKey
        /\ \A k, j \in Index : f[k] # None /\ f[k] = f[j] => k = j
        /\ \A j \in Index : f[j] # None => f[j] <= nKeys'
        /\ \A j \in Index : f[j] \notin used
        /\ \A c \in Held : reserved[c].key <= nKeys'
        /\ \A c \in Held, j \in Index : f[j] = reserved[c].key => j = reserved[c].nIndex
        /\ \A k \in used : k <= nKeys'
        /\ f[i] # None
        /\ \A j \in Index \ {i} : f[j] = pool[j]
    BY <1>1, <1>3, <2>1, <2>2, <2>3, NewRecords DEF f
  <2>5. reissued' \in BOOLEAN /\ (~reissued' => ~reissued)
    BY <2>2
  <2>6. TypeOK'
    BY <1>1, <1>2, <1>4, <2>3, <2>4, <2>5 DEF TypeOK
  <2>7. UsedNeverPooled' /\ UsedGenerated'
    BY <1>2, <1>4, <2>4 DEF UsedNeverPooled, UsedGenerated
  <2>8. KeysOnce' /\ HeldInPlace'
    BY <1>2, <1>4, <2>4 DEF KeysOnce, HeldInPlace, Written
  <2>9. PoolBacked'
    <3> SUFFICES ASSUME ~reissued', NEW j \in setKeyPool' PROVE j \in Index /\ f[j] # None
      BY <1>4 DEF PoolBacked, Written
    <3>1. j # i => j \in Index /\ pool[j] # None
      BY <1>1, <1>2, <1>4, <2>5 DEF PoolBacked, Written
    <3> QED  BY <2>3, <2>4, <3>1
  <2>10. ReservedExclusive'
    <3> SUFFICES ASSUME ~reissued', NEW d \in Held
                 PROVE  /\ reserved[d].nIndex \notin setKeyPool'
                        /\ pool'[reserved[d].nIndex] = reserved[d].key
                        /\ reserved[d].key \notin used
                        /\ \A e \in Held : reserved[d].nIndex = reserved[e].nIndex => d = e
      BY <1>2 DEF ReservedExclusive
    <3>1. reserved[d].nIndex \in Index /\ reserved[d].nIndex # i /\ ~reissued
      BY <1>1, <2>2, HeldType
    <3> QED  BY <1>1, <1>4, <2>4, <3>1 DEF ReservedExclusive
  <2> QED  BY <2>6, <2>7, <2>8, <2>9, <2>10 DEF IInv
<1>5. CASE /\ rekeying' = "no" /\ locked' = TRUE
           /\ UNCHANGED <<pool, setKeyPool, nKeys, reissued>>
  <2>1. TypeOK'
    BY <1>1, <1>2, <1>5 DEF TypeOK
  <2>2. UsedNeverPooled' /\ UsedGenerated' /\ KeysOnce' /\ HeldInPlace'
    BY <1>1, <1>2, <1>5 DEF UsedNeverPooled, UsedGenerated, KeysOnce, HeldInPlace, Written
  <2>3. PoolBacked' /\ ReservedExclusive'
    BY <1>1, <1>2, <1>5 DEF PoolBacked, ReservedExclusive, Written
  <2> QED  BY <2>1, <2>2, <2>3 DEF IInv
<1> QED  BY <1>4, <1>5 DEF WritePool

LEMMA RestartKeeps ==
  ASSUME IInv, NEW n \in Nat, Restart(n)
  PROVE  IInv'
<1>1. TypeOK /\ UsedNeverPooled /\ KeysOnce /\ HeldInPlace /\ UsedGenerated
      /\ FirstFree \in Nat /\ FirstFree >= 1
  BY FirstFreeType DEF IInv, TypeOK
<1> DEFINE f == WithNew(FirstFree, n)
<1>2. /\ nKeys + n <= MaxKey /\ nKeys' = nKeys + n /\ pool' = f
      /\ setKeyPool' = Written'
      /\ reserved' = [c \in Client |-> None]
      /\ locked' = crypted /\ rekeying' = "no" /\ reissued' = FALSE
      /\ UNCHANGED <<used, crypted>>
  BY DEF Restart, Written
<1> HIDE DEF f
<1>3. /\ f \in [Index -> Key \cup {None}]
      /\ nKeys' \in 0 .. MaxKey
      /\ \A k, j \in Index : f[k] # None /\ f[k] = f[j] => k = j
      /\ \A j \in Index : f[j] # None => f[j] <= nKeys'
      /\ \A j \in Index : f[j] \notin used
      /\ \A k \in used : k <= nKeys'
  BY <1>1, <1>2, NewRecords DEF f
<1>4. Held' = {}
  BY <1>2 DEF Held
<1>5. TypeOK'
  <2>1. reissued' \in BOOLEAN
    BY <1>2, Zenon
  <2>2. reserved' \in [Client -> [nIndex : Index, key : Key] \cup {None}]
    BY <1>2
  <2>3. setKeyPool' \subseteq Index
    BY <1>2 DEF Written
  <2> QED  BY <1>1, <1>2, <1>3, <2>1, <2>2, <2>3 DEF TypeOK
<1>6. UsedNeverPooled' /\ UsedGenerated'
  BY <1>2, <1>3 DEF UsedNeverPooled, UsedGenerated
<1>7. KeysOnce' /\ HeldInPlace'
  BY <1>2, <1>3, <1>4 DEF KeysOnce, HeldInPlace, Written
<1>8. PoolBacked' /\ ReservedExclusive'
  BY <1>2, <1>4 DEF PoolBacked, ReservedExclusive
<1> QED  BY <1>5, <1>6, <1>7, <1>8 DEF IInv

LEMMA StepInv == IInv /\ [Next]_vars => IInv'
<1> SUFFICES ASSUME IInv, [Next]_vars PROVE IInv'
  OBVIOUS
<1>1. ASSUME NEW size \in RefillSize \cup {TargetSize}, TopUpKeyPool(size) PROVE IInv'
  BY <1>1, RefillKeeps
<1>2. ASSUME NEW c \in Client, GetReservedKey(c) PROVE IInv'
  BY <1>2, ReserveKeeps
<1>3. ASSUME NEW c \in Client, KeepKey(c) PROVE IInv'
  BY <1>3, KeepKeeps
<1>4. ASSUME NEW c \in Client, ReturnKey(c) PROVE IInv'
  BY <1>4, ReturnKeeps
<1>5. CASE GetKeyFromPool
  BY <1>5, TakeKeeps
<1>6. CASE EncryptWallet \/ LockUnlock
  BY <1>6, PhaseKeeps
<1>7. CASE ErasePool
  BY <1>7, EraseKeeps
<1>8. CASE WritePool
  BY <1>8, WriteKeeps
<1>9. ASSUME NEW size \in RefillSize \cup {TargetSize}, NEW n \in 0 .. Missing(size), Restart(n)
      PROVE  IInv'
  <2>1. n \in Nat
    BY MissingType, KeyPoolAssumption DEF IInv, TypeOK
  <2> QED  BY <1>9, <2>1, RestartKeeps
<1>10. CASE UNCHANGED vars
  BY <1>10 DEF vars, IInv, TypeOK, UsedNeverPooled, KeysOnce, PoolBacked, ReservedExclusive,
               HeldInPlace, UsedGenerated, Held, Written
<1> QED
  BY <1>1, <1>2, <1>3, <1>4, <1>5, <1>6, <1>7, <1>8, <1>9, <1>10 DEF Next

\* The inductive invariant holds of the key pool, in memory and in the file,
\* wherever the process stops.
THEOREM Invariance == Spec => []IInv
BY InitInv, StepInv, PTL DEF Spec

\* The pool, the set, the reservations and the phases of encryption keep
\* their types, whatever is refilled, kept, returned, encrypted or lost.
THEOREM TypeCorrect == Spec => []TypeOK
<1>1. IInv => TypeOK
  BY DEF IInv
<1> QED  BY <1>1, Invariance, PTL

\* A key that KeepKey or GetKeyFromPool has handed out for good is in no
\* record of the file, even where indexes are issued twice and wherever the
\* process stops.
THEOREM UsedKeysStayOut == Spec => []UsedNeverPooled
<1>1. IInv => UsedNeverPooled
  BY DEF IInv
<1> QED  BY <1>1, Invariance, PTL

\* TopUpKeyPool and NewKeyPool never write a key into two records.
THEOREM KeysAreDistinct == Spec => []KeysOnce
<1>1. IInv => KeysOnce
  BY DEF IInv
<1> QED  BY <1>1, Invariance, PTL

\* Unless an index is issued while it is held, ReserveKeyFromKeyPool finds the
\* record of the index it takes.
THEOREM SetIsBacked == Spec => []PoolBacked
<1>1. IInv => PoolBacked
  BY DEF IInv
<1> QED  BY <1>1, Invariance, PTL

\* Under the same condition a CReserveKey is the only holder of its key, and
\* the key's record is in the file until it is kept.
THEOREM ReservationsExclusive == Spec => []ReservedExclusive
<1>1. IInv => ReservedExclusive
  BY DEF IInv
<1> QED  BY <1>1, Invariance, PTL

=============================================================================
