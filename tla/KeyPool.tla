------------------------------ MODULE KeyPool -------------------------------
(***************************************************************************)
(* The wallet's key pool (wallet.cpp): keys generated ahead, each with a   *)
(* "pool" record in the wallet file under an index, and the set of indexes *)
(* in memory that may be handed out.  A CReserveKey takes the lowest index *)
(* out of the set and later keeps the key, which erases the record, or     *)
(* returns the index.  Encrypting the wallet replaces the pool.            *)
(*                                                                         *)
(* All methods but KeepKey run under cs_wallet and are steps; EncryptWallet*)
(* has one step per change of the file, as KeepKey and a crash may come    *)
(* between them.  Every write of the file lasts.                           *)
(* Keys are numbered in the order they are generated; what a key is used   *)
(* for is left out, as is the default key, handed out without an index     *)
(* when a locked wallet has none left.                                     *)
(***************************************************************************)
EXTENDS Integers, FiniteSets

CONSTANTS
  Client,      \* CReserveKey objects
  TargetSize,  \* -keypool
  RefillSize,  \* sizes asked for with keypoolrefill
  MaxKey,      \* bound: keys generated
  None

Key == 1 .. MaxKey
Index == 1 .. MaxKey

ASSUME KeyPoolAssumption ==
  /\ TargetSize \in Nat /\ RefillSize \subseteq Nat
  /\ MaxKey \in Nat \ {0}
  /\ None \notin Key
  /\ None \notin [nIndex : Index, key : Key]

VARIABLES
  pool,        \* pool[i]: the key of the record i in the file, or None
  setKeyPool,  \* indexes that may be handed out
  reserved,    \* reserved[c]: the index and key a CReserveKey holds, or None
  used,        \* history: keys that have been kept
  nKeys,       \* number of keys generated
  crypted, locked,
  rekeying,    \* EncryptWallet: "no", "erase" or "write"
  reissued     \* history: since the last start, an index has been given a new
               \* key while a CReserveKey held it

vars == <<pool, setKeyPool, reserved, used, nKeys, crypted, locked, rekeying, reissued>>

Held == {c \in Client : reserved[c] # None}
Written == {i \in Index : pool[i] # None}

Lowest(S) == CHOOSE i \in S : \A j \in S : i <= j
Highest(S) == CHOOSE i \in S : \A j \in S : j <= i

-----------------------------------------------------------------------------
\* nEnd, the first index TopUpKeyPool writes.
FirstFree == IF setKeyPool = {} THEN 1 ELSE Highest(setKeyPool) + 1

\* How many keys TopUpKeyPool generates: none in a locked wallet.
Missing(size) ==
  IF locked \/ Cardinality(setKeyPool) > size THEN 0
  ELSE size + 1 - Cardinality(setKeyPool)

\* The indexes it writes, and what it leaves in the set.
NewIndexes(n) == FirstFree .. FirstFree + n - 1
Refilled(n) == setKeyPool \cup NewIndexes(n)

\* n records with new keys, at the indexes from first on.
WithNew(first, n) ==
  [i \in Index |-> IF i \in first .. first + n - 1 THEN nKeys + 1 + i - first ELSE pool[i]]

\* n keys are generated for the indexes from first on.
Generate(first, n) ==
  /\ nKeys + n <= MaxKey /\ first + n - 1 <= MaxKey
  /\ nKeys' = nKeys + n
  /\ reissued' = (reissued \/ \E c \in Held : reserved[c].nIndex \in first .. first + n - 1)

Init ==
  /\ pool = [i \in Index |-> None]
  /\ setKeyPool = {}
  /\ reserved = [c \in Client |-> None]
  /\ used = {}
  /\ nKeys = 0
  /\ crypted = FALSE /\ locked = FALSE /\ rekeying = "no"
  /\ reissued = FALSE

\* TopUpKeyPool: keypoolrefill, walletpassphrase and others.
TopUpKeyPool(size) ==
  LET n == Missing(size)
  IN  /\ rekeying = "no"
      /\ Generate(FirstFree, n)
      /\ pool' = WithNew(FirstFree, n)
      /\ setKeyPool' = Refilled(n)
      /\ UNCHANGED <<reserved, used, crypted, locked, rekeying>>

\* Mutant: the index stays in the set.
GetReservedKeyShared(c) ==
  LET n == Missing(TargetSize)
      i == Lowest(Refilled(n))
  IN  /\ rekeying = "no"
      /\ reserved[c] = None
      /\ Refilled(n) # {}
      /\ Generate(FirstFree, n)
      /\ pool' = WithNew(FirstFree, n)
      /\ pool'[i] # None
      /\ setKeyPool' = Refilled(n)
      /\ reserved' = [reserved EXCEPT ![c] = [nIndex |-> i, key |-> pool'[i]]]
      /\ UNCHANGED <<used, crypted, locked, rekeying>>

\* CReserveKey::GetReservedKey: the pool is topped up and the lowest index
\* taken.  If it has no record, an exception is thrown and the destructor
\* returns the index.
GetReservedKey(c) ==
  LET n == Missing(TargetSize)
      i == Lowest(Refilled(n))
  IN  /\ rekeying = "no"
      /\ reserved[c] = None
      /\ Refilled(n) # {}
      /\ Generate(FirstFree, n)
      /\ pool' = WithNew(FirstFree, n)
      /\ \/ /\ pool'[i] # None
            /\ setKeyPool' = Refilled(n) \ {i}
            /\ reserved' = [reserved EXCEPT ![c] = [nIndex |-> i, key |-> pool'[i]]]
         \/ /\ pool'[i] = None
            /\ setKeyPool' = Refilled(n)
            /\ UNCHANGED reserved
      /\ UNCHANGED <<used, crypted, locked, rekeying>>

\* Mutant: the record stays in the file.
KeepKeyInFile(c) ==
  /\ reserved[c] # None
  /\ used' = used \cup {reserved[c].key}
  /\ reserved' = [reserved EXCEPT ![c] = None]
  /\ UNCHANGED <<pool, setKeyPool, nKeys, crypted, locked, rekeying, reissued>>

\* CReserveKey::KeepKey, which does not take cs_wallet.
KeepKey(c) ==
  /\ reserved[c] # None
  /\ pool' = [pool EXCEPT ![reserved[c].nIndex] = None]
  /\ used' = used \cup {reserved[c].key}
  /\ reserved' = [reserved EXCEPT ![c] = None]
  /\ UNCHANGED <<setKeyPool, nKeys, crypted, locked, rekeying, reissued>>

\* Mutant: the record goes with the reservation, as in KeepKey.
ReturnKeyErased(c) ==
  /\ rekeying = "no"
  /\ reserved[c] # None
  /\ pool' = [pool EXCEPT ![reserved[c].nIndex] = None]
  /\ setKeyPool' = setKeyPool \cup {reserved[c].nIndex}
  /\ reserved' = [reserved EXCEPT ![c] = None]
  /\ UNCHANGED <<used, nKeys, crypted, locked, rekeying, reissued>>

\* CReserveKey::ReturnKey, also called by the destructor.
ReturnKey(c) ==
  /\ rekeying = "no"
  /\ reserved[c] # None
  /\ setKeyPool' = setKeyPool \cup {reserved[c].nIndex}
  /\ reserved' = [reserved EXCEPT ![c] = None]
  /\ UNCHANGED <<pool, used, nKeys, crypted, locked, rekeying, reissued>>

\* GetKeyFromPool: reserve and keep under one lock.  An index without a record
\* is gone from the set when the exception is thrown.
GetKeyFromPool ==
  LET n == Missing(TargetSize)
      i == Lowest(Refilled(n))
      f == WithNew(FirstFree, n)
  IN  /\ rekeying = "no"
      /\ Refilled(n) # {}
      /\ Generate(FirstFree, n)
      /\ pool' = [f EXCEPT ![i] = None]
      /\ setKeyPool' = Refilled(n) \ {i}
      /\ used' = used \cup ({f[i]} \ {None})
      /\ UNCHANGED <<reserved, crypted, locked, rekeying>>

\* EncryptWallet commits the encrypted keys and then calls NewKeyPool, still
\* unlocked.
EncryptWallet ==
  /\ ~crypted
  /\ crypted' = TRUE
  /\ rekeying' = "erase"
  /\ UNCHANGED <<pool, setKeyPool, reserved, used, nKeys, locked, reissued>>

\* NewKeyPool erases the records of the indexes in the set, one by one.
ErasePool ==
  /\ rekeying = "erase"
  /\ \/ /\ setKeyPool \cap Written # {}
        /\ pool' = [pool EXCEPT ![Lowest(setKeyPool \cap Written)] = None]
        /\ UNCHANGED <<setKeyPool, rekeying>>
     \/ /\ setKeyPool \cap Written = {}
        /\ setKeyPool' = {}
        /\ rekeying' = "write"
        /\ UNCHANGED pool
  /\ UNCHANGED <<reserved, used, nKeys, crypted, locked, reissued>>

\* It writes TargetSize new ones, one by one; then the wallet is locked.
WritePool ==
  LET i == Cardinality(setKeyPool) + 1
  IN  /\ rekeying = "write"
      /\ \/ /\ i <= TargetSize
            /\ Generate(i, 1)
            /\ pool' = WithNew(i, 1)
            /\ setKeyPool' = setKeyPool \cup {i}
            /\ UNCHANGED <<rekeying, locked>>
         \/ /\ i > TargetSize
            /\ rekeying' = "no"
            /\ locked' = TRUE
            /\ UNCHANGED <<pool, setKeyPool, nKeys, reissued>>
      /\ UNCHANGED <<reserved, used, crypted>>

\* Lock and Unlock of an encrypted wallet.
LockUnlock ==
  /\ rekeying = "no"
  /\ crypted
  /\ locked' = ~locked
  /\ UNCHANGED <<pool, setKeyPool, reserved, used, nKeys, crypted, rekeying, reissued>>

\* The process stops, perhaps after writing n records of a TopUpKeyPool, and
\* is started again: every record's index is in the set, every reservation is
\* forgotten, an encrypted wallet is locked.
Restart(n) ==
  /\ n > 0 => rekeying = "no" /\ FirstFree + n - 1 <= MaxKey
  /\ nKeys + n <= MaxKey
  /\ nKeys' = nKeys + n
  /\ pool' = WithNew(FirstFree, n)
  /\ setKeyPool' = {i \in Index : pool'[i] # None}
  /\ reserved' = [c \in Client |-> None]
  /\ locked' = crypted
  /\ rekeying' = "no"
  /\ reissued' = FALSE
  /\ UNCHANGED <<used, crypted>>

Next ==
  \/ \E size \in RefillSize \cup {TargetSize} : TopUpKeyPool(size)
  \/ \E c \in Client : GetReservedKey(c)
  \/ \E c \in Client : KeepKey(c)
  \/ \E c \in Client : ReturnKey(c)
  \/ GetKeyFromPool
  \/ EncryptWallet
  \/ ErasePool
  \/ WritePool
  \/ LockUnlock
  \/ \E size \in RefillSize \cup {TargetSize} : \E n \in 0 .. Missing(size) : Restart(n)

Spec == Init /\ [][Next]_vars

-----------------------------------------------------------------------------
(* Properties. *)

TypeOK ==
  /\ pool \in [Index -> Key \cup {None}]
  /\ setKeyPool \subseteq Index
  /\ reserved \in [Client -> [nIndex : Index, key : Key] \cup {None}]
  /\ used \subseteq Key
  /\ nKeys \in 0 .. MaxKey
  /\ crypted \in BOOLEAN /\ locked \in BOOLEAN /\ reissued \in BOOLEAN
  /\ rekeying \in {"no", "erase", "write"}

\* A key that was kept is in no record of the file: whatever indexes are given
\* out twice, and wherever the process stops, no later start hands it out.
UsedNeverPooled == \A i \in Index : pool[i] \notin used

\* No two records hold the same key, and no record or reservation a key that
\* is still to be generated.
KeysOnce ==
  /\ \A i, j \in Written : pool[i] = pool[j] => i = j
  /\ \A i \in Written : pool[i] <= nKeys
  /\ \A c \in Held : reserved[c].key <= nKeys

\* Unless an index was given a new key while it was held, every index of the
\* set has its record: handing out a key does not fail for want of one, which
\* would put the index back and fail the same way the next time.
PoolBacked == ~reissued /\ rekeying # "erase" => setKeyPool \subseteq Written

\* Under the same condition a held key is held by one client, is in no one
\* else's reach and still has its record, so that a crash does not lose it.
ReservedExclusive ==
  ~reissued => \A c \in Held :
    /\ reserved[c].nIndex \notin setKeyPool
    /\ pool[reserved[c].nIndex] = reserved[c].key
    /\ reserved[c].key \notin used
    /\ \A d \in Held : reserved[c].nIndex = reserved[d].nIndex => c = d

\* "Take key pair from key pool so it won't be used again" (wallet.cpp,
\* CommitTransaction): no one holds a key that was kept.
KeptNotUsedAgain == \A c \in Held : reserved[c].key \notin used

=============================================================================
