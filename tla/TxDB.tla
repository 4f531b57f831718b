-------------------------------- MODULE TxDB --------------------------------
(***************************************************************************)
(* CTxDB (txdb-leveldb.h, txdb-leveldb.cpp): the block and transaction     *)
(* index on LevelDB.  A CTxDB object may hold an active batch, the list of *)
(* the puts and deletes made since TxnBegin; a read scans the batch from   *)
(* its first entry to its last and keeps the last hit, and falls back to   *)
(* the disk.  LevelDB itself is external: a batch is written whole or not  *)
(* at all.                                                                 *)
(***************************************************************************)
EXTENDS Naturals, Sequences

CONSTANTS
  Key, Value, Handle,
  Reader,     \* the handles opened with mode "r"
  NoValue, Untouched, NoTxn,
  MaxBatch    \* bound on the number of entries of a batch

ASSUME TxDBAssumption ==
  /\ Reader \subseteq Handle
  /\ NoValue \notin Value
  /\ Untouched \notin Value \cup {NoValue}
  /\ NoTxn \notin Seq([key : Key, val : Value \cup {NoValue}])
  /\ NoTxn \notin [Key -> Value \cup {NoValue, Untouched}]
  /\ MaxBatch \in Nat

VARIABLES
  disk,        \* the LevelDB instance shared by all handles
  activeBatch  \* per handle, the list of entries since TxnBegin, or NoTxn

dbVars == <<disk, activeBatch>>

Stored == Value \cup {NoValue}

\* One entry of a WriteBatch; Delete(key) is the entry with no value.
Entry == [key : Key, val : Stored]

DBTypeOK ==
  /\ disk \in [Key -> Stored]
  /\ activeBatch \in [Handle -> Seq(Entry) \cup {NoTxn}]

-----------------------------------------------------------------------------
(* CBatchScanner: every entry with the key overwrites what an earlier one
   found, so the last one counts. *)
Hits(batch, k) == {i \in DOMAIN batch : batch[i].key = k}

\* Mutant: the scanner stops at the first entry with the key.
FirstHit(batch, k) ==
  CHOOSE i \in Hits(batch, k) : \A j \in Hits(batch, k) : i <= j

LastHit(batch, k) ==
  CHOOSE i \in Hits(batch, k) : \A j \in Hits(batch, k) : j <= i

\* ScanBatch: the batch's value for the key, Untouched when it has none.
ScanBatch(batch, k) ==
  IF Hits(batch, k) = {} THEN Untouched ELSE batch[LastHit(batch, k)].val

Read(h, k) ==
  IF activeBatch[h] # NoTxn /\ ScanBatch(activeBatch[h], k) # Untouched
  THEN ScanBatch(activeBatch[h], k)
  ELSE disk[k]

\* Exists answers from the batch only when the batch holds a value; a key
\* the batch deletes is looked up on disk.
Exists(h, k) ==
  \/ /\ activeBatch[h] # NoTxn
     /\ ScanBatch(activeBatch[h], k) \in Value
  \/ disk[k] # NoValue

\* leveldb::DB::Write applies the entries of a batch in order.
Applied(batch) ==
  [k \in Key |-> IF Hits(batch, k) = {} THEN disk[k]
                 ELSE batch[LastHit(batch, k)].val]

-----------------------------------------------------------------------------
DBInit ==
  /\ disk = [k \in Key |-> NoValue]
  /\ activeBatch = [h \in Handle |-> NoTxn]

TxnBegin(h) ==
  /\ activeBatch[h] = NoTxn
  /\ activeBatch' = [activeBatch EXCEPT ![h] = <<>>]
  /\ UNCHANGED disk

\* Mutant: the entry also goes straight to disk.
WriteThrough(h, k, v) ==
  /\ h \notin Reader
  /\ activeBatch[h] # NoTxn => Len(activeBatch[h]) < MaxBatch
  /\ activeBatch' = IF activeBatch[h] = NoTxn THEN activeBatch
                    ELSE [activeBatch EXCEPT ![h] = Append(@, [key |-> k, val |-> v])]
  /\ disk' = [disk EXCEPT ![k] = v]

\* Write (v a value) and Erase (v = NoValue); both assert on a reader.
WriteOrErase(h, k, v) ==
  /\ h \notin Reader
  /\ \/ /\ activeBatch[h] # NoTxn
        /\ Len(activeBatch[h]) < MaxBatch
        /\ activeBatch' = [activeBatch EXCEPT ![h] = Append(@, [key |-> k, val |-> v])]
        /\ UNCHANGED disk
     \/ /\ activeBatch[h] = NoTxn
        /\ disk' = [disk EXCEPT ![k] = v]
        /\ UNCHANGED activeBatch

TxnCommit(h) ==
  /\ activeBatch[h] # NoTxn
  /\ disk' = Applied(activeBatch[h])
  /\ activeBatch' = [activeBatch EXCEPT ![h] = NoTxn]

\* LevelDB refuses the batch: it is deleted all the same.
TxnCommitFails(h) ==
  /\ activeBatch[h] # NoTxn
  /\ activeBatch' = [activeBatch EXCEPT ![h] = NoTxn]
  /\ UNCHANGED disk

TxnAbort(h) ==
  /\ activeBatch[h] # NoTxn
  /\ activeBatch' = [activeBatch EXCEPT ![h] = NoTxn]
  /\ UNCHANGED disk

Crash ==
  /\ activeBatch' = [h \in Handle |-> NoTxn]
  /\ UNCHANGED disk

DBNext ==
  \/ \E h \in Handle : TxnBegin(h)
  \/ \E h \in Handle, k \in Key, v \in Stored : WriteOrErase(h, k, v)
  \/ \E h \in Handle : TxnCommit(h)
  \/ \E h \in Handle : TxnCommitFails(h)
  \/ \E h \in Handle : TxnAbort(h)
  \/ Crash

DBSpec == DBInit /\ [][DBNext]_dbVars

-----------------------------------------------------------------------------
(* A batch as the changes of an abstract transaction. *)
PendingOf(batch) ==
  IF batch = NoTxn THEN NoTxn ELSE [k \in Key |-> ScanBatch(batch, k)]

Abstract == INSTANCE TxStore WITH
  store   <- disk,
  pending <- [h \in Handle |-> PendingOf(activeBatch[h])]

\* CTxDB implements the transactional store: the scanned list of entries
\* behaves as a set of pending changes, committed whole or dropped whole.
ImplementsTxStore == Abstract!Spec

\* After Write or Erase the same handle reads its
\* own last change, whatever the batch held before; its other keys, and every
\* other handle while the change sits in a batch, read as before.  After
\* TxnCommit the handle reads from disk what its transaction had shown.
TransactionalStep ==
  /\ \A h \in Handle, k \in Key, v \in Stored :
       WriteOrErase(h, k, v) =>
         /\ Read(h, k)' = v
         /\ \A j \in Key \ {k} : Read(h, j)' = Read(h, j)
         /\ activeBatch[h] # NoTxn =>
              \A g \in Handle \ {h}, j \in Key : Read(g, j)' = Read(g, j)
  /\ \A h \in Handle, k \in Key :
       TxnCommit(h) => Read(h, k)' = Read(h, k)

\* Reads are transactional at every step.
ReadsAreTransactional == [][TransactionalStep]_dbVars

\* Exists, which ContainsTx is, misses nothing that Read finds, in the batch or
\* on disk.  The converse does not hold: for a key that the open batch has
\* erased, Exists answers from the disk.
ExistsMissesNothing ==
  \A h \in Handle, k \in Key : Read(h, k) # NoValue => Exists(h, k)
=============================================================================
