------------------------------ MODULE TxStore ------------------------------
(***************************************************************************)
(* What the rest of the node expects of CTxDB: a key-value store on disk   *)
(* and, per database handle, at most one open transaction.  A transaction  *)
(* is the map of the keys it has changed so far; committing it changes all *)
(* of them on disk in one step, abandoning it changes none.                *)
(***************************************************************************)
CONSTANTS
  Key,        \* database keys ("tx" + hash, "blockindex" + hash, ...)
  Value,      \* stored values
  Handle,     \* CTxDB objects that may be alive at the same time
  NoValue,    \* the key is absent, or the transaction erases it
  Untouched,  \* the transaction does not mention the key
  NoTxn       \* the handle has no open transaction

VARIABLES
  store,      \* what is on disk
  pending     \* per handle, the changes of its open transaction

vars == <<store, pending>>

Stored  == Value \cup {NoValue}
Changes == [Key -> Stored \cup {Untouched}]

\* What a handle must see at a key: its own last change, else the disk.
View(h, k) ==
  IF pending[h] # NoTxn /\ pending[h][k] # Untouched
  THEN pending[h][k]
  ELSE store[k]

Init ==
  /\ store = [k \in Key |-> NoValue]
  /\ pending = [h \in Handle |-> NoTxn]

Begin(h) ==
  /\ pending[h] = NoTxn
  /\ pending' = [pending EXCEPT ![h] = [k \in Key |-> Untouched]]
  /\ UNCHANGED store

\* Change one key, inside the open transaction or else directly on disk.
Set(h, k, v) ==
  \/ /\ pending[h] # NoTxn
     /\ pending' = [pending EXCEPT ![h] = [@ EXCEPT ![k] = v]]
     /\ UNCHANGED store
  \/ /\ pending[h] = NoTxn
     /\ store' = [store EXCEPT ![k] = v]
     /\ UNCHANGED pending

Commit(h) ==
  /\ pending[h] # NoTxn
  /\ store' = [k \in Key |-> View(h, k)]
  /\ pending' = [pending EXCEPT ![h] = NoTxn]

\* Aborted, or the commit failed: nothing of the transaction remains.
Abandon(h) ==
  /\ pending[h] # NoTxn
  /\ pending' = [pending EXCEPT ![h] = NoTxn]
  /\ UNCHANGED store

\* The process stops and starts again: every open transaction is gone.
Crash ==
  /\ pending' = [h \in Handle |-> NoTxn]
  /\ UNCHANGED store

Next ==
  \/ \E h \in Handle : Begin(h) \/ Commit(h) \/ Abandon(h)
  \/ \E h \in Handle, k \in Key, v \in Stored : Set(h, k, v)
  \/ Crash

Spec == Init /\ [][Next]_vars
=============================================================================
