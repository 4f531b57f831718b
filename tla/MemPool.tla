------------------------------ MODULE MemPool ------------------------------
(***************************************************************************)
(* CTxMemPool and the orphan transactions (txmempool.cpp; in main.cpp      *)
(* AcceptToMemoryPool, the "tx" and "dstx" messages, AddOrphanTx,          *)
(* EraseOrphanTx, LimitOrphanTxSize, and what SetBestChainInner and        *)
(* Reorganize do to the pool).                                             *)
(*                                                                         *)
(* The transaction index is that of the chain to tip, which is what        *)
(* BlockChain establishes; tip and pindexBest differ while SetBestChain    *)
(* works through a branch.  Loops over transactions are stepped through    *)
(* one transaction at a time, since the pool has a lock of its own; the    *)
(* lists Reorganize goes through are sets, gone through in any order.      *)
(***************************************************************************)
EXTENDS BlockTree, FiniteSets

CONSTANTS
  Free,        \* transactions whose fee lets the rate limiter refuse them
  Large,       \* transactions too big to be kept as orphans
  LockTx,      \* transactions InstantX may lock inputs for
  MaxOrphans,  \* GetMaxOrphanTransactionSize()
  Checkpoint   \* Checkpoints::GetTotalBlocksEstimate()

ASSUME MemPoolAssumption ==
  /\ Free \subseteq Tx /\ Large \subseteq Tx /\ LockTx \subseteq Tx
  /\ MaxOrphans \in Nat /\ Checkpoint \in Nat

VARIABLES
  tip,              \* the chain the transaction index is of
  pindexBest,       \* what AcceptToMemoryPool takes for the best block
  mapTx,            \* the pool
  mapNextTx,        \* the pool transaction that spends an output
  mapLockedInputs,  \* outputs locked by InstantX, and the transaction they are locked for
  mapOrphanTransactions,
  mapOrphanTransactionsByPrev,
  stage,            \* "idle", "orphans", "reorganize" or "postponed"
  tries,            \* accepted transaction and orphan that is to be tried again
  vEraseQueue,      \* orphans to be erased when the handler ends
  vResurrect, vDelete,
  pindexNew,        \* the block SetBestChain moves to
  owed              \* history: transactions the last reorganisation must keep

chainVars  == <<tip, pindexBest, pindexNew>>
poolVars   == <<mapTx, mapNextTx>>
orphanVars == <<mapOrphanTransactions, mapOrphanTransactionsByPrev>>
loopVars   == <<tries, vEraseQueue, vResurrect, vDelete>>
vars == <<chainVars, poolVars, orphanVars, loopVars, mapLockedInputs, stage, owed>>

TypeOK ==
  /\ tip \in Block /\ pindexBest \in Block /\ pindexNew \in Block
  /\ mapTx \subseteq Tx
  /\ mapNextTx \in [Outpoint -> Tx \cup {None}]
  /\ mapLockedInputs \in [Outpoint -> Tx \cup {None}]
  /\ mapOrphanTransactions \subseteq Tx
  /\ mapOrphanTransactionsByPrev \in [Tx -> SUBSET Tx]
  /\ stage \in {"idle", "orphans", "reorganize", "postponed"}
  /\ tries \subseteq Tx \X Tx
  /\ vEraseQueue \subseteq Tx
  /\ vResurrect \subseteq Tx /\ vDelete \subseteq Tx
  /\ owed \subseteq Tx

-----------------------------------------------------------------------------
(* The transaction index, read off the chain. *)

ContainsTx(b, t) == \E c \in Connected(b) : t \in Txs(c)

Spent(b, o) == \E c \in Connected(b) : \E t \in Txs(c) : o \in Inputs[t]

\* IsConfirmedInNPrevBlocks: the transaction is in one of the last Maturity blocks.
ConfirmedInPrevBlocks(t, b) ==
  \E c \in Chain[b] : t \in Txs(c) /\ Height[b] - Height[c] < Maturity

Prevs(t) == {TxOf[o] : o \in Inputs[t]}

-----------------------------------------------------------------------------
(* CTxMemPool. *)

addUnchecked(t) ==
  /\ mapTx' = mapTx \cup {t}
  /\ mapNextTx' = [o \in Outpoint |-> IF o \in Inputs[t] THEN t ELSE mapNextTx[o]]

\* Mutant: the pool forgets the transactions and keeps their spends.
removeKeepingSpends(S) == mapTx' = mapTx \ S /\ UNCHANGED mapNextTx

\* CTxMemPool::remove, of every transaction of a set.
remove(S) ==
  /\ mapTx' = mapTx \ S
  /\ mapNextTx' = [o \in Outpoint |->
       IF \E t \in S \cap mapTx : o \in Inputs[t] THEN None ELSE mapNextTx[o]]

\* Mutant: fRecursive is forgotten.
OnlyItself(t) == {t} \cap mapTx

\* What remove(t, fRecursive) reaches: the pool transactions that spend, one
\* through another, outputs of t.
Dependents(t) ==
  {u \in mapTx : \A S \in SUBSET mapTx :
     /\ t \in S
     /\ \A o \in Outpoint : TxOf[o] \in S /\ mapNextTx[o] # None => mapNextTx[o] \in S
     => u \in S}

\* removeConflicts.
Conflicts(t) == {mapNextTx[o] : o \in Inputs[t]} \ {None, t}

\* AcceptToMemoryPool.  The verdicts are "accepted", "missing" (the input's
\* transaction is in no block) and "rejected".  limited is what the relay fee
\* and its rate limiter say when fLimitFree is set.  The transactions of the
\* model are well formed and standard, their inputs and signature operations
\* too, and their fees are sane: the refusals of CheckTransaction, IsStandardTx,
\* AreInputsStandard, GetMaxTransactionSigOps and fRejectInsaneFee do not occur.
AcceptToMemoryPool(t, limited) ==
  IF \/ t \in Generated
     \/ t \in mapTx
     \/ \E o \in Inputs[t] : mapLockedInputs[o] \notin {None, t}
     \/ \E o \in Inputs[t] : mapNextTx[o] # None
     \/ ContainsTx(tip, t)
  THEN "rejected"
  ELSE IF \E p \in Prevs(t) : ~ContainsTx(tip, p)
  THEN "missing"
  ELSE IF \/ limited
          \/ \E p \in Prevs(t) \cap Generated : ConfirmedInPrevBlocks(p, pindexBest)
          \/ \E o \in Inputs[t] : Spent(tip, o)
  THEN "rejected"
  ELSE "accepted"

-----------------------------------------------------------------------------
(* Orphan transactions. *)

\* Mutant: EraseOrphanTx forgets the index.
SetOrphansKeepingIndex(S) ==
  /\ mapOrphanTransactions' = S
  /\ mapOrphanTransactionsByPrev' = [p \in Tx |->
       mapOrphanTransactionsByPrev[p]
         \cup {t \in S \ mapOrphanTransactions : p \in Prevs(t)}]

\* EraseOrphanTx and AddOrphanTx leave the map holding the set S.
SetOrphans(S) ==
  LET gone == mapOrphanTransactions \ S
      new  == S \ mapOrphanTransactions
  IN  /\ mapOrphanTransactions' = S
      /\ mapOrphanTransactionsByPrev' = [p \in Tx |->
           (mapOrphanTransactionsByPrev[p] \ {t \in gone : p \in Prevs(t)})
             \cup {t \in new : p \in Prevs(t)}]

WithOrphan(t) ==
  IF t \in Large THEN mapOrphanTransactions ELSE mapOrphanTransactions \cup {t}

WithinLimit(S) == Cardinality(S) <= MaxOrphans

\* LimitOrphanTxSize evicts random orphans until the limit is met.
LimitOrphanTxSize(S, kept) ==
  /\ kept \subseteq S
  /\ WithinLimit(kept)
  /\ WithinLimit(S) => kept = S
  /\ ~WithinLimit(S) => Cardinality(kept) = MaxOrphans

-----------------------------------------------------------------------------
Init ==
  /\ tip = Genesis /\ pindexBest = Genesis /\ pindexNew = Genesis
  /\ mapTx = {}
  /\ mapNextTx = [o \in Outpoint |-> None]
  /\ mapLockedInputs = [o \in Outpoint |-> None]
  /\ mapOrphanTransactions = {}
  /\ mapOrphanTransactionsByPrev = [t \in Tx |-> {}]
  /\ stage = "idle"
  /\ tries = {} /\ vEraseQueue = {}
  /\ vResurrect = {} /\ vDelete = {}
  /\ owed = {}

\* A transaction from a peer.  A "tx" the node already has is dropped at
\* once; a "dstx" is not looked for in the pool or among the orphans.
ReceiveTx(t, dstx, limited) ==
  /\ stage = "idle"
  /\ dstx \/ ~(t \in mapTx \cup mapOrphanTransactions \/ ContainsTx(tip, t))
  /\ limited => t \in Free
  /\ \/ /\ AcceptToMemoryPool(t, limited) = "accepted"
        /\ addUnchecked(t)
        /\ tries' = {<<t, u>> : u \in mapOrphanTransactionsByPrev[t]}
        /\ stage' = "orphans"
        /\ UNCHANGED orphanVars
     \/ /\ AcceptToMemoryPool(t, limited) = "missing"
        /\ \E kept \in SUBSET WithOrphan(t) :
             LimitOrphanTxSize(WithOrphan(t), kept) /\ SetOrphans(kept)
        /\ UNCHANGED <<poolVars, tries, stage>>
  /\ UNCHANGED <<chainVars, vEraseQueue, vResurrect, vDelete, mapLockedInputs, owed>>

\* One turn of "Recursively process any orphan transactions that depended on
\* this one".
TryOrphan(w, u, limited) ==
  /\ stage = "orphans"
  /\ <<w, u>> \in tries
  /\ limited => u \in Free
  /\ LET verdict == AcceptToMemoryPool(u, limited)
     IN  /\ IF verdict = "accepted" THEN addUnchecked(u) ELSE UNCHANGED poolVars
         /\ tries' = (tries \ {<<w, u>>})
              \cup (IF verdict = "accepted"
                    THEN {<<u, x>> : x \in mapOrphanTransactionsByPrev[u]} ELSE {})
         /\ vEraseQueue' = IF verdict = "missing" THEN vEraseQueue ELSE vEraseQueue \cup {u}
  /\ UNCHANGED <<chainVars, orphanVars, vResurrect, vDelete, mapLockedInputs, stage, owed>>

EraseTried ==
  /\ stage = "orphans"
  /\ tries = {}
  /\ SetOrphans(mapOrphanTransactions \ vEraseQueue)
  /\ vEraseQueue' = {}
  /\ stage' = "idle"
  /\ UNCHANGED <<chainVars, poolVars, tries, vResurrect, vDelete, mapLockedInputs, owed>>

\* The wallet, an RPC or a lock request offers a transaction; no orphan is kept.
SubmitTx(t) ==
  /\ stage = "idle"
  /\ AcceptToMemoryPool(t, FALSE) = "accepted"
  /\ addUnchecked(t)
  /\ UNCHANGED <<chainVars, orphanVars, loopVars, mapLockedInputs, stage, owed>>

\* InstantX locks an output or releases it.
LockInput(o, t) ==
  /\ stage = "idle"
  /\ mapLockedInputs[o] # t
  /\ t # None => o \in Inputs[t]
  /\ mapLockedInputs' = [mapLockedInputs EXCEPT ![o] = t]
  /\ UNCHANGED <<chainVars, poolVars, orphanVars, loopVars, stage, owed>>

-----------------------------------------------------------------------------
(* SetBestChain, for the chains that connect. *)

\* Mutant: the pool keeps the block's transactions.
ConnectTipKeepingPool(b) ==
  /\ stage = "idle"
  /\ b # Genesis /\ Parent[b] = pindexBest
  /\ ValidChain(b)
  /\ tip' = b /\ pindexBest' = b /\ pindexNew' = b
  /\ UNCHANGED <<poolVars, orphanVars, loopVars, mapLockedInputs, stage, owed>>

\* SetBestChainInner on a child of the best block.
ConnectTip(b) ==
  /\ stage = "idle"
  /\ b # Genesis /\ Parent[b] = pindexBest
  /\ ValidChain(b)
  /\ tip' = b /\ pindexBest' = b /\ pindexNew' = b
  /\ remove(Txs(b))
  /\ UNCHANGED <<orphanVars, loopVars, mapLockedInputs, stage, owed>>

TxsOf(S) == UNION {Txs(c) : c \in S}

\* Mutant: only the transactions of the last block are put back.
ResurrectableOfTip(S) ==
  TxsOf({c \in S : Height[c] > Checkpoint /\ \A d \in S : Height[c] >= Height[d]}) \ Generated

\* vResurrect: what the disconnected blocks above the last checkpoint held.
Resurrectable(S) == TxsOf({c \in S : Height[c] > Checkpoint}) \ Generated

\* The disconnected transactions that need nothing from the old branch and
\* that nothing stands against: neither the new branch, nor the pool, nor a lock.
Untouched(b, S) ==
  LET fork == Chain[pindexBest] \cap Chain[b]
  IN  {t \in TxsOf({c \in S : Height[c] > Checkpoint}) \ Generated :
        \A o \in Inputs[t] :
          /\ \E c \in fork \ {Genesis} : TxOf[o] \in Txs(c)
          /\ ~Spent(b, o)
          /\ mapNextTx[o] = None
          /\ mapLockedInputs[o] \in {None, t}}

\* Reorganize, up to its commit.
Reorganize(b) ==
  /\ stage = "idle"
  /\ ChainTrust[b] > ChainTrust[pindexBest]
  /\ b # Genesis /\ Parent[b] # pindexBest
  /\ ValidChain(b)
  /\ LET gone  == Chain[pindexBest] \ Chain[b]
         added == Chain[Intermediate(pindexBest, b)] \ Chain[pindexBest]
     IN  /\ vResurrect' = Resurrectable(gone)
         /\ vDelete' = TxsOf(added)
         /\ owed' = Untouched(b, gone)
  /\ tip' = Intermediate(pindexBest, b)
  /\ pindexNew' = b
  /\ stage' = "reorganize"
  /\ UNCHANGED <<pindexBest, poolVars, orphanVars, tries, vEraseQueue, mapLockedInputs>>

\* Resurrect memory transactions that were in the disconnected branch.
Resurrect(t) ==
  /\ stage = "reorganize"
  /\ t \in vResurrect
  /\ IF AcceptToMemoryPool(t, FALSE) = "accepted" THEN addUnchecked(t) ELSE UNCHANGED poolVars
  /\ vResurrect' = vResurrect \ {t}
  /\ UNCHANGED <<chainVars, orphanVars, tries, vEraseQueue, vDelete, mapLockedInputs,
                 stage, owed>>

\* Delete redundant memory transactions that are in the connected branch:
\* remove(tx), then removeConflicts(tx).
DeleteConnected(t) ==
  /\ stage = "reorganize"
  /\ vResurrect = {}
  /\ t \in vDelete
  /\ remove({t} \cup UNION {Dependents(c) : c \in Conflicts(t)})
  /\ vDelete' = vDelete \ {t}
  /\ UNCHANGED <<chainVars, orphanVars, tries, vEraseQueue, vResurrect,
                 mapLockedInputs, stage, owed>>

\* Connect further blocks, one SetBestChainInner each; then the new best block.
ConnectFurther ==
  /\ stage \in {"reorganize", "postponed"}
  /\ vResurrect = {} /\ vDelete = {}
  /\ \/ /\ tip = pindexNew
        /\ pindexBest' = pindexNew
        /\ stage' = "idle"
        /\ UNCHANGED <<tip, poolVars>>
     \/ \E c \in Chain[pindexNew] \ {Genesis} :
          /\ Parent[c] = tip
          /\ tip' = c
          /\ remove(Txs(c))
          /\ stage' = "postponed"
          /\ UNCHANGED pindexBest
  /\ UNCHANGED <<pindexNew, orphanVars, loopVars, mapLockedInputs, owed>>

Next ==
  \/ \E t \in Tx, dstx, limited \in BOOLEAN : ReceiveTx(t, dstx, limited)
  \/ \E w, u \in Tx, limited \in BOOLEAN : TryOrphan(w, u, limited)
  \/ EraseTried
  \/ \E t \in Tx : SubmitTx(t)
  \/ \E o \in Outpoint, t \in LockTx \cup {None} : LockInput(o, t)
  \/ \E b \in Block : ConnectTip(b)
  \/ \E b \in Block : Reorganize(b)
  \/ \E t \in Tx : Resurrect(t)
  \/ \E t \in Tx : DeleteConnected(t)
  \/ ConnectFurther

Spec == Init /\ [][Next]_vars

-----------------------------------------------------------------------------
(* Properties. *)

\* mapNextTx points from every input of every pool transaction to it and from
\* nothing else.  Hence no two pool transactions spend the same output, and
\* no pointer outlives its transaction.
SpendsExact ==
  \A o \in Outpoint, t \in Tx :
    mapNextTx[o] = t <=> t \in mapTx /\ o \in Inputs[t]

\* A transaction of the indexed chain is not in the pool, except while
\* Reorganize still has it on its list of transactions to delete.
PoolUnconfirmed ==
  \A t \in mapTx : ContainsTx(tip, t) =>
    stage = "reorganize" /\ t \in vDelete

\* mapOrphanTransactionsByPrev is the index of the orphans by input.
OrphanIndexExact ==
  \A p \in Tx :
    mapOrphanTransactionsByPrev[p] = {t \in mapOrphanTransactions : p \in Prevs(t)}

\* mapOrphanTransactions keeps its limit.
OrphansBounded == Cardinality(mapOrphanTransactions) <= MaxOrphans

\* A reorganisation loses no transaction that stays valid: one whose inputs lie
\* below the fork and are spent, pooled or locked by nothing else is in
\* the pool or in the new chain when SetBestChain ends.
NothingLost ==
  stage' = "idle" /\ stage \in {"reorganize", "postponed"} =>
    \A t \in owed : t \in mapTx' \/ ContainsTx(tip, t)'

ReorganizeLosesNothing == [][NothingLost]_vars

\* A transaction that leaves the pool without being in the chain then, as one
\* that conflicts with the new branch does, takes with it every pool
\* transaction that depends on it.
NoDependentStays ==
  \A u \in mapTx \ mapTx' : ~ContainsTx(tip, u)' =>
    \A v \in mapTx' : u \notin Prevs(v)

ConflictsRemovedWhole == [][NoDependentStays]_vars

\* "CTxMemPool stores valid-according-to-the-current-best-chain transactions
\* that may be included in the next block" (txmempool.h).
PoolValid ==
  stage = "idle" =>
    \A t \in mapTx : \A o \in Inputs[t] :
      /\ ContainsTx(tip, TxOf[o]) \/ TxOf[o] \in mapTx
      /\ ~Spent(tip, o)
=============================================================================
