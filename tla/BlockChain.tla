----------------------------- MODULE BlockChain -----------------------------
(***************************************************************************)
(* The best chain and its transaction index: AddToBlockIndex, SetBestChain,*)
(* SetBestChainInner, Reorganize, ConnectBlock and DisconnectBlock of      *)
(* main.cpp, and the restart that rebuilds memory from disk.               *)
(*                                                                         *)
(* All of it runs under cs_main; what can come between two steps is a      *)
(* crash.  The step is therefore one block connected or disconnected       *)
(* inside the open database batch, and one commit.  The batch is the state *)
(* it will leave on disk (TxDB shows that reads see exactly this).         *)
(*                                                                         *)
(* Abstracted: scripts, values, stake kernels and timestamps.  What they   *)
(* decide once and for all about a block is the constant Unconnectable;    *)
(* what depends on the node's present view of masternodes and sporks, or   *)
(* on the rules of the version that runs, is refused, which the            *)
(* environment changes.  Not modelled: a failing TxnCommit of              *)
(* AddToBlockIndex itself, which leaves a block indexed in memory only,    *)
(* nBestInvalidTrust, which is only reported, and damaged block files.     *)
(***************************************************************************)
EXTENDS BlockTree

CONSTANTS
  Unconnectable,  \* blocks whose ConnectBlock always fails (reward, fees, ...)
  Contested,      \* blocks that are judged by the view and the version
  nCheckDepth     \* -checkblocks: how many blocks the load verifies

ASSUME BlockChainAssumption ==
  /\ Unconnectable \subseteq Block /\ Contested \subseteq Block
  /\ nCheckDepth \in Nat

VARIABLES
  mapBlockIndex,  \* accepted blocks, in memory and on disk alike
  pnext,          \* CBlockIndex::pnext
  pindexBest,     \* pindexBest, hashBestChain, nBestHeight, nBestChainTrust
  disk,           \* the database: transaction index, hashNext, hashBestChain
  batch,          \* the open batch of SetBestChain, as the database it leads to
  pindexNew,      \* SetBestChain's argument; None outside SetBestChain
  goal,           \* the block at which the open batch is committed
  stage,          \* "idle", "reorganize", or "postponed" (Connect further blocks)
  refused,        \* contested blocks the present view rejects
  strayed         \* history: see Stray

vars == <<mapBlockIndex, pnext, pindexBest, disk, batch, pindexNew, goal,
          stage, refused, strayed>>

\* The database.  txIndex gives the block a transaction's CTxIndex points to,
\* vSpent the transaction that spends an output; an erased CTxIndex has no
\* vSpent.
Database == [txIndex : [Tx -> Block \cup {None}],
             vSpent  : [Outpoint -> Tx \cup {None}],
             next    : [Block -> Block \cup {None}],
             tip     : Block]

\* How far the best block in memory has left the connected chain: not at all,
\* in memory only, or with a batch committed since on top of the wrong tip.
Stray == {"no", "memory", "disk"}

TypeOK ==
  /\ mapBlockIndex \subseteq Block
  /\ pnext \in [Block -> Block \cup {None}]
  /\ pindexBest \in Block
  /\ disk \in Database
  /\ batch \in Database
  /\ pindexNew \in Block \cup {None}
  /\ goal \in Block
  /\ stage \in {"idle", "reorganize", "postponed"}
  /\ refused \subseteq Contested
  /\ strayed \in Stray

-----------------------------------------------------------------------------
(* CBlock::DisconnectBlock, DisconnectInputs. *)

\* ReadTxIndex finds the index entry of every input, going through the block
\* from its last transaction to its first.
DisconnectOK(db, b) ==
  \A i \in DOMAIN vtx[b] : \A o \in Inputs[vtx[b][i]] :
    /\ db.txIndex[TxOf[o]] # None
    /\ \A j \in DOMAIN vtx[b] : vtx[b][j] = TxOf[o] => j <= i

SpentBy(b) == UNION {Inputs[t] : t \in Txs(b)}

\* Mutant: the outputs the block spent stay marked as spent.
DisconnectedKeepingSpent(db, b) ==
  [txIndex |-> [t \in Tx |-> IF t \in Txs(b) THEN None ELSE db.txIndex[t]],
   vSpent  |-> [o \in Outpoint |-> IF TxOf[o] \in Txs(b) THEN None ELSE db.vSpent[o]],
   next    |-> [db.next EXCEPT ![Parent[b]] = None],
   tip     |-> Parent[b]]

Disconnected(db, b) ==
  [txIndex |-> [t \in Tx |-> IF t \in Txs(b) THEN None ELSE db.txIndex[t]],
   vSpent  |-> [o \in Outpoint |-> IF o \in SpentBy(b) \/ TxOf[o] \in Txs(b)
                                   THEN None ELSE db.vSpent[o]],
   next    |-> [db.next EXCEPT ![Parent[b]] = None],
   tip     |-> Parent[b]]

-----------------------------------------------------------------------------
(* CBlock::ConnectBlock, FetchInputs, ConnectInputs.  mapQueuedChanges holds
   the index entries of the block's earlier transactions. *)

\* The positions before i at which the block creates the output.
MadeBefore(b, o, i) == {j \in DOMAIN vtx[b] : j < i /\ vtx[b][j] = TxOf[o]}

\* The positions before i at which the block spends the output that position
\* i would spend.
SpentBefore(b, o, i) ==
  {k \in DOMAIN vtx[b] : /\ k < i
                         /\ o \in Inputs[vtx[b][k]]
                         /\ \A j \in MadeBefore(b, o, i) : j < k}

\* Mutant: the depth is one short.
ConfirmedOneShort(pos, b) ==
  pos \in Chain[b] /\ Height[b] - Height[pos] < Maturity - 1

\* IsConfirmedInNPrevBlocks
ConfirmedInPrevBlocks(pos, b) ==
  pos \in Chain[b] /\ Height[b] - Height[pos] < Maturity

InputOK(db, b, i, o) ==
  LET inBlock == MadeBefore(b, o, i) # {}
      pos     == IF inBlock THEN b ELSE db.txIndex[TxOf[o]]
  IN  /\ pos # None
      /\ TxOf[o] \in Generated => ~ConfirmedInPrevBlocks(pos, b)
      /\ ~inBlock => db.vSpent[o] = None
      /\ SpentBefore(b, o, i) = {}

ConnectOK(db, b) ==
  /\ b \notin Unconnectable \cup refused
  /\ \A i \in DOMAIN vtx[b] : \A o \in Inputs[vtx[b][i]] : InputOK(db, b, i, o)

\* The last transaction of the block that spends the output, once created.
SpenderIn(b, o) ==
  {vtx[b][i] : i \in {k \in DOMAIN vtx[b] :
     /\ o \in Inputs[vtx[b][k]]
     /\ \A j \in DOMAIN vtx[b] : vtx[b][j] = TxOf[o] => j < k}}

\* The block's own record is rewritten from memory, its parent's with hashNext.
ConnectedTo(db, b) ==
  [txIndex |-> [t \in Tx |-> IF t \in Txs(b) THEN b ELSE db.txIndex[t]],
   vSpent  |-> [o \in Outpoint |->
                  IF SpenderIn(b, o) # {} THEN CHOOSE t \in SpenderIn(b, o) : TRUE
                  ELSE IF TxOf[o] \in Txs(b) THEN None
                  ELSE db.vSpent[o]],
   next    |-> [db.next EXCEPT ![b] = pnext[b], ![Parent[b]] = b],
   tip     |-> b]
-----------------------------------------------------------------------------
Init ==
  /\ mapBlockIndex = {Genesis}
  /\ pnext = [b \in Block |-> None]
  /\ pindexBest = Genesis
  /\ disk = [txIndex |-> [t \in Tx |-> None],
             vSpent  |-> [o \in Outpoint |-> None],
             next    |-> [b \in Block |-> None],
             tip     |-> Genesis]
  /\ batch = disk
  /\ pindexNew = None
  /\ goal = Genesis
  /\ stage = "idle"
  /\ refused = {}
  /\ strayed = "no"

\* AddToBlockIndex commits the new record, and SetBestChain opens a batch when
\* the block has more trust than the best one.
AddToBlockIndex(b) ==
  /\ stage = "idle"
  /\ b \notin mapBlockIndex
  /\ b # Genesis /\ Parent[b] \in mapBlockIndex
  /\ mapBlockIndex' = mapBlockIndex \cup {b}
  /\ \/ /\ ChainTrust[b] <= ChainTrust[pindexBest]
        /\ UNCHANGED <<batch, pindexNew, goal, stage>>
     \/ /\ ChainTrust[b] > ChainTrust[pindexBest]
        /\ pindexNew' = b
        /\ goal' = Intermediate(pindexBest, b)
        /\ stage' = "reorganize"
        /\ batch' = [disk EXCEPT !.tip = pindexBest]
  /\ UNCHANGED <<pnext, pindexBest, disk, refused, strayed>>

\* Reorganize: disconnect shorter branch.
DisconnectBlock ==
  /\ stage = "reorganize"
  /\ batch.tip \notin Chain[goal]
  /\ DisconnectOK(batch, batch.tip)
  /\ batch' = Disconnected(batch, batch.tip)
  /\ UNCHANGED <<mapBlockIndex, pnext, pindexBest, disk, pindexNew, goal, stage,
                 refused, strayed>>

\* Reorganize: connect longer branch; SetBestChainInner: connect the block.
ConnectBlock(c) ==
  /\ stage # "idle"
  /\ c \in Chain[goal] \ {Genesis}
  /\ Parent[c] = batch.tip
  /\ ConnectOK(batch, c)
  /\ batch' = ConnectedTo(batch, c)
  /\ UNCHANGED <<mapBlockIndex, pnext, pindexBest, disk, pindexNew, goal, stage,
                 refused, strayed>>

\* Mutant: the pointers into the old branch are left as they are.
RelinkedWithoutUnlinking ==
  LET Onto(p) == {c \in Chain[goal] \ Chain[pindexBest] : c # Genesis /\ Parent[c] = p}
  IN  IF stage = "reorganize"
      THEN [p \in Block |-> IF Onto(p) # {} THEN CHOOSE c \in Onto(p) : TRUE ELSE pnext[p]]
      ELSE [pnext EXCEPT ![Parent[goal]] = goal]

\* The chain pointers in memory, changed after the commit.
Relinked ==
  LET gone  == Chain[pindexBest] \ Chain[goal]
      added == Chain[goal] \ Chain[pindexBest]
      Onto(p) == {c \in added : c # Genesis /\ Parent[c] = p}
  IN  IF stage = "reorganize"
      THEN [p \in Block |->
              IF Onto(p) # {} THEN CHOOSE c \in Onto(p) : TRUE
              ELSE IF \E c \in gone : c # Genesis /\ Parent[c] = p THEN None
              ELSE pnext[p]]
      ELSE [pnext EXCEPT ![Parent[goal]] = goal]

\* The batch is committed and memory follows.  When blocks are postponed,
\* TxnBegin opens the next batch; otherwise SetBestChain makes its argument
\* the best block.
TxnCommit ==
  /\ stage # "idle"
  /\ batch.tip = goal
  /\ disk' = batch
  /\ pnext' = Relinked
  /\ strayed' = IF strayed = "no" THEN "no" ELSE "disk"
  /\ \/ /\ goal = pindexNew
        /\ pindexBest' = pindexNew
        /\ pindexNew' = None
        /\ stage' = "idle"
        /\ goal' = Genesis
     \/ /\ goal # pindexNew
        /\ \E c \in Chain[pindexNew] \ {Genesis} : Parent[c] = goal /\ goal' = c
        /\ stage' = "postponed"
        /\ UNCHANGED <<pindexBest, pindexNew>>
  /\ UNCHANGED <<mapBlockIndex, batch, refused>>

\* A batch is given up.  Before the first commit SetBestChain fails and
\* nothing has changed; while connecting further blocks the loop only breaks,
\* and the argument of SetBestChain becomes the best block all the same.
GiveUp ==
  /\ stage' = "idle"
  /\ pindexNew' = None
  /\ \/ /\ stage = "reorganize"
        /\ UNCHANGED <<pindexBest, strayed>>
     \/ /\ stage = "postponed"
        /\ pindexBest' = pindexNew
        /\ strayed' = IF strayed = "no" THEN "memory" ELSE strayed
  /\ batch' = disk /\ goal' = Genesis
  /\ UNCHANGED <<mapBlockIndex, pnext, disk, refused>>

DisconnectFails ==
  /\ stage = "reorganize"
  /\ batch.tip \notin Chain[goal]
  /\ ~DisconnectOK(batch, batch.tip)
  /\ GiveUp

\* Mutant: a block that does not connect is tried again.
ConnectRetries(c) ==
  /\ stage # "idle"
  /\ c \in Chain[goal] \ {Genesis}
  /\ Parent[c] = batch.tip
  /\ ~ConnectOK(batch, c)
  /\ UNCHANGED vars

ConnectFails(c) ==
  /\ stage # "idle"
  /\ c \in Chain[goal] \ {Genesis}
  /\ Parent[c] = batch.tip
  /\ ~ConnectOK(batch, c)
  /\ GiveUp

\* ReadFromDisk of a block fails, or TxnCommit does.
StorageFails == stage # "idle" /\ GiveUp

\* The blocks LoadBlockIndex verifies: it goes down from the best block, as far
\* as the depth and not to the genesis block.
Checked(best) ==
  {c \in Chain[best] \ {Genesis} : Height[c] + nCheckDepth >= Height[best]}

\* Every bad block on the way down replaces pindexFork, so the lowest decides.
LowestBad(best, bad, c) ==
  c \in bad \cap Checked(best) /\ \A d \in bad \cap Checked(best) : c \in Chain[d]

\* The process stops and LoadBlockIndex rebuilds memory from disk.  The node
\* may come up with other rules.  If they refuse a block it verifies,
\* SetBestChain is called for that block's parent: no ancestor has more trust
\* than the best block, so nothing is postponed and nothing connected.
Restart ==
  /\ pnext' = disk.next
  /\ pindexBest' = disk.tip
  /\ strayed' = IF strayed = "disk" THEN "disk" ELSE "no"
  /\ batch' = disk
  /\ refused' \in SUBSET Contested
  /\ \/ /\ refused' \cap Checked(disk.tip) = {}
        /\ pindexNew' = None
        /\ stage' = "idle"
        /\ goal' = Genesis
     \/ \E c \in Block :
          /\ LowestBad(disk.tip, refused', c)
          /\ pindexNew' = Parent[c]
          /\ stage' = "reorganize"
          /\ goal' = Parent[c]
  /\ UNCHANGED <<mapBlockIndex, disk>>

\* Masternode announcements, winner votes, sporks and locks change the node's
\* view.
ViewChanges ==
  /\ stage = "idle"
  /\ refused' \in SUBSET Contested
  /\ refused' # refused
  /\ UNCHANGED <<mapBlockIndex, pnext, pindexBest, disk, batch, pindexNew, goal,
                 stage, strayed>>

SetBestChainStep ==
  \/ DisconnectBlock
  \/ \E c \in Block : ConnectBlock(c)
  \/ TxnCommit
  \/ DisconnectFails
  \/ \E c \in Block : ConnectFails(c)

Next ==
  \/ \E b \in Block : AddToBlockIndex(b)
  \/ SetBestChainStep
  \/ StorageFails
  \/ Restart
  \/ ViewChanges

Spec == Init /\ [][Next]_vars

\* SetBestChain runs to its end without waiting for anything: the thread that
\* holds cs_main keeps taking its steps.
FairSpec == Spec /\ WF_vars(SetBestChainStep)

-----------------------------------------------------------------------------
(* Properties. *)

\* The index entries are those of the connected chain's transactions.
IndexExact(db) ==
  \A t \in Tx, b \in Block :
    db.txIndex[t] = b <=> b \in Connected(db.tip) /\ t \in Txs(b)

\* The spent marks are those of the indexed transactions' inputs.
SpentExact(db) ==
  \A o \in Outpoint, t \in Tx :
    db.vSpent[o] = t <=> db.txIndex[t] # None /\ o \in Inputs[t]

\* Inputs of indexed transactions are indexed, on the chain below them, and
\* mature if generated.
InputsExact(db) ==
  \A t \in Tx : db.txIndex[t] # None =>
    \A o \in Inputs[t] :
      LET pos == db.txIndex[TxOf[o]]
      IN  /\ pos # None
          /\ pos \in Chain[db.txIndex[t]]
          /\ TxOf[o] \in Generated => Height[db.txIndex[t]] - Height[pos] >= Maturity

\* hashNext links the blocks of the connected chain and no others.
NextExact(db) ==
  \A p, c \in Block :
    db.next[p] = c <=> c \in Connected(db.tip) /\ Parent[c] = p

Exact(db) == IndexExact(db) /\ SpentExact(db) /\ InputsExact(db) /\ NextExact(db)

\* After any mixture of extensions, reorganisations, given-up batches and
\* crashes the database holds exactly what replaying the chain to its
\* hashBestChain would give, unless a batch was committed after the best block
\* in memory had left the connected chain.
IndexMatchesChain == strayed # "disk" => Exact(disk)

\* The chain to hashBestChain is valid as a whole: no double spend anywhere on
\* it, every input created on it, generated coins spent only when mature.
BestChainValid == strayed # "disk" => ValidChain(disk.tip)

IsInMainChain(b) == pnext[b] # None \/ b = pindexBest

\* CBlockIndex::IsInMainChain, which wallet depth and getheaders rely on, is
\* true of the best block and its ancestors and of no other block.
MainChainPointers ==
  stage = "idle" /\ strayed = "no" =>
    \A b \in mapBlockIndex : IsInMainChain(b) <=> b \in Chain[pindexBest]

\* The chain to g is what is left of the best chain below the blocks that the
\* load refuses: its last block is the parent of one, and among those the load
\* verifies none is left on it.
BelowRefused(best, g) ==
  /\ \E c \in refused \cap Checked(best) : Parent[c] = g
  /\ refused \cap Checked(best) \cap Chain[g] = {}

\* A commit replaces the chain on disk by one with more trust, even when the
\* best block in memory has strayed from it; the one exception is the load that
\* goes back below the blocks it refuses, and no further.
TrustGrows ==
  [][disk'.tip # disk.tip => \/ ChainTrust[disk'.tip] > ChainTrust[disk.tip]
                             \/ BelowRefused(disk.tip, disk'.tip)]_vars

\* SetBestChain ends, the load's own call included, unless the process is
\* stopped again and again.
SetBestChainEnds == <>[][~Restart]_vars => ((stage # "idle") ~> (stage = "idle"))

\* "errors now are not fatal, we still did a reorganisation to a new chain in a
\* valid way" (main.cpp, SetBestChain): the best block in memory is the one
\* whose chain is connected and committed.
BestBlockIsConnected == stage = "idle" => pindexBest = disk.tip
=============================================================================
