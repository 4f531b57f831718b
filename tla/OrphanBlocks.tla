---------------------------- MODULE OrphanBlocks ----------------------------
(***************************************************************************)
(* ProcessBlock (main.cpp): blocks arrive in any order, from peers or from *)
(* the node's own miner; a block whose parent is unknown waits among the   *)
(* orphans, and is taken up again when its parent is accepted.  When there *)
(* are too many, PruneOrphanBlocks walks from a random orphan to the ones  *)
(* that wait for it, and removes the one where it ends.  All of this runs  *)
(* under cs_main: only a crash comes between the turns of a loop.          *)
(*                                                                         *)
(* AcceptBlock has three outcomes.  It may refuse the block; it may accept *)
(* it; and it may fail after AddToBlockIndex has entered the block into    *)
(* mapBlockIndex, because SetBestChain failed (module BlockChain).  Which  *)
(* blocks can meet which outcome are constants.                            *)
(***************************************************************************)
EXTENDS Naturals, FiniteSets

CONSTANTS
  Block, Genesis,
  NoBlock,
  Parent,          \* hashPrevBlock
  Stake,           \* GetProofOfStake(); NoStake for a proof-of-work block
  NoStake,
  Refusable,       \* blocks AcceptBlock may refuse
  Contestable,     \* blocks AcceptBlock may fail on once they are in the index
  MaxOrphanBlocks  \* -maxorphanblocks

ASSUME OrphanBlocksAssumption ==
  /\ Genesis \in Block /\ NoBlock \notin Block
  /\ Parent \in [Block \ {Genesis} -> Block]
  /\ \A b \in Block \ {Genesis} : Parent[b] # b
  /\ DOMAIN Stake = Block
  /\ Refusable \subseteq Block /\ Contestable \subseteq Block
  /\ MaxOrphanBlocks \in Nat

VARIABLES
  mapBlockIndex,
  mapOrphanBlocks,
  mapOrphanBlocksByPrev,  \* per hashPrev, the orphans that wait for it
  setStakeSeen, setStakeSeenOrphan,
  shunted,                \* the block PruneOrphanBlocks makes room for, or NoBlock
  it,                     \* the orphan its walk is at, or NoBlock
  vWorkQueue,             \* accepted blocks whose orphans are still to be tried
  failed                  \* history: blocks AcceptBlock left in the index as it failed

vars == <<mapBlockIndex, mapOrphanBlocks, mapOrphanBlocksByPrev, setStakeSeen,
          setStakeSeenOrphan, shunted, it, vWorkQueue, failed>>

\* ProcessBlock is not running.
Idle == it = NoBlock /\ vWorkQueue = {}

StakesOf(S) == {Stake[b] : b \in S} \ {NoStake}

TypeOK ==
  /\ mapBlockIndex \subseteq Block
  /\ mapOrphanBlocks \subseteq Block \ {Genesis}
  /\ mapOrphanBlocksByPrev \in [Block -> SUBSET Block]
  /\ setStakeSeen \subseteq StakesOf(Block)
  /\ setStakeSeenOrphan \subseteq StakesOf(Block)
  /\ shunted \in Block \cup {NoBlock} /\ it \in Block \cup {NoBlock}
  /\ vWorkQueue \subseteq mapBlockIndex
  /\ failed \subseteq mapBlockIndex

-----------------------------------------------------------------------------
\* AcceptBlock succeeds.
Accept(b) ==
  /\ b \notin mapBlockIndex
  /\ mapBlockIndex' = mapBlockIndex \cup {b}
  /\ setStakeSeen' = setStakeSeen \cup StakesOf({b})
  /\ UNCHANGED failed

\* AcceptBlock fails, before or after the block has entered the index.
AcceptFails(b) ==
  \/ /\ b \in Refusable \cup mapBlockIndex
     /\ UNCHANGED <<mapBlockIndex, setStakeSeen, failed>>
  \/ /\ b \in Contestable \ mapBlockIndex
     /\ mapBlockIndex' = mapBlockIndex \cup {b}
     /\ setStakeSeen' = setStakeSeen \cup StakesOf({b})
     /\ failed' = failed \cup {b}

WaitingUnder(p) == mapOrphanBlocksByPrev[p]

\* The number of entries of the multimap.
OrphanCount == Cardinality(mapOrphanBlocks)

\* Mutant: the bookkeeping by parent is forgotten.
ReplaceByHashOnly(gone, new) ==
  /\ mapOrphanBlocks' = (mapOrphanBlocks \ gone) \cup new
  /\ setStakeSeenOrphan' = (setStakeSeenOrphan \ StakesOf(gone)) \cup StakesOf(new)
  /\ mapOrphanBlocksByPrev' = [p \in Block |->
       mapOrphanBlocksByPrev[p] \cup {b \in new : Parent[b] = p}]

\* Mutant: the stakes of orphans that leave stay marked.
ReplaceKeepingStakes(gone, new) ==
  /\ mapOrphanBlocks' = (mapOrphanBlocks \ gone) \cup new
  /\ setStakeSeenOrphan' = setStakeSeenOrphan \cup StakesOf(new)
  /\ mapOrphanBlocksByPrev' = [p \in Block |->
       (mapOrphanBlocksByPrev[p] \ gone) \cup {b \in new : Parent[b] = p}]

\* Orphans leave and enter the two maps and the set of stakes together.
Replace(gone, new) ==
  /\ mapOrphanBlocks' = (mapOrphanBlocks \ gone) \cup new
  /\ setStakeSeenOrphan' = (setStakeSeenOrphan \ StakesOf(gone)) \cup StakesOf(new)
  /\ mapOrphanBlocksByPrev' = [p \in Block |->
       (mapOrphanBlocksByPrev[p] \ gone) \cup {b \in new : Parent[b] = p}]

\* Limited duplicity on stake: a stake seen before is let through only for a
\* block that an orphan waits for.
StakeAllowed(b, seen) == Stake[b] \in seen => WaitingUnder(b) # {}

-----------------------------------------------------------------------------
Init ==
  /\ mapBlockIndex = {Genesis}
  /\ mapOrphanBlocks = {}
  /\ mapOrphanBlocksByPrev = [p \in Block |-> {}]
  /\ setStakeSeen = {} /\ setStakeSeenOrphan = {}
  /\ shunted = NoBlock /\ it = NoBlock
  /\ vWorkQueue = {}
  /\ failed = {}

\* Mutant: a block that waits among the orphans is processed again.
NewUnlessIndexed(b) ==
  /\ Idle
  /\ b \notin mapBlockIndex
  /\ StakeAllowed(b, setStakeSeen)

New(b) ==
  /\ Idle
  /\ b \notin mapBlockIndex \cup mapOrphanBlocks
  /\ StakeAllowed(b, setStakeSeen)

\* PruneOrphanBlocks returns at once.
Room == OrphanCount <= MaxOrphanBlocks

\* A block from a peer whose parent is unknown.  If there is no room for it,
\* PruneOrphanBlocks picks a random orphan and begins to walk.
ShuntOrphan(b) ==
  /\ New(b)
  /\ Parent[b] \notin mapBlockIndex
  /\ StakeAllowed(b, setStakeSeenOrphan)
  /\ \/ /\ Room
        /\ Replace({}, {b})
        /\ UNCHANGED <<shunted, it>>
     \/ /\ ~Room
        /\ shunted' = b
        /\ it' \in UNION {mapOrphanBlocksByPrev[p] : p \in Block}
        /\ UNCHANGED <<mapOrphanBlocks, mapOrphanBlocksByPrev, setStakeSeenOrphan>>
  /\ UNCHANGED <<mapBlockIndex, setStakeSeen, vWorkQueue, failed>>

\* As long as this block has other orphans depending on it, move to one of
\* those successors.
Walk ==
  /\ it # NoBlock
  /\ it' \in WaitingUnder(it)
  /\ UNCHANGED <<mapBlockIndex, mapOrphanBlocks, mapOrphanBlocksByPrev, setStakeSeen,
                 setStakeSeenOrphan, shunted, vWorkQueue, failed>>

\* Mutant: the walk stops before its end.
PruneEarly ==
  /\ it # NoBlock
  /\ Replace({it}, {shunted})
  /\ it' = NoBlock /\ shunted' = NoBlock
  /\ UNCHANGED <<mapBlockIndex, setStakeSeen, vWorkQueue, failed>>

\* The end of PruneOrphanBlocks, and of ProcessBlock.
Prune ==
  /\ it # NoBlock
  /\ WaitingUnder(it) = {}
  /\ Replace({it}, {shunted})
  /\ it' = NoBlock /\ shunted' = NoBlock
  /\ UNCHANGED <<mapBlockIndex, setStakeSeen, vWorkQueue, failed>>

\* A block whose parent is known.
ProcessBlock(b) ==
  /\ New(b)
  /\ Parent[b] \in mapBlockIndex
  /\ \/ Accept(b) /\ vWorkQueue' = {b}
     \/ AcceptFails(b) /\ UNCHANGED vWorkQueue
  /\ UNCHANGED <<mapOrphanBlocks, mapOrphanBlocksByPrev, setStakeSeenOrphan, shunted, it>>

\* Mutant: an orphan that is not accepted stays.
ProcessOrphanKeeping(p, b) ==
  /\ p \in vWorkQueue
  /\ b \in WaitingUnder(p)
  /\ \/ Accept(b) /\ Replace({b}, {}) /\ vWorkQueue' = vWorkQueue \cup {b}
     \/ AcceptFails(b) /\ Replace({}, {}) /\ UNCHANGED vWorkQueue
  /\ UNCHANGED <<shunted, it>>

\* Recursively process any orphan blocks that depended on this one: the
\* orphan leaves whatever AcceptBlock says.
ProcessOrphan(p, b) ==
  /\ p \in vWorkQueue
  /\ b \in WaitingUnder(p)
  /\ Replace({b}, {})
  /\ \/ Accept(b) /\ vWorkQueue' = vWorkQueue \cup {b}
     \/ AcceptFails(b) /\ UNCHANGED vWorkQueue
  /\ UNCHANGED <<shunted, it>>

\* Mutant: only the first orphan that waits for a block is taken up.
WorkDoneAfterOne(p) ==
  /\ p \in vWorkQueue
  /\ vWorkQueue' = vWorkQueue \ {p}
  /\ UNCHANGED <<mapBlockIndex, mapOrphanBlocks, mapOrphanBlocksByPrev, setStakeSeen,
                 setStakeSeenOrphan, shunted, it, failed>>

WorkDone(p) ==
  /\ p \in vWorkQueue
  /\ WaitingUnder(p) = {}
  /\ vWorkQueue' = vWorkQueue \ {p}
  /\ UNCHANGED <<mapBlockIndex, mapOrphanBlocks, mapOrphanBlocksByPrev, setStakeSeen,
                 setStakeSeenOrphan, shunted, it, failed>>

\* The orphans are in memory only; setStakeSeen is built from the index.
Restart ==
  /\ mapOrphanBlocks' = {}
  /\ mapOrphanBlocksByPrev' = [p \in Block |-> {}]
  /\ setStakeSeenOrphan' = {}
  /\ setStakeSeen' = StakesOf(mapBlockIndex)
  /\ shunted' = NoBlock /\ it' = NoBlock
  /\ vWorkQueue' = {}
  /\ UNCHANGED <<mapBlockIndex, failed>>

Drain ==
  \/ \E p, b \in Block : ProcessOrphan(p, b)
  \/ \E p \in Block : WorkDone(p)

Next ==
  \/ \E b \in Block \ {Genesis} : ShuntOrphan(b)
  \/ \E b \in Block \ {Genesis} : ProcessBlock(b)
  \/ Walk
  \/ Prune
  \/ Drain
  \/ Restart

Spec == Init /\ [][Next]_vars

\* ProcessBlock goes on with its loops.
FairSpec == Spec /\ WF_vars(Walk \/ Prune) /\ WF_vars(Drain)

-----------------------------------------------------------------------------
(* Properties. *)

\* The two maps hold the same orphans, each under its parent.
MapsAgree ==
  \A p \in Block : mapOrphanBlocksByPrev[p] = {b \in mapOrphanBlocks : Parent[b] = p}

\* A block is accepted or waits, never both.
OrphansUnindexed == mapOrphanBlocks \cap mapBlockIndex = {}

\* A stake marked as seen among the orphans is that of an orphan: no mark of a
\* pruned or accepted orphan is left to turn a block away.
StakesBacked == setStakeSeenOrphan \subseteq StakesOf(mapOrphanBlocks)

\* When ProcessBlock is done, an orphan waits only for a block that is not in
\* the index, or for one that AcceptBlock failed on after indexing it.
OrphansTakenUp ==
  \A b \in mapOrphanBlocks :
    Parent[b] \in mapBlockIndex => Parent[b] \in vWorkQueue \cup failed

\* PruneOrphanBlocks does not take a block from under another orphan, wherever
\* its walk began: the one that goes has no orphan waiting for it.
PruneStep ==
  vWorkQueue = {} /\ mapOrphanBlocks' # {} =>
    \A old \in mapOrphanBlocks \ mapOrphanBlocks' :
      \A b \in mapOrphanBlocks : b # Genesis => Parent[b] # old

PrunesLeaves == [][PruneStep]_vars

\* The orphans never exceed the limit by more than the one just entered:
\* PruneOrphanBlocks makes room before the new orphan is inserted, and leaves
\* -maxorphanblocks of them.
OrphansBounded == OrphanCount <= MaxOrphanBlocks + 1

\* ProcessBlock ends: the walk through the orphans comes to one that nothing
\* waits for, and the work queue runs empty.
ProcessBlockEnds == ~Idle ~> Idle
=============================================================================
