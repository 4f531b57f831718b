--------------------------- MODULE MemPoolProofs ---------------------------
(***************************************************************************)
(* TLAPS proofs about MemPool: the pool's pointers, the pool against the   *)
(* chain, the orphan index, and what a reorganisation keeps and takes out, *)
(* for every block tree and every set of transactions.                     *)
(***************************************************************************)
EXTENDS MemPool, FiniteSetTheorems, TLAPS, WellFoundedInduction

-----------------------------------------------------------------------------
(* The tree: facts that BlockChainProofs uses as well. *)

LEMMA ChainStep ==
  ASSUME NEW b \in Block, b # Genesis
  PROVE  /\ Parent[b] \in Block
         /\ Chain[b] = {b} \cup Chain[Parent[b]]
         /\ b \notin Chain[Parent[b]]
         /\ Connected(b) = {b} \cup Connected(Parent[b])
         /\ Connected(Parent[b]) = Connected(b) \ {b}
         /\ Parent[b] # b
         /\ Chain[b] \subseteq Block
<1>1. /\ Parent[b] \in Block
      /\ Chain[b] = {b} \cup Chain[Parent[b]]
      /\ b \notin Chain[Parent[b]]
      /\ Chain[b] \subseteq Block
      /\ Parent[b] \in Chain[Parent[b]]
  BY TreeAssumption
<1>2. Connected(b) = {b} \cup Connected(Parent[b])
  BY <1>1 DEF Connected
<1> QED  BY <1>1, <1>2 DEF Connected

LEMMA ChainMember ==
  ASSUME NEW b \in Block, NEW c \in Chain[b]
  PROVE  c \in Block /\ Chain[c] \subseteq Chain[b]
BY TreeAssumption

LEMMA ParentInChain ==
  ASSUME NEW b \in Block, NEW c \in Chain[b], c # Genesis
  PROVE  Parent[c] \in Chain[b]
<1>1. c \in Block /\ Chain[c] \subseteq Chain[b]
  BY ChainMember
<1>2. Parent[c] \in Chain[c]
  BY <1>1, ChainStep, TreeAssumption
<1> QED  BY <1>1, <1>2

LEMMA TxsType ==
  ASSUME NEW b \in Block
  PROVE  /\ Txs(b) \subseteq Tx
         /\ \A i \in DOMAIN vtx[b] : vtx[b][i] \in Tx /\ i \in Nat
         /\ DOMAIN vtx[b] = 1..Len(vtx[b])
         /\ Len(vtx[b]) \in Nat
<1>1. vtx[b] \in Seq(Tx)
  BY TxAssumption
<1> QED  BY <1>1 DEF Txs

\* A non-empty set of positions has a first member.
LEMMA MinPosition ==
  ASSUME NEW S, S \subseteq Nat, S # {}
  PROVE  \E i \in S : \A j \in S : i <= j
<1>1. PICK x \in S : \A y \in S : ~(<<y, x>> \in OpToRel(<, Nat))
  BY NatLessThanWellFounded, WFMin
<1>2. ASSUME NEW y \in S, y < x PROVE FALSE
  <2>1. x \in Nat /\ y \in Nat
    OBVIOUS
  <2>2. <<y, x>> \in OpToRel(<, Nat)
    BY <1>2, <2>1 DEF OpToRel
  <2> QED  BY <1>1, <2>2
<1>3. \A y \in S : x <= y
  BY <1>2
<1> QED  BY <1>3

LEMMA ChainTrustStep ==
  ASSUME NEW b \in Block, b # Genesis
  PROVE  ChainTrust[Parent[b]] < ChainTrust[b]
BY HeightAssumption, ChainStep

LEMMA ChainTrustMember ==
  ASSUME NEW b \in Block, NEW c \in Chain[b]
  PROVE  c \in Block /\ ChainTrust[c] <= ChainTrust[b] /\ ChainTrust[c] \in Nat
         /\ ChainTrust[b] \in Nat
BY HeightAssumption, ChainMember

\* SetBestChain's loop finds its block: the first on the way to b with more
\* trust than the best block.
LEMMA IntermediateExists ==
  ASSUME NEW best \in Block, NEW b \in Block, ChainTrust[b] > ChainTrust[best]
  PROVE  /\ Intermediate(best, b) \in Chain[b] /\ Intermediate(best, b) # Genesis
         /\ ChainTrust[Intermediate(best, b)] > ChainTrust[best]
<1> DEFINE A == {c \in Chain[b] : ChainTrust[c] > ChainTrust[best]}
           T == {ChainTrust[c] : c \in A}
<1>1. b \in A
  BY TreeAssumption
<1>2. T \subseteq Nat /\ T # {}
  BY <1>1, ChainTrustMember
<1>3. PICK x \in T : \A y \in T : x <= y
  <2> HIDE DEF T
  <2> QED  BY <1>2, MinPosition
<1>4. PICK c \in A : x = ChainTrust[c]
  BY <1>3
<1>5. ASSUME c # Genesis PROVE ChainTrust[Parent[c]] <= ChainTrust[best]
  <2>1. c \in Block /\ Parent[c] \in Chain[b]
    BY <1>5, ChainMember, ParentInChain
  <2>2. ChainTrust[Parent[c]] < ChainTrust[c] /\ ChainTrust[c] \in Nat
        /\ ChainTrust[Parent[c]] \in Nat /\ ChainTrust[best] \in Nat
    BY <1>5, <2>1, ChainTrustStep, ChainStep, HeightAssumption
  <2>3. Parent[c] \in A => ChainTrust[c] <= ChainTrust[Parent[c]]
    BY <1>3, <1>4
  <2>4. Parent[c] \notin A
    BY <2>2, <2>3
  <2> QED  BY <2>1, <2>2, <2>4
<1>6. /\ Intermediate(best, b) \in Chain[b]
      /\ ChainTrust[Intermediate(best, b)] > ChainTrust[best]
  BY <1>4, <1>5 DEF Intermediate
<1>7. Genesis \in Chain[best]
  BY TreeAssumption
<1>8. ChainTrust[Genesis] <= ChainTrust[best] /\ ChainTrust[Genesis] \in Nat
      /\ ChainTrust[best] \in Nat
  BY <1>7, ChainTrustMember
<1> QED  BY <1>6, <1>8

-----------------------------------------------------------------------------
(* The invariant. *)

\* Where SetBestChain stands: the index is that of the best block unless a
\* reorganisation is under way, and only then are there lists to go through.
StageInv ==
  /\ stage \in {"idle", "orphans"} => tip = pindexBest
  /\ stage # "reorganize" => vResurrect = {} /\ vDelete = {}

IInv == TypeOK /\ StageInv /\ SpendsExact /\ PoolUnconfirmed /\ OrphanIndexExact

-----------------------------------------------------------------------------
(* The operations of the pool. *)

\* A transaction none of whose inputs is spent in the pool joins it.
LEMMA AddKeepsExact ==
  ASSUME TypeOK, SpendsExact, NEW t \in Tx,
         \A o \in Inputs[t] : mapNextTx[o] = None, addUnchecked(t)
  PROVE  /\ SpendsExact'
         /\ mapTx' \subseteq Tx
         /\ mapNextTx' \in [Outpoint -> Tx \cup {None}]
<1>1. None \notin Tx /\ Inputs[t] \subseteq Outpoint
  BY TreeAssumption, TxAssumption
<1>2. /\ mapTx' = mapTx \cup {t}
      /\ mapNextTx' = [o \in Outpoint |-> IF o \in Inputs[t] THEN t ELSE mapNextTx[o]]
  BY DEF addUnchecked
<1>3. SpendsExact'
  <2> SUFFICES ASSUME NEW o \in Outpoint, NEW u \in Tx
               PROVE  mapNextTx'[o] = u <=> u \in mapTx' /\ o \in Inputs[u]
    BY DEF SpendsExact
  <2>1. mapNextTx'[o] = IF o \in Inputs[t] THEN t ELSE mapNextTx[o]
    BY <1>2
  <2>2. mapNextTx[o] = u <=> u \in mapTx /\ o \in Inputs[u]
    BY DEF SpendsExact
  <2> QED  BY <1>1, <1>2, <2>1, <2>2
<1> QED  BY <1>2, <1>3 DEF TypeOK

LEMMA RemoveKeepsExact ==
  ASSUME TypeOK, SpendsExact, NEW S, remove(S)
  PROVE  /\ SpendsExact'
         /\ mapTx' = mapTx \ S
         /\ mapTx' \subseteq Tx
         /\ mapNextTx' \in [Outpoint -> Tx \cup {None}]
<1>1. None \notin Tx
  BY TreeAssumption
<1>2. /\ mapTx' = mapTx \ S
      /\ mapNextTx' = [o \in Outpoint |->
           IF \E t \in S \cap mapTx : o \in Inputs[t] THEN None ELSE mapNextTx[o]]
  BY DEF remove
<1>3. SpendsExact'
  <2> SUFFICES ASSUME NEW o \in Outpoint, NEW u \in Tx
               PROVE  mapNextTx'[o] = u <=> u \in mapTx' /\ o \in Inputs[u]
    BY DEF SpendsExact
  <2>1. \A v \in Tx : mapNextTx[o] = v <=> v \in mapTx /\ o \in Inputs[v]
    BY DEF SpendsExact
  <2>2. CASE \E t \in S \cap mapTx : o \in Inputs[t]
    <3>1. PICK t \in S \cap mapTx : o \in Inputs[t]
      BY <2>2
    <3>2. t \in Tx /\ mapNextTx[o] = t
      BY <2>1, <3>1 DEF TypeOK
    <3>3. mapNextTx'[o] = None
      BY <1>2, <2>2
    <3> QED  BY <1>1, <1>2, <2>1, <3>1, <3>2, <3>3
  <2>3. CASE ~\E t \in S \cap mapTx : o \in Inputs[t]
    <3>1. mapNextTx'[o] = mapNextTx[o]
      BY <1>2, <2>3
    <3> QED  BY <1>2, <2>1, <2>3, <3>1
  <2> QED  BY <2>2, <2>3
<1> QED  BY <1>2, <1>3 DEF TypeOK

LEMMA AcceptedFacts ==
  ASSUME NEW t \in Tx, NEW l \in BOOLEAN, AcceptToMemoryPool(t, l) = "accepted"
  PROVE  /\ \A o \in Inputs[t] : mapNextTx[o] = None
         /\ ~ContainsTx(tip, t)
BY DEF AcceptToMemoryPool

LEMMA OrphansKeepExact ==
  ASSUME TypeOK, OrphanIndexExact, NEW S, S \subseteq Tx, SetOrphans(S)
  PROVE  /\ OrphanIndexExact'
         /\ mapOrphanTransactions' \subseteq Tx
         /\ mapOrphanTransactionsByPrev' \in [Tx -> SUBSET Tx]
<1> DEFINE gone == mapOrphanTransactions \ S
           new  == S \ mapOrphanTransactions
<1>1. /\ mapOrphanTransactions' = S
      /\ mapOrphanTransactionsByPrev' = [p \in Tx |->
           (mapOrphanTransactionsByPrev[p] \ {t \in gone : p \in Prevs(t)})
             \cup {t \in new : p \in Prevs(t)}]
  BY DEF SetOrphans
<1>2. ASSUME NEW p \in Tx
      PROVE  mapOrphanTransactionsByPrev'[p] = {t \in S : p \in Prevs(t)}
  <2>1. mapOrphanTransactionsByPrev[p] = {t \in mapOrphanTransactions : p \in Prevs(t)}
    BY DEF OrphanIndexExact
  <2>2. mapOrphanTransactionsByPrev'[p] =
          (mapOrphanTransactionsByPrev[p] \ {t \in gone : p \in Prevs(t)})
             \cup {t \in new : p \in Prevs(t)}
    BY <1>1
  <2> QED  BY <2>1, <2>2
<1>3. OrphanIndexExact'
  <2>1. \A p \in Tx : mapOrphanTransactionsByPrev'[p]
                        = {t \in mapOrphanTransactions' : p \in Prevs(t)}
    BY <1>1, <1>2
  <2> QED  BY <2>1 DEF OrphanIndexExact, Prevs
<1>4. mapOrphanTransactionsByPrev' \in [Tx -> SUBSET Tx]
  BY <1>1 DEF TypeOK
<1> QED  BY <1>1, <1>3, <1>4

\* The index of a block's chain is that of its parent's and the block itself.
LEMMA ContainsStep ==
  ASSUME NEW b \in Block, b # Genesis, NEW t, ContainsTx(b, t)
  PROVE  t \in Txs(b) \/ ContainsTx(Parent[b], t)
BY ChainStep DEF ContainsTx

-----------------------------------------------------------------------------
(* The inductive invariant. *)

LEMMA InitIInv == Init => IInv
<1> SUFFICES ASSUME Init PROVE IInv
  OBVIOUS
<1>1. None \notin Tx /\ Genesis \in Block
  BY TreeAssumption
<1>2. TypeOK /\ StageInv /\ PoolUnconfirmed
  BY <1>1 DEF Init, TypeOK, StageInv, PoolUnconfirmed
<1>3. SpendsExact /\ OrphanIndexExact
  BY <1>1 DEF Init, SpendsExact, OrphanIndexExact
<1> QED  BY <1>2, <1>3 DEF IInv

\* A step that leaves the chain and its lists alone and adds at most one
\* acceptable transaction to the pool.
LEMMA PoolStep ==
  ASSUME IInv, NEW t \in Tx, NEW l \in BOOLEAN,
         UNCHANGED <<chainVars, vDelete>>,
         stage = stage' \/ {stage, stage'} \subseteq {"idle", "orphans"},
         \/ AcceptToMemoryPool(t, l) = "accepted" /\ addUnchecked(t)
         \/ UNCHANGED poolVars
  PROVE  /\ SpendsExact' /\ PoolUnconfirmed'
         /\ mapTx' \subseteq Tx
         /\ mapNextTx' \in [Outpoint -> Tx \cup {None}]
<1> USE DEF chainVars, poolVars
<1>1. CASE AcceptToMemoryPool(t, l) = "accepted" /\ addUnchecked(t)
  <2>1. /\ SpendsExact'
        /\ mapTx' \subseteq Tx
        /\ mapNextTx' \in [Outpoint -> Tx \cup {None}]
    BY <1>1, AcceptedFacts, AddKeepsExact DEF IInv
  <2>2. mapTx' = mapTx \cup {t} /\ ~ContainsTx(tip, t)
    BY <1>1, AcceptedFacts DEF addUnchecked
  <2>3. PoolUnconfirmed'
    BY <2>2 DEF IInv, PoolUnconfirmed, ContainsTx
  <2> QED  BY <2>1, <2>3
<1>2. CASE UNCHANGED poolVars
  BY <1>2 DEF IInv, TypeOK, SpendsExact, PoolUnconfirmed, ContainsTx
<1> QED  BY <1>1, <1>2

LEMMA OrphansUnchanged ==
  ASSUME OrphanIndexExact, UNCHANGED orphanVars
  PROVE  OrphanIndexExact'
BY DEF orphanVars, OrphanIndexExact

LEMMA MessageStep ==
  ASSUME IInv,
         \/ \E t \in Tx, dstx, limited \in BOOLEAN : ReceiveTx(t, dstx, limited)
         \/ \E w, u \in Tx, limited \in BOOLEAN : TryOrphan(w, u, limited)
         \/ EraseTried
         \/ \E t \in Tx : SubmitTx(t)
         \/ \E t \in Tx : Resurrect(t)
  PROVE  IInv'
<1>0. TypeOK /\ StageInv /\ OrphanIndexExact
  BY DEF IInv
<1> USE DEF chainVars, poolVars, orphanVars, loopVars
<1>1. ASSUME NEW t \in Tx, NEW dstx \in BOOLEAN, NEW l \in BOOLEAN, ReceiveTx(t, dstx, l)
      PROVE  IInv'
  <2>1. /\ SpendsExact' /\ PoolUnconfirmed'
        /\ mapTx' \subseteq Tx
        /\ mapNextTx' \in [Outpoint -> Tx \cup {None}]
    BY <1>1, PoolStep DEF ReceiveTx
  <2>2. /\ OrphanIndexExact'
        /\ mapOrphanTransactions' \subseteq Tx
        /\ mapOrphanTransactionsByPrev' \in [Tx -> SUBSET Tx]
    <3>1. CASE UNCHANGED orphanVars
      BY <1>0, <3>1, OrphansUnchanged DEF TypeOK
    <3>2. CASE \E kept \in SUBSET WithOrphan(t) : SetOrphans(kept)
      <4>1. PICK kept \in SUBSET WithOrphan(t) : SetOrphans(kept)
        BY <3>2
      <4>2. kept \subseteq Tx
        BY <1>0 DEF TypeOK, WithOrphan
      <4> QED  BY <1>0, <4>1, <4>2, OrphansKeepExact
    <3> QED  BY <1>1, <3>1, <3>2 DEF ReceiveTx
  <2>3. tries' \subseteq Tx \X Tx
    BY <1>0, <1>1 DEF ReceiveTx, TypeOK
  <2>4. TypeOK'
    BY <1>0, <1>1, <2>1, <2>2, <2>3 DEF ReceiveTx, TypeOK
  <2>5. StageInv'
    BY <1>0, <1>1 DEF ReceiveTx, StageInv
  <2> QED  BY <2>1, <2>2, <2>4, <2>5 DEF IInv
<1>2. ASSUME NEW w \in Tx, NEW u \in Tx, NEW l \in BOOLEAN, TryOrphan(w, u, l)
      PROVE  IInv'
  <2>1. /\ SpendsExact' /\ PoolUnconfirmed'
        /\ mapTx' \subseteq Tx
        /\ mapNextTx' \in [Outpoint -> Tx \cup {None}]
    BY <1>2, PoolStep DEF TryOrphan
  <2>2. OrphanIndexExact'
    BY <1>0, <1>2, OrphansUnchanged DEF TryOrphan
  <2>3. tries' \subseteq Tx \X Tx /\ vEraseQueue' \subseteq Tx
    BY <1>0, <1>2 DEF TryOrphan, TypeOK
  <2>4. TypeOK'
    BY <1>0, <1>2, <2>1, <2>3 DEF TryOrphan, TypeOK
  <2>5. StageInv'
    BY <1>0, <1>2 DEF TryOrphan, StageInv
  <2> QED  BY <2>1, <2>2, <2>4, <2>5 DEF IInv
<1>3. ASSUME EraseTried PROVE IInv'
  <2>1. SpendsExact' /\ PoolUnconfirmed'
    BY <1>3 DEF EraseTried, IInv, SpendsExact, PoolUnconfirmed, ContainsTx
  <2>2. /\ OrphanIndexExact'
        /\ mapOrphanTransactions' \subseteq Tx
        /\ mapOrphanTransactionsByPrev' \in [Tx -> SUBSET Tx]
    <3>1. mapOrphanTransactions \ vEraseQueue \subseteq Tx
      BY <1>0 DEF TypeOK
    <3> QED  BY <1>0, <1>3, <3>1, OrphansKeepExact DEF EraseTried
  <2>3. TypeOK'
    BY <1>0, <1>3, <2>2 DEF EraseTried, TypeOK
  <2>4. StageInv'
    BY <1>0, <1>3 DEF EraseTried, StageInv
  <2> QED  BY <2>1, <2>2, <2>3, <2>4 DEF IInv
<1>4. ASSUME NEW t \in Tx, SubmitTx(t) PROVE IInv'
  <2>1. /\ SpendsExact' /\ PoolUnconfirmed'
        /\ mapTx' \subseteq Tx
        /\ mapNextTx' \in [Outpoint -> Tx \cup {None}]
    BY <1>4, PoolStep DEF SubmitTx
  <2>2. OrphanIndexExact'
    BY <1>0, <1>4, OrphansUnchanged DEF SubmitTx
  <2>3. TypeOK' /\ StageInv'
    BY <1>0, <1>4, <2>1 DEF SubmitTx, TypeOK, StageInv
  <2> QED  BY <2>1, <2>2, <2>3 DEF IInv
<1>5. ASSUME NEW t \in Tx, Resurrect(t) PROVE IInv'
  <2>1. /\ SpendsExact' /\ PoolUnconfirmed'
        /\ mapTx' \subseteq Tx
        /\ mapNextTx' \in [Outpoint -> Tx \cup {None}]
    BY <1>5, PoolStep DEF Resurrect
  <2>2. OrphanIndexExact'
    BY <1>0, <1>5, OrphansUnchanged DEF Resurrect
  <2>3. TypeOK' /\ StageInv'
    BY <1>0, <1>5, <2>1 DEF Resurrect, TypeOK, StageInv
  <2> QED  BY <2>1, <2>2, <2>3 DEF IInv
<1> QED  BY <1>1, <1>2, <1>3, <1>4, <1>5

\* The steps of SetBestChain.  A block's transactions leave the pool in the
\* step that puts them into the index, or are on the list to delete.
LEMMA ChainStepKeeps ==
  ASSUME IInv,
         \/ \E b \in Block : ConnectTip(b)
         \/ \E b \in Block : Reorganize(b)
         \/ \E t \in Tx : DeleteConnected(t)
         \/ ConnectFurther
  PROVE  IInv'
<1>0. TypeOK /\ StageInv /\ SpendsExact /\ PoolUnconfirmed /\ OrphanIndexExact
  BY DEF IInv
<1> USE DEF chainVars, poolVars, loopVars
<1>1. ASSUME NEW b \in Block, ConnectTip(b) PROVE IInv'
  <2>1. /\ b # Genesis /\ Parent[b] = tip /\ stage = "idle" /\ remove(Txs(b))
        /\ UNCHANGED <<orphanVars, loopVars, mapLockedInputs, stage, owed>>
        /\ tip' = b /\ pindexBest' = b /\ pindexNew' = b
    BY <1>0, <1>1 DEF ConnectTip, StageInv
  <2>2. /\ SpendsExact'
        /\ mapTx' = mapTx \ Txs(b)
        /\ mapTx' \subseteq Tx
        /\ mapNextTx' \in [Outpoint -> Tx \cup {None}]
    BY <1>0, <2>1, RemoveKeepsExact
  <2>3. PoolUnconfirmed'
    <3> SUFFICES ASSUME NEW t \in mapTx', ContainsTx(b, t) PROVE FALSE
      BY <2>1 DEF PoolUnconfirmed, ContainsTx
    <3>1. ContainsTx(tip, t)
      BY <2>1, <2>2, ContainsStep
    <3> QED  BY <1>0, <2>1, <2>2, <3>1 DEF PoolUnconfirmed
  <2>4. OrphanIndexExact'
    BY <1>0, <2>1, OrphansUnchanged
  <2>5. TypeOK' /\ StageInv'
    BY <1>0, <2>1, <2>2 DEF TypeOK, StageInv, orphanVars
  <2> QED  BY <2>2, <2>3, <2>4, <2>5 DEF IInv
<1>2. ASSUME NEW b \in Block, Reorganize(b) PROVE IInv'
  <2> DEFINE mid == Intermediate(pindexBest, b)
             gone == Chain[pindexBest] \ Chain[b]
             added == Chain[mid] \ Chain[pindexBest]
  <2>1. /\ stage = "idle" /\ tip = pindexBest
        /\ ChainTrust[b] > ChainTrust[pindexBest]
        /\ vResurrect' = Resurrectable(gone) /\ vDelete' = TxsOf(added)
        /\ owed' = Untouched(b, gone)
        /\ tip' = mid /\ pindexNew' = b /\ stage' = "reorganize"
        /\ UNCHANGED <<pindexBest, poolVars, orphanVars, tries, vEraseQueue, mapLockedInputs>>
    BY <1>0, <1>2 DEF Reorganize, StageInv
  <2>2. mid \in Block /\ pindexBest \in Block
    BY <1>0, <2>1, IntermediateExists, ChainMember DEF TypeOK
  <2>3. gone \subseteq Block /\ added \subseteq Block
    BY <2>2, ChainMember
  <2> HIDE DEF mid, gone, added
  <2>4. vResurrect' \subseteq Tx /\ vDelete' \subseteq Tx /\ owed' \subseteq Tx
    BY <2>1, <2>3, TxsType DEF Resurrectable, TxsOf, Untouched
  <2>5. PoolUnconfirmed'
    <3> SUFFICES ASSUME NEW t \in mapTx, ContainsTx(mid, t) PROVE t \in TxsOf(added)
      BY <2>1 DEF PoolUnconfirmed, ContainsTx
    <3>1. PICK c \in Connected(mid) : t \in Txs(c)
      BY DEF ContainsTx
    <3>2. c \in Chain[mid] /\ c # Genesis
      BY <3>1 DEF Connected
    <3>3. ~ContainsTx(tip, t)
      BY <1>0, <2>1 DEF PoolUnconfirmed
    <3>4. c \notin Chain[pindexBest]
      BY <2>1, <3>1, <3>2, <3>3 DEF ContainsTx, Connected
    <3> QED  BY <3>1, <3>2, <3>4 DEF TxsOf, added
  <2>6. SpendsExact' /\ OrphanIndexExact'
    BY <1>0, <2>1, OrphansUnchanged DEF SpendsExact
  <2>7. TypeOK' /\ StageInv'
    BY <1>0, <2>1, <2>2, <2>4 DEF TypeOK, StageInv, orphanVars
  <2> QED  BY <2>5, <2>6, <2>7 DEF IInv
<1>3. ASSUME NEW t \in Tx, DeleteConnected(t) PROVE IInv'
  <2> DEFINE S == {t} \cup UNION {Dependents(c) : c \in Conflicts(t)}
  <2>1. /\ remove(S) /\ stage = "reorganize"
        /\ vDelete' = vDelete \ {t}
        /\ UNCHANGED <<chainVars, orphanVars, tries, vEraseQueue, vResurrect,
                       mapLockedInputs, stage, owed>>
    BY <1>3 DEF DeleteConnected
  <2>2. t \in S
    OBVIOUS
  <2> HIDE DEF S
  <2>3. /\ SpendsExact'
        /\ mapTx' = mapTx \ S
        /\ mapTx' \subseteq Tx
        /\ mapNextTx' \in [Outpoint -> Tx \cup {None}]
    BY <1>0, <2>1, RemoveKeepsExact
  <2>4. PoolUnconfirmed'
    BY <1>0, <2>1, <2>2, <2>3 DEF PoolUnconfirmed, ContainsTx
  <2>5. OrphanIndexExact'
    BY <1>0, <2>1, OrphansUnchanged
  <2>6. TypeOK' /\ StageInv'
    BY <1>0, <2>1, <2>3 DEF TypeOK, StageInv, orphanVars
  <2> QED  BY <2>3, <2>4, <2>5, <2>6 DEF IInv
<1>4. ASSUME ConnectFurther PROVE IInv'
  <2>1. /\ stage \in {"reorganize", "postponed"}
        /\ vResurrect = {} /\ vDelete = {}
        /\ UNCHANGED <<pindexNew, orphanVars, loopVars, mapLockedInputs, owed>>
    BY <1>4 DEF ConnectFurther
  <2>2. \A t \in mapTx : ~ContainsTx(tip, t)
    BY <1>0, <2>1 DEF PoolUnconfirmed
  <2>3. OrphanIndexExact'
    BY <1>0, <2>1, OrphansUnchanged
  <2>4. CASE /\ tip = pindexNew /\ pindexBest' = pindexNew
             /\ stage' = "idle" /\ UNCHANGED <<tip, poolVars>>
    <3>1. SpendsExact' /\ PoolUnconfirmed'
      BY <1>0, <2>2, <2>4 DEF SpendsExact, PoolUnconfirmed, ContainsTx
    <3>2. TypeOK' /\ StageInv'
      BY <1>0, <2>1, <2>4 DEF TypeOK, StageInv, orphanVars
    <3> QED  BY <2>3, <3>1, <3>2 DEF IInv
  <2>5. ASSUME NEW c \in Chain[pindexNew] \ {Genesis},
               Parent[c] = tip, tip' = c, remove(Txs(c)),
               stage' = "postponed", UNCHANGED pindexBest
        PROVE  IInv'
    <3>1. c \in Block /\ c # Genesis
      BY <1>0, ChainMember DEF TypeOK
    <3>2. /\ SpendsExact'
          /\ mapTx' = mapTx \ Txs(c)
          /\ mapTx' \subseteq Tx
          /\ mapNextTx' \in [Outpoint -> Tx \cup {None}]
      BY <1>0, <2>5, RemoveKeepsExact
    <3>3. ASSUME NEW t \in mapTx', ContainsTx(c, t) PROVE FALSE
      BY <2>2, <2>5, <3>1, <3>2, <3>3, ContainsStep
    <3>4. PoolUnconfirmed'
      BY <2>5, <3>3 DEF PoolUnconfirmed, ContainsTx
    <3>5. TypeOK' /\ StageInv'
      BY <1>0, <2>1, <2>5, <3>1, <3>2 DEF TypeOK, StageInv, orphanVars
    <3> QED  BY <2>3, <3>2, <3>4, <3>5 DEF IInv
  <2> QED  BY <1>4, <2>4, <2>5 DEF ConnectFurther
<1> QED  BY <1>1, <1>2, <1>3, <1>4

LEMMA InvStep == IInv /\ [Next]_vars => IInv'
<1> SUFFICES ASSUME IInv, [Next]_vars PROVE IInv'
  OBVIOUS
<1>1. ASSUME NEW o \in Outpoint, NEW t \in LockTx \cup {None}, LockInput(o, t)
      PROVE  IInv'
  <2> USE DEF chainVars, poolVars, orphanVars, loopVars
  <2>1. t \in Tx \cup {None}
    BY MemPoolAssumption
  <2>2. TypeOK'
    BY <1>1, <2>1 DEF LockInput, IInv, TypeOK
  <2>3. StageInv' /\ SpendsExact' /\ PoolUnconfirmed' /\ OrphanIndexExact'
    BY <1>1 DEF LockInput, IInv, StageInv, SpendsExact, PoolUnconfirmed, ContainsTx,
                OrphanIndexExact
  <2> QED  BY <2>2, <2>3 DEF IInv
<1>2. CASE UNCHANGED vars
  BY <1>2 DEF vars, chainVars, poolVars, orphanVars, loopVars, IInv, TypeOK, StageInv,
              SpendsExact, PoolUnconfirmed, ContainsTx, OrphanIndexExact
<1> QED  BY <1>1, <1>2, MessageStep, ChainStepKeeps DEF Next

LEMMA Invariance == Spec => []IInv
BY InitIInv, InvStep, PTL DEF Spec

-----------------------------------------------------------------------------
(* The theorems. *)

\* Every state of the pool, of the orphan maps and of a reorganisation under
\* way is well typed.
THEOREM TypeCorrect == Spec => []TypeOK
<1>1. IInv => TypeOK
  BY DEF IInv
<1> QED  BY <1>1, Invariance, PTL

\* mapNextTx is exactly the spends of mapTx, whatever is accepted, connected,
\* resurrected or removed, recursively or not.
THEOREM SpendsAreExact == Spec => []SpendsExact
<1>1. IInv => SpendsExact
  BY DEF IInv
<1> QED  BY <1>1, Invariance, PTL

\* No transaction of the best chain is in the pool once SetBestChain is done.
THEOREM PoolIsUnconfirmed == Spec => []PoolUnconfirmed
<1>1. IInv => PoolUnconfirmed
  BY DEF IInv
<1> QED  BY <1>1, Invariance, PTL

\* The index of the orphans by input agrees with the orphans.
THEOREM OrphanIndexIsExact == Spec => []OrphanIndexExact
<1>1. IInv => OrphanIndexExact
  BY DEF IInv
<1> QED  BY <1>1, Invariance, PTL

\* The orphans stay within GetMaxOrphanTransactionSize: only the handler of a
\* transaction adds one, and it ends with LimitOrphanTxSize.
THEOREM OrphansAreBounded == Spec => []OrphansBounded
<1> DEFINE Bounded == IsFiniteSet(mapOrphanTransactions) /\ OrphansBounded
<1>1. Init => Bounded
  <2>1. Cardinality({}) = 0 /\ IsFiniteSet({})
    BY FS_EmptySet
  <2> QED  BY <2>1, MemPoolAssumption DEF Init, OrphansBounded
<1>2. Bounded /\ [Next]_vars => Bounded'
  <2> SUFFICES ASSUME Bounded, [Next]_vars PROVE Bounded'
    OBVIOUS
  <2>1. ASSUME UNCHANGED orphanVars PROVE Bounded'
    BY <2>1 DEF orphanVars, OrphansBounded
  <2>2. ASSUME NEW t \in Tx, NEW dstx \in BOOLEAN, NEW limited \in BOOLEAN,
               ReceiveTx(t, dstx, limited)
        PROVE  Bounded'
    <3>1. CASE UNCHANGED orphanVars
      BY <2>1, <3>1
    <3>2. CASE \E kept \in SUBSET WithOrphan(t) :
                 LimitOrphanTxSize(WithOrphan(t), kept) /\ SetOrphans(kept)
      <4>1. PICK kept \in SUBSET WithOrphan(t) :
              LimitOrphanTxSize(WithOrphan(t), kept) /\ SetOrphans(kept)
        BY <3>2
      <4>2. IsFiniteSet(WithOrphan(t))
        BY FS_AddElement DEF WithOrphan
      <4>3. IsFiniteSet(kept)
        BY <4>1, <4>2, FS_Subset
      <4>4. Cardinality(kept) <= MaxOrphans /\ mapOrphanTransactions' = kept
        BY <4>1 DEF LimitOrphanTxSize, WithinLimit, SetOrphans
      <4> QED  BY <4>3, <4>4 DEF OrphansBounded
    <3> QED  BY <2>2, <3>1, <3>2 DEF ReceiveTx
  <2>3. ASSUME EraseTried PROVE Bounded'
    <3> DEFINE rest == mapOrphanTransactions \ vEraseQueue
    <3>1. mapOrphanTransactions' = rest
      BY <2>3 DEF EraseTried, SetOrphans
    <3>2. rest \subseteq mapOrphanTransactions
      OBVIOUS
    <3>3. IsFiniteSet(rest) /\ Cardinality(rest) <= Cardinality(mapOrphanTransactions)
      BY <3>2, FS_Subset
    <3>4. Cardinality(rest) \in Nat /\ Cardinality(mapOrphanTransactions) \in Nat
      BY <3>3, FS_CardinalityType
    <3> HIDE DEF rest
    <3> QED  BY <3>1, <3>3, <3>4, MemPoolAssumption DEF OrphansBounded
  <2>4. ASSUME \/ \E w, u \in Tx, limited \in BOOLEAN : TryOrphan(w, u, limited)
               \/ \E t \in Tx : SubmitTx(t) \/ Resurrect(t) \/ DeleteConnected(t)
               \/ \E o \in Outpoint, t \in LockTx \cup {None} : LockInput(o, t)
               \/ \E b \in Block : ConnectTip(b) \/ Reorganize(b)
               \/ ConnectFurther
        PROVE  UNCHANGED orphanVars
    BY <2>4 DEF TryOrphan, SubmitTx, Resurrect, DeleteConnected, LockInput, ConnectTip,
                Reorganize, ConnectFurther
  <2>5. ASSUME UNCHANGED vars PROVE UNCHANGED orphanVars
    BY <2>5 DEF vars
  <2> QED  BY <2>1, <2>2, <2>3, <2>4, <2>5 DEF Next
<1>3. Bounded => OrphansBounded
  OBVIOUS
<1> QED  BY <1>1, <1>2, <1>3, PTL DEF Spec

-----------------------------------------------------------------------------
(* What leaves the pool, and what a reorganisation keeps. *)

\* The chains SetBestChain moves between are valid.
ValidTips == ValidChain(pindexBest) /\ ValidChain(pindexNew)

\* Nothing will stand against t when it is resurrected or when the connected
\* branch is gone through: its inputs lie in the indexed chain and not in the
\* pool, and are spent and locked by nothing else.
Undisputed(t) ==
  /\ t \notin Generated
  /\ \A o \in Inputs[t] :
       /\ ContainsTx(tip, TxOf[o]) /\ TxOf[o] \notin mapTx
       /\ ~Spent(pindexNew, o)
       /\ mapNextTx[o] \in {None, t}
       /\ mapLockedInputs[o] \in {None, t}

\* Reorganize: the index is that of a block of the new chain, which holds what
\* is to be deleted; what is to be resurrected was in the old chain, where no
\* two transactions spend one output.
Reorganizing ==
  stage = "reorganize" =>
    /\ tip \in Chain[pindexNew]
    /\ \A t \in vDelete : ContainsTx(tip, t)
    /\ \A t \in vResurrect \cup owed : ContainsTx(pindexBest, t)
    /\ \A t \in owed : Undisputed(t)

\* Until SetBestChain ends, what is owed is still to be resurrected, or in the
\* pool, or in the chain.
OwedKept ==
  stage \in {"reorganize", "postponed"} =>
    \A t \in owed : t \in vResurrect \/ t \in mapTx \/ ContainsTx(tip, t)

RInv == ValidTips /\ Reorganizing /\ OwedKept

\* The fork lies below the block a reorganisation commits first.
LEMMA ForkBelowIntermediate ==
  ASSUME NEW best \in Block, NEW b \in Block, ChainTrust[b] > ChainTrust[best],
         NEW c \in Chain[best] \cap Chain[b]
  PROVE  c \in Chain[Intermediate(best, b)]
<1> DEFINE mid == Intermediate(best, b)
<1>1. mid \in Chain[b] /\ ChainTrust[mid] > ChainTrust[best]
  BY IntermediateExists
<1> HIDE DEF mid
<1>2. c \in Chain[mid] \/ mid \in Chain[c]
  BY <1>1, TreeAssumption
<1>3. /\ c \in Block /\ ChainTrust[c] <= ChainTrust[best]
      /\ ChainTrust[c] \in Nat /\ ChainTrust[best] \in Nat
  BY ChainTrustMember
<1>4. mid \in Chain[c] => ChainTrust[mid] <= ChainTrust[c] /\ ChainTrust[mid] \in Nat
  BY <1>3, ChainTrustMember
<1>5. mid \notin Chain[c]
  BY <1>1, <1>3, <1>4
<1> QED  BY <1>2, <1>5 DEF mid

\* What a block's chain contains and spends, the chain of a descendant does.
LEMMA ChainGrows ==
  ASSUME NEW b \in Block, NEW c \in Chain[b]
  PROVE  /\ \A t : ContainsTx(c, t) => ContainsTx(b, t)
         /\ \A o : Spent(c, o) => Spent(b, o)
<1>1. Connected(c) \subseteq Connected(b)
  BY ChainMember DEF Connected
<1> QED  BY <1>1 DEF ContainsTx, Spent

\* A generated transaction that a transaction of a valid chain spends is not
\* in the last blocks of the chain (IsConfirmedInNPrevBlocks).
LEMMA SpentIsMature ==
  ASSUME NEW b \in Block, ValidChain(b), NEW t \in Tx, ContainsTx(b, t),
         NEW o \in Inputs[t], TxOf[o] \in Generated
  PROVE  ~ConfirmedInPrevBlocks(TxOf[o], b)
<1> DEFINE p == TxOf[o]
<1>1. PICK d \in Connected(b) : t \in Txs(d)
  BY DEF ContainsTx
<1>2. d \in Block /\ d \in Chain[b] /\ Chain[d] \subseteq Chain[b]
  BY <1>1, ChainMember DEF Connected
<1>3. PICK e \in Connected(d) : p \in Txs(e) /\ Height[d] - Height[e] >= Maturity
  BY <1>1 DEF ValidChain, InputsCreated
<1>4. e \in Block /\ e \in Connected(b) /\ Genesis \in Chain[e]
  BY <1>2, <1>3, ChainMember, TreeAssumption DEF Connected
<1>5. p \in Tx /\ p \in Coinbase \cup Coinstake
  BY TxAssumption DEF Generated
<1> HIDE DEF p
<1> SUFFICES ASSUME NEW c \in Chain[b], p \in Txs(c), Height[b] - Height[c] < Maturity
             PROVE  FALSE
  BY DEF ConfirmedInPrevBlocks, p
<1>6. c \in Block
  BY ChainMember
<1>7. Height[c] <= Height[e]
  <2>1. CASE p \in Coinbase
    BY <1>3, <1>4, <1>6, <2>1, TxAssumption, HeightAssumption
  <2>2. CASE p \notin Coinbase /\ c = Genesis
    BY <1>4, <2>2, HeightAssumption
  <2>3. CASE p \notin Coinbase /\ c # Genesis
    <3>1. Inputs[p] \cap Inputs[p] # {}
      BY <1>5, <2>3, TxAssumption
    <3>2. c \in Connected(b)
      BY <2>3 DEF Connected
    <3>3. c = e
      BY <1>3, <1>4, <3>1, <3>2 DEF ValidChain, NoDoubleSpend
    <3> QED  BY <1>4, <3>3, HeightAssumption
  <2> QED  BY <2>1, <2>2, <2>3
<1>8. /\ Height[b] \in Nat /\ Height[c] \in Nat /\ Height[d] \in Nat /\ Height[e] \in Nat
      /\ Height[d] <= Height[b] /\ Maturity \in Nat
  BY <1>2, <1>4, <1>6, HeightAssumption
<1> QED  BY <1>3, <1>7, <1>8

\* Two transactions of a valid chain that spend one output are the same.
LEMMA OneSpender ==
  ASSUME NEW b \in Block, ValidChain(b), NEW t, NEW u, ContainsTx(b, t), ContainsTx(b, u),
         NEW o, o \in Inputs[t], o \in Inputs[u]
  PROVE  t = u
BY DEF ValidChain, NoDoubleSpend, ContainsTx

\* A transaction of the old chain that nothing stands against is accepted when
\* its turn comes, unless it is in the pool or the chain already.
LEMMA UndisputedAccepted ==
  ASSUME TypeOK, ValidTips, tip \in Chain[pindexNew], NEW t \in Tx,
         ContainsTx(pindexBest, t), Undisputed(t), t \notin mapTx, ~ContainsTx(tip, t),
         SpendsExact
  PROVE  AcceptToMemoryPool(t, FALSE) = "accepted"
<1>1. \A o \in Inputs[t] : o \in Outpoint /\ mapNextTx[o] = None
  BY TxAssumption DEF Undisputed, SpendsExact
<1>2. ~(\/ t \in Generated
        \/ t \in mapTx
        \/ \E o \in Inputs[t] : mapLockedInputs[o] \notin {None, t}
        \/ \E o \in Inputs[t] : mapNextTx[o] # None
        \/ ContainsTx(tip, t))
  BY <1>1 DEF Undisputed
<1>3. ~\E p \in Prevs(t) : ~ContainsTx(tip, p)
  BY DEF Undisputed, Prevs
<1>4. ~\E p \in Prevs(t) \cap Generated : ConfirmedInPrevBlocks(p, pindexBest)
  BY SpentIsMature DEF Prevs, TypeOK, ValidTips
<1>5. ~\E o \in Inputs[t] : Spent(tip, o)
  BY ChainGrows DEF Undisputed, TypeOK
<1> QED  BY <1>2, <1>3, <1>4, <1>5 DEF AcceptToMemoryPool

\* removeConflicts is recursive: with a transaction go those that spend it.
LEMMA DependentsClosed ==
  ASSUME TypeOK, SpendsExact, NEW c, NEW u \in Dependents(c), NEW v \in mapTx, u \in Prevs(v)
  PROVE  v \in Dependents(c)
<1>1. PICK o \in Inputs[v] : TxOf[o] = u
  BY DEF Prevs
<1>2. v \in Tx /\ o \in Outpoint /\ mapNextTx[o] = v /\ v # None
  BY <1>1, TxAssumption, TreeAssumption DEF TypeOK, SpendsExact
<1> SUFFICES ASSUME NEW S \in SUBSET mapTx, c \in S,
                    \A x \in Outpoint : TxOf[x] \in S /\ mapNextTx[x] # None => mapNextTx[x] \in S
             PROVE  v \in S
  BY DEF Dependents
<1>3. u \in S
  BY DEF Dependents
<1> QED  BY <1>1, <1>2, <1>3

\* It does not reach a transaction none of whose inputs is from the pool.
LEMMA NotDependent ==
  ASSUME TypeOK, SpendsExact, NEW c \in mapTx, NEW t \in Tx, t # c,
         \A o \in Inputs[t] : TxOf[o] \notin mapTx
  PROVE  t \notin Dependents(c)
<1> DEFINE S == mapTx \ {t}
<1>1. S \in SUBSET mapTx /\ c \in S /\ t \notin S
  OBVIOUS
<1>2. ASSUME NEW o \in Outpoint, TxOf[o] \in S, mapNextTx[o] # None
      PROVE  mapNextTx[o] \in S
  <2>1. mapNextTx[o] \in Tx
    BY <1>2 DEF TypeOK
  <2>2. mapNextTx[o] \in mapTx /\ o \in Inputs[mapNextTx[o]]
    BY <2>1 DEF SpendsExact
  <2> QED  BY <1>2, <2>2
<1> HIDE DEF S
<1> QED  BY <1>1, <1>2 DEF Dependents

\* Reorganize begins: what it owes is on its list, and nothing stands against it.
LEMMA ReorganizeKeeps ==
  ASSUME IInv, RInv, NEW b \in Block, Reorganize(b)
  PROVE  RInv'
<1> DEFINE mid == Intermediate(pindexBest, b)
           fork == Chain[pindexBest] \cap Chain[b]
           gone == Chain[pindexBest] \ Chain[b]
           added == Chain[mid] \ Chain[pindexBest]
<1>0. TypeOK /\ StageInv /\ SpendsExact /\ PoolUnconfirmed
  BY DEF IInv
<1>1. /\ stage = "idle" /\ tip = pindexBest
      /\ ChainTrust[b] > ChainTrust[pindexBest] /\ ValidChain(b)
      /\ vResurrect' = Resurrectable(gone) /\ vDelete' = TxsOf(added)
      /\ owed' = Untouched(b, gone)
      /\ tip' = mid /\ pindexNew' = b /\ stage' = "reorganize"
      /\ UNCHANGED <<pindexBest, mapTx, mapNextTx, mapLockedInputs>>
  BY <1>0 DEF Reorganize, StageInv, poolVars
<1>2. pindexBest \in Block /\ mid \in Chain[b] /\ mid \in Block
  BY <1>0, <1>1, IntermediateExists, ChainMember DEF TypeOK
<1>3. Genesis \in Chain[b] /\ Genesis \in Chain[pindexBest] /\ Chain[pindexBest] \subseteq Block
  BY <1>2, TreeAssumption
<1>4. ASSUME NEW c \in fork PROVE c \in Chain[mid]
  BY <1>1, <1>2, ForkBelowIntermediate
<1>5. ValidTips'
  BY <1>1 DEF ValidTips, RInv, ValidChain, NoDoubleSpend, InputsCreated
<1>6. \A t \in TxsOf(added) : ContainsTx(mid, t)
  BY <1>3 DEF TxsOf, ContainsTx, Connected
<1>7. ASSUME NEW t \in Resurrectable(gone) PROVE ContainsTx(pindexBest, t) /\ t \notin Generated
  BY <1>3 DEF Resurrectable, TxsOf, ContainsTx, Connected
<1>8. ASSUME NEW t \in Untouched(b, gone)
      PROVE  /\ t \in Resurrectable(gone)
             /\ \A o \in Inputs[t] :
                  /\ ContainsTx(mid, TxOf[o]) /\ TxOf[o] \notin mapTx
                  /\ ~Spent(b, o)
                  /\ mapNextTx[o] \in {None, t}
                  /\ mapLockedInputs[o] \in {None, t}
  <2>1. /\ t \in Resurrectable(gone)
        /\ \A o \in Inputs[t] :
             /\ \E c \in fork \ {Genesis} : TxOf[o] \in Txs(c)
             /\ ~Spent(b, o)
             /\ mapNextTx[o] = None
             /\ mapLockedInputs[o] \in {None, t}
    BY DEF Untouched, Resurrectable
  <2>2. ASSUME NEW o \in Inputs[t]
        PROVE  ContainsTx(mid, TxOf[o]) /\ TxOf[o] \notin mapTx
    <3>1. PICK c \in fork \ {Genesis} : TxOf[o] \in Txs(c)
      BY <2>1
    <3>2. ContainsTx(mid, TxOf[o])
      BY <1>4, <3>1 DEF ContainsTx, Connected
    <3>3. ContainsTx(pindexBest, TxOf[o])
      BY <3>1 DEF ContainsTx, Connected
    <3> QED  BY <1>0, <1>1, <3>2, <3>3 DEF PoolUnconfirmed
  <2> QED  BY <2>1, <2>2
<1> HIDE DEF mid, fork, gone, added
<1>9. ASSUME NEW t \in owed' PROVE Undisputed(t)'
  <2>1. t \in Untouched(b, gone)
    BY <1>1
  <2>2. t \notin Generated
    BY <1>7, <1>8, <2>1
  <2> QED  BY <1>1, <1>8, <2>1, <2>2 DEF Undisputed, ContainsTx, Spent
<1>10. Reorganizing'
  <2>1. \A t \in (vResurrect \cup owed)' : ContainsTx(pindexBest, t)'
    BY <1>1, <1>7, <1>8 DEF ContainsTx
  <2>2. \A t \in vDelete' : ContainsTx(tip, t)'
    BY <1>1, <1>6 DEF ContainsTx
  <2> QED  BY <1>1, <1>2, <1>9, <2>1, <2>2 DEF Reorganizing
<1>11. OwedKept'
  BY <1>1, <1>8 DEF OwedKept
<1> QED  BY <1>5, <1>10, <1>11 DEF RInv

\* One resurrected transaction: if it is owed, it is accepted or in the chain;
\* if not, it spends nothing that an owed one spends.
LEMMA ResurrectKeeps ==
  ASSUME IInv, RInv, NEW t \in Tx, Resurrect(t)
  PROVE  RInv'
<1>0. TypeOK /\ SpendsExact /\ ValidTips /\ Reorganizing /\ OwedKept
  BY DEF IInv, RInv
<1>1. /\ stage = "reorganize" /\ t \in vResurrect
      /\ \/ AcceptToMemoryPool(t, FALSE) = "accepted" /\ addUnchecked(t)
         \/ AcceptToMemoryPool(t, FALSE) # "accepted" /\ UNCHANGED <<mapTx, mapNextTx>>
      /\ vResurrect' = vResurrect \ {t}
      /\ UNCHANGED <<tip, pindexBest, pindexNew, vDelete, mapLockedInputs, stage, owed>>
  BY DEF Resurrect, poolVars, chainVars
<1>2. /\ tip \in Chain[pindexNew]
      /\ ContainsTx(pindexBest, t)
      /\ \A u \in owed : ContainsTx(pindexBest, u) /\ Undisputed(u)
  BY <1>0, <1>1 DEF Reorganizing
<1>3. mapTx \subseteq mapTx' /\ mapTx' \subseteq mapTx \cup {t}
  BY <1>1 DEF addUnchecked
<1>4. ASSUME NEW u \in owed PROVE Undisputed(u)'
  <2>1. u \in Tx /\ Inputs[u] \subseteq Outpoint
    BY <1>0, TxAssumption DEF TypeOK
  <2>2. ASSUME NEW o \in Inputs[u] PROVE mapNextTx'[o] \in {None, u} /\ TxOf[o] \notin mapTx'
    <3>1. CASE AcceptToMemoryPool(t, FALSE) = "accepted" /\ addUnchecked(t)
      <4>1. /\ mapTx' = mapTx \cup {t}
            /\ mapNextTx'[o] = IF o \in Inputs[t] THEN t ELSE mapNextTx[o]
        BY <2>1, <3>1 DEF addUnchecked
      <4>2. o \in Inputs[t] => t = u
        BY <1>0, <1>2, OneSpender DEF TypeOK, ValidTips
      <4>3. ~ContainsTx(tip, t)
        BY <3>1, AcceptedFacts
      <4>4. ContainsTx(tip, TxOf[o]) /\ TxOf[o] \notin mapTx /\ mapNextTx[o] \in {None, u}
        BY <1>2 DEF Undisputed
      <4> QED  BY <4>1, <4>2, <4>3, <4>4
    <3>2. CASE UNCHANGED <<mapTx, mapNextTx>>
      BY <1>2, <3>2 DEF Undisputed
    <3> QED  BY <1>1, <3>1, <3>2
  <2> QED  BY <1>1, <1>2, <2>2 DEF Undisputed, ContainsTx, Spent
<1>5. t \in owed => t \in mapTx' \/ ContainsTx(tip, t)
  <2> SUFFICES ASSUME t \in owed, t \notin mapTx, ~ContainsTx(tip, t) PROVE t \in mapTx'
    BY <1>3
  <2>1. AcceptToMemoryPool(t, FALSE) = "accepted"
    BY <1>0, <1>2, UndisputedAccepted
  <2> QED  BY <1>1, <2>1 DEF addUnchecked
<1>6. OwedKept'
  BY <1>0, <1>1, <1>3, <1>5 DEF OwedKept, ContainsTx
<1>7. Reorganizing'
  BY <1>0, <1>1, <1>4 DEF Reorganizing, ContainsTx
<1>8. ValidTips'
  BY <1>0, <1>1 DEF ValidTips, ValidChain, NoDoubleSpend, InputsCreated
<1> QED  BY <1>6, <1>7, <1>8 DEF RInv

\* A transaction of the connected branch leaves the pool with what conflicts
\* with it; an owed one stays, unless it is in the chain itself.
LEMMA DeleteKeeps ==
  ASSUME IInv, RInv, NEW t \in Tx, DeleteConnected(t)
  PROVE  RInv' /\ NoDependentStays
<1> DEFINE S == {t} \cup UNION {Dependents(c) : c \in Conflicts(t)}
<1>0. TypeOK /\ SpendsExact /\ ValidTips /\ Reorganizing /\ OwedKept
  BY DEF IInv, RInv
<1>1. /\ stage = "reorganize" /\ t \in vDelete /\ vResurrect = {}
      /\ remove(S)
      /\ vDelete' = vDelete \ {t}
      /\ UNCHANGED <<tip, pindexBest, pindexNew, vResurrect, mapLockedInputs, stage, owed>>
  BY DEF DeleteConnected, chainVars
<1>2. /\ tip \in Chain[pindexNew] /\ ContainsTx(tip, t)
      /\ \A u \in owed : Undisputed(u)
  BY <1>0, <1>1 DEF Reorganizing
<1>3. ASSUME NEW c \in Conflicts(t)
      PROVE  c \in mapTx /\ \E o \in Inputs[t] : o \in Inputs[c]
  <2>1. PICK o \in Inputs[t] : c = mapNextTx[o] /\ c # None
    BY DEF Conflicts
  <2>2. o \in Outpoint /\ c \in Tx
    BY <1>0, <2>1, TxAssumption DEF TypeOK
  <2> QED  BY <1>0, <2>1, <2>2 DEF SpendsExact
<1>4. ASSUME NEW u \in owed, u \in S PROVE ContainsTx(tip, u)
  <2>1. CASE u = t
    BY <1>2, <2>1
  <2>2. ASSUME NEW c \in Conflicts(t), u \in Dependents(c) PROVE FALSE
    <3>1. c \in mapTx
      BY <1>3
    <3>2. u \in Tx /\ \A o \in Inputs[u] : TxOf[o] \notin mapTx /\ ~Spent(pindexNew, o)
      BY <1>0, <1>2 DEF Undisputed, TypeOK
    <3>3. u = c
      BY <1>0, <2>2, <3>1, <3>2, NotDependent
    <3>4. PICK o \in Inputs[t] : o \in Inputs[u]
      BY <1>3, <3>3
    <3>5. Spent(tip, o)
      BY <1>2, <3>4 DEF ContainsTx, Spent
    <3>6. Spent(pindexNew, o)
      BY <1>0, <1>2, <3>5, ChainGrows DEF TypeOK
    <3> QED  BY <3>2, <3>4, <3>6
  <2> QED  BY <1>4, <2>1, <2>2
<1>5. NoDependentStays
  <2> SUFFICES ASSUME NEW u \in mapTx, u \in S, ~ContainsTx(tip, u),
                      NEW v \in mapTx \ S, u \in Prevs(v)
               PROVE  FALSE
    BY <1>1 DEF NoDependentStays, remove, ContainsTx
  <2>1. PICK c \in Conflicts(t) : u \in Dependents(c)
    BY <1>2
  <2>2. v \in Dependents(c)
    BY <1>0, <2>1, DependentsClosed
  <2> QED  BY <2>1, <2>2
<1> HIDE DEF S
<1>6. /\ mapTx' = mapTx \ S
      /\ \A o \in Outpoint : mapNextTx'[o] \in {None, mapNextTx[o]}
  BY <1>1 DEF remove
<1>7. ASSUME NEW u \in owed PROVE Undisputed(u)'
  <2>1. Inputs[u] \subseteq Outpoint
    BY <1>0, TxAssumption DEF TypeOK
  <2>2. \A o \in Inputs[u] : mapNextTx'[o] \in {None, u} /\ TxOf[o] \notin mapTx'
    BY <1>2, <1>6, <2>1 DEF Undisputed
  <2> QED  BY <1>1, <1>2, <2>2 DEF Undisputed, ContainsTx, Spent
<1>8. Reorganizing'
  BY <1>0, <1>1, <1>7 DEF Reorganizing, ContainsTx
<1>9. OwedKept'
  BY <1>0, <1>1, <1>4, <1>6 DEF OwedKept, ContainsTx
<1>10. ValidTips'
  BY <1>0, <1>1 DEF ValidTips, ValidChain, NoDoubleSpend, InputsCreated
<1> QED  BY <1>5, <1>8, <1>9, <1>10 DEF RInv

\* A block's transactions leave the pool when they are in the chain, and no
\* others.
LEMMA ConnectedLeave ==
  ASSUME TypeOK, NEW c \in Block, c # Genesis, tip' = c, remove(Txs(c))
  PROVE  /\ NoDependentStays
         /\ \A t \in mapTx : t \in mapTx' \/ ContainsTx(tip, t)'
<1>1. mapTx' = mapTx \ Txs(c)
  BY DEF remove
<1>2. \A t \in Txs(c) : ContainsTx(c, t)
  BY TreeAssumption DEF ContainsTx, Connected
<1>3. \A t \in mapTx : t \in mapTx' \/ ContainsTx(tip, t)'
  BY <1>1, <1>2 DEF ContainsTx
<1> QED  BY <1>3 DEF NoDependentStays

LEMMA ConnectFurtherKeeps ==
  ASSUME IInv, RInv, ConnectFurther
  PROVE  RInv' /\ NoDependentStays /\ NothingLost
<1>0. TypeOK /\ ValidTips /\ OwedKept
  BY DEF IInv, RInv
<1>1. /\ stage \in {"reorganize", "postponed"} /\ vResurrect = {}
      /\ UNCHANGED <<pindexNew, vResurrect, owed>>
  BY DEF ConnectFurther, loopVars
<1>2. CASE /\ tip = pindexNew /\ pindexBest' = pindexNew
           /\ stage' = "idle" /\ UNCHANGED <<tip, poolVars>>
  <2>1. ValidTips'
    BY <1>0, <1>1, <1>2 DEF ValidTips, ValidChain, NoDoubleSpend, InputsCreated
  <2>2. Reorganizing' /\ OwedKept'
    BY <1>2 DEF Reorganizing, OwedKept
  <2>3. NothingLost
    BY <1>0, <1>1, <1>2 DEF NothingLost, OwedKept, ContainsTx, poolVars
  <2> QED  BY <1>2, <2>1, <2>2, <2>3 DEF RInv, NoDependentStays, poolVars
<1>3. ASSUME NEW c \in Chain[pindexNew] \ {Genesis},
             Parent[c] = tip, tip' = c, remove(Txs(c)),
             stage' = "postponed", UNCHANGED pindexBest
      PROVE  RInv' /\ NoDependentStays /\ NothingLost
  <2>1. c \in Block /\ c # Genesis
    BY <1>0, ChainMember DEF TypeOK
  <2>2. tip \in Chain[c]
    BY <1>3, <2>1, ChainStep, TreeAssumption
  <2>3. \A t : ContainsTx(tip, t) => ContainsTx(c, t)
    BY <2>1, <2>2, ChainGrows
  <2>4. NoDependentStays /\ \A t \in mapTx : t \in mapTx' \/ ContainsTx(tip, t)'
    BY <1>0, <1>3, <2>1, ConnectedLeave
  <2>5. \A t \in owed : t \in mapTx' \/ ContainsTx(c, t)
    BY <1>0, <1>1, <1>3, <2>3, <2>4 DEF OwedKept, ContainsTx
  <2>6. OwedKept'
    BY <1>1, <1>3, <2>5 DEF OwedKept, ContainsTx
  <2>7. ValidTips'
    BY <1>0, <1>1, <1>3 DEF ValidTips, ValidChain, NoDoubleSpend, InputsCreated
  <2>8. Reorganizing' /\ NothingLost
    BY <1>3 DEF Reorganizing, NothingLost
  <2> QED  BY <2>4, <2>6, <2>7, <2>8 DEF RInv
<1> QED  BY <1>2, <1>3 DEF ConnectFurther

\* Outside SetBestChain nothing leaves the pool.
LEMMA OtherStepsKeep ==
  ASSUME IInv, RInv,
         \/ \E t \in Tx, dstx, limited \in BOOLEAN : ReceiveTx(t, dstx, limited)
         \/ \E w, u \in Tx, limited \in BOOLEAN : TryOrphan(w, u, limited)
         \/ EraseTried
         \/ \E t \in Tx : SubmitTx(t)
         \/ \E o \in Outpoint, t \in LockTx \cup {None} : LockInput(o, t)
  PROVE  RInv' /\ mapTx \subseteq mapTx' /\ stage \notin {"reorganize", "postponed"}
<1>1. /\ stage \in {"idle", "orphans"} /\ stage' \in {"idle", "orphans"}
      /\ UNCHANGED <<pindexBest, pindexNew>> /\ mapTx \subseteq mapTx'
  BY DEF ReceiveTx, TryOrphan, EraseTried, SubmitTx, LockInput, addUnchecked, chainVars, poolVars
<1>2. ValidTips'
  BY <1>1 DEF RInv, ValidTips, ValidChain, NoDoubleSpend, InputsCreated
<1> QED  BY <1>1, <1>2 DEF RInv, Reorganizing, OwedKept

LEMMA RInvStep ==
  ASSUME IInv, RInv, [Next]_vars
  PROVE  RInv' /\ [NoDependentStays]_vars /\ [NothingLost]_vars
<1>0. TypeOK
  BY DEF IInv
<1>1. CASE \/ \E t \in Tx, dstx, limited \in BOOLEAN : ReceiveTx(t, dstx, limited)
           \/ \E w, u \in Tx, limited \in BOOLEAN : TryOrphan(w, u, limited)
           \/ EraseTried
           \/ \E t \in Tx : SubmitTx(t)
           \/ \E o \in Outpoint, t \in LockTx \cup {None} : LockInput(o, t)
  BY <1>1, OtherStepsKeep DEF NoDependentStays, NothingLost
<1>2. ASSUME NEW b \in Block, ConnectTip(b)
      PROVE  RInv' /\ NoDependentStays /\ NothingLost
  <2>1. /\ b # Genesis /\ ValidChain(b) /\ stage = "idle" /\ stage' = "idle"
        /\ tip' = b /\ pindexBest' = b /\ pindexNew' = b /\ remove(Txs(b))
    BY <1>2 DEF ConnectTip
  <2>2. ValidTips'
    BY <2>1 DEF ValidTips, ValidChain, NoDoubleSpend, InputsCreated
  <2>3. NoDependentStays
    BY <1>0, <2>1, ConnectedLeave
  <2> QED  BY <2>1, <2>2, <2>3 DEF RInv, Reorganizing, OwedKept, NothingLost
<1>3. ASSUME NEW b \in Block, Reorganize(b)
      PROVE  RInv' /\ NoDependentStays /\ NothingLost
  <2>1. stage = "idle" /\ mapTx' = mapTx
    BY <1>3 DEF Reorganize, poolVars
  <2> QED  BY <1>3, <2>1, ReorganizeKeeps DEF NoDependentStays, NothingLost
<1>4. ASSUME NEW t \in Tx, Resurrect(t)
      PROVE  RInv' /\ NoDependentStays /\ NothingLost
  <2>1. stage' = "reorganize" /\ mapTx \subseteq mapTx'
    BY <1>4 DEF Resurrect, addUnchecked, poolVars
  <2> QED  BY <1>4, <2>1, ResurrectKeeps DEF NoDependentStays, NothingLost
<1>5. ASSUME NEW t \in Tx, DeleteConnected(t)
      PROVE  RInv' /\ NoDependentStays /\ NothingLost
  <2>1. stage' = "reorganize"
    BY <1>5 DEF DeleteConnected
  <2> QED  BY <1>5, <2>1, DeleteKeeps DEF NothingLost
<1>6. CASE UNCHANGED vars
  BY <1>6 DEF vars, chainVars, poolVars, loopVars, RInv, ValidTips, ValidChain, NoDoubleSpend,
              InputsCreated, Reorganizing, Undisputed, OwedKept, ContainsTx, Spent
<1> QED  BY <1>1, <1>2, <1>3, <1>4, <1>5, <1>6, ConnectFurtherKeeps DEF Next

LEMMA RInvariance == Spec => [](IInv /\ RInv)
<1>1. Init => RInv
  <2> SUFFICES ASSUME Init PROVE RInv
    OBVIOUS
  <2>1. Connected(Genesis) = {}
    BY TreeAssumption DEF Connected
  <2>2. ValidTips
    BY <2>1 DEF Init, ValidTips, ValidChain, NoDoubleSpend, InputsCreated
  <2> QED  BY <2>2 DEF Init, RInv, Reorganizing, OwedKept
<1>2. IInv /\ RInv /\ [Next]_vars => RInv'
  BY RInvStep
<1> QED  BY <1>1, <1>2, Invariance, PTL DEF Spec

\* A reorganisation loses no transaction that stays valid, whatever the two
\* branches, the pool and the locks hold and in whatever order Reorganize goes
\* through its lists.
THEOREM ReorganizationLosesNothing == Spec => ReorganizeLosesNothing
<1>1. IInv /\ RInv /\ [Next]_vars => [NothingLost]_vars
  BY RInvStep
<1> QED  BY <1>1, RInvariance, PTL DEF Spec, ReorganizeLosesNothing

\* removeConflicts takes every dependent with a conflicting transaction, and
\* nothing else leaves the pool but what is in the chain.
THEOREM ConflictsAreRemovedWhole == Spec => ConflictsRemovedWhole
<1>1. IInv /\ RInv /\ [Next]_vars => [NoDependentStays]_vars
  BY RInvStep
<1> QED  BY <1>1, RInvariance, PTL DEF Spec, ConflictsRemovedWhole
=============================================================================
