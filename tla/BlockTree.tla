----------------------------- MODULE BlockTree -----------------------------
(***************************************************************************)
(* The blocks and transactions a node may meet, as constants.  A hash is   *)
(* its block or transaction: hashPrevBlock is Parent, a COutPoint is a     *)
(* member of Outpoint, and TxOf gives the transaction it is an output of.  *)
(* Everything that is fixed by the hash of a block is a constant function  *)
(* of the block: height, accumulated trust, the transactions in order.     *)
(***************************************************************************)
EXTENDS Integers, Sequences

CONSTANTS
  Block, Genesis,
  Parent,      \* hashPrevBlock, for every block but the genesis block
  Chain,       \* the block and its ancestors
  Height,      \* nHeight
  ChainTrust,  \* nChainTrust
  Tx,
  Coinbase,    \* IsCoinBase()
  Coinstake,   \* IsCoinStake()
  vtx,         \* the transactions of a block, in order
  Outpoint,
  TxOf,        \* the transaction of an outpoint
  Inputs,      \* the prevouts of a transaction
  Maturity,    \* nCoinbaseMaturity
  None

Generated == Coinbase \cup Coinstake

Txs(b) == {vtx[b][i] : i \in DOMAIN vtx[b]}

\* The ancestors of a block are its parent and the ancestors of its parent.
\* The last two conjuncts, and the last one on heights and trust, follow from this by
\* induction along the chain; they are stated because proofs use them, and
\* TLC evaluates them on every instance.
ASSUME TreeAssumption ==
  /\ Genesis \in Block
  /\ None \notin Block \cup Tx
  /\ Parent \in [Block \ {Genesis} -> Block]
  /\ Chain \in [Block -> SUBSET Block]
  /\ Chain[Genesis] = {Genesis}
  /\ \A b \in Block \ {Genesis} :
       Chain[b] = {b} \cup Chain[Parent[b]] /\ b \notin Chain[Parent[b]]
  /\ \A b \in Block : b \in Chain[b] /\ Genesis \in Chain[b]
  /\ \A b \in Block : \A c \in Chain[b] :
       Chain[c] \subseteq Chain[b] /\ \A d \in Chain[b] : c \in Chain[d] \/ d \in Chain[c]

ASSUME HeightAssumption ==
  /\ Height \in [Block -> Nat]
  /\ ChainTrust \in [Block -> Nat]
  /\ Maturity \in Nat \ {0}
  /\ \A b \in Block \ {Genesis} :
       Height[b] = Height[Parent[b]] + 1 /\ ChainTrust[b] > ChainTrust[Parent[b]]
  /\ \A b \in Block : \A c \in Chain[b] :
       Height[c] <= Height[b] /\ ChainTrust[c] <= ChainTrust[b]

\* CheckTransaction and CheckBlock: a transaction other than a coinbase has
\* inputs, a block repeats no transaction.  AcceptBlock requires the height in
\* the coinbase, so two blocks with the same coinbase have the same height.
ASSUME TxAssumption ==
  /\ Coinbase \subseteq Tx /\ Coinstake \subseteq Tx
  /\ vtx \in [Block -> Seq(Tx)]
  /\ \A b \in Block : \A i, j \in DOMAIN vtx[b] : vtx[b][i] = vtx[b][j] => i = j
  /\ TxOf \in [Outpoint -> Tx]
  /\ Inputs \in [Tx -> SUBSET Outpoint]
  /\ \A t \in Tx : t \in Coinbase <=> Inputs[t] = {}
  /\ \A t \in Coinbase : \A b, c \in Block : t \in Txs(b) /\ t \in Txs(c) => Height[b] = Height[c]

-----------------------------------------------------------------------------
(* SetBestChain moves from the best block to a block with more trust. *)

\* Mutant: every block of the new branch gets a batch of its own.
FirstOfBranch(best, b) ==
  CHOOSE c \in Chain[b] : c \notin Chain[best] /\ (c # Genesis => Parent[c] \in Chain[best])

\* pindexIntermediate: the first block on the way to b with more trust than
\* the best block; the blocks after it are connected one batch at a time.
Intermediate(best, b) ==
  CHOOSE c \in Chain[b] : /\ ChainTrust[c] > ChainTrust[best]
                          /\ c # Genesis => ChainTrust[Parent[c]] <= ChainTrust[best]

-----------------------------------------------------------------------------
(* What it means for a chain to be valid, stated over the whole chain and
   independently of how the node works it out.  The outputs of the genesis
   block are in no index and can never be spent. *)

Connected(b) == Chain[b] \ {Genesis}

\* No output is spent by two transactions of the chain.
NoDoubleSpend(b) ==
  \A c, d \in Connected(b) : \A s \in Txs(c), t \in Txs(d) :
    Inputs[s] \cap Inputs[t] # {} => c = d /\ s = t

\* Every input was created on the same chain, no later than it is spent, and a
\* generated output is at least Maturity blocks deep when it is spent.
InputsCreated(b) ==
  \A c \in Connected(b) : \A t \in Txs(c) : \A o \in Inputs[t] :
    \E d \in Connected(c) :
      /\ TxOf[o] \in Txs(d)
      /\ TxOf[o] \in Generated => Height[c] - Height[d] >= Maturity

ValidChain(b) == NoDoubleSpend(b) /\ InputsCreated(b)
=============================================================================
