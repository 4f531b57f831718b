-------------------------- MODULE BlockChainProofs --------------------------
(***************************************************************************)
(* TLAPS proofs about BlockChain, for every block tree, every assignment   *)
(* of transactions to blocks and every maturity.                           *)
(***************************************************************************)
EXTENDS BlockChain, TLAPS, WellFoundedInduction

-----------------------------------------------------------------------------
(* The tree. *)

LEMMA ChainStep ==
  ASSUME NEW b \in Block, b # Genesis
  PROVE  /\ Parent[b] \in Block
         /\ Chain[b] = {b} \cup Chain[Parent[b]]
         /\ b \notin Chain[Parent[b]]
         /\ Connected(b) = {b} \cup Connected(Parent[b])
         /\ Connected(Parent[b]) = Connected(b) \ {b}
         /\ Parent[b] # b
         /\ Chain[b] \subseteq Block
<1>1. /\ Parent[b] \in Block
      /\ Chain[b] = {b} \cup Chain[Parent[b]]
      /\ b \notin Chain[Parent[b]]
      /\ Chain[b] \subseteq Block
      /\ Parent[b] \in Chain[Parent[b]]
  BY TreeAssumption
<1>2. Connected(b) = {b} \cup Connected(Parent[b])
  BY <1>1 DEF Connected
<1> QED  BY <1>1, <1>2 DEF Connected

LEMMA ChainMember ==
  ASSUME NEW b \in Block, NEW c \in Chain[b]
  PROVE  c \in Block /\ Chain[c] \subseteq Chain[b]
BY TreeAssumption

\* A block of a chain other than its tip has its parent, and is itself, below
\* the tip; two blocks of a chain with one parent are one block.
LEMMA SameParent ==
  ASSUME NEW b \in Block, NEW c \in Chain[b], NEW d \in Chain[b],
         c # Genesis, d # Genesis, Parent[c] = Parent[d]
  PROVE  c = d
<1>1. c \in Block /\ d \in Block
  BY ChainMember
<1>2. c \in Chain[d] \/ d \in Chain[c]
  BY TreeAssumption
<1> QED  BY <1>1, <1>2, ChainStep

LEMMA ParentInChain ==
  ASSUME NEW b \in Block, NEW c \in Chain[b], c # Genesis
  PROVE  Parent[c] \in Chain[b]
<1>1. c \in Block /\ Chain[c] \subseteq Chain[b]
  BY ChainMember
<1>2. Parent[c] \in Chain[c]
  BY <1>1, ChainStep, TreeAssumption
<1> QED  BY <1>1, <1>2

LEMMA TxsType ==
  ASSUME NEW b \in Block
  PROVE  /\ Txs(b) \subseteq Tx
         /\ \A i \in DOMAIN vtx[b] : vtx[b][i] \in Tx /\ i \in Nat
         /\ DOMAIN vtx[b] = 1..Len(vtx[b])
         /\ Len(vtx[b]) \in Nat
<1>1. vtx[b] \in Seq(Tx)
  BY TxAssumption
<1> QED  BY <1>1 DEF Txs

\* A non-empty set of positions has a first member.
LEMMA MinPosition ==
  ASSUME NEW S, S \subseteq Nat, S # {}
  PROVE  \E i \in S : \A j \in S : i <= j
<1>1. PICK x \in S : \A y \in S : ~(<<y, x>> \in OpToRel(<, Nat))
  BY NatLessThanWellFounded, WFMin
<1>2. ASSUME NEW y \in S, y < x PROVE FALSE
  <2>1. x \in Nat /\ y \in Nat
    OBVIOUS
  <2>2. <<y, x>> \in OpToRel(<, Nat)
    BY <1>2, <2>1 DEF OpToRel
  <2> QED  BY <1>1, <2>2
<1>3. \A y \in S : x <= y
  BY <1>2
<1> QED  BY <1>3

LEMMA ChainTrustStep ==
  ASSUME NEW b \in Block, b # Genesis
  PROVE  ChainTrust[Parent[b]] < ChainTrust[b]
BY HeightAssumption, ChainStep

LEMMA ChainTrustMember ==
  ASSUME NEW b \in Block, NEW c \in Chain[b]
  PROVE  c \in Block /\ ChainTrust[c] <= ChainTrust[b] /\ ChainTrust[c] \in Nat
         /\ ChainTrust[b] \in Nat
BY HeightAssumption, ChainMember

\* SetBestChain's loop finds its block: the first on the way to b with more
\* trust than the best block.
LEMMA IntermediateExists ==
  ASSUME NEW best \in Block, NEW b \in Block, ChainTrust[b] > ChainTrust[best]
  PROVE  /\ Intermediate(best, b) \in Chain[b] /\ Intermediate(best, b) # Genesis
         /\ ChainTrust[Intermediate(best, b)] > ChainTrust[best]
<1> DEFINE A == {c \in Chain[b] : ChainTrust[c] > ChainTrust[best]}
           T == {ChainTrust[c] : c \in A}
<1>1. b \in A
  BY TreeAssumption
<1>2. T \subseteq Nat /\ T # {}
  BY <1>1, ChainTrustMember
<1>3. PICK x \in T : \A y \in T : x <= y
  <2> HIDE DEF T
  <2> QED  BY <1>2, MinPosition
<1>4. PICK c \in A : x = ChainTrust[c]
  BY <1>3
<1>5. ASSUME c # Genesis PROVE ChainTrust[Parent[c]] <= ChainTrust[best]
  <2>1. c \in Block /\ Parent[c] \in Chain[b]
    BY <1>5, ChainMember, ParentInChain
  <2>2. ChainTrust[Parent[c]] < ChainTrust[c] /\ ChainTrust[c] \in Nat
        /\ ChainTrust[Parent[c]] \in Nat /\ ChainTrust[best] \in Nat
    BY <1>5, <2>1, ChainTrustStep, ChainStep, HeightAssumption
  <2>3. Parent[c] \in A => ChainTrust[c] <= ChainTrust[Parent[c]]
    BY <1>3, <1>4
  <2>4. Parent[c] \notin A
    BY <2>2, <2>3
  <2> QED  BY <2>1, <2>2, <2>4
<1>6. /\ Intermediate(best, b) \in Chain[b]
      /\ ChainTrust[Intermediate(best, b)] > ChainTrust[best]
  BY <1>4, <1>5 DEF Intermediate
<1>7. Genesis \in Chain[best]
  BY TreeAssumption
<1>8. ChainTrust[Genesis] <= ChainTrust[best] /\ ChainTrust[Genesis] \in Nat
      /\ ChainTrust[best] \in Nat
  BY <1>7, ChainTrustMember
<1> QED  BY <1>6, <1>8

-----------------------------------------------------------------------------
(* DisconnectBlock undoes the block at the tip. *)

LEMMA DisconnectedType ==
  ASSUME NEW db \in Database, NEW b \in Block, b # Genesis
  PROVE  Disconnected(db, b) \in Database
BY ChainStep DEF Database, Disconnected

LEMMA DisconnectKeepsExact ==
  ASSUME NEW db \in Database, db.tip # Genesis, Exact(db)
  PROVE  Exact(Disconnected(db, db.tip))
<1> DEFINE b == db.tip
           e == Disconnected(db, b)
<1>0. /\ b \in Block /\ b # Genesis
      /\ db.txIndex \in [Tx -> Block \cup {None}]
      /\ db.vSpent \in [Outpoint -> Tx \cup {None}]
      /\ db.next \in [Block -> Block \cup {None}]
  BY DEF Database
<1>1. /\ e.tip = Parent[b]
      /\ \A t \in Tx : e.txIndex[t] = IF t \in Txs(b) THEN None ELSE db.txIndex[t]
      /\ \A o \in Outpoint : e.vSpent[o] =
           IF o \in SpentBy(b) \/ TxOf[o] \in Txs(b) THEN None ELSE db.vSpent[o]
      /\ \A p \in Block : e.next[p] = IF p = Parent[b] THEN None ELSE db.next[p]
  BY <1>0, ChainStep DEF Disconnected
<1>2. /\ Parent[b] \in Block
      /\ Connected(Parent[b]) = Connected(b) \ {b}
      /\ b \in Connected(b)
      /\ Connected(b) \subseteq Block
      /\ \A c \in Connected(Parent[b]) : b \notin Chain[c]
  <2>1. ASSUME NEW c \in Connected(Parent[b]) PROVE b \notin Chain[c]
    BY <1>0, ChainStep, ChainMember DEF Connected
  <2> QED  BY <1>0, <2>1, ChainStep, TreeAssumption DEF Connected
<1>3. None \notin Block /\ None \notin Tx
  BY TreeAssumption
<1> HIDE DEF b, e
<1>4. /\ IndexExact(db) /\ SpentExact(db) /\ InputsExact(db) /\ NextExact(db)
      /\ db.tip = b
  BY DEF Exact, b
\* A transaction is in the block exactly if the index says so.
<1>5. \A t \in Tx : t \in Txs(b) <=> db.txIndex[t] = b
  BY <1>0, <1>2, <1>4 DEF IndexExact
<1>6. IndexExact(e)
  <2> SUFFICES ASSUME NEW t \in Tx, NEW c \in Block
               PROVE  e.txIndex[t] = c <=> c \in Connected(Parent[b]) /\ t \in Txs(c)
    BY <1>1 DEF IndexExact
  <2>1. db.txIndex[t] = c <=> c \in Connected(b) /\ t \in Txs(c)
    BY <1>4 DEF IndexExact
  <2>2. CASE t \in Txs(b)
    <3>1. db.txIndex[t] = b
      BY <1>5, <2>2
    <3> QED  BY <1>1, <1>2, <1>3, <2>1, <2>2, <3>1
  <2>3. CASE t \notin Txs(b)
    BY <1>1, <1>2, <2>1, <2>3
  <2> QED  BY <2>2, <2>3
<1>7. InputsExact(e)
  <2> SUFFICES ASSUME NEW t \in Tx, e.txIndex[t] # None, NEW o \in Inputs[t]
               PROVE  LET pos == e.txIndex[TxOf[o]]
                      IN  /\ pos # None
                          /\ pos \in Chain[e.txIndex[t]]
                          /\ TxOf[o] \in Generated =>
                               Height[e.txIndex[t]] - Height[pos] >= Maturity
    BY DEF InputsExact
  <2>1. o \in Outpoint /\ TxOf[o] \in Tx
    BY TxAssumption
  <2>2. t \notin Txs(b) /\ e.txIndex[t] = db.txIndex[t] /\ db.txIndex[t] # None
    BY <1>1
  <2>3. /\ db.txIndex[TxOf[o]] # None
        /\ db.txIndex[TxOf[o]] \in Chain[db.txIndex[t]]
        /\ TxOf[o] \in Generated =>
             Height[db.txIndex[t]] - Height[db.txIndex[TxOf[o]]] >= Maturity
    BY <1>4, <2>2 DEF InputsExact
  <2>4. db.txIndex[t] \in Connected(Parent[b])
    <3>1. db.txIndex[t] \in Block /\ db.txIndex[t] # b
      BY <1>0, <1>5, <2>2
    <3>2. db.txIndex[t] \in Connected(b)
      BY <1>4, <3>1 DEF IndexExact
    <3> QED  BY <1>2, <3>1, <3>2
  <2>5. db.txIndex[TxOf[o]] # b
    BY <1>2, <2>3, <2>4
  <2>6. TxOf[o] \notin Txs(b)
    BY <1>5, <2>1, <2>5
  <2>7. e.txIndex[TxOf[o]] = db.txIndex[TxOf[o]]
    BY <1>1, <2>1, <2>6
  <2> QED  BY <2>2, <2>3, <2>7
<1>8. SpentExact(e)
  <2> SUFFICES ASSUME NEW o \in Outpoint, NEW t \in Tx
               PROVE  e.vSpent[o] = t <=> e.txIndex[t] # None /\ o \in Inputs[t]
    BY DEF SpentExact
  <2>0. /\ \A s \in Tx : db.vSpent[o] = s <=> db.txIndex[s] # None /\ o \in Inputs[s]
        /\ TxOf[o] \in Tx
    BY <1>4, TxAssumption DEF SpentExact
  <2>1. CASE o \in SpentBy(b)
    <3>1. PICK s \in Txs(b) : o \in Inputs[s]
      BY <2>1 DEF SpentBy
    <3>2. s \in Tx /\ db.vSpent[o] = s
      BY <1>0, <1>3, <1>5, <2>0, <3>1, TxsType
    <3>3. e.vSpent[o] = None
      BY <1>1, <2>1
    <3>4. e.txIndex[t] # None /\ o \in Inputs[t] => t = s
      BY <1>1, <1>3, <2>0, <3>2
    <3>5. e.txIndex[s] = None
      BY <1>1, <3>1, <3>2
    <3> QED  BY <1>3, <3>3, <3>4, <3>5
  <2>2. CASE o \notin SpentBy(b) /\ TxOf[o] \in Txs(b)
    <3>1. e.vSpent[o] = None /\ e.txIndex[TxOf[o]] = None
      BY <1>1, <2>0, <2>2
    <3>2. e.txIndex[t] # None => o \notin Inputs[t]
      BY <1>7, <3>1 DEF InputsExact
    <3> QED  BY <1>3, <3>1, <3>2
  <2>3. CASE o \notin SpentBy(b) /\ TxOf[o] \notin Txs(b)
    <3>1. e.vSpent[o] = db.vSpent[o]
      BY <1>1, <2>3
    <3>2. o \in Inputs[t] => e.txIndex[t] = db.txIndex[t]
      BY <1>1, <2>3 DEF SpentBy
    <3>3. e.txIndex[t] # None => db.txIndex[t] # None
      BY <1>1
    <3> QED  BY <2>0, <3>1, <3>2, <3>3
  <2> QED  BY <2>1, <2>2, <2>3
<1>9. NextExact(e)
  <2> SUFFICES ASSUME NEW p \in Block, NEW c \in Block
               PROVE  e.next[p] = c <=> c \in Connected(Parent[b]) /\ Parent[c] = p
    BY <1>1 DEF NextExact
  <2>0. db.next[p] = c <=> c \in Connected(b) /\ Parent[c] = p
    BY <1>4 DEF NextExact
  <2>1. CASE p = Parent[b]
    <3>1. c \in Connected(b) /\ Parent[c] = p => c = b
      BY <1>0, <2>1, SameParent, TreeAssumption DEF Connected
    <3> QED  BY <1>1, <1>2, <1>3, <2>1, <3>1
  <2>2. CASE p # Parent[b]
    BY <1>1, <1>2, <2>0, <2>2
  <2> QED  BY <2>1, <2>2
<1> QED  BY <1>6, <1>7, <1>8, <1>9 DEF Exact, e, b

-----------------------------------------------------------------------------
(* ConnectBlock adds exactly the block. *)

LEMMA ConnectedToType ==
  ASSUME NEW db \in Database, NEW b \in Block, b # Genesis,
         pnext \in [Block -> Block \cup {None}]
  PROVE  ConnectedTo(db, b) \in Database
<1>1. ASSUME NEW o \in Outpoint, SpenderIn(b, o) # {}
      PROVE  (CHOOSE t \in SpenderIn(b, o) : TRUE) \in Tx
  <2>1. SpenderIn(b, o) \subseteq Tx
    BY TxsType DEF SpenderIn
  <2> QED  BY <1>1, <2>1
<1>2. \A o \in Outpoint :
        (IF SpenderIn(b, o) # {} THEN CHOOSE t \in SpenderIn(b, o) : TRUE
         ELSE IF TxOf[o] \in Txs(b) THEN None ELSE db.vSpent[o]) \in Tx \cup {None}
  BY <1>1 DEF Database
<1> QED  BY <1>2, ChainStep DEF Database, ConnectedTo

\* No transaction of a block that connects is in the index already: its
\* inputs would be marked as spent by itself.
LEMMA NoDuplicate ==
  ASSUME NEW db \in Database, NEW b \in Block, b # Genesis, Parent[b] = db.tip,
         Exact(db), ConnectOK(db, b)
  PROVE  \A t \in Txs(b) : db.txIndex[t] = None
<1> DEFINE D == {i \in DOMAIN vtx[b] : db.txIndex[vtx[b][i]] # None}
<1>1. SUFFICES ASSUME D # {} PROVE FALSE
  BY DEF Txs
<1>2. D \subseteq Nat
  BY TxsType
<1>3. PICK i \in D : \A j \in D : i <= j
  BY <1>1, <1>2, MinPosition
<1> DEFINE t == vtx[b][i]
<1>4. i \in DOMAIN vtx[b] /\ i \in Nat /\ t \in Tx /\ db.txIndex[t] # None /\ t \in Txs(b)
  BY <1>2, TxsType DEF Txs
<1>5. db.txIndex[t] \in Block /\ db.txIndex[t] \in Connected(db.tip) /\ t \in Txs(db.txIndex[t])
  <2>1. db.txIndex[t] \in Block
    BY <1>4 DEF Database
  <2> QED  BY <1>4, <2>1 DEF Exact, IndexExact
<1>6. CASE t \in Coinbase
  <2>1. Height[db.txIndex[t]] = Height[b]
    BY <1>4, <1>5, <1>6, TxAssumption
  <2>2. Height[db.txIndex[t]] <= Height[Parent[b]] /\ Height[b] = Height[Parent[b]] + 1
        /\ Height[Parent[b]] \in Nat
    BY <1>5, ChainStep, HeightAssumption DEF Connected
  <2>3. Height[b] <= Height[Parent[b]]
    BY <2>1, <2>2
  <2> QED  BY <2>2, <2>3
<1>7. CASE t \notin Coinbase
  <2>1. PICK o \in Inputs[t] : TRUE
    BY <1>4, <1>7, TxAssumption
  <2>2. o \in Outpoint /\ TxOf[o] \in Tx
    BY <1>4, TxAssumption
  <2>3. db.vSpent[o] = t /\ t # None
    BY <1>4, <2>1, <2>2, TreeAssumption DEF Exact, SpentExact
  <2>4. db.txIndex[TxOf[o]] # None
    BY <1>4, <2>1 DEF Exact, InputsExact
  <2>5. InputOK(db, b, i, o)
    BY <1>4, <2>1 DEF ConnectOK
  <2>6. MadeBefore(b, o, i) # {}
    BY <2>3, <2>5 DEF InputOK
  <2>7. PICK j \in DOMAIN vtx[b] : j < i /\ vtx[b][j] = TxOf[o]
    BY <2>6 DEF MadeBefore
  <2>8. j \in D /\ j \in Nat
    BY <2>4, <2>7, TxsType
  <2> HIDE DEF D
  <2> QED  BY <1>3, <1>4, <2>7, <2>8
<1> QED  BY <1>6, <1>7

\* In a block that connects, an output has at most one spender, after the
\* transaction that creates it.
LEMMA OneSpender ==
  ASSUME NEW db \in Database, NEW b \in Block, b # Genesis, Parent[b] = db.tip,
         Exact(db), ConnectOK(db, b), NEW o \in Outpoint
  PROVE  /\ \A s, t \in Txs(b) : o \in Inputs[s] /\ o \in Inputs[t] => s = t
         /\ SpenderIn(b, o) = {t \in Txs(b) : o \in Inputs[t]}
<1> DEFINE n == DOMAIN vtx[b]
<1>0. TxOf[o] \in Tx /\ \A i \in n : i \in Nat /\ vtx[b][i] \in Txs(b)
  BY TxsType, TxAssumption DEF Txs
\* Created in the block: earlier than it is spent.
<1>1. ASSUME NEW i \in n, o \in Inputs[vtx[b][i]], NEW j \in n, vtx[b][j] = TxOf[o]
      PROVE  j < i
  <2>1. InputOK(db, b, i, o)
    BY <1>1 DEF ConnectOK
  <2>2. db.txIndex[TxOf[o]] = None
    BY <1>0, <1>1, NoDuplicate
  <2>3. MadeBefore(b, o, i) # {}
    BY <2>1, <2>2 DEF InputOK
  <2>4. PICK k \in n : k < i /\ vtx[b][k] = TxOf[o]
    BY <2>3 DEF MadeBefore
  <2>5. k = j
    BY <1>1, <2>4, TxAssumption
  <2> QED  BY <2>4, <2>5
<1>2. ASSUME NEW i \in n, NEW k \in n, o \in Inputs[vtx[b][i]], o \in Inputs[vtx[b][k]], k < i
      PROVE  FALSE
  <2>1. InputOK(db, b, i, o)
    BY <1>2 DEF ConnectOK
  <2>2. \A j \in MadeBefore(b, o, i) : j < k
    BY <1>1, <1>2 DEF MadeBefore
  <2>3. k \in SpentBefore(b, o, i)
    BY <1>2, <2>2 DEF SpentBefore
  <2> QED  BY <2>1, <2>3 DEF InputOK
<1>3. \A i, k \in n : o \in Inputs[vtx[b][i]] /\ o \in Inputs[vtx[b][k]] => i = k
  BY <1>0, <1>2
<1>4. \A s, t \in Txs(b) : o \in Inputs[s] /\ o \in Inputs[t] => s = t
  BY <1>3 DEF Txs
<1>5. SpenderIn(b, o) = {t \in Txs(b) : o \in Inputs[t]}
  BY <1>1 DEF SpenderIn, Txs
<1> QED  BY <1>4, <1>5

LEMMA ConnectKeepsExact ==
  ASSUME NEW db \in Database, NEW b \in Block, b # Genesis, Parent[b] = db.tip,
         Exact(db), ConnectOK(db, b),
         pnext \in [Block -> Block \cup {None}], pnext[b] = None
  PROVE  Exact(ConnectedTo(db, b))
<1> DEFINE e == ConnectedTo(db, b)
<1>0. /\ db.txIndex \in [Tx -> Block \cup {None}]
      /\ db.vSpent \in [Outpoint -> Tx \cup {None}]
      /\ db.next \in [Block -> Block \cup {None}]
  BY DEF Database
<1>1. /\ e.tip = b
      /\ \A t \in Tx : e.txIndex[t] = IF t \in Txs(b) THEN b ELSE db.txIndex[t]
      /\ \A o \in Outpoint : e.vSpent[o] =
           IF SpenderIn(b, o) # {} THEN CHOOSE t \in SpenderIn(b, o) : TRUE
           ELSE IF TxOf[o] \in Txs(b) THEN None ELSE db.vSpent[o]
      /\ \A p \in Block : e.next[p] =
           IF p = Parent[b] THEN b ELSE IF p = b THEN None ELSE db.next[p]
  <2>1. e.next = [db.next EXCEPT ![b] = None, ![Parent[b]] = b]
    BY DEF ConnectedTo
  <2>2. Parent[b] \in Block /\ Parent[b] # b
    BY ChainStep
  <2>3. \A p \in Block : e.next[p] =
           IF p = Parent[b] THEN b ELSE IF p = b THEN None ELSE db.next[p]
    BY <1>0, <2>1, <2>2
  <2> QED  BY <2>3 DEF ConnectedTo
<1>2. /\ Connected(b) = {b} \cup Connected(db.tip)
      /\ b \notin Connected(db.tip)
      /\ Connected(b) \subseteq Block
      /\ b \in Chain[b]
  BY ChainStep, TreeAssumption DEF Connected
<1>3. None \notin Block /\ None \notin Tx
  BY TreeAssumption
<1> HIDE DEF e
<1>4. /\ IndexExact(db) /\ SpentExact(db) /\ InputsExact(db) /\ NextExact(db)
  BY DEF Exact
<1>5. \A t \in Txs(b) : t \in Tx /\ db.txIndex[t] = None
  BY NoDuplicate, TxsType
<1>6. IndexExact(e)
  <2> SUFFICES ASSUME NEW t \in Tx, NEW c \in Block
               PROVE  e.txIndex[t] = c <=> c \in Connected(b) /\ t \in Txs(c)
    BY <1>1 DEF IndexExact
  <2>1. db.txIndex[t] = c <=> c \in Connected(db.tip) /\ t \in Txs(c)
    BY <1>4 DEF IndexExact
  <2>2. CASE t \in Txs(b)
    <3>1. db.txIndex[t] = None
      BY <1>5, <2>2
    <3> QED  BY <1>1, <1>2, <1>3, <2>1, <2>2, <3>1
  <2>3. CASE t \notin Txs(b)
    BY <1>1, <1>2, <2>1, <2>3
  <2> QED  BY <2>2, <2>3
<1>7. InputsExact(e)
  <2> SUFFICES ASSUME NEW t \in Tx, e.txIndex[t] # None, NEW o \in Inputs[t]
               PROVE  LET pos == e.txIndex[TxOf[o]]
                      IN  /\ pos # None
                          /\ pos \in Chain[e.txIndex[t]]
                          /\ TxOf[o] \in Generated =>
                               Height[e.txIndex[t]] - Height[pos] >= Maturity
    BY DEF InputsExact
  <2>0. o \in Outpoint /\ TxOf[o] \in Tx
    BY TxAssumption
  <2>1. CASE t \in Txs(b)
    <3>1. PICK i \in DOMAIN vtx[b] : t = vtx[b][i]
      BY <2>1 DEF Txs
    <3>2. InputOK(db, b, i, o)
      BY <3>1 DEF ConnectOK
    <3>3. e.txIndex[t] = b
      BY <1>1, <2>1
    <3>4. CASE MadeBefore(b, o, i) # {}
      <4>1. TxOf[o] \in Txs(b)
        BY <3>4 DEF MadeBefore, Txs
      <4>2. e.txIndex[TxOf[o]] = b
        BY <1>1, <2>0, <4>1
      <4>3. TxOf[o] \notin Generated
        <5>1. TxOf[o] \in Generated => ~(b \in Chain[b] /\ Height[b] - Height[b] < Maturity)
          BY <3>2, <3>4 DEF InputOK, ConfirmedInPrevBlocks
        <5>2. Height[b] \in Nat /\ Maturity \in Nat \ {0}
          BY HeightAssumption
        <5>3. Height[b] - Height[b] < Maturity
          BY <5>2
        <5> QED  BY <1>2, <5>1, <5>3
      <4> QED  BY <1>2, <1>3, <3>3, <4>2, <4>3
    <3>5. CASE MadeBefore(b, o, i) = {}
      <4> DEFINE pos == db.txIndex[TxOf[o]]
      <4>1. pos # None /\ TxOf[o] \in Generated => ~ConfirmedInPrevBlocks(pos, b)
        BY <3>2, <3>5 DEF InputOK
      <4>2. pos # None
        BY <3>2, <3>5 DEF InputOK
      <4>3. pos \in Block
        BY <1>0, <2>0, <4>2
      <4>4. pos \in Chain[b]
        <5>1. pos \in Connected(db.tip)
          BY <1>4, <2>0, <4>3 DEF IndexExact
        <5> QED  BY <1>2, <5>1 DEF Connected
      <4>5. TxOf[o] \notin Txs(b)
        BY <1>5, <4>2
      <4>6. e.txIndex[TxOf[o]] = pos
        BY <1>1, <2>0, <4>5
      <4>7. TxOf[o] \in Generated => Height[b] - Height[pos] >= Maturity
        <5>1. TxOf[o] \in Generated => ~(Height[b] - Height[pos] < Maturity)
          BY <4>1, <4>2, <4>4 DEF ConfirmedInPrevBlocks
        <5>2. Height[b] \in Nat /\ Height[pos] \in Nat /\ Maturity \in Nat
          BY <4>3, HeightAssumption
        <5> QED  BY <5>1, <5>2
      <4> QED  BY <3>3, <4>2, <4>4, <4>6, <4>7
    <3> QED  BY <3>4, <3>5
  <2>2. CASE t \notin Txs(b)
    <3>1. e.txIndex[t] = db.txIndex[t] /\ db.txIndex[t] # None
      BY <1>1, <2>2
    <3>2. /\ db.txIndex[TxOf[o]] # None
          /\ db.txIndex[TxOf[o]] \in Chain[db.txIndex[t]]
          /\ TxOf[o] \in Generated =>
               Height[db.txIndex[t]] - Height[db.txIndex[TxOf[o]]] >= Maturity
      BY <1>4, <3>1 DEF InputsExact
    <3>3. e.txIndex[TxOf[o]] = db.txIndex[TxOf[o]]
      BY <1>1, <1>5, <2>0, <3>2
    <3> QED  BY <3>1, <3>2, <3>3
  <2> QED  BY <2>1, <2>2
<1>8. SpentExact(e)
  <2> SUFFICES ASSUME NEW o \in Outpoint, NEW t \in Tx
               PROVE  e.vSpent[o] = t <=> e.txIndex[t] # None /\ o \in Inputs[t]
    BY DEF SpentExact
  <2>0. /\ \A s \in Tx : db.vSpent[o] = s <=> db.txIndex[s] # None /\ o \in Inputs[s]
        /\ TxOf[o] \in Tx
    BY <1>4, TxAssumption DEF SpentExact
  <2>a. /\ \A s, u \in Txs(b) : o \in Inputs[s] /\ o \in Inputs[u] => s = u
        /\ SpenderIn(b, o) = {s \in Txs(b) : o \in Inputs[s]}
    BY OneSpender
  <2>1. CASE SpenderIn(b, o) # {}
    <3>1. PICK s \in Txs(b) : o \in Inputs[s]
      BY <2>1, <2>a
    <3>2. SpenderIn(b, o) = {s}
      BY <2>a, <3>1
    <3>3. e.vSpent[o] = s
      BY <1>1, <3>2
    <3>4. e.txIndex[s] # None /\ s \in Tx
      BY <1>1, <1>3, <1>5, <3>1
    <3>5. ASSUME e.txIndex[t] # None, o \in Inputs[t], t # s PROVE FALSE
      <4>1. t \notin Txs(b)
        BY <2>a, <3>1, <3>5
      <4>2. db.txIndex[t] # None
        BY <1>1, <3>5, <4>1
      <4>3. db.vSpent[o] = t
        BY <2>0, <3>5, <4>2
      <4>4. db.txIndex[TxOf[o]] # None
        BY <1>4, <3>5, <4>2 DEF InputsExact
      <4>5. TxOf[o] \notin Txs(b)
        BY <1>5, <4>4
      <4>6. PICK i \in DOMAIN vtx[b] : s = vtx[b][i]
        BY <3>1 DEF Txs
      <4>7. InputOK(db, b, i, o)
        BY <3>1, <4>6 DEF ConnectOK
      <4>8. MadeBefore(b, o, i) = {}
        BY <4>5 DEF MadeBefore, Txs
      <4>9. db.vSpent[o] = None
        BY <4>7, <4>8 DEF InputOK
      <4> QED  BY <1>3, <4>3, <4>9
    <3> QED  BY <3>1, <3>3, <3>4, <3>5
  <2>2. CASE SpenderIn(b, o) = {} /\ TxOf[o] \in Txs(b)
    <3>1. e.vSpent[o] = None
      BY <1>1, <2>2
    <3>2. ASSUME e.txIndex[t] # None, o \in Inputs[t] PROVE FALSE
      <4>1. t \notin Txs(b)
        BY <2>a, <2>2, <3>2
      <4>2. db.txIndex[t] # None
        BY <1>1, <3>2, <4>1
      <4>3. db.txIndex[TxOf[o]] # None
        BY <1>4, <3>2, <4>2 DEF InputsExact
      <4> QED  BY <1>5, <2>2, <4>3
    <3> QED  BY <1>3, <3>1, <3>2
  <2>3. CASE SpenderIn(b, o) = {} /\ TxOf[o] \notin Txs(b)
    <3>1. e.vSpent[o] = db.vSpent[o]
      BY <1>1, <2>3
    <3>2. o \in Inputs[t] => e.txIndex[t] = db.txIndex[t]
      BY <1>1, <2>3, <2>a
    <3> QED  BY <2>0, <3>1, <3>2
  <2> QED  BY <2>1, <2>2, <2>3
<1>9. NextExact(e)
  <2> SUFFICES ASSUME NEW p \in Block, NEW c \in Block
               PROVE  e.next[p] = c <=> c \in Connected(b) /\ Parent[c] = p
    BY <1>1 DEF NextExact
  <2>0. db.next[p] = c <=> c \in Connected(db.tip) /\ Parent[c] = p
    BY <1>4 DEF NextExact
  <2>a. Parent[b] # b
    BY ChainStep
  <2>1. CASE p = Parent[b]
    <3>1. c \in Connected(b) /\ Parent[c] = p => c = b
      BY <1>2, <2>1, SameParent DEF Connected
    <3> QED  BY <1>1, <1>2, <2>1, <3>1
  <2>2. CASE p = b
    <3>1. ASSUME c \in Connected(b), Parent[c] = b PROVE FALSE
      <4>1. c # b
        BY <2>a, <3>1
      <4>2. c \in Chain[db.tip] /\ c # Genesis
        BY <1>2, <3>1, <4>1 DEF Connected
      <4>3. db.tip \in Block
        BY DEF Database
      <4>4. b \in Chain[db.tip]
        BY <3>1, <4>2, <4>3, ParentInChain
      <4> QED  BY <4>4, ChainStep
    <3> QED  BY <1>1, <1>3, <2>2, <2>a, <3>1
  <2>3. CASE p # Parent[b] /\ p # b
    BY <1>1, <1>2, <2>0, <2>3
  <2> QED  BY <2>1, <2>2, <2>3
<1> QED  BY <1>6, <1>7, <1>8, <1>9 DEF Exact, e

-----------------------------------------------------------------------------
(* The inductive invariant.  Exact(disk) alone is not inductive: a commit
   copies the batch, so the batch must be exact too; connecting a block
   rewrites its record from memory, so memory must not yet link it to a
   child; and the batch must be about the block it says it is about. *)

\* Memory's links are those of the connected chain.
LinksExact ==
  \A p, c \in Block :
    pnext[p] = c <=> c \in Connected(disk.tip) /\ Parent[c] = p

\* SetBestChain's progress.
StageInv ==
  /\ stage # "idle" => pindexNew \in Block /\ goal \in Chain[pindexNew]
  /\ stage # "postponed" => ChainTrust[disk.tip] <= ChainTrust[pindexBest]
  /\ stage = "reorganize" => \/ ChainTrust[goal] > ChainTrust[pindexBest]
                             \/ pindexNew = goal /\ BelowRefused(disk.tip, goal)
  /\ stage = "postponed" => goal # Genesis /\ Parent[goal] = disk.tip

\* While the best block has not strayed.
SoundInv ==
  /\ stage # "postponed" => pindexBest = disk.tip
  /\ stage # "idle" => Exact(batch)
  /\ stage # "idle" => Chain[goal] \cap Chain[disk.tip] \subseteq Chain[batch.tip]

IInv ==
  /\ TypeOK
  /\ StageInv
  /\ strayed # "disk" => Exact(disk) /\ LinksExact
  /\ strayed = "no" => SoundInv

LEMMA InitIInv == Init => IInv
<1> SUFFICES ASSUME Init PROVE IInv
  OBVIOUS
<1> USE DEF Init
<1>1. Connected(Genesis) = {}
  BY TreeAssumption DEF Connected
<1>2. TypeOK
  BY TreeAssumption DEF TypeOK, Database, Stray
<1>3. Exact(disk)
  <2>1. IndexExact(disk)
    BY <1>1, TreeAssumption DEF IndexExact
  <2>2. SpentExact(disk) /\ InputsExact(disk)
    BY TreeAssumption DEF SpentExact, InputsExact
  <2>3. NextExact(disk)
    BY <1>1, TreeAssumption DEF NextExact
  <2> QED  BY <2>1, <2>2, <2>3 DEF Exact
<1>4. LinksExact
  BY <1>1, TreeAssumption DEF LinksExact
<1>5. StageInv
  BY TreeAssumption, HeightAssumption DEF StageInv
<1>6. SoundInv
  BY DEF SoundInv
<1> QED  BY <1>2, <1>3, <1>4, <1>5, <1>6 DEF IInv

LEMMA TypeStep ==
  ASSUME TypeOK, StageInv, [Next]_vars
  PROVE  TypeOK'
<1> USE DEF TypeOK
<1>0. Genesis \in Block
  BY TreeAssumption
<1>1. ASSUME NEW b \in Block, AddToBlockIndex(b) PROVE TypeOK'
  <2>1. CASE ChainTrust[b] <= ChainTrust[pindexBest]
    <3>1. ~(ChainTrust[b] > ChainTrust[pindexBest])
      BY <2>1, HeightAssumption
    <3> QED  BY <1>1, <3>1 DEF AddToBlockIndex
  <2>2. CASE ChainTrust[b] > ChainTrust[pindexBest]
    <3>1. Intermediate(pindexBest, b) \in Block
      BY <2>2, IntermediateExists, ChainMember
    <3>2. [disk EXCEPT !.tip = pindexBest] \in Database
      BY DEF Database
    <3>3. ~(ChainTrust[b] <= ChainTrust[pindexBest])
      BY <2>2, HeightAssumption
    <3> QED  BY <1>1, <3>1, <3>2, <3>3 DEF AddToBlockIndex
  <2>3. ChainTrust[b] \in Nat /\ ChainTrust[pindexBest] \in Nat
    BY HeightAssumption
  <2> QED  BY <2>1, <2>2, <2>3
<1>2. CASE DisconnectBlock
  <2>1. batch.tip \in Block /\ batch.tip # Genesis
    BY <1>2, TreeAssumption DEF DisconnectBlock, Database
  <2>2. batch' \in Database
    BY <1>2, <2>1, DisconnectedType DEF DisconnectBlock
  <2> QED  BY <1>2, <2>2 DEF DisconnectBlock
<1>3. ASSUME NEW c \in Block, ConnectBlock(c) PROVE TypeOK'
  <2>1. batch' \in Database
    BY <1>3, ConnectedToType DEF ConnectBlock
  <2> QED  BY <1>3, <2>1 DEF ConnectBlock
<1>4. CASE TxnCommit
  <2>1. Relinked \in [Block -> Block \cup {None}]
    <3>1. Chain[goal] \subseteq Block
      BY TreeAssumption
    <3> QED  BY <3>1 DEF Relinked
  <2>2. goal' \in Block /\ pindexBest' \in Block /\ pindexNew' \in Block \cup {None}
    BY <1>0, <1>4, ChainMember DEF TxnCommit, StageInv
  <2> QED  BY <1>4, <2>1, <2>2 DEF TxnCommit, Stray
<1>5. CASE GiveUp /\ stage # "idle"
  BY <1>0, <1>5 DEF GiveUp, StageInv, Stray
<1>6. CASE Restart
  <2>1. goal' \in Block /\ pindexNew' \in Block \cup {None} /\ stage' \in {"idle", "reorganize"}
    <3>1. \A c \in Block : LowestBad(disk.tip, refused', c) => Parent[c] \in Block
      BY TreeAssumption DEF LowestBad, Checked
    <3> QED  BY <1>0, <1>6, <3>1 DEF Restart
  <2>2. /\ pnext' \in [Block -> Block \cup {None}] /\ pindexBest' \in Block
        /\ disk' \in Database /\ batch' \in Database
    BY <1>6 DEF Restart, Database
  <2>3. mapBlockIndex' \subseteq Block /\ refused' \subseteq Contested /\ strayed' \in Stray
    BY <1>6 DEF Restart, Stray
  <2> QED  BY <2>1, <2>2, <2>3
<1>7. CASE ViewChanges
  BY <1>7 DEF ViewChanges
<1>8. CASE UNCHANGED vars
  BY <1>8 DEF vars
<1> QED
  BY <1>1, <1>2, <1>3, <1>4, <1>5, <1>6, <1>7, <1>8
  DEF Next, SetBestChainStep, DisconnectFails, ConnectFails, StorageFails

LEMMA StageStep ==
  ASSUME TypeOK, StageInv, [Next]_vars
  PROVE  StageInv'
<1> USE DEF StageInv
<1>0. /\ disk.tip \in Block /\ pindexBest \in Block
      /\ \A b \in Block : ChainTrust[b] \in Nat
  BY HeightAssumption DEF TypeOK, Database
<1>1. ASSUME NEW b \in Block, AddToBlockIndex(b) PROVE StageInv'
  <2>1. CASE ~(ChainTrust[b] > ChainTrust[pindexBest])
    BY <1>1, <2>1 DEF AddToBlockIndex
  <2>2. CASE ChainTrust[b] > ChainTrust[pindexBest]
    <3>1. /\ Intermediate(pindexBest, b) \in Chain[b] /\ Intermediate(pindexBest, b) # Genesis
          /\ ChainTrust[Intermediate(pindexBest, b)] > ChainTrust[pindexBest]
      BY <1>0, <2>2, IntermediateExists
    <3>2. ~(ChainTrust[b] <= ChainTrust[pindexBest])
      BY <1>0, <2>2
    <3> QED  BY <1>1, <3>1, <3>2 DEF AddToBlockIndex
  <2> QED  BY <2>1, <2>2
<1>2. CASE DisconnectBlock
  BY <1>2 DEF DisconnectBlock, BelowRefused
<1>3. ASSUME NEW c \in Block, ConnectBlock(c) PROVE StageInv'
  BY <1>3 DEF ConnectBlock, BelowRefused
<1>4. CASE TxnCommit
  BY <1>0, <1>4 DEF TxnCommit, TypeOK
<1>5. CASE GiveUp /\ stage # "idle"
  <2>1. CASE stage = "reorganize"
    BY <1>5, <2>1 DEF GiveUp
  <2>2. CASE stage = "postponed"
    <3>1. goal \in Block /\ ChainTrust[goal] <= ChainTrust[pindexNew]
          /\ pindexNew \in Block
      BY <2>2, ChainTrustMember
    <3>2. ChainTrust[disk.tip] < ChainTrust[goal]
      BY <2>2, <3>1, ChainTrustStep
    <3>3. ChainTrust[disk.tip] <= ChainTrust[pindexNew]
      BY <1>0, <3>1, <3>2
    <3> QED  BY <1>5, <2>2, <3>3 DEF GiveUp
  <2> QED  BY <1>5, <2>1, <2>2 DEF TypeOK
<1>6. CASE Restart
  <2>1. disk' = disk /\ pindexBest' = disk.tip
    BY <1>6 DEF Restart
  <2>2. CASE stage' = "idle"
    BY <1>0, <2>1, <2>2
  <2>3. CASE stage' # "idle"
    <3>1. PICK c \in Block : /\ LowestBad(disk.tip, refused', c)
                             /\ pindexNew' = Parent[c] /\ goal' = Parent[c]
                             /\ stage' = "reorganize"
      BY <1>6, <2>3 DEF Restart
    <3>2. c # Genesis /\ c \in refused' \cap Checked(disk.tip)
      BY <3>1 DEF LowestBad, Checked
    <3>3. Parent[c] \in Block /\ Parent[c] \in Chain[Parent[c]] /\ c \notin Chain[Parent[c]]
      BY <3>2, TreeAssumption
    <3>4. \A d \in Chain[Parent[c]] : c \notin Chain[d]
      BY <3>3, TreeAssumption
    <3>5. refused' \cap Checked(disk.tip) \cap Chain[Parent[c]] = {}
      BY <3>1, <3>4 DEF LowestBad
    <3>6. BelowRefused(disk.tip, goal)'
      BY <2>1, <3>1, <3>2, <3>5 DEF BelowRefused, Checked
    <3> QED  BY <1>0, <2>1, <3>1, <3>3, <3>6
  <2> QED  BY <2>2, <2>3
<1>7. CASE ViewChanges
  BY <1>7 DEF ViewChanges
<1>8. CASE UNCHANGED vars
  BY <1>8 DEF vars, BelowRefused
<1> QED
  BY <1>1, <1>2, <1>3, <1>4, <1>5, <1>6, <1>7, <1>8
  DEF Next, SetBestChainStep, DisconnectFails, ConnectFails, StorageFails

\* The links in memory after a commit are those of the new chain.
LEMMA RelinkedExact ==
  ASSUME TypeOK, StageInv, LinksExact, SoundInv, stage # "idle"
  PROVE  \A p, c \in Block :
           Relinked[p] = c <=> c \in Connected(goal) /\ Parent[c] = p
<1> SUFFICES ASSUME NEW p \in Block, NEW c \in Block
             PROVE  Relinked[p] = c <=> c \in Connected(goal) /\ Parent[c] = p
  OBVIOUS
<1>0. /\ goal \in Block /\ disk.tip \in Block
      /\ pnext \in [Block -> Block \cup {None}]
      /\ None \notin Block
  BY TreeAssumption DEF TypeOK, StageInv, Database
<1>1. pnext[p] = c <=> c \in Connected(disk.tip) /\ Parent[c] = p
  BY DEF LinksExact
<1>2. CASE stage = "postponed"
  <2>1. Parent[goal] = disk.tip /\ goal # Genesis
    BY <1>2 DEF StageInv
  <2>2. Connected(goal) = {goal} \cup Connected(disk.tip)
    BY <1>0, <2>1, ChainStep
  <2>3. c \in Connected(goal) /\ Parent[c] = Parent[goal] => c = goal
    BY <1>0, <2>1, SameParent, TreeAssumption DEF Connected
  <2>4. Relinked[p] = IF p = Parent[goal] THEN goal ELSE pnext[p]
    BY <1>0, <1>2, <2>1 DEF Relinked
  <2> QED  BY <1>1, <2>2, <2>3, <2>4
<1>3. CASE stage = "reorganize"
  <2> DEFINE onto == {d \in Chain[goal] \ Chain[disk.tip] : d # Genesis /\ Parent[d] = p}
             off  == \E d \in Chain[disk.tip] \ Chain[goal] : d # Genesis /\ Parent[d] = p
  <2>1. pindexBest = disk.tip
    BY <1>3 DEF SoundInv
  <2>2. Relinked[p] = IF onto # {} THEN CHOOSE d \in onto : TRUE
                      ELSE IF off THEN None ELSE pnext[p]
    BY <1>3, <2>1 DEF Relinked
  <2>3. onto \subseteq Block /\ Chain[goal] \subseteq Block /\ Chain[disk.tip] \subseteq Block
    BY <1>0, TreeAssumption
  <2>4. CASE onto # {}
    <3>1. PICK d \in onto : Relinked[p] = d
      <4> HIDE DEF onto
      <4> QED  BY <2>2, <2>4
    <3>2. \A x \in Connected(goal) : Parent[x] = p => x = d
      BY <1>0, <3>1, SameParent DEF Connected
    <3>3. d \in Connected(goal) /\ Parent[d] = p
      BY <3>1 DEF Connected
    <3> QED  BY <3>1, <3>2, <3>3
  <2>5. CASE onto = {} /\ off
    <3>1. Relinked[p] = None
      BY <2>2, <2>5
    <3>2. PICK d \in Chain[disk.tip] \ Chain[goal] : d # Genesis /\ Parent[d] = p
      BY <2>5
    <3>3. ASSUME c \in Connected(goal), Parent[c] = p PROVE FALSE
      <4>1. c \in Chain[disk.tip] /\ c # Genesis /\ c \in Chain[goal]
        BY <2>5, <3>3 DEF Connected
      <4>2. c = d
        BY <1>0, <3>2, <3>3, <4>1, SameParent
      <4> QED  BY <3>2, <4>1, <4>2
    <3> QED  BY <1>0, <3>1, <3>3
  <2>6. CASE onto = {} /\ ~off
    <3>1. Relinked[p] = pnext[p]
      BY <2>2, <2>6
    <3>2. Parent[c] = p => (c \in Connected(goal) <=> c \in Connected(disk.tip))
      BY <2>6 DEF Connected
    <3> QED  BY <1>1, <3>1, <3>2
  <2> QED  BY <2>4, <2>5, <2>6
<1> QED  BY <1>2, <1>3 DEF TypeOK

LEMMA InvStep ==
  ASSUME IInv, [Next]_vars
  PROVE  IInv'
<1>0. /\ TypeOK /\ StageInv
      /\ strayed # "disk" => Exact(disk) /\ LinksExact
      /\ strayed = "no" => SoundInv
      /\ TypeOK' /\ StageInv'
  BY TypeStep, StageStep DEF IInv
<1> DEFINE Rest == /\ strayed # "disk" => Exact(disk) /\ LinksExact
                   /\ strayed = "no" => SoundInv
<1> SUFFICES Rest'
  BY <1>0 DEF IInv
<1>a. /\ disk \in Database /\ batch \in Database /\ disk.tip \in Block /\ batch.tip \in Block
      /\ goal \in Block /\ pindexBest \in Block
      /\ pnext \in [Block -> Block \cup {None}]
      /\ strayed \in {"no", "memory", "disk"}
      /\ stage \in {"idle", "reorganize", "postponed"}
  BY <1>0 DEF TypeOK, Database, Stray
\* Steps that leave the disk, the links and the stage's facts alone.
<1>b. ASSUME UNCHANGED <<disk, pnext>>, strayed' = strayed, strayed = "no" => SoundInv'
      PROVE  Rest'
  <2>1. Exact(disk)' <=> Exact(disk)
    BY <1>b DEF Exact, IndexExact, SpentExact, InputsExact, NextExact
  <2>2. LinksExact' <=> LinksExact
    BY <1>b DEF LinksExact
  <2> QED  BY <1>0, <1>b, <2>1, <2>2
<1>1. ASSUME NEW b \in Block, AddToBlockIndex(b) PROVE Rest'
  <2>1. UNCHANGED <<disk, pnext, pindexBest, strayed>> /\ stage = "idle"
    BY <1>1 DEF AddToBlockIndex
  <2>2. ASSUME strayed = "no" PROVE SoundInv'
    <3>1. pindexBest = disk.tip
      BY <1>0, <2>1, <2>2 DEF SoundInv
    <3>2. CASE stage' = "idle"
      BY <2>1, <3>1, <3>2 DEF SoundInv
    <3>3. CASE stage' # "idle"
      <4>1. batch' = disk /\ stage' = "reorganize"
        <5>1. [disk EXCEPT !.tip = disk.tip] = disk
          BY <1>a DEF Database
        <5> QED  BY <1>1, <2>1, <3>1, <3>3, <5>1 DEF AddToBlockIndex
      <4>2. Exact(batch')
        BY <1>0, <2>2, <4>1
      <4>3. Exact(batch)'
        BY <2>1, <4>2 DEF Exact, IndexExact, SpentExact, InputsExact, NextExact
      <4> QED  BY <2>1, <3>1, <4>1, <4>3 DEF SoundInv
    <3> QED  BY <3>2, <3>3
  <2> QED  BY <1>b, <2>1, <2>2
<1>2. CASE DisconnectBlock
  <2>1. /\ UNCHANGED <<disk, pnext, pindexBest, strayed, stage, goal>>
        /\ stage = "reorganize" /\ batch.tip \notin Chain[goal]
        /\ batch' = Disconnected(batch, batch.tip)
    BY <1>2 DEF DisconnectBlock
  <2>2. batch.tip # Genesis
    BY <1>a, <2>1, TreeAssumption
  <2>3. ASSUME strayed = "no" PROVE SoundInv'
    <3>1. SoundInv
      BY <1>0, <2>3
    <3>2. Exact(batch')
      BY <1>a, <2>1, <2>2, <3>1, DisconnectKeepsExact DEF SoundInv
    <3>3. Exact(batch)'
      BY <3>2 DEF Exact, IndexExact, SpentExact, InputsExact, NextExact
    <3>4. batch'.tip = Parent[batch.tip]
      BY <2>1 DEF Disconnected
    <3>5. Chain[goal] \cap Chain[disk.tip] \subseteq Chain[Parent[batch.tip]]
      BY <1>a, <2>1, <2>2, <3>1, ChainStep DEF SoundInv
    <3> QED  BY <2>1, <3>1, <3>3, <3>4, <3>5 DEF SoundInv
  <2> QED  BY <1>b, <2>1, <2>3
<1>3. ASSUME NEW c \in Block, ConnectBlock(c) PROVE Rest'
  <2>1. /\ UNCHANGED <<disk, pnext, pindexBest, strayed, stage, goal>>
        /\ stage # "idle" /\ c \in Chain[goal] /\ c # Genesis /\ Parent[c] = batch.tip
        /\ ConnectOK(batch, c)
        /\ batch' = ConnectedTo(batch, c)
    BY <1>3 DEF ConnectBlock
  <2>3. ASSUME strayed = "no" PROVE SoundInv'
    <3>1. SoundInv /\ LinksExact
      BY <1>0, <2>3
    <3>2. pnext[c] = None
      <4>1. ASSUME NEW d \in Block, pnext[c] = d PROVE FALSE
        <5>1. d \in Connected(disk.tip) /\ Parent[d] = c
          BY <3>1, <4>1 DEF LinksExact
        <5>2. c \in Chain[disk.tip]
          BY <1>a, <5>1, ParentInChain DEF Connected
        <5>3. c \in Chain[batch.tip]
          BY <2>1, <3>1, <5>2 DEF SoundInv
        <5> QED  BY <2>1, <5>3, ChainStep
      <4> QED  BY <1>a, <4>1
    <3>3. Exact(batch')
      BY <1>a, <2>1, <3>1, <3>2, ConnectKeepsExact DEF SoundInv
    <3>4. Exact(batch)'
      BY <3>3 DEF Exact, IndexExact, SpentExact, InputsExact, NextExact
    <3>5. batch'.tip = c
      BY <2>1 DEF ConnectedTo
    <3>6. Chain[goal] \cap Chain[disk.tip] \subseteq Chain[c]
      BY <2>1, <3>1, ChainStep DEF SoundInv
    <3> QED  BY <2>1, <3>1, <3>4, <3>5, <3>6 DEF SoundInv
  <2> QED  BY <1>b, <2>1, <2>3
<1>4. CASE TxnCommit
  <2>1. /\ stage # "idle" /\ batch.tip = goal
        /\ disk' = batch /\ batch' = batch
        /\ pnext' = Relinked
        /\ strayed' = IF strayed = "no" THEN "no" ELSE "disk"
    BY <1>4 DEF TxnCommit
  <2>2. CASE strayed # "no"
    BY <2>1, <2>2
  <2>3. CASE strayed = "no"
    <3>1. SoundInv /\ LinksExact /\ Exact(batch)
      BY <1>0, <2>1, <2>3 DEF SoundInv
    <3>2. Exact(disk)' /\ Exact(batch)'
      BY <2>1, <3>1 DEF Exact, IndexExact, SpentExact, InputsExact, NextExact
    <3>3. \A p, c \in Block : Relinked[p] = c <=> c \in Connected(goal) /\ Parent[c] = p
      BY <1>0, <2>1, <3>1, RelinkedExact
    <3>4. LinksExact'
      BY <2>1, <3>3 DEF LinksExact
    <3>5. SoundInv'
      BY <1>4, <2>1, <3>2 DEF SoundInv, TxnCommit
    <3> QED  BY <3>2, <3>4, <3>5
  <2> QED  BY <2>2, <2>3
<1>5. CASE GiveUp /\ stage # "idle"
  <2>1. UNCHANGED <<disk, pnext>> /\ stage' = "idle"
    BY <1>5 DEF GiveUp
  <2>2. CASE stage = "reorganize"
    <3>1. UNCHANGED <<pindexBest, strayed>>
      BY <1>5, <2>2 DEF GiveUp
    <3>2. strayed = "no" => SoundInv'
      BY <1>0, <2>1, <2>2, <3>1 DEF SoundInv
    <3> QED  BY <1>b, <2>1, <3>1, <3>2
  <2>3. CASE stage = "postponed"
    <3>1. strayed' = IF strayed = "no" THEN "memory" ELSE strayed
      BY <1>5, <2>3 DEF GiveUp
    <3>2. Exact(disk)' <=> Exact(disk)
      BY <2>1 DEF Exact, IndexExact, SpentExact, InputsExact, NextExact
    <3>3. LinksExact' <=> LinksExact
      BY <2>1 DEF LinksExact
    <3> QED  BY <1>0, <1>a, <3>1, <3>2, <3>3
  <2> QED  BY <1>5, <1>a, <2>2, <2>3
<1>6. CASE Restart
  <2>1. /\ pnext' = disk.next /\ pindexBest' = disk.tip /\ disk' = disk /\ batch' = disk
        /\ stage' # "postponed" /\ strayed' = IF strayed = "disk" THEN "disk" ELSE "no"
    BY <1>6 DEF Restart
  <2>2. Exact(disk)' <=> Exact(disk)
    BY <2>1 DEF Exact, IndexExact, SpentExact, InputsExact, NextExact
  <2>3. Exact(disk) => LinksExact'
    BY <2>1 DEF Exact, NextExact, LinksExact
  <2>4. Exact(disk) => Exact(batch)'
    BY <2>1 DEF Exact, IndexExact, SpentExact, InputsExact, NextExact
  <2>5. Exact(disk) => SoundInv'
    BY <2>1, <2>4 DEF SoundInv
  <2> QED  BY <1>0, <2>1, <2>2, <2>3, <2>5
<1>7. CASE ViewChanges
  <2>1. UNCHANGED <<disk, pnext, pindexBest, strayed>> /\ stage' = "idle" /\ stage = "idle"
    BY <1>7 DEF ViewChanges
  <2>2. strayed = "no" => SoundInv'
    BY <1>0, <2>1 DEF SoundInv
  <2> QED  BY <1>b, <2>1, <2>2
<1>8. CASE UNCHANGED vars
  <2>1. UNCHANGED <<disk, pnext, pindexBest, strayed, stage, goal, batch>>
    BY <1>8 DEF vars
  <2>2. SoundInv' <=> SoundInv
    BY <2>1 DEF SoundInv, Exact, IndexExact, SpentExact, InputsExact, NextExact
  <2> QED  BY <1>0, <1>b, <2>1, <2>2
<1> QED
  BY <1>1, <1>2, <1>3, <1>4, <1>5, <1>6, <1>7, <1>8
  DEF Next, SetBestChainStep, DisconnectFails, ConnectFails, StorageFails

LEMMA Invariance == Spec => []IInv
BY InitIInv, InvStep, PTL DEF Spec

-----------------------------------------------------------------------------
(* The theorems. *)

\* Every state of SetBestChain, of the database and of the open batch is well
\* formed.
THEOREM TypeCorrect == Spec => []TypeOK
<1>1. IInv => TypeOK
  BY DEF IInv
<1> QED  BY <1>1, Invariance, PTL

\* The database is at all times the replay of the chain to its hashBestChain
\* (ConnectBlock, DisconnectBlock, Reorganize, SetBestChain, restart), as long
\* as nothing was committed on top of a best block that is not connected.
THEOREM IndexIsReplay == Spec => []IndexMatchesChain
<1>1. IInv => IndexMatchesChain
  BY DEF IInv, IndexMatchesChain
<1> QED  BY <1>1, Invariance, PTL

LEMMA ExactIsValid ==
  ASSUME NEW db \in Database, Exact(db)
  PROVE  ValidChain(db.tip)
<1>0. /\ IndexExact(db) /\ SpentExact(db) /\ InputsExact(db)
      /\ db.tip \in Block /\ None \notin Block
      /\ Connected(db.tip) \subseteq Block
      /\ db.txIndex \in [Tx -> Block \cup {None}]
  BY TreeAssumption DEF Exact, Database, Connected
<1>a. \A c \in Connected(db.tip) : \A t \in Txs(c) : t \in Tx /\ db.txIndex[t] = c /\ c # None
  BY <1>0, TxsType DEF IndexExact
<1>1. NoDoubleSpend(db.tip)
  <2> SUFFICES ASSUME NEW c \in Connected(db.tip), NEW d \in Connected(db.tip),
                      NEW s \in Txs(c), NEW t \in Txs(d),
                      NEW o \in Inputs[s] \cap Inputs[t]
               PROVE  c = d /\ s = t
    BY DEF NoDoubleSpend
  <2>1. s \in Tx /\ t \in Tx /\ db.txIndex[s] = c /\ db.txIndex[t] = d
        /\ db.txIndex[s] # None /\ db.txIndex[t] # None
    BY <1>a
  <2>2. o \in Outpoint
    BY <2>1, TxAssumption
  <2>3. db.vSpent[o] = s /\ db.vSpent[o] = t
    BY <1>0, <2>1, <2>2 DEF SpentExact
  <2> QED  BY <2>1, <2>3
<1>2. InputsCreated(db.tip)
  <2> SUFFICES ASSUME NEW c \in Connected(db.tip), NEW t \in Txs(c), NEW o \in Inputs[t]
               PROVE  \E d \in Connected(c) :
                        /\ TxOf[o] \in Txs(d)
                        /\ TxOf[o] \in Generated => Height[c] - Height[d] >= Maturity
    BY DEF InputsCreated
  <2> DEFINE pos == db.txIndex[TxOf[o]]
  <2>1. t \in Tx /\ db.txIndex[t] = c /\ c # None
    BY <1>a
  <2>2. /\ pos # None /\ pos \in Chain[c]
        /\ TxOf[o] \in Generated => Height[c] - Height[pos] >= Maturity
    BY <1>0, <2>1 DEF InputsExact
  <2>3. TxOf[o] \in Tx /\ pos \in Block
    BY <1>0, <2>1, <2>2, TxAssumption
  <2>4. pos \in Connected(db.tip) /\ TxOf[o] \in Txs(pos)
    BY <1>0, <2>3 DEF IndexExact
  <2> QED  BY <2>2, <2>4 DEF Connected
<1> QED  BY <1>1, <1>2 DEF ValidChain

\* The chain that ConnectBlock and Reorganize have left on disk is valid: no
\* double spend, no missing input, no immature spend, on the whole chain.
THEOREM ChainIsValid == Spec => []BestChainValid
<1>1. IInv => BestChainValid
  <2> SUFFICES ASSUME IInv, strayed # "disk" PROVE ValidChain(disk.tip)
    BY DEF BestChainValid
  <2>1. disk \in Database /\ Exact(disk)
    BY DEF IInv, TypeOK
  <2> QED  BY <2>1, ExactIsValid
<1> QED  BY <1>1, Invariance, PTL

\* Below the tip of a chain every block has a child on the chain.
LEMMA ChildExists ==
  ASSUME NEW b \in Block, NEW a \in Chain[b], a # b
  PROVE  \E c \in Connected(b) : Parent[c] = a
<1> DEFINE A == {d \in Chain[b] : a \in Chain[d] /\ d # a}
           H == {Height[d] : d \in A}
<1>1. b \in A
  BY TreeAssumption
<1>2. A \subseteq Block /\ H \subseteq Nat /\ H # {}
  BY <1>1, HeightAssumption, TreeAssumption
<1>3. PICK x \in H : \A y \in H : x <= y
  <2> HIDE DEF H
  <2> QED  BY <1>2, MinPosition
<1>4. PICK d \in A : x = Height[d]
  BY <1>3
<1>5. d \in Block /\ d # Genesis
  BY <1>2, TreeAssumption
<1>6. Parent[d] \in Chain[b] /\ a \in Chain[Parent[d]]
  BY <1>5, ParentInChain, ChainStep
<1>7. Height[d] = Height[Parent[d]] + 1 /\ Height[Parent[d]] \in Nat
  BY <1>5, ChainStep, HeightAssumption
<1>8. Parent[d] \notin A
  <2>1. Parent[d] \in A => Height[d] <= Height[Parent[d]]
    BY <1>3, <1>4
  <2> QED  BY <1>7, <2>1
<1> QED  BY <1>5, <1>6, <1>8 DEF Connected

\* CBlockIndex::IsInMainChain tells the best chain from its side branches.
THEOREM MainChainIsBestChain == Spec => []MainChainPointers
<1>1. IInv => MainChainPointers
  <2> SUFFICES ASSUME IInv, stage = "idle", strayed = "no", NEW b \in Block
               PROVE  IsInMainChain(b) <=> b \in Chain[pindexBest]
    BY DEF MainChainPointers, IInv, TypeOK
  <2>1. /\ pindexBest = disk.tip /\ LinksExact /\ pindexBest \in Block
        /\ pnext \in [Block -> Block \cup {None}] /\ None \notin Block
    BY TreeAssumption DEF IInv, SoundInv, TypeOK
  <2>2. ASSUME pnext[b] # None PROVE b \in Chain[pindexBest]
    <3>1. PICK c \in Block : pnext[b] = c
      BY <2>1, <2>2
    <3>2. c \in Connected(pindexBest) /\ Parent[c] = b
      BY <2>1, <3>1 DEF LinksExact
    <3> QED  BY <2>1, <3>2, ParentInChain DEF Connected
  <2>3. ASSUME b \in Chain[pindexBest], b # pindexBest PROVE pnext[b] # None
    <3>1. PICK c \in Connected(pindexBest) : Parent[c] = b
      BY <2>1, <2>3, ChildExists
    <3>2. c \in Block
      BY <2>1, TreeAssumption DEF Connected
    <3> QED  BY <2>1, <3>1, <3>2 DEF LinksExact
  <2>4. pindexBest \in Chain[pindexBest]
    BY <2>1, TreeAssumption
  <2> QED  BY <2>2, <2>3, <2>4 DEF IsInMainChain
<1> QED  BY <1>1, Invariance, PTL

\* A committed batch replaces the chain on disk by one with more trust, even
\* after the best block has strayed; only the load after a restart goes back,
\* to just below the lowest of the blocks it refuses.
THEOREM TrustOnlyGrows == Spec => TrustGrows
<1> DEFINE A == disk'.tip # disk.tip => \/ ChainTrust[disk'.tip] > ChainTrust[disk.tip]
                                        \/ BelowRefused(disk.tip, disk'.tip)
<1>1. IInv /\ [Next]_vars => [A]_vars
  <2> SUFFICES ASSUME IInv, Next, disk' # disk PROVE A
    OBVIOUS
  <2>1. TxnCommit
    BY DEF Next, SetBestChainStep, AddToBlockIndex, DisconnectBlock, ConnectBlock,
           DisconnectFails, ConnectFails, StorageFails, GiveUp, Restart, ViewChanges
  <2>2. disk'.tip = goal /\ stage # "idle"
    BY <2>1 DEF TxnCommit
  <2>3. /\ goal \in Block /\ disk.tip \in Block /\ pindexBest \in Block
        /\ \A b \in Block : ChainTrust[b] \in Nat
    BY <2>2, HeightAssumption DEF IInv, TypeOK, Database
  <2>4. CASE stage = "reorganize"
    <3>1. /\ \/ ChainTrust[goal] > ChainTrust[pindexBest]
             \/ BelowRefused(disk.tip, goal)
          /\ ChainTrust[disk.tip] <= ChainTrust[pindexBest]
      BY <2>4 DEF IInv, StageInv
    <3>2. CASE BelowRefused(disk.tip, goal)
      BY <2>2, <3>2
    <3>3. CASE ChainTrust[goal] > ChainTrust[pindexBest]
      BY <2>2, <2>3, <3>1, <3>3
    <3> QED  BY <3>1, <3>2, <3>3
  <2>5. CASE stage = "postponed"
    <3>1. goal # Genesis /\ Parent[goal] = disk.tip
      BY <2>5 DEF IInv, StageInv
    <3>2. ChainTrust[disk.tip] < ChainTrust[goal]
      BY <2>3, <3>1, ChainTrustStep
    <3> QED  BY <2>2, <2>3, <3>2
  <2> QED  BY <2>2, <2>4, <2>5 DEF IInv, TypeOK
<1> QED  BY <1>1, Invariance, PTL DEF Spec, TrustGrows
=============================================================================
