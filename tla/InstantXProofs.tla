--------------------------- MODULE InstantXProofs ---------------------------
(***************************************************************************)
(* Proofs about InstantX, for any transactions, masternodes, quorum and    *)
(* lifetime.                                                               *)
(*                                                                         *)
(* Inv adds to the properties what makes them inductive: every vote a lock *)
(* holds is one mapTxLockVote remembers, so it cannot be counted again;    *)
(* and a transaction that an input is locked for has its request in        *)
(* mapTxLockReq, so CleanTransactionLocksList releases the input together  *)
(* with the lock.                                                          *)
(***************************************************************************)
EXTENDS InstantX, FiniteSetTheorems, TLAPS

\* Votes are counted once because they are remembered.
VotesSeen ==
  \A t \in Tx : HasLock(t) =>
    \A i \in DOMAIN mapTxLocks[t].votes : <<mapTxLocks[t].votes[i].mn, t>> \in mapTxLockVote

\* An input is locked for a transaction that spends it, which has its request
\* and a complete lock unless the pool refused it.
Earned ==
  \A o \in Outpoint : LET t == mapLockedInputs[o]
                      IN  t # None =>
                            /\ o \in Inputs[t]
                            /\ t \in refused \/ (t \in mapTxLockReq /\ Complete(mapTxLocks[t]))

Inv == TypeOK /\ OneVotePerMasternode /\ VotesSeen /\ Earned

-----------------------------------------------------------------------------
(* Locks. *)

\* A lock that counts at least the votes of a complete one, for the same
\* height, is complete.
LEMMA CompleteGrows ==
  ASSUME NEW lock \in Lock, NEW more \in Lock, Complete(lock),
         more.nBlockHeight = lock.nBlockHeight,
         Counted(lock) \subseteq Counted(more)
  PROVE  Complete(more)
<1>1. more.votes \in Seq(Vote)
  BY DEF Lock
<1>2. Counted(more) \subseteq 1..Len(more.votes) /\ Len(more.votes) \in Nat
  BY <1>1 DEF Counted
<1>3. IsFiniteSet(Counted(more))
  <2>1. IsFiniteSet(1..Len(more.votes))
    BY <1>2, FS_Interval
  <2> QED BY <1>2, <2>1, FS_Subset
<1>4. Cardinality(Counted(lock)) <= Cardinality(Counted(more))
  BY <1>3, FS_Subset
<1>5. Cardinality(Counted(lock)) \in Nat /\ Cardinality(Counted(more)) \in Nat
  BY <1>3, FS_Subset, FS_CardinalityType
<1>6. more # None
  BY InstantXAssumption
<1> QED BY <1>4, <1>5, <1>6, InstantXAssumption DEF Complete

\* A vote more, and a complete lock stays complete.
LEMMA VoteKeepsComplete ==
  ASSUME NEW lock \in Lock, NEW v \in Vote
  PROVE  LET more == [lock EXCEPT !.votes = Append(@, v)]
         IN  more \in Lock /\ (Complete(lock) => Complete(more))
<1> DEFINE more == [lock EXCEPT !.votes = Append(@, v)]
<1>1. /\ lock.votes \in Seq(Vote)
      /\ more.votes = Append(lock.votes, v)
      /\ more.nBlockHeight = lock.nBlockHeight
  BY DEF Lock
<1>2. more \in Lock
  <2>1. Append(lock.votes, v) \in Seq(Vote)
    BY <1>1
  <2> QED BY <2>1 DEF Lock
<1>3. Counted(lock) \subseteq Counted(more)
  BY <1>1 DEF Counted
<1> QED BY <1>1, <1>2, <1>3, CompleteGrows

\* The time left does not matter.
LEMMA TimeKeepsComplete ==
  ASSUME NEW lock \in Lock, NEW n \in -1..Lifetime
  PROVE  LET later == [lock EXCEPT !.left = n]
         IN  /\ later \in Lock /\ later.votes = lock.votes
             /\ (Complete(lock) => Complete(later))
<1> DEFINE later == [lock EXCEPT !.left = n]
<1>1. /\ later \in Lock /\ later.votes = lock.votes
      /\ later.nBlockHeight = lock.nBlockHeight
  BY DEF Lock
<1>2. Counted(lock) \subseteq Counted(later)
  BY <1>1 DEF Counted
<1> QED BY <1>1, <1>2, CompleteGrows

-----------------------------------------------------------------------------
(* Steps. *)

\* The typing of each map.
LEMMA LockTyped ==
  ASSUME TypeOK, NEW t \in Tx
  PROVE  /\ HasLock(t) => mapTxLocks[t] \in Lock
         /\ HasLock(t) => mapTxLocks[t].votes \in Seq(Vote)
  BY DEF TypeOK, HasLock, Lock

\* A step that adds no vote to a lock and forgets no vote.
LEMMA VotesFrame ==
  ASSUME OneVotePerMasternode, VotesSeen, mapTxLockVote \subseteq mapTxLockVote',
         \A t \in Tx : HasLock(t)' =>
           \/ mapTxLocks'[t].votes = <<>>
           \/ HasLock(t) /\ mapTxLocks'[t].votes = mapTxLocks[t].votes
  PROVE  OneVotePerMasternode' /\ VotesSeen'
  BY DEF OneVotePerMasternode, VotesSeen

\* A step that keeps requests and complete locks, and locks inputs only for
\* refused transactions or for complete locks.
LEMMA EarnedFrame ==
  ASSUME Earned, refused \subseteq refused', mapTxLockReq \subseteq mapTxLockReq',
         \A t \in mapTxLockReq : Complete(mapTxLocks[t]) => Complete(mapTxLocks'[t]),
         \A o \in Outpoint :
           \/ mapLockedInputs'[o] = mapLockedInputs[o]
           \/ /\ o \in Inputs[mapLockedInputs'[o]]
              /\ \/ mapLockedInputs'[o] \in refused'
                 \/ mapLockedInputs'[o] \in mapTxLockReq' /\ Complete(mapTxLocks'[mapLockedInputs'[o]])
  PROVE  Earned'
<1> SUFFICES ASSUME NEW o \in Outpoint, mapLockedInputs'[o] # None
             PROVE  /\ o \in Inputs[mapLockedInputs'[o]]
                    /\ \/ mapLockedInputs'[o] \in refused'
                       \/ /\ mapLockedInputs'[o] \in mapTxLockReq'
                          /\ Complete(mapTxLocks'[mapLockedInputs'[o]])
  BY DEF Earned
<1>1. CASE mapLockedInputs'[o] = mapLockedInputs[o]
  <2> DEFINE t == mapLockedInputs[o]
  <2>1. o \in Inputs[t] /\ (t \in refused \/ (t \in mapTxLockReq /\ Complete(mapTxLocks[t])))
    BY <1>1 DEF Earned
  <2> QED  BY <1>1, <2>1
<1>2. CASE mapLockedInputs'[o] # mapLockedInputs[o]
  BY <1>2
<1> QED  BY <1>1, <1>2

\* The state after the process has stopped.
LEMMA StopsInv ==
  ASSUME Stops PROVE Inv'
<1>1. \A t \in Tx : ~HasLock(t)'
  BY DEF Stops, HasLock
<1>2. TypeOK'
  BY DEF Stops, TypeOK
<1> QED BY <1>1, <1>2 DEF Stops, Inv, OneVotePerMasternode, VotesSeen, Earned

\* CreateNewLock changes the height of a lock or makes one without votes.
LEMMA CreateNewLockEffect ==
  ASSUME TypeOK, NEW t \in Tx, NEW h \in BlockHeight, CreateNewLock(t, h)
  PROVE  /\ mapTxLocks' \in [Tx -> Lock \cup {None}]
         /\ \A u \in Tx \ {t} : mapTxLocks'[u] = mapTxLocks[u]
         /\ \A u \in Tx : HasLock(u)' =>
              \/ mapTxLocks'[u].votes = <<>>
              \/ HasLock(u) /\ mapTxLocks'[u].votes = mapTxLocks[u].votes
<1>1. NewLock(h) \in Lock /\ NewLock(h).votes = <<>>
  BY InstantXAssumption DEF NewLock, Lock
<1>2. HasLock(t) => [mapTxLocks[t] EXCEPT !.nBlockHeight = h] \in Lock
  BY LockTyped DEF Lock
<1>3. HasLock(t) => [mapTxLocks[t] EXCEPT !.nBlockHeight = h].votes = mapTxLocks[t].votes
  BY LockTyped DEF Lock
<1>4. CASE h = 0
  BY <1>4 DEF CreateNewLock, TypeOK, HasLock
<1>5. CASE h # 0 /\ HasLock(t)
  BY <1>2, <1>3, <1>5 DEF CreateNewLock, TypeOK, HasLock
<1>6. CASE h # 0 /\ ~HasLock(t)
  BY <1>1, <1>6 DEF CreateNewLock, TypeOK, HasLock
<1> QED BY <1>4, <1>5, <1>6

\* CheckForConflictingLocks changes only the time that locks have left.
LEMMA CancelledEffect ==
  ASSUME NEW locks \in [Tx -> Lock \cup {None}], NEW t \in Tx, NEW o
  PROVE  /\ Cancelled(locks, t, o) \in [Tx -> Lock \cup {None}]
         /\ \A u \in Tx :
              /\ Cancelled(locks, t, o)[u] = None <=> locks[u] = None
              /\ locks[u] # None => Cancelled(locks, t, o)[u].votes = locks[u].votes
              /\ Complete(locks[u]) => Complete(Cancelled(locks, t, o)[u])
<1>1. ASSUME NEW u \in Tx
      PROVE  /\ Cancelled(locks, t, o)[u] \in Lock \cup {None}
             /\ Cancelled(locks, t, o)[u] = None <=> locks[u] = None
             /\ locks[u] # None => Cancelled(locks, t, o)[u].votes = locks[u].votes
             /\ Complete(locks[u]) => Complete(Cancelled(locks, t, o)[u])
  <2>1. CASE u \in {t, mapLockedInputs[o]} /\ locks[u] # None
    <3>1. locks[u] \in Lock /\ 0 \in -1..Lifetime
      BY <2>1, InstantXAssumption
    <3>2. Cancelled(locks, t, o)[u] = [locks[u] EXCEPT !.left = 0]
      BY <2>1 DEF Cancelled
    <3>3. /\ [locks[u] EXCEPT !.left = 0] \in Lock
          /\ [locks[u] EXCEPT !.left = 0].votes = locks[u].votes
          /\ Complete(locks[u]) => Complete([locks[u] EXCEPT !.left = 0])
      BY <3>1, TimeKeepsComplete
    <3> QED BY <2>1, <3>2, <3>3, InstantXAssumption
  <2>2. CASE ~(u \in {t, mapLockedInputs[o]} /\ locks[u] # None)
    BY <2>2 DEF Cancelled
  <2> QED BY <2>1, <2>2
<1> QED BY <1>1 DEF Cancelled

-----------------------------------------------------------------------------
(* One lemma for the actions that need more than the frames. *)

\* A request, refused by the pool.
LEMMA RefuseRequestInv ==
  ASSUME Inv, RefuseRequest PROVE Inv'
<1> USE DEF Inv
<1> DEFINE t == request.tx
<1>1. t \in Tx
  BY DEF RefuseRequest, TypeOK, Request
<1>2. CASE /\ mapTxLockReqRejected' = mapTxLockReqRejected \cup {t}
           /\ refused' = refused \cup {t}
           /\ mapLockedInputs' = WithInputsLocked(t)
           /\ IF Complete(mapTxLocks[t]) /\ Conflicting(t) # {}
              THEN \E o \in Conflicting(t) : mapTxLocks' = Cancelled(mapTxLocks, t, o)
              ELSE UNCHANGED mapTxLocks
           /\ request' = None
           /\ UNCHANGED <<mapTxLockReq, mapTxLockVote, mempool, stopped>>
  <2>1. mapTxLocks \in [Tx -> Lock \cup {None}]
    BY DEF TypeOK
  <2>2. /\ mapTxLocks' \in [Tx -> Lock \cup {None}]
        /\ \A u \in Tx :
             /\ mapTxLocks'[u] = None <=> mapTxLocks[u] = None
             /\ mapTxLocks[u] # None => mapTxLocks'[u].votes = mapTxLocks[u].votes
             /\ Complete(mapTxLocks[u]) => Complete(mapTxLocks'[u])
    <3>1. CASE UNCHANGED mapTxLocks
      BY <2>1, <3>1
    <3>2. CASE \E o \in Conflicting(t) : mapTxLocks' = Cancelled(mapTxLocks, t, o)
      BY <1>1, <2>1, <3>2, CancelledEffect
    <3> QED BY <1>2, <3>1, <3>2
  <2>3. mapLockedInputs' \in [Outpoint -> Tx \cup {None}]
    BY <1>1, <1>2 DEF TypeOK, WithInputsLocked
  <2>4. TypeOK'
    BY <1>1, <1>2, <2>2, <2>3 DEF TypeOK
  <2>5. \A u \in Tx : HasLock(u)' => HasLock(u) /\ mapTxLocks'[u].votes = mapTxLocks[u].votes
    BY <2>2 DEF HasLock
  <2>6. OneVotePerMasternode' /\ VotesSeen'
    BY <1>2, <2>5, VotesFrame
  <2>7. \A o \in Outpoint :
          \/ mapLockedInputs'[o] = mapLockedInputs[o]
          \/ o \in Inputs[mapLockedInputs'[o]] /\ mapLockedInputs'[o] \in refused'
    BY <1>2 DEF WithInputsLocked
  <2>8. \A u \in mapTxLockReq : Complete(mapTxLocks[u]) => Complete(mapTxLocks'[u])
    BY <2>2 DEF TypeOK
  <2>9. Earned'
    BY <1>2, <2>7, <2>8, EarnedFrame
  <2> QED BY <2>4, <2>6, <2>9
<1> QED BY <1>2, StopsInv DEF RefuseRequest

\* A vote, counted.
LEMMA CountVoteInv ==
  ASSUME Inv, NEW m \in Masternode, NEW t \in Tx, NEW h \in BlockHeight, CountVote(m, t, h)
  PROVE  Inv'
<1> USE DEF Inv
<1> DEFINE old   == IF HasLock(t) THEN mapTxLocks[t] ELSE NewLock(0)
           v     == [mn |-> m, height |-> h]
           lock  == [old EXCEPT !.votes = Append(@, v)]
           locks == [mapTxLocks EXCEPT ![t] = lock]
<1>1. old \in Lock /\ v \in Vote
  <2>1. NewLock(0) \in Lock
    BY InstantXAssumption DEF NewLock, Lock
  <2>2. HasLock(t) => mapTxLocks[t] \in Lock
    BY LockTyped
  <2>3. v \in Vote
    BY DEF Vote
  <2> QED BY <2>1, <2>2, <2>3
<1>2. /\ lock \in Lock
      /\ Complete(old) => Complete(lock)
      /\ old.votes \in Seq(Vote)
      /\ lock.votes = Append(old.votes, v)
  BY <1>1, VoteKeepsComplete DEF Lock
<1>3. old.votes = <<>> \/ (HasLock(t) /\ old.votes = mapTxLocks[t].votes)
  BY DEF NewLock
<1> HIDE DEF old, v, lock
<1>4. mapTxLocks \in [Tx -> Lock \cup {None}]
  BY DEF TypeOK
<1>5. /\ locks \in [Tx -> Lock \cup {None}]
      /\ locks[t] = lock
      /\ \A u \in Tx \ {t} : locks[u] = mapTxLocks[u]
  BY <1>2, <1>4
<1>6. \A u \in Tx : Complete(mapTxLocks[u]) => Complete(locks[u])
  BY <1>2, <1>5 DEF old, Complete, HasLock
<1>7. CASE /\ mapTxLockVote' = mapTxLockVote \cup {<<m, t>>}
           /\ \/ /\ ~Complete(lock)
                 /\ mapTxLocks' = locks
                 /\ UNCHANGED mapLockedInputs
              \/ /\ Complete(lock) /\ t \in mapTxLockReq
                 /\ IF Conflicting(t) # {}
                    THEN /\ \E o \in Conflicting(t) : mapTxLocks' = Cancelled(locks, t, o)
                         /\ UNCHANGED mapLockedInputs
                    ELSE /\ mapTxLocks' = locks
                         /\ mapLockedInputs' = WithInputsLocked(t)
           /\ UNCHANGED <<mapTxLockReq, mapTxLockReqRejected, mempool, request, stopped, refused>>
  <2>1. /\ mapTxLocks' \in [Tx -> Lock \cup {None}]
        /\ \A u \in Tx :
             /\ mapTxLocks'[u] = None <=> locks[u] = None
             /\ locks[u] # None => mapTxLocks'[u].votes = locks[u].votes
             /\ Complete(locks[u]) => Complete(mapTxLocks'[u])
    <3>1. CASE mapTxLocks' = locks
      BY <1>5, <3>1
    <3>2. CASE \E o \in Conflicting(t) : mapTxLocks' = Cancelled(locks, t, o)
      <4>1. PICK o \in Conflicting(t) : mapTxLocks' = Cancelled(locks, t, o)
        BY <3>2
      <4> HIDE DEF locks
      <4> QED BY <1>5, <4>1, CancelledEffect
    <3> QED BY <1>7, <3>1, <3>2
  <2>2. mapLockedInputs' \in [Outpoint -> Tx \cup {None}]
    BY <1>7 DEF TypeOK, WithInputsLocked
  <2>3. TypeOK'
    BY <1>7, <2>1, <2>2 DEF TypeOK
  <2>4. <<m, t>> \notin mapTxLockVote
    BY DEF CountVote, NewVote
  <2>5. \A i \in DOMAIN old.votes : <<old.votes[i].mn, t>> \in mapTxLockVote
    BY <1>1, <1>3 DEF VotesSeen
  <2>6. \A i, j \in DOMAIN old.votes : old.votes[i].mn = old.votes[j].mn => i = j
    BY <1>1, <1>3 DEF OneVotePerMasternode
  <2>7. mapTxLocks'[t].votes = Append(old.votes, v) /\ v.mn = m
    BY <1>2, <1>5, <2>1, InstantXAssumption DEF v
  <2>8. \A u \in Tx \ {t} : HasLock(u)' => HasLock(u) /\ mapTxLocks'[u].votes = mapTxLocks[u].votes
    BY <1>5, <2>1 DEF HasLock
  <2>9. \A i \in DOMAIN Append(old.votes, v) :
          \/ i \in DOMAIN old.votes /\ Append(old.votes, v)[i] = old.votes[i]
          \/ i = Len(old.votes) + 1 /\ Append(old.votes, v)[i] = v
    BY <1>1, <1>2
  <2>10. VotesSeen'
    BY <1>7, <2>5, <2>7, <2>8, <2>9 DEF VotesSeen
  <2>11. OneVotePerMasternode'
    <3> DEFINE ext == Append(old.votes, v)
    <3>1. \A i, j \in DOMAIN ext : ext[i].mn = ext[j].mn => i = j
      BY <2>4, <2>5, <2>6, <2>7, <2>9
    <3>2. \A i, j \in DOMAIN mapTxLocks'[t].votes :
            mapTxLocks'[t].votes[i].mn = mapTxLocks'[t].votes[j].mn => i = j
      BY <2>7, <3>1
    <3> QED BY <2>8, <3>2 DEF OneVotePerMasternode
  <2>12. \A o \in Outpoint :
           \/ mapLockedInputs'[o] = mapLockedInputs[o]
           \/ /\ mapLockedInputs'[o] = t /\ o \in Inputs[t]
              /\ t \in mapTxLockReq /\ Complete(mapTxLocks'[t])
    BY <1>5, <1>7, <2>1 DEF WithInputsLocked
  <2>13. \A u \in mapTxLockReq : Complete(mapTxLocks[u]) => Complete(mapTxLocks'[u])
    BY <1>6, <2>1 DEF TypeOK
  <2>14. Earned'
    BY <1>7, <2>12, <2>13, EarnedFrame
  <2> QED BY <2>3, <2>10, <2>11, <2>14
<1> QED BY <1>7, StopsInv DEF CountVote, old, v, lock

\* CleanTransactionLocksList.
LEMMA CleanInv ==
  ASSUME Inv, Clean PROVE Inv'
<1> USE DEF Inv
<1> DEFINE known == Expired \cap mapTxLockReq
<1>1. /\ mapLockedInputs' = [o \in Outpoint |-> IF o \in Released(known) THEN None
                                                ELSE mapLockedInputs[o]]
      /\ mapTxLockReq' = mapTxLockReq \ known
      /\ mapTxLockReqRejected' = mapTxLockReqRejected \ known
      /\ mapTxLockVote' = mapTxLockVote \ VotesOf(known)
      /\ mapTxLocks' = [t \in Tx |-> IF t \in Expired THEN None ELSE mapTxLocks[t]]
      /\ UNCHANGED <<mempool, request, stopped, refused>>
  BY DEF Clean
<1>2. TypeOK'
  BY <1>1 DEF TypeOK
<1>3. \A t \in Tx : HasLock(t)' => t \notin Expired /\ HasLock(t) /\ mapTxLocks'[t] = mapTxLocks[t]
  BY <1>1 DEF HasLock
<1>4. \A m, t : <<m, t>> \in VotesOf(known) => t \in Expired
  BY DEF VotesOf
<1>5. OneVotePerMasternode'
  BY <1>3 DEF OneVotePerMasternode
<1>6. VotesSeen'
  BY <1>1, <1>3, <1>4 DEF VotesSeen
<1>7. ASSUME NEW o \in Outpoint, NEW t, t = mapLockedInputs'[o], t # None
      PROVE  /\ o \in Inputs[t]
             /\ t \in refused' \/ (t \in mapTxLockReq' /\ Complete(mapTxLocks'[t]))
  <2>1. o \notin Released(known) /\ t = mapLockedInputs[o] /\ refused' = refused
    BY <1>1, <1>7
  <2>2. t \in Tx /\ o \in Inputs[t] /\ (t \in refused \/ (t \in mapTxLockReq /\ Complete(mapTxLocks[t])))
    BY <1>7, <2>1 DEF Earned, TypeOK
  <2>3. t \notin known
    BY <2>1, <2>2 DEF Released
  <2> QED BY <1>1, <2>1, <2>2, <2>3
<1> QED BY <1>2, <1>5, <1>6, <1>7 DEF Earned, Complete, Counted

-----------------------------------------------------------------------------
(* The invariant. *)

\* Every step keeps the invariant.
LEMMA InvStep ==
  ASSUME Inv, [Next]_vars PROVE Inv'
<1> USE DEF Inv
<1>1. ASSUME NEW t \in Tx, NEW h \in BlockHeight, ReceiveRequest(t, h) PROVE Inv'
  <2>1. /\ CreateNewLock(t, h) /\ t \notin mapTxLockReq
        /\ request' = [tx |-> t, height |-> h]
        /\ UNCHANGED <<mapTxLockReq, mapTxLockReqRejected, mapTxLockVote, mapLockedInputs,
                       mempool, stopped, refused>>
    BY <1>1 DEF ReceiveRequest
  <2>2. /\ mapTxLocks' \in [Tx -> Lock \cup {None}]
        /\ \A u \in Tx \ {t} : mapTxLocks'[u] = mapTxLocks[u]
        /\ \A u \in Tx : HasLock(u)' =>
             \/ mapTxLocks'[u].votes = <<>>
             \/ HasLock(u) /\ mapTxLocks'[u].votes = mapTxLocks[u].votes
    BY <2>1, CreateNewLockEffect
  <2>3. TypeOK'
    BY <2>1, <2>2 DEF TypeOK, Request
  <2>4. OneVotePerMasternode' /\ VotesSeen'
    BY <2>1, <2>2, VotesFrame
  <2>5. \A u \in mapTxLockReq : Complete(mapTxLocks[u]) => Complete(mapTxLocks'[u])
    BY <2>1, <2>2 DEF TypeOK
  <2>6. Earned'
    BY <2>1, <2>5, EarnedFrame
  <2> QED BY <2>3, <2>4, <2>6
<1>2. ASSUME NEW votes \in BOOLEAN, AcceptRequest(votes) PROVE Inv'
  <2>1. /\ request # None /\ (votes => Self # None)
        /\ mempool' = mempool \cup {request.tx}
        /\ mapTxLockReq' = mapTxLockReq \cup {request.tx}
        /\ mapTxLockVote' = IF votes THEN mapTxLockVote \cup {<<Self, request.tx>>} ELSE mapTxLockVote
        /\ request' = None
        /\ UNCHANGED <<mapTxLockReqRejected, mapTxLocks, mapLockedInputs, stopped, refused>>
    BY <1>2 DEF AcceptRequest
  <2>2. request.tx \in Tx
    BY <2>1 DEF TypeOK, Request
  <2>3. TypeOK'
    BY <2>1, <2>2, InstantXAssumption DEF TypeOK
  <2>4. OneVotePerMasternode' /\ VotesSeen'
    BY <2>1, VotesFrame DEF HasLock
  <2>5. Earned'
    BY <2>1, EarnedFrame
  <2> QED BY <2>3, <2>4, <2>5
<1>3. ASSUME NEW m \in Doubtful, NEW t \in Tx, RefuseVote(m, t) PROVE Inv'
  <2>1. /\ mapTxLockVote' = mapTxLockVote \cup {<<m, t>>}
        /\ UNCHANGED <<mapTxLockReq, mapTxLockReqRejected, mapTxLocks, mapLockedInputs, mempool,
                       request, stopped, refused>>
    BY <1>3 DEF RefuseVote
  <2>2. TypeOK'
    BY <2>1, InstantXAssumption DEF TypeOK
  <2>3. OneVotePerMasternode' /\ VotesSeen'
    BY <2>1, VotesFrame DEF HasLock
  <2>4. Earned'
    BY <2>1, EarnedFrame
  <2> QED BY <2>2, <2>3, <2>4
<1>4. ASSUME NEW t \in Own, NEW h \in BlockHeight, RequestByWallet(t, h) PROVE Inv'
  <2>1. /\ ~Complete(mapTxLocks[t])
        /\ mapTxLockReq' = mapTxLockReq \cup {t}
        /\ CreateNewLock(t, h)
        /\ UNCHANGED <<mapTxLockReqRejected, mapTxLockVote, mapLockedInputs, mempool, request,
                       stopped, refused>>
        /\ t \in Tx
    BY <1>4, InstantXAssumption DEF RequestByWallet
  <2>2. /\ mapTxLocks' \in [Tx -> Lock \cup {None}]
        /\ \A u \in Tx \ {t} : mapTxLocks'[u] = mapTxLocks[u]
        /\ \A u \in Tx : HasLock(u)' =>
             \/ mapTxLocks'[u].votes = <<>>
             \/ HasLock(u) /\ mapTxLocks'[u].votes = mapTxLocks[u].votes
    BY <2>1, CreateNewLockEffect
  <2>3. TypeOK'
    BY <2>1, <2>2 DEF TypeOK
  <2>4. OneVotePerMasternode' /\ VotesSeen'
    BY <2>1, <2>2, VotesFrame
  <2>5. \A u \in mapTxLockReq : Complete(mapTxLocks[u]) => Complete(mapTxLocks'[u])
    BY <2>1, <2>2 DEF TypeOK
  <2>6. Earned'
    BY <2>1, <2>5, EarnedFrame
  <2> QED BY <2>3, <2>4, <2>6
<1>5. ASSUME Tick PROVE Inv'
  <2>1. /\ mapTxLocks' = [t \in Tx |->
             IF HasLock(t) /\ mapTxLocks[t].left >= 0
             THEN [mapTxLocks[t] EXCEPT !.left = mapTxLocks[t].left - 1] ELSE mapTxLocks[t]]
        /\ UNCHANGED <<mapTxLockReq, mapTxLockReqRejected, mapTxLockVote, mapLockedInputs, mempool,
                       request, stopped, refused>>
    BY <1>5 DEF Tick
  <2>2. ASSUME NEW t \in Tx
        PROVE  /\ mapTxLocks'[t] \in Lock \cup {None}
               /\ HasLock(t)' => HasLock(t) /\ mapTxLocks'[t].votes = mapTxLocks[t].votes
               /\ Complete(mapTxLocks[t]) => Complete(mapTxLocks'[t])
    <3>1. CASE HasLock(t) /\ mapTxLocks[t].left >= 0
      <4>1. mapTxLocks[t] \in Lock
        BY <3>1, LockTyped
      <4>2. mapTxLocks[t].left - 1 \in -1..Lifetime
        BY <3>1, <4>1, InstantXAssumption DEF Lock
      <4> QED BY <2>1, <3>1, <4>1, <4>2, TimeKeepsComplete DEF HasLock
    <3>2. CASE ~(HasLock(t) /\ mapTxLocks[t].left >= 0)
      BY <2>1, <3>2 DEF HasLock, TypeOK
    <3> QED BY <3>1, <3>2
  <2>3. TypeOK'
    BY <2>1, <2>2 DEF TypeOK
  <2>4. OneVotePerMasternode' /\ VotesSeen'
    BY <2>1, <2>2, VotesFrame
  <2>5. \A u \in mapTxLockReq : Complete(mapTxLocks[u]) => Complete(mapTxLocks'[u])
    BY <2>2 DEF TypeOK
  <2>6. Earned'
    BY <2>1, <2>5, EarnedFrame
  <2> QED BY <2>3, <2>4, <2>6
<1>6. ASSUME NEW t \in Tx, PoolChanges(t) PROVE Inv'
  BY <1>6 DEF PoolChanges, TypeOK, lockVars, OneVotePerMasternode, VotesSeen, Earned, HasLock,
              Complete, Counted
<1>7. ASSUME Restart PROVE Inv'
  BY <1>7 DEF Restart, TypeOK, lockVars, OneVotePerMasternode, VotesSeen, Earned, HasLock,
              Complete, Counted
<1>8. ASSUME UNCHANGED vars PROVE Inv'
  BY <1>8 DEF vars, TypeOK, lockVars, OneVotePerMasternode, VotesSeen, Earned, HasLock,
              Complete, Counted
<1> QED BY <1>1, <1>2, <1>3, <1>4, <1>5, <1>6, <1>7, <1>8, RefuseRequestInv, CountVoteInv, CleanInv
        DEF Next

\* The invariant holds in every reachable state.
LEMMA Invariance == Spec => []Inv
<1>1. Init => Inv
  BY InstantXAssumption DEF Init, Inv, TypeOK, OneVotePerMasternode, VotesSeen, Earned, HasLock
<1> QED BY <1>1, InvStep, PTL DEF Spec

\* TypeOK holds in every reachable state, whatever the numbers of
\* transactions, masternodes and heights.
THEOREM TypeCorrect == Spec => []TypeOK
<1>1. Inv => TypeOK
  BY DEF Inv
<1> QED BY <1>1, Invariance, PTL

\* A lock never counts a masternode twice (mapTxLockVote and CTransactionLock
\* agree through requests, votes and CleanTransactionLocksList).
THEOREM VotesCountedOnce == Spec => []OneVotePerMasternode
<1>1. Inv => OneVotePerMasternode
  BY DEF Inv
<1> QED BY <1>1, Invariance, PTL

\* An input is locked only for a complete lock or for a request that the pool
\* refused (ProcessConsensusVote and the refusal branch of "txlreq").
THEOREM LocksAreEarned == Spec => []LocksEarned
<1>1. Inv => LocksEarned
  BY DEF Inv, Earned, LocksEarned
<1> QED BY <1>1, Invariance, PTL

\* A locked input is never handed from one transaction to another, and only
\* CleanTransactionLocksList releases it: for a transaction that spends it
\* and whose lock has expired.
THEOREM LocksReleasedByExpiry == Spec => ReleasedByExpiry
<1>1. Next => ReleaseStep
  <2> SUFFICES ASSUME Next, NEW o \in Outpoint, mapLockedInputs[o] # None,
                      mapLockedInputs'[o] # mapLockedInputs[o], ~stopped'
               PROVE  \E t \in Tx : o \in Inputs[t] /\ HasLock(t) /\ mapTxLocks[t].left < 0
    BY DEF ReleaseStep
  <2>1. ASSUME NEW t \in Tx PROVE WithInputsLocked(t)[o] = mapLockedInputs[o]
    BY DEF WithInputsLocked
  <2>2. ASSUME RefuseRequest PROVE FALSE
    BY <2>2 DEF RefuseRequest, Stops, WithInputsLocked
  <2>3. ASSUME NEW m \in Masternode, NEW t \in Tx, NEW h \in BlockHeight, CountVote(m, t, h)
        PROVE  FALSE
    BY <2>1, <2>3 DEF CountVote, Stops
  <2>4. ASSUME \/ \E t \in Tx, h \in BlockHeight : ReceiveRequest(t, h)
               \/ \E votes \in BOOLEAN : AcceptRequest(votes)
               \/ \E m \in Doubtful, t \in Tx : RefuseVote(m, t)
               \/ \E t \in Own, h \in BlockHeight : RequestByWallet(t, h)
               \/ Tick
               \/ \E t \in Tx : PoolChanges(t)
               \/ Restart
        PROVE  FALSE
    BY <2>4 DEF ReceiveRequest, AcceptRequest, RefuseVote, RequestByWallet, Tick, PoolChanges,
                Restart, lockVars
  <2>5. ASSUME Clean
        PROVE  \E t \in Tx : o \in Inputs[t] /\ HasLock(t) /\ mapTxLocks[t].left < 0
    <3>1. o \in Released(Expired \cap mapTxLockReq)
      BY <2>5 DEF Clean
    <3> QED BY <3>1 DEF Released, Expired
  <2> QED BY <2>2, <2>3, <2>4, <2>5 DEF Next
<1> QED BY <1>1, PTL DEF Spec, ReleasedByExpiry
=============================================================================
