------------------------------ MODULE InstantX ------------------------------
(***************************************************************************)
(* Transaction locks (instantx.cpp): a lock request "txlreq", the votes    *)
(* "txlvote" of masternodes, the inputs a lock holds against other         *)
(* transactions, and CleanTransactionLocksList.                            *)
(*                                                                         *)
(* The message thread, the thread that cleans and the wallet's RPC thread  *)
(* share the maps and take no common lock.  A handler is one step, except  *)
(* that "txlreq" waits for cs_main between CreateNewLock and               *)
(* AcceptToMemoryPool.                                                     *)
(*                                                                         *)
(* Time is the time a lock has left: nExpiration - GetTime(), down to -1   *)
(* for a lock that has expired.  Whether a masternode is known, ranked and *)
(* its signature good when its vote arrives is the environment's choice,   *)
(* as is whether the inputs of a transaction are old enough.  Left out:    *)
(* mapUnknownVotes, which only decides about relaying, and the wallet's    *)
(* counters.                                                               *)
(***************************************************************************)
EXTENDS Integers, Sequences, FiniteSets

CONSTANTS
  Tx, Outpoint,
  Inputs,       \* the prevouts of a transaction
  Masternode,
  Doubtful,     \* masternodes that may be unknown, lowly ranked or badly signing
  Self,         \* the node's own masternode; None on a node that is not one
  Own,          \* transactions of the node's wallet
  BlockHeight,  \* heights a lock or a vote may be for; 0 when inputs are too new
  Required,     \* INSTANTX_SIGNATURES_REQUIRED
  Lifetime,     \* how long a lock lives, in ticks of the clock
  None

Vote == [mn : Masternode, height : BlockHeight]
Lock == [nBlockHeight : BlockHeight, votes : Seq(Vote), left : -1..Lifetime]
Request == [tx : Tx, height : BlockHeight]

ASSUME InstantXAssumption ==
  /\ Inputs \in [Tx -> SUBSET Outpoint]
  /\ BlockHeight \subseteq Nat /\ 0 \in BlockHeight
  /\ Required \in Nat \ {0} /\ Lifetime \in Nat
  /\ Doubtful \subseteq Masternode /\ Self \in Masternode \cup {None}
  /\ Own \subseteq Tx
  /\ None \notin Tx /\ None \notin Lock /\ None \notin Request

VARIABLES
  mapTxLockReq,          \* requests the pool accepted, or the wallet made
  mapTxLockReqRejected,  \* requests the pool refused
  mapTxLockVote,         \* votes seen, by masternode and transaction
  mapTxLocks,            \* CTransactionLock of a transaction
  mapLockedInputs,       \* the transaction an input is locked for
  mempool,
  request,               \* the "txlreq" that waits for cs_main
  stopped,               \* an assertion or a bad pointer has stopped the process
  refused                \* history: transactions whose request the pool refused

lockVars == <<mapTxLockReq, mapTxLockReqRejected, mapTxLockVote, mapTxLocks, mapLockedInputs>>
vars == <<lockVars, mempool, request, stopped, refused>>

TypeOK ==
  /\ mapTxLockReq \subseteq Tx /\ mapTxLockReqRejected \subseteq Tx
  /\ mapTxLockVote \subseteq Masternode \X Tx
  /\ mapTxLocks \in [Tx -> Lock \cup {None}]
  /\ mapLockedInputs \in [Outpoint -> Tx \cup {None}]
  /\ mempool \subseteq Tx
  /\ request \in Request \cup {None}
  /\ stopped \in BOOLEAN
  /\ refused \subseteq Tx

-----------------------------------------------------------------------------
(* Locks. *)

HasLock(t) == mapTxLocks[t] # None

NewLock(h) == [nBlockHeight |-> h, votes |-> <<>>, left |-> Lifetime]

\* The votes CountSignatures counts: those for the lock's own height, which a
\* lock that no request has set the height of does not have.
Counted(lock) == {i \in DOMAIN lock.votes : lock.votes[i].height = lock.nBlockHeight}

\* CountSignatures() >= INSTANTX_SIGNATURES_REQUIRED
Complete(lock) ==
  /\ lock # None
  /\ lock.nBlockHeight # 0
  /\ Cardinality(Counted(lock)) >= Required

\* CreateNewLock: h is the height it works out, 0 for an input that is unknown
\* or too new.  A lock that exists, with the votes that came before the
\* request, gets the height and keeps its expiration.
CreateNewLock(t, h) ==
  mapTxLocks' =
    IF h = 0 THEN mapTxLocks
    ELSE IF HasLock(t) THEN [mapTxLocks EXCEPT ![t] = [@ EXCEPT !.nBlockHeight = h]]
    ELSE [mapTxLocks EXCEPT ![t] = NewLock(h)]

\* The inputs of t that are locked for another transaction.
Conflicting(t) == {o \in Inputs[t] : mapLockedInputs[o] \notin {None, t}}

\* CheckForConflictingLocks stops at the first such input: the locks of t and
\* of the transaction it is locked for expire now.
Cancelled(locks, t, o) ==
  [u \in Tx |-> IF u \in {t, mapLockedInputs[o]} /\ locks[u] # None
                THEN [locks[u] EXCEPT !.left = 0] ELSE locks[u]]

\* Mutant: the lock of another transaction is taken over.
WithInputsTakenOver(t) ==
  [o \in Outpoint |-> IF o \in Inputs[t] THEN t ELSE mapLockedInputs[o]]

\* Inputs that are not locked yet are locked for t.
WithInputsLocked(t) ==
  [o \in Outpoint |-> IF o \in Inputs[t] /\ mapLockedInputs[o] = None
                      THEN t ELSE mapLockedInputs[o]]

\* AcceptToMemoryPool may accept it: it is not in the pool, nothing in the
\* pool or among the locks stands against it.
Acceptable(t) ==
  /\ t \notin mempool
  /\ Conflicting(t) = {}
  /\ \A u \in mempool : Inputs[u] \cap Inputs[t] = {}

\* "reprocess the last 15 blocks": DisconnectBlock and DisconnectInputs on a
\* database opened for reading fail its assertion, or a pointer that was never
\* set is followed.  The process stops.
Stops ==
  /\ stopped' = TRUE
  /\ mapTxLockReq' = {} /\ mapTxLockReqRejected' = {} /\ mapTxLockVote' = {}
  /\ mapTxLocks' = [t \in Tx |-> None]
  /\ mapLockedInputs' = [o \in Outpoint |-> None]
  /\ mempool' = {} /\ request' = None /\ refused' = {}

-----------------------------------------------------------------------------
Init ==
  /\ mapTxLockReq = {} /\ mapTxLockReqRejected = {} /\ mapTxLockVote = {}
  /\ mapTxLocks = [t \in Tx |-> None]
  /\ mapLockedInputs = [o \in Outpoint |-> None]
  /\ mempool = {} /\ request = None
  /\ stopped = FALSE
  /\ refused = {}

\* "txlreq", up to the wait for cs_main.
ReceiveRequest(t, h) ==
  /\ ~stopped
  /\ request = None
  /\ t \notin mapTxLockReq \cup mapTxLockReqRejected
  /\ CreateNewLock(t, h)
  /\ request' = [tx |-> t, height |-> h]
  /\ UNCHANGED <<mapTxLockReq, mapTxLockReqRejected, mapTxLockVote, mapLockedInputs,
                 mempool, stopped, refused>>

\* The pool accepts the transaction, and DoConsensusVote may vote for it; the
\* node does not add its own vote to the lock.
AcceptRequest(votes) ==
  /\ request # None
  /\ Acceptable(request.tx)
  /\ votes => Self # None
  /\ mempool' = mempool \cup {request.tx}
  /\ mapTxLockReq' = mapTxLockReq \cup {request.tx}
  /\ mapTxLockVote' = IF votes THEN mapTxLockVote \cup {<<Self, request.tx>>} ELSE mapTxLockVote
  /\ request' = None
  /\ UNCHANGED <<mapTxLockReqRejected, mapTxLocks, mapLockedInputs, stopped, refused>>

\* The pool refuses the transaction, for what Acceptable says or for anything
\* else.  Its inputs are locked for it all the same, and if its lock is
\* complete already, conflicts are looked for.
RefuseRequest ==
  /\ request # None
  /\ LET t == request.tx
     IN  \/ /\ mapTxLockReqRejected' = mapTxLockReqRejected \cup {t}
            /\ refused' = refused \cup {t}
            /\ mapLockedInputs' = WithInputsLocked(t)
            /\ IF Complete(mapTxLocks[t]) /\ Conflicting(t) # {}
               THEN \E o \in Conflicting(t) : mapTxLocks' = Cancelled(mapTxLocks, t, o)
               ELSE UNCHANGED mapTxLocks
            /\ request' = None
            /\ UNCHANGED <<mapTxLockReq, mapTxLockVote, mempool, stopped>>
         \/ /\ Complete(mapTxLocks[t]) /\ Conflicting(t) = {}
            /\ Stops

\* Mutant: a vote that was seen before is counted again.
NewVoteOrNot(m, t) == TRUE

\* mapTxLockVote.count(ctx.GetHash()) == 0
NewVote(m, t) == <<m, t>> \notin mapTxLockVote

\* ProcessConsensusVote returns false: the masternode is unknown or not ranked
\* high enough, or the signature is bad.
RefuseVote(m, t) ==
  /\ ~stopped /\ request = None
  /\ NewVote(m, t)
  /\ mapTxLockVote' = mapTxLockVote \cup {<<m, t>>}
  /\ UNCHANGED <<mapTxLockReq, mapTxLockReqRejected, mapTxLocks, mapLockedInputs, mempool,
                 request, stopped, refused>>

\* The vote is added to the lock, which is created without a height if there
\* is none.  A lock that is complete locks the inputs of its transaction.
CountVote(m, t, h) ==
  /\ ~stopped /\ request = None
  /\ NewVote(m, t)
  /\ LET old   == IF HasLock(t) THEN mapTxLocks[t] ELSE NewLock(0)
         lock  == [old EXCEPT !.votes = Append(@, [mn |-> m, height |-> h])]
         locks == [mapTxLocks EXCEPT ![t] = lock]
     IN  \/ /\ mapTxLockVote' = mapTxLockVote \cup {<<m, t>>}
            /\ \/ /\ ~Complete(lock)
                  /\ mapTxLocks' = locks
                  /\ UNCHANGED mapLockedInputs
               \/ /\ Complete(lock) /\ t \in mapTxLockReq
                  /\ IF Conflicting(t) # {}
                     THEN /\ \E o \in Conflicting(t) : mapTxLocks' = Cancelled(locks, t, o)
                          /\ UNCHANGED mapLockedInputs
                     ELSE /\ mapTxLocks' = locks
                          /\ mapLockedInputs' = WithInputsLocked(t)
            /\ UNCHANGED <<mapTxLockReq, mapTxLockReqRejected, mempool, request, stopped, refused>>
         \/ /\ Complete(lock)
            /\ t \in mapTxLockReqRejected
            /\ t \in mapTxLockReq => Conflicting(t) = {}
            /\ Stops

\* RelayWalletTransaction: the wallet asks for a lock of a transaction of its
\* own that has no confirmation and no complete lock.
RequestByWallet(t, h) ==
  /\ ~stopped
  /\ t \in mempool
  /\ ~Complete(mapTxLocks[t])
  /\ mapTxLockReq' = mapTxLockReq \cup {t}
  /\ CreateNewLock(t, h)
  /\ UNCHANGED <<mapTxLockReqRejected, mapTxLockVote, mapLockedInputs, mempool, request,
                 stopped, refused>>

\* Mutant: only locks whose request is known are removed.
ExpiredWithRequest == {t \in mapTxLockReq : HasLock(t) /\ mapTxLocks[t].left < 0}

\* GetTime() > nExpiration
Expired == {t \in Tx : HasLock(t) /\ mapTxLocks[t].left < 0}

\* Mutant: the inputs of an expired lock stay locked.
ReleasedNothing(S) == {}

\* The inputs Clean takes off mapLockedInputs, whatever they are locked for.
Released(S) == UNION {Inputs[t] : t \in S}

VotesOf(S) ==
  UNION {{<<mapTxLocks[t].votes[i].mn, t>> : i \in DOMAIN mapTxLocks[t].votes} : t \in S}

\* CleanTransactionLocksList.
Clean ==
  /\ ~stopped
  /\ Expired # {}
  /\ LET known == Expired \cap mapTxLockReq
     IN  /\ mapLockedInputs' = [o \in Outpoint |-> IF o \in Released(known) THEN None
                                                   ELSE mapLockedInputs[o]]
         /\ mapTxLockReq' = mapTxLockReq \ known
         /\ mapTxLockReqRejected' = mapTxLockReqRejected \ known
         /\ mapTxLockVote' = mapTxLockVote \ VotesOf(known)
  /\ mapTxLocks' = [t \in Tx |-> IF t \in Expired THEN None ELSE mapTxLocks[t]]
  /\ UNCHANGED <<mempool, request, stopped, refused>>

\* A tick of the clock.
Tick ==
  /\ ~stopped
  /\ \E t \in Tx : HasLock(t) /\ mapTxLocks[t].left >= 0
  /\ mapTxLocks' = [t \in Tx |->
       IF HasLock(t) /\ mapTxLocks[t].left >= 0
       THEN [mapTxLocks[t] EXCEPT !.left = @ - 1] ELSE mapTxLocks[t]]
  /\ UNCHANGED <<mapTxLockReq, mapTxLockReqRejected, mapTxLockVote, mapLockedInputs, mempool,
                 request, stopped, refused>>

\* A transaction enters the pool without a lock request, or leaves it.
PoolChanges(t) ==
  /\ ~stopped
  /\ \/ Acceptable(t) /\ mempool' = mempool \cup {t}
     \/ t \in mempool /\ mempool' = mempool \ {t}
  /\ UNCHANGED <<lockVars, request, stopped, refused>>

\* The process is started again; everything here is in memory only.
Restart ==
  /\ stopped
  /\ stopped' = FALSE
  /\ UNCHANGED <<lockVars, mempool, request, refused>>

Next ==
  \/ \E t \in Tx, h \in BlockHeight : ReceiveRequest(t, h)
  \/ \E votes \in BOOLEAN : AcceptRequest(votes)
  \/ RefuseRequest
  \/ \E m \in Doubtful, t \in Tx : RefuseVote(m, t)
  \/ \E m \in Masternode, t \in Tx, h \in BlockHeight : CountVote(m, t, h)
  \/ \E t \in Own, h \in BlockHeight : RequestByWallet(t, h)
  \/ Clean
  \/ Tick
  \/ \E t \in Tx : PoolChanges(t)
  \/ Restart

Spec == Init /\ [][Next]_vars

\* Time passes, and ThreadCheckDarkSendPool cleans every minute.
FairSpec == Spec /\ WF_vars(Tick) /\ WF_vars(Clean)

-----------------------------------------------------------------------------
(* Properties. *)

\* A lock counts no masternode twice, although the vote is looked up in one
\* map and counted in another, and both are cleaned.
OneVotePerMasternode ==
  \A t \in Tx : HasLock(t) =>
    \A i, j \in DOMAIN mapTxLocks[t].votes :
      mapTxLocks[t].votes[i].mn = mapTxLocks[t].votes[j].mn => i = j

\* An input is locked for a transaction whose lock is complete, unless the
\* pool has refused a request for that transaction.
LocksEarned ==
  \A o \in Outpoint : LET t == mapLockedInputs[o]
                      IN  t # None /\ t \notin refused => Complete(mapTxLocks[t])

\* A locked input is released only when the lock of a transaction that spends
\* it has expired, or the process has stopped.
ReleaseStep ==
  \A o \in Outpoint :
    mapLockedInputs[o] # None /\ mapLockedInputs'[o] # mapLockedInputs[o] =>
      \/ stopped'
      \/ \E t \in Tx : o \in Inputs[t] /\ HasLock(t) /\ mapTxLocks[t].left < 0

ReleasedByExpiry == [][ReleaseStep]_vars

\* No lock stays in mapTxLocks: it expires and is removed.
LocksExpire == \A t \in Tx : HasLock(t) ~> ~HasLock(t)
=============================================================================
