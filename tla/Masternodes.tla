---------------------------- MODULE Masternodes -----------------------------
(***************************************************************************)
(* The masternode list (masternodeman.cpp, masternode.cpp): a vector of    *)
(* entries, kept up to date by the announcements "dsee" and "dsee+", the   *)
(* pings "dseep", the node's own masternode (activemasternode.cpp) and the *)
(* thread that checks the entries and removes dead ones.                   *)
(*                                                                         *)
(* Add, Remove and CheckAndRemove take the list's lock.  Find takes it     *)
(* too, but returns a pointer into the vector, and the handlers read and   *)
(* write through it without the lock: the message thread while it verifies *)
(* a signature or CheckNode tries to connect, the thread of the node's own *)
(* masternode between Find and what it does with the entry.  A pointer is  *)
(* a position here: erase moves the entries behind it up, so that another  *)
(* entry, or none, may be found there.  Accesses with no call between them *)
(* are one step.  CountEnabled, GetCurrentMasterNode and GetMasternodeRank *)
(* walk the vector without the lock; all they write is what CheckOne does, *)
(* and what they read of a vector that changes meanwhile is not modelled.  *)
(*                                                                         *)
(* Time is the age of what is known: GetAdjustedTime() - lastTimeSeen, up  *)
(* to Removal, which no comparison tells from anything older, and below 0  *)
(* if the time a peer gave is ahead of the clock.  Whether TRY_LOCK gets   *)
(* cs_main, and whether an announcement or a ping is newer than the one    *)
(* before (sigTime, lastDseep), is free, so that any number of them may    *)
(* come.  What only decides about replies and relaying is left out:        *)
(* isPortOpen, isOldNode, the protocol version, the lists of who asked     *)
(* whom, votes and payments.                                               *)
(***************************************************************************)
EXTENDS Integers, Sequences, FiniteSets

CONSTANTS
  Vin,         \* collateral outputs
  PubKey,      \* PubKey[v]: the key that owns collateral v
  Self,        \* the collateral of the node's own masternode; None without one
  MinDsee,     \* MASTERNODE_MIN_DSEE_SECONDS
  MinDseep,    \* MASTERNODE_MIN_DSEEP_SECONDS
  Expiration,  \* MASTERNODE_EXPIRATION_SECONDS
  Removal,     \* MASTERNODE_REMOVAL_SECONDS
  MaxAhead,    \* bound: how far lastUpdated in a message is ahead of the clock
  None

ASSUME MasternodesAssumption ==
  /\ MinDsee \in Nat /\ MinDseep \in Nat /\ Expiration \in Nat /\ Removal \in Nat
  /\ MaxAhead \in Nat
  /\ MinDsee <= MinDseep /\ MinDseep < Expiration /\ Expiration < Removal
  /\ Self \in Vin \cup {None} /\ None \notin Vin

Age == -MaxAhead .. Removal
State == {"ENABLED", "EXPIRED", "VIN_SPENT", "REMOVE"}

\* announced: the collateral whose owner has signed for pubkey2 and addr.
Entry == [vin : Vin, announced : Vin, age : Age, activeState : State]

\* A message about vin and the pointer Find gave for it; position 0 is memory
\* that the vector has left.
Held == [step : {"dsee", "connect", "dseep", "verify"}, vin : Vin, stop : BOOLEAN, pos : Nat]

\* The pointer CActiveMasternode::Dseep holds.
OwnHeld == [stop : BOOLEAN, pos : Nat]

ASSUME PendingAssumption == None \notin Held \cup Entry \cup OwnHeld

VARIABLES
  vMasternodes,  \* sequence of entries
  pending,       \* what the message thread is busy with: a message about an
                 \* entry it has found, an entry to add, or None
  own,           \* what the thread of the own masternode is busy with
  spent          \* collaterals AcceptableInputs finds spent

vars == <<vMasternodes, pending, own, spent>>

Positions == 1 .. Len(vMasternodes)
Listed(v) == \E p \in Positions : vMasternodes[p].vin = v

-----------------------------------------------------------------------------
(* Operations on entries and on the vector. *)

UpdatedWithin(e, seconds) == e.age < seconds

\* The constructor, and UpdateLastSeen with the time the message gives.
NewEntry(v, a) == [vin |-> v, announced |-> v, age |-> a, activeState |-> "ENABLED"]

\* Mutant: an entry that has expired is not looked at again.
CheckedOnce(e) ==
  [e EXCEPT !.activeState =
     IF @ = "VIN_SPENT" THEN @
     ELSE IF ~UpdatedWithin(e, Expiration) THEN "EXPIRED"
     ELSE IF e.vin \in spent THEN "VIN_SPENT" ELSE "ENABLED"]

\* Mutant: whether the collateral is spent is asked only of an entry that is
\* not enabled yet.
CheckedUnlessEnabled(e) ==
  [e EXCEPT !.activeState =
     IF @ = "VIN_SPENT" THEN @
     ELSE IF ~UpdatedWithin(e, Removal) THEN "REMOVE"
     ELSE IF ~UpdatedWithin(e, Expiration) THEN "EXPIRED"
     ELSE IF @ # "ENABLED" /\ e.vin \in spent THEN "VIN_SPENT" ELSE "ENABLED"]

\* CMasternode::Check with cs_main locked.
Checked(e) ==
  [e EXCEPT !.activeState =
     IF @ = "VIN_SPENT" THEN @
     ELSE IF ~UpdatedWithin(e, Removal) THEN "REMOVE"
     ELSE IF ~UpdatedWithin(e, Expiration) THEN "EXPIRED"
     ELSE IF e.vin \in spent THEN "VIN_SPENT" ELSE "ENABLED"]

\* CMasternode::Check: nothing happens when TRY_LOCK fails.
Check(e) == {e, Checked(e)}

Removable(e) == e.activeState \in {"REMOVE", "VIN_SPENT"}

\* Mutant: an entry is added without looking for another one with its vin.
AddedAgain(e) == Append(vMasternodes, e)

\* CMasternodeMan::Add
Added(e) == IF Listed(e.vin) THEN vMasternodes ELSE Append(vMasternodes, e)

\* The members of a set of positions in order; there is one such list.
InOrder(S) == {order \in [1 .. Cardinality(S) -> S] :
                 \A i, j \in 1 .. Cardinality(S) : i < j => order[i] < order[j]}

\* vector::erase, of all positions but those in keep: the entries behind an
\* erased one move up.
Erased(list, keep) == {[i \in 1 .. Cardinality(keep) |-> list[order[i]]] : order \in InOrder(keep)}

\* Where the pointer leads into the list.
InList(held) == held.pos \in Positions

\* A pointer after an entry has been added: the vector may be reallocated.
Moved(held, T) == IF held \in T THEN {held, [held EXCEPT !.pos = 0]} ELSE {held}

-----------------------------------------------------------------------------
Init ==
  /\ vMasternodes = <<>>
  /\ pending = None
  /\ own = None
  /\ spent = {}

\* The message thread finds the entry a message is about.
FindFor(step, v, stop) ==
  /\ pending = None
  /\ \E p \in Positions : /\ vMasternodes[p].vin = v
                          /\ pending' = [step |-> step, vin |-> v, stop |-> stop, pos |-> p]
  /\ UNCHANGED <<vMasternodes, own, spent>>

\* A broadcast announcement (count == -1) of a listed masternode.
Dsee(v) == FindFor("dsee", v, FALSE)

\* A ping of a listed masternode.
Dseep(v, stop) == FindFor("dseep", v, stop)

Busy(step) == pending \in Held /\ pending.step = step

\* The message is dropped, or the next call made.
DropOr(step) == {None, [pending EXCEPT !.step = step]}

\* The entry under the pointer, if its owner is the announcement's and it has
\* not been seen for a while, is seen now, and CheckNode is called if the
\* announcement is newer.  What is read outside the list may be anything.
SeeAnnounced ==
  /\ Busy("dsee")
  /\ \/ /\ InList(pending)
        /\ PubKey[vMasternodes[pending.pos].vin] = PubKey[pending.vin]
        /\ ~UpdatedWithin(vMasternodes[pending.pos], MinDsee)
        /\ vMasternodes' = [vMasternodes EXCEPT ![pending.pos].age = 0]
        /\ pending' \in DropOr("connect")
     \/ /\ InList(pending)
        /\ \/ PubKey[vMasternodes[pending.pos].vin] # PubKey[pending.vin]
           \/ UpdatedWithin(vMasternodes[pending.pos], MinDsee)
        /\ pending' = None
        /\ UNCHANGED vMasternodes
     \/ /\ ~InList(pending)
        /\ pending' \in DropOr("connect")
        /\ UNCHANGED vMasternodes
  /\ UNCHANGED <<own, spent>>

\* CheckNode returns: the announcement is written through the pointer, and
\* Check is called.
FinishUpdate ==
  /\ Busy("connect")
  /\ \/ /\ InList(pending)
        /\ \E e \in Check([vMasternodes[pending.pos] EXCEPT !.announced = pending.vin]) :
             vMasternodes' = [vMasternodes EXCEPT ![pending.pos] = e]
     \/ /\ ~InList(pending)
        /\ UNCHANGED vMasternodes
  /\ pending' = None
  /\ UNCHANGED <<own, spent>>

\* An announcement of a masternode that is not listed, broadcast or from the
\* list of a peer, which has seen it a ago.  Its collateral must be unspent;
\* that it is associated with the key, old enough and that cs_main could be
\* locked is left to the environment.  CheckNode is called.
BeginAdd(v, a) ==
  /\ pending = None
  /\ ~Listed(v)
  /\ v \notin spent
  /\ pending' = NewEntry(v, a)
  /\ UNCHANGED <<vMasternodes, own, spent>>

\* CheckNode returns; Add looks for the vin again.
FinishAdd ==
  /\ pending \in Entry
  /\ vMasternodes' = Added(pending)
  /\ pending' = None
  /\ own' \in IF Listed(pending.vin) THEN {own} ELSE Moved(own, OwnHeld)
  /\ UNCHANGED spent

\* A ping newer than the last one of the entry under the pointer is verified:
\* it is signed for the address and by the key of its owner's announcement.
ReadPing ==
  /\ Busy("dseep")
  /\ \/ /\ InList(pending) => vMasternodes[pending.pos].announced = pending.vin
        /\ pending' \in DropOr("verify")
     \/ /\ InList(pending) /\ vMasternodes[pending.pos].announced # pending.vin
        /\ pending' = None
  /\ UNCHANGED <<vMasternodes, own, spent>>

\* VerifyMessage has returned.  A ping that says stop disables the entry under
\* the pointer, another one revives and checks it.
FinishPing ==
  LET e == vMasternodes[pending.pos]
      Set(x) == vMasternodes' = [vMasternodes EXCEPT ![pending.pos] = x]
  IN  /\ Busy("verify")
      /\ \/ ~InList(pending) /\ UNCHANGED vMasternodes
         \/ InList(pending) /\ UpdatedWithin(e, MinDseep) /\ UNCHANGED vMasternodes
         \/ /\ InList(pending) /\ ~UpdatedWithin(e, MinDseep)
            /\ \/ pending.stop /\ Set([e EXCEPT !.age = Removal])
               \/ ~pending.stop /\ \E x \in Check([e EXCEPT !.age = 0]) : Set(x)
      /\ pending' = None
      /\ UNCHANGED <<own, spent>>

\* CActiveMasternode::Register, in a thread of its own.
Register ==
  /\ Self # None
  /\ own = None
  /\ ~Listed(Self)
  /\ Self \notin spent
  /\ vMasternodes' = Added(NewEntry(Self, 0))
  /\ pending' \in Moved(pending, Held)
  /\ UNCHANGED <<own, spent>>

\* CActiveMasternode::Dseep finds the entry of the node's own masternode.
DseepSelf(stop) ==
  /\ own = None
  /\ \E p \in Positions : /\ vMasternodes[p].vin = Self
                          /\ own' = [stop |-> stop, pos |-> p]
  /\ UNCHANGED <<vMasternodes, pending, spent>>

\* CMasternodeMan::Remove
Removed(v) == Erased(vMasternodes, {q \in Positions : vMasternodes[q].vin # v})

\* When it stops, it removes the entry of the collateral it reads through the
\* pointer, else that entry has been seen.
FinishSelf ==
  /\ own # None
  /\ \/ /\ InList(own) /\ own.stop
        /\ vMasternodes' \in Removed(vMasternodes[own.pos].vin)
     \/ /\ InList(own) /\ ~own.stop
        /\ vMasternodes' = [vMasternodes EXCEPT ![own.pos].age = 0]
     \/ /\ ~InList(own) /\ own.stop
        /\ \E v \in Vin \cup {None} : vMasternodes' \in Removed(v)
     \/ /\ ~InList(own) /\ ~own.stop
        /\ UNCHANGED vMasternodes
  /\ own' = None
  /\ UNCHANGED <<pending, spent>>

\* CMasternode::Check called by one of the functions that read the list.
CheckOne(p) ==
  /\ vMasternodes' = [vMasternodes EXCEPT ![p] = Checked(vMasternodes[p])]
  /\ UNCHANGED <<pending, own, spent>>

\* CMasternodeMan::CheckAndRemove: cs_main could be locked for the entries at
\* the positions locked.
CheckAndRemove(locked) ==
  /\ LET list == [p \in Positions |->
                    IF p \in locked THEN Checked(vMasternodes[p]) ELSE vMasternodes[p]]
     IN  vMasternodes' \in Erased(list, {p \in Positions : ~Removable(list[p])})
  /\ UNCHANGED <<pending, own, spent>>

\* A collateral is spent, or the transaction that spent it is undone.
ChainChanges(v) ==
  /\ spent' = IF v \in spent THEN spent \ {v} ELSE spent \cup {v}
  /\ UNCHANGED <<vMasternodes, pending, own>>

Older(a) == IF a < Removal THEN a + 1 ELSE a

Tick ==
  /\ vMasternodes' = [p \in Positions |-> [vMasternodes[p] EXCEPT !.age = Older(@)]]
  /\ pending' = IF pending \in Entry THEN [pending EXCEPT !.age = Older(@)] ELSE pending
  /\ UNCHANGED <<own, spent>>

\* The thread runs when the entry of v is to go and can be checked.
RemoveStale(v) ==
  /\ \E p \in Positions : vMasternodes[p].vin = v /\ Removable(Checked(vMasternodes[p]))
  /\ CheckAndRemove(Positions)

Next ==
  \/ \E v \in Vin : Dsee(v)
  \/ SeeAnnounced
  \/ FinishUpdate
  \/ \E v \in Vin, a \in Age : BeginAdd(v, a)
  \/ FinishAdd
  \/ \E v \in Vin, stop \in BOOLEAN : Dseep(v, stop)
  \/ ReadPing
  \/ FinishPing
  \/ Register
  \/ \E stop \in BOOLEAN : DseepSelf(stop)
  \/ FinishSelf
  \/ \E p \in Positions : CheckOne(p)
  \/ \E locked \in SUBSET Positions : CheckAndRemove(locked)
  \/ \E v \in Vin : ChainChanges(v)
  \/ Tick

Spec == Init /\ [][Next]_vars

\* Time passes, and a connection is made or times out.  ThreadCheckDarkSendPool
\* checks the list every minute, and an entry whose collateral is spent stays
\* to be removed for more than an hour after each time it is seen: the thread
\* does not miss it every time, as no one holds cs_main for ever.
Fairness ==
  /\ WF_vars(Tick)
  /\ WF_vars(SeeAnnounced \/ FinishUpdate \/ FinishAdd \/ ReadPing \/ FinishPing)
  /\ WF_vars(FinishSelf)
  /\ \A v \in Vin : SF_vars(RemoveStale(v))

FairSpec == Spec /\ Fairness

-----------------------------------------------------------------------------
(* Properties. *)

TypeOK ==
  /\ vMasternodes \in Seq(Entry)
  /\ pending \in Held \cup Entry \cup {None}
  /\ own \in OwnHeld \cup {None}
  /\ spent \subseteq Vin

\* No collateral is listed twice, though two threads add entries and one of
\* them looks for the vin, waits for a connection and adds: a masternode has
\* one rank and one share of the payments.
UniqueVins ==
  \A p, q \in Positions : vMasternodes[p].vin = vMasternodes[q].vin => p = q

\* Someone is heard of v now or in the recent past: by a message of v, from the
\* list of a peer, or because v is the node's own masternode.
HeardOf(v) ==
  \/ Dsee(v) \/ Dseep(v, FALSE)
  \/ \E a \in Age \ {Removal} : BeginAdd(v, a)
  \/ v = Self /\ (Register \/ DseepSelf(FALSE))

\* A masternode no one hears of any more leaves the list, again and again if
\* the lists of peers bring it back, though a message about another one may
\* have been written to its entry.
SilentRemoved ==
  \A v \in Vin : <>[][~HeardOf(v)]_vars => []<>~Listed(v)

\* A masternode whose collateral is spent leaves the list for good, even if
\* it is in the middle of being added or updated and goes on pinging.
SpentLeavesForGood ==
  \A v \in Vin : <>[](v \in spent) => <>[]~Listed(v)

=============================================================================
