-------------------------- MODULE DarksendSession ---------------------------
(***************************************************************************)
(* The mixing session of a masternode (CDarksendPool in darksend.cpp with  *)
(* fMasterNode set).  Clients join with "dsa", submit inputs and outputs   *)
(* with "dsi" and signatures with "dss"; they may send anything at any     *)
(* time.  The message thread runs the handlers, ThreadCheckDarkSendPool    *)
(* watches the clock, and no lock keeps the two apart.  Where a thread     *)
(* waits for cs_main, cs_wallet or cs_vNodes its step ends, and the other  *)
(* one may change or reset the session under it.  UpdateState in           *)
(* particular notes the time, relays the status, which waits, and only     *)
(* then writes the state.  The fields of the pool are not torn: a loop     *)
(* over entries that does not wait is not disturbed.                       *)
(*                                                                         *)
(* A masternode never is in POOL_STATUS_ERROR or SUCCESS.  What leaves the *)
(* pool and does not come back is left out: the session's identifier,      *)
(* status messages, the collateral transactions that are charged.  So are  *)
(* coins locked by a client, of which a masternode has none.               *)
(***************************************************************************)
EXTENDS Integers, FiniteSets

CONSTANTS
  Input,            \* outputs clients may mix
  Submission,       \* sets of inputs clients submit together
  Denom,            \* denominations
  MaxTransactions,  \* GetMaxPoolTransactions()
  QueueTimeout,     \* DARKSEND_QUEUE_TIMEOUT
  SigningTimeout,   \* DARKSEND_SIGNING_TIMEOUT
  None

ASSUME DarksendAssumption ==
  /\ Submission \subseteq (SUBSET Input) \ {{}}
  /\ MaxTransactions \in Nat \ {0, 1}
  /\ QueueTimeout \in Nat /\ SigningTimeout \in Nat /\ SigningTimeout <= QueueTimeout
  /\ None \notin Denom

Status == {"IDLE", "QUEUE", "ACCEPTING_ENTRIES", "FINALIZE_TRANSACTION", "SIGNING", "TRANSMISSION"}

\* CDarkSendEntry: sev, those of them with fHasSig, the denominations of vout,
\* and how long ago it was added, beyond QueueTimeout being expired.
Entry == [sev : Submission, hasSig : SUBSET Input, denom : Denom,
          age : 0 .. QueueTimeout + 1]

\* The entries of the vector are told apart by numbers; their order makes no
\* difference.
Slot == 1 .. MaxTransactions

\* A transaction: its inputs, each with the entry it is from, and those of
\* them with a scriptSig.
Transaction == [vin : SUBSET (Slot \X Input), signed : SUBSET (Slot \X Input)]
NoTransaction == [vin |-> {}, signed |-> {}]

\* Where the message thread waits: for cs_vNodes to relay the queue ("dsq"),
\* the final transaction ("dsf") or a status before it writes the state, for
\* cs_main in AddEntry ("dsi"), for cs_main and cs_wallet to send ("send").
Message == {"idle", "dsq", "dsa", "dsi", "finalize", "signing", "dsf", "transmission", "send", "refused"}

\* Where the thread that watches the clock waits: after an entry has expired,
\* in UnlockCoins, or before it opens the queue.
Timer == {"idle", "expiring", "emptied", "resetting", "opening"}

VARIABLES
  state,
  sessionUsers,
  sessionDenom,
  vecSessionCollateral,  \* the number of collaterals, up to MaxTransactions
  entries,               \* entries[n]: the entry with number n
  finalTransaction,
  age,                   \* time since lastTimeChanged, up to QueueTimeout
  adding,                \* the entry a "dsi" wants to add
  msg,                   \* where the message thread is
  timer                  \* where ThreadCheckDarkSendPool is

session == <<state, sessionUsers, sessionDenom, vecSessionCollateral, entries,
             finalTransaction, age>>
vars == <<session, adding, msg, timer>>

Count(es) == Cardinality(DOMAIN es)
Inputs(es) == {x \in Slot \X Input : x[1] \in DOMAIN es /\ x[2] \in es[x[1]].sev}
Signed(es) == {x \in Slot \X Input : x[1] \in DOMAIN es /\ x[2] \in es[x[1]].hasSig}
NoEntries == [n \in {} |-> None]

-----------------------------------------------------------------------------
(* Parts of the handlers. *)

\* Mutant: the users stay counted.
ClearedKeepingUsers ==
  /\ sessionDenom' = None
  /\ vecSessionCollateral' = 0
  /\ entries' = NoEntries
  /\ finalTransaction' = NoTransaction
  /\ age' = 0
  /\ UNCHANGED sessionUsers

\* What SetNull does besides setting the state.
Cleared ==
  /\ sessionUsers' = 0
  /\ sessionDenom' = None
  /\ vecSessionCollateral' = 0
  /\ entries' = NoEntries
  /\ finalTransaction' = NoTransaction
  /\ age' = 0

SetNull == state' = "IDLE" /\ Cleared

SignaturesComplete(es) == \A n \in DOMAIN es : es[n].hasSig = es[n].sev

\* Mutant: the inputs are copied without their signatures.
MergedUnsigned(es) == [vin |-> Inputs(es), signed |-> {}]

\* The transaction of all the entries; CTxDSIn is copied with its scriptSig.
Merged(es) == [vin |-> Inputs(es), signed |-> Signed(es)]

\* The first part of UpdateState: if the state is to change, so does the time;
\* then the thread waits at p to relay the status.
BeginState(new, p) ==
  /\ age' = IF state # new THEN 0 ELSE age
  /\ msg' = p

\* The part of Check that looks for signatures, with the entries es.
CheckSigned(es) ==
  \/ /\ state = "SIGNING" /\ SignaturesComplete(es)
     /\ BeginState("TRANSMISSION", "transmission")
  \/ /\ ~(state = "SIGNING" /\ SignaturesComplete(es))
     /\ msg' = "idle"
     /\ UNCHANGED age

\* Check up to its first wait, with the entries the handler has made.
Check(es) ==
  \/ /\ state = "ACCEPTING_ENTRIES" /\ Count(es) >= MaxTransactions
     /\ BeginState("FINALIZE_TRANSACTION", "finalize")
  \/ /\ ~(state = "ACCEPTING_ENTRIES" /\ Count(es) >= MaxTransactions)
     /\ CheckSigned(es)

IsSessionReady == sessionUsers >= MaxTransactions

\* Mutant: the entries are compared with the session.
IsCompatibleWithSessionOnly(d) == d = sessionDenom

IsCompatibleWithEntries(d) == \A n \in DOMAIN entries : entries[n].denom = d

-----------------------------------------------------------------------------
Init ==
  /\ state = "IDLE"
  /\ sessionUsers = 0
  /\ sessionDenom = None
  /\ vecSessionCollateral = 0
  /\ entries = NoEntries
  /\ finalTransaction = NoTransaction
  /\ age = 0
  /\ adding = None
  /\ msg = "idle"
  /\ timer = "idle"

CollateralAdded ==
  vecSessionCollateral' = IF vecSessionCollateral < MaxTransactions
                          THEN vecSessionCollateral + 1 ELSE vecSessionCollateral

\* "dsa" with a valid collateral, for which IsCompatibleWithSession looks
\* first: the first user starts a session, and the queue is relayed.
AcceptFirst(d) ==
  /\ msg = "idle"
  /\ sessionUsers <= 0
  /\ sessionUsers' = 1
  /\ sessionDenom' = d
  /\ age' = 0
  /\ msg' = "dsq"
  /\ UNCHANGED <<state, vecSessionCollateral, entries, finalTransaction, adding, timer>>

BeginQueue ==
  /\ msg = "dsq"
  /\ BeginState("QUEUE", "dsa")
  /\ UNCHANGED <<state, sessionUsers, sessionDenom, vecSessionCollateral, entries,
                 finalTransaction, adding, timer>>

FinishAccept ==
  /\ msg = "dsa"
  /\ state' = "QUEUE"
  /\ CollateralAdded
  /\ msg' = "idle"
  /\ UNCHANGED <<sessionUsers, sessionDenom, entries, finalTransaction, age, adding, timer>>

\* Later users join the session.
AcceptLater(d) ==
  /\ msg = "idle"
  /\ sessionUsers \in 1 .. MaxTransactions - 1
  /\ state \in {"ACCEPTING_ENTRIES", "QUEUE"}
  /\ d = sessionDenom
  /\ sessionUsers' = sessionUsers + 1
  /\ age' = 0
  /\ CollateralAdded
  /\ UNCHANGED <<state, sessionDenom, entries, finalTransaction, adding, msg, timer>>

\* "dsi" of a client, up to the wait for cs_main in IsCollateralValid.
BeginEntry(ins, d) ==
  /\ msg = "idle"
  /\ IsSessionReady
  /\ IsCompatibleWithEntries(d)
  /\ adding' = [sev |-> ins, hasSig |-> {}, denom |-> d, age |-> 0]
  /\ msg' = "dsi"
  /\ UNCHANGED <<session, timer>>

Full == Count(entries) >= MaxTransactions

\* AddEntry looks for each input among the entries.  It compares scriptSig too,
\* so that it does not find one that has been signed.
Found(ins) == \E n \in DOMAIN entries : ins \cap (entries[n].sev \ entries[n].hasSig) # {}

Free == CHOOSE n \in Slot : n \notin DOMAIN entries

WithEntry(e) == [n \in DOMAIN entries \cup {Free} |-> IF n = Free THEN e ELSE entries[n]]

\* The rest of AddEntry, and Check.  The collateral may prove invalid.
FinishEntry ==
  /\ msg = "dsi"
  /\ \/ /\ sessionUsers' = sessionUsers - 1
        /\ msg' = "idle"
        /\ UNCHANGED <<entries, age>>
     \/ /\ ~Full
        /\ ~Found(adding.sev)
        /\ entries' = WithEntry(adding)
        /\ Check(entries')
        /\ UNCHANGED sessionUsers
  /\ adding' = None
  /\ UNCHANGED <<state, sessionDenom, vecSessionCollateral, finalTransaction, timer>>

\* "dss" with new signatures for the inputs ins.  SignatureValid looks for the
\* input with the signature already in place, finds none and verifies nothing,
\* so that signatures may come at any time.  Of entries with the same input
\* one at most is unsigned.  The final transaction takes the signature whether
\* or not an entry does.
AddScriptSig(ins) ==
  /\ msg = "idle"
  /\ entries' = [n \in DOMAIN entries |->
                   [entries[n] EXCEPT !.hasSig = @ \cup (ins \cap entries[n].sev)]]
  /\ finalTransaction' = [finalTransaction EXCEPT
                            !.signed = @ \cup {x \in finalTransaction.vin : x[2] \in ins}]
  /\ \/ entries' # entries /\ Check(entries')
     \/ entries' = entries /\ UNCHANGED <<age, msg>>
  /\ UNCHANGED <<state, sessionUsers, sessionDenom, vecSessionCollateral, adding, timer>>

\* Check goes on: the state is written, and the next one begun.
Finalize ==
  /\ msg = "finalize"
  /\ state' = "FINALIZE_TRANSACTION"
  /\ age' = 0
  /\ msg' = "signing"
  /\ UNCHANGED <<sessionUsers, sessionDenom, vecSessionCollateral, entries, finalTransaction,
                 adding, timer>>

\* The entries there are now make the final transaction, which is relayed.
Merge ==
  /\ msg = "signing"
  /\ state' = "SIGNING"
  /\ finalTransaction' = Merged(entries)
  /\ msg' = "dsf"
  /\ UNCHANGED <<sessionUsers, sessionDenom, vecSessionCollateral, entries, age, adding, timer>>

Relayed ==
  /\ msg = "dsf"
  /\ CheckSigned(entries)
  /\ UNCHANGED <<state, sessionUsers, sessionDenom, vecSessionCollateral, entries,
                 finalTransaction, adding, timer>>

\* CheckFinalTransaction is called, and waits for cs_main and cs_wallet.
Transmit ==
  /\ msg = "transmission"
  /\ state' = "TRANSMISSION"
  /\ msg' = "send"
  /\ UNCHANGED <<sessionUsers, sessionDenom, vecSessionCollateral, entries, finalTransaction,
                 age, adding, timer>>

\* The transaction is refused by the pool, cannot be signed, or is broadcast.
FinishSending ==
  /\ msg = "send"
  /\ \/ SetNull /\ msg' \in {"refused", "idle"}
     \/ UNCHANGED session /\ msg' = "idle"
  /\ UNCHANGED <<adding, timer>>

FinishRefused ==
  /\ msg = "refused"
  /\ state' = "ACCEPTING_ENTRIES"
  /\ msg' = "idle"
  /\ UNCHANGED <<sessionUsers, sessionDenom, vecSessionCollateral, entries, finalTransaction,
                 age, adding, timer>>

Expired(n) == entries[n].age > QueueTimeout

\* Mutant: a transaction that is being sent is left alone.
TimedOutUnlessSending ==
  /\ state # "TRANSMISSION"
  /\ age >= QueueTimeout \/ (state = "SIGNING" /\ age >= SigningTimeout)

\* The session has been in its state for too long.
TimedOut ==
  \/ age >= QueueTimeout
  \/ state = "SIGNING" /\ age >= SigningTimeout

\* The end of CheckTimeout, up to UnlockCoins, which waits for cs_wallet.
EndOfTimeout == timer' = IF TimedOut THEN "resetting" ELSE "idle"

\* CheckTimeout: in two states entries may expire.
CheckTimeout ==
  /\ timer = "idle"
  /\ IF state \in {"ACCEPTING_ENTRIES", "QUEUE"} /\ \E n \in DOMAIN entries : Expired(n)
     THEN timer' = "expiring" ELSE EndOfTimeout
  /\ UNCHANGED <<session, adding, msg>>

\* The loop of CheckTimeout: it waits after each entry it erases, and does not
\* look at the state again.  If no entry is left, the session is to be reset.
ExpireEntry(n) ==
  /\ timer = "expiring"
  /\ Expired(n)
  /\ entries' = [m \in DOMAIN entries \ {n} |-> entries[m]]
  /\ timer' = IF DOMAIN entries' = {} THEN "emptied" ELSE "expiring"
  /\ UNCHANGED <<state, sessionUsers, sessionDenom, vecSessionCollateral, finalTransaction,
                 age, adding, msg>>

FinishEmptied ==
  /\ timer = "emptied"
  /\ SetNull
  /\ timer' = "expiring"
  /\ UNCHANGED <<adding, msg>>

EndExpiring ==
  /\ timer = "expiring"
  /\ \A n \in DOMAIN entries : ~Expired(n)
  /\ EndOfTimeout
  /\ UNCHANGED <<session, adding, msg>>

\* The rest of CheckTimeout.
FinishTimeout ==
  /\ timer = "resetting"
  /\ SetNull
  /\ timer' = "idle"
  /\ UNCHANGED <<adding, msg>>

\* Reset, called by RPC and after a long sleep.
Reset ==
  /\ SetNull
  /\ UNCHANGED <<adding, msg, timer>>

\* The thread calls it after CheckTimeout; UpdateState waits.
CheckForCompleteQueue ==
  /\ timer = "idle"
  /\ state = "QUEUE" /\ sessionUsers = MaxTransactions
  /\ age' = 0
  /\ timer' = "opening"
  /\ UNCHANGED <<state, sessionUsers, sessionDenom, vecSessionCollateral, entries,
                 finalTransaction, adding, msg>>

OpenQueue ==
  /\ timer = "opening"
  /\ state' = "ACCEPTING_ENTRIES"
  /\ timer' = "idle"
  /\ UNCHANGED <<sessionUsers, sessionDenom, vecSessionCollateral, entries, finalTransaction,
                 age, adding, msg>>

Tick ==
  /\ age' = IF age < QueueTimeout THEN age + 1 ELSE age
  /\ entries' = [n \in DOMAIN entries |->
                   [entries[n] EXCEPT !.age = IF @ <= QueueTimeout THEN @ + 1 ELSE @]]
  /\ UNCHANGED <<state, sessionUsers, sessionDenom, vecSessionCollateral,
                 finalTransaction, adding, msg, timer>>

\* A thread goes on after a wait.
MessageGoesOn ==
  \/ BeginQueue \/ FinishAccept \/ FinishEntry \/ Finalize \/ Merge \/ Relayed
  \/ Transmit \/ FinishSending \/ FinishRefused

TimerGoesOn ==
  \/ \E n \in Slot : n \in DOMAIN entries /\ ExpireEntry(n)
  \/ FinishEmptied \/ EndExpiring \/ FinishTimeout \/ OpenQueue

Next ==
  \/ \E d \in Denom : AcceptFirst(d) \/ AcceptLater(d)
  \/ \E ins \in Submission, d \in Denom : BeginEntry(ins, d)
  \/ \E ins \in (SUBSET Input) \ {{}} : AddScriptSig(ins)
  \/ MessageGoesOn
  \/ CheckTimeout
  \/ CheckForCompleteQueue
  \/ TimerGoesOn
  \/ Reset
  \/ Tick

Spec == Init /\ [][Next]_vars

\* Time passes, the thread wakes up every second, and whoever waits for
\* cs_main, cs_wallet or cs_vNodes gets it.  Nothing is assumed of the clients.
Fairness ==
  /\ WF_vars(Tick)
  /\ WF_vars(CheckTimeout)
  /\ WF_vars(MessageGoesOn)
  /\ WF_vars(TimerGoesOn)

FairSpec == Spec /\ Fairness

-----------------------------------------------------------------------------
(* Properties. *)

TypeOK ==
  /\ state \in Status
  /\ sessionUsers \in -1 .. MaxTransactions
  /\ sessionDenom \in Denom \cup {None}
  /\ vecSessionCollateral \in 0 .. MaxTransactions
  /\ DOMAIN entries \subseteq Slot /\ entries \in [DOMAIN entries -> Entry]
  /\ finalTransaction \in Transaction
  /\ age \in 0 .. QueueTimeout
  /\ adding \in Entry \cup {None} /\ (msg = "dsi" => adding \in Entry)
  /\ msg \in Message
  /\ timer \in Timer

\* Whatever was rejected, reset or added late, every user counted has given a
\* collateral in this session, or is about to: a session that is ready is paid
\* for.
UsersBacked ==
  sessionUsers <= vecSessionCollateral + (IF msg \in {"dsq", "dsa"} THEN 1 ELSE 0)

\* The entries have the same denominations, also when one was checked before
\* a reset and added after it: an output does not give away its owner.
EntriesUniform ==
  \A n, m \in DOMAIN entries : entries[n].denom = entries[m].denom

\* A signature that counts for an entry is in the final transaction, whether it
\* came before the transaction was made, or after it, and whatever expired or
\* was reset while the transaction was being relayed: what SignaturesComplete
\* finds complete in the entries needs no signature of theirs any more.
SignaturesKept ==
  finalTransaction.vin \cap Signed(entries) \subseteq finalTransaction.signed

\* A session ends unless users keep joining, or the loop of CheckTimeout waits
\* so long after each entry it erases that it always finds one more expired.
SessionsEnd ==
  \/ []<>(state = "IDLE")
  \/ []<><<\E d \in Denom : AcceptFirst(d) \/ AcceptLater(d)>>_vars
  \/ <>[](timer = "expiring")

=============================================================================
