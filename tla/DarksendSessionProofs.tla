----------------------- MODULE DarksendSessionProofs ------------------------
(***************************************************************************)
(* TLAPS proofs about DarksendSession, for every set of outputs, every     *)
(* size of a session and every timeout.                                    *)
(***************************************************************************)
EXTENDS DarksendSession, TLAPS, FiniteSetTheorems

\* A "dsi" that waits found a session and entries of its denominations.  The
\* session may have been reset meanwhile, but no one else adds entries.
AddingFits ==
  msg = "dsi" => /\ sessionUsers >= 0
                 /\ adding.hasSig = {}
                 /\ IsCompatibleWithEntries(adding.denom)

\* The inductive invariant.
IInv ==
  /\ TypeOK
  /\ UsersBacked
  /\ EntriesUniform
  /\ SignaturesKept
  /\ AddingFits

\* What is asked of entries in the pool.
EntriesType(es) == DOMAIN es \subseteq Slot /\ es \in [DOMAIN es -> Entry]

-----------------------------------------------------------------------------
(* Lemmas about the operators. *)

LEMMA ConstantTypes ==
  /\ MaxTransactions \in Nat /\ MaxTransactions >= 2
  /\ QueueTimeout \in Nat /\ SigningTimeout \in Nat
BY DarksendAssumption

LEMMA SlotFinite ==
  IsFiniteSet(Slot) /\ Cardinality(Slot) = MaxTransactions
<1>1. 1 \in Int /\ MaxTransactions \in Int /\ ~(1 > MaxTransactions)
      /\ MaxTransactions - 1 + 1 = MaxTransactions
  BY ConstantTypes
<1>2. IsFiniteSet(1 .. MaxTransactions)
      /\ Cardinality(1 .. MaxTransactions) = MaxTransactions - 1 + 1
  BY <1>1, FS_Interval
<1> QED  BY <1>1, <1>2 DEF Slot

\* A pool that is not full has a free number.
LEMMA FreeSlot ==
  ASSUME EntriesType(entries), ~Full
  PROVE  Free \in Slot /\ Free \notin DOMAIN entries
<1>1. Cardinality(DOMAIN entries) # Cardinality(Slot)
  BY SlotFinite, ConstantTypes DEF Full, Count
<1>2. DOMAIN entries # Slot
  BY <1>1
<1>3. \E n \in Slot : n \notin DOMAIN entries
  BY <1>2 DEF EntriesType
<1> QED  BY <1>3 DEF Free

LEMMA MergedType ==
  ASSUME NEW es
  PROVE  /\ Merged(es) \in Transaction
         /\ Merged(es).vin = Inputs(es) /\ Merged(es).signed = Signed(es)
<1>1. Inputs(es) \subseteq Slot \X Input /\ Signed(es) \subseteq Slot \X Input
  BY DEF Inputs, Signed
<1> QED  BY <1>1 DEF Merged, Transaction

LEMMA EmptyEntries ==
  /\ DOMAIN NoEntries = {} /\ EntriesType(NoEntries)
  /\ NoTransaction \in Transaction /\ NoTransaction.vin = {}
BY DEF NoEntries, EntriesType, NoTransaction, Transaction

\* Check chooses where the thread goes on, and nothing else.
LEMMA CheckStep ==
  ASSUME TypeOK, NEW es, Check(es)
  PROVE  age' \in 0 .. QueueTimeout /\ msg' \in {"finalize", "transmission", "idle"}
BY ConstantTypes DEF TypeOK, Check, CheckSigned, BeginState

LEMMA CheckSignedStep ==
  ASSUME TypeOK, NEW es, CheckSigned(es)
  PROVE  age' \in 0 .. QueueTimeout /\ msg' \in {"transmission", "idle"}
BY ConstantTypes DEF TypeOK, CheckSigned, BeginState

-----------------------------------------------------------------------------
(* The invariant. *)

LEMMA InitInv == Init => IInv
<1> SUFFICES ASSUME Init PROVE IInv
  OBVIOUS
<1>1. /\ sessionUsers = 0 /\ sessionDenom = None /\ vecSessionCollateral = 0
      /\ entries = NoEntries /\ finalTransaction = NoTransaction /\ age = 0
      /\ state = "IDLE" /\ adding = None /\ msg = "idle" /\ timer = "idle"
  BY DEF Init
<1>2. TypeOK
  BY <1>1, EmptyEntries, ConstantTypes DEF TypeOK, EntriesType, Status, Message, Timer
<1>3. UsersBacked /\ AddingFits
  BY <1>1 DEF UsersBacked, AddingFits
<1>4. EntriesUniform /\ SignaturesKept
  BY <1>1, EmptyEntries DEF EntriesUniform, SignaturesKept
<1> QED  BY <1>2, <1>3, <1>4 DEF IInv

\* SetNull under any thread that waits: a session that is empty.
LEMMA ClearedKeeps ==
  ASSUME IInv, Cleared, state' \in Status, adding' = adding,
         msg' \in Message, msg' = "dsi" => msg = "dsi", timer' \in Timer
  PROVE  IInv'
<1>1. /\ sessionUsers' = 0 /\ sessionDenom' = None /\ vecSessionCollateral' = 0
      /\ entries' = NoEntries /\ finalTransaction' = NoTransaction /\ age' = 0
  BY DEF Cleared
<1>2. TypeOK'
  BY <1>1, EmptyEntries, ConstantTypes DEF IInv, TypeOK, EntriesType
<1>3. UsersBacked' /\ EntriesUniform' /\ SignaturesKept'
  BY <1>1, EmptyEntries DEF UsersBacked, EntriesUniform, SignaturesKept
<1>4. AddingFits'
  BY <1>1, EmptyEntries DEF IInv, AddingFits, IsCompatibleWithEntries
<1> QED  BY <1>2, <1>3, <1>4 DEF IInv

\* A step that moves a thread, the state or the time, and leaves users,
\* entries and transaction alone.
LEMMA ControlKeeps ==
  ASSUME IInv,
         UNCHANGED <<sessionUsers, sessionDenom, vecSessionCollateral, entries,
                     finalTransaction, adding>>,
         state' \in Status, age' \in 0 .. QueueTimeout, msg' \in Message, timer' \in Timer,
         msg' = "dsi" => msg = "dsi",
         msg \in {"dsq", "dsa"} => msg' \in {"dsq", "dsa"}
  PROVE  IInv'
<1>1. TypeOK'
  BY DEF IInv, TypeOK
<1>2. UsersBacked'
  BY ConstantTypes DEF IInv, TypeOK, UsersBacked
<1>3. EntriesUniform' /\ SignaturesKept'
  BY DEF IInv, EntriesUniform, SignaturesKept, Signed
<1>4. AddingFits'
  BY DEF IInv, AddingFits, IsCompatibleWithEntries
<1> QED  BY <1>1, <1>2, <1>3, <1>4 DEF IInv

\* The number of collaterals, up to the bound there is on users.
LEMMA CollateralStep ==
  ASSUME TypeOK, CollateralAdded
  PROVE  /\ vecSessionCollateral' \in 0 .. MaxTransactions
         /\ \A u \in -1 .. MaxTransactions :
              u <= vecSessionCollateral + 1 => u <= vecSessionCollateral'
BY ConstantTypes DEF TypeOK, CollateralAdded

LEMMA AcceptFirstKeeps ==
  ASSUME IInv, NEW d \in Denom, AcceptFirst(d)
  PROVE  IInv'
<1>1. /\ sessionUsers' = 1 /\ sessionDenom' = d /\ age' = 0 /\ msg' = "dsq"
      /\ UNCHANGED <<state, vecSessionCollateral, entries, finalTransaction, adding, timer>>
  BY DEF AcceptFirst
<1>2. TypeOK'
  BY <1>1, ConstantTypes DEF IInv, TypeOK, Message
<1>3. UsersBacked'
  BY <1>1, ConstantTypes DEF IInv, TypeOK, UsersBacked
<1>4. EntriesUniform' /\ SignaturesKept' /\ AddingFits'
  BY <1>1 DEF IInv, EntriesUniform, SignaturesKept, Signed, AddingFits
<1> QED  BY <1>2, <1>3, <1>4 DEF IInv

LEMMA FinishAcceptKeeps ==
  ASSUME IInv, FinishAccept
  PROVE  IInv'
<1>1. /\ msg = "dsa" /\ state' = "QUEUE" /\ CollateralAdded /\ msg' = "idle"
      /\ UNCHANGED <<sessionUsers, sessionDenom, entries, finalTransaction, age, adding, timer>>
  BY DEF FinishAccept
<1>2. /\ vecSessionCollateral' \in 0 .. MaxTransactions
      /\ \A u \in -1 .. MaxTransactions :
           u <= vecSessionCollateral + 1 => u <= vecSessionCollateral'
  BY <1>1, CollateralStep DEF IInv
<1>3. TypeOK'
  BY <1>1, <1>2 DEF IInv, TypeOK, Message, Status
<1>4. sessionUsers <= vecSessionCollateral + 1 /\ sessionUsers \in -1 .. MaxTransactions
  BY <1>1 DEF IInv, UsersBacked, TypeOK
<1>5. UsersBacked'
  BY <1>1, <1>2, <1>3, <1>4, ConstantTypes DEF TypeOK, UsersBacked
<1>6. EntriesUniform' /\ SignaturesKept' /\ AddingFits'
  BY <1>1 DEF IInv, EntriesUniform, SignaturesKept, Signed, AddingFits
<1> QED  BY <1>3, <1>5, <1>6 DEF IInv

LEMMA AcceptLaterKeeps ==
  ASSUME IInv, NEW d \in Denom, AcceptLater(d)
  PROVE  IInv'
<1>1. /\ sessionUsers \in 1 .. MaxTransactions - 1 /\ sessionUsers' = sessionUsers + 1
      /\ age' = 0 /\ CollateralAdded /\ msg = "idle"
      /\ UNCHANGED <<state, sessionDenom, entries, finalTransaction, adding, msg, timer>>
  BY DEF AcceptLater
<1>2. /\ vecSessionCollateral' \in 0 .. MaxTransactions
      /\ \A u \in -1 .. MaxTransactions :
           u <= vecSessionCollateral + 1 => u <= vecSessionCollateral'
  BY <1>1, CollateralStep DEF IInv
<1>3. sessionUsers' \in -1 .. MaxTransactions
  BY <1>1, ConstantTypes
<1>4. TypeOK'
  BY <1>1, <1>2, <1>3, ConstantTypes DEF IInv, TypeOK
<1>5. sessionUsers' <= vecSessionCollateral + 1
  BY <1>1, ConstantTypes DEF IInv, UsersBacked, TypeOK
<1>6. UsersBacked'
  <2>1. sessionUsers' <= vecSessionCollateral'
    BY <1>2, <1>3, <1>5
  <2>2. msg' \notin {"dsq", "dsa"} /\ vecSessionCollateral' \in Int
    BY <1>1, <1>2, ConstantTypes
  <2> QED  BY <2>1, <2>2 DEF UsersBacked
<1>7. EntriesUniform' /\ SignaturesKept' /\ AddingFits'
  BY <1>1 DEF IInv, EntriesUniform, SignaturesKept, Signed, AddingFits
<1> QED  BY <1>4, <1>6, <1>7 DEF IInv

LEMMA BeginKeeps ==
  ASSUME IInv, NEW ins \in Submission, NEW d \in Denom, BeginEntry(ins, d)
  PROVE  IInv'
<1>1. /\ msg = "idle" /\ sessionUsers >= MaxTransactions /\ IsCompatibleWithEntries(d)
      /\ adding' = [sev |-> ins, hasSig |-> {}, denom |-> d, age |-> 0] /\ msg' = "dsi"
      /\ UNCHANGED <<state, sessionUsers, sessionDenom, vecSessionCollateral, entries,
                     finalTransaction, age, timer>>
  BY DEF BeginEntry, IsSessionReady, session
<1>2. adding' \in Entry /\ adding'.denom = d /\ adding'.hasSig = {}
  BY <1>1, ConstantTypes DEF Entry
<1>4. TypeOK'
  BY <1>1, <1>2 DEF IInv, TypeOK, Message
<1>5. UsersBacked' /\ EntriesUniform' /\ SignaturesKept'
  BY <1>1 DEF IInv, UsersBacked, EntriesUniform, SignaturesKept, Signed
<1>6. AddingFits'
  BY <1>1, <1>2, ConstantTypes DEF IInv, TypeOK, AddingFits, IsCompatibleWithEntries
<1> QED  BY <1>4, <1>5, <1>6 DEF IInv

\* AddEntry lowers the number of users or adds an entry like the others, which
\* is not signed.
LEMMA FinishEntryKeeps ==
  ASSUME IInv, FinishEntry
  PROVE  IInv'
<1>1. /\ msg = "dsi" /\ adding' = None
      /\ UNCHANGED <<state, sessionDenom, vecSessionCollateral, finalTransaction, timer>>
  BY DEF FinishEntry
<1>2. CASE /\ sessionUsers' = sessionUsers - 1 /\ msg' = "idle"
           /\ UNCHANGED <<entries, age>>
  <2>1. sessionUsers' \in -1 .. MaxTransactions /\ UsersBacked'
    BY <1>1, <1>2, ConstantTypes DEF IInv, TypeOK, UsersBacked, AddingFits
  <2>2. TypeOK'
    BY <1>1, <1>2, <2>1 DEF IInv, TypeOK, Message
  <2>3. EntriesUniform' /\ SignaturesKept' /\ AddingFits'
    BY <1>1, <1>2 DEF IInv, EntriesUniform, SignaturesKept, Signed, AddingFits
  <2> QED  BY <2>1, <2>2, <2>3 DEF IInv
<1>3. CASE /\ ~Full /\ entries' = WithEntry(adding) /\ Check(entries')
           /\ UNCHANGED sessionUsers
  <2>1. EntriesType(entries) /\ Free \in Slot /\ Free \notin DOMAIN entries
    BY <1>3, FreeSlot DEF IInv, TypeOK, EntriesType
  <2>2. /\ DOMAIN entries' = DOMAIN entries \cup {Free}
        /\ entries'[Free] = adding /\ \A n \in DOMAIN entries : entries'[n] = entries[n]
    BY <1>3, <2>1 DEF WithEntry
  <2>3. adding \in Entry /\ adding.hasSig = {}
    BY <1>1 DEF IInv, TypeOK, AddingFits
  <2>4. EntriesType(entries')
    BY <1>3, <2>1, <2>2, <2>3 DEF EntriesType, WithEntry
  <2>5. age' \in 0 .. QueueTimeout /\ msg' \in {"finalize", "transmission", "idle"}
    BY <1>3, CheckStep DEF IInv
  <2>6. TypeOK'
    BY <1>1, <1>3, <2>4, <2>5 DEF IInv, TypeOK, EntriesType, Message
  <2>7. EntriesUniform'
    BY <1>1, <2>2 DEF IInv, EntriesUniform, AddingFits, IsCompatibleWithEntries
  <2>8. Signed(entries') \subseteq Signed(entries)
    BY <2>2, <2>3 DEF Signed
  <2>9. SignaturesKept'
    BY <1>1, <2>8 DEF IInv, SignaturesKept, Signed
  <2>10. UsersBacked' /\ AddingFits'
    BY <1>1, <1>3, <2>5 DEF IInv, UsersBacked, AddingFits
  <2> QED  BY <2>6, <2>7, <2>9, <2>10 DEF IInv
<1> QED  BY <1>2, <1>3 DEF FinishEntry

\* The signatures go to the entries and to the final transaction alike.
LEMMA ScriptSigKeeps ==
  ASSUME IInv, NEW ins \in SUBSET Input, AddScriptSig(ins)
  PROVE  IInv'
<1>1. /\ msg = "idle"
      /\ entries' = [n \in DOMAIN entries |->
                       [entries[n] EXCEPT !.hasSig = @ \cup (ins \cap entries[n].sev)]]
      /\ finalTransaction' = [finalTransaction EXCEPT
                                !.signed = @ \cup {x \in finalTransaction.vin : x[2] \in ins}]
      /\ UNCHANGED <<state, sessionUsers, sessionDenom, vecSessionCollateral, adding, timer>>
  BY DEF AddScriptSig
<1>2. age' \in 0 .. QueueTimeout /\ msg' \in {"finalize", "transmission", "idle"}
  <2>1. CASE Check(entries')
    BY <2>1, CheckStep DEF IInv
  <2>2. CASE UNCHANGED <<age, msg>>
    BY <1>1, <2>2 DEF IInv, TypeOK
  <2> QED  BY <2>1, <2>2 DEF AddScriptSig
<1>3. EntriesType(entries)
  BY DEF IInv, TypeOK, EntriesType
<1>4. /\ DOMAIN entries' = DOMAIN entries
      /\ \A n \in DOMAIN entries :
           /\ entries'[n] \in Entry /\ entries'[n].denom = entries[n].denom
           /\ entries'[n].hasSig = entries[n].hasSig \cup (ins \cap entries[n].sev)
  BY <1>1, <1>3 DEF Entry, EntriesType
<1>5. EntriesType(entries')
  BY <1>1, <1>3, <1>4 DEF EntriesType
<1>6. /\ finalTransaction' \in Transaction /\ finalTransaction'.vin = finalTransaction.vin
      /\ finalTransaction'.signed
           = finalTransaction.signed \cup {x \in finalTransaction.vin : x[2] \in ins}
  BY <1>1 DEF IInv, TypeOK, Transaction
<1>7. TypeOK'
  BY <1>1, <1>2, <1>5, <1>6 DEF IInv, TypeOK, EntriesType, Message
<1>8. EntriesUniform'
  BY <1>4 DEF IInv, EntriesUniform
<1>9. SignaturesKept'
  <2>1. Signed(entries') \subseteq Signed(entries) \cup {x \in Slot \X Input : x[2] \in ins}
    BY <1>4 DEF Signed
  <2>2. finalTransaction.vin \cap Signed(entries) \subseteq finalTransaction.signed
    BY DEF IInv, SignaturesKept
  <2>3. finalTransaction'.vin \cap Signed(entries') \subseteq finalTransaction'.signed
    BY <1>6, <2>1, <2>2
  <2> QED  BY <2>3 DEF SignaturesKept, Signed
<1>10. UsersBacked' /\ AddingFits'
  BY <1>1, <1>2 DEF IInv, UsersBacked, AddingFits
<1> QED  BY <1>7, <1>8, <1>9, <1>10 DEF IInv

\* The transaction is made with the signatures the entries have.
LEMMA MergeKeeps ==
  ASSUME IInv, Merge
  PROVE  IInv'
<1>1. /\ msg = "signing" /\ state' = "SIGNING" /\ msg' = "dsf"
      /\ finalTransaction' = Merged(entries)
      /\ UNCHANGED <<sessionUsers, sessionDenom, vecSessionCollateral, entries, age, adding,
                     timer>>
  BY DEF Merge
<1>2. finalTransaction' \in Transaction /\ finalTransaction'.signed = Signed(entries)
  BY <1>1, MergedType
<1>3. TypeOK'
  BY <1>1, <1>2 DEF IInv, TypeOK, Message, Status
<1>4. SignaturesKept'
  BY <1>1, <1>2 DEF SignaturesKept, Signed
<1>5. UsersBacked' /\ EntriesUniform' /\ AddingFits'
  BY <1>1 DEF IInv, UsersBacked, EntriesUniform, AddingFits
<1> QED  BY <1>3, <1>4, <1>5 DEF IInv

\* The message thread goes on.
LEMMA MessageKeeps ==
  ASSUME IInv, MessageGoesOn
  PROVE  IInv'
<1>1. /\ state \in Status /\ age \in 0 .. QueueTimeout /\ 0 \in 0 .. QueueTimeout
      /\ timer \in Timer /\ msg \in Message
  BY ConstantTypes DEF IInv, TypeOK
<1>2. CASE BeginQueue
  BY <1>1, <1>2, ControlKeeps DEF BeginQueue, BeginState, Message
<1>3. CASE Finalize
  BY <1>1, <1>3, ControlKeeps DEF Finalize, Message, Status
<1>4. CASE Relayed
  <2>1. age' \in 0 .. QueueTimeout /\ msg' \in {"transmission", "idle"}
    BY <1>4, CheckSignedStep DEF Relayed, IInv
  <2> QED  BY <1>1, <1>4, <2>1, ControlKeeps DEF Relayed, Message
<1>5. CASE Transmit
  BY <1>1, <1>5, ControlKeeps DEF Transmit, Message, Status
<1>6. CASE FinishRefused
  BY <1>1, <1>6, ControlKeeps DEF FinishRefused, Message, Status
<1>7. CASE FinishSending
  <2>1. msg = "send" /\ msg' \in {"refused", "idle"} /\ UNCHANGED <<adding, timer>>
    BY <1>7 DEF FinishSending
  <2>2. CASE SetNull
    BY <1>1, <2>1, <2>2, ClearedKeeps DEF SetNull, Message, Status
  <2>3. CASE UNCHANGED session
    BY <1>1, <2>1, <2>3, ControlKeeps DEF session, Message
  <2> QED  BY <1>7, <2>2, <2>3 DEF FinishSending
<1> QED  BY <1>2, <1>3, <1>4, <1>5, <1>6, <1>7, FinishAcceptKeeps, FinishEntryKeeps, MergeKeeps
           DEF MessageGoesOn

\* An entry less disturbs nothing.
LEMMA ExpireKeeps ==
  ASSUME IInv, NEW n \in Slot, ExpireEntry(n)
  PROVE  IInv'
<1>1. /\ entries' = [m \in DOMAIN entries \ {n} |-> entries[m]]
      /\ UNCHANGED <<state, sessionUsers, sessionDenom, vecSessionCollateral,
                     finalTransaction, age, adding, msg>>
  BY DEF ExpireEntry
<1>2. timer' \in Timer
  BY DEF ExpireEntry, Timer
<1>3. EntriesType(entries)
  BY DEF IInv, TypeOK, EntriesType
<1>4. /\ DOMAIN entries' \subseteq DOMAIN entries
      /\ \A m \in DOMAIN entries' : entries'[m] = entries[m]
      /\ EntriesType(entries')
  BY <1>1, <1>3 DEF EntriesType
<1>5. TypeOK'
  BY <1>1, <1>2, <1>4 DEF IInv, TypeOK, EntriesType
<1>6. UsersBacked' /\ EntriesUniform'
  BY <1>1, <1>4 DEF IInv, UsersBacked, EntriesUniform
<1>7. Signed(entries') \subseteq Signed(entries)
  BY <1>4 DEF Signed
<1>8. SignaturesKept'
  BY <1>1, <1>7 DEF IInv, SignaturesKept, Signed
<1>9. AddingFits'
  BY <1>1, <1>4 DEF IInv, AddingFits, IsCompatibleWithEntries
<1> QED  BY <1>5, <1>6, <1>8, <1>9 DEF IInv

\* The thread that watches the clock.
LEMMA TimerKeeps ==
  ASSUME IInv, CheckTimeout \/ CheckForCompleteQueue \/ TimerGoesOn \/ Reset
  PROVE  IInv'
<1>1. /\ state \in Status /\ age \in 0 .. QueueTimeout /\ 0 \in 0 .. QueueTimeout
      /\ timer \in Timer /\ msg \in Message
  BY ConstantTypes DEF IInv, TypeOK
<1>2. CASE CheckTimeout
  BY <1>1, <1>2, ControlKeeps DEF CheckTimeout, EndOfTimeout, session, Timer
<1>3. CASE CheckForCompleteQueue
  BY <1>1, <1>3, ControlKeeps DEF CheckForCompleteQueue, Timer
<1>4. CASE EndExpiring
  BY <1>1, <1>4, ControlKeeps DEF EndExpiring, EndOfTimeout, session, Timer
<1>5. CASE OpenQueue
  BY <1>1, <1>5, ControlKeeps DEF OpenQueue, Timer, Status
<1>6. CASE FinishEmptied \/ FinishTimeout \/ Reset
  <2>1. SetNull /\ UNCHANGED <<adding, msg>> /\ timer' \in Timer
    BY <1>1, <1>6 DEF FinishEmptied, FinishTimeout, Reset, Timer
  <2> QED  BY <1>1, <2>1, ClearedKeeps DEF SetNull, Status
<1>7. CASE \E n \in Slot : n \in DOMAIN entries /\ ExpireEntry(n)
  BY <1>7, ExpireKeeps
<1> QED  BY <1>2, <1>3, <1>4, <1>5, <1>6, <1>7 DEF TimerGoesOn

LEMMA TickKeeps ==
  ASSUME IInv, Tick
  PROVE  IInv'
<1>1. /\ age' = IF age < QueueTimeout THEN age + 1 ELSE age
      /\ entries' = [n \in DOMAIN entries |->
                       [entries[n] EXCEPT !.age = IF @ <= QueueTimeout THEN @ + 1 ELSE @]]
      /\ UNCHANGED <<state, sessionUsers, sessionDenom, vecSessionCollateral,
                     finalTransaction, adding, msg, timer>>
  BY DEF Tick
<1>2. EntriesType(entries)
  BY DEF IInv, TypeOK, EntriesType
<1>3. /\ DOMAIN entries' = DOMAIN entries
      /\ \A n \in DOMAIN entries :
           /\ entries'[n] \in Entry /\ entries'[n].denom = entries[n].denom
           /\ entries'[n].hasSig = entries[n].hasSig
  BY <1>1, <1>2, ConstantTypes DEF EntriesType, Entry
<1>4. EntriesType(entries')
  BY <1>1, <1>2, <1>3 DEF EntriesType
<1>5. age' \in 0 .. QueueTimeout
  BY <1>1, ConstantTypes DEF IInv, TypeOK
<1>6. TypeOK'
  BY <1>1, <1>4, <1>5 DEF IInv, TypeOK, EntriesType
<1>7. Signed(entries') = Signed(entries)
  BY <1>3 DEF Signed
<1>8. SignaturesKept'
  BY <1>1, <1>7 DEF IInv, SignaturesKept, Signed
<1>9. UsersBacked' /\ EntriesUniform'
  BY <1>1, <1>3 DEF IInv, UsersBacked, EntriesUniform
<1>10. AddingFits'
  BY <1>1, <1>3 DEF IInv, AddingFits, IsCompatibleWithEntries
<1> QED  BY <1>6, <1>8, <1>9, <1>10 DEF IInv

LEMMA StepInv == IInv /\ [Next]_vars => IInv'
<1> SUFFICES ASSUME IInv, [Next]_vars PROVE IInv'
  OBVIOUS
<1>1. CASE \E d \in Denom : AcceptFirst(d) \/ AcceptLater(d)
  BY <1>1, AcceptFirstKeeps, AcceptLaterKeeps
<1>2. CASE \E ins \in Submission, d \in Denom : BeginEntry(ins, d)
  BY <1>2, BeginKeeps
<1>3. CASE \E ins \in (SUBSET Input) \ {{}} : AddScriptSig(ins)
  BY <1>3, ScriptSigKeeps
<1>4. CASE MessageGoesOn
  BY <1>4, MessageKeeps
<1>5. CASE CheckTimeout \/ CheckForCompleteQueue \/ TimerGoesOn \/ Reset
  BY <1>5, TimerKeeps
<1>6. CASE Tick
  BY <1>6, TickKeeps
<1>7. CASE UNCHANGED vars
  BY <1>7, ControlKeeps DEF vars, session, IInv, TypeOK
<1> QED  BY <1>1, <1>2, <1>3, <1>4, <1>5, <1>6, <1>7 DEF Next

-----------------------------------------------------------------------------
(* The theorems. *)

\* The inductive invariant holds of every state of a session.
THEOREM Invariance == Spec => []IInv
BY InitInv, StepInv, PTL DEF Spec

\* The fields of CDarksendPool stay in their ranges; in particular the pool
\* never holds more entries than a session has users, and sessionUsers, which
\* every refused "dsi" lowers, never falls below -1.
THEOREM TypeCorrect == Spec => []TypeOK
<1>1. IInv => TypeOK
  BY DEF IInv
<1> QED  BY <1>1, Invariance, PTL

\* Every user counted in sessionUsers has given a collateral since SetNull, or
\* IsCompatibleWithSession is about to note it.
THEOREM UsersAreBacked == Spec => []UsersBacked
<1>1. IInv => UsersBacked
  BY DEF IInv
<1> QED  BY <1>1, Invariance, PTL

\* The entries AddEntry has let in have the same denominations.
THEOREM EntriesAreUniform == Spec => []EntriesUniform
<1>1. IInv => EntriesUniform
  BY DEF IInv
<1> QED  BY <1>1, Invariance, PTL

\* No signature that AddSig has noted in an entry is missing in the final
\* transaction, if the entry is part of it.
THEOREM SignaturesAreKept == Spec => []SignaturesKept
<1>1. IInv => SignaturesKept
  BY DEF IInv
<1> QED  BY <1>1, Invariance, PTL

=============================================================================
