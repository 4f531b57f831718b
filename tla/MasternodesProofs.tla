------------------------- MODULE MasternodesProofs --------------------------
(***************************************************************************)
(* Proofs about Masternodes, for any collaterals, owners and limits: the   *)
(* list stays well typed through every erasure and every write through a   *)
(* pointer that has lost its entry, and no collateral is listed twice.     *)
(* The two are inductive together.                                         *)
(***************************************************************************)
EXTENDS Masternodes, FiniteSetTheorems, TLAPS

Inv == TypeOK /\ UniqueVins

\* The invariant, of a list.
ListOK(list) ==
  /\ list \in Seq(Entry)
  /\ \A p, q \in 1 .. Len(list) : list[p].vin = list[q].vin => p = q

\* The types of the rest of the state.
BusyOK(p, o) == p \in Held \cup Entry \cup {None} /\ o \in OwnHeld \cup {None}

-----------------------------------------------------------------------------
(* Times. *)

LEMMA AgeType == 0 \in Age /\ Removal \in Age
BY MasternodesAssumption DEF Age

LEMMA OlderType ==
  ASSUME NEW a \in Age
  PROVE  Older(a) \in Age
BY MasternodesAssumption DEF Age, Older

-----------------------------------------------------------------------------
(* Lists. *)

\* One invariant in the terms of the other.
LEMMA InvAsList ==
  /\ Inv <=> ListOK(vMasternodes) /\ BusyOK(pending, own) /\ spent \subseteq Vin
  /\ Inv' <=> ListOK(vMasternodes') /\ BusyOK(pending', own') /\ spent' \subseteq Vin
BY DEF Inv, ListOK, BusyOK, TypeOK, UniqueVins, Positions

\* An entry is replaced by one of the same masternode.
LEMMA ReplaceKeeps ==
  ASSUME NEW list, ListOK(list),
         NEW p \in 1 .. Len(list), NEW e \in Entry, e.vin = list[p].vin
  PROVE  ListOK([list EXCEPT ![p] = e])
<1> DEFINE new == [list EXCEPT ![p] = e]
<1>1. list \in Seq(Entry)
  BY DEF ListOK
<1>2. new \in Seq(Entry) /\ Len(new) = Len(list)
  BY <1>1
<1>3. \A q \in 1 .. Len(list) : new[q] = IF q = p THEN e ELSE list[q]
  BY <1>1
<1> HIDE DEF new
<1> QED BY <1>2, <1>3 DEF ListOK, new

\* An entry is appended whose vin is not listed.
LEMMA AppendKeeps ==
  ASSUME NEW list, ListOK(list), NEW e \in Entry,
         \A p \in 1 .. Len(list) : list[p].vin # e.vin
  PROVE  ListOK(Append(list, e))
<1> DEFINE new == Append(list, e)
<1>1. list \in Seq(Entry) /\ Len(list) \in Nat
  BY DEF ListOK
<1>2. /\ new \in Seq(Entry) /\ Len(new) = Len(list) + 1
      /\ new[Len(list) + 1] = e
      /\ \A q \in 1 .. Len(list) : new[q] = list[q]
  BY <1>1
<1>3. \A q \in 1 .. Len(new) : q \in 1 .. Len(list) \/ q = Len(list) + 1
  BY <1>1, <1>2
<1> HIDE DEF new
<1> QED BY <1>2, <1>3 DEF ListOK, new

\* vector::erase keeps the entries it does not erase, each once.
LEMMA EraseKeeps ==
  ASSUME NEW list, ListOK(list),
         NEW keep \in SUBSET (1 .. Len(list)), NEW new \in Erased(list, keep)
  PROVE  ListOK(new)
<1>1. list \in Seq(Entry) /\ Len(list) \in Nat
  BY DEF ListOK
<1>2. IsFiniteSet(keep)
  <2>1. IsFiniteSet(1 .. Len(list))
    BY <1>1, FS_Interval
  <2> QED BY <2>1, FS_Subset
<1> DEFINE n == Cardinality(keep)
<1>3. n \in Nat
  BY <1>2, FS_CardinalityType
<1> HIDE DEF n
<1>4. PICK order \in [1 .. n -> keep] :
        /\ \A i, j \in 1 .. n : i < j => order[i] < order[j]
        /\ new = [i \in 1 .. n |-> list[order[i]]]
  BY DEF Erased, InOrder, n
<1>5. ASSUME NEW i \in 1 .. n PROVE order[i] \in 1 .. Len(list) /\ list[order[i]] \in Entry
  <2>1. order[i] \in 1 .. Len(list)
    BY <1>4
  <2> QED BY <1>1, <2>1
<1>6. new \in Seq(Entry) /\ Len(new) = n
  BY <1>3, <1>4, <1>5
<1>7. ASSUME NEW i \in 1 .. n, NEW j \in 1 .. n, order[i] = order[j] PROVE i = j
  BY <1>4, <1>5, <1>7
<1>8. \A i \in 1 .. n : new[i] = list[order[i]]
  BY <1>4
<1>9. \A p, q \in 1 .. n : new[p].vin = new[q].vin => p = q
  <2> SUFFICES ASSUME NEW p \in 1 .. n, NEW q \in 1 .. n, new[p].vin = new[q].vin PROVE p = q
    OBVIOUS
  <2>1. order[p] = order[q]
    BY <1>5, <1>8 DEF ListOK
  <2> QED BY <1>7, <2>1
<1> QED BY <1>6, <1>9 DEF ListOK

-----------------------------------------------------------------------------
(* Entries and pointers. *)

\* An entry that is not yet listed, as the constructor makes it.
LEMMA NewEntryType ==
  ASSUME NEW v \in Vin, NEW a \in Age
  PROVE  NewEntry(v, a) \in Entry /\ NewEntry(v, a).vin = v
BY DEF NewEntry, Entry, State

\* Check changes nothing but the state.
LEMMA CheckedType ==
  ASSUME NEW e \in Entry
  PROVE  \A x \in Check(e) \cup {Checked(e)} : x \in Entry /\ x.vin = e.vin
<1> DEFINE s == Checked(e).activeState
<1>1. Checked(e) = [e EXCEPT !.activeState = s] /\ s \in State
  BY DEF Checked, State, Entry
<1> HIDE DEF s
<1>2. Checked(e) \in Entry /\ Checked(e).vin = e.vin
  BY <1>1 DEF Entry
<1> QED BY <1>2 DEF Check

\* An entry with another age, or another owner's announcement.
LEMMA WrittenType ==
  ASSUME NEW e \in Entry, NEW a \in Age, NEW v \in Vin
  PROVE  /\ [e EXCEPT !.age = a] \in Entry /\ [e EXCEPT !.age = a].vin = e.vin
         /\ [e EXCEPT !.announced = v] \in Entry /\ [e EXCEPT !.announced = v].vin = e.vin
BY DEF Entry

LEMMA EntryAt ==
  ASSUME Inv, NEW p \in Positions
  PROVE  vMasternodes[p] \in Entry /\ vMasternodes[p].vin \in Vin /\ p \in 1 .. Len(vMasternodes)
<1>1. vMasternodes \in Seq(Entry) /\ p \in 1 .. Len(vMasternodes)
  BY DEF Inv, TypeOK, Positions
<1>2. vMasternodes[p] \in Entry
  BY <1>1
<1> QED BY <1>1, <1>2 DEF Entry

\* Whatever entry of the same masternode is written at p.
LEMMA WriteKeeps ==
  ASSUME Inv, NEW p \in Positions, NEW e \in Entry, e.vin = vMasternodes[p].vin
  PROVE  ListOK([vMasternodes EXCEPT ![p] = e])
BY EntryAt, InvAsList, ReplaceKeeps

\* A pointer whose vector may have been reallocated.
LEMMA MovedType ==
  /\ \A p \in Held \cup Entry \cup {None} : Moved(p, Held) \subseteq Held \cup Entry \cup {None}
  /\ \A o \in OwnHeld \cup {None} : Moved(o, OwnHeld) \subseteq OwnHeld \cup {None}
<1>1. \A p \in Held : [p EXCEPT !.pos = 0] \in Held
  BY DEF Held
<1>2. \A o \in OwnHeld : [o EXCEPT !.pos = 0] \in OwnHeld
  BY DEF OwnHeld
<1> QED BY <1>1, <1>2 DEF Moved

\* A message is dropped or goes on.
LEMMA DropOrType ==
  ASSUME pending \in Held, NEW step \in {"dsee", "connect", "dseep", "verify"}
  PROVE  \A q \in DropOr(step) : q \in Held \cup Entry \cup {None}
BY DEF DropOr, Held

\* Adding an entry, by the message thread or by Register.
LEMMA AddedKeeps ==
  ASSUME ListOK(vMasternodes), NEW e \in Entry
  PROVE  ListOK(Added(e))
BY AppendKeeps DEF Added, Listed, Positions

LEMMA RemovedKeeps ==
  ASSUME ListOK(vMasternodes), NEW v, NEW new \in Removed(v)
  PROVE  ListOK(new)
<1>1. {q \in Positions : vMasternodes[q].vin # v} \in SUBSET (1 .. Len(vMasternodes))
  BY DEF Positions
<1> QED BY <1>1, EraseKeeps DEF Removed

-----------------------------------------------------------------------------
(* Steps. *)

LEMMA FindKeeps ==
  ASSUME Inv,
         \/ \E v \in Vin : Dsee(v)
         \/ \E v \in Vin, stop \in BOOLEAN : Dseep(v, stop)
  PROVE  Inv'
<1>1. PICK step \in {"dsee", "dseep"}, v \in Vin, stop \in BOOLEAN : FindFor(step, v, stop)
  BY DEF Dsee, Dseep
<1>2. pending' \in Held
  <2>1. PICK p \in Positions : pending' = [step |-> step, vin |-> v, stop |-> stop, pos |-> p]
    BY <1>1 DEF FindFor
  <2>2. p \in Nat
    BY DEF Positions
  <2> QED BY <2>1, <2>2 DEF Held
<1> QED BY <1>1, <1>2, InvAsList DEF FindFor, BusyOK

LEMMA SeeAnnouncedKeeps ==
  ASSUME Inv, SeeAnnounced
  PROVE  Inv'
<1>1. pending \in Held /\ own' = own /\ spent' = spent
  BY DEF SeeAnnounced, Busy
<1>2. pending' \in Held \cup Entry \cup {None}
  BY <1>1, DropOrType DEF SeeAnnounced
<1>3. ListOK(vMasternodes')
  <2>1. CASE UNCHANGED vMasternodes
    BY <2>1, InvAsList
  <2>2. CASE /\ pending.pos \in Positions
             /\ vMasternodes' = [vMasternodes EXCEPT ![pending.pos].age = 0]
    <3> DEFINE p == pending.pos
               e == [vMasternodes[p] EXCEPT !.age = 0]
    <3>1. p \in Positions /\ vMasternodes' = [vMasternodes EXCEPT ![p] = e]
      BY <2>2
    <3>2. vMasternodes[p] \in Entry /\ vMasternodes[p].vin \in Vin
      BY <3>1, EntryAt
    <3> HIDE DEF p
    <3>3. e \in Entry /\ e.vin = vMasternodes[p].vin
      BY <3>2, WrittenType, AgeType
    <3> HIDE DEF e
    <3> QED BY <3>1, <3>3, WriteKeeps
  <2> QED BY <2>1, <2>2 DEF SeeAnnounced, InList
<1> QED BY <1>1, <1>2, <1>3, InvAsList DEF BusyOK

LEMMA FinishUpdateKeeps ==
  ASSUME Inv, FinishUpdate
  PROVE  Inv'
<1>1. pending \in Held /\ pending' = None /\ own' = own /\ spent' = spent
  BY DEF FinishUpdate, Busy
<1>2. CASE UNCHANGED vMasternodes
  BY <1>1, <1>2, InvAsList DEF BusyOK
<1>3. CASE /\ pending.pos \in Positions
           /\ \E e \in Check([vMasternodes[pending.pos] EXCEPT !.announced = pending.vin]) :
                vMasternodes' = [vMasternodes EXCEPT ![pending.pos] = e]
  <2> DEFINE p == pending.pos
             new == [vMasternodes[p] EXCEPT !.announced = pending.vin]
  <2>1. vMasternodes[p] \in Entry /\ pending.vin \in Vin /\ p \in Positions
    BY <1>1, <1>3, EntryAt DEF Held
  <2>2. PICK e \in Check(new) : vMasternodes' = [vMasternodes EXCEPT ![p] = e]
    BY <1>3
  <2> HIDE DEF p
  <2>3. new \in Entry /\ new.vin = vMasternodes[p].vin
    BY <2>1, WrittenType, AgeType
  <2> HIDE DEF new
  <2>4. e \in Entry /\ e.vin = vMasternodes[p].vin
    BY <2>2, <2>3, CheckedType
  <2>5. ListOK(vMasternodes')
    BY <2>1, <2>2, <2>4, WriteKeeps
  <2> QED BY <1>1, <2>5, InvAsList DEF BusyOK
<1> QED BY <1>2, <1>3 DEF FinishUpdate, InList

LEMMA AddKeeps ==
  ASSUME Inv,
         \/ \E v \in Vin, a \in Age : BeginAdd(v, a)
         \/ FinishAdd
  PROVE  Inv'
<1>1. ASSUME NEW v \in Vin, NEW a \in Age, BeginAdd(v, a) PROVE Inv'
  BY <1>1, NewEntryType, InvAsList DEF BeginAdd, BusyOK
<1>2. ASSUME FinishAdd PROVE Inv'
  <2>1. /\ pending \in Entry /\ pending' = None
        /\ vMasternodes' = Added(pending) /\ spent' = spent
        /\ own' = own \/ own' \in Moved(own, OwnHeld)
    BY <1>2 DEF FinishAdd
  <2>2. ListOK(vMasternodes')
    BY <2>1, InvAsList, AddedKeeps
  <2>3. own' \in OwnHeld \cup {None}
    BY <2>1, InvAsList, MovedType DEF BusyOK
  <2> QED BY <2>1, <2>2, <2>3, InvAsList DEF BusyOK
<1> QED BY <1>1, <1>2

LEMMA PingKeeps ==
  ASSUME Inv, ReadPing \/ FinishPing
  PROVE  Inv'
<1>0. pending \in Held /\ own' = own /\ spent' = spent
  BY DEF ReadPing, FinishPing, Busy
<1>1. ASSUME ReadPing PROVE Inv'
  BY <1>0, <1>1, DropOrType, InvAsList DEF ReadPing, BusyOK
<1>2. ASSUME FinishPing PROVE Inv'
  <2> DEFINE p == pending.pos
             e == vMasternodes[p]
  <2>1. /\ pending' = None
        /\ \/ UNCHANGED vMasternodes
           \/ /\ p \in Positions
              /\ \/ vMasternodes' = [vMasternodes EXCEPT ![p] = [e EXCEPT !.age = Removal]]
                 \/ \E x \in Check([e EXCEPT !.age = 0]) : vMasternodes' = [vMasternodes EXCEPT ![p] = x]
    BY <1>2 DEF FinishPing, InList
  <2> HIDE DEF p
  <2>2. CASE UNCHANGED vMasternodes
    BY <1>0, <2>1, <2>2, InvAsList DEF BusyOK
  <2>3. CASE p \in Positions /\ vMasternodes' = [vMasternodes EXCEPT ![p] = [e EXCEPT !.age = Removal]]
    <3> DEFINE y == [e EXCEPT !.age = Removal]
    <3>1. e \in Entry /\ e.vin \in Vin
      BY <2>3, EntryAt
    <3>2. y \in Entry /\ y.vin = vMasternodes[p].vin
      BY <3>1, WrittenType, AgeType
    <3> HIDE DEF y
    <3>3. ListOK([vMasternodes EXCEPT ![p] = y])
      BY <2>3, <3>2, WriteKeeps
    <3> QED BY <1>0, <2>1, <2>3, <3>3, InvAsList DEF y, BusyOK
  <2>4. CASE /\ p \in Positions
             /\ \E x \in Check([e EXCEPT !.age = 0]) : vMasternodes' = [vMasternodes EXCEPT ![p] = x]
    <3> DEFINE y == [e EXCEPT !.age = 0]
    <3>1. e \in Entry /\ e.vin \in Vin
      BY <2>4, EntryAt
    <3>2. y \in Entry /\ y.vin = vMasternodes[p].vin
      BY <3>1, WrittenType, AgeType
    <3>3. PICK x \in Check(y) : vMasternodes' = [vMasternodes EXCEPT ![p] = x]
      BY <2>4
    <3> HIDE DEF y
    <3>4. x \in Entry /\ x.vin = vMasternodes[p].vin
      BY <3>2, <3>3, CheckedType
    <3>5. ListOK(vMasternodes')
      BY <2>4, <3>3, <3>4, WriteKeeps
    <3> QED BY <1>0, <2>1, <3>5, InvAsList DEF BusyOK
  <2> QED BY <2>1, <2>2, <2>3, <2>4
<1> QED BY <1>1, <1>2

\* The node's own masternode, in its thread.
LEMMA SelfKeeps ==
  ASSUME Inv,
         \/ Register
         \/ \E stop \in BOOLEAN : DseepSelf(stop)
         \/ FinishSelf
  PROVE  Inv'
<1>1. ASSUME Register PROVE Inv'
  <2>1. /\ Self \in Vin /\ vMasternodes' = Added(NewEntry(Self, 0))
        /\ pending' \in Moved(pending, Held) /\ own' = own /\ spent' = spent
    BY <1>1, MasternodesAssumption DEF Register
  <2>2. NewEntry(Self, 0) \in Entry
    BY <2>1, NewEntryType, AgeType
  <2>3. ListOK(vMasternodes')
    BY <2>1, <2>2, InvAsList, AddedKeeps
  <2>4. pending' \in Held \cup Entry \cup {None}
    BY <2>1, InvAsList, MovedType DEF BusyOK
  <2> QED BY <2>1, <2>3, <2>4, InvAsList DEF BusyOK
<1>2. ASSUME NEW stop \in BOOLEAN, DseepSelf(stop) PROVE Inv'
  <2>1. own' \in OwnHeld
    BY <1>2 DEF DseepSelf, OwnHeld, Positions
  <2> QED BY <1>2, <2>1, InvAsList DEF DseepSelf, BusyOK
<1>3. ASSUME FinishSelf PROVE Inv'
  <2>1. /\ own' = None /\ pending' = pending /\ spent' = spent
        /\ \/ \E v : vMasternodes' \in Removed(v)
           \/ own.pos \in Positions /\ vMasternodes' = [vMasternodes EXCEPT ![own.pos].age = 0]
           \/ UNCHANGED vMasternodes
    BY <1>3 DEF FinishSelf, InList
  <2>2. CASE \E v : vMasternodes' \in Removed(v)
    <3>1. ListOK(vMasternodes')
      BY <2>2, InvAsList, RemovedKeeps
    <3> QED BY <2>1, <3>1, InvAsList DEF BusyOK
  <2>3. CASE own.pos \in Positions /\ vMasternodes' = [vMasternodes EXCEPT ![own.pos].age = 0]
    <3> DEFINE p == own.pos
               e == [vMasternodes[p] EXCEPT !.age = 0]
    <3>1. p \in Positions /\ vMasternodes' = [vMasternodes EXCEPT ![p] = e]
      BY <2>3
    <3>2. vMasternodes[p] \in Entry /\ vMasternodes[p].vin \in Vin
      BY <3>1, EntryAt
    <3> HIDE DEF p
    <3>3. e \in Entry /\ e.vin = vMasternodes[p].vin
      BY <3>2, WrittenType, AgeType
    <3> HIDE DEF e
    <3>4. ListOK(vMasternodes')
      BY <3>1, <3>3, WriteKeeps
    <3> QED BY <2>1, <3>4, InvAsList DEF BusyOK
  <2>4. CASE UNCHANGED vMasternodes
    BY <2>1, <2>4, InvAsList DEF BusyOK
  <2> QED BY <2>1, <2>2, <2>3, <2>4
<1> QED BY <1>1, <1>2, <1>3

\* Checked entries keep their vin; CheckAndRemove erases some of them.
LEMMA CheckKeeps ==
  ASSUME Inv,
         \/ \E p \in Positions : CheckOne(p)
         \/ \E locked \in SUBSET Positions : CheckAndRemove(locked)
  PROVE  Inv'
<1>0. /\ ListOK(vMasternodes)
      /\ pending' = pending /\ own' = own /\ spent' = spent
  BY InvAsList DEF CheckOne, CheckAndRemove
<1>1. ASSUME NEW p \in Positions, CheckOne(p) PROVE ListOK(vMasternodes')
  <2> DEFINE e == Checked(vMasternodes[p])
  <2>1. e \in Entry /\ e.vin = vMasternodes[p].vin
    BY EntryAt, CheckedType
  <2>2. vMasternodes' = [vMasternodes EXCEPT ![p] = e]
    BY <1>1 DEF CheckOne
  <2> HIDE DEF e
  <2> QED BY <2>1, <2>2, WriteKeeps
<1>2. ASSUME NEW locked \in SUBSET Positions, CheckAndRemove(locked)
      PROVE  ListOK(vMasternodes')
  <2> DEFINE list == [p \in Positions |->
                        IF p \in locked THEN Checked(vMasternodes[p]) ELSE vMasternodes[p]]
             keep == {p \in Positions : ~Removable(list[p])}
  <2>1. vMasternodes' \in Erased(list, keep)
    BY <1>2 DEF CheckAndRemove
  <2>2. ASSUME NEW p \in Positions
        PROVE  list[p] \in Entry /\ list[p].vin = vMasternodes[p].vin
    BY EntryAt, CheckedType
  <2>3. Len(vMasternodes) \in Nat /\ list = [p \in 1 .. Len(vMasternodes) |-> list[p]]
    BY <1>0 DEF Positions, ListOK
  <2>4. keep \in SUBSET (1 .. Len(vMasternodes))
    BY DEF Positions
  <2> HIDE DEF list, keep
  <2>5. list \in Seq(Entry) /\ Len(list) = Len(vMasternodes)
    BY <2>2, <2>3 DEF Positions
  <2>6. ListOK(list)
    BY <1>0, <2>2, <2>5 DEF ListOK, Positions
  <2> QED BY <2>1, <2>4, <2>5, <2>6, EraseKeeps
<1> QED BY <1>0, <1>1, <1>2, InvAsList

LEMMA TickKeeps ==
  ASSUME Inv, Tick
  PROVE  Inv'
<1>0. ListOK(vMasternodes) /\ BusyOK(pending, own) /\ spent \subseteq Vin
  BY InvAsList
<1>1. /\ vMasternodes' = [p \in Positions |->
             [vMasternodes[p] EXCEPT !.age = Older(vMasternodes[p].age)]]
      /\ pending' = IF pending \in Entry THEN [pending EXCEPT !.age = Older(pending.age)] ELSE pending
      /\ own' = own /\ spent' = spent
  BY DEF Tick
<1>2. ASSUME NEW e \in Entry
      PROVE  [e EXCEPT !.age = Older(e.age)] \in Entry /\ [e EXCEPT !.age = Older(e.age)].vin = e.vin
  <2>1. e.age \in Age /\ e.vin \in Vin
    BY DEF Entry
  <2>2. Older(e.age) \in Age
    BY <2>1, OlderType
  <2> QED BY <2>1, <2>2, WrittenType
<1>3. BusyOK(pending', own')
  BY <1>0, <1>1, <1>2 DEF BusyOK
<1>4. ASSUME NEW p \in Positions
      PROVE  vMasternodes'[p] \in Entry /\ vMasternodes'[p].vin = vMasternodes[p].vin
  BY <1>1, <1>2, EntryAt
<1>5. /\ Len(vMasternodes) \in Nat
      /\ vMasternodes' = [p \in 1 .. Len(vMasternodes) |-> vMasternodes'[p]]
  BY <1>0, <1>1 DEF Positions, ListOK
<1>6. vMasternodes' \in Seq(Entry) /\ Len(vMasternodes') = Len(vMasternodes)
  BY <1>4, <1>5 DEF Positions
<1>7. ListOK(vMasternodes')
  BY <1>0, <1>4, <1>6 DEF ListOK, Positions
<1> QED BY <1>0, <1>1, <1>3, <1>7, InvAsList

LEMMA InvStep == Inv /\ [Next]_vars => Inv'
<1> SUFFICES ASSUME Inv, [Next]_vars PROVE Inv'
  OBVIOUS
<1>1. ASSUME NEW v \in Vin, ChainChanges(v) PROVE Inv'
  BY <1>1, InvAsList DEF ChainChanges
<1>2. CASE UNCHANGED vars
  BY <1>2, InvAsList DEF vars
<1> QED BY <1>1, <1>2, FindKeeps, SeeAnnouncedKeeps, FinishUpdateKeeps, AddKeeps, PingKeeps,
           SelfKeeps, CheckKeeps, TickKeeps DEF Next

LEMMA Invariance == Spec => []Inv
<1>1. Init => Inv
  <2> SUFFICES ASSUME Init PROVE Inv
    OBVIOUS
  <2>1. ListOK(vMasternodes)
    BY DEF Init, ListOK
  <2> QED BY <2>1, InvAsList DEF Init, BusyOK
<1> QED BY <1>1, InvStep, PTL DEF Spec

-----------------------------------------------------------------------------
(* The theorems. *)

\* The list and what the two threads have under way are well typed, whatever
\* is erased, reallocated and written through a pointer while they wait.
THEOREM TypeCorrect == Spec => []TypeOK
<1>1. Inv => TypeOK
  BY DEF Inv
<1> QED BY <1>1, Invariance, PTL

\* Add looks for the vin once more after CheckNode, so no collateral is listed
\* twice although Register adds entries meanwhile; and no write through a
\* pointer that has lost its entry changes a vin.
THEOREM VinsAreUnique == Spec => []UniqueVins
<1>1. Inv => UniqueVins
  BY DEF Inv
<1> QED BY <1>1, Invariance, PTL
=============================================================================
