------------------------ MODULE PositionTableProofs ------------------------
(***************************************************************************)
(* What storePosition does to a table, for every number of slots and of    *)
(* positions.                                                              *)
(***************************************************************************)
EXTENDS PositionTable, WellFoundedInduction, TLAPS

\* Storing a reading in a slot that is empty or of the same node leaves a slot
\* that is of that node throughout, within bounds and no shorter.
LEMMA StoredSlot ==
  ASSUME NEW slot \in History, NEW d \in GPSData,
         slot.count = 0 \/ slot.positions[0].nodeID = d.nodeID,
         \A k \in 0 .. slot.count - 1 :
           /\ slot.positions[k] \in GPSData
           /\ slot.positions[k].nodeID = slot.positions[0].nodeID
  PROVE  /\ Stored(slot, d) \in History
         /\ Stored(slot, d).count > 0
         /\ Stored(slot, d).count >= slot.count
         /\ Stored(slot, d).positions[0].nodeID = d.nodeID
         /\ \A k \in 0 .. Stored(slot, d).count - 1 :
              /\ Stored(slot, d).positions[k] \in GPSData
              /\ Stored(slot, d).positions[k].nodeID = d.nodeID
<1> USE DEF Places
<1>1. MaxPositions \in Nat /\ MaxPositions >= 1
  BY MaxPositionsAssumption
<1>2. /\ slot.positions \in [Places -> GPSData \union {ZeroData}]
      /\ slot = [positions |-> slot.positions, count |-> slot.count]
  BY DEF History
<1>3. slot.count \in Nat /\ slot.count <= MaxPositions
  BY <1>1 DEF History
<1>4. slot.count < MaxPositions \/ slot.count = MaxPositions
  BY <1>1, <1>3
<1>5. ASSUME NEW new, new \in History, new.count > 0, new.count >= slot.count,
             \A k \in 0 .. new.count - 1 :
               /\ new.positions[k] \in GPSData
               /\ new.positions[k].nodeID = d.nodeID,
             Stored(slot, d) = new
      PROVE  /\ Stored(slot, d) \in History
             /\ Stored(slot, d).count > 0
             /\ Stored(slot, d).count >= slot.count
             /\ Stored(slot, d).positions[0].nodeID = d.nodeID
             /\ \A k \in 0 .. Stored(slot, d).count - 1 :
                  /\ Stored(slot, d).positions[k] \in GPSData
                  /\ Stored(slot, d).positions[k].nodeID = d.nodeID
  <2>1. new.count \in 0 .. MaxPositions
    BY <1>5 DEF History
  <2>2. 0 \in 0 .. new.count - 1
    BY <1>5, <2>1
  <2> QED
    BY <1>5, <2>2
<1>6. CASE slot.count < MaxPositions
  <2> DEFINE new == Appended(slot, d)
  <2>1. Stored(slot, d) = new
    BY <1>6 DEF Stored
  <2>2. new.count = slot.count + 1
    BY DEF Appended
  <2>3. new.positions = [slot.positions EXCEPT ![slot.count] = d]
    BY DEF Appended
  <2>4. \A k \in Places : new.positions[k]
                            = IF k = slot.count THEN d ELSE slot.positions[k]
    BY <1>2, <2>3
  <2>5. new \in History
    BY <1>1, <1>2, <1>3, <1>6 DEF Appended, History
  <2> HIDE DEF new
  <2>6. ASSUME NEW k \in 0 .. new.count - 1
        PROVE  /\ new.positions[k] \in GPSData
               /\ new.positions[k].nodeID = d.nodeID
    <3>1. k \in Places /\ k \in 0 .. slot.count
      BY <1>1, <1>3, <1>6, <2>2
    <3>2. CASE k = slot.count
      BY <2>4, <3>1, <3>2
    <3>3. CASE k # slot.count
      <4>1. k \in 0 .. slot.count - 1 /\ slot.count # 0
        BY <1>3, <3>1, <3>3
      <4>2. new.positions[k] = slot.positions[k]
        BY <2>4, <3>1, <3>3
      <4> QED
        BY <4>1, <4>2
    <3> QED
      BY <3>2, <3>3
  <2>7. new.count > 0 /\ new.count >= slot.count
    BY <1>3, <2>2
  <2> QED
    BY <1>5, <2>1, <2>5, <2>6, <2>7
<1>7. CASE slot.count = MaxPositions
  <2> DEFINE new == Shifted(slot, d)
  <2>1. Stored(slot, d) = new
    BY <1>1, <1>7 DEF Stored
  <2>2. new.count = slot.count
    BY <1>2 DEF Shifted
  <2>3. \A k \in Places : new.positions[k]
          = IF k = MaxPositions - 1 THEN d ELSE slot.positions[k + 1]
    BY <1>2 DEF Shifted
  <2>4. new \in History
    <3>1. new = [slot EXCEPT !.positions = new.positions]
      BY <1>2 DEF Shifted
    <3>2. new.positions = [k \in Places |-> new.positions[k]]
      BY <1>2 DEF Shifted
    <3>3. ASSUME NEW k \in Places
          PROVE  new.positions[k] \in GPSData \union {ZeroData}
      <4>1. k # MaxPositions - 1 => k + 1 \in Places
        BY <1>1
      <4> QED
        BY <1>2, <2>3, <4>1
    <3>4. new.positions \in [Places -> GPSData \union {ZeroData}]
      BY <3>2, <3>3
    <3> QED
      BY <1>2, <3>1, <3>4 DEF History
  <2> HIDE DEF new
  <2>5. slot.positions[0].nodeID = d.nodeID
    BY <1>1, <1>7
  <2>6. ASSUME NEW k \in 0 .. new.count - 1
        PROVE  /\ new.positions[k] \in GPSData
               /\ new.positions[k].nodeID = d.nodeID
    <3>1. k \in Places
      BY <1>1, <1>7, <2>2
    <3>2. CASE k = MaxPositions - 1
      BY <2>3, <3>1, <3>2
    <3>3. CASE k # MaxPositions - 1
      <4>1. k + 1 \in 0 .. slot.count - 1
        BY <1>1, <1>7, <3>1, <3>3
      <4>2. new.positions[k] = slot.positions[k + 1]
        BY <2>3, <3>1, <3>3
      <4> QED
        BY <2>5, <4>1, <4>2
    <3> QED
      BY <3>2, <3>3
  <2>7. new.count > 0 /\ new.count >= slot.count
    BY <1>1, <1>7, <2>2
  <2> QED
    BY <1>5, <2>1, <2>4, <2>6, <2>7
<1> QED
  BY <1>4, <1>6, <1>7

\* storePosition stays within the table.
LEMMA StorePositionType ==
  ASSUME NEW table \in Table, OneNode(table), NEW d \in GPSData
  PROVE  StorePosition(table, d) \in Table
<1> SUFFICES ASSUME NEW i \in Slots
             PROVE  StorePosition(table, d)[i] \in History
  BY DEF StorePosition, Table
<1>1. table[i] \in History
  BY DEF Table
<1>2. CASE Chosen(table, i, d)
  <2>1. StorePosition(table, d)[i] = Stored(table[i], d)
    BY <1>2 DEF StorePosition
  <2>2. table[i].count = 0 \/ table[i].positions[0].nodeID = d.nodeID
    BY <1>2 DEF Chosen, Takes
  <2>3. \A k \in 0 .. table[i].count - 1 :
           /\ table[i].positions[k] \in GPSData
           /\ table[i].positions[k].nodeID = table[i].positions[0].nodeID
    BY DEF OneNode, Held, Owner
  <2> QED
    BY <1>1, <2>1, <2>2, <2>3, StoredSlot
<1>3. CASE ~ Chosen(table, i, d)
  BY <1>1, <1>3 DEF StorePosition
<1> QED
  BY <1>2, <1>3

\* The one slot that storePosition changes, and how.
LEMMA StorePositionSlot ==
  ASSUME NEW table \in Table, OneNode(table), NEW d \in GPSData, NEW i \in Slots
  PROVE  /\ ~ Chosen(table, i, d) => StorePosition(table, d)[i] = table[i]
         /\ Chosen(table, i, d) =>
              /\ Used(StorePosition(table, d), i)
              /\ Owner(StorePosition(table, d), i) = d.nodeID
              /\ StorePosition(table, d)[i].count >= table[i].count
              /\ \A k \in Held(StorePosition(table, d), i) :
                   /\ StorePosition(table, d)[i].positions[k] \in GPSData
                   /\ StorePosition(table, d)[i].positions[k].nodeID = d.nodeID
<1>1. ASSUME ~ Chosen(table, i, d)
      PROVE  StorePosition(table, d)[i] = table[i]
  BY <1>1 DEF StorePosition
<1>2. ASSUME Chosen(table, i, d)
      PROVE  /\ Used(StorePosition(table, d), i)
             /\ Owner(StorePosition(table, d), i) = d.nodeID
             /\ StorePosition(table, d)[i].count >= table[i].count
             /\ \A k \in Held(StorePosition(table, d), i) :
                  /\ StorePosition(table, d)[i].positions[k] \in GPSData
                  /\ StorePosition(table, d)[i].positions[k].nodeID = d.nodeID
  <2>1. StorePosition(table, d)[i] = Stored(table[i], d)
    BY <1>2 DEF StorePosition
  <2>2. table[i].count = 0 \/ table[i].positions[0].nodeID = d.nodeID
    BY <1>2 DEF Chosen, Takes
  <2>3. \A k \in 0 .. table[i].count - 1 :
           /\ table[i].positions[k] \in GPSData
           /\ table[i].positions[k].nodeID = table[i].positions[0].nodeID
    BY DEF OneNode, Held, Owner
  <2>4. table[i] \in History
    BY DEF Table
  <2> QED
    BY <2>1, <2>2, <2>3, <2>4, StoredSlot DEF Used, Owner, Held
<1> QED
  BY <1>1, <1>2

\* What a slot holds after a reading was stored in it, it held before or is
\* that reading.
LEMMA StoredContents ==
  ASSUME NEW slot \in History, NEW d \in GPSData,
         NEW k \in 0 .. Stored(slot, d).count - 1
  PROVE  \/ Stored(slot, d).positions[k] = d
         \/ \E j \in 0 .. slot.count - 1 :
              Stored(slot, d).positions[k] = slot.positions[j]
<1> USE DEF Places
<1>1. MaxPositions \in Nat /\ MaxPositions >= 1
  BY MaxPositionsAssumption
<1>2. slot.positions \in [Places -> GPSData \union {ZeroData}]
  BY DEF History
<1>3. slot.count \in Nat /\ slot.count <= MaxPositions
  BY <1>1 DEF History
<1>4. slot.count < MaxPositions \/ slot.count = MaxPositions
  BY <1>1, <1>3
<1>5. CASE slot.count < MaxPositions
  <2>1. Stored(slot, d) = Appended(slot, d)
    BY <1>5 DEF Stored
  <2>2. /\ Appended(slot, d).count = slot.count + 1
        /\ Appended(slot, d).positions
             = [slot.positions EXCEPT ![slot.count] = d]
    BY DEF Appended
  <2>3. k \in Places /\ k \in 0 .. slot.count
    BY <1>1, <1>3, <1>5, <2>1, <2>2
  <2>4. Stored(slot, d).positions[k]
          = IF k = slot.count THEN d ELSE slot.positions[k]
    BY <1>2, <2>1, <2>2, <2>3
  <2>5. k # slot.count => k \in 0 .. slot.count - 1
    BY <1>3, <2>3
  <2> QED
    BY <2>4, <2>5
<1>6. CASE slot.count = MaxPositions
  <2>1. Stored(slot, d) = Shifted(slot, d)
    BY <1>1, <1>6 DEF Stored
  <2>2. /\ Shifted(slot, d).count = slot.count
        /\ Shifted(slot, d).positions
             = [l \in Places |-> IF l = MaxPositions - 1 THEN d
                                ELSE slot.positions[l + 1]]
    BY DEF Shifted, History
  <2>3. k \in Places
    BY <1>1, <1>6, <2>1, <2>2
  <2>4. Stored(slot, d).positions[k]
          = IF k = MaxPositions - 1 THEN d ELSE slot.positions[k + 1]
    BY <2>1, <2>2, <2>3
  <2>5. k # MaxPositions - 1 => k + 1 \in 0 .. slot.count - 1
    BY <1>1, <1>6, <2>3
  <2> QED
    BY <2>4, <2>5
<1> QED
  BY <1>4, <1>5, <1>6

\* storePosition brings nothing but its reading into the table.
LEMMA StorePositionContents ==
  ASSUME NEW table \in Table, OneNode(table), NEW d \in GPSData
  PROVE  Contents(StorePosition(table, d)) \subseteq Contents(table) \union {d}
<1> SUFFICES ASSUME NEW i \in Slots,
                    NEW k \in Held(StorePosition(table, d), i)
             PROVE  StorePosition(table, d)[i].positions[k]
                      \in Contents(table) \union {d}
  BY DEF Contents
<1>1. \A j \in Held(table, i) : table[i].positions[j] \in Contents(table)
  BY DEF Contents
<1>2. CASE Chosen(table, i, d)
  <2>1. StorePosition(table, d)[i] = Stored(table[i], d)
    BY <1>2 DEF StorePosition
  <2>2. table[i] \in History
    BY DEF Table
  <2>3. k \in 0 .. Stored(table[i], d).count - 1
    BY <2>1 DEF Held
  <2>4. \/ Stored(table[i], d).positions[k] = d
        \/ \E j \in 0 .. table[i].count - 1 :
             Stored(table[i], d).positions[k] = table[i].positions[j]
    BY <2>2, <2>3, StoredContents
  <2> QED
    BY <1>1, <2>1, <2>4 DEF Held
<1>3. CASE ~ Chosen(table, i, d)
  BY <1>1, <1>3 DEF StorePosition, Held
<1> QED
  BY <1>2, <1>3

\* storePosition keeps a table well formed.
LEMMA StorePositionWellFormed ==
  ASSUME NEW table \in Table, WellFormed(table), NEW d \in GPSData
  PROVE  WellFormed(StorePosition(table, d))
<1> DEFINE new == StorePosition(table, d)
<1> USE DEF WellFormed
<1>1. \A i \in Slots :
        /\ ~ Chosen(table, i, d) => new[i] = table[i]
        /\ Chosen(table, i, d) =>
             /\ Used(new, i)
             /\ Owner(new, i) = d.nodeID
             /\ \A k \in Held(new, i) : /\ new[i].positions[k] \in GPSData
                                        /\ new[i].positions[k].nodeID = d.nodeID
  BY StorePositionSlot
<1>2. \A i \in Slots : table[i].count \in Nat
  BY MaxPositionsAssumption DEF Table, History
<1> HIDE DEF new
<1>3. \A i, j \in Slots : Chosen(table, j, d) /\ i < j =>
        Used(table, i) /\ Owner(table, i) # d.nodeID
  BY <1>2 DEF Chosen, Takes, Used, Owner, Slots
<1>4. \A i, j \in Slots : Chosen(table, i, d) /\ Chosen(table, j, d) => i = j
  BY DEF Chosen, Slots
<1>5. UsedFirst(new)
  <2> SUFFICES ASSUME NEW i \in Slots, NEW j \in Slots, i < j, Used(new, j)
               PROVE  Used(new, i)
    BY DEF UsedFirst
  <2>1. CASE Chosen(table, i, d)
    BY <1>1, <2>1
  <2>2. CASE ~ Chosen(table, i, d) /\ Chosen(table, j, d)
    BY <1>1, <1>3, <2>2 DEF Used
  <2>3. CASE ~ Chosen(table, i, d) /\ ~ Chosen(table, j, d)
    BY <1>1, <2>3 DEF Used, UsedFirst
  <2> QED
    BY <2>1, <2>2, <2>3
<1>6. OneNode(new)
  <2> SUFFICES ASSUME NEW i \in Slots, NEW k \in Held(new, i)
               PROVE  /\ new[i].positions[k] \in GPSData
                      /\ new[i].positions[k].nodeID = Owner(new, i)
    BY DEF OneNode
  <2>1. CASE Chosen(table, i, d)
    BY <1>1, <2>1
  <2>2. CASE ~ Chosen(table, i, d)
    BY <1>1, <2>2 DEF OneNode, Held, Owner
  <2> QED
    BY <2>1, <2>2
<1>7. OneSlot(new)
  <2> SUFFICES ASSUME NEW i \in Slots, NEW j \in Slots, i < j,
                      Used(new, i), Used(new, j)
               PROVE  Owner(new, i) # Owner(new, j)
    BY DEF OneSlot, Slots
  <2>1. CASE Chosen(table, i, d)
    <3>1. new[j] = table[j]
      BY <1>1, <1>4, <2>1 DEF Slots
    <3>2. Used(table, j)
      BY <3>1 DEF Used
    <3>3. CASE Used(table, i)
      \* slot i was of d's node already, and no other slot is
      <4>1. Owner(table, i) = d.nodeID
        BY <1>2, <2>1, <3>3 DEF Chosen, Takes, Used, Owner
      <4>2. Owner(table, j) # Owner(table, i)
        BY <3>2, <3>3 DEF OneSlot, Slots
      <4> QED
        BY <1>1, <2>1, <3>1, <4>1, <4>2 DEF Owner
    <3>4. CASE ~ Used(table, i)
      BY <3>2, <3>4 DEF UsedFirst
    <3> QED
      BY <3>3, <3>4
  <2>2. CASE Chosen(table, j, d)
    <3>1. new[i] = table[i] /\ Owner(table, i) # d.nodeID
      BY <1>1, <1>3, <1>4, <2>2 DEF Slots
    <3> QED
      BY <1>1, <2>2, <3>1 DEF Owner
  <2>3. CASE ~ Chosen(table, i, d) /\ ~ Chosen(table, j, d)
    BY <1>1, <2>3 DEF Used, Owner, OneSlot, Slots
  <2> QED
    BY <2>1, <2>2, <2>3
<1> QED
  BY <1>5, <1>6, <1>7 DEF new

\* The least slot of a set of slots: where a scan from slot 0 stops.
LEMMA FirstSlot ==
  ASSUME NEW S, S \subseteq Slots, S # {}
  PROVE  \E i \in S : \A j \in S : ~ (j < i)
<1>1. S \subseteq Nat
  BY DEF Slots
<1>2. PICK i \in S : \A j \in S : <<j, i>> \notin OpToRel(<, Nat)
  BY <1>1, NatLessThanWellFounded, WFMin
<1>3. \A j \in S : j < i => <<j, i>> \in OpToRel(<, Nat)
  BY <1>1 DEF OpToRel
<1> QED
  BY <1>2, <1>3

\* The reading just stored is the newest of its slot.
LEMMA StoredLast ==
  ASSUME NEW slot \in History, NEW d \in GPSData
  PROVE  /\ Stored(slot, d).count > 0
         /\ Stored(slot, d).positions[Stored(slot, d).count - 1] = d
<1>1. MaxPositions \in Nat /\ MaxPositions >= 1
  BY MaxPositionsAssumption
<1>2. /\ slot.positions \in [Places -> GPSData \union {ZeroData}]
      /\ slot = [positions |-> slot.positions, count |-> slot.count]
      /\ slot.count \in Nat /\ slot.count <= MaxPositions
  BY <1>1 DEF History
<1>3. CASE slot.count < MaxPositions
  <2>1. Stored(slot, d) = Appended(slot, d)
    BY <1>3 DEF Stored
  <2>2. /\ Appended(slot, d).count = slot.count + 1
        /\ Appended(slot, d).positions = [slot.positions EXCEPT ![slot.count] = d]
    BY DEF Appended
  <2>3. slot.count \in Places
    BY <1>1, <1>2, <1>3 DEF Places
  <2> QED
    BY <1>2, <2>1, <2>2, <2>3
<1>4. CASE slot.count = MaxPositions
  <2>1. Stored(slot, d) = Shifted(slot, d)
    BY <1>1, <1>4 DEF Stored
  <2>2. /\ Shifted(slot, d).count = slot.count
        /\ \A k \in Places : Shifted(slot, d).positions[k]
             = IF k = MaxPositions - 1 THEN d ELSE slot.positions[k + 1]
    BY <1>2 DEF Shifted
  <2>3. MaxPositions - 1 \in Places
    BY <1>1 DEF Places
  <2> QED
    BY <1>1, <1>4, <2>1, <2>2, <2>3
<1> QED
  BY <1>1, <1>2, <1>3, <1>4

\* storePosition records a reading as the newest of a slot, unless every slot
\* is another node's.
LEMMA StorePositionRecords ==
  ASSUME NEW table \in Table, NEW d \in GPSData
  PROVE  LET new == StorePosition(table, d)
         IN \/ \E i \in Slots : /\ Used(new, i)
                                /\ new[i].positions[new[i].count - 1] = d
            \/ \A i \in Slots : Used(new, i) /\ Owner(new, i) # d.nodeID
<1> DEFINE new == StorePosition(table, d)
           Taking == {i \in Slots : Takes(table, i, d)}
<1>1. \A i \in Slots : table[i] \in History /\ table[i].count \in Nat
  BY MaxPositionsAssumption DEF Table, History
<1>2. CASE Taking # {}
  <2>1. PICK i \in Taking : \A j \in Taking : ~ (j < i)
    BY <1>2, FirstSlot
  <2>2. i \in Slots /\ \A j \in 0 .. i - 1 : j \in Slots /\ j < i
    BY NumSlotsAssumption DEF Slots
  <2>3. Chosen(table, i, d)
    BY <2>1, <2>2 DEF Chosen
  <2>4. new[i] = Stored(table[i], d)
    BY <2>2, <2>3 DEF StorePosition
  <2>5. Used(new, i) /\ new[i].positions[new[i].count - 1] = d
    BY <1>1, <2>2, <2>4, StoredLast DEF Used
  <2> QED
    BY <2>2, <2>5
<1>3. CASE Taking = {}
  <2>1. \A i \in Slots : ~ Takes(table, i, d)
    BY <1>3
  <2>2. \A i \in Slots : new[i] = table[i]
    BY <2>1 DEF StorePosition, Chosen
  <2>3. \A i \in Slots : Used(table, i) /\ Owner(table, i) # d.nodeID
    BY <1>1, <2>1 DEF Takes, Used, Owner
  <2> QED
    BY <2>2, <2>3 DEF Used, Owner
<1> QED
  BY <1>2, <1>3

\* A slot into which a reading is stored that is newer than all of it stays
\* in order.
LEMMA StoredInOrder ==
  ASSUME NEW slot \in History, NEW d \in GPSData,
         \A j, k \in 0 .. slot.count - 1 :
           j < k => slot.positions[j].reading[2] < slot.positions[k].reading[2],
         \A j \in 0 .. slot.count - 1 :
           slot.positions[j].reading[2] < d.reading[2]
  PROVE  \A j, k \in 0 .. Stored(slot, d).count - 1 :
           j < k => Stored(slot, d).positions[j].reading[2]
                      < Stored(slot, d).positions[k].reading[2]
<1> USE DEF Places
<1>1. MaxPositions \in Nat /\ MaxPositions >= 1
  BY MaxPositionsAssumption
<1>2. /\ slot.positions \in [Places -> GPSData \union {ZeroData}]
      /\ slot.count \in Nat /\ slot.count <= MaxPositions
  BY <1>1 DEF History
<1>3. SUFFICES ASSUME NEW j \in 0 .. Stored(slot, d).count - 1,
                      NEW k \in 0 .. Stored(slot, d).count - 1, j < k
               PROVE  Stored(slot, d).positions[j].reading[2]
                        < Stored(slot, d).positions[k].reading[2]
  OBVIOUS
<1>4. CASE slot.count < MaxPositions
  <2>1. Stored(slot, d) = Appended(slot, d)
    BY <1>4 DEF Stored
  <2>2. /\ Appended(slot, d).count = slot.count + 1
        /\ Appended(slot, d).positions
             = [slot.positions EXCEPT ![slot.count] = d]
    BY DEF Appended
  <2>3. j \in 0 .. slot.count - 1 /\ k \in Places /\ k \in 0 .. slot.count
    BY <1>1, <1>2, <1>3, <1>4, <2>1, <2>2
  <2>4. Stored(slot, d).positions[j] = slot.positions[j]
    BY <1>1, <1>2, <2>1, <2>2, <2>3
  <2>5. Stored(slot, d).positions[k]
          = IF k = slot.count THEN d ELSE slot.positions[k]
    BY <1>2, <2>1, <2>2, <2>3
  <2>6. k # slot.count => k \in 0 .. slot.count - 1
    BY <1>2, <2>3
  <2> QED
    BY <1>3, <2>3, <2>4, <2>5, <2>6
<1>5. CASE slot.count = MaxPositions
  <2>1. Stored(slot, d) = Shifted(slot, d)
    BY <1>1, <1>5 DEF Stored
  <2>2. /\ Shifted(slot, d).count = slot.count
        /\ Shifted(slot, d).positions
             = [l \in Places |-> IF l = MaxPositions - 1 THEN d
                                 ELSE slot.positions[l + 1]]
    BY DEF Shifted, History
  <2>3. /\ j \in Places /\ k \in Places /\ j + 1 \in 0 .. slot.count - 1
        /\ j # MaxPositions - 1
    BY <1>1, <1>3, <1>5, <2>1, <2>2
  <2>4. Stored(slot, d).positions[j] = slot.positions[j + 1]
    BY <2>1, <2>2, <2>3
  <2>5. Stored(slot, d).positions[k]
          = IF k = MaxPositions - 1 THEN d ELSE slot.positions[k + 1]
    BY <2>1, <2>2, <2>3
  <2>6. k # MaxPositions - 1 => k + 1 \in 0 .. slot.count - 1 /\ j + 1 < k + 1
    BY <1>1, <1>3, <1>5, <2>3
  <2> QED
    BY <2>3, <2>4, <2>5, <2>6
<1> QED
  BY <1>1, <1>2, <1>4, <1>5

\* The zeroed table is well formed.
LEMMA EmptyTableWellFormed == EmptyTable \in Table /\ WellFormed(EmptyTable)
<1>1. EmptyTable \in Table
  BY MaxPositionsAssumption DEF EmptyTable, Table, History
<1>2. \A i \in Slots : EmptyTable[i].count = 0
  BY DEF EmptyTable
<1> QED
  BY <1>1, <1>2 DEF WellFormed, UsedFirst, OneSlot, OneNode, Used, Held

=============================================================================
