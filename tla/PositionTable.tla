--------------------------- MODULE PositionTable ---------------------------
(***************************************************************************)
(* nodeHistories, the table in which a mesh node keeps the positions it    *)
(* has heard: NumSlots slots (10 in the source), one per reporting node,   *)
(* of MaxPositions positions each (50).  This module has the values the    *)
(* table takes and storePosition, its only writer, as operators; they are  *)
(* shared by the module of one table and the module of the whole mesh.     *)
(***************************************************************************)
EXTENDS Naturals

CONSTANTS
  NodeID,      \* the values of GPSData.nodeID and GPSData.senderID
  Reading,     \* what else a GPSData carries: battery, place and time
  NoReading,   \* the reading of a zeroed GPSData
  NumSlots,
  MaxPositions

ASSUME NodeIDAssumption == NodeID \subseteq Nat
ASSUME ReadingAssumption == NoReading \notin Reading
ASSUME NumSlotsAssumption == NumSlots \in Nat \ {0}
\* NodeHistory.count is a uint8_t: a slot of 256 positions would wrap it.
ASSUME MaxPositionsAssumption == MaxPositions \in 1 .. 255

GPSData == [senderID : NodeID, nodeID : NodeID, reading : Reading]

ZeroData == [senderID |-> 0, nodeID |-> 0, reading |-> NoReading]

Slots == 0 .. NumSlots - 1

Places == 0 .. MaxPositions - 1

History == [positions : [Places -> GPSData \union {ZeroData}],
            count     : 0 .. MaxPositions]

Table == [Slots -> History]

\* A static object: the loader zeroes it.
EmptyTable == [i \in Slots |-> [positions |-> [k \in Places |-> ZeroData],
                                count     |-> 0]]

----------------------------------------------------------------------------
(* storePosition.  The loop takes the first slot that is empty or whose    *)
(* first position is of the same node, and breaks; when it finds none, the *)
(* reading is dropped.                                                     *)

\* Mutant: the slot is looked up by the relaying node.
TakesBySender(table, i, newData) ==
  \/ table[i].positions[0].nodeID = newData.senderID
  \/ table[i].count = 0

Takes(table, i, newData) ==
  \/ table[i].positions[0].nodeID = newData.nodeID
  \/ table[i].count = 0

\* Mutant: the break is missing, every slot that takes the reading stores it.
ChosenNoBreak(table, i, newData) == Takes(table, i, newData)

Chosen(table, i, newData) ==
  /\ Takes(table, i, newData)
  /\ \A j \in 0 .. i - 1 : ~ Takes(table, j, newData)

\* Mutant: the position is written, but not counted.
AppendedUncounted(slot, newData) ==
  [slot EXCEPT !.positions[slot.count] = newData]

Appended(slot, newData) ==
  [positions |-> [slot.positions EXCEPT ![slot.count] = newData],
   count     |-> slot.count + 1]

\* Mutant: the shift runs one place short, the oldest position stays.
ShiftedShort(slot, newData) ==
  [slot EXCEPT !.positions =
     [k \in Places |-> IF k = MaxPositions - 1 THEN newData
                       ELSE IF k = 0 THEN slot.positions[0]
                       ELSE slot.positions[k + 1]]]

\* Mutant: a full slot is emptied before the reading is stored.
ShiftedRestart(slot, newData) ==
  [positions |-> [slot.positions EXCEPT ![0] = newData], count |-> 1]

Shifted(slot, newData) ==
  [slot EXCEPT !.positions =
     [k \in Places |-> IF k = MaxPositions - 1 THEN newData
                                               ELSE slot.positions[k + 1]]]

\* Mutant: the bound is off by one.
StoredOffByOne(slot, newData) ==
  IF slot.count <= MaxPositions THEN Appended(slot, newData)
                                ELSE Shifted(slot, newData)

Stored(slot, newData) ==
  IF slot.count < MaxPositions THEN Appended(slot, newData)
                               ELSE Shifted(slot, newData)

StorePosition(table, newData) ==
  [i \in Slots |-> IF Chosen(table, i, newData) THEN Stored(table[i], newData)
                                                ELSE table[i]]

----------------------------------------------------------------------------
(* What makes a table well formed.                                         *)

Used(table, i) == table[i].count > 0

Owner(table, i) == table[i].positions[0].nodeID

Held(table, i) == 0 .. table[i].count - 1

\* All the positions in the table.
Contents(table) ==
  UNION {{table[i].positions[k] : k \in Held(table, i)} : i \in Slots}

\* The scan of storePosition stops at the first empty slot, so a hole would
\* hide the slots behind it and their nodes would be given a second one.
UsedFirst(table) ==
  \A i, j \in Slots : i < j /\ Used(table, j) => Used(table, i)

OneSlot(table) ==
  \A i, j \in Slots :
    Used(table, i) /\ Used(table, j) /\ Owner(table, i) = Owner(table, j)
      => i = j

OneNode(table) ==
  \A i \in Slots : \A k \in Held(table, i) :
    /\ table[i].positions[k] \in GPSData
    /\ table[i].positions[k].nodeID = Owner(table, i)

WellFormed(table) == UsedFirst(table) /\ OneSlot(table) /\ OneNode(table)
=============================================================================
