--------------------------- MODULE HistoryProofs ---------------------------
(***************************************************************************)
(* What the two kinds of history keep: the table of positions of a mesh    *)
(* node, for every set of node numbers, every number of slots and every    *)
(* depth of a slot, and the manifest of the listen window nodes, for any   *)
(* number of nodes and every length.  Both are sliding windows.            *)
(***************************************************************************)
EXTENDS NodeHistoryWindow, ListenWindow, PositionTableProofs, SequenceTheorems

\* None of the parts is inductive alone: the type needs OneNode (a reading is
\* appended within bounds of a slot of known contents), OneSlot needs
\* UsedFirst (a node whose slot lies behind a hole would be given another).
TableInv == nodeHistories \in Table /\ WellFormed(nodeHistories)

LEMMA TableInitInv == TableInit => TableInv
  BY EmptyTableWellFormed DEF TableInit, TableInv

LEMMA TableNextInv == TableInv /\ [TableNext]_nodeHistories => TableInv'
<1> SUFFICES ASSUME TableInv, [TableNext]_nodeHistories
             PROVE  TableInv'
  OBVIOUS
<1>1. ASSUME NEW newData \in GPSData, storePosition(newData)
      PROVE  TableInv'
  <2>1. nodeHistories' = StorePosition(nodeHistories, newData)
    BY <1>1 DEF storePosition
  <2>2. StorePosition(nodeHistories, newData) \in Table
    BY StorePositionType DEF TableInv, WellFormed
  <2>3. WellFormed(StorePosition(nodeHistories, newData))
    BY StorePositionWellFormed DEF TableInv
  <2> QED
    BY <2>1, <2>2, <2>3 DEF TableInv
<1>2. CASE UNCHANGED nodeHistories
  BY <1>2 DEF TableInv
<1> QED
  BY <1>1, <1>2 DEF TableNext

THEOREM TableSpecInv == TableSpec => []TableInv
  BY TableInitInv, TableNextInv, PTL DEF TableSpec

\* The table and its slots stay within the arrays of nodeHistories.
THEOREM Typing == TableSpec => []TableTypeOK
<1>1. TableInv => TableTypeOK
  BY DEF TableInv, TableTypeOK
<1> QED
  BY <1>1, TableSpecInv, PTL

\* No hole opens among the used slots.
THEOREM NoHoles == TableSpec => []UsedSlotsFirst
<1>1. TableInv => UsedSlotsFirst
  BY DEF TableInv, WellFormed, UsedSlotsFirst
<1> QED
  BY <1>1, TableSpecInv, PTL

\* No node ever owns two slots.
THEOREM NoSecondSlot == TableSpec => []OneSlotPerNode
<1>1. TableInv => OneSlotPerNode
  BY DEF TableInv, WellFormed, OneSlotPerNode
<1> QED
  BY <1>1, TableSpecInv, PTL

\* No slot ever holds positions of two nodes.
THEOREM NoMixedSlot == TableSpec => []OneNodePerSlot
<1>1. TableInv => OneNodePerSlot
  BY DEF TableInv, WellFormed, OneNodePerSlot
<1> QED
  BY <1>1, TableSpecInv, PTL

\* A slot never changes its node and never holds fewer positions.
THEOREM NothingEvicted == TableSpec => NoEviction
<1>1. TableInv /\ [TableNext]_nodeHistories => [NoEvictionStep]_nodeHistories
  <2> SUFFICES ASSUME TableInv, NEW newData \in GPSData, storePosition(newData)
               PROVE  NoEvictionStep
    BY DEF TableNext
  <2> SUFFICES ASSUME NEW i \in Slots, Used(nodeHistories, i)
               PROVE  /\ Owner(nodeHistories, i)' = Owner(nodeHistories, i)
                      /\ nodeHistories[i].count <= nodeHistories'[i].count
    BY DEF NoEvictionStep
  <2>1. nodeHistories' = StorePosition(nodeHistories, newData)
    BY DEF storePosition
  <2>2. Owner(nodeHistories, i)' = Owner(StorePosition(nodeHistories, newData), i)
    BY <2>1 DEF Owner
  <2>3. nodeHistories \in Table /\ OneNode(nodeHistories)
    BY DEF TableInv, WellFormed
  <2>4. CASE Chosen(nodeHistories, i, newData)
    <3>1. /\ Owner(StorePosition(nodeHistories, newData), i) = newData.nodeID
          /\ StorePosition(nodeHistories, newData)[i].count
               >= nodeHistories[i].count
      BY <2>3, <2>4, StorePositionSlot
    <3>2. nodeHistories[i].count # 0
      BY DEF Used
    <3>3. Owner(nodeHistories, i) = newData.nodeID
      BY <2>4, <3>2 DEF Chosen, Takes, Owner
    <3>4. /\ nodeHistories[i].count \in Nat
          /\ StorePosition(nodeHistories, newData)[i].count \in Nat
      BY <2>3, StorePositionType, MaxPositionsAssumption DEF Table, History
    <3> QED
      BY <2>1, <2>2, <3>1, <3>3, <3>4
  <2>5. CASE ~ Chosen(nodeHistories, i, newData)
    <3>1. StorePosition(nodeHistories, newData)[i] = nodeHistories[i]
      BY <2>3, <2>5, StorePositionSlot
    <3>2. nodeHistories[i].count \in Nat
      BY <2>3, MaxPositionsAssumption DEF Table, History
    <3> QED
      BY <2>1, <3>1, <3>2 DEF Owner
  <2> QED
    BY <2>4, <2>5
<1> QED
  BY <1>1, TableSpecInv, PTL DEF TableSpec, NoEviction

----------------------------------------------------------------------------
(* The track of one node, in any table.                                    *)

SlotsIn(table, id) == {i \in Slots : Used(table, i) /\ Owner(table, i) = id}

TrackAt(slot) == [k \in 1 .. slot.count |-> slot.positions[k - 1]]

TrackIn(table, id) ==
  IF SlotsIn(table, id) = {} THEN << >>
  ELSE TrackAt(table[CHOOSE i \in SlotsIn(table, id) : TRUE])

LEMMA TrackOfIs == TrackOf(Watched) = TrackIn(nodeHistories, Watched)
  BY DEF TrackOf, TrackIn, SlotsOf, SlotsIn, Track, TrackAt

\* With one slot for each node there is one to choose.
LEMMA TrackFound ==
  ASSUME NEW table, OneSlot(table), NEW id, NEW i \in SlotsIn(table, id)
  PROVE  TrackIn(table, id) = TrackAt(table[i])
<1> DEFINE c == CHOOSE j \in SlotsIn(table, id) : TRUE
<1>1. c \in SlotsIn(table, id)
  OBVIOUS
<1>2. c = i
  BY <1>1 DEF OneSlot, SlotsIn
<1> QED
  BY <1>2 DEF TrackIn

LEMMA AppendIs ==
  ASSUME NEW S, NEW s \in Seq(S), NEW d \in S
  PROVE  Append(s, d) =
           [k \in 1 .. Len(s) + 1 |-> IF k = Len(s) + 1 THEN d ELSE s[k]]
<1> DEFINE t == [k \in 1 .. Len(s) + 1 |-> IF k = Len(s) + 1 THEN d ELSE s[k]]
<1>1. /\ Append(s, d) \in Seq(S) /\ Len(Append(s, d)) = Len(s) + 1
      /\ \A k \in 1 .. Len(s) : Append(s, d)[k] = s[k]
      /\ Append(s, d)[Len(s) + 1] = d
  OBVIOUS
<1>2. /\ Len(s) \in Nat
      /\ \A k \in 1 .. Len(s) + 1 : k = Len(s) + 1 \/ k \in 1 .. Len(s)
  OBVIOUS
<1>3. t \in Seq(S) /\ Len(t) = Len(s) + 1
  BY <1>2
<1>4. \A k \in 1 .. Len(s) + 1 : Append(s, d)[k] = t[k]
  BY <1>1, <1>2
<1> HIDE DEF t
<1>5. Append(s, d) = t
  BY <1>1, <1>3, <1>4, SeqEqual
<1> QED
  BY <1>5 DEF t

\* Storing a reading slides the window of what is in the slot.
LEMMA StoredSlides ==
  ASSUME NEW slot \in History, NEW d \in GPSData
  PROVE  TrackAt(Stored(slot, d)) = TrackWindow!Slide(TrackAt(slot), d)
<1> DEFINE old == TrackAt(slot)
           n == slot.count
           Item == GPSData \union {ZeroData}
<1>1. /\ slot.positions \in [Places -> Item]
      /\ slot = [positions |-> slot.positions, count |-> slot.count]
      /\ n \in Nat /\ n <= MaxPositions /\ MaxPositions \in Nat /\ MaxPositions >= 1
  BY MaxPositionsAssumption DEF History
<1>2. \A k \in 1 .. n : k - 1 \in Places /\ slot.positions[k - 1] \in Item
  BY <1>1 DEF Places
<1>3. /\ old \in Seq(Item) /\ Len(old) = n
      /\ \A k \in 1 .. n : old[k] = slot.positions[k - 1]
  BY <1>1, <1>2 DEF TrackAt
<1>4. CASE n < MaxPositions
  <2> DEFINE new == TrackAt(Stored(slot, d))
  <2>1. /\ Stored(slot, d).count = n + 1
        /\ Stored(slot, d).positions = [slot.positions EXCEPT ![n] = d]
    BY <1>4 DEF Stored, Appended
  <2>2. \A k \in Places :
          Stored(slot, d).positions[k] = IF k = n THEN d ELSE slot.positions[k]
    BY <1>1, <2>1
  <2>3. \A k \in 1 .. n + 1 : k - 1 \in Places
    BY <1>1, <1>4 DEF Places
  <2>4. new = [k \in 1 .. n + 1 |-> IF k - 1 = n THEN d ELSE slot.positions[k - 1]]
    BY <2>1, <2>2, <2>3 DEF TrackAt
  <2>5. Append(old, d) = [k \in 1 .. n + 1 |-> IF k - 1 = n THEN d ELSE slot.positions[k - 1]]
    <3>1. Append(old, d) = [k \in 1 .. n + 1 |-> IF k = n + 1 THEN d ELSE old[k]]
      BY <1>3, AppendIs
    <3>2. \A k \in 1 .. n + 1 : k = n + 1 \/ k \in 1 .. n
      BY <1>1
    <3>3. \A k \in 1 .. n + 1 :
            (IF k = n + 1 THEN d ELSE old[k])
              = IF k - 1 = n THEN d ELSE slot.positions[k - 1]
      BY <1>1, <1>3, <3>2
    <3> QED
      BY <3>1, <3>3
  <2>6. TrackWindow!Slide(old, d) = Append(old, d)
    BY <1>3, <1>4 DEF TrackWindow!Slide
  <2> QED
    BY <2>4, <2>5, <2>6
<1>5. CASE n = MaxPositions
  <2> DEFINE new == TrackAt(Stored(slot, d))
  <2>1. /\ Stored(slot, d).count = n
        /\ \A k \in Places :
             Stored(slot, d).positions[k]
               = IF k = MaxPositions - 1 THEN d ELSE slot.positions[k + 1]
    BY <1>1, <1>5 DEF Stored, Shifted
  <2>2. new = [k \in 1 .. n |-> IF k = n THEN d ELSE slot.positions[k]]
    <3>1. \A k \in 1 .. n : /\ k - 1 \in Places /\ (k - 1) + 1 = k
                            /\ k - 1 = MaxPositions - 1 <=> k = n
      BY <1>1, <1>5 DEF Places
    <3>2. \A k \in 1 .. n : Stored(slot, d).positions[k - 1]
                              = IF k = n THEN d ELSE slot.positions[k]
      BY <2>1, <3>1
    <3> QED
      BY <2>1, <3>2 DEF TrackAt
  <2>3. old # << >> /\ n >= 1
    BY <1>1, <1>3, <1>5
  <2>4. /\ Tail(old) \in Seq(Item) /\ Len(Tail(old)) = n - 1
        /\ \A k \in 1 .. n - 1 : Tail(old)[k] = old[k + 1]
    BY <1>3, <2>3
  <2>5. Append(Tail(old), d) = [k \in 1 .. n |-> IF k = n THEN d ELSE slot.positions[k]]
    <3> DEFINE rest == Tail(old)
    <3>1. Append(rest, d)
            = [k \in 1 .. (n - 1) + 1 |-> IF k = (n - 1) + 1 THEN d ELSE rest[k]]
      <4>1. rest \in Seq(Item) /\ Len(rest) = n - 1 /\ d \in Item
        BY <2>4
      <4> HIDE DEF rest, n, Item
      <4> QED
        BY <4>1, AppendIs
    <3>2. (n - 1) + 1 = n
      BY <1>1
    <3>3. \A k \in 1 .. n : k # n => /\ k \in 1 .. n - 1 /\ k + 1 \in 1 .. n
                                     /\ (k + 1) - 1 = k
      BY <1>1
    <3>4. \A k \in 1 .. n : k # n => Tail(old)[k] = slot.positions[k]
      BY <1>3, <2>4, <3>3
    <3> QED
      BY <3>1, <3>2, <3>4
  <2>6. TrackWindow!Slide(old, d) = Append(Tail(old), d)
    BY <1>1, <1>3, <1>5 DEF TrackWindow!Slide
  <2> QED
    BY <2>2, <2>5, <2>6
<1> QED
  BY <1>1, <1>4, <1>5

\* storePosition slides the track of the node the reading is of, or no track:
\* none of another node, and not its own if the table is full without it.
LEMMA StorePositionSlides ==
  ASSUME NEW table \in Table, WellFormed(table), NEW d \in GPSData, NEW id \in NodeID
  PROVE  LET new == StorePosition(table, d)
         IN  \/ d.nodeID = id /\ TrackIn(new, id) = TrackWindow!Slide(TrackIn(table, id), d)
             \/ TrackIn(new, id) = TrackIn(table, id)
<1> DEFINE new == StorePosition(table, d)
<1>1. OneNode(table) /\ OneSlot(table) /\ UsedFirst(table) /\ OneSlot(new)
  BY StorePositionWellFormed DEF WellFormed
<1>2. \A i \in Slots :
        /\ ~ Chosen(table, i, d) => new[i] = table[i]
        /\ Chosen(table, i, d) => /\ Used(new, i) /\ Owner(new, i) = d.nodeID
                                  /\ new[i] = Stored(table[i], d)
  BY <1>1, StorePositionSlot DEF StorePosition
<1>3. \A i \in Slots : table[i] \in History /\ table[i].count \in Nat
  BY MaxPositionsAssumption DEF Table, History
<1> HIDE DEF new
<1>4. \A i \in Slots : Chosen(table, i, d) /\ Used(table, i) => Owner(table, i) = d.nodeID
  BY <1>3 DEF Chosen, Takes, Used, Owner
<1>5. CASE \A i \in SlotsIn(table, id) \union SlotsIn(new, id) : ~ Chosen(table, i, d)
  <2>1. SlotsIn(new, id) \subseteq SlotsIn(table, id)
    BY <1>2, <1>5 DEF SlotsIn, Used, Owner
  <2>2. SlotsIn(table, id) \subseteq SlotsIn(new, id)
    BY <1>2, <1>5 DEF SlotsIn, Used, Owner
  <2>3. SlotsIn(new, id) = SlotsIn(table, id)
    BY <2>1, <2>2
  <2>4. CASE SlotsIn(table, id) = {}
    BY <2>3, <2>4 DEF TrackIn, new
  <2>5. CASE SlotsIn(table, id) # {}
    <3>1. PICK i \in SlotsIn(table, id) : TRUE
      BY <2>5
    <3>2. new[i] = table[i]
      BY <1>2, <1>5, <3>1 DEF SlotsIn
    <3>3. TrackIn(new, id) = TrackAt(new[i]) /\ TrackIn(table, id) = TrackAt(table[i])
      BY <1>1, <2>3, <3>1, TrackFound
    <3> QED
      BY <3>2, <3>3 DEF new
  <2> QED
    BY <2>4, <2>5
<1>6. ASSUME NEW i \in SlotsIn(table, id) \union SlotsIn(new, id), Chosen(table, i, d)
      PROVE  d.nodeID = id /\ TrackIn(new, id) = TrackWindow!Slide(TrackIn(table, id), d)
  <2>1. i \in Slots
    BY DEF SlotsIn
  <2>2. d.nodeID = id
    BY <1>2, <1>4, <1>6, <2>1 DEF SlotsIn
  <2>3. TrackIn(new, id) = TrackAt(new[i])
    <3>1. i \in SlotsIn(new, id)
      BY <1>2, <1>6, <2>1, <2>2 DEF SlotsIn
    <3> QED
      BY <1>1, <3>1, TrackFound
  <2>4. TrackIn(table, id) = TrackAt(table[i])
    <3>1. CASE Used(table, i)
      <4>1. i \in SlotsIn(table, id)
        BY <1>4, <1>6, <2>1, <2>2, <3>1 DEF SlotsIn
      <4> QED
        BY <1>1, <4>1, TrackFound
    <3>2. CASE ~ Used(table, i)
      \* a slot of the node would lie before i, and be chosen, or behind a hole
      <4>1. SlotsIn(table, id) = {}
        <5> SUFFICES ASSUME NEW j \in Slots, Used(table, j), Owner(table, j) = id
                     PROVE  FALSE
          BY DEF SlotsIn
        <5>1. Takes(table, j, d)
          BY <2>2 DEF Takes, Owner
        <5>2. ~ j < i
          BY <1>6, <2>1, <5>1 DEF Chosen, Slots
        <5>3. ~ i < j
          BY <1>1, <2>1, <3>2 DEF UsedFirst
        <5> QED
          BY <2>1, <3>2, <5>2, <5>3 DEF Slots
      <4>2. TrackAt(table[i]) = << >>
        <5>1. table[i].count = 0
          BY <1>3, <2>1, <3>2 DEF Used
        <5> QED
          BY <5>1 DEF TrackAt
      <4> QED
        BY <4>1, <4>2 DEF TrackIn
    <3> QED
      BY <3>1, <3>2
  <2>5. TrackAt(Stored(table[i], d)) = TrackWindow!Slide(TrackAt(table[i]), d)
    BY <1>3, <2>1, StoredSlides
  <2> QED
    BY <1>2, <1>6, <2>1, <2>2, <2>3, <2>4, <2>5
<1> QED
  BY <1>5, <1>6 DEF new

\* The track of any node in nodeHistories implements the window of the newest
\* positions heard of it.
THEOREM TrackImplementsWindow == TableSpec => TrackIsWindow
<1>1. TableInit => TrackWindow!Init
  <2> SUFFICES ASSUME TableInit
               PROVE  TrackOf(Watched) = << >>
    BY DEF TrackWindow!Init
  <2>1. \A i \in Slots : nodeHistories[i].count = 0
    BY DEF TableInit, EmptyTable
  <2>2. SlotsOf(Watched) = {}
    BY <2>1 DEF SlotsOf, Used
  <2> QED
    BY <2>2 DEF TrackOf
<1>2. TableInv /\ [TableNext]_nodeHistories => [TrackWindow!Next]_(TrackOf(Watched))
  <2> SUFFICES ASSUME TableInv, [TableNext]_nodeHistories
               PROVE  [TrackWindow!Next]_(TrackOf(Watched))
    OBVIOUS
  <2>1. TrackOf(Watched)' = TrackIn(nodeHistories', Watched)
    BY DEF TrackOf, TrackIn, SlotsOf, SlotsIn, Track, TrackAt, Used, Owner
  <2>2. ASSUME NEW d \in GPSData, storePosition(d)
        PROVE  [TrackWindow!Next]_(TrackOf(Watched))
    <3>1. nodeHistories' = StorePosition(nodeHistories, d)
      BY <2>2 DEF storePosition
    <3>2. \/ /\ d.nodeID = Watched
             /\ TrackOf(Watched)' = TrackWindow!Slide(TrackOf(Watched), d)
          \/ TrackOf(Watched)' = TrackOf(Watched)
      BY <2>1, <3>1, TrackOfIs, StorePositionSlides, WatchedAssumption DEF TableInv
    <3> QED
      BY <3>2 DEF TrackWindow!Next, TrackWindow!Push
  <2>3. CASE UNCHANGED nodeHistories
    BY <2>1, <2>3, TrackOfIs
  <2> QED
    BY <2>2, <2>3 DEF TableNext
<1> QED
  BY <1>1, <1>2, TableSpecInv, PTL DEF TableSpec, TrackIsWindow, TrackWindow!Spec
----------------------------------------------------------------------------
(* The manifests of the listen window nodes.                               *)

\* What is on the air or buffered is a place, and what manifest holds of it are
\* lines that may have been decoded, no more of them than there is room for.
LinesInv ==
  /\ RadioType(Message)
  /\ reading \in [Node -> 0 .. MaxReadings]
  /\ manifest \in [Node -> Seq(Entry)]
  /\ \A n \in Node : Len(manifest[n]) <= Size

\* addToManifest appends, or drops the oldest entry and appends.
LEMMA AddedSlides ==
  ASSUME NEW n \in Node, NEW entries \in Seq(Entry), Len(entries) <= Size,
         NEW entry \in Entry
  PROVE  /\ Added(entries, entry) = Window(n)!Slide(entries, entry)
         /\ Added(entries, entry) \in Seq(Entry)
         /\ Len(Added(entries, entry)) <= Size
<1>1. CASE Len(entries) < Size
  BY <1>1, SizeAssumption DEF Added, Window!Slide
<1>2. CASE ~ Len(entries) < Size
  <2>1. Len(entries) = Size /\ Size \in Nat \ {0} /\ entries # << >>
    BY <1>2, SizeAssumption
  <2>2. Append(Tail(entries), entry)
          = [i \in 1 .. Size |-> IF i = Size THEN entry ELSE entries[i + 1]]
    <3> DEFINE rest == Tail(entries)
    <3>1. /\ rest \in Seq(Entry) /\ Len(rest) + 1 = Size
          /\ \A i \in 1 .. Size - 1 : rest[i] = entries[i + 1]
      BY <2>1
    <3> HIDE DEF rest
    <3>2. Append(rest, entry) = [i \in 1 .. Size |-> IF i = Size THEN entry ELSE rest[i]]
      BY <3>1, AppendIs
    <3>3. \A i \in 1 .. Size : i # Size => rest[i] = entries[i + 1]
      BY <2>1, <3>1
    <3>4. [i \in 1 .. Size |-> IF i = Size THEN entry ELSE rest[i]]
            = [i \in 1 .. Size |-> IF i = Size THEN entry ELSE entries[i + 1]]
      BY <3>3
    <3> QED
      BY <3>2, <3>4 DEF rest
  <2> QED
    BY <1>2, <2>1, <2>2 DEF Added, Window!Slide
<1> QED
  BY <1>1, <1>2

\* What sendLocation sends is a place of the node itself.
LEMMA OwnIsMessage ==
  ASSUME LinesInv, NEW n \in Node
  PROVE  Own(n) \in Message
BY DEF LinesInv, Own, Message

\* Only what recv takes out of the radio gets into the manifest.
LEMMA HearsSlides ==
  ASSUME LinesInv, NEW n \in Node, NEW from, NEW to, Hears(n, from, to)
  PROVE  \E entry \in Entry :
           manifest' = [manifest EXCEPT ![n] = Added(@, entry)]
<1>1. rxBuf[n] \in Message
  BY DEF Hears, recv, LinesInv, RadioType
<1>2. PICK entry \in Entries(rxBuf[n]) :
        manifest' = [manifest EXCEPT ![n] = Added(@, entry)]
  BY DEF Hears
<1>3. entry \in Entry
  BY <1>1, <1>2 DEF Entries, Entry
<1> QED
  BY <1>2, <1>3

\* The calls to the radio, and the end of a transmission, keep packets places.
LEMMA RadioTyping ==
  ASSUME LinesInv, NEW n \in Node
  PROVE  /\ available(n) => RadioType(Message)'
         /\ recv(n) => RadioType(Message)'
         /\ send(n, Own(n)) => RadioType(Message)'
         /\ TxDone(n) => RadioType(Message)'
<1>1. available(n) => RadioType(Message)'
  BY DEF LinesInv, RadioType, available, Mode
<1>2. recv(n) => RadioType(Message)'
  BY DEF LinesInv, RadioType, recv, Mode
<1>3. send(n, Own(n)) => RadioType(Message)'
  BY OwnIsMessage DEF LinesInv, RadioType, send, Mode
<1>4. ASSUME TxDone(n) PROVE RadioType(Message)'
  <2>1. PICK heard \in SUBSET Listening :
          /\ mode' = [m \in Node |-> IF m = n \/ m \in heard THEN "idle" ELSE mode[m]]
          /\ rxBuf' = [m \in Node |-> IF m \in heard THEN fifo[n] ELSE rxBuf[m]]
    BY <1>4 DEF TxDone
  <2>2. fifo' = [fifo EXCEPT ![n] = NoPacket]
    BY <1>4 DEF TxDone
  <2> QED
    BY <2>1, <2>2 DEF LinesInv, RadioType, Mode
<1> QED
  BY <1>1, <1>2, <1>3, <1>4

\* What a step does to a manifest: at most it adds an entry to one of them.
LEMMA NextManifest ==
  ASSUME LinesInv, [Next]_vars
  PROVE  \/ UNCHANGED manifest
         \/ \E n \in Node, entry \in Entry :
              manifest' = [manifest EXCEPT ![n] = Added(@, entry)]
<1>1. ASSUME NEW n \in Node, listenForNodes(n)
      PROVE  \/ UNCHANGED manifest
             \/ \E entry \in Entry :
                  manifest' = [manifest EXCEPT ![n] = Added(@, entry)]
  BY <1>1, HearsSlides DEF listenForNodes, NothingHeard
<1>2. ASSUME NEW n \in Node, Step(n), ~ listenForNodes(n)
      PROVE  UNCHANGED manifest
  BY <1>2 DEF Step, OpenWindow, WindowOpen, WindowShut, CloseWindow, ReadAndSend,
              NoByte, LocationSent
<1>3. ASSUME NEW n \in Node, Deliver(n) \/ Tick(n) \/ ByteArrives(n)
      PROVE  UNCHANGED manifest
  BY <1>3 DEF Deliver, Tick, ByteArrives
<1>4. CASE UNCHANGED vars
  BY <1>4 DEF vars
<1> QED
  BY <1>1, <1>2, <1>3, <1>4 DEF Next

\* Only the GPS receiver changes the place a node is at.
LEMMA NextReading ==
  ASSUME LinesInv, [Next]_vars
  PROVE  RadioType(Message)' /\ reading' \in [Node -> 0 .. MaxReadings]
<1>1. ASSUME UNCHANGED radioVars PROVE RadioType(Message)'
  BY <1>1 DEF LinesInv, RadioType, radioVars
<1>2. ASSUME UNCHANGED reading PROVE reading' \in [Node -> 0 .. MaxReadings]
  BY <1>2 DEF LinesInv
<1>3. ASSUME NEW n \in Node, OpenWindow(n) \/ WindowOpen(n) \/ WindowShut(n)
                             \/ CloseWindow(n) \/ NoByte(n) \/ LocationSent(n) \/ Tick(n)
      PROVE  UNCHANGED <<radioVars, reading>>
  BY <1>3 DEF OpenWindow, WindowOpen, WindowShut, CloseWindow, NoByte,
              LocationSent, Tick, gps
<1>4. ASSUME NEW n \in Node, listenForNodes(n) \/ ReadAndSend(n) \/ Deliver(n)
      PROVE  RadioType(Message)' /\ UNCHANGED reading
  BY <1>4, RadioTyping DEF listenForNodes, NothingHeard, Hears, ReadAndSend,
                           Deliver, gps
<1>5. ASSUME NEW n \in Node, ByteArrives(n)
      PROVE  UNCHANGED radioVars /\ reading' \in [Node -> 0 .. MaxReadings]
  <2>1. reading[n] < MaxReadings => reading[n] + 1 \in 0 .. MaxReadings
    BY MaxReadingsAssumption DEF LinesInv
  <2>2. UNCHANGED radioVars
    BY <1>5 DEF ByteArrives
  <2>3. CASE UNCHANGED reading
    BY <1>2, <2>2, <2>3
  <2>4. CASE /\ reading[n] < MaxReadings
             /\ reading' = [reading EXCEPT ![n] = @ + 1]
    BY <2>1, <2>2, <2>4 DEF LinesInv
  <2> QED
    BY <1>5, <2>3, <2>4 DEF ByteArrives
<1>6. CASE UNCHANGED vars
  BY <1>1, <1>2, <1>6 DEF vars, gps
<1> QED
  BY <1>1, <1>2, <1>3, <1>4, <1>5, <1>6 DEF Next, Step

LEMMA NextLinesInv ==
  ASSUME LinesInv, [Next]_vars
  PROVE  LinesInv'
<1>1. manifest' \in [Node -> Seq(Entry)] /\ \A n \in Node : Len(manifest'[n]) <= Size
  <2>1. CASE UNCHANGED manifest
    BY <2>1 DEF LinesInv
  <2>2. ASSUME NEW n \in Node, NEW entry \in Entry,
               manifest' = [manifest EXCEPT ![n] = Added(@, entry)]
        PROVE  /\ manifest' \in [Node -> Seq(Entry)]
               /\ \A m \in Node : Len(manifest'[m]) <= Size
    <3>1. Added(manifest[n], entry) \in Seq(Entry) /\ Len(Added(manifest[n], entry)) <= Size
      BY AddedSlides DEF LinesInv
    <3> QED
      BY <2>2, <3>1 DEF LinesInv
  <2> QED
    BY <2>1, <2>2, NextManifest
<1> QED
  BY <1>1, NextReading DEF LinesInv

\* Every node's manifest implements the window of the newest lines it decoded:
\* addToManifest, in and out of the listening window, never drops one but the
\* oldest, and nothing else touches the manifest.
THEOREM ManifestImplementsWindow == Spec => ManifestIsWindow
<1>1. Init => LinesInv /\ \A n \in Node : Window(n)!Init
  BY MaxReadingsAssumption, SizeAssumption
     DEF Init, RadioInit, LinesInv, RadioType, Mode, Window!Init
<1>2. LinesInv /\ [Next]_vars => LinesInv'
  BY NextLinesInv
<1>3. LinesInv /\ [Next]_vars => [\A n \in Node : [Window(n)!Next]_(manifest[n])]_manifest
  <2> SUFFICES ASSUME LinesInv, NEW m \in Node, NEW entry \in Entry,
                      manifest' = [manifest EXCEPT ![m] = Added(@, entry)], NEW n \in Node
               PROVE  [Window(n)!Next]_(manifest[n])
    BY NextManifest
  <2>1. CASE n = m
    <3>1. manifest[n] \in Seq(Entry) /\ Len(manifest[n]) <= Size
      BY DEF LinesInv
    <3>2. manifest'[n] = Window(n)!Slide(manifest[n], entry)
      BY <2>1, <3>1, AddedSlides DEF LinesInv
    <3> QED
      BY <3>2 DEF Window!Next, Window!Push
  <2>2. CASE n # m
    BY <2>2 DEF LinesInv
  <2> QED
    BY <2>1, <2>2
<1> QED
  BY <1>1, <1>2, <1>3, PTL DEF Spec, ManifestIsWindow, WindowSteps
=============================================================================
