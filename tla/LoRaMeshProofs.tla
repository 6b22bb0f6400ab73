--------------------------- MODULE LoRaMeshProofs ---------------------------
(***************************************************************************)
(* Safety of the mesh for every number of nodes, every assignment of IDs,  *)
(* every size of the tables and every number of broadcasts; first of nodes *)
(* alone (Spec), then with gateways among the boards (SpecAll), and with   *)
(* two nodes and any number of gateways the order of what is recorded and  *)
(* printed.                                                                *)
(***************************************************************************)
EXTENDS MeshGateway, PositionTableProofs

\* A broadcast that is due is still to be counted, so the reading it will
\* carry is one of Reading.
BroadcastsBounded == \A n \in Node : due[n] => sent[n] < MaxBroadcasts[n]

\* Genuine and NoOwnReadings need no more than to know that what a program
\* handles is a packet (RadioFollowsProgram) and that a table takes a reading
\* into bounds (TablesWellFormed); RelayedIsRecorded no more than the first.
IInv ==
  /\ TypeOK
  /\ BroadcastsBounded
  /\ RadioFollowsProgram
  /\ TablesWellFormed
  /\ Genuine
  /\ NoOwnReadings
  /\ RelayedIsRecorded

----------------------------------------------------------------------------
(* The types.                                                              *)

LEMMA InitType == Init => TypeOK /\ BroadcastsBounded /\ TablesWellFormed
<1> SUFFICES ASSUME Init
             PROVE  TypeOK /\ BroadcastsBounded /\ TablesWellFormed
  OBVIOUS
<1> USE DEF Init, RadioInit
<1>1. TypeOK
  BY EmptyTableWellFormed DEF TypeOK, RadioType, Mode, Place
<1>2. BroadcastsBounded
  BY DEF BroadcastsBounded
<1>3. TablesWellFormed
  BY EmptyTableWellFormed DEF TablesWellFormed
<1> QED
  BY <1>1, <1>2, <1>3

\* A node's own reading is a packet.
LEMMA OwnType ==
  ASSUME TypeOK, BroadcastsBounded, NEW n \in Node, due[n]
  PROVE  Own(n) \in GPSData
<1>1. sent[n] \in Nat /\ MaxBroadcasts[n] \in Nat /\ sent[n] < MaxBroadcasts[n]
  BY MaxBroadcastsAssumption DEF TypeOK, BroadcastsBounded
<1>2. sent[n] + 1 \in 1 .. MaxBroadcasts[n]
  BY <1>1
<1>3. <<n, sent[n] + 1>> \in Reading
  BY <1>2, BroadcastsAssumption
<1> QED
  BY <1>3, currIDAssumption DEF Own, GPSData

\* What a node relays is a packet under its own senderID; the rest of it is
\* as it came.
LEMMA RelayedType ==
  ASSUME NEW n \in Node, incoming[n] \in GPSData
  PROVE  /\ Relayed(n) \in GPSData
         /\ Relayed(n).senderID = curr_ID[n]
         /\ Relayed(n).nodeID = incoming[n].nodeID
         /\ Relayed(n).reading = incoming[n].reading
  BY currIDAssumption DEF Relayed, GPSData

\* The steps of one iteration of setup() or loop().
LEMMA EndLoopFacts ==
  ASSUME TypeOK, BroadcastsBounded, NEW n \in Node, NEW from,
         EndLoop(n, from), UNCHANGED sent
  PROVE  /\ pc' \in [Node -> Place] /\ due' \in [Node -> BOOLEAN]
         /\ BroadcastsBounded'
         /\ pc' = [pc EXCEPT ![n] = "loop"] /\ pc[n] = from
<1>1. pc' = [pc EXCEPT ![n] = "loop"] /\ pc[n] = from
  BY DEF EndLoop, Goto
<1>2. \/ due' = [due EXCEPT ![n] = FALSE]
      \/ sent[n] < MaxBroadcasts[n] /\ due' = [due EXCEPT ![n] = TRUE]
  BY DEF EndLoop
<1>3. due' \in [Node -> BOOLEAN]
  BY <1>2 DEF TypeOK
<1>4. BroadcastsBounded'
  BY <1>2 DEF TypeOK, BroadcastsBounded
<1> QED
  BY <1>1, <1>3, <1>4 DEF TypeOK, Place

\* What DropOwn, StoreAndRelay and StoreOnly handle is a packet.
LEMMA HandlesPacket ==
  ASSUME TypeOK, RadioFollowsProgram, NEW n \in Node, pc[n] = "handle"
  PROVE  incoming[n] \in GPSData
  BY DEF TypeOK, RadioFollowsProgram

\* A table into which a packet is stored remains a well formed table.
LEMMA StoreIncomingFacts ==
  ASSUME TypeOK, TablesWellFormed, NEW n \in Node, incoming[n] \in GPSData,
         StoreIncoming(n)
  PROVE  /\ nodeHistories' \in [Node -> Table]
         /\ TablesWellFormed'
         /\ Recorded(n)' \subseteq Recorded(n) \union {incoming[n]}
         /\ \A m \in Node : m # n => nodeHistories'[m] = nodeHistories[m]
<1> DEFINE new == StorePosition(nodeHistories[n], incoming[n])
<1>1. nodeHistories[n] \in Table /\ WellFormed(nodeHistories[n])
  BY DEF TypeOK, TablesWellFormed
<1>2. new \in Table
  BY <1>1, StorePositionType DEF WellFormed
<1>3. WellFormed(new)
  BY <1>1, StorePositionWellFormed
<1>4. Contents(new) \subseteq Contents(nodeHistories[n]) \union {incoming[n]}
  BY <1>1, StorePositionContents DEF WellFormed
<1>5. nodeHistories' = [nodeHistories EXCEPT ![n] = new]
  BY DEF StoreIncoming
<1> HIDE DEF new
<1>6. nodeHistories'[n] = new
      /\ \A m \in Node : m # n => nodeHistories'[m] = nodeHistories[m]
  BY <1>5 DEF TypeOK
<1>7. nodeHistories' \in [Node -> Table]
  BY <1>2, <1>5 DEF TypeOK
<1>8. TablesWellFormed'
  BY <1>3, <1>6 DEF TablesWellFormed
<1>9. Recorded(n)' \subseteq Recorded(n) \union {incoming[n]}
  BY <1>4, <1>6 DEF Recorded
<1> QED
  BY <1>6, <1>7, <1>8, <1>9

LEMMA NextType ==
  ASSUME TypeOK, BroadcastsBounded, RadioFollowsProgram, TablesWellFormed,
         [Next]_vars
  PROVE  TypeOK' /\ BroadcastsBounded' /\ TablesWellFormed'
<1> USE DEF radioVars, nodeVars
<1>1. ASSUME NEW n \in Node, SetupFails(n) \/ Setup(n) \/ NotDue(n)
                             \/ BroadcastSent(n)
      PROVE  TypeOK' /\ BroadcastsBounded' /\ TablesWellFormed'
  BY <1>1 DEF SetupFails, Setup, NotDue, BroadcastSent, Goto, Place,
              TypeOK, RadioType, BroadcastsBounded, TablesWellFormed
<1>2. ASSUME NEW n \in Node, Broadcast(n)
      PROVE  TypeOK' /\ BroadcastsBounded' /\ TablesWellFormed'
  <2>1. Own(n) \in GPSData
    BY <1>2, OwnType DEF Broadcast
  <2>2. TypeOK'
    BY <1>2, <2>1 DEF Broadcast, send, Goto, Place, Mode, TypeOK, RadioType
  <2>3. BroadcastsBounded' /\ TablesWellFormed'
    BY <1>2 DEF Broadcast, TypeOK, BroadcastsBounded, TablesWellFormed
  <2> QED
    BY <2>2, <2>3
<1>3. ASSUME NEW n \in Node, SkipBroadcast(n)
      PROVE  TypeOK' /\ BroadcastsBounded' /\ TablesWellFormed'
  BY <1>3 DEF SkipBroadcast, TypeOK, RadioType, BroadcastsBounded,
              TablesWellFormed
<1>4. ASSUME NEW n \in Node, NothingHeard(n)
      PROVE  TypeOK' /\ BroadcastsBounded' /\ TablesWellFormed'
  BY <1>4, EndLoopFacts DEF NothingHeard, available, Mode, TypeOK, RadioType,
              TablesWellFormed
<1>5. ASSUME NEW n \in Node, Heard(n)
      PROVE  TypeOK' /\ BroadcastsBounded' /\ TablesWellFormed'
  BY <1>5 DEF Heard, available, Goto, Place, Mode, TypeOK, RadioType,
              BroadcastsBounded, TablesWellFormed
<1>6. ASSUME NEW n \in Node, Receive(n)
      PROVE  TypeOK' /\ BroadcastsBounded' /\ TablesWellFormed'
  BY <1>6 DEF Receive, recv, Goto, Place, Mode, TypeOK, RadioType,
              BroadcastsBounded, TablesWellFormed
<1>7. ASSUME NEW n \in Node, DropOwn(n)
      PROVE  TypeOK' /\ BroadcastsBounded' /\ TablesWellFormed'
  BY <1>7, EndLoopFacts DEF DropOwn, Handled, TypeOK, RadioType,
              TablesWellFormed
<1>8. ASSUME NEW n \in Node, StoreAndRelay(n)
      PROVE  TypeOK' /\ BroadcastsBounded' /\ TablesWellFormed'
  <2>1. incoming[n] \in GPSData
    BY <1>8, HandlesPacket DEF StoreAndRelay
  <2>2. Relayed(n) \in GPSData
    BY <2>1, RelayedType
  <2>3. nodeHistories' \in [Node -> Table] /\ TablesWellFormed'
    BY <1>8, <2>1, StoreIncomingFacts DEF StoreAndRelay
  <2>4. TypeOK'
    BY <1>8, <2>2, <2>3 DEF StoreAndRelay, send, Handled, Goto, Place, Mode,
              TypeOK, RadioType
  <2>5. BroadcastsBounded'
    BY <1>8 DEF StoreAndRelay, BroadcastsBounded
  <2> QED
    BY <2>3, <2>4, <2>5
<1>9. ASSUME NEW n \in Node, StoreOnly(n)
      PROVE  TypeOK' /\ BroadcastsBounded' /\ TablesWellFormed'
  <2>1. incoming[n] \in GPSData
    BY <1>9, HandlesPacket DEF StoreOnly
  <2>2. nodeHistories' \in [Node -> Table] /\ TablesWellFormed'
    BY <1>9, <2>1, StoreIncomingFacts DEF StoreOnly
  <2> QED
    BY <1>9, <2>2, EndLoopFacts DEF StoreOnly, Handled, TypeOK, RadioType
<1>10. ASSUME NEW n \in Node, RelaySent(n)
       PROVE  TypeOK' /\ BroadcastsBounded' /\ TablesWellFormed'
  BY <1>10, EndLoopFacts DEF RelaySent, TypeOK, RadioType, TablesWellFormed
<1>11. ASSUME NEW n \in Node, Deliver(n)
       PROVE  TypeOK' /\ BroadcastsBounded' /\ TablesWellFormed'
  <2>1. fifo' \in [Node -> GPSData \union {NoPacket}]
    BY <1>11 DEF Deliver, TxDone, TypeOK, RadioType
  <2>2. PICK heard \in SUBSET Listening :
          /\ mode' = [m \in Node |-> IF m = n \/ m \in heard THEN "idle"
                                                              ELSE mode[m]]
          /\ rxBuf' = [m \in Node |-> IF m \in heard THEN fifo[n] ELSE rxBuf[m]]
    BY <1>11 DEF Deliver, TxDone
  <2>3. mode' \in [Node -> Mode]
    BY <2>2 DEF TypeOK, RadioType, Mode
  <2>4. rxBuf' \in [Node -> GPSData \union {NoPacket}]
    BY <2>2 DEF TypeOK, RadioType
  <2> QED
    BY <1>11, <2>1, <2>3, <2>4 DEF Deliver, TypeOK, RadioType,
              BroadcastsBounded, TablesWellFormed
<1>12. CASE UNCHANGED vars
  BY <1>12 DEF vars, TypeOK, RadioType, BroadcastsBounded, TablesWellFormed
<1>13. ASSUME NEW n \in Node, Halted(n)
       PROVE  TypeOK' /\ BroadcastsBounded' /\ TablesWellFormed'
  BY <1>12, <1>13 DEF Halted
<1> QED
  BY <1>1, <1>2, <1>3, <1>4, <1>5, <1>6, <1>7, <1>8, <1>9, <1>10, <1>11,
     <1>12, <1>13 DEF Next, Step

----------------------------------------------------------------------------
(* The radio and the program.                                              *)

LEMMA InitRadio == Init => RadioFollowsProgram
  BY DEF Init, RadioInit, RadioFollowsProgram

LEMMA NextRadio ==
  ASSUME TypeOK, BroadcastsBounded, RadioFollowsProgram, [Next]_vars
  PROVE  RadioFollowsProgram'
<1> USE NoPacketAssumption DEF radioVars, nodeVars
<1>1. ASSUME NEW n \in Node, SetupFails(n) \/ Setup(n) \/ NotDue(n)
                             \/ BroadcastSent(n)
      PROVE  RadioFollowsProgram'
  BY <1>1 DEF SetupFails, Setup, NotDue, BroadcastSent, Goto, packetSent,
              TypeOK, RadioFollowsProgram
<1>2. ASSUME NEW n \in Node, Broadcast(n)
      PROVE  RadioFollowsProgram'
  <2>1. Own(n) \in GPSData /\ Own(n).senderID = curr_ID[n]
    BY <1>2, OwnType DEF Broadcast, Own
  <2> QED
    BY <1>2, <2>1 DEF Broadcast, send, Goto, TypeOK, RadioType,
              RadioFollowsProgram
<1>3. ASSUME NEW n \in Node, SkipBroadcast(n)
      PROVE  RadioFollowsProgram'
  BY <1>3 DEF SkipBroadcast, RadioFollowsProgram
<1>4. ASSUME NEW n \in Node, NothingHeard(n)
      PROVE  RadioFollowsProgram'
  BY <1>4 DEF NothingHeard, EndLoop, Goto, available, packetSent, TypeOK,
              RadioType, RadioFollowsProgram
<1>5. ASSUME NEW n \in Node, Heard(n)
      PROVE  RadioFollowsProgram'
  BY <1>5 DEF Heard, available, Goto, packetSent, TypeOK, RadioType,
              RadioFollowsProgram
<1>6. ASSUME NEW n \in Node, Receive(n)
      PROVE  RadioFollowsProgram'
  BY <1>6 DEF Receive, recv, Goto, packetSent, TypeOK, RadioType,
              RadioFollowsProgram
<1>7. ASSUME NEW n \in Node, DropOwn(n)
      PROVE  RadioFollowsProgram'
  BY <1>7 DEF DropOwn, EndLoop, Goto, Handled, TypeOK, RadioFollowsProgram
<1>8. ASSUME NEW n \in Node, StoreAndRelay(n)
      PROVE  RadioFollowsProgram'
  <2>1. Relayed(n) \in GPSData /\ Relayed(n).senderID = curr_ID[n]
    BY <1>8, HandlesPacket, RelayedType DEF StoreAndRelay
  <2> QED
    BY <1>8, <2>1 DEF StoreAndRelay, send, Goto, Handled, TypeOK, RadioType,
              RadioFollowsProgram
<1>9. ASSUME NEW n \in Node, StoreOnly(n)
      PROVE  RadioFollowsProgram'
  BY <1>9 DEF StoreOnly, EndLoop, Goto, Handled, TypeOK, RadioFollowsProgram
<1>10. ASSUME NEW n \in Node, RelaySent(n)
       PROVE  RadioFollowsProgram'
  BY <1>10 DEF RelaySent, EndLoop, Goto, packetSent, TypeOK,
               RadioFollowsProgram
<1>11. ASSUME NEW n \in Node, Deliver(n)
       PROVE  RadioFollowsProgram'
  <2>1. fifo[n] # NoPacket
    BY <1>11 DEF Deliver, TxDone, RadioFollowsProgram
  <2>2. PICK heard \in SUBSET Listening :
          /\ mode' = [m \in Node |-> IF m = n \/ m \in heard THEN "idle"
                                                              ELSE mode[m]]
          /\ rxBuf' = [m \in Node |-> IF m \in heard THEN fifo[n] ELSE rxBuf[m]]
    BY <1>11 DEF Deliver, TxDone
  <2>3. fifo' = [fifo EXCEPT ![n] = NoPacket]
    BY <1>11 DEF Deliver, TxDone
  <2>4. \A m \in heard : mode[m] = "rx"
    BY <2>2 DEF Listening
  <2>5. UNCHANGED <<pc, incoming>>
    BY <1>11 DEF Deliver
  <2> QED
    BY <2>1, <2>2, <2>3, <2>4, <2>5 DEF TypeOK, RadioType, RadioFollowsProgram
<1>12. CASE UNCHANGED vars
  BY <1>12 DEF vars, RadioFollowsProgram
<1>13. ASSUME NEW n \in Node, Halted(n)
       PROVE  RadioFollowsProgram'
  BY <1>12, <1>13 DEF Halted
<1> QED
  BY <1>1, <1>2, <1>3, <1>4, <1>5, <1>6, <1>7, <1>8, <1>9, <1>10, <1>11,
     <1>12, <1>13 DEF Next, Step

----------------------------------------------------------------------------
(* Where packets come from.                                                *)

\* A packet that a step brings to a node was at some node before, or is the
\* reading just broadcast, or is what a node relays of the packet it handles.
LEMMA NextPackets ==
  ASSUME TypeOK, RadioFollowsProgram, TablesWellFormed, [Next]_vars,
         NEW m \in Node, NEW packet \in InHand(m)' \union Recorded(m)'
  PROVE  \/ \E n \in Node : packet \in InHand(n) \union Recorded(n)
         \/ \E n \in Node : Broadcast(n) /\ packet = Own(n)
         \/ \E n \in Node : /\ incoming[n] \in InHand(n) \cap GPSData
                           /\ packet = Relayed(n)
<1> DEFINE Origin ==
      \/ \E n \in Node : packet \in InHand(n) \union Recorded(n)
      \/ \E n \in Node : Broadcast(n) /\ packet = Own(n)
      \/ \E n \in Node : /\ incoming[n] \in InHand(n) \cap GPSData
                        /\ packet = Relayed(n)
<1> USE DEF radioVars, nodeVars, InHand
<1>1. ASSUME NEW n \in Node, SetupFails(n) \/ Setup(n) \/ NotDue(n)
                             \/ BroadcastSent(n) \/ SkipBroadcast(n)
                             \/ RelaySent(n)
      PROVE  Origin
  <2>1. UNCHANGED <<incoming, nodeHistories, fifo, rxBuf>>
    BY <1>1 DEF SetupFails, Setup, NotDue, BroadcastSent, SkipBroadcast,
                RelaySent
  <2> QED
    BY <2>1 DEF Recorded
<1>2. ASSUME NEW n \in Node, Broadcast(n)
      PROVE  Origin
  <2>1. /\ UNCHANGED <<incoming, nodeHistories, rxBuf>>
        /\ fifo' = [fifo EXCEPT ![n] = Own(n)]
    BY <1>2 DEF Broadcast, send
  <2> QED
    BY <1>2, <2>1 DEF Recorded, TypeOK, RadioType
<1>3. ASSUME NEW n \in Node, NothingHeard(n) \/ Heard(n)
      PROVE  Origin
  <2>1. UNCHANGED <<incoming, nodeHistories, fifo, rxBuf>>
    BY <1>3 DEF NothingHeard, Heard, available
  <2> QED
    BY <2>1 DEF Recorded
<1>4. ASSUME NEW n \in Node, Receive(n)
      PROVE  Origin
  <2>1. /\ UNCHANGED <<nodeHistories, fifo>>
        /\ incoming' = [incoming EXCEPT ![n] = rxBuf[n]]
        /\ rxBuf' = [rxBuf EXCEPT ![n] = NoPacket]
    BY <1>4 DEF Receive, recv
  <2> QED
    BY <2>1 DEF Recorded, TypeOK, RadioType
<1>5. ASSUME NEW n \in Node, DropOwn(n)
      PROVE  Origin
  <2>1. /\ UNCHANGED <<nodeHistories, fifo, rxBuf>>
        /\ incoming' = [incoming EXCEPT ![n] = NoPacket]
    BY <1>5 DEF DropOwn, Handled
  <2> QED
    BY <2>1 DEF Recorded, TypeOK
<1>6. ASSUME NEW n \in Node, StoreAndRelay(n)
      PROVE  Origin
  <2>1. incoming[n] \in GPSData /\ incoming[n] \in InHand(n)
    BY <1>6, HandlesPacket, NoPacketAssumption DEF StoreAndRelay
  <2>2. /\ Recorded(n)' \subseteq Recorded(n) \union {incoming[n]}
        /\ \A l \in Node : l # n => nodeHistories'[l] = nodeHistories[l]
    BY <1>6, <2>1, StoreIncomingFacts DEF StoreAndRelay
  <2>3. /\ UNCHANGED rxBuf
        /\ fifo' = [fifo EXCEPT ![n] = Relayed(n)]
        /\ incoming' = [incoming EXCEPT ![n] = NoPacket]
    BY <1>6 DEF StoreAndRelay, send, Handled
  <2>4. ASSUME packet \in Recorded(m)'
        PROVE  Origin
    BY <2>1, <2>2, <2>4 DEF Recorded
  <2>5. ASSUME packet \in InHand(m)'
        PROVE  Origin
    BY <2>1, <2>3, <2>5 DEF TypeOK, RadioType
  <2> QED
    BY <2>4, <2>5
<1>7. ASSUME NEW n \in Node, StoreOnly(n)
      PROVE  Origin
  <2>1. incoming[n] \in GPSData /\ incoming[n] \in InHand(n)
    BY <1>7, HandlesPacket, NoPacketAssumption DEF StoreOnly
  <2>2. /\ Recorded(n)' \subseteq Recorded(n) \union {incoming[n]}
        /\ \A l \in Node : l # n => nodeHistories'[l] = nodeHistories[l]
    BY <1>7, <2>1, StoreIncomingFacts DEF StoreOnly
  <2>3. /\ UNCHANGED <<fifo, rxBuf>>
        /\ incoming' = [incoming EXCEPT ![n] = NoPacket]
    BY <1>7 DEF StoreOnly, Handled
  <2>4. ASSUME packet \in Recorded(m)'
        PROVE  Origin
    BY <2>1, <2>2, <2>4 DEF Recorded
  <2>5. ASSUME packet \in InHand(m)'
        PROVE  Origin
    BY <2>3, <2>5 DEF TypeOK
  <2> QED
    BY <2>4, <2>5
<1>8. ASSUME NEW n \in Node, Deliver(n)
      PROVE  Origin
  <2>1. UNCHANGED <<incoming, nodeHistories>>
    BY <1>8 DEF Deliver
  <2>2. \A l \in Node : rxBuf'[l] \in {rxBuf[l], fifo[n]}
    BY <1>8 DEF Deliver, TxDone
  <2>3. \A l \in Node : fifo'[l] \in {fifo[l], NoPacket}
    BY <1>8 DEF Deliver, TxDone, TypeOK, RadioType
  <2> QED
    BY <2>1, <2>2, <2>3 DEF Recorded
<1>9. CASE UNCHANGED vars \/ \E n \in Node : Halted(n)
  <2>1. UNCHANGED <<incoming, nodeHistories, fifo, rxBuf>>
    BY <1>9 DEF vars, Halted
  <2> QED
    BY <2>1 DEF Recorded
<1> QED
  BY <1>1, <1>2, <1>3, <1>4, <1>5, <1>6, <1>7, <1>8, <1>9 DEF Next, Step

\* No step takes back a broadcast.
LEMMA SentGrows ==
  ASSUME TypeOK, [Next]_vars, NEW n \in Node
  PROVE  sent[n] \in Nat /\ sent'[n] \in Nat /\ sent[n] <= sent'[n]
<1> USE DEF radioVars, nodeVars
<1>1. sent[n] \in Nat
  BY DEF TypeOK
<1>2. CASE sent' = sent
  BY <1>1, <1>2
<1>3. ASSUME NEW m \in Node, Broadcast(m)
      PROVE  sent'[n] \in {sent[n], sent[n] + 1}
  BY <1>3 DEF Broadcast, TypeOK
<1>4. sent' = sent \/ \E m \in Node : Broadcast(m)
  BY DEF Next, Step, vars, SetupFails, Halted, Setup, NotDue, SkipBroadcast,
         BroadcastSent, NothingHeard, Heard, Receive, DropOwn, StoreAndRelay,
         StoreOnly, RelaySent, Deliver
<1> QED
  BY <1>1, <1>2, <1>3, <1>4

LEMMA EmptyContents == Contents(EmptyTable) = {}
  BY DEF Contents, Held, EmptyTable

LEMMA InitPackets ==
  Init => \A n \in Node : InHand(n) = {} /\ Recorded(n) = {}
  BY EmptyContents DEF Init, RadioInit, InHand, Recorded

LEMMA NextGenuine ==
  ASSUME TypeOK, RadioFollowsProgram, TablesWellFormed, Genuine, [Next]_vars
  PROVE  Genuine'
<1> DEFINE By(packet) == \E origin \in Node : BroadcastBy(origin, packet)
           Via(packet) == \E relay \in Node : packet.senderID = curr_ID[relay]
<1> SUFFICES ASSUME NEW m \in Node,
                    NEW packet \in InHand(m)' \union Recorded(m)'
             PROVE  By(packet)' /\ Via(packet)
  BY DEF Genuine
<1>1. ASSUME NEW p, By(p)
      PROVE  By(p)'
  <2>1. PICK origin \in Node : BroadcastBy(origin, p)
    BY <1>1
  <2>2. PICK k \in 1 .. sent[origin] : p.reading = <<origin, k>>
    BY <2>1 DEF BroadcastBy
  <2>3. k \in 1 .. sent'[origin]
    BY SentGrows
  <2> QED
    BY <2>1, <2>2, <2>3 DEF BroadcastBy
<1>2. ASSUME NEW n \in Node, packet \in InHand(n) \union Recorded(n)
      PROVE  By(packet)' /\ Via(packet)
  BY <1>1, <1>2 DEF Genuine
<1>3. ASSUME NEW n \in Node, Broadcast(n), packet = Own(n)
      PROVE  By(packet)' /\ Via(packet)
  <2>1. sent[n] \in Nat /\ sent'[n] = sent[n] + 1
    BY <1>3 DEF Broadcast, TypeOK
  <2>2. /\ packet.nodeID = curr_ID[n] /\ packet.senderID = curr_ID[n]
        /\ packet.reading = <<n, sent[n] + 1>>
    BY <1>3 DEF Own
  <2>3. sent[n] + 1 \in 1 .. sent'[n]
    BY <2>1
  <2>4. BroadcastBy(n, packet)'
    BY <2>2, <2>3 DEF BroadcastBy
  <2> QED
    BY <2>2, <2>4
<1>4. ASSUME NEW n \in Node, incoming[n] \in InHand(n) \cap GPSData,
             packet = Relayed(n)
      PROVE  By(packet)' /\ Via(packet)
  <2>1. PICK p \in InHand(n) : p = incoming[n]
    BY <1>4
  <2>2. /\ packet.senderID = curr_ID[n]
        /\ packet.nodeID = p.nodeID
        /\ packet.reading = p.reading
    BY <1>4, <2>1, RelayedType
  <2>3. By(p)
    BY DEF Genuine
  <2>4. By(p)'
    BY <1>1, <2>3
  <2> QED
    BY <2>2, <2>4 DEF BroadcastBy
<1> QED
  BY <1>2, <1>3, <1>4, NextPackets

\* Only the two storing actions bring a packet into a table, and only one of
\* another node.
LEMMA NextRecorded ==
  ASSUME TypeOK, RadioFollowsProgram, TablesWellFormed, [Next]_vars,
         NEW m \in Node, NEW packet \in Recorded(m)'
  PROVE  \/ packet \in Recorded(m)
         \/ incoming[m] \in GPSData /\ packet = incoming[m] /\ Foreign(m)
<1> USE DEF radioVars, nodeVars
<1>1. CASE nodeHistories' = nodeHistories
  BY <1>1 DEF Recorded
<1>2. ASSUME NEW n \in Node, StoreAndRelay(n) \/ StoreOnly(n)
      PROVE  \/ packet \in Recorded(m)
             \/ incoming[m] \in GPSData /\ packet = incoming[m] /\ Foreign(m)
  <2>1. Foreign(n) /\ StoreIncoming(n) /\ pc[n] = "handle"
    BY <1>2 DEF StoreAndRelay, StoreOnly
  <2>2. incoming[n] \in GPSData
    BY <2>1, HandlesPacket
  <2>3. /\ Recorded(n)' \subseteq Recorded(n) \union {incoming[n]}
        /\ \A l \in Node : l # n => nodeHistories'[l] = nodeHistories[l]
    BY <2>1, <2>2, StoreIncomingFacts
  <2> QED
    BY <2>1, <2>2, <2>3 DEF Recorded
<1>3. \/ nodeHistories' = nodeHistories
      \/ \E n \in Node : StoreAndRelay(n) \/ StoreOnly(n)
  BY DEF Next, Step, vars, SetupFails, Halted, Setup, NotDue, Broadcast,
         SkipBroadcast, BroadcastSent, NothingHeard, Heard, Receive, DropOwn,
         RelaySent, Deliver
<1> QED
  BY <1>1, <1>2, <1>3

LEMMA NextNoOwn ==
  ASSUME TypeOK, RadioFollowsProgram, TablesWellFormed, NoOwnReadings,
         [Next]_vars
  PROVE  NoOwnReadings'
<1> SUFFICES ASSUME NEW m \in Node, NEW packet \in Recorded(m)'
             PROVE  packet.nodeID # curr_ID[m]
  BY DEF NoOwnReadings
<1> QED
  BY NextRecorded DEF NoOwnReadings, Foreign

\* What a node begins to relay it has just stored, and until the radio has
\* sent it no step of the node writes to its table or to its FIFO.
LEMMA NextRelayed ==
  ASSUME TypeOK, RadioFollowsProgram, RelayedIsRecorded, [Next]_vars
  PROVE  RelayedIsRecorded'
<1> DEFINE RecordedBy(n) ==
      \/ \E i \in Slots : /\ Used(nodeHistories[n], i)
                          /\ Newest(n, i).nodeID = fifo[n].nodeID
                          /\ Newest(n, i).reading = fifo[n].reading
      \/ \A i \in Slots : /\ Used(nodeHistories[n], i)
                          /\ Owner(nodeHistories[n], i) # fifo[n].nodeID
<1> SUFFICES ASSUME NEW m \in Node, pc'[m] = "relaying", mode'[m] = "tx"
             PROVE  RecordedBy(m)'
  BY DEF RelayedIsRecorded, packetSent
<1> USE DEF radioVars, nodeVars
<1>1. ASSUME nodeHistories'[m] = nodeHistories[m], fifo'[m] = fifo[m],
             pc[m] = "relaying", mode[m] = "tx"
      PROVE  RecordedBy(m)'
  <2>1. RecordedBy(m)
    BY <1>1 DEF RelayedIsRecorded, packetSent
  <2> QED
    BY <1>1, <2>1 DEF Newest
<1>2. ASSUME NEW n \in Node, SetupFails(n) \/ Setup(n) \/ NotDue(n)
                             \/ SkipBroadcast(n) \/ BroadcastSent(n)
                             \/ DropOwn(n) \/ RelaySent(n)
      PROVE  RecordedBy(m)'
  <2>1. /\ UNCHANGED <<nodeHistories, fifo, mode>>
        /\ pc' = pc \/ \E to \in Place : /\ pc' = [pc EXCEPT ![n] = to]
                                         /\ to # "relaying"
    BY <1>2 DEF SetupFails, Setup, NotDue, SkipBroadcast, BroadcastSent,
                DropOwn, RelaySent, EndLoop, Goto, Place
  <2> QED
    BY <1>1, <2>1 DEF TypeOK
<1>3. ASSUME NEW n \in Node, Broadcast(n)
      PROVE  RecordedBy(m)'
  <2>1. m # n
    BY <1>3 DEF Broadcast, Goto, TypeOK
  <2> QED
    BY <1>1, <1>3, <2>1 DEF Broadcast, Goto, send, TypeOK, RadioType
<1>4. ASSUME NEW n \in Node, NothingHeard(n) \/ Heard(n) \/ Receive(n)
      PROVE  RecordedBy(m)'
  <2>1. m # n
    BY <1>4 DEF NothingHeard, Heard, Receive, EndLoop, Goto, TypeOK
  <2> QED
    BY <1>1, <1>4, <2>1 DEF NothingHeard, Heard, Receive, EndLoop, Goto,
                available, recv, TypeOK, RadioType
<1>5. ASSUME NEW n \in Node, StoreAndRelay(n)
      PROVE  RecordedBy(m)'
  <2>1. CASE m # n
    BY <1>1, <1>5, <2>1 DEF StoreAndRelay, Goto, StoreIncoming, send, TypeOK,
                RadioType
  <2>2. CASE m = n
    <3>1. incoming[n] \in GPSData
      BY <1>5, HandlesPacket DEF StoreAndRelay
    <3>2. nodeHistories'[n] = StorePosition(nodeHistories[n], incoming[n])
      BY <1>5 DEF StoreAndRelay, StoreIncoming, TypeOK
    <3>3. nodeHistories[n] \in Table
      BY DEF TypeOK
    <3>4. \/ \E i \in Slots : /\ Used(nodeHistories'[n], i)
                              /\ Newest(n, i)' = incoming[n]
          \/ \A i \in Slots : /\ Used(nodeHistories'[n], i)
                              /\ Owner(nodeHistories'[n], i) # incoming[n].nodeID
      BY <3>1, <3>2, <3>3, StorePositionRecords DEF Newest
    <3>5. fifo'[n].nodeID = incoming[n].nodeID
          /\ fifo'[n].reading = incoming[n].reading
      BY <1>5, <3>1, RelayedType DEF StoreAndRelay, send, TypeOK, RadioType
    <3> QED
      BY <2>2, <3>4, <3>5
  <2> QED
    BY <2>1, <2>2
<1>6. ASSUME NEW n \in Node, StoreOnly(n)
      PROVE  RecordedBy(m)'
  <2>1. m # n
    BY <1>6 DEF StoreOnly, EndLoop, Goto, TypeOK
  <2> QED
    BY <1>1, <1>6, <2>1 DEF StoreOnly, EndLoop, Goto, StoreIncoming, TypeOK
<1>7. ASSUME NEW n \in Node, Deliver(n)
      PROVE  RecordedBy(m)'
  <2>1. m # n /\ mode[m] = "tx"
    BY <1>7 DEF Deliver, TxDone, TypeOK, RadioType
  <2> QED
    BY <1>1, <1>7, <2>1 DEF Deliver, TxDone, TypeOK, RadioType
<1>8. CASE UNCHANGED vars \/ \E n \in Node : Halted(n)
  BY <1>1, <1>8 DEF vars, Halted
<1> QED
  BY <1>2, <1>3, <1>4, <1>5, <1>6, <1>7, <1>8 DEF Next, Step

----------------------------------------------------------------------------
(* The theorems.                                                           *)

THEOREM SpecIInv == Spec => []IInv
<1>1. Init => IInv
  <2>1. Init => Genuine /\ NoOwnReadings
    BY InitPackets DEF Genuine, NoOwnReadings
  <2>2. Init => RelayedIsRecorded
    BY DEF Init, RelayedIsRecorded
  <2> QED
    BY <2>1, <2>2, InitType, InitRadio DEF IInv
<1>2. IInv /\ [Next]_vars => IInv'
  BY NextType, NextRadio, NextGenuine, NextNoOwn, NextRelayed DEF IInv
<1> QED
  BY <1>1, <1>2, PTL DEF Spec

\* Every variable of every node stays in its type, the tables in bounds.
THEOREM Typing == Spec => []TypeOK
  BY SpecIInv, PTL DEF IInv

\* Nothing in the mesh is invented, mixed up or attributed to another node.
THEOREM Provenance == Spec => []Genuine
  BY SpecIInv, PTL DEF IInv

\* A node never records itself.
THEOREM NoOwnTrack == Spec => []NoOwnReadings
  BY SpecIInv, PTL DEF IInv

\* What a node sends on it has recorded first, unless its table is full.
THEOREM RelaysAreRecorded == Spec => []RelayedIsRecorded
  BY SpecIInv, PTL DEF IInv

\* In the mesh too the tables stay well formed.
THEOREM WellFormedTables == Spec => []TablesWellFormed
  BY SpecIInv, PTL DEF IInv

\* Radio and program agree at every node.
THEOREM RadioAndProgram == Spec => []RadioFollowsProgram
  BY SpecIInv, PTL DEF IInv

----------------------------------------------------------------------------
(* The test before the relay.                                              *)

LEMMA NextNotFromItself ==
  ASSUME \A n, m \in Node : curr_ID[n] = curr_ID[m] => n = m,
         TypeOK, RadioFollowsProgram, TablesWellFormed, NotFromItself,
         [Next]_vars
  PROVE  NotFromItself'
<1> DEFINE Kept(n) == ({rxBuf[n], incoming[n]} \ {NoPacket}) \union Recorded(n)
<1> SUFFICES ASSUME NEW m \in Node, NEW packet \in Kept(m)'
             PROVE  packet.senderID # curr_ID[m]
  BY DEF NotFromItself
<1> USE DEF radioVars, nodeVars
<1>1. ASSUME packet \in Kept(m)
      PROVE  packet.senderID # curr_ID[m]
  BY <1>1 DEF NotFromItself
<1>2. CASE packet \in Recorded(m)'
  BY <1>1, <1>2, NextRecorded, NoPacketAssumption
<1>3. CASE packet # NoPacket /\ packet \in {rxBuf'[m], incoming'[m]}
  <2>1. ASSUME NEW n \in Node, Deliver(n)
        PROVE  packet.senderID # curr_ID[m]
    <3>1. rxBuf'[m] = rxBuf[m] \/ (rxBuf'[m] = fifo[n] /\ mode[m] = "rx")
      BY <2>1 DEF Deliver, TxDone, Listening
    <3>2. incoming' = incoming /\ mode[n] = "tx"
      BY <2>1 DEF Deliver, TxDone
    <3>3. fifo[n].senderID = curr_ID[n]
      BY <3>2 DEF RadioFollowsProgram
    <3> QED
      BY <1>1, <1>3, <3>1, <3>2, <3>3
  <2>2. ASSUME NEW n \in Node, Receive(n)
        PROVE  packet.senderID # curr_ID[m]
    <3>1. /\ incoming' = [incoming EXCEPT ![n] = rxBuf[n]]
          /\ rxBuf' = [rxBuf EXCEPT ![n] = NoPacket]
      BY <2>2 DEF Receive, recv
    <3> QED
      BY <1>1, <1>3, <3>1 DEF TypeOK, RadioType
  <2>3. ASSUME rxBuf' = rxBuf,
               \/ incoming' = incoming
               \/ \E n \in Node : Handled(n)
        PROVE  packet.senderID # curr_ID[m]
    BY <1>1, <1>3, <2>3 DEF Handled, TypeOK
  <2>4. \/ \E n \in Node : Deliver(n) \/ Receive(n)
        \/ /\ rxBuf' = rxBuf
           /\ incoming' = incoming \/ \E n \in Node : Handled(n)
    BY DEF Next, Step, vars, SetupFails, Halted, Setup, NotDue, Broadcast,
           SkipBroadcast, BroadcastSent, NothingHeard, Heard, DropOwn,
           StoreAndRelay, StoreOnly, RelaySent, send, available
  <2> QED
    BY <2>1, <2>2, <2>3, <2>4
<1> QED
  BY <1>2, <1>3

\* With distinct IDs a node never gets back a packet that it sent last, so
\* the test of incoming.senderID never keeps one from being relayed.
THEOREM RelayTestNeverHolds ==
  ASSUME \A n, m \in Node : curr_ID[n] = curr_ID[m] => n = m
  PROVE  Spec => []NotFromItself
<1>1. Init => NotFromItself
  BY InitPackets DEF NotFromItself, InHand
<1>2. IInv /\ NotFromItself /\ [Next]_vars => NotFromItself'
  BY NextNotFromItself DEF IInv
<1> QED
  BY <1>1, <1>2, SpecIInv, PTL DEF Spec

----------------------------------------------------------------------------
(* Gateways in the mesh.                                                   *)

\* The boards that send.
Speaker == Node \ Gateway

\* The packet in its FIFO, in its receive buffer and in its program, if any.
Sending(n) == {fifo[n]} \ {NoPacket}

Buffered(n) == {rxBuf[n]} \ {NoPacket}

Handling(n) == {incoming[n]} \ {NoPacket}

Printed(n) ==
  IF n \in Gateway THEN {printed[n][i] : i \in DOMAIN printed[n]} ELSE {}

\* The packets that the program of n took from its radio and still has.
Taken(n) == Handling(n) \union Recorded(n) \union Printed(n)

Anywhere(n) == Sending(n) \union Buffered(n) \union Taken(n)

Printing == printed \in [Gateway -> Seq(GPSData)]

\* A gateway sends nothing.
Silent == \A g \in Gateway : sent[g] = 0 /\ fifo[g] = NoPacket

\* Genuine, of all the packets there are: gateways had no part in them.
FromSpeakers ==
  \A n \in Node : \A packet \in Anywhere(n) :
    /\ \E origin \in Speaker : BroadcastBy(origin, packet)
    /\ \E relay \in Speaker : packet.senderID = curr_ID[relay]

\* What holds with gateways among the boards, whatever the IDs are.
AllInv ==
  /\ TypeOK
  /\ BroadcastsBounded
  /\ RadioFollowsProgram
  /\ TablesWellFormed
  /\ NoOwnReadings
  /\ Printing
  /\ Silent
  /\ FromSpeakers

----------------------------------------------------------------------------

\* recv, and what a gateway does with the packet.
Fetches(n) ==
  /\ rxBuf[n] # NoPacket
  /\ incoming' = [incoming EXCEPT ![n] = rxBuf[n]]
  /\ rxBuf' = [rxBuf EXCEPT ![n] = NoPacket]
  /\ \/ n \notin Gateway /\ printed' = printed
     \/ n \in Gateway
        /\ printed' = [printed EXCEPT ![n] = Append(@, rxBuf[n])]
  /\ UNCHANGED <<fifo, nodeHistories, sent>>

\* The packet that was handled is let go.
LetsGo(n) ==
  /\ Handled(n)
  /\ UNCHANGED <<fifo, rxBuf, nodeHistories, sent, printed>>

Stores(n) ==
  /\ StoreAndRelay(n) \/ StoreOnly(n)
  /\ UNCHANGED printed

MovesNothing ==
  UNCHANGED <<fifo, rxBuf, incoming, nodeHistories, sent, printed>>

\* What a step does to the packets.
LEMMA Kinds ==
  ASSUME RadioFollowsProgram, [NextAll]_gatewayVars
  PROVE  \/ MovesNothing
         \/ \E n \in Speaker : Broadcast(n) /\ UNCHANGED printed
         \/ \E n \in Node : Deliver(n) /\ UNCHANGED printed
         \/ \E n \in Node : Fetches(n)
         \/ \E n \in Speaker : Stores(n)
         \/ \E n \in Node : LetsGo(n)
<1> DEFINE Kind ==
         \/ MovesNothing
         \/ \E n \in Speaker : Broadcast(n) /\ UNCHANGED printed
         \/ \E n \in Node : Deliver(n) /\ UNCHANGED printed
         \/ \E n \in Node : Fetches(n)
         \/ \E n \in Speaker : Stores(n)
         \/ \E n \in Node : LetsGo(n)
<1> USE DEF radioVars, nodeVars
<1>0. Gateway \subseteq Node
  BY GatewayAssumption
<1>1. CASE UNCHANGED gatewayVars
  BY <1>1 DEF MovesNothing, gatewayVars, vars
<1>2. ASSUME NEW n \in Speaker, Step(n), UNCHANGED printed
      PROVE  Kind
  <2>1. CASE \/ SetupFails(n) \/ Halted(n) \/ Setup(n) \/ NotDue(n)
             \/ SkipBroadcast(n) \/ BroadcastSent(n) \/ NothingHeard(n)
             \/ Heard(n) \/ RelaySent(n)
    <3>1. MovesNothing
      BY <1>2, <2>1 DEF MovesNothing, SetupFails, Halted, Setup, NotDue,
         SkipBroadcast, BroadcastSent, NothingHeard, Heard, RelaySent,
         available, vars
    <3> QED
      BY <3>1
  <2>2. CASE Broadcast(n)
    BY <1>2, <2>2
  <2>3. CASE Receive(n)
    <3>1. Fetches(n)
      BY <1>2, <2>3 DEF Fetches, Receive, recv, Speaker
    <3> QED
      BY <3>1 DEF Speaker
  <2>4. CASE DropOwn(n)
    <3>1. LetsGo(n)
      BY <1>2, <2>4 DEF LetsGo, DropOwn
    <3> QED
      BY <3>1 DEF Speaker
  <2>5. CASE StoreAndRelay(n) \/ StoreOnly(n)
    BY <1>2, <2>5 DEF Stores
  <2> QED
    BY <1>2, <2>1, <2>2, <2>3, <2>4, <2>5 DEF Step
<1>3. ASSUME NEW n \in Node, Deliver(n), UNCHANGED printed
      PROVE  Kind
  BY <1>3
<1>4. ASSUME NEW g \in Gateway, GatewayStep(g)
      PROVE  Kind
  <2>1. CASE \/ (SetupFails(g) \/ Halted(g) \/ Setup(g)) /\ UNCHANGED printed
             \/ GatewayHears(g) \/ GatewayHearsNothing(g)
    <3>1. MovesNothing
      BY <2>1 DEF MovesNothing, SetupFails, Halted, Setup, GatewayHears,
         GatewayHearsNothing, available, vars
    <3> QED
      BY <3>1
  <2>2. CASE Prints(g)
    <3>1. Fetches(g)
      BY <1>4, <2>2 DEF Fetches, Prints, recv
    <3> QED
      BY <1>0, <3>1
  <2>3. CASE LedOff(g)
    <3>1. LetsGo(g)
      BY <2>3 DEF LetsGo, LedOff
    <3> QED
      BY <1>0, <3>1
  <2> QED
    BY <1>4, <2>1, <2>2, <2>3 DEF GatewayStep
<1> QED
  BY <1>1, <1>2, <1>3, <1>4 DEF NextAll, Speaker

\* All but four steps of the gateways are steps of the mesh.
LEMMA MeshSteps ==
  ASSUME [NextAll]_gatewayVars
  PROVE  \/ [Next]_vars
         \/ \E g \in Gateway : \/ GatewayHears(g) \/ GatewayHearsNothing(g)
                               \/ Prints(g) \/ LedOff(g)
<1>1. Gateway \subseteq Node
  BY GatewayAssumption
<1> QED
  BY <1>1 DEF NextAll, GatewayStep, Next, Step, gatewayVars

\* What is true of the mesh of nodes stays true with gateways in it.
LEMMA NextAllType ==
  ASSUME AllInv, [NextAll]_gatewayVars
  PROVE  /\ TypeOK' /\ BroadcastsBounded' /\ TablesWellFormed'
         /\ RadioFollowsProgram' /\ NoOwnReadings'
<1> DEFINE Goal == /\ TypeOK' /\ BroadcastsBounded' /\ TablesWellFormed'
                   /\ RadioFollowsProgram' /\ NoOwnReadings'
<1> USE NoPacketAssumption, GatewayAssumption DEF AllInv, radioVars, nodeVars
<1>1. CASE [Next]_vars
  BY <1>1, NextType, NextRadio, NextNoOwn
<1>2. ASSUME NEW g \in Gateway, UNCHANGED <<due, nodeHistories, sent>>
      PROVE  BroadcastsBounded' /\ TablesWellFormed' /\ NoOwnReadings'
  BY <1>2 DEF BroadcastsBounded, TablesWellFormed, NoOwnReadings, Recorded
<1>3. ASSUME NEW g \in Gateway, GatewayHears(g) \/ GatewayHearsNothing(g)
      PROVE  Goal
  <2>1. TypeOK'
    BY <1>3 DEF GatewayHears, GatewayHearsNothing, Goto, available, TypeOK,
                RadioType, Mode, Place
  <2>2. RadioFollowsProgram'
    BY <1>3 DEF GatewayHears, GatewayHearsNothing, Goto, available,
                packetSent, TypeOK, RadioType, RadioFollowsProgram
  <2>3. UNCHANGED <<due, nodeHistories, sent>>
    BY <1>3 DEF GatewayHears, GatewayHearsNothing
  <2> QED
    BY <1>2, <2>1, <2>2, <2>3
<1>4. ASSUME NEW g \in Gateway, Prints(g)
      PROVE  Goal
  <2>1. TypeOK'
    BY <1>4 DEF Prints, Goto, recv, TypeOK, RadioType, Mode, Place
  <2>2. RadioFollowsProgram'
    BY <1>4 DEF Prints, Goto, recv, packetSent, TypeOK, RadioType,
                RadioFollowsProgram
  <2>3. UNCHANGED <<due, nodeHistories, sent>>
    BY <1>4 DEF Prints
  <2> QED
    BY <1>2, <2>1, <2>2, <2>3
<1>5. ASSUME NEW g \in Gateway, LedOff(g)
      PROVE  Goal
  <2>1. TypeOK'
    BY <1>5 DEF LedOff, Goto, Handled, TypeOK, RadioType, Place
  <2>2. RadioFollowsProgram'
    BY <1>5 DEF LedOff, Goto, Handled, TypeOK, RadioFollowsProgram
  <2>3. UNCHANGED <<due, nodeHistories, sent>>
    BY <1>5 DEF LedOff
  <2> QED
    BY <1>2, <2>1, <2>2, <2>3
<1> QED
  BY <1>1, <1>3, <1>4, <1>5, MeshSteps

\* A gateway prints packets and sends none.
LEMMA NextPrinting ==
  ASSUME AllInv, [NextAll]_gatewayVars
  PROVE  Printing' /\ Silent'
<1> USE DEF AllInv
<1>1. CASE MovesNothing
  BY <1>1 DEF MovesNothing, Printing, Silent
<1>2. ASSUME NEW n \in Speaker, Broadcast(n), UNCHANGED printed
      PROVE  Printing' /\ Silent'
  BY <1>2 DEF Broadcast, send, Speaker, Printing, Silent, TypeOK, RadioType
<1>3. ASSUME NEW n \in Node, Deliver(n), UNCHANGED printed
      PROVE  Printing' /\ Silent'
  BY <1>3 DEF Deliver, TxDone, nodeVars, Printing, Silent, TypeOK, RadioType
<1>4. ASSUME NEW n \in Node, Fetches(n)
      PROVE  Printing' /\ Silent'
  <2>1. rxBuf[n] \in GPSData
    BY <1>4 DEF Fetches, TypeOK, RadioType
  <2>2. CASE n \notin Gateway
    BY <1>4, <2>2 DEF Fetches, Printing, Silent
  <2>3. CASE n \in Gateway
    <3>1. printed[n] \in Seq(GPSData)
      BY <2>3 DEF Printing
    <3>2. Append(printed[n], rxBuf[n]) \in Seq(GPSData)
      BY <2>1, <3>1
    <3>3. printed' = [printed EXCEPT ![n] = Append(printed[n], rxBuf[n])]
      BY <1>4, <2>3 DEF Fetches
    <3>4. Printing'
      BY <3>2, <3>3 DEF Printing
    <3> QED
      BY <1>4, <3>4 DEF Fetches, Silent
  <2> QED
    BY <2>2, <2>3
<1>5. ASSUME NEW n \in Speaker, Stores(n)
      PROVE  Printing' /\ Silent'
  <2>1. /\ UNCHANGED <<printed, sent>>
        /\ \/ fifo' = fifo
           \/ fifo' = [fifo EXCEPT ![n] = Relayed(n)]
    BY <1>5 DEF Stores, StoreAndRelay, StoreOnly, send, radioVars
  <2>2. n \notin Gateway /\ fifo \in [Node -> GPSData \union {NoPacket}]
    BY DEF Speaker, TypeOK, RadioType
  <2> QED
    BY <2>1, <2>2, GatewayAssumption DEF Printing, Silent
<1>6. ASSUME NEW n \in Node, LetsGo(n)
      PROVE  Printing' /\ Silent'
  BY <1>6 DEF LetsGo, Printing, Silent
<1> QED
  BY <1>1, <1>2, <1>3, <1>4, <1>5, <1>6, Kinds

----------------------------------------------------------------------------
(* Where the packets are after a step.                                     *)

\* A step that neither sends a reading of its own nor takes a packet from a
\* radio: what was handled is recorded, dropped or still handled.
LEMMA SettledWhere ==
  ASSUME AllInv, NEW m \in Node,
         \/ MovesNothing
         \/ \E n \in Node : LetsGo(n)
         \/ \E n \in Speaker : Stores(n)
  PROVE  /\ Buffered(m)' = Buffered(m) /\ Printed(m)' = Printed(m)
         /\ Handling(m)' \subseteq Handling(m)
         /\ Recorded(m)' \subseteq Recorded(m) \union Handling(m)
         /\ Handling(m)' = {} \/ Recorded(m)' = Recorded(m)
<1> USE DEF AllInv, Buffered, Printed, Handling
<1>1. CASE MovesNothing
  BY <1>1 DEF MovesNothing, Recorded
<1>2. ASSUME NEW n \in Node, LetsGo(n)
      PROVE  /\ Buffered(m)' = Buffered(m) /\ Printed(m)' = Printed(m)
             /\ Handling(m)' \subseteq Handling(m)
             /\ Recorded(m)' = Recorded(m)
  BY <1>2 DEF LetsGo, Handled, Recorded, TypeOK
<1>3. ASSUME NEW n \in Speaker, Stores(n)
      PROVE  /\ Buffered(m)' = Buffered(m) /\ Printed(m)' = Printed(m)
             /\ Handling(m)' \subseteq Handling(m)
             /\ Recorded(m)' \subseteq Recorded(m) \union Handling(m)
             /\ Handling(m)' = {} \/ Recorded(m)' = Recorded(m)
  <2>1. n \in Node /\ incoming[n] \in GPSData
    BY <1>3, HandlesPacket DEF Stores, StoreAndRelay, StoreOnly, Speaker
  <2>2. StoreIncoming(n) /\ Handled(n) /\ UNCHANGED <<rxBuf, printed>>
    BY <1>3 DEF Stores, StoreAndRelay, StoreOnly, send, radioVars
  <2>3. /\ Recorded(n)' \subseteq Recorded(n) \union {incoming[n]}
        /\ \A l \in Node : l # n => nodeHistories'[l] = nodeHistories[l]
    BY <2>1, <2>2, StoreIncomingFacts
  <2>4. incoming' = [incoming EXCEPT ![n] = NoPacket]
    BY <2>2 DEF Handled
  <2>5. Buffered(m)' = Buffered(m) /\ Printed(m)' = Printed(m)
    BY <2>2
  <2>6. CASE m = n
    BY <2>1, <2>3, <2>4, <2>5, <2>6, NoPacketAssumption DEF TypeOK
  <2>7. CASE m # n
    BY <2>1, <2>3, <2>4, <2>5, <2>7 DEF TypeOK, Recorded
  <2> QED
    BY <2>6, <2>7
<1> QED
  BY <1>1, <1>2, <1>3

\* If such a step gives the radio a packet to send, it is the handled one.
LEMMA SettledSending ==
  ASSUME AllInv, NEW m \in Node,
         \/ MovesNothing
         \/ \E n \in Node : LetsGo(n)
         \/ \E n \in Speaker : Stores(n)
  PROVE  \/ Sending(m)' = Sending(m)
         \/ /\ m \in Speaker /\ incoming[m] \in Handling(m) /\ Foreign(m)
            /\ incoming[m] \in GPSData
            /\ Handling(m)' = {}
            /\ Sending(m)' = {Relayed(m)}
<1> USE DEF AllInv, Sending, Handling
<1>1. CASE MovesNothing \/ \E n \in Node : LetsGo(n)
  BY <1>1 DEF MovesNothing, LetsGo
<1>2. ASSUME NEW n \in Speaker, StoreOnly(n)
      PROVE  Sending(m)' = Sending(m)
  BY <1>2 DEF StoreOnly, radioVars
<1>3. ASSUME NEW n \in Speaker, StoreAndRelay(n)
      PROVE  \/ Sending(m)' = Sending(m)
             \/ /\ m \in Speaker /\ incoming[m] \in Handling(m) /\ Foreign(m)
                /\ incoming[m] \in GPSData
                /\ Handling(m)' = {}
                /\ Sending(m)' = {Relayed(m)}
  <2>1. n \in Node /\ incoming[n] \in GPSData
    BY <1>3, HandlesPacket DEF StoreAndRelay, Speaker
  <2>2. /\ fifo' = [fifo EXCEPT ![n] = Relayed(n)]
        /\ incoming' = [incoming EXCEPT ![n] = NoPacket]
        /\ Foreign(n)
    BY <1>3 DEF StoreAndRelay, send, Handled
  <2>3. Relayed(n) \in GPSData
    BY <2>1, RelayedType
  <2> QED
    BY <2>1, <2>2, <2>3, NoPacketAssumption DEF TypeOK, RadioType
<1> QED
  BY <1>1, <1>2, <1>3 DEF Stores

\* recv moves the packet from the buffer to the program, and at a gateway to
\* what it printed as well.
LEMMA FetchedWhere ==
  ASSUME AllInv, NEW n \in Node, Fetches(n), NEW m \in Node
  PROVE  /\ Sending(m)' = Sending(m)
         /\ Recorded(m)' = Recorded(m)
         /\ m # n => /\ Buffered(m)' = Buffered(m)
                     /\ Handling(m)' = Handling(m)
                     /\ Printed(m)' = Printed(m)
         /\ m = n => /\ Buffered(m)' = {}
                     /\ Handling(m)' = Buffered(m)
                     /\ Printed(m)' \subseteq Printed(m) \union Buffered(m)
<1> USE DEF AllInv, Fetches, Sending, Buffered, Handling, Printed
<1>1. Sending(m)' = Sending(m) /\ Recorded(m)' = Recorded(m)
  BY DEF Recorded
<1>2. CASE m # n
  <2>1. Buffered(m)' = Buffered(m) /\ Handling(m)' = Handling(m)
    BY <1>2 DEF TypeOK, RadioType
  <2>2. m \in Gateway => printed'[m] = printed[m]
    BY <1>2 DEF Printing
  <2>3. Printed(m)' = Printed(m)
    BY <2>2
  <2> HIDE DEF Fetches, Sending, Buffered, Handling, Printed
  <2> QED
    BY <1>1, <1>2, <2>1, <2>3
<1>3. CASE m = n
  <2>1. Buffered(m)' = {} /\ Handling(m)' = Buffered(m)
    BY <1>3 DEF TypeOK, RadioType
  <2>2. ASSUME m \in Gateway
        PROVE  Printed(m)' \subseteq Printed(m) \union Buffered(m)
    <3> DEFINE old == printed[m]
    <3>1. printed'[m] = Append(old, rxBuf[m])
      BY <1>3, <2>2 DEF Printing
    <3>2. old \in Seq(GPSData)
      BY <2>2 DEF Printing
    <3>3. rxBuf[m] \in GPSData /\ rxBuf[m] \in Buffered(m)
      BY <1>3 DEF TypeOK, RadioType
    <3>4. \A i \in DOMAIN old : old[i] \in Printed(m)
      BY <2>2
    <3> HIDE DEF old, Fetches, Buffered, Printed
    <3>5. \A i \in DOMAIN Append(old, rxBuf[m]) :
            \/ i \in DOMAIN old /\ Append(old, rxBuf[m])[i] = old[i]
            \/ Append(old, rxBuf[m])[i] = rxBuf[m]
      BY <3>2, <3>3
    <3>6. \A i \in DOMAIN printed'[m] :
            printed'[m][i] \in Printed(m) \union Buffered(m)
      BY <3>1, <3>3, <3>4, <3>5
    <3> QED
      BY <2>2, <3>6 DEF Printed
  <2>3. m \notin Gateway => Printed(m)' = {}
    OBVIOUS
  <2> QED
    BY <1>1, <1>3, <2>1, <2>2, <2>3
<1> QED
  BY <1>2, <1>3

\* The end of a transmission moves the packet to the buffers of those who
\* heard it, from where it may push another out.
LEMMA DeliveredWhere ==
  ASSUME AllInv, NEW n \in Node, Deliver(n), UNCHANGED printed, NEW m \in Node
  PROVE  /\ Taken(m)' = Taken(m) /\ Handling(m)' = Handling(m)
         /\ Recorded(m)' = Recorded(m)
         /\ m # n => Sending(m)' = Sending(m)
         /\ m = n => Sending(m)' = {} /\ Buffered(m)' = Buffered(m)
         /\ Buffered(m)' = Buffered(m) \/ Buffered(m)' = Sending(n)
<1>1. UNCHANGED <<incoming, nodeHistories, printed>>
  BY DEF Deliver, nodeVars
<1>2. /\ Taken(m)' = Taken(m) /\ Handling(m)' = Handling(m)
      /\ Recorded(m)' = Recorded(m)
  BY <1>1 DEF Taken, Handling, Recorded, Printed
<1>3. fifo' = [fifo EXCEPT ![n] = NoPacket]
  BY DEF Deliver, TxDone
<1>4. /\ m # n => Sending(m)' = Sending(m)
      /\ m = n => Sending(m)' = {}
  BY <1>3 DEF AllInv, TypeOK, RadioType, Sending
<1>5. /\ rxBuf'[m] \in {rxBuf[m], fifo[n]}
      /\ m = n => rxBuf'[m] = rxBuf[m]
  BY DEF Deliver, TxDone, Listening
<1> QED
  BY <1>2, <1>4, <1>5 DEF Buffered, Sending

\* A broadcast adds the node's own reading to what is being sent.
LEMMA BroadcastWhere ==
  ASSUME AllInv, NEW n \in Speaker, Broadcast(n), UNCHANGED printed,
         NEW m \in Node
  PROVE  /\ Taken(m)' = Taken(m) /\ Handling(m)' = Handling(m)
         /\ Recorded(m)' = Recorded(m) /\ Buffered(m)' = Buffered(m)
         /\ m # n => Sending(m)' = Sending(m)
         /\ m = n => Sending(m)' = {Own(n)}
<1>1. UNCHANGED <<incoming, nodeHistories, rxBuf, printed>>
      /\ fifo' = [fifo EXCEPT ![n] = Own(n)]
  BY DEF Broadcast, send
<1>2. /\ Taken(m)' = Taken(m) /\ Handling(m)' = Handling(m)
      /\ Recorded(m)' = Recorded(m) /\ Buffered(m)' = Buffered(m)
  BY <1>1 DEF Taken, Handling, Recorded, Printed, Buffered
<1>3. n \in Node /\ Own(n) \in GPSData
  BY OwnType DEF AllInv, Broadcast, Speaker
<1> QED
  BY <1>1, <1>2, <1>3, NoPacketAssumption DEF AllInv, TypeOK, RadioType, Sending

----------------------------------------------------------------------------
(* Where packets come from.                                                *)

\* After a step there are the packets that there were before, the reading
\* just broadcast, and what a node relays of the packet it handled.
LEMMA NextAnywhere ==
  ASSUME AllInv, [NextAll]_gatewayVars,
         NEW m \in Node, NEW packet \in Anywhere(m)'
  PROVE  \/ \E n \in Node : packet \in Anywhere(n)
         \/ \E n \in Speaker : Broadcast(n) /\ packet = Own(n)
         \/ \E n \in Speaker : /\ incoming[n] \in Handling(n) \cap GPSData
                              /\ packet = Relayed(n)
<1> DEFINE Settles == \/ MovesNothing
                      \/ \E n \in Node : LetsGo(n)
                      \/ \E n \in Speaker : Stores(n)
<1> USE DEF Anywhere
<1>1. CASE Settles
  <2>1. /\ Buffered(m)' = Buffered(m) /\ Printed(m)' = Printed(m)
        /\ Handling(m)' \subseteq Handling(m)
        /\ Recorded(m)' \subseteq Recorded(m) \union Handling(m)
    BY <1>1, SettledWhere
  <2>2. \/ Sending(m)' = Sending(m)
        \/ /\ m \in Speaker /\ incoming[m] \in Handling(m) \cap GPSData
           /\ Sending(m)' = {Relayed(m)}
    BY <1>1, SettledSending
  <2>3. packet \in Sending(m)' \/ packet \in Anywhere(m)
    BY <2>1 DEF Taken
  <2> QED
    BY <2>2, <2>3
<1>2. ASSUME NEW n \in Node, Fetches(n)
      PROVE  packet \in Anywhere(m)
  BY <1>2, FetchedWhere DEF Taken
<1>3. ASSUME NEW n \in Node, Deliver(n), UNCHANGED printed
      PROVE  packet \in Anywhere(m) \union Anywhere(n)
  BY <1>3, DeliveredWhere
<1>4. ASSUME NEW n \in Speaker, Broadcast(n), UNCHANGED printed
      PROVE  packet \in Anywhere(m) \/ packet = Own(n)
  BY <1>4, BroadcastWhere
<1> QED
  BY <1>1, <1>2, <1>3, <1>4, Kinds DEF AllInv

\* No step takes back a broadcast.
LEMMA NextSent ==
  ASSUME AllInv, [NextAll]_gatewayVars, NEW n \in Node
  PROVE  sent[n] \in Nat /\ sent'[n] \in Nat /\ sent[n] <= sent'[n]
<1>1. sent[n] \in Nat
  BY DEF AllInv, TypeOK
<1>2. sent' = sent \/ \E m \in Speaker : Broadcast(m)
  BY Kinds DEF AllInv, MovesNothing, Deliver, nodeVars, Fetches, Stores,
     StoreAndRelay, StoreOnly, LetsGo
<1>3. ASSUME NEW m \in Speaker, Broadcast(m)
      PROVE  sent'[n] \in {sent[n], sent[n] + 1}
  BY <1>3 DEF Broadcast, AllInv, TypeOK
<1> QED
  BY <1>1, <1>2, <1>3

\* Provenance: gateways have no part in any packet.
LEMMA NextFromSpeakers ==
  ASSUME AllInv, [NextAll]_gatewayVars
  PROVE  FromSpeakers'
<1> DEFINE By(p) == \E origin \in Speaker : BroadcastBy(origin, p)
           Via(p) == \E relay \in Speaker : p.senderID = curr_ID[relay]
<1> SUFFICES ASSUME NEW m \in Node, NEW packet \in Anywhere(m)'
             PROVE  By(packet)' /\ Via(packet)
  BY DEF FromSpeakers
<1>1. ASSUME NEW p, By(p)
      PROVE  By(p)'
  <2>1. PICK origin \in Speaker : BroadcastBy(origin, p)
    BY <1>1
  <2>2. PICK k \in 1 .. sent[origin] : p.reading = <<origin, k>>
    BY <2>1 DEF BroadcastBy
  <2>3. k \in 1 .. sent'[origin]
    BY NextSent DEF Speaker
  <2> QED
    BY <2>1, <2>2, <2>3 DEF BroadcastBy
<1>2. ASSUME NEW n \in Node, packet \in Anywhere(n)
      PROVE  By(packet)' /\ Via(packet)
  BY <1>1, <1>2 DEF AllInv, FromSpeakers
<1>3. ASSUME NEW n \in Speaker, Broadcast(n), packet = Own(n)
      PROVE  By(packet)' /\ Via(packet)
  <2>1. sent[n] \in Nat /\ sent'[n] = sent[n] + 1
    BY <1>3 DEF Broadcast, AllInv, TypeOK, Speaker
  <2>2. /\ packet.nodeID = curr_ID[n] /\ packet.senderID = curr_ID[n]
        /\ packet.reading = <<n, sent[n] + 1>>
    BY <1>3 DEF Own
  <2>3. sent[n] + 1 \in 1 .. sent'[n]
    BY <2>1
  <2>4. BroadcastBy(n, packet)'
    BY <2>2, <2>3 DEF BroadcastBy
  <2> QED
    BY <2>2, <2>4
<1>4. ASSUME NEW n \in Speaker, incoming[n] \in Handling(n) \cap GPSData,
             packet = Relayed(n)
      PROVE  By(packet)' /\ Via(packet)
  <2>1. PICK p \in Handling(n) : p = incoming[n]
    BY <1>4
  <2>2. /\ packet.senderID = curr_ID[n]
        /\ packet.nodeID = p.nodeID
        /\ packet.reading = p.reading
    BY <1>4, <2>1, RelayedType DEF Speaker
  <2>3. p \in Anywhere(n) /\ n \in Node
    BY DEF Anywhere, Taken, Speaker
  <2>4. By(p)
    BY <2>3 DEF AllInv, FromSpeakers
  <2>5. By(p)'
    BY <1>1, <2>4
  <2> QED
    BY <2>2, <2>5 DEF BroadcastBy
<1> QED
  BY <1>2, <1>3, <1>4, NextAnywhere

LEMMA NextAllInv == AllInv /\ [NextAll]_gatewayVars => AllInv'
  BY NextAllType, NextPrinting, NextFromSpeakers DEF AllInv

LEMMA InitAnywhere == InitAll => \A n \in Node : Anywhere(n) = {}
<1> SUFFICES ASSUME InitAll, NEW n \in Node
             PROVE  Anywhere(n) = {}
  OBVIOUS
<1>1. Sending(n) = {} /\ Buffered(n) = {} /\ Handling(n) = {}
  BY DEF InitAll, Init, RadioInit, Sending, Buffered, Handling
<1>2. Recorded(n) = {}
  BY InitPackets DEF InitAll
<1>3. Printed(n) = {}
  BY DEF InitAll, Printed
<1> QED
  BY <1>1, <1>2, <1>3 DEF Anywhere, Taken

LEMMA InitAllInv == InitAll => AllInv
<1> SUFFICES ASSUME InitAll
             PROVE  AllInv
  OBVIOUS
<1>1. TypeOK /\ BroadcastsBounded /\ TablesWellFormed /\ RadioFollowsProgram
  BY InitType, InitRadio DEF InitAll
<1>2. NoOwnReadings
  BY InitPackets DEF InitAll, NoOwnReadings
<1>3. Printing
  BY DEF InitAll, Printing
<1>4. Silent
  BY GatewayAssumption DEF InitAll, Init, RadioInit, Silent
<1>5. FromSpeakers
  BY InitAnywhere DEF FromSpeakers
<1> QED
  BY <1>1, <1>2, <1>3, <1>4, <1>5 DEF AllInv

----------------------------------------------------------------------------
(* The order in which readings arrive.                                     *)

DistinctIDs == \A n, m \in Node : curr_ID[n] = curr_ID[m] => n = m

\* At most two of the boards are nodes, the others are gateways.
TwoSpeakers == \A k, l, m \in Speaker : k = l \/ k = m \/ l = m

\* Two packets of one node that come the same way.
Earlier(p, q) ==
  p.nodeID = q.nodeID /\ p.senderID = q.senderID
    => p.reading[2] < q.reading[2]

\* On its way from one radio to one program a packet overtakes no other.
InOrder ==
  \A n \in Node :
    /\ \A m \in Node : \A p \in Taken(n) \union Buffered(n), q \in Sending(m) :
         Earlier(p, q)
    /\ \A p \in Taken(n), q \in Buffered(n) : Earlier(p, q)
    /\ \A p \in Recorded(n), q \in Handling(n) : Earlier(p, q)

\* The packet has come from the node that took the reading.
Direct(p) == p.senderID = p.nodeID

\* What m has relayed is older than what it can still relay: the packets on
\* their way from the other node through its buffer to its program.
RelaysBehind ==
  \A l, m \in Node : \A p \in Anywhere(l) :
    /\ \A q \in Buffered(m) \union Handling(m) :
         Direct(q) /\ p.nodeID = q.nodeID /\ p.senderID = curr_ID[m]
           => p.reading[2] < q.reading[2]
    /\ \A q \in Sending(m) :
         Direct(q) /\ p.nodeID = q.nodeID /\ p.senderID # q.senderID
           => p.reading[2] < q.reading[2]

\* A gateway receives what others sent, so the packet it takes is not its own.
LEMMA NextAllNotFromItself ==
  ASSUME DistinctIDs, AllInv, NotFromItself, [NextAll]_gatewayVars
  PROVE  NotFromItself'
<1> USE DEF AllInv
<1>1. CASE [Next]_vars
  BY <1>1, NextNotFromItself DEF DistinctIDs
<1>2. ASSUME NEW g \in Gateway, GatewayHears(g) \/ GatewayHearsNothing(g)
      PROVE  NotFromItself'
  <2>1. UNCHANGED <<rxBuf, incoming, nodeHistories>>
    BY <1>2 DEF GatewayHears, GatewayHearsNothing, available, nodeVars
  <2> QED
    BY <2>1 DEF NotFromItself, Recorded
<1>3. ASSUME NEW g \in Gateway, Prints(g)
      PROVE  NotFromItself'
  <2>1. /\ nodeHistories' = nodeHistories
        /\ incoming' = [incoming EXCEPT ![g] = rxBuf[g]]
        /\ rxBuf' = [rxBuf EXCEPT ![g] = NoPacket]
    BY <1>3 DEF Prints, recv
  <2> QED
    BY <2>1 DEF NotFromItself, Recorded, TypeOK, RadioType
<1>4. ASSUME NEW g \in Gateway, LedOff(g)
      PROVE  NotFromItself'
  <2>1. /\ UNCHANGED <<rxBuf, nodeHistories>>
        /\ incoming' = [incoming EXCEPT ![g] = NoPacket]
    BY <1>4 DEF LedOff, Handled, radioVars
  <2> QED
    BY <2>1 DEF NotFromItself, Recorded, TypeOK
<1> QED
  BY <1>1, <1>2, <1>3, <1>4, MeshSteps

\* With two nodes, what the one gets that is not its own comes directly.
LEMMA ForeignIsDirect ==
  ASSUME TwoSpeakers, AllInv, NotFromItself, NEW n \in Speaker,
         NEW p \in Handling(n) \union Recorded(n), p.nodeID # curr_ID[n]
  PROVE  Direct(p)
<1>1. n \in Node /\ p \in Anywhere(n)
  BY DEF Speaker, Anywhere, Taken
<1>2. PICK o \in Speaker : p.nodeID = curr_ID[o]
  BY <1>1 DEF AllInv, FromSpeakers, BroadcastBy
<1>3. PICK s \in Speaker : p.senderID = curr_ID[s]
  BY <1>1 DEF AllInv, FromSpeakers
<1>4. p.senderID # curr_ID[n]
  BY <1>1 DEF NotFromItself, Handling
<1>5. o = s
  BY <1>2, <1>3, <1>4 DEF TwoSpeakers
<1> QED
  BY <1>2, <1>3, <1>5 DEF Direct

\* No packet of a node is newer than the reading it broadcast last.
LEMMA NumberedBySender ==
  ASSUME DistinctIDs, AllInv, NEW n \in Node, NEW p \in Anywhere(n),
         NEW o \in Node, p.nodeID = curr_ID[o]
  PROVE  p.reading[2] \in 1 .. sent[o]
<1>1. PICK origin \in Speaker : BroadcastBy(origin, p)
  BY DEF AllInv, FromSpeakers
<1>2. origin = o
  BY <1>1 DEF DistinctIDs, BroadcastBy, Speaker
<1>3. PICK k \in 1 .. sent[o] : p.reading = <<o, k>>
  BY <1>1, <1>2 DEF BroadcastBy
<1> QED
  BY <1>3

\* What a radio sends bears the ID of its node as senderID.
LEMMA SendsUnderOwnID ==
  ASSUME AllInv, NEW n \in Node, NEW p \in Sending(n)
  PROVE  p.senderID = curr_ID[n]
  BY DEF AllInv, Sending, RadioFollowsProgram

\* The inductive invariant of the order.
OrderInv == AllInv /\ NotFromItself /\ InOrder /\ RelaysBehind

\* A new broadcast is numbered above all that its node ever sent.
LEMMA BroadcastOrder ==
  ASSUME DistinctIDs, OrderInv, NEW n \in Speaker, Broadcast(n),
         UNCHANGED printed
  PROVE  InOrder' /\ RelaysBehind'
<1> USE DEF OrderInv
<1>0. n \in Node
  BY DEF Speaker
<1>1. /\ Own(n).nodeID = curr_ID[n] /\ Own(n).senderID = curr_ID[n]
      /\ Own(n).reading[2] = sent[n] + 1 /\ sent[n] \in Nat
  BY <1>0 DEF Own, AllInv, TypeOK
<1>2. \A m \in Node :
        /\ Taken(m)' = Taken(m) /\ Handling(m)' = Handling(m)
        /\ Recorded(m)' = Recorded(m) /\ Buffered(m)' = Buffered(m)
        /\ m # n => Sending(m)' = Sending(m)
        /\ m = n => Sending(m)' = {Own(n)}
  BY BroadcastWhere
<1>3. \A l \in Node : \A p \in Anywhere(l) :
        p.nodeID = curr_ID[n] => p.reading[2] < sent[n] + 1
  <2>1. \A l \in Node : \A p \in Anywhere(l) :
          p.nodeID = curr_ID[n] => p.reading[2] \in 1 .. sent[n]
    BY <1>0, NumberedBySender
  <2> QED
    BY <1>1, <2>1
<1>4. \A m \in Node : Taken(m) \union Buffered(m) \subseteq Anywhere(m)
  BY DEF Anywhere
<1>5. \A l \in Node : \A p \in Anywhere(l)' : p \in Anywhere(l) \/ p = Own(n)
  BY <1>2 DEF Anywhere
<1>6. InOrder'
  <2> SUFFICES ASSUME NEW l \in Node
               PROVE
        /\ \A m \in Node : \A p \in Taken(l)' \union Buffered(l)',
             q \in Sending(m)' : Earlier(p, q)
        /\ \A p \in Taken(l)', q \in Buffered(l)' : Earlier(p, q)
        /\ \A p \in Recorded(l)', q \in Handling(l)' : Earlier(p, q)
    BY DEF InOrder, Earlier
  <2>1. ASSUME NEW m \in Node, NEW p \in Taken(l)' \union Buffered(l)',
               NEW q \in Sending(m)'
        PROVE  Earlier(p, q)
    <3>1. p \in Taken(l) \union Buffered(l) /\ p \in Anywhere(l)
      BY <1>2, <1>4
    <3>2. CASE m = n
      <4>1. q = Own(n)
        BY <1>2, <2>1, <3>2
      <4> QED
        BY <1>1, <1>3, <3>1, <4>1 DEF Earlier
    <3>3. CASE m # n
      <4>1. q \in Sending(m)
        BY <1>2, <2>1, <3>3
      <4> QED
        BY <3>1, <4>1 DEF InOrder
    <3> QED
      BY <3>2, <3>3
  <2> QED
    BY <1>2, <2>1 DEF InOrder
<1>7. ASSUME NEW l \in Node, NEW m \in Node, NEW p \in Anywhere(l)',
             NEW q \in Buffered(m)' \union Handling(m)',
             Direct(q), p.nodeID = q.nodeID, p.senderID = curr_ID[m]
      PROVE  p.reading[2] < q.reading[2]
  <2>1. q \in Buffered(m) \union Handling(m)
    BY <1>2
  <2>2. CASE p \in Anywhere(l)
    BY <1>7, <2>1, <2>2 DEF RelaysBehind
  <2>3. CASE p = Own(n)
    <3>1. m = n /\ q.senderID = curr_ID[m]
      BY <1>0, <1>1, <1>7, <2>3 DEF DistinctIDs, Direct
    <3> QED
      BY <2>1, <3>1 DEF NotFromItself, Buffered, Handling
  <2> QED
    BY <1>5, <2>2, <2>3
<1>8. ASSUME NEW l \in Node, NEW m \in Node, NEW p \in Anywhere(l)',
             NEW q \in Sending(m)',
             Direct(q), p.nodeID = q.nodeID, p.senderID # q.senderID
      PROVE  p.reading[2] < q.reading[2]
  <2>1. CASE m = n
    <3>1. q = Own(n) /\ p # Own(n)
      BY <1>2, <1>8, <2>1
    <3>2. p \in Anywhere(l)
      BY <1>5, <3>1
    <3> QED
      BY <1>1, <1>3, <1>8, <3>1, <3>2
  <2>2. CASE m # n
    <3>1. q \in Sending(m) /\ q.senderID = curr_ID[m]
      BY <1>2, <2>2, SendsUnderOwnID
    <3>2. p # Own(n)
      BY <1>0, <1>1, <1>8, <2>2, <3>1 DEF Direct, DistinctIDs
    <3> QED
      BY <1>5, <1>8, <3>1, <3>2 DEF RelaysBehind
  <2> QED
    BY <2>1, <2>2
<1>9. RelaysBehind'
  BY <1>7, <1>8 DEF RelaysBehind, Direct
<1> QED
  BY <1>6, <1>9

\* What is delivered was behind nothing that is in the air, and is in front of
\* nothing that was delivered before.
LEMMA DeliverOrder ==
  ASSUME DistinctIDs, OrderInv, NEW n \in Node, Deliver(n), UNCHANGED printed
  PROVE  InOrder' /\ RelaysBehind'
<1> USE DEF OrderInv
<1>1. \A m \in Node :
        /\ Taken(m)' = Taken(m) /\ Handling(m)' = Handling(m)
        /\ Recorded(m)' = Recorded(m)
        /\ m # n => Sending(m)' = Sending(m)
        /\ m = n => Sending(m)' = {} /\ Buffered(m)' = Buffered(m)
        /\ Buffered(m)' = Buffered(m) \/ Buffered(m)' = Sending(n)
  BY DeliveredWhere
<1>2. \A m \in Node : \A q \in Sending(m) : q.senderID = curr_ID[m]
  BY SendsUnderOwnID
<1>3. ASSUME NEW l \in Node, NEW p \in Anywhere(l)'
      PROVE  \E k \in Node : p \in Anywhere(k)
  <2>1. p \in Anywhere(l) \/ p \in Anywhere(n)
    BY <1>1, <1>3 DEF Anywhere
  <2> QED
    BY <2>1
<1>4. ASSUME NEW l \in Node, NEW m \in Node,
             NEW p \in Taken(l)' \union Buffered(l)', NEW q \in Sending(m)'
      PROVE  Earlier(p, q)
  <2>1. m # n /\ q \in Sending(m)
    BY <1>1, <1>4
  <2>2. CASE p \in Taken(l) \union Buffered(l)
    BY <2>1, <2>2 DEF InOrder
  <2>3. CASE p \in Sending(n)
    <3>1. p.senderID # q.senderID
      BY <1>2, <2>1, <2>3 DEF DistinctIDs
    <3> QED
      BY <3>1 DEF Earlier
  <2> QED
    BY <1>1, <2>2, <2>3
<1>5. ASSUME NEW l \in Node, NEW p \in Taken(l)', NEW q \in Buffered(l)'
      PROVE  Earlier(p, q)
  <2>1. p \in Taken(l) /\ q \in Buffered(l) \union Sending(n)
    BY <1>1
  <2> QED
    BY <2>1 DEF InOrder
<1>6. InOrder'
  BY <1>1, <1>4, <1>5 DEF InOrder, Earlier
<1>7. ASSUME NEW l \in Node, NEW m \in Node, NEW p \in Anywhere(l)',
             NEW q \in Buffered(m)' \union Handling(m)',
             Direct(q), p.nodeID = q.nodeID, p.senderID = curr_ID[m]
      PROVE  p.reading[2] < q.reading[2]
  <2>1. PICK k \in Node : p \in Anywhere(k)
    BY <1>3
  <2>2. CASE q \in Buffered(m) \union Handling(m)
    BY <1>7, <2>1, <2>2 DEF RelaysBehind
  <2>3. CASE q \in Sending(n) /\ m # n
    <3>1. q.senderID = curr_ID[n]
      BY <1>2, <2>3
    <3>2. p.senderID # q.senderID
      BY <1>7, <2>3, <3>1 DEF DistinctIDs
    <3> QED
      BY <1>7, <2>1, <2>3, <3>2 DEF RelaysBehind
  <2> QED
    BY <1>1, <2>2, <2>3
<1>8. ASSUME NEW l \in Node, NEW m \in Node, NEW p \in Anywhere(l)',
             NEW q \in Sending(m)',
             Direct(q), p.nodeID = q.nodeID, p.senderID # q.senderID
      PROVE  p.reading[2] < q.reading[2]
  <2>1. PICK k \in Node : p \in Anywhere(k)
    BY <1>3
  <2>2. q \in Sending(m)
    BY <1>1
  <2> QED
    BY <1>8, <2>1, <2>2 DEF RelaysBehind
<1>9. RelaysBehind'
  BY <1>7, <1>8 DEF RelaysBehind, Direct
<1> QED
  BY <1>6, <1>9

\* A buffer has one place: recv takes the packets in the order they came.
LEMMA FetchOrder ==
  ASSUME OrderInv, NEW n \in Node, Fetches(n)
  PROVE  InOrder' /\ RelaysBehind'
<1> USE DEF OrderInv
<1>1. \A m \in Node :
        /\ Sending(m)' = Sending(m)
        /\ Recorded(m)' = Recorded(m)
        /\ m # n => /\ Buffered(m)' = Buffered(m)
                    /\ Handling(m)' = Handling(m)
                    /\ Printed(m)' = Printed(m)
        /\ m = n => /\ Buffered(m)' = {}
                    /\ Handling(m)' = Buffered(m)
                    /\ Printed(m)' \subseteq Printed(m) \union Buffered(m)
  BY FetchedWhere
<1>2. \A m \in Node :
        /\ Taken(m)' \subseteq Taken(m) \union Buffered(m)
        /\ Buffered(m)' \subseteq Buffered(m)
        /\ Buffered(m)' # {} => Taken(m)' = Taken(m)
        /\ \/ Handling(m)' = Handling(m)
           \/ Handling(m)' = Buffered(m)
        /\ Recorded(m) \subseteq Taken(m)
  BY <1>1 DEF Taken
<1>3. \A m \in Node : Anywhere(m)' \subseteq Anywhere(m)
  BY <1>1, <1>2 DEF Anywhere
<1>4. \A m \in Node :
        Buffered(m)' \union Handling(m)' \subseteq Buffered(m) \union Handling(m)
  BY <1>2
<1>5. ASSUME NEW l \in Node
      PROVE  /\ \A m \in Node : \A p \in Taken(l)' \union Buffered(l)',
                  q \in Sending(m)' : Earlier(p, q)
             /\ \A p \in Taken(l)', q \in Buffered(l)' : Earlier(p, q)
             /\ \A p \in Recorded(l)', q \in Handling(l)' : Earlier(p, q)
  <2>1. ASSUME NEW m \in Node, NEW p \in Taken(l)' \union Buffered(l)',
               NEW q \in Sending(m)'
        PROVE  Earlier(p, q)
    BY <1>1, <1>2 DEF InOrder
  <2>2. ASSUME NEW p \in Taken(l)', NEW q \in Buffered(l)'
        PROVE  Earlier(p, q)
    BY <1>2 DEF InOrder
  <2>3. ASSUME NEW p \in Recorded(l)', NEW q \in Handling(l)'
        PROVE  Earlier(p, q)
    BY <1>1, <1>2 DEF InOrder
  <2> QED
    BY <2>1, <2>2, <2>3
<1>6. InOrder'
  BY <1>5 DEF InOrder, Earlier
<1>7. RelaysBehind'
  <2>1. ASSUME NEW l \in Node, NEW m \in Node, NEW p \in Anywhere(l)'
        PROVE  /\ \A q \in Buffered(m)' \union Handling(m)' :
                    Direct(q) /\ p.nodeID = q.nodeID /\ p.senderID = curr_ID[m]
                      => p.reading[2] < q.reading[2]
               /\ \A q \in Sending(m)' :
                    Direct(q) /\ p.nodeID = q.nodeID /\ p.senderID # q.senderID
                      => p.reading[2] < q.reading[2]
    BY <1>1, <1>3, <1>4 DEF RelaysBehind
  <2> QED
    BY <2>1 DEF RelaysBehind, Direct
<1> QED
  BY <1>6, <1>7

\* What a node sends on is newer than all that it has sent on before, and
\* older than all that it can still send on.
LEMMA SettleOrder ==
  ASSUME DistinctIDs, TwoSpeakers, OrderInv,
         \/ MovesNothing
         \/ \E n \in Node : LetsGo(n)
         \/ \E n \in Speaker : Stores(n)
  PROVE  InOrder' /\ RelaysBehind'
<1> DEFINE Relays(m) == /\ m \in Speaker
                        /\ incoming[m] \in Handling(m) /\ Foreign(m)
                        /\ incoming[m] \in GPSData
                        /\ Sending(m)' = {Relayed(m)}
                        /\ Handling(m)' = {}
<1> USE DEF OrderInv
<1>1. \A m \in Node :
        /\ Buffered(m)' = Buffered(m) /\ Printed(m)' = Printed(m)
        /\ Handling(m)' \subseteq Handling(m)
        /\ Recorded(m)' \subseteq Recorded(m) \union Handling(m)
        /\ Handling(m)' = {} \/ Recorded(m)' = Recorded(m)
  BY SettledWhere
<1>2. \A m \in Node : Sending(m)' = Sending(m) \/ Relays(m)
  BY SettledSending
<1>3. \A m \in Node : Taken(m)' \subseteq Taken(m)
  BY <1>1 DEF Taken
<1>4. \A m \in Node : Relays(m) =>
        /\ Relayed(m).senderID = curr_ID[m]
        /\ Relayed(m).nodeID = incoming[m].nodeID
        /\ Relayed(m).nodeID # curr_ID[m]
        /\ Relayed(m).reading = incoming[m].reading
        /\ Direct(incoming[m])
  <2> SUFFICES ASSUME NEW m \in Node, Relays(m)
               PROVE  /\ Relayed(m).senderID = curr_ID[m]
                      /\ Relayed(m).nodeID = incoming[m].nodeID
                      /\ Relayed(m).nodeID # curr_ID[m]
                      /\ Relayed(m).reading = incoming[m].reading
                      /\ Direct(incoming[m])
    OBVIOUS
  <2>1. /\ Relayed(m).senderID = curr_ID[m]
        /\ Relayed(m).nodeID = incoming[m].nodeID
        /\ Relayed(m).reading = incoming[m].reading
    BY RelayedType
  <2>2. incoming[m].nodeID # curr_ID[m]
    BY DEF Foreign
  <2>3. Direct(incoming[m])
    BY <2>2, ForeignIsDirect
  <2> QED
    BY <2>1, <2>2, <2>3
<1>5. \A m \in Node : Taken(m) \union Buffered(m) \subseteq Anywhere(m)
  BY DEF Anywhere
<1>6. \A l \in Node : \A p \in Anywhere(l)' :
        p \in Anywhere(l) \/ (Relays(l) /\ p = Relayed(l))
  <2> SUFFICES ASSUME NEW l \in Node, NEW p \in Anywhere(l)'
               PROVE  p \in Anywhere(l) \/ (Relays(l) /\ p = Relayed(l))
    OBVIOUS
  <2>1. CASE p \in Sending(l)'
    BY <1>2, <2>1 DEF Anywhere
  <2>2. CASE p \in Buffered(l)' \union Taken(l)'
    BY <1>1, <1>3, <2>2 DEF Anywhere
  <2> QED
    BY <2>1, <2>2 DEF Anywhere
<1> HIDE DEF Relays
<1>7. \A m \in Node : Relays(m) => /\ incoming[m] \in Handling(m)
                                   /\ incoming[m] \in Taken(m)
                                   /\ Sending(m)' = {Relayed(m)}
                                   /\ Handling(m)' = {}
  BY DEF Relays, Taken
<1>8. ASSUME NEW l \in Node, NEW m \in Node,
             NEW p \in Taken(l)' \union Buffered(l)', NEW q \in Sending(m)'
      PROVE  Earlier(p, q)
  <2>1. p \in Taken(l) \union Buffered(l) /\ p \in Anywhere(l)
    BY <1>1, <1>3, <1>5
  <2>2. CASE q \in Sending(m)
    BY <2>1, <2>2 DEF InOrder
  <2>3. CASE Relays(m) /\ q = Relayed(m)
    <3> SUFFICES ASSUME p.nodeID = q.nodeID, p.senderID = q.senderID
                 PROVE  p.reading[2] < q.reading[2]
      BY DEF Earlier
    <3>1. p.senderID = curr_ID[m] /\ p.nodeID = incoming[m].nodeID
      BY <1>4, <2>3
    <3>2. p.reading[2] < incoming[m].reading[2]
      BY <1>4, <1>7, <2>1, <2>3, <3>1 DEF RelaysBehind
    <3> QED
      BY <1>4, <2>3, <3>2
  <2> QED
    BY <1>2, <1>7, <2>2, <2>3
<1>9. InOrder'
  <2>1. ASSUME NEW l \in Node
        PROVE  /\ \A p \in Taken(l)', q \in Buffered(l)' : Earlier(p, q)
               /\ \A p \in Recorded(l)', q \in Handling(l)' : Earlier(p, q)
    BY <1>1, <1>3 DEF InOrder
  <2> QED
    BY <1>8, <2>1 DEF InOrder, Earlier
<1>10. ASSUME NEW l \in Node, NEW m \in Node, NEW p \in Anywhere(l)',
              NEW q \in Buffered(m)' \union Handling(m)',
              Direct(q), p.nodeID = q.nodeID, p.senderID = curr_ID[m]
       PROVE  p.reading[2] < q.reading[2]
  <2>1. q \in Buffered(m) \union Handling(m)
    BY <1>1
  <2>2. CASE p \in Anywhere(l)
    BY <1>10, <2>1, <2>2 DEF RelaysBehind
  <2>3. CASE Relays(l) /\ p = Relayed(l)
    <3>1. l = m
      BY <1>4, <1>10, <2>3 DEF DistinctIDs
    <3>2. q \in Buffered(m)
      BY <1>1, <1>7, <1>10, <2>3, <3>1
    <3>3. Earlier(incoming[m], q)
      BY <1>7, <2>3, <3>1, <3>2 DEF InOrder
    <3> QED
      BY <1>4, <1>10, <2>3, <3>1, <3>3 DEF Earlier, Direct
  <2> QED
    BY <1>6, <2>2, <2>3
<1>11. ASSUME NEW l \in Node, NEW m \in Node, NEW p \in Anywhere(l)',
              NEW q \in Sending(m)',
              Direct(q), p.nodeID = q.nodeID, p.senderID # q.senderID
       PROVE  p.reading[2] < q.reading[2]
  <2>1. q \in Sending(m)
    BY <1>2, <1>4, <1>7, <1>11 DEF Direct
  <2>2. CASE p \in Anywhere(l)
    BY <1>11, <2>1, <2>2 DEF RelaysBehind
  <2>3. CASE Relays(l) /\ p = Relayed(l)
    <3>1. Earlier(incoming[l], q)
      BY <1>7, <2>1, <2>3 DEF InOrder
    <3> QED
      BY <1>4, <1>11, <2>3, <3>1 DEF Earlier, Direct
  <2> QED
    BY <1>6, <2>2, <2>3
<1>12. RelaysBehind'
  BY <1>10, <1>11 DEF RelaysBehind, Direct
<1> QED
  BY <1>9, <1>12

LEMMA NextOrder ==
  ASSUME DistinctIDs, TwoSpeakers, OrderInv, [NextAll]_gatewayVars
  PROVE  OrderInv'
<1>1. AllInv' /\ NotFromItself'
  BY NextAllInv, NextAllNotFromItself DEF OrderInv
<1>2. InOrder' /\ RelaysBehind'
  BY Kinds, BroadcastOrder, DeliverOrder, FetchOrder, SettleOrder
     DEF OrderInv, AllInv
<1> QED
  BY <1>1, <1>2 DEF OrderInv

LEMMA InitOrder == InitAll => OrderInv
<1> SUFFICES ASSUME InitAll
             PROVE  OrderInv
  OBVIOUS
<1>1. \A n \in Node : Anywhere(n) = {}
  BY InitAnywhere
<1>2. \A n \in Node : /\ Taken(n) = {} /\ Buffered(n) = {} /\ Sending(n) = {}
                      /\ Handling(n) = {} /\ Recorded(n) = {}
  BY <1>1 DEF Anywhere, Taken
<1>3. NotFromItself
  BY <1>2 DEF NotFromItself, Buffered, Handling
<1> QED
  BY <1>1, <1>2, <1>3, InitAllInv DEF OrderInv, InOrder, RelaysBehind

----------------------------------------------------------------------------
(* The order of what is printed and recorded.                              *)

LEMMA InitInOrder == InitAll => TrackInOrder /\ PrintedInOrder
<1>1. InitAll => TrackInOrder
  BY DEF InitAll, Init, TrackInOrder, EmptyTable, Held
<1>2. InitAll => PrintedInOrder
  BY DEF InitAll, PrintedInOrder
<1> QED
  BY <1>1, <1>2

\* What is printed was in the buffer, behind all that was printed before.
LEMMA NextPrinted ==
  ASSUME OrderInv, PrintedInOrder, [NextAll]_gatewayVars
  PROVE  PrintedInOrder'
<1>1. CASE UNCHANGED printed
  BY <1>1 DEF PrintedInOrder
<1>2. ASSUME NEW n \in Gateway, Fetches(n)
      PROVE  PrintedInOrder'
  <2> DEFINE old == printed[n]
             p == rxBuf[n]
             new == Append(old, p)
  <2>1. /\ rxBuf[n] # NoPacket
        /\ printed' = [printed EXCEPT ![n] = new]
    BY <1>2 DEF Fetches
  <2>2. n \in Node /\ old \in Seq(GPSData) /\ printed \in [Gateway -> Seq(GPSData)]
    BY GatewayAssumption DEF OrderInv, AllInv, Printing
  <2>3. p \in Buffered(n) /\ \A i \in DOMAIN old : old[i] \in Taken(n)
    BY <2>1 DEF Buffered, Taken, Printed
  <2>4. \A i \in DOMAIN old : Earlier(old[i], p)
    BY <2>2, <2>3 DEF OrderInv, InOrder
  <2>5. p \in GPSData
    BY <2>1, <2>2 DEF OrderInv, AllInv, TypeOK, RadioType
  <2>6. \A i, j \in DOMAIN old :
          i < j /\ old[i].nodeID = old[j].nodeID
                /\ old[i].senderID = old[j].senderID
            => old[i].reading[2] < old[j].reading[2]
    BY DEF PrintedInOrder
  <2>7. \A g \in Gateway : printed'[g] = IF g = n THEN new ELSE printed[g]
    BY <2>1, <2>2
  <2> HIDE DEF old, p
  <2>8. ASSUME NEW i \in DOMAIN new, NEW j \in DOMAIN new, i < j,
               new[i].nodeID = new[j].nodeID, new[i].senderID = new[j].senderID
        PROVE  new[i].reading[2] < new[j].reading[2]
    <3>1. i \in DOMAIN old /\ new[i] = old[i]
      BY <2>2, <2>5, <2>8
    <3>2. CASE j \in DOMAIN old
      <4>1. new[j] = old[j]
        BY <2>2, <2>5, <3>2
      <4> QED
        BY <2>6, <2>8, <3>1, <3>2, <4>1
    <3>3. CASE j \notin DOMAIN old
      <4>1. new[j] = p
        BY <2>2, <2>5, <3>3
      <4> QED
        BY <2>4, <2>8, <3>1, <4>1 DEF Earlier
    <3> QED
      BY <3>2, <3>3
  <2> HIDE DEF new
  <2> QED
    BY <2>7, <2>8 DEF PrintedInOrder
<1>3. UNCHANGED printed \/ \E n \in Gateway : Fetches(n)
  BY Kinds DEF OrderInv, AllInv, MovesNothing, Fetches, Stores, LetsGo
<1> QED
  BY <1>1, <1>2, <1>3

\* What is recorded came directly, and is newer than what the slot holds.
LEMMA NextTrack ==
  ASSUME TwoSpeakers, OrderInv, TrackInOrder, [NextAll]_gatewayVars
  PROVE  TrackInOrder'
<1>1. CASE UNCHANGED nodeHistories
  BY <1>1 DEF TrackInOrder
<1>2. ASSUME NEW n \in Speaker, Stores(n)
      PROVE  TrackInOrder'
  <2> DEFINE table == nodeHistories[n]
             d == incoming[n]
             Ordered(slot) ==
               \A j, k \in 0 .. slot.count - 1 :
                 j < k => slot.positions[j].reading[2]
                            < slot.positions[k].reading[2]
  <2>1. n \in Node /\ StoreIncoming(n) /\ Foreign(n) /\ d \in GPSData
    BY <1>2, HandlesPacket DEF Stores, StoreAndRelay, StoreOnly, Speaker,
       OrderInv, AllInv
  <2>2. nodeHistories' = [nodeHistories EXCEPT ![n] = StorePosition(table, d)]
    BY <2>1 DEF StoreIncoming
  <2>3. /\ nodeHistories'[n] = StorePosition(table, d)
        /\ \A m \in Node : m # n => nodeHistories'[m] = nodeHistories[m]
    BY <2>1, <2>2 DEF OrderInv, AllInv, TypeOK
  <2>4. table \in Table /\ OneNode(table)
    BY <2>1 DEF OrderInv, AllInv, TypeOK, TablesWellFormed, WellFormed
  <2>5. d \in Handling(n) /\ Direct(d) /\ d.nodeID # curr_ID[n]
    <3>1. d \in Handling(n)
      BY <2>1, NoPacketAssumption DEF Handling
    <3> QED
      BY <2>1, <3>1, ForeignIsDirect DEF OrderInv, Foreign
  <2>6. \A p \in Recorded(n) : p.nodeID = d.nodeID
                                 => p.reading[2] < d.reading[2]
    <3> SUFFICES ASSUME NEW p \in Recorded(n), p.nodeID = d.nodeID
                 PROVE  p.reading[2] < d.reading[2]
      OBVIOUS
    <3>1. Direct(p)
      BY <2>5, ForeignIsDirect DEF OrderInv
    <3>2. Earlier(p, d)
      BY <2>1, <2>5 DEF OrderInv, InOrder
    <3> QED
      BY <2>5, <3>1, <3>2 DEF Earlier, Direct
  <2>7. ASSUME NEW i \in Slots
        PROVE  Ordered(StorePosition(table, d)[i])
    <3>1. table[i] \in History /\ Ordered(table[i])
      BY <2>1, <2>4 DEF Table, TrackInOrder, Held
    <3>2. CASE ~ Chosen(table, i, d)
      BY <3>1, <3>2 DEF StorePosition
    <3>3. CASE Chosen(table, i, d)
      <4>1. StorePosition(table, d)[i] = Stored(table[i], d)
        BY <3>3 DEF StorePosition
      <4>2. ASSUME NEW j \in 0 .. table[i].count - 1
            PROVE  table[i].positions[j].reading[2] < d.reading[2]
        <5>1. j \in Held(table, i) /\ table[i].positions[j] \in Recorded(n)
          BY DEF Held, Recorded, Contents
        <5>2. table[i].count # 0
          OBVIOUS
        <5>3. table[i].positions[0].nodeID = d.nodeID
          BY <3>3, <5>2 DEF Chosen, Takes
        <5>4. table[i].positions[j].nodeID = d.nodeID
          BY <2>4, <5>1, <5>3 DEF OneNode, Owner
        <5> QED
          BY <2>6, <5>1, <5>4
      <4> QED
        BY <2>1, <3>1, <4>1, <4>2, StoredInOrder
    <3> QED
      BY <3>2, <3>3
  <2> HIDE DEF table, d
  <2>8. \A m \in Node : \A i \in Slots : Ordered(nodeHistories'[m][i])
    <3>1. \A m \in Node : \A i \in Slots : Ordered(nodeHistories[m][i])
      BY DEF TrackInOrder, Held
    <3> HIDE DEF Ordered
    <3> QED
      BY <2>3, <2>7, <3>1
  <2> QED
    BY <2>8 DEF TrackInOrder, Held
<1>3. UNCHANGED nodeHistories \/ \E n \in Speaker : Stores(n)
  BY Kinds DEF OrderInv, AllInv, MovesNothing, Broadcast, Deliver, Fetches,
     LetsGo, nodeVars
<1> QED
  BY <1>1, <1>2, <1>3

\* With one neighbour at most, and gateways that listen to both, every track
\* of a node is in the order in which the places were taken, each of them
\* once: no packet overtakes another between a radio and the table.
THEOREM TracksAreInOrder ==
  ASSUME \A n, m \in Node : curr_ID[n] = curr_ID[m] => n = m,
         \A k, l, m \in Node \ Gateway : k = l \/ k = m \/ l = m
  PROVE  SpecAll => []TrackInOrder
<1>1. DistinctIDs /\ TwoSpeakers
  BY DEF DistinctIDs, TwoSpeakers, Speaker
<1>2. InitAll => OrderInv /\ TrackInOrder
  BY InitOrder, InitInOrder
<1>3. OrderInv /\ TrackInOrder /\ [NextAll]_gatewayVars
        => OrderInv' /\ TrackInOrder'
  BY <1>1, NextOrder, NextTrack
<1> QED
  BY <1>2, <1>3, PTL DEF SpecAll

\* What a gateway prints of one node that came from one sender it prints in
\* the order in which it was taken, each reading once, whether it came
\* directly or was sent on.
THEOREM PrintsInOrder ==
  ASSUME \A n, m \in Node : curr_ID[n] = curr_ID[m] => n = m,
         \A k, l, m \in Node \ Gateway : k = l \/ k = m \/ l = m
  PROVE  SpecAll => []PrintedInOrder
<1>1. DistinctIDs /\ TwoSpeakers
  BY DEF DistinctIDs, TwoSpeakers, Speaker
<1>2. InitAll => OrderInv /\ PrintedInOrder
  BY InitOrder, InitInOrder
<1>3. OrderInv /\ PrintedInOrder /\ [NextAll]_gatewayVars
        => OrderInv' /\ PrintedInOrder'
  BY <1>1, NextOrder, NextPrinted
<1> QED
  BY <1>2, <1>3, PTL DEF SpecAll

\* With gateways in the mesh too, a board never gets back what it sent last.
THEOREM NothingComesBack ==
  ASSUME \A n, m \in Node : curr_ID[n] = curr_ID[m] => n = m
  PROVE  SpecAll => []NotFromItself
<1>1. DistinctIDs
  BY DEF DistinctIDs
<1>2. InitAll => AllInv /\ NotFromItself
  BY InitOrder DEF OrderInv
<1>3. AllInv /\ NotFromItself /\ [NextAll]_gatewayVars
        => AllInv' /\ NotFromItself'
  BY <1>1, NextAllInv, NextAllNotFromItself
<1> QED
  BY <1>2, <1>3, PTL DEF SpecAll
=============================================================================
