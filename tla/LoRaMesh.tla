------------------------------ MODULE LoRaMesh ------------------------------
(***************************************************************************)
(* The mesh: every node runs the loop of 1LoRaNode.ino over its radio.     *)
(* Once per iteration it broadcasts its own reading if the time for it has *)
(* come, then polls the radio once, records a packet of another node and   *)
(* sends it on under its own senderID.                                     *)
(***************************************************************************)
EXTENDS PositionTable, RF95

CONSTANTS
  curr_ID,       \* curr_ID[n]: the 16 low bits of n's chip serial number
  MaxBroadcasts  \* MaxBroadcasts[n]: bound on the broadcasts of n

ASSUME currIDAssumption == curr_ID \in [Node -> NodeID]
ASSUME MaxBroadcastsAssumption == MaxBroadcasts \in [Node -> Nat]
ASSUME NoPacketAssumption == NoPacket \notin GPSData
\* A reading is told apart by who took it and when: <<n, k>> is the k-th one
\* that n broadcasts.
ASSUME BroadcastsAssumption ==
  \A n \in Node : \A k \in 1 .. MaxBroadcasts[n] : <<n, k>> \in Reading

VARIABLES
  pc,             \* pc[n]: where n's program is
  due,            \* due[n]: 5 s have passed since lastBroadcast
  incoming,       \* incoming[n]: the packet being handled
  nodeHistories,  \* nodeHistories[n]: n's table
  sent            \* sent[n]: how many readings n has broadcast so far

nodeVars == <<due, incoming, nodeHistories, sent>>
vars == <<pc, nodeVars, radioVars>>

Place == {"setup", "halted", "loop", "broadcasting", "listen", "recv",
          "handle", "relaying"}

Init ==
  /\ RadioInit
  /\ pc = [n \in Node |-> "setup"]
  /\ due = [n \in Node |-> FALSE]
  /\ incoming = [n \in Node |-> NoPacket]
  /\ nodeHistories = [n \in Node |-> EmptyTable]
  /\ sent = [n \in Node |-> 0]

Goto(n, from, to) == pc[n] = from /\ pc' = [pc EXCEPT ![n] = to]

\* The end of an iteration of loop().  By the next test of the timer its
\* 5 s may have run out, until the bound on broadcasts is reached.
EndLoop(n, from) ==
  /\ Goto(n, from, "loop")
  /\ \/ due' = [due EXCEPT ![n] = FALSE]
     \/ sent[n] < MaxBroadcasts[n] /\ due' = [due EXCEPT ![n] = TRUE]

----------------------------------------------------------------------------
(* setup()                                                                 *)

\* The radio does not initialise.
SetupFails(n) ==
  /\ Goto(n, "setup", "halted")
  /\ UNCHANGED <<nodeVars, radioVars>>

\* while (1);
Halted(n) == pc[n] = "halted" /\ UNCHANGED vars

Setup(n) ==
  /\ Goto(n, "setup", "loop")
  /\ UNCHANGED <<nodeVars, radioVars>>

----------------------------------------------------------------------------
(* loop(), first half: the broadcast                                       *)

\* Mutant: a misplaced early return when there is nothing to broadcast.
NotDueReturns(n) ==
  /\ ~ due[n]
  /\ EndLoop(n, "loop")
  /\ UNCHANGED <<incoming, nodeHistories, sent, radioVars>>

NotDue(n) ==
  /\ ~ due[n]
  /\ Goto(n, "loop", "listen")
  /\ UNCHANGED <<nodeVars, radioVars>>

\* The node's own reading: a GPS fix, or the fake place after 10 s without.
Own(n) == [senderID |-> curr_ID[n], nodeID |-> curr_ID[n],
           reading |-> <<n, sent[n] + 1>>]

Broadcast(n) ==
  /\ due[n]
  /\ Goto(n, "loop", "broadcasting")
  /\ due' = [due EXCEPT ![n] = FALSE]
  /\ sent' = [sent EXCEPT ![n] = @ + 1]
  /\ send(n, Own(n))
  /\ UNCHANGED <<incoming, nodeHistories>>

\* No fix, but for less than 10 s: the early return.  lastBroadcast has been
\* set already, and the radio is not polled in this iteration.
SkipBroadcast(n) ==
  /\ due[n]
  /\ pc[n] = "loop"
  /\ due' = [due EXCEPT ![n] = FALSE]
  /\ UNCHANGED <<pc, incoming, nodeHistories, sent, radioVars>>

\* waitPacketSent() returns.
BroadcastSent(n) ==
  /\ packetSent(n)
  /\ Goto(n, "broadcasting", "listen")
  /\ UNCHANGED <<nodeVars, radioVars>>

----------------------------------------------------------------------------
(* loop(), second half: the radio                                          *)

NothingHeard(n) ==
  /\ rxBuf[n] = NoPacket
  /\ EndLoop(n, "listen")
  /\ available(n)
  /\ UNCHANGED <<incoming, nodeHistories, sent>>

\* Mutant: the packet is left in the driver's buffer.
HeardAndLeft(n) ==
  /\ rxBuf[n] # NoPacket
  /\ EndLoop(n, "listen")
  /\ available(n)
  /\ UNCHANGED <<incoming, nodeHistories, sent>>

Heard(n) ==
  /\ rxBuf[n] # NoPacket
  /\ Goto(n, "listen", "recv")
  /\ available(n)
  /\ UNCHANGED nodeVars

\* Mutant: recv does not empty the driver's buffer.
ReceiveAndLeft(n) ==
  /\ Goto(n, "recv", "handle")
  /\ incoming' = [incoming EXCEPT ![n] = rxBuf[n]]
  /\ UNCHANGED <<due, nodeHistories, sent, radioVars>>

Receive(n) ==
  /\ Goto(n, "recv", "handle")
  /\ incoming' = [incoming EXCEPT ![n] = rxBuf[n]]
  /\ recv(n)
  /\ UNCHANGED <<due, nodeHistories, sent>>

\* Mutant: the test looks at the sender of the packet.
ForeignBySender(n) == incoming[n].senderID # curr_ID[n]

Foreign(n) == incoming[n].nodeID # curr_ID[n]

Handled(n) == incoming' = [incoming EXCEPT ![n] = NoPacket]

\* The node's own reading, come back: it is dropped.
DropOwn(n) ==
  /\ pc[n] = "handle"
  /\ ~ Foreign(n)
  /\ EndLoop(n, "handle")
  /\ Handled(n)
  /\ UNCHANGED <<nodeHistories, sent, radioVars>>

StoreIncoming(n) ==
  nodeHistories' =
    [nodeHistories EXCEPT ![n] = StorePosition(@, incoming[n])]

\* Mutant: the sender is left as it came.
RelayedAsIs(n) == incoming[n]

\* Mutant: the node puts its own ID into both fields.
RelayedAsOwn(n) == [incoming[n] EXCEPT !.senderID = curr_ID[n],
                                       !.nodeID = curr_ID[n]]

Relayed(n) == [incoming[n] EXCEPT !.senderID = curr_ID[n]]

StoreAndRelay(n) ==
  /\ pc[n] = "handle"
  /\ Foreign(n)
  /\ incoming[n].senderID # curr_ID[n]
  /\ Goto(n, "handle", "relaying")
  /\ StoreIncoming(n)
  /\ send(n, Relayed(n))
  /\ Handled(n)
  /\ UNCHANGED <<due, sent>>

StoreOnly(n) ==
  /\ pc[n] = "handle"
  /\ Foreign(n)
  /\ incoming[n].senderID = curr_ID[n]
  /\ EndLoop(n, "handle")
  /\ StoreIncoming(n)
  /\ Handled(n)
  /\ UNCHANGED <<sent, radioVars>>

RelaySent(n) ==
  /\ packetSent(n)
  /\ EndLoop(n, "relaying")
  /\ UNCHANGED <<incoming, nodeHistories, sent, radioVars>>

----------------------------------------------------------------------------

Step(n) ==
  \/ SetupFails(n) \/ Halted(n) \/ Setup(n)
  \/ NotDue(n) \/ Broadcast(n) \/ SkipBroadcast(n) \/ BroadcastSent(n)
  \/ NothingHeard(n) \/ Heard(n) \/ Receive(n)
  \/ DropOwn(n) \/ StoreAndRelay(n) \/ StoreOnly(n) \/ RelaySent(n)

Deliver(n) == TxDone(n) /\ UNCHANGED <<pc, nodeVars>>

Next == \E n \in Node : Step(n) \/ Deliver(n)

Spec == Init /\ [][Next]_vars

\* The processor keeps running loop(), and every transmission ends.
Fairness == \A n \in Node : WF_vars(Step(n)) /\ WF_vars(Deliver(n))

FairSpec == Spec /\ Fairness

----------------------------------------------------------------------------
(* Safety                                                                  *)

TypeOK ==
  /\ RadioType(GPSData)
  /\ pc \in [Node -> Place]
  /\ due \in [Node -> BOOLEAN]
  /\ incoming \in [Node -> GPSData \union {NoPacket}]
  /\ nodeHistories \in [Node -> Table]
  /\ sent \in [Node -> Nat]

\* The packets that node n has in its radio or its program.
InHand(n) == {fifo[n], rxBuf[n], incoming[n]} \ {NoPacket}

\* The packets that node n has recorded.
Recorded(n) == Contents(nodeHistories[n])

BroadcastBy(origin, packet) ==
  /\ packet.nodeID = curr_ID[origin]
  /\ \E k \in 1 .. sent[origin] : packet.reading = <<origin, k>>

\* Whatever is in the air, in a buffer, in a program or in a table was
\* broadcast, by the node whose ID it bears and with the reading it carries,
\* however many nodes relayed it, whatever was lost or overwritten on the way.
\* The last to send it was a node of the mesh.
Genuine ==
  \A n \in Node : \A packet \in InHand(n) \union Recorded(n) :
    /\ \E origin \in Node : BroadcastBy(origin, packet)
    /\ \E relay \in Node : packet.senderID = curr_ID[relay]

\* No node ever gives itself a slot of its table, though its own readings
\* come back to it from every neighbour that relays them.
NoOwnReadings ==
  \A n \in Node : \A packet \in Recorded(n) : packet.nodeID # curr_ID[n]

\* A node never receives, holds or records a packet that it sent last
\* itself.  So when IDs are distinct the test before the relay,
\* incoming.senderID != curr_ID, never holds a packet back: it does not end
\* the relaying of a packet between two neighbours, nothing does.
NotFromItself ==
  \A n \in Node :
    \A packet \in ({rxBuf[n], incoming[n]} \ {NoPacket}) \union Recorded(n) :
      packet.senderID # curr_ID[n]

\* The radio and the program that shares it agree: it transmits only while
\* the program waits for that, under the node's own senderID; a packet is
\* there to be taken when recv is called, though an interrupt may have come
\* since available said so, and the program handles a packet it did get.
RadioFollowsProgram ==
  \A n \in Node :
    /\ mode[n] = "tx" <=> fifo[n] # NoPacket
    /\ mode[n] = "tx" => /\ pc[n] \in {"broadcasting", "relaying"}
                        /\ fifo[n].senderID = curr_ID[n]
    /\ pc[n] = "recv" => rxBuf[n] # NoPacket
    /\ pc[n] = "handle" <=> incoming[n] # NoPacket

\* The packet that slot i was given last.
Newest(n, i) ==
  nodeHistories[n][i].positions[nodeHistories[n][i].count - 1]

\* What a node is relaying, its own table has as the newest position of the
\* reporting node; or else the table has no slot left for that node, and the
\* packet goes on through the mesh without being recorded here.
RelayedIsRecorded ==
  \A n \in Node : pc[n] = "relaying" /\ ~ packetSent(n) =>
    \/ \E i \in Slots : /\ Used(nodeHistories[n], i)
                        /\ Newest(n, i).nodeID = fifo[n].nodeID
                        /\ Newest(n, i).reading = fifo[n].reading
    \/ \A i \in Slots : /\ Used(nodeHistories[n], i)
                        /\ Owner(nodeHistories[n], i) # fifo[n].nodeID

\* Every table of the mesh stays well formed.
TablesWellFormed == \A n \in Node : WellFormed(nodeHistories[n])

\* With a single neighbour a track is in the order in which the positions
\* were taken, none of them twice.  (With two neighbours it is not: a packet
\* that took the longer way arrives after newer ones, and again.)
TrackInOrder ==
  \A n \in Node : \A i \in Slots : \A j, k \in Held(nodeHistories[n], i) :
    j < k => nodeHistories[n][i].positions[j].reading[2]
               < nodeHistories[n][i].positions[k].reading[2]

----------------------------------------------------------------------------
(* Liveness, under FairSpec                                                *)

\* Whatever is broadcast, received, skipped or relayed, a node comes back to
\* listening; unless its radio did not initialise.
ListensAgain ==
  \A n \in Node : []<>(mode[n] = "rx" \/ pc[n] = "halted")

\* A packet in the receive buffer does not stay there: the program gets it,
\* or a later one that replaced it.
HeardIsHandled ==
  \A n \in Node : rxBuf[n] # NoPacket ~> pc[n] = "handle"

\* Two nodes that stop broadcasting fall silent: the reading that comes back
\* from the neighbour is not sent out once more.  (Three nodes need not: two
\* of them can relay a reading of the third to each other for ever.)
Quiet == \A n \in Node : packetSent(n) /\ InHand(n) = {}

EventuallyQuiet == <>[]Quiet
=============================================================================
