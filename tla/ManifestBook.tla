---------------------------- MODULE ManifestBook ----------------------------
(***************************************************************************)
(* The node of Node1_rcvrTry2.5.  In turn it records where it is, on page  *)
(* 0 of aBookCalledManifest and in manifest, broadcasts that, and listens  *)
(* for one packet, which it records on the page of the node it came from.  *)
(***************************************************************************)
EXTENDS RingQueue, FiniteSets

CONSTANTS
  curr_ID,        \* this node
  Other,          \* the nodes it may hear
  IDWidth,        \* readingID takes that many values: 2^16
  Sent,           \* the readingIDs that packets of the others bear
  MAX_NUM_NODES,  \* the pages of the book
  DiscoveredCap,  \* bound of the models: numDiscoveredNodes counts up to it
  NoPacket        \* the driver holds no packet

\* Two nodes with the same low 16 bits of the serial number are one here.
ASSUME OtherAssumption == curr_ID \notin Other
ASSUME IDAssumption == IDWidth \in Nat \ {0} /\ Sent \subseteq 0 .. IDWidth - 1
ASSUME BookAssumption ==
  MAX_NUM_NODES \in Nat /\ MAX_NUM_NODES >= NumofReadings /\ MAX_NUM_NODES > 1
ASSUME CapAssumption == DiscoveredCap \in Nat \ {0}

\* Place and time of a reading are abstracted; readingID tells them apart.
information == [nodeID : Other \union {curr_ID}, readingID : 0 .. IDWidth - 1]

OwnInformation == [nodeID : {curr_ID}, readingID : 0 .. IDWidth - 1]

Packet == [nodeID : Other, readingID : Sent]

ASSUME NoPacketAssumption == NoPacket \notin information
ASSUME BlankAssumption == Blank \notin information

VARIABLES
  pc,
  aBookCalledManifest,
  manifest,                \* the memory of both its pages, see ManifestPlace
  readingCounter,          \* as much of it as gets into a readingID
  posofManifestDataWriter,
  numDiscoveredNodes,
  rxBuf                    \* the packet received last, until recv takes it

vars == <<pc, aBookCalledManifest, manifest, readingCounter,
          posofManifestDataWriter, numDiscoveredNodes, rxBuf>>

Page == 0 .. MAX_NUM_NODES - 1

\* manifest[0].thisNodesManifest[i] is place i, for i = NumofReadings too,
\* where manifest[1].thisNodesManifest[0] lies.
ManifestPlace == 0 .. 2 * NumofReadings - 1

Init ==
  /\ pc = "setup"
  /\ aBookCalledManifest = [p \in Page |-> createQueue]
  /\ manifest = [i \in ManifestPlace |-> Blank]
  /\ readingCounter = 0
  /\ posofManifestDataWriter = 0
  /\ numDiscoveredNodes = 1
  /\ rxBuf = NoPacket

Goto(from, to) == pc = from /\ pc' = to

onlyPc == UNCHANGED <<aBookCalledManifest, manifest, readingCounter,
                      posofManifestDataWriter, numDiscoveredNodes, rxBuf>>

Setup == Goto("setup", "record") /\ onlyPc

\* The radio does not start: the program freezes.
SetupFails == Goto("setup", "frozen") /\ onlyPc

Frozen == pc = "frozen" /\ UNCHANGED vars

----------------------------------------------------------------------------
(* Steps 1 and 2: take a reading, record it twice, broadcast it.           *)

curr_info == [nodeID |-> curr_ID, readingID |-> readingCounter]

advance(i) == IF i + 1 > NumofReadings THEN 0 ELSE i + 1

\* Mutant: what the driver holds is lost when it is told to send.
KeptBufferNot == rxBuf' = NoPacket

\* send leaves a packet in the receive buffer.
KeptBuffer == rxBuf' = rxBuf

Record ==
  /\ Goto("record", "listen")
  /\ aBookCalledManifest' =
       [aBookCalledManifest EXCEPT ![0] = enqueue(@, curr_info)]
  /\ manifest' = [manifest EXCEPT ![posofManifestDataWriter] = curr_info]
  /\ readingCounter' = (readingCounter + 1) % IDWidth
  /\ posofManifestDataWriter' = advance(posofManifestDataWriter)
  /\ KeptBuffer
  /\ UNCHANGED numDiscoveredNodes

----------------------------------------------------------------------------
(* Step 3: listen for 5 s.                                                 *)

\* The radio is in receive mode from the first waitAvailableTimeout on, save
\* while it sends, and deaf as long as it holds a packet.
Arrives(packet) ==
  /\ rxBuf = NoPacket
  /\ pc = "listen" \/ (pc = "record" /\ ~ isEmpty(aBookCalledManifest[0]))
  /\ rxBuf' = packet
  /\ UNCHANGED <<pc, aBookCalledManifest, manifest, readingCounter,
                 posofManifestDataWriter, numDiscoveredNodes>>

TimesOut ==
  /\ rxBuf = NoPacket
  /\ Goto("listen", "record")
  /\ onlyPc

\* The pages the search stops at: an empty one, or one of the node.  It looks
\* at NumofReadings pages, whatever MAX_NUM_NODES is.
Stops(info) ==
  {p \in 0 .. NumofReadings - 1 :
     \/ isEmpty(aBookCalledManifest[p])
     \/ front(aBookCalledManifest[p]).nodeID = info.nodeID}

\* Mutant: the search goes on from the page of the node to an empty one.
FoundEmpty(info, p) ==
  LET empty == {q \in Stops(info) : isEmpty(aBookCalledManifest[q])}
      best  == IF empty # {} THEN empty ELSE Stops(info)
  IN  p \in best /\ \A q \in best : p <= q

Found(info, p) == p \in Stops(info) /\ \A q \in Stops(info) : p <= q

\* Mutant: IndexofNextQueue is not set at an empty page.
PageForFixed(info, p) ==
  IF \E q \in Page : Found(info, q) /\ ~ isEmpty(aBookCalledManifest[q])
  THEN Found(info, p)
  ELSE p = 1

\* IndexofNextQueue is 1 unless the search comes to an empty page.
PageFor(info, p) == Found(info, p) \/ (Stops(info) = {} /\ p = 1)

\* The search did not return at a page of the node.
IsNew(info) ==
  \A p \in Page : Found(info, p) => isEmpty(aBookCalledManifest[p])

addIncomingCurrInfoToMyBookCalledManifest(info) ==
  /\ \E p \in Page :
       /\ PageFor(info, p)
       /\ aBookCalledManifest' =
            [aBookCalledManifest EXCEPT ![p] = enqueue(@, info)]
  /\ numDiscoveredNodes' =
       IF IsNew(info) /\ numDiscoveredNodes < DiscoveredCap
       THEN numDiscoveredNodes + 1 ELSE numDiscoveredNodes

Receive ==
  /\ rxBuf # NoPacket
  /\ Goto("listen", "record")
  /\ rxBuf' = NoPacket
  /\ addIncomingCurrInfoToMyBookCalledManifest(rxBuf)
  /\ UNCHANGED <<manifest, readingCounter, posofManifestDataWriter>>

----------------------------------------------------------------------------
Program == Setup \/ SetupFails \/ Frozen \/ Record \/ TimesOut \/ Receive

Next == Program \/ \E packet \in Packet : Arrives(packet)

\* loop() is called again and again; whether a packet arrives is left open.
Spec == Init /\ [][Next]_vars /\ WF_vars(Program)

----------------------------------------------------------------------------
(* Properties.                                                             *)

TypeOK ==
  /\ pc \in {"setup", "frozen", "record", "listen"}
  /\ aBookCalledManifest \in [Page -> Queue(information)]
  /\ manifest \in [ManifestPlace -> OwnInformation \union {Blank}]
  /\ readingCounter \in 0 .. IDWidth - 1
  /\ posofManifestDataWriter \in 0 .. NumofReadings
  /\ numDiscoveredNodes \in Nat
  /\ rxBuf \in Packet \union {NoPacket}

\* Front, rear and size of every queue describe the same stretch of its ring,
\* however often enqueue has gone around it or dropped the oldest reading.
RingsConsistent == \A p \in Page : Consistent(aBookCalledManifest[p])

\* The readings on a page, oldest first.
Readings(p) == Items(aBookCalledManifest[p])

PagesOf(id) ==
  {p \in Page : \E k \in DOMAIN Readings(p) : Readings(p)[k].nodeID = id}

\* "Each page represents a node" (GlobalVarbs.h:35): no page holds readings
\* of two nodes.
OneNodePerPage ==
  \A p \in Page : \A k, l \in DOMAIN Readings(p) :
    Readings(p)[k].nodeID = Readings(p)[l].nodeID

\* The search finds the page a node has already: none gets a second one.
OnePagePerNode ==
  \A id \in Other \union {curr_ID} : \A p, q \in PagesOf(id) : p = q

\* Page 0, which the search of line 299 visits too, is the window of the
\* newest NumofReadings readings of this node: packets never get into it.
OwnPage == INSTANCE SlidingWindow WITH
             Item   <- OwnInformation,
             Size   <- NumofReadings,
             window <- Readings(0)

OwnPageIsWindow == OwnPage!Spec

\* "Update my manifest: Add the above information to the current Node's
\* manifest", and "If manifest is full, reset the counter to the top to delete
\* the oldest reading" (lines 142 and 161): this node's page of manifest holds
\* its newest NumofReadings readings, the ones on page 0 of the book.  It does
\* not: each time around, the writer goes one place past the end, and that
\* reading is on the page of another node.
ManifestHoldsOwnPage ==
  \A k \in DOMAIN Readings(0) :
    \E i \in 0 .. NumofReadings - 1 : manifest[i] = Readings(0)[k]

\* What is true of the two records of line 137 and lines 143-146: a reading on
\* page 0 of the book is on one of the two pages of manifest, not always on
\* this node's.
ManifestCoversOwnPage ==
  \A k \in DOMAIN Readings(0) :
    \E i \in ManifestPlace : manifest[i] = Readings(0)[k]

\* A packet the driver holds gets to the rear of a page, also when it came in
\* after listening timed out and the own reading is recorded and sent first.
HeardIsRecorded ==
  \A packet \in Packet :
    rxBuf = packet ~> \E p \in Page : /\ ~ isEmpty(aBookCalledManifest[p])
                                      /\ rear(aBookCalledManifest[p]) = packet
=============================================================================
