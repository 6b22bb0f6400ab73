--------------------------- MODULE HeltecNetProofs ---------------------------
(***************************************************************************)
(* The page of the gateway on a Heltec board, for packets of all lengths   *)
(* that reach into the memory behind rxpacket, wherever in it the linker   *)
(* put what must not be written over, and any number of packets.           *)
(***************************************************************************)
EXTENDS HeltecNet, SequenceTheorems, TLAPS

netVars == <<vars, nodeVars>>

----------------------------------------------------------------------------
\* The words of the memory, whatever was written to them.
MemoryInv == DOMAIN memory = 1 .. MemoryWords

\* What a node with an RF95 radio sends is the header and the fields.
LEMMA RF95Packet ==
  ASSUME NEW r
  PROVE  /\ Packet("RF95", r) \in Seq({"header"} \X {r} \union
                                      {GPSData[i] : i \in 1 .. 7} \X {r})
         /\ Len(Packet("RF95", r)) = 8
         /\ \A i \in 1 .. 7 : Packet("RF95", r)[i + 1] = Fields(r)[i]
         /\ Fields(r) = [i \in 1 .. 7 |-> Fields(r)[i]]
<1> DEFINE Word == {"header"} \X {r} \union {GPSData[i] : i \in 1 .. 7} \X {r}
           header == <<"header", r>>
<1>1. Len(GPSData) = 7
  BY DEF GPSData
<1>2. Fields(r) = [i \in 1 .. 7 |-> <<GPSData[i], r>>]
  BY <1>1 DEF Fields
<1>3. Fields(r) \in Seq(Word) /\ Len(Fields(r)) = 7
  BY <1>2
<1>4. <<header>> \in Seq(Word) /\ Len(<<header>>) = 1
  OBVIOUS
<1>5. Packet("RF95", r) = <<header>> \o Fields(r)
  BY DEF Packet
<1> HIDE DEF Word, header
<1>6. /\ Packet("RF95", r) \in Seq(Word)
      /\ Len(Packet("RF95", r)) = 8
      /\ \A i \in 1 .. 7 : Packet("RF95", r)[i + 1] = Fields(r)[i]
  <2> DEFINE packet == <<header>> \o Fields(r)
  <2>1. /\ packet \in Seq(Word)
        /\ Len(packet) = Len(<<header>>) + Len(Fields(r))
        /\ \A i \in 1 .. Len(<<header>>) + Len(Fields(r)) :
             packet[i] = IF i <= Len(<<header>>)
                         THEN <<header>>[i] ELSE Fields(r)[i - Len(<<header>>)]
    BY <1>3, <1>4, ConcatProperties
  <2>2. Len(<<header>>) + Len(Fields(r)) = 8
    BY <1>3, <1>4
  <2> HIDE DEF packet
  <2>3. ASSUME NEW i \in 1 .. 7
        PROVE  packet[i + 1] = Fields(r)[i]
    <3>1. i + 1 \in 1 .. 8 /\ ~ (i + 1 <= 1) /\ (i + 1) - 1 = i
      OBVIOUS
    <3> QED
      BY <1>3, <1>4, <2>1, <2>2, <3>1
  <2> QED
    BY <1>5, <2>1, <2>2, <2>3 DEF packet
<1>7. Fields(r) = [i \in 1 .. 7 |-> Fields(r)[i]]
  BY <1>2
<1> QED
  BY <1>6, <1>7 DEF Word

\* The page is read from the words behind the header: copied, and not yet
\* reached by the terminator.
LEMMA PageOfPacket ==
  ASSUME MemoryInv, NEW r
  PROVE  Incoming(Terminated(Packet("RF95", r))) = Fields(r)
<1> DEFINE packet == Packet("RF95", r)
           bytes == Terminated(packet)
           Word == {bytes[i] : i \in 2 .. 8}
<1>1. /\ Len(packet) = 8
      /\ \A i \in 1 .. 7 : packet[i + 1] = Fields(r)[i]
      /\ Fields(r) = [i \in 1 .. 7 |-> Fields(r)[i]]
  BY RF95Packet
<1>2. 2 .. 9 \subseteq DOMAIN memory
  BY MemoryAssumption DEF MemoryInv
<1> HIDE DEF packet
<1>3. \A i \in 2 .. 8 : bytes[i] = packet[i]
  BY <1>1, <1>2 DEF Terminated, Copied
<1> HIDE DEF bytes
<1>4. Len(GPSData) = 7
  BY DEF GPSData
<1>5. Incoming(bytes) = SubSeq(bytes, 2, 8)
  BY <1>4 DEF Incoming
<1>6. /\ SubSeq(bytes, 2, 8) \in Seq(Word)
      /\ Len(SubSeq(bytes, 2, 8)) = 7
      /\ \A i \in 1 .. 7 : SubSeq(bytes, 2, 8)[i] = bytes[2 + i - 1]
  <2>1. \A i \in 2 .. 8 : bytes[i] \in Word
    OBVIOUS
  <2> HIDE DEF Word
  <2>2. /\ SubSeq(bytes, 2, 8) \in Seq(Word)
        /\ Len(SubSeq(bytes, 2, 8)) = IF 2 <= 8 THEN 8 - 2 + 1 ELSE 0
        /\ \A i \in 1 .. 8 - 2 + 1 : SubSeq(bytes, 2, 8)[i] = bytes[2 + i - 1]
    BY <2>1, SubSeqProperties
  <2> QED
    BY <2>2
<1> HIDE DEF Word
<1>7. SubSeq(bytes, 2, 8) = [i \in 1 .. 7 |-> SubSeq(bytes, 2, 8)[i]]
  BY <1>6
<1>8. \A i \in 1 .. 7 : SubSeq(bytes, 2, 8)[i] = Fields(r)[i]
  BY <1>1, <1>3, <1>6
<1> QED
  BY <1>1, <1>5, <1>7, <1>8 DEF bytes, packet

PageInv ==
  /\ MemoryInv
  /\ sent \in 0 .. MaxReadings
  /\ \A r \in 1 .. MaxReadings :
       last = Packet("RF95", r) => Page_data = Fields(r)

LEMMA PacketsAreSomething ==
  \A r \in 1 .. MaxReadings : Packet("RF95", r) # NoPacket
<1>1. \A r \in 1 .. MaxReadings : Packet("RF95", r) \in Packets
  BY DEF Packets, Senders
<1> QED
  BY <1>1, NoPacketAssumption

LEMMA InitPage == InitNet => PageInv
<1> SUFFICES ASSUME InitNet
             PROVE  PageInv
  OBVIOUS
<1> USE DEF InitNet, Init
<1>1. MemoryInv
  BY DEF MemoryInv, Cleared
<1>2. sent \in 0 .. MaxReadings
  BY MaxReadingsAssumption
<1>4. \A r \in 1 .. MaxReadings : last # Packet("RF95", r)
  BY PacketsAreSomething
<1> QED
  BY <1>1, <1>2, <1>4 DEF PageInv

LEMMA NextPage == PageInv /\ [NextNet]_netVars => PageInv'
<1> SUFFICES ASSUME PageInv, [NextNet]_netVars
             PROVE  PageInv'
  OBVIOUS
<1>1. CASE UNCHANGED <<memory, Page_data, last, sent>>
  BY <1>1 DEF PageInv, MemoryInv
<1>2. CASE OnRxDone
  <2>1. /\ memory' = Terminated(heard)
        /\ Page_data' = Incoming(Terminated(heard))
        /\ last' = heard
        /\ sent' = sent
    BY <1>2 DEF OnRxDone
  <2>2. MemoryInv'
    BY <2>1 DEF PageInv, MemoryInv, Terminated, Copied
  <2>3. ASSUME NEW r \in 1 .. MaxReadings, last' = Packet("RF95", r)
        PROVE  Page_data' = Fields(r)
    BY <2>1, <2>3, PageOfPacket DEF PageInv
  <2> QED
    BY <2>1, <2>2, <2>3 DEF PageInv
<1>3. CASE OnRxDoneOverruns
  <2>1. memory' = Terminated(heard) /\ UNCHANGED <<Page_data, last, sent>>
    BY <1>3 DEF OnRxDoneOverruns
  <2>2. MemoryInv'
    BY <2>1 DEF PageInv, MemoryInv, Terminated, Copied
  <2> QED
    BY <2>1, <2>2 DEF PageInv
<1>4. CASE Restart
  <2>1. memory' = Cleared /\ last' = NoPacket /\ sent' = sent
    BY <1>4 DEF Restart
  <2>2. MemoryInv'
    BY <2>1 DEF MemoryInv, Cleared
  <2>3. \A r \in 1 .. MaxReadings : Packet("RF95", r) # NoPacket
    BY PacketsAreSomething
  <2> QED
    BY <2>1, <2>2, <2>3 DEF PageInv
<1>5. ASSUME NEW packet, Arrives(packet)
      PROVE  PageInv'
  <2>1. UNCHANGED <<memory, Page_data, last>>
    BY <1>5 DEF Arrives
  <2>2. sent' \in 0 .. MaxReadings
    BY <1>5, MaxReadingsAssumption DEF Arrives, PageInv
  <2> QED
    BY <2>1, <2>2 DEF PageInv, MemoryInv
<1>6. \/ UNCHANGED <<memory, Page_data, last, sent>>
      \/ OnRxDone \/ OnRxDoneOverruns \/ Restart
      \/ \E packet : Arrives(packet)
  BY DEF NextNet, NodeLoop, NodeRestarts, NodeTransmits, OthersSend,
     GatewayLoop, GatewayRestarts, BrowserReloads, Loop, ServePage, NoRequest,
     IntoRxMode, Receiving, NoInterrupt, Reload, netVars, vars
<1> QED
  BY <1>1, <1>2, <1>3, <1>4, <1>5, <1>6

\* For every set of lengths, every size of the memory they reach into and every
\* place in it of what must not be written over: until it is written over, and
\* again after a restart, the fields on the page are those of the last packet
\* in the format of GPSData behind a header, whatever packets came before.
THEOREM PageIsOfLastPacket == SpecNet => []PageShowsLast
<1>1. PageInv => PageShowsLast
  <2> SUFFICES ASSUME PageInv, NEW r \in 1 .. sent, last = Packet("RF95", r)
               PROVE  Page_data = Fields(r)
    BY DEF PageShowsLast
  <2>1. r \in 1 .. MaxReadings
    BY MaxReadingsAssumption DEF PageInv
  <2> QED
    BY <2>1 DEF PageInv
<1>2. PageInv /\ [NextNet]_netVars => PageInv'
  BY NextPage
<1> QED
  BY <1>1, <1>2, InitPage, PTL DEF SpecNet, netVars
=============================================================================
