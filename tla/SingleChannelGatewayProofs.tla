--------------------- MODULE SingleChannelGatewayProofs ---------------------
(***************************************************************************)
(* What the single channel gateway forwards, for any number of packets on  *)
(* the air and messages of the server, and of spreading factors.           *)
(***************************************************************************)
EXTENDS SingleChannelGateway, TLAPS

Typed ==
  /\ radio.fifo \in Packet
  /\ air.id \in Nat
  /\ pushed \in Seq(Packet)

\* What is in the FIFO has been on the air, and is over.
FifoIsOver ==
  /\ radio.fifo.id <= air.id
  /\ air.phase # "over" => radio.fifo.id < air.id

\* A packet with a wrong checksum is not without its flag, though that flag
\* may be of one that was received before.
DamageFlagged ==
  "RXDONE" \in radio.flags /\ radio.fifo.content = "damaged" =>
    "CRCERR" \in radio.flags

\* While RXDONE is raised, what is in the FIFO has not been forwarded yet.
FifoIsNew ==
  \A i \in DOMAIN pushed :
    /\ pushed[i].id <= radio.fifo.id
    /\ "RXDONE" \in radio.flags => pushed[i].id < radio.fifo.id

\* UplinksInOrder is not inductive: it takes that each forwarding clears the
\* flag that asked for it.
IInv ==
  /\ Typed /\ FifoIsOver /\ DamageFlagged /\ FifoIsNew
  /\ UplinksInOrder

\* From r to s no packet is received, and if RXDONE stays so does CRCERR.
Calm(r, s) ==
  /\ s.fifo = r.fifo
  /\ "RXDONE" \in s.flags =>
       "RXDONE" \in r.flags /\ ("CRCERR" \in r.flags => "CRCERR" \in s.flags)

----------------------------------------------------------------------------
(* The calls of _loraModem.ino.                                            *)

LEMMA CalmCalls ==
  ASSUME NEW r, NEW cad
  PROVE  /\ Calm(r, r)
         /\ Calm(r, clear(r)) /\ "RXDONE" \notin clear(r).flags
         /\ Calm(r, cadScanner(r))
         /\ Calm(r, rxLoraModem(cad, r))
         /\ Calm(r, startReceiver(cad, r))
         /\ \A mode, open : Calm(r, opmode(mode, {}, open, r))
         /\ \A mode, open : Calm(r, opmode(mode, r.flags, open, r))
BY DEF Calm, clear, cadScanner, rxLoraModem, startReceiver, initLoraModem, opmode

LEMMA CalmTwice ==
  ASSUME NEW r, NEW s, NEW u, Calm(r, s), Calm(s, u)
  PROVE  Calm(r, u)
BY DEF Calm

LEMMA CalmListening ==
  ASSUME NEW r, NEW scan
  PROVE  Calm(r, Listening(scan, r)) 
BY CalmCalls DEF Listening

\* A step that receives and forwards nothing.
LEMMA CalmStep ==
  ASSUME IInv, Calm(radio, radio'), pushed' = pushed,
         air' = air \/ (air'.id = air.id /\ air.phase # "over")
           \/ air'.id = air.id + 1
  PROVE  IInv'
<1>1. radio'.fifo = radio.fifo /\ radio'.fifo \in Packet
  BY DEF Calm, IInv, Typed
<1>2. Typed'
  BY <1>1 DEF IInv, Typed
<1>3. FifoIsOver'
  BY <1>1 DEF IInv, Typed, FifoIsOver, Packet
<1>4. DamageFlagged'
  BY DEF IInv, DamageFlagged, Calm
<1>5. FifoIsNew'
  BY DEF IInv, FifoIsNew, Calm
<1>6. UplinksInOrder'
  BY DEF IInv, UplinksInOrder
<1> QED
  BY <1>2, <1>3, <1>4, <1>5, <1>6 DEF IInv

----------------------------------------------------------------------------

LEMMA InitIInv == Init => IInv
<1> SUFFICES ASSUME Init
             PROVE  IInv
  OBVIOUS
<1>1. radio.flags = {} /\ radio.fifo = Nothing /\ pushed = << >>
      /\ air = [id |-> 0, phase |-> "over"]
  BY DEF Init
<1> QED
  BY <1>1
  DEF IInv, Typed, FifoIsOver, DamageFlagged, FifoIsNew, UplinksInOrder, Nothing, Packet

\* The turns of the state machine in which nothing is forwarded.
LEMMA CalmMachine ==
  ASSUME \/ HopTimeout \/ Detected \/ ScanDone \/ ScanNothing \/ ScanUnknown
         \/ CadDone \/ CadNothing \/ CrcError \/ EmptyPacket \/ NoPacketCame
         \/ RxNothing \/ Transmit \/ TxDone \/ TxWaits \/ TxTooLong
  PROVE  Calm(radio, radio') /\ pushed' = pushed /\ air' = air
<1>1. CASE HopTimeout
  <2>1. Calm(radio, hop(radio))
    BY CalmCalls DEF hop
  <2>2. Calm(hop(radio), cadScanner(hop(radio)))
    BY CalmCalls
  <2> QED
    BY <1>1, <2>1, <2>2, CalmTwice DEF HopTimeout, Machine
<1>2. CASE Detected
  BY <1>2, CalmCalls DEF Detected, Machine
<1>3. CASE ScanDone
  <2> DEFINE r == opmode("CAD", radio.flags, radio.open, radio)
  <2>1. Calm(radio, r) /\ Calm(r, clear(r))
    BY CalmCalls
  <2> QED
    BY <1>3, <2>1, CalmTwice DEF ScanDone, Machine
<1>4. CASE ScanNothing \/ CadNothing \/ RxNothing \/ TxWaits
  BY <1>4, CalmCalls DEF ScanNothing, CadNothing, RxNothing, TxWaits, Machine
<1>5. CASE ScanUnknown \/ EmptyPacket
  BY <1>5, CalmCalls DEF ScanUnknown, EmptyPacket, RxDone, Machine
<1>6. CASE CadDone
  <2>1. Calm(radio, clear(radio)) /\ Calm(clear(radio), cadScanner(clear(radio)))
    BY CalmCalls
  <2>2. Calm(radio, cadScanner(clear(radio)))
    BY <2>1, CalmTwice
  <2>3. Calm(radio, opmode("CAD", {}, Flags, radio))
    BY CalmCalls
  <2> QED
    BY <1>6, <2>2, <2>3 DEF CadDone, Machine
<1>7. CASE CrcError
  <2>1. Calm(radio, Listening(_cad, radio))
    BY CalmListening
  <2>2. radio' = [Listening(_cad, radio) EXCEPT !.flags = @ \ RxFlags, !.open = Flags]
    BY <1>7 DEF CrcError
  <2>3. radio'.fifo = radio.fifo /\ "RXDONE" \notin radio'.flags
    BY <2>1, <2>2 DEF Calm, RxFlags, Listening, cadScanner, rxLoraModem, opmode
  <2> QED
    BY <1>7, <2>3 DEF Calm, CrcError, RxDone, Machine
<1>8. CASE NoPacketCame
  <2>1. /\ Calm(radio, clear(radio))
        /\ Calm(clear(radio), Listening(_cad \/ _hop, clear(radio)))
    BY CalmCalls, CalmListening
  <2> QED
    BY <1>8, <2>1, CalmTwice DEF NoPacketCame, Machine
<1>9. CASE Transmit
  <2>1. /\ Calm(radio, clear(radio))
        /\ Calm(clear(radio), txLoraModem(clear(radio)))
    BY CalmCalls DEF txLoraModem
  <2> QED
    BY <1>9, <2>1, CalmTwice DEF Transmit, Machine
<1>10. CASE TxDone
  <2> DEFINE r == Listening(_cad \/ _hop, radio)
  <2>1. Calm(radio, r) /\ Calm(r, clear(r))
    BY CalmCalls, CalmListening
  <2> QED
    BY <1>10, <2>1, CalmTwice DEF TxDone, Machine
<1>11. CASE TxTooLong
  BY <1>11, CalmCalls DEF TxTooLong, Machine
<1> QED
  BY <1>1, <1>2, <1>3, <1>4, <1>5, <1>6, <1>7, <1>8, <1>9, <1>10, <1>11

\* So is the rest of loop().
LEMMA CalmLoop ==
  ASSUME \/ QuietReset \/ NotQuiet
         \/ NoRequest \/ Setting \/ ResetRadio \/ Served
         \/ EventFirst \/ NoWlan \/ Connected
         \/ ReadDownlink \/ ReadOther \/ NoMessage
         \/ SensorPacket \/ NoSensorPacket
         \/ Pull \/ NotPull
  PROVE  Calm(radio, radio') /\ pushed' = pushed /\ air' = air
<1>1. CASE QuietReset
  <2> DEFINE r == Listening(_cad \/ _hop, radio)
  <2>1. Calm(radio, r) /\ Calm(r, clear(r))
    BY CalmCalls, CalmListening
  <2> QED
    BY <1>1, <2>1, CalmTwice DEF QuietReset
<1>2. CASE ResetRadio
  BY <1>2, CalmCalls DEF ResetRadio
<1>3. CASE SensorPacket
  BY <1>3, CalmCalls, CalmListening DEF SensorPacket
<1>4. CASE Pull
  BY <1>4, CalmCalls DEF Pull
<1>5. CASE \/ NotQuiet \/ NoRequest \/ Setting \/ Served \/ EventFirst \/ NoWlan
           \/ Connected \/ ReadDownlink \/ ReadOther \/ NoMessage
           \/ NoSensorPacket \/ NotPull
  BY <1>5, CalmCalls
  DEF NotQuiet, NoRequest, Setting, Served, EventFirst, NoWlan, Connected,
      ReadDownlink, ReadOther, NoMessage, NoSensorPacket, NotPull
<1> QED
  BY <1>1, <1>2, <1>3, <1>4, <1>5

\* What the chip raises without having received anything.
LEMMA CalmChip ==
  ASSUME DetectionEnds \/ GivesUp \/ TransmissionEnds \/ NodeSends \/ PreambleEnds \/ ServerSends
  PROVE  /\ Calm(radio, radio') /\ pushed' = pushed
         /\ \/ air' = air
            \/ air'.id = air.id /\ air.phase # "over"
            \/ air'.id = air.id + 1
<1>1. ASSUME NEW detected \in BOOLEAN
      PROVE  Calm(radio, Detection(detected, radio))
  BY DEF Calm, Detection, Raise, CadFlags
<1>2. /\ Calm(radio, NoPreamble(radio)) /\ Calm(radio, Transmitted(radio))
      /\ Calm(radio, Header(radio))
  BY DEF Calm, NoPreamble, Transmitted, Header, Raise
<1>3. CASE DetectionEnds
  BY <1>1, <1>3 DEF DetectionEnds, Chip
<1>4. CASE GivesUp \/ TransmissionEnds
  BY <1>2, <1>4 DEF GivesUp, TransmissionEnds, Chip
<1>5. CASE NodeSends
  <2>1. air' = [id |-> air.id + 1, phase |-> "preamble"]
    BY <1>5 DEF NodeSends
  <2>2. air'.id = air.id + 1
    BY <2>1
  <2> QED
    BY <1>5, <2>2, CalmCalls DEF NodeSends, program
<1>7. CASE ServerSends
  BY <1>7, CalmCalls DEF ServerSends, program
<1>6. CASE PreambleEnds
  <2>1. air.phase # "over" /\ air' = [air EXCEPT !.phase = "payload"]
    BY <1>6 DEF PreambleEnds
  <2>2. air'.id = air.id
    BY <2>1
  <2> QED
    BY <1>2, <1>6, <2>1, <2>2, CalmCalls DEF PreambleEnds, Chip, program
<1> QED
  BY <1>3, <1>4, <1>5, <1>6, <1>7
----------------------------------------------------------------------------

\* What is received replaces what is in the FIFO; it has not been there before.
LEMMA PacketEndsIInv == IInv /\ PacketEnds => IInv'
<1> SUFFICES ASSUME IInv, PacketEnds
             PROVE  IInv'
  OBVIOUS
<1>1. /\ air.phase = "payload" /\ pushed' = pushed
      /\ air' = [air EXCEPT !.phase = "over"]
  BY DEF PacketEnds, Chip, program
<1>2. air'.id = air.id /\ (air'.phase = "over" \/ air' = air)
  BY <1>1
<1>3. radio.fifo.id < air.id /\ air.id \in Nat /\ radio.fifo.id \in Nat
  BY <1>1 DEF IInv, Typed, FifoIsOver, Packet
<1>4. CASE radio.locked
  <2>1. PICK content \in {"data", "empty", "damaged"} :
          radio' = Received([id |-> air.id, content |-> content], radio)
    BY <1>4 DEF PacketEnds, Chip
  <2> DEFINE packet == [id |-> air.id, content |-> content]
  <2>2. packet \in Packet
    BY <1>3 DEF Packet
  <2>3. /\ radio'.fifo = packet
        /\ packet.content = "damaged" => "CRCERR" \in radio'.flags
    BY <2>1 DEF Received, Raise
  <2>4. Typed'
    BY <1>1, <1>2, <2>2, <2>3 DEF IInv, Typed
  <2>5. FifoIsOver'
    BY <1>1, <1>2, <1>3, <2>3 DEF FifoIsOver
  <2>6. DamageFlagged'
    BY <2>3 DEF DamageFlagged
  <2>7. FifoIsNew'
    <3>1. ASSUME NEW i \in DOMAIN pushed
          PROVE  pushed[i].id < air.id
      <4>1. pushed[i] \in Packet
        BY DEF IInv, Typed
      <4>2. pushed[i].id \in Nat /\ pushed[i].id <= radio.fifo.id
        BY <4>1 DEF IInv, FifoIsNew, Packet
      <4> QED
        BY <1>3, <4>2
    <3>2. ASSUME NEW i \in DOMAIN pushed
          PROVE  pushed[i].id \in Nat
      <4>1. pushed[i] \in Packet
        BY DEF IInv, Typed
      <4> QED
        BY <4>1 DEF Packet
    <3>3. radio'.fifo.id = air.id
      BY <2>3
    <3> QED
      BY <1>1, <1>3, <3>1, <3>2, <3>3 DEF FifoIsNew
  <2>8. UplinksInOrder'
    BY <1>1 DEF IInv, UplinksInOrder
  <2> QED
    BY <2>4, <2>5, <2>6, <2>7, <2>8 DEF IInv
<1>5. CASE ~ radio.locked
  <2>1. radio' = radio
    BY <1>5 DEF PacketEnds
  <2> QED
    BY <1>1, <1>2, <2>1, CalmCalls, CalmStep
<1> QED
  BY <1>4, <1>5

\* What is forwarded is the packet in the FIFO, and its flag is cleared.
LEMMA PacketReceivedIInv == IInv /\ PacketReceived => IInv'
<1> SUFFICES ASSUME IInv, PacketReceived
             PROVE  IInv'
  OBVIOUS
<1> DEFINE r == Listening(_cad \/ _hop, radio)
<1>1. /\ "RXDONE" \in radio.flags
      /\ radio' = clear(r) /\ air' = air
      /\ pushed' = pushed \/ pushed' = Append(pushed, receivePkt(radio))
      /\ receivePkt(radio).content \notin {"none", "empty"}
  BY DEF PacketReceived, receivePacket, RxDone, Machine, intr
<1>2. Calm(radio, radio') /\ "RXDONE" \notin radio'.flags
  <2>1. Calm(radio, r)
    BY CalmListening
  <2> QED
    BY <1>1, <2>1, CalmCalls, CalmTwice
<1>3. CASE pushed' = pushed
  BY <1>1, <1>2, <1>3, CalmStep
<1>4. CASE pushed' = Append(pushed, receivePkt(radio))
  <2>1. receivePkt(radio) = radio.fifo /\ "CRCERR" \notin radio.flags
    BY <1>1 DEF receivePkt, Nothing
  <2>2. radio.fifo \in Packet /\ radio.fifo.content = "data"
    BY <1>1, <2>1 DEF IInv, Typed, DamageFlagged, Packet
  <2>3. \A i \in DOMAIN pushed : pushed[i].id < radio.fifo.id
    BY <1>1 DEF IInv, FifoIsNew
  <2>4. /\ pushed \in Seq(Packet) /\ pushed' = Append(pushed, radio.fifo)
        /\ radio'.fifo = radio.fifo
    BY <1>2, <1>4, <2>1 DEF IInv, Typed, Calm
  <2>5. /\ pushed' \in Seq(Packet)
        /\ DOMAIN pushed = 1 .. Len(pushed)
        /\ DOMAIN pushed' = 1 .. Len(pushed) + 1
        /\ \A i \in 1 .. Len(pushed) : pushed'[i] = pushed[i]
        /\ pushed'[Len(pushed) + 1] = radio.fifo
        /\ Len(pushed) \in Nat
    BY <2>2, <2>4
  <2> HIDE DEF r
  <2>6. Typed'
    BY <1>1, <2>2, <2>4, <2>5 DEF IInv, Typed
  <2>7. FifoIsOver'
    BY <1>1, <2>4 DEF IInv, FifoIsOver
  <2>8. DamageFlagged'
    BY <1>2 DEF DamageFlagged
  <2>9. FifoIsNew'
    <3> SUFFICES ASSUME NEW i \in DOMAIN pushed'
                 PROVE  pushed'[i].id <= radio.fifo.id
      BY <1>2, <2>4 DEF FifoIsNew
    <3>1. CASE i \in DOMAIN pushed
      BY <2>3, <2>5, <3>1, <2>2 DEF IInv, FifoIsNew
    <3>2. CASE i = Len(pushed) + 1
      BY <2>2, <2>5, <3>2 DEF Packet
    <3> QED
      BY <2>5, <3>1, <3>2
  <2>10. UplinksInOrder'
    <3>1. ASSUME NEW i \in DOMAIN pushed'
          PROVE  pushed'[i].content = "data"
      BY <2>2, <2>5 DEF IInv, UplinksInOrder
    <3>2. ASSUME NEW i \in DOMAIN pushed', NEW j \in DOMAIN pushed', i < j
          PROVE  pushed'[i].id < pushed'[j].id
      <4>1. i \in DOMAIN pushed /\ pushed'[i] = pushed[i]
        BY <2>5, <3>2
      <4>2. CASE j \in DOMAIN pushed
        BY <2>5, <3>2, <4>1, <4>2 DEF IInv, UplinksInOrder
      <4>3. CASE j = Len(pushed) + 1
        BY <2>3, <2>5, <4>1, <4>3
      <4> QED
        BY <2>5, <4>2, <4>3
    <3> QED
      BY <3>1, <3>2 DEF UplinksInOrder
  <2> QED
    BY <2>6, <2>7, <2>8, <2>9, <2>10 DEF IInv
<1> QED
  BY <1>1, <1>3, <1>4

LEMMA NextIInv == IInv /\ [Next]_vars => IInv'
<1> SUFFICES ASSUME IInv, [Next]_vars
             PROVE  IInv'
  OBVIOUS
<1>1. CASE PacketReceived
  BY <1>1, PacketReceivedIInv
<1>2. CASE stateMachine /\ ~ PacketReceived
  BY <1>2, CalmMachine, CalmStep DEF stateMachine
<1>3. CASE loop /\ ~ stateMachine
  BY <1>3, CalmLoop, CalmStep DEF loop
<1>4. CASE PacketEnds
  BY <1>4, PacketEndsIInv
<1>5. CASE Environment /\ ~ PacketEnds
  BY <1>5, CalmChip, CalmStep DEF Environment
<1>6. CASE UNCHANGED vars
  BY <1>6, CalmCalls, CalmStep DEF vars, program
<1> QED
  BY <1>1, <1>2, <1>3, <1>4, <1>5, <1>6 DEF Next

\* Each packet is forwarded at most once, in the order in which they were on
\* the air, none without payload and none with a wrong checksum.
THEOREM ForwardedInOrder == Spec => []UplinksInOrder
<1>1. IInv => UplinksInOrder
  BY DEF IInv
<1> QED
  BY <1>1, InitIInv, NextIInv, PTL DEF Spec

----------------------------------------------------------------------------
(* The radio does what the state machine waits for.                        *)

\* What the radio must be doing in each state, and say about it.  Besides
\* what WaitsForWhatComes demands it is that the awaited flags are not
\* masked, that no other flags can come, and that RXDONE comes with a header
\* and a packet, so that only one without payload takes S_RX to S_SCAN.
FitsScan(r) ==
  \/ r.mode = "CAD" /\ "CDDONE" \in r.open
  \/ "CDDONE" \in intr(r)
  \/ r.mode = "RX"
  \/ r.mode = "STDBY" /\ r.fifo.content = "empty"

FitsCad(r) ==
  /\ r.mode \in {"CAD", "STDBY"}
  /\ (r.mode = "CAD" /\ "CDDONE" \in r.open) \/ "CDDONE" \in intr(r)
  /\ intr(r) \subseteq CadFlags

FitsRx(r) ==
  /\ r.mode \in {"RX", "RX_SINGLE", "STDBY"}
  /\ Receiving(r) \/ intr(r) \cap {"RXDONE", "RXTOUT"} # {}
  /\ intr(r) \subseteq RxFlags /\ RxFlags \subseteq r.open
  /\ r.locked => "HEADER" \in r.flags
  /\ "RXDONE" \in r.flags =>
       r.mode # "RX_SINGLE" /\ "HEADER" \in r.flags /\ r.fifo.content # "none"

FitsTxDone(r) ==
  /\ r.mode \in {"TX", "STDBY"}
  /\ (r.mode = "TX" /\ "TXDONE" \in r.open) \/ "TXDONE" \in intr(r)
  /\ intr(r) \subseteq {"TXDONE"}

Fits(state, r) ==
  /\ r.locked => Receiving(r)
  /\ state = "S_SCAN" => FitsScan(r)
  /\ state = "S_CAD" => FitsCad(r)
  /\ state = "S_RX" => FitsRx(r)
  /\ state = "S_TXDONE" => FitsTxDone(r)

FitsNow == Fits(_state, radio)

States(scan) == IF scan THEN "S_SCAN" ELSE "S_RX"

\* Whatever the radio was doing, after these calls it fits.
LEMMA FitsCalls ==
  ASSUME NEW r, NEW cad
  PROVE  /\ Fits("S_SCAN", cadScanner(r)) /\ Fits("S_SCAN", clear(cadScanner(r)))
         /\ Fits("S_RX", rxLoraModem(cad, r)) /\ Fits("S_RX", clear(rxLoraModem(cad, r)))
<1>1. /\ Fits("S_SCAN", cadScanner(r)) /\ Fits("S_SCAN", clear(cadScanner(r)))
  BY DEF Fits, FitsScan, cadScanner, clear, opmode, CadFlags, Flags
<1>2. CASE cad
  BY <1>1, <1>2
  DEF Fits, FitsRx, Receiving, intr, rxLoraModem, clear, opmode, RxFlags, Flags
<1>3. CASE ~ cad
  BY <1>1, <1>3
  DEF Fits, FitsRx, Receiving, intr, rxLoraModem, clear, opmode, RxFlags, Flags
<1> QED
  BY <1>2, <1>3

LEMMA FitsListening ==
  ASSUME NEW r, NEW scan
  PROVE  /\ Fits(States(scan), Listening(scan, r))
         /\ Fits(States(scan), clear(Listening(scan, r)))
<1>1. CASE scan
  BY <1>1, FitsCalls DEF States, Listening
<1>2. CASE ~ scan
  BY <1>2, FitsCalls DEF States, Listening
<1> QED
  BY <1>1, <1>2

LEMMA FitsStarted ==
  ASSUME NEW r, NEW cad
  PROVE  Fits(States(cad), startReceiver(cad, r))
<1>1. CASE cad
  BY <1>1, FitsCalls DEF States, startReceiver
<1>2. CASE ~ cad
  BY <1>2, FitsCalls DEF States, startReceiver
<1> QED
  BY <1>1, <1>2

LEMMA InitFits == Init => FitsNow
<1> SUFFICES ASSUME Init
             PROVE  FitsNow
  OBVIOUS
<1>1. CASE _cad
  <2>1. /\ _state = "S_SCAN" /\ radio.mode = "CAD" /\ ~ radio.locked
        /\ "CDDONE" \in radio.open
    BY <1>1 DEF Init, CadFlags
  <2> QED
    BY <2>1 DEF FitsNow, Fits, FitsScan
<1>2. CASE ~ _cad
  <2>1. /\ _state = "S_RX" /\ radio.mode = "RX" /\ ~ radio.locked
        /\ radio.flags = {} /\ radio.open = RxFlags
    BY <1>2 DEF Init
  <2> QED
    BY <2>1 DEF FitsNow, Fits, FitsRx, Receiving, intr
<1> QED
  BY <1>1, <1>2

\* The turns that go on listening, from wherever.
LEMMA MachineListens ==
  ASSUME HopTimeout \/ CrcError \/ PacketReceived \/ NoPacketCame \/ TxDone \/ TxTooLong
  PROVE  FitsNow'
<1>1. CASE HopTimeout
  BY <1>1, FitsCalls DEF HopTimeout, Listen, FitsNow
<1>2. CASE CrcError
  <2> DEFINE r == Listening(_cad, radio)
  <2>1. radio' = [r EXCEPT !.flags = @ \ RxFlags, !.open = Flags] /\ _state' = States(_cad)
    BY <1>2 DEF CrcError, Listen, States
  <2>2. /\ radio'.mode = r.mode /\ ~ radio'.locked
        /\ radio'.flags = r.flags \ RxFlags /\ radio'.open = Flags
    BY <2>1 DEF Listening, cadScanner, rxLoraModem, opmode
  <2>3. CASE _cad
    <3>1. r.mode = "CAD"
      BY <2>3 DEF Listening, cadScanner, opmode
    <3> QED
      BY <2>1, <2>2, <2>3, <3>1 DEF FitsNow, Fits, FitsScan, States, Flags, CadFlags
  <2>4. CASE ~ _cad
    <3>1. Receiving(r) /\ r.flags = {}
      BY <2>4 DEF Listening, rxLoraModem, opmode, Receiving
    <3> QED
      BY <2>1, <2>2, <2>4, <3>1
      DEF FitsNow, Fits, FitsRx, States, Receiving, intr, RxFlags, Flags
  <2> QED
    BY <2>3, <2>4
<1>3. CASE PacketReceived
  BY <1>3, FitsListening DEF PacketReceived, Listen, States, FitsNow
<1>4. CASE NoPacketCame
  BY <1>4, FitsListening DEF NoPacketCame, Listen, States, FitsNow
<1>5. CASE TxDone
  BY <1>5, FitsListening DEF TxDone, Listen, States, FitsNow
<1>6. CASE TxTooLong
  BY <1>6, FitsStarted DEF TxTooLong, Listen, States, FitsNow
<1> QED
  BY <1>1, <1>2, <1>3, <1>4, <1>5, <1>6

\* The turns that start something else, or leave the radio alone.
LEMMA MachineFits ==
  ASSUME FitsNow,
         \/ Detected \/ ScanDone \/ ScanNothing \/ ScanUnknown
         \/ CadDone \/ CadNothing \/ EmptyPacket \/ RxNothing \/ Transmit \/ TxWaits
  PROVE  FitsNow'
<1>1. CASE Detected
  BY <1>1 DEF Detected, FitsNow, Fits, FitsRx, Receiving, intr, opmode, RxFlags
<1>2. CASE ScanDone
  BY <1>2
  DEF ScanDone, FitsNow, Fits, FitsScan, FitsCad, intr, clear, opmode, CadFlags, Flags
<1>3. CASE ScanNothing \/ CadNothing \/ RxNothing \/ TxWaits
  BY <1>3 DEF ScanNothing, CadNothing, RxNothing, TxWaits, Machine, FitsNow
<1>4. CASE ScanUnknown
  <2>1. _state = "S_SCAN" /\ _state' = "S_SCAN" /\ radio' = clear(radio)
        /\ "CDDONE" \notin intr(radio)
    BY <1>4 DEF ScanUnknown, Machine, CadFlags
  <2>2. /\ radio'.mode = radio.mode /\ radio'.fifo = radio.fifo
        /\ radio'.open = Flags /\ radio'.locked = radio.locked
    BY <2>1 DEF clear
  <2> QED
    BY <2>1, <2>2 DEF FitsNow, Fits, FitsScan, Receiving, Flags, CadFlags
<1>5. CASE CadDone
  <2>1. CASE sf < SF12
    BY <1>5, <2>1
    DEF CadDone, Machine, FitsNow, Fits, FitsCad, intr, opmode, CadFlags, Flags
  <2>2. CASE ~ (sf < SF12)
    BY <1>5, <2>2, FitsCalls DEF CadDone, Listen, FitsNow
  <2> QED
    BY <2>1, <2>2
<1>6. CASE EmptyPacket
  <2>1. /\ _state = "S_RX" /\ _state' = "S_SCAN" /\ radio' = clear(radio)
        /\ "RXDONE" \in radio.flags /\ "CRCERR" \notin intr(radio)
        /\ receivePkt(radio).content \in {"none", "empty"}
    BY <1>6 DEF EmptyPacket, RxDone, Machine, intr
  <2>2. /\ radio'.mode = radio.mode /\ radio'.fifo = radio.fifo
        /\ radio'.locked = radio.locked
    BY <2>1 DEF clear
  <2>3. FitsRx(radio) /\ (radio.locked => Receiving(radio))
    BY <2>1 DEF FitsNow, Fits
  <2>4. receivePkt(radio) = radio.fifo
    BY <2>1, <2>3 DEF FitsRx, receivePkt, intr, RxFlags
  <2> QED
    BY <2>1, <2>2, <2>3, <2>4 DEF FitsNow, Fits, FitsScan, FitsRx, Receiving
<1>7. CASE Transmit
  BY <1>7
  DEF Transmit, FitsNow, Fits, FitsTxDone, intr, txLoraModem, clear, opmode, Flags
<1> QED
  BY <1>1, <1>2, <1>3, <1>4, <1>5, <1>6, <1>7

LEMMA LoopFits ==
  ASSUME FitsNow,
         \/ QuietReset \/ NotQuiet
         \/ NoRequest \/ Setting \/ ResetRadio \/ Served
         \/ EventFirst \/ NoWlan \/ Connected
         \/ ReadDownlink \/ ReadOther \/ NoMessage
         \/ SensorPacket \/ NoSensorPacket
         \/ Pull \/ NotPull
  PROVE  FitsNow'
<1>1. CASE QuietReset
  BY <1>1, FitsListening DEF QuietReset, Listen, States, FitsNow
<1>2. CASE ResetRadio
  BY <1>2, FitsCalls DEF ResetRadio, Listen, FitsNow
<1>3. CASE SensorPacket
  BY <1>3, FitsListening DEF SensorPacket, Listen, States, FitsNow
<1>4. CASE Pull
  BY <1>4, FitsStarted DEF Pull, Listen, States, FitsNow
<1>5. CASE ReadDownlink
  BY <1>5 DEF ReadDownlink, FitsNow, Fits, Receiving
<1>6. CASE \/ NotQuiet \/ NoRequest \/ Setting \/ Served \/ EventFirst \/ NoWlan
           \/ Connected \/ ReadOther \/ NoMessage \/ NoSensorPacket \/ NotPull
  BY <1>6
  DEF NotQuiet, NoRequest, Setting, Served, EventFirst, NoWlan, Connected,
      ReadOther, NoMessage, NoSensorPacket, NotPull, FitsNow
<1> QED
  BY <1>1, <1>2, <1>3, <1>4, <1>5, <1>6

\* What the chip does by itself is what is waited for.
LEMMA FitsDetection ==
  ASSUME NEW r, NEW detected \in BOOLEAN, NEW state, Fits(state, r), r.mode = "CAD"
  PROVE  Fits(state, Detection(detected, r))
<1> DEFINE s == Detection(detected, r)
<1>1. /\ s.mode = "STDBY" /\ s.open = r.open /\ ~ s.locked /\ s.fifo = r.fifo
      /\ r.flags \cup {"CDDONE"} \subseteq s.flags
      /\ s.flags \subseteq r.flags \cup CadFlags
  BY DEF Detection, Raise, CadFlags
<1> HIDE DEF s
<1>2. FitsScan(r) => FitsScan(s)
  BY <1>1 DEF FitsScan, intr
<1>3. FitsCad(r) => FitsCad(s)
  BY <1>1 DEF FitsCad, intr, CadFlags
<1>4. ~ FitsRx(r) /\ ~ FitsTxDone(r)
  BY DEF FitsRx, FitsTxDone
<1> QED
  BY <1>1, <1>2, <1>3, <1>4 DEF Fits, s

LEMMA FitsNoPreamble ==
  ASSUME NEW r, NEW state, Fits(state, r), r.mode = "RX_SINGLE", ~ r.locked
  PROVE  Fits(state, NoPreamble(r))
<1> DEFINE s == NoPreamble(r)
<1>1. /\ s.mode = "STDBY" /\ s.open = r.open /\ ~ s.locked /\ s.fifo = r.fifo
      /\ s.flags = r.flags \cup {"RXTOUT"}
  BY DEF NoPreamble, Raise
<1> HIDE DEF s
<1>2. FitsScan(r) => FitsScan(s)
  BY <1>1 DEF FitsScan, intr
<1>3. FitsRx(r) => FitsRx(s)
  BY <1>1 DEF FitsRx, Receiving, intr, RxFlags
<1>4. ~ FitsCad(r) /\ ~ FitsTxDone(r)
  BY DEF FitsCad, FitsTxDone
<1> QED
  BY <1>1, <1>2, <1>3, <1>4 DEF Fits, s

LEMMA FitsTransmitted ==
  ASSUME NEW r, NEW state, Fits(state, r), r.mode = "TX"
  PROVE  Fits(state, Transmitted(r))
<1> DEFINE s == Transmitted(r)
<1>1. /\ s.mode = "STDBY" /\ s.open = r.open /\ ~ s.locked /\ s.fifo = r.fifo
      /\ s.flags = r.flags \cup {"TXDONE"}
  BY DEF Transmitted, Raise
<1> HIDE DEF s
<1>2. FitsScan(r) => FitsScan(s)
  BY <1>1 DEF FitsScan, intr
<1>3. FitsTxDone(r) => FitsTxDone(s)
  BY <1>1 DEF FitsTxDone, intr
<1>4. ~ FitsCad(r) /\ ~ FitsRx(r)
  BY DEF FitsCad, FitsRx
<1> QED
  BY <1>1, <1>2, <1>3, <1>4 DEF Fits, s

LEMMA FitsHeader ==
  ASSUME NEW r, NEW state, Fits(state, r), Receiving(r)
  PROVE  Fits(state, Header(r))
<1> DEFINE s == Header(r)
<1>1. /\ s.mode = r.mode /\ s.open = r.open /\ s.fifo = r.fifo
      /\ s.flags = r.flags \cup {"HEADER"}
  BY DEF Header, Raise
<1> HIDE DEF s
<1>2. FitsScan(r) => FitsScan(s)
  BY <1>1 DEF FitsScan, intr
<1>3. FitsRx(r) => FitsRx(s)
  BY <1>1 DEF FitsRx, Receiving, intr, RxFlags
<1>4. ~ FitsCad(r) /\ ~ FitsTxDone(r) /\ Receiving(s)
  BY <1>1 DEF FitsCad, FitsTxDone, Receiving
<1> QED
  BY <1>2, <1>3, <1>4 DEF Fits, s

LEMMA FitsReceived ==
  ASSUME NEW r, NEW packet, NEW state, Fits(state, r), r.locked,
         packet.content # "none"
  PROVE  Fits(state, Received(packet, r))
<1> DEFINE s == Received(packet, r)
<1>1. Receiving(r)
  BY DEF Fits
<1>2. /\ s.mode = IF r.mode = "RX" THEN "RX" ELSE "STDBY"
      /\ s.open = r.open /\ ~ s.locked /\ s.fifo = packet
      /\ r.flags \cup {"RXDONE"} \subseteq s.flags
      /\ s.flags \subseteq r.flags \cup {"RXDONE", "CRCERR"}
  BY DEF Received, Raise
<1> HIDE DEF s
<1>3. FitsScan(r) => FitsScan(s)
  BY <1>1, <1>2 DEF FitsScan, Receiving, intr
<1>4. FitsRx(r) => FitsRx(s)
  BY <1>1, <1>2 DEF FitsRx, Receiving, intr, RxFlags
<1>5. ~ FitsCad(r) /\ ~ FitsTxDone(r)
  BY <1>1 DEF FitsCad, FitsTxDone, Receiving
<1> QED
  BY <1>2, <1>3, <1>4, <1>5 DEF Fits, s

LEMMA ChipFits ==
  ASSUME FitsNow, Environment
  PROVE  FitsNow'
<1>1. CASE DetectionEnds
  BY <1>1, FitsDetection DEF DetectionEnds, Chip, FitsNow
<1>2. CASE GivesUp
  BY <1>2, FitsNoPreamble DEF GivesUp, Chip, FitsNow
<1>3. CASE TransmissionEnds
  BY <1>3, FitsTransmitted DEF TransmissionEnds, Chip, FitsNow
<1>4. CASE PreambleEnds
  BY <1>4, FitsHeader DEF PreambleEnds, Chip, program, FitsNow
<1>5. CASE PacketEnds
  <2>1. CASE radio.locked
    <3>1. PICK content \in {"data", "empty", "damaged"} :
            Chip(Received([id |-> air.id, content |-> content], radio))
      BY <1>5, <2>1 DEF PacketEnds
    <3>2. [id |-> air.id, content |-> content].content # "none"
      OBVIOUS
    <3> QED
      BY <2>1, <3>1, <3>2, FitsReceived DEF Chip, FitsNow
  <2>2. CASE ~ radio.locked
    BY <1>5, <2>2 DEF PacketEnds, program, FitsNow
  <2> QED
    BY <2>1, <2>2
<1>6. CASE NodeSends \/ ServerSends
  BY <1>6 DEF NodeSends, ServerSends, program, FitsNow
<1> QED
  BY <1>1, <1>2, <1>3, <1>4, <1>5, <1>6 DEF Environment

LEMMA NextFits == FitsNow /\ [Next]_vars => FitsNow'
<1> SUFFICES ASSUME FitsNow, [Next]_vars
             PROVE  FitsNow'
  OBVIOUS
<1>1. CASE stateMachine
  BY <1>1, MachineListens, MachineFits DEF stateMachine
<1>2. CASE loop /\ ~ stateMachine
  BY <1>2, LoopFits DEF loop
<1>3. CASE Environment
  BY <1>3, ChipFits
<1>4. CASE UNCHANGED vars
  BY <1>4 DEF vars, program, FitsNow
<1> QED
  BY <1>1, <1>2, <1>3, <1>4 DEF Next

\* Whatever is received, asked for in the browser or told by the server, the
\* state machine waits for an end that comes, and has an answer to it.
THEOREM RadioIsWaitedFor == Spec => []WaitsForWhatComes
<1>1. FitsNow => WaitsForWhatComes
  BY DEF FitsNow, Fits, FitsScan, FitsCad, FitsRx, FitsTxDone, WaitsForWhatComes
<1> QED
  BY <1>1, InitFits, NextFits, PTL DEF Spec
=============================================================================
