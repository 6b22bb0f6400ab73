------------------------ MODULE SingleChannelGateway ------------------------
(***************************************************************************)
(* The single channel LoRaWAN gateway: stateMachine() over the radio, and  *)
(* the loop() around it with the web server, the messages of the network   *)
(* server, the statistics and the PULL_DATA that keeps the way open.       *)
(*                                                                         *)
(* A turn of the state machine is one step: what the radio does meanwhile  *)
(* is lost when the flags are cleared at the end.  The intervals of the    *)
(* timers are left open, for the radio works in milliseconds and they are  *)
(* a quarter of a minute and more.                                         *)
(***************************************************************************)
EXTENDS LoraModem, Sequences

CONSTANTS
  SF7, SF12,
  MaxPackets,    \* bound on the packets on the air
  MaxMessages    \* bound on the messages of the server

ASSUME FactorsAssumption == SF7 \in Nat /\ SF12 \in Nat /\ SF7 < SF12
ASSUME BoundsAssumption == MaxPackets \in Nat /\ MaxMessages \in Nat

VARIABLES
  radio,
  air,       \* the packet on the air: its number, and how far it is
  _state, sf, _cad, _hop,
  _event,    \* 1 when an interrupt came, or the state machine wants a turn
  pc,        \* where loop() is
  quiet,     \* msgTime <= statr[0].tmst: the quiet channel may cause a reset
  inbox,     \* messages of the server that wait in the UDP buffer
  received,  \* messages the server has sent
  pushed     \* the packets forwarded to the server

program == <<_state, sf, _event, pc, quiet, pushed>>
settings == <<_cad, _hop>>
net == <<inbox, received>>
vars == <<radio, air, program, settings, net>>

TypeOK ==
  /\ radio \in Radio
  /\ air \in [id : 0 .. MaxPackets, phase : {"preamble", "payload", "over"}]
  /\ _state \in {"S_SCAN", "S_CAD", "S_RX", "S_TX", "S_TXDONE"}
  /\ sf \in SF7 .. SF12
  /\ _cad \in BOOLEAN /\ _hop \in BOOLEAN
  /\ _event \in {0, 1}
  /\ pc \in {"machine", "quiet", "server", "served", "event", "udp", "stat", "pull"}
  /\ quiet \in BOOLEAN
  /\ inbox \in 0 .. MaxMessages /\ received \in 0 .. MaxMessages
  /\ pushed \in Seq(Packet)

----------------------------------------------------------------------------
(* stateMachine()                                                          *)

\* A scanner starts over at SF7, a receiver stays at the sf it has.
Listen(scan) ==
  /\ _state' = IF scan THEN "S_SCAN" ELSE "S_RX"
  /\ sf' = IF scan THEN SF7 ELSE sf

Listening(scan, r) == IF scan THEN cadScanner(r) ELSE rxLoraModem(_cad, r)

Machine(state) ==
  /\ pc = "machine" /\ pc' = "quiet"
  /\ _state = state
  /\ UNCHANGED <<air, settings, net>>

\* EVENT_WAIT or DONE_WAIT is over without an interrupt: the next frequency.
HopTimeout ==
  /\ \E state \in {"S_SCAN", "S_CAD"} : Machine(state)
  /\ _hop /\ intr(radio) = {}
  /\ Listen(TRUE)
  /\ radio' = cadScanner(hop(radio))
  /\ _event' = 0
  /\ UNCHANGED <<quiet, pushed>>

\* Mutant: the radio is left in standby.
DetectedIdle ==
  /\ \E state \in {"S_SCAN", "S_CAD"} : Machine(state)
  /\ "CDDETD" \in intr(radio)
  /\ _state' = "S_RX"
  /\ radio' = opmode("STDBY", {}, RxFlags, radio)
  /\ _event' = 0
  /\ UNCHANGED <<sf, quiet, pushed>>

\* A preamble: receive the packet, from S_SCAN as from S_CAD.
Detected ==
  /\ \E state \in {"S_SCAN", "S_CAD"} : Machine(state)
  /\ "CDDETD" \in intr(radio)
  /\ _state' = "S_RX"
  /\ radio' = opmode("RX_SINGLE", {}, RxFlags, radio)
  /\ _event' = 0
  /\ UNCHANGED <<sf, quiet, pushed>>

\* Nothing at SF7; with an RSSI above the limit the other factors are tried.
\* (The flags are cleared after opmode(CAD): no detection is over by then.)
ScanDone ==
  /\ Machine("S_SCAN")
  /\ "CDDONE" \in intr(radio) /\ "CDDETD" \notin intr(radio)
  /\ \E above \in BOOLEAN : _state' = IF above THEN "S_CAD" ELSE "S_SCAN"
  /\ radio' = clear(opmode("CAD", radio.flags, radio.open, radio))
  /\ _event' = 0
  /\ UNCHANGED <<sf, quiet, pushed>>

ScanNothing ==
  /\ Machine("S_SCAN")
  /\ intr(radio) = {}
  /\ _event' = 0
  /\ UNCHANGED <<radio, _state, sf, quiet, pushed>>

\* What is received in this state is dropped.
ScanUnknown ==
  /\ Machine("S_SCAN")
  /\ intr(radio) # {} /\ intr(radio) \cap CadFlags = {}
  /\ radio' = clear(radio)
  /\ _event' = 0
  /\ UNCHANGED <<_state, sf, quiet, pushed>>

\* Mutant: the detection at SF12 is not followed by another.
CadDoneNoScan ==
  /\ Machine("S_CAD")
  /\ "CDDONE" \in intr(radio) /\ "CDDETD" \notin intr(radio)
  /\ IF sf < SF12
     THEN /\ sf' = sf + 1
          /\ radio' = opmode("CAD", {}, Flags, radio)
          /\ _event' = 0
          /\ UNCHANGED _state
     ELSE /\ UNCHANGED <<sf, _state>>
          /\ radio' = clear(radio)
          /\ _event' = 1
  /\ UNCHANGED <<quiet, pushed>>

CadDone ==
  /\ Machine("S_CAD")
  /\ "CDDONE" \in intr(radio) /\ "CDDETD" \notin intr(radio)
  /\ IF sf < SF12
     THEN /\ sf' = sf + 1
          /\ radio' = opmode("CAD", {}, Flags, radio)
          /\ _event' = 0
          /\ UNCHANGED _state
     ELSE /\ Listen(TRUE)
          /\ radio' = cadScanner(clear(radio))
          /\ _event' = 1
  /\ UNCHANGED <<quiet, pushed>>

\* loop() is not to go on before the detection is over.
CadNothing ==
  /\ Machine("S_CAD")
  /\ intr(radio) = {}
  /\ _event' = 1
  /\ UNCHANGED <<radio, _state, sf, quiet, pushed>>

----------------------------------------------------------------------------

RxDone == Machine("S_RX") /\ "RXDONE" \in intr(radio)

\* (_hop does not count here.)
CrcError ==
  /\ RxDone
  /\ "CRCERR" \in intr(radio)
  /\ Listen(_cad)
  /\ radio' = [Listening(_cad, radio) EXCEPT !.flags = @ \ RxFlags, !.open = Flags]
  /\ _event' = 0
  /\ UNCHANGED <<quiet, pushed>>

\* Nothing is started: the radio stays as the packet left it.
EmptyPacket ==
  /\ RxDone
  /\ "CRCERR" \notin intr(radio)
  /\ receivePkt(radio).content \in {"none", "empty"}
  /\ _state' = "S_SCAN"
  /\ radio' = clear(radio)
  /\ _event' = 1
  /\ UNCHANGED <<sf, quiet, pushed>>

\* receivePacket: into statr and on to the server, if it can be sent.
receivePacket ==
  /\ quiet' = TRUE
  /\ \E sends \in BOOLEAN :
       pushed' = IF sends THEN Append(pushed, receivePkt(radio)) ELSE pushed

\* Mutant: the radio is left receiving and its flags as they were.
PacketReceivedAgain ==
  /\ RxDone
  /\ "CRCERR" \notin intr(radio)
  /\ receivePkt(radio).content \notin {"none", "empty"}
  /\ receivePacket
  /\ Listen(FALSE)
  /\ radio' = opmode("RX", radio.flags, Flags, radio)
  /\ _event' = 0

PacketReceived ==
  /\ RxDone
  /\ "CRCERR" \notin intr(radio)
  /\ receivePkt(radio).content \notin {"none", "empty"}
  /\ receivePacket
  /\ Listen(_cad \/ _hop)
  /\ radio' = clear(Listening(_cad \/ _hop, radio))
  /\ _event' = 0

NoPacketCame ==
  /\ Machine("S_RX")
  /\ "RXTOUT" \in intr(radio) /\ "RXDONE" \notin intr(radio)
  /\ Listen(_cad \/ _hop)
  /\ radio' = Listening(_cad \/ _hop, clear(radio))
  /\ _event' = 0
  /\ UNCHANGED <<quiet, pushed>>

RxNothing ==
  /\ Machine("S_RX")
  /\ intr(radio) \subseteq {"HEADER"}
  /\ _event' = 0
  /\ UNCHANGED <<radio, _state, sf, quiet, pushed>>

----------------------------------------------------------------------------

\* Whatever LoraDown holds is sent.
Transmit ==
  /\ Machine("S_TX")
  /\ _state' = "S_TXDONE"
  /\ radio' = txLoraModem(clear(radio))
  /\ _event' = 1
  /\ UNCHANGED <<sf, quiet, pushed>>

\* Mutant: the end of the transmission only asks for another turn.
TxDoneUnseen ==
  /\ Machine("S_TXDONE")
  /\ "TXDONE" \in intr(radio)
  /\ _event' = 1
  /\ UNCHANGED <<radio, _state, sf, quiet, pushed>>

TxDone ==
  /\ Machine("S_TXDONE")
  /\ "TXDONE" \in intr(radio)
  /\ Listen(_cad \/ _hop)
  /\ radio' = clear(Listening(_cad \/ _hop, radio))
  /\ _event' = 0
  /\ UNCHANGED <<quiet, pushed>>

TxWaits ==
  /\ Machine("S_TXDONE")
  /\ intr(radio) = {}
  /\ _event' = 0
  /\ UNCHANGED <<radio, _state, sf, quiet, pushed>>

\* 7 s since the message of the server, with the wait for its time stamp.
TxTooLong ==
  /\ Machine("S_TXDONE")
  /\ intr(radio) = {}
  /\ Listen(_cad)
  /\ radio' = startReceiver(_cad, radio)
  /\ _event' = 0
  /\ UNCHANGED <<quiet, pushed>>

\* No other flags and no other state occur: see WaitsForWhatComes.
stateMachine ==
  \/ HopTimeout \/ Detected \/ ScanDone \/ ScanNothing \/ ScanUnknown
  \/ CadDone \/ CadNothing
  \/ CrcError \/ EmptyPacket \/ PacketReceived \/ NoPacketCame \/ RxNothing
  \/ Transmit \/ TxDone \/ TxWaits \/ TxTooLong

----------------------------------------------------------------------------
(* The rest of loop()                                                      *)

Goto(from, to) == pc = from /\ pc' = to

\* A quarter of a minute without a packet, once after each: start over.
QuietReset ==
  /\ Goto("quiet", "server")
  /\ quiet /\ quiet' = FALSE
  /\ Listen(_cad \/ _hop)
  /\ radio' = clear(Listening(_cad \/ _hop, radio))
  /\ UNCHANGED <<air, _event, pushed, settings, net>>

NotQuiet ==
  /\ Goto("quiet", "server")
  /\ UNCHANGED <<radio, air, _state, sf, _event, quiet, pushed, settings, net>>

NoRequest ==
  /\ Goto("server", "event")
  /\ UNCHANGED <<radio, air, _state, sf, _event, quiet, pushed, settings, net>>

\* /CAD, /HOP=1, /SF, and the pages that change nothing here.
Setting ==
  /\ Goto("server", "served")
  /\ \/ _cad' \in BOOLEAN /\ UNCHANGED <<sf, _hop>>
     \/ _hop' = TRUE /\ UNCHANGED <<sf, _cad>>
     \/ /\ sf' \in {IF sf >= SF12 THEN SF7 ELSE sf + 1, IF sf <= SF7 THEN SF12 ELSE sf - 1}
        /\ UNCHANGED settings
  /\ UNCHANGED <<radio, air, _state, _event, quiet, pushed, net>>

\* /HOP=0 and /FCNT.
ResetRadio ==
  /\ Goto("server", "served")
  /\ _hop' \in {FALSE, _hop} /\ UNCHANGED _cad
  /\ Listen(FALSE)
  /\ radio' = rxLoraModem(_cad, radio)
  /\ UNCHANGED <<air, _event, quiet, pushed, net>>

Served ==
  /\ Goto("served", "event")
  /\ UNCHANGED <<radio, air, _state, sf, _event, quiet, pushed, settings, net>>

\* An interrupt: back to the state machine before anything else.
EventFirst ==
  /\ Goto("event", "machine")
  /\ _event = 1
  /\ UNCHANGED <<radio, air, _state, sf, _event, quiet, pushed, settings, net>>

NoWlan ==
  /\ Goto("event", "machine")
  /\ _event = 0
  /\ UNCHANGED <<radio, air, _state, sf, _event, quiet, pushed, settings, net>>

Connected ==
  /\ Goto("event", "udp")
  /\ _event = 0
  /\ UNCHANGED <<radio, air, _state, sf, _event, quiet, pushed, settings, net>>

\* readUdp with a PULL_RESP: _state is set before its text is looked at, and
\* after a text that cannot be parsed no further message is read.
ReadDownlink ==
  /\ inbox > 0 /\ inbox' = inbox - 1
  /\ \E parsed \in BOOLEAN : Goto("udp", IF parsed THEN "udp" ELSE "stat")
  /\ _state' = "S_TX"
  /\ UNCHANGED <<radio, air, sf, _event, quiet, pushed, settings, received>>

\* An ACK, a message of unknown kind, or of a time server, or too long.
ReadOther ==
  /\ inbox > 0 /\ inbox' = inbox - 1
  /\ \E next \in {"udp", "stat"} : Goto("udp", next)
  /\ UNCHANGED <<radio, air, _state, sf, _event, quiet, pushed, settings, received>>

NoMessage ==
  /\ Goto("udp", "stat")
  /\ inbox = 0
  /\ UNCHANGED <<radio, air, _state, sf, _event, quiet, pushed, settings, net>>

\* sendstat() and, if the gateway is a node too, sensorPacket(): the radio is
\* restarted when the packet could be sent.  (_hop does not count here.)
SensorPacket ==
  /\ Goto("stat", "pull")
  /\ quiet' = TRUE
  /\ \/ Listen(_cad) /\ radio' = Listening(_cad, radio)
     \/ UNCHANGED <<_state, sf, radio>>
  /\ UNCHANGED <<air, _event, pushed, settings, net>>

NoSensorPacket ==
  /\ Goto("stat", "pull")
  /\ UNCHANGED <<radio, air, _state, sf, _event, quiet, pushed, settings, net>>

\* When the time is due, the next message is taken for it, whatever it is.
getNtpTime ==
  /\ inbox' \in {inbox, IF inbox > 0 THEN inbox - 1 ELSE 0}
  /\ UNCHANGED received

\* pullData() and startReceiver(), whatever the state.
Pull ==
  /\ Goto("pull", "machine")
  /\ Listen(_cad)
  /\ radio' = startReceiver(_cad, radio)
  /\ getNtpTime
  /\ UNCHANGED <<air, _event, quiet, pushed, settings>>

NotPull ==
  /\ Goto("pull", "machine")
  /\ getNtpTime
  /\ UNCHANGED <<radio, air, _state, sf, _event, quiet, pushed, settings>>

loop ==
  \/ stateMachine
  \/ QuietReset \/ NotQuiet
  \/ NoRequest \/ Setting \/ ResetRadio \/ Served
  \/ EventFirst \/ NoWlan \/ Connected
  \/ ReadDownlink \/ ReadOther \/ NoMessage
  \/ SensorPacket \/ NoSensorPacket
  \/ Pull \/ NotPull

----------------------------------------------------------------------------
(* The radio, the packets on the air and the server                        *)

Interrupts(old, new) == (intr(new) \ intr(old)) \cap DioFlags # {}

Chip(new) ==
  /\ radio' = new
  /\ _event' = IF Interrupts(radio, new) THEN 1 ELSE _event
  /\ UNCHANGED <<_state, sf, pc, quiet, pushed, settings, net>>

\* A detection, and the wait for a preamble, take milliseconds: longer than
\* the way from stateMachine() to the test of _event, unless a page is served
\* on the way.
TimePasses == pc \notin {"quiet", "server", "event"}

DetectionEnds ==
  /\ radio.mode = "CAD" /\ TimePasses
  /\ \E detected \in BOOLEAN : Chip(Detection(detected, radio))
  /\ UNCHANGED air

GivesUp ==
  /\ radio.mode = "RX_SINGLE" /\ ~radio.locked /\ TimePasses
  /\ Chip(NoPreamble(radio))
  /\ UNCHANGED air

TransmissionEnds ==
  /\ radio.mode = "TX"
  /\ Chip(Transmitted(radio))
  /\ UNCHANGED air

NodeSends ==
  /\ air.phase = "over" /\ air.id < MaxPackets
  /\ air' = [id |-> air.id + 1, phase |-> "preamble"]
  /\ UNCHANGED <<radio, program, settings, net>>

\* The end of the preamble finds the radio receiving at this rate, or not.
PreambleEnds ==
  /\ air.phase = "preamble"
  /\ air' = [air EXCEPT !.phase = "payload"]
  /\ \/ Receiving(radio) /\ Chip(Header(radio))
     \/ UNCHANGED <<radio, program, settings, net>>

PacketEnds ==
  /\ air.phase = "payload"
  /\ air' = [air EXCEPT !.phase = "over"]
  /\ IF radio.locked
     THEN \E content \in {"data", "empty", "damaged"} :
            Chip(Received([id |-> air.id, content |-> content], radio))
     ELSE UNCHANGED <<radio, program, settings, net>>

ServerSends ==
  /\ received < MaxMessages
  /\ received' = received + 1 /\ inbox' = inbox + 1
  /\ UNCHANGED <<radio, air, program, settings>>

Environment ==
  \/ DetectionEnds \/ GivesUp \/ TransmissionEnds
  \/ NodeSends \/ PreambleEnds \/ PacketEnds
  \/ ServerSends

----------------------------------------------------------------------------

\* setup()
Init ==
  /\ \E cad, hops \in BOOLEAN : _cad = cad /\ _hop = hops
  /\ _state = IF _cad THEN "S_SCAN" ELSE "S_RX"
  /\ sf = SF7
  /\ radio =
       [mode |-> IF _cad THEN "CAD" ELSE "RX", flags |-> {},
        open |-> IF _cad THEN CadFlags \cup {"CRCERR", "HEADER"} ELSE RxFlags,
        locked |-> FALSE, fifo |-> Nothing]
  /\ air = [id |-> 0, phase |-> "over"]
  /\ _event = 0 /\ pc = "machine" /\ quiet = TRUE
  /\ inbox = 0 /\ received = 0 /\ pushed = << >>

Next == loop \/ Environment

\* loop() is called again and again, and what the radio does comes to an end.
\* The WLAN is not away for ever, and PULL_DATA falls due.
Fairness ==
  /\ WF_vars(loop)
  /\ SF_vars(DetectionEnds) /\ SF_vars(GivesUp) /\ WF_vars(TransmissionEnds)
  /\ WF_vars(PreambleEnds) /\ WF_vars(PacketEnds)
  /\ SF_vars(Connected) /\ SF_vars(Pull)

Spec == Init /\ [][Next]_vars /\ Fairness

----------------------------------------------------------------------------

\* In every state the radio is doing that whose end the state machine waits
\* for, or has done it and says so in a flag that is not masked, and there
\* is no flag for which the state has no answer.  The one exception is a
\* packet without payload, after which nothing is started: _state is S_SCAN,
\* with the radio in standby or receiving what S_SCAN then drops.
WaitsForWhatComes ==
  /\ _state = "S_SCAN" =>
       \/ radio.mode = "CAD" \/ "CDDONE" \in intr(radio)
       \/ radio.mode = "RX" \/ radio.fifo.content = "empty"
  /\ _state = "S_CAD" =>
       /\ radio.mode = "CAD" \/ "CDDONE" \in intr(radio)
       /\ intr(radio) \subseteq CadFlags
  /\ _state = "S_RX" =>
       /\ Receiving(radio) \/ intr(radio) \cap {"RXDONE", "RXTOUT"} # {}
       /\ intr(radio) \subseteq RxFlags
  /\ _state = "S_TXDONE" =>
       /\ radio.mode = "TX" \/ "TXDONE" \in intr(radio)
       /\ intr(radio) \subseteq {"TXDONE"}

\* What goes to the server are packets with a payload and a right checksum,
\* each once and in the order they were on the air, however late the program
\* looks at the radio and whatever was received on top.
UplinksInOrder ==
  /\ \A i \in DOMAIN pushed : pushed[i].content = "data"
  /\ \A i, j \in DOMAIN pushed : i < j => pushed[i].id < pushed[j].id

\* The radio comes back to receiving, and in a state that takes what it
\* receives, whatever it is told to do and after a packet without payload too.
ListensAgain ==
  []<>(\/ _state \in {"S_SCAN", "S_CAD"} /\ radio.mode = "CAD"
       \/ _state = "S_RX" /\ Receiving(radio))

\* However busy the channel, _event does not keep loop() from the messages of
\* the server, unless pages are asked for without end.
ServesNetwork == <>[](pc # "served") => []<>(pc = "udp")
=============================================================================
