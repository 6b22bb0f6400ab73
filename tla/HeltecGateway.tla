--------------------------- MODULE HeltecGateway ---------------------------
(***************************************************************************)
(* The gateways on Heltec boards: loop() of 3gateway_Wifi_Webserver_-      *)
(* HeltecESP32.ino serves the web page and puts the radio back into        *)
(* receive mode after each packet.  (3gateway_HeltecESP32.ino is the same  *)
(* program without the web server, as this one is when the WiFi fails.)    *)
(*                                                                         *)
(* Packets and memory are sequences of 32 bit words.  The nodes with an    *)
(* RF95 radio send the seven words of GPSData behind RadioHead's header of *)
(* one word; the Heltec nodes send the seven words alone; other users of   *)
(* the band send what they like.  rxpacket has room for seven words, and   *)
(* OnRxDone copies what came and a NUL behind it.  What lies behind        *)
(* rxpacket is for the linker to say: txNumber, rssi and rxSize may be     *)
(* written over, for they are only printed, and lora_idle, for OnRxDone    *)
(* sets it last; then comes, sooner or later, something that may not:      *)
(* RadioEvents, which holds the address of OnRxDone, or a String.          *)
(***************************************************************************)
EXTENDS Naturals, Sequences, HeltecRadio

CONSTANTS
  MaxReadings, \* bound on the packets that are sent
  Lengths,     \* of the packets of other users, in words
  MemoryWords, \* the memory from rxpacket on, as far as a packet reaches
  Layouts      \* where in it the first word is that must not be written over

ASSUME MaxReadingsAssumption == MaxReadings \in Nat
ASSUME MemoryAssumption ==
  /\ MemoryWords \in Nat /\ MemoryWords >= 9
  /\ Lengths \subseteq 0 .. MemoryWords - 1
ASSUME LayoutsAssumption == Layouts \subseteq 8 .. MemoryWords + 1

VARIABLES
  pc,         \* where loop() is; "lost" when its data was written over
  lora_idle,
  memory,     \* rxpacket, and what lies behind it
  vital,      \* the first word of it that must not be written over
  Page_data,
  served,     \* the WiFi came up and the web server was started
  requested,  \* a browser waits for the page at /
  seen,       \* the page the browser shows
  last,       \* the packet that OnRxDone handled last
  sent        \* packets that were sent

web == <<served, requested, seen>>
vars == <<pc, lora_idle, memory, vital, Page_data, last, sent, web, radioVars>>

BUFFER_SIZE == 7

GPSData == <<"batteryLevel", "senderID", "nodeID", "latitude", "longitude",
             "altitude", "timestamp">>

Fields(reading) == [i \in 1 .. Len(GPSData) |-> <<GPSData[i], reading>>]

Senders == {"RF95", "Heltec"}

\* What the nodes send.
Packet(sender, reading) ==
  IF sender = "RF95" THEN <<<<"header", reading>>>> \o Fields(reading)
                     ELSE Fields(reading)

\* A packet of another user of the band.
Noise(length) == [i \in 1 .. length |-> <<"other", 0>>]

Packets ==
  {Packet(s, r) : s \in Senders, r \in 1 .. MaxReadings} \union
  {Noise(n) : n \in Lengths}

ASSUME NoPacketAssumption == NoPacket \notin Packets

Cleared == [i \in 1 .. MemoryWords |-> <<"zero", 0>>]

\* setup() is over.
Init ==
  /\ Init_Radio
  /\ pc = "web"
  /\ lora_idle = TRUE
  /\ memory = Cleared
  /\ vital \in Layouts
  /\ Page_data = << >>
  /\ last = NoPacket
  /\ served \in BOOLEAN
  /\ requested = FALSE
  /\ seen = << >>
  /\ sent = 0

Goto(from, to) == pc = from /\ pc' = to

----------------------------------------------------------------------------
(* loop()                                                                  *)

\* Mutant: the page is put together once, as the one at /w is.
ServePageBuiltOnce ==
  /\ Goto("web", "radio")
  /\ served /\ requested
  /\ seen' = << >>
  /\ requested' = FALSE
  /\ UNCHANGED <<lora_idle, memory, vital, Page_data, last, sent, served,
                 radioVars>>

\* server.handleClient(), and ROOT_HTML.  (The page at /w is htmlW, which was
\* put together before the first packet came and never changes.)
ServePage ==
  /\ Goto("web", "radio")
  /\ served /\ requested
  /\ seen' = Page_data
  /\ requested' = FALSE
  /\ UNCHANGED <<lora_idle, memory, vital, Page_data, last, sent, served,
                 radioVars>>

NoRequest ==
  /\ Goto("web", "radio")
  /\ ~ (served /\ requested)
  /\ UNCHANGED <<lora_idle, memory, vital, Page_data, last, sent, web,
                 radioVars>>

IntoRxMode ==
  /\ Goto("radio", "irq")
  /\ lora_idle
  /\ lora_idle' = FALSE
  /\ Rx
  /\ UNCHANGED <<memory, vital, Page_data, last, sent, web>>

Receiving ==
  /\ Goto("radio", "irq")
  /\ ~ lora_idle
  /\ UNCHANGED <<lora_idle, memory, vital, Page_data, last, sent, web,
                 radioVars>>

NoInterrupt ==
  /\ Goto("irq", "web")
  /\ NothingToPassOn
  /\ UNCHANGED <<lora_idle, memory, vital, Page_data, last, sent, web>>

----------------------------------------------------------------------------
(* OnRxDone                                                                *)

\* memcpy(rxpacket, payload, size)
Copied(payload) ==
  [i \in DOMAIN memory |-> IF i <= Len(payload) THEN payload[i] ELSE memory[i]]

\* rxpacket[size] = '\0' clears a byte of the next word.
Terminated(payload) ==
  [Copied(payload) EXCEPT ![Len(payload) + 1] = <<"clipped", 0>>]

\* Mutant: the header is not skipped.
IncomingWithHeader(bytes) == SubSeq(bytes, 1, Len(GPSData))

\* *(GPSData *)(rxpacket + 4)
Incoming(bytes) == SubSeq(bytes, 2, 1 + Len(GPSData))

\* Mutant: the flag is not set again.
BackToIdleNever == UNCHANGED lora_idle

BackToIdle == lora_idle' = TRUE

\* The packet or its NUL comes as far as what must not be written over.
Reaches(packet) == packet # NoPacket /\ Len(packet) + 1 >= vital

OnRxDone ==
  /\ ~ Reaches(heard)
  /\ Goto("irq", "web")
  /\ PassOn
  /\ memory' = Terminated(heard)
  /\ Page_data' = Incoming(memory')
  /\ last' = heard
  /\ BackToIdle
  /\ UNCHANGED <<vital, sent, web>>

\* From here on the program is not followed.
OnRxDoneOverruns ==
  /\ Reaches(heard)
  /\ Goto("irq", "lost")
  /\ PassOn
  /\ memory' = Terminated(heard)
  /\ UNCHANGED <<lora_idle, vital, Page_data, last, sent, web>>

Loop ==
  \/ ServePage \/ NoRequest \/ IntoRxMode \/ Receiving \/ NoInterrupt
  \/ OnRxDone \/ OnRxDoneOverruns

\* The processor may notice, and start the program again.
Restart ==
  /\ Goto("lost", "web")
  /\ lora_idle' = TRUE
  /\ memory' = Cleared
  /\ Page_data' = << >>
  /\ last' = NoPacket
  /\ served' \in BOOLEAN
  /\ mode' = "standby" /\ heard' = NoPacket
  /\ UNCHANGED <<vital, requested, seen, sent>>

----------------------------------------------------------------------------

\* The next packet arrives while the radio receives, or is missed.
Arrives(packet) ==
  /\ sent < MaxReadings
  /\ sent' = sent + 1
  /\ Hear(packet) \/ UNCHANGED radioVars
  /\ UNCHANGED <<pc, lora_idle, memory, vital, Page_data, last, web>>

\* The script in htmlS reloads the page 10 s after it was loaded; when the
\* gateway started again meanwhile, the user does.
Reload ==
  /\ ~ requested
  /\ requested' = TRUE
  /\ UNCHANGED <<pc, lora_idle, memory, vital, Page_data, last, sent, served,
                 seen, radioVars>>

----------------------------------------------------------------------------

TypeOK ==
  /\ RadioType(Packets)
  /\ pc \in {"web", "radio", "irq", "lost"}
  /\ {lora_idle, served, requested} \subseteq BOOLEAN
  /\ DOMAIN memory = 1 .. MemoryWords
  /\ vital \in Layouts
  /\ {Len(Page_data), Len(seen)} \subseteq {0, Len(GPSData)}
  /\ last \in Packets \union {NoPacket}
  /\ sent \in 0 .. MaxReadings

\* "Store received LoRa data for web display" (line 273): when the packet that
\* OnRxDone handled last is from a node with an RF95 radio, the page has its
\* fields, each under its name, though the packet is a word longer than
\* rxpacket, the timestamp is read from behind it, and shorter and longer
\* packets were left there before.  That holds where the linker put two words
\* behind rxpacket that may be written over; where it did not, the first such
\* packet is the end of the program.
PageShowsLast ==
  pc # "lost" =>
    \A r \in 1 .. sent : last = Packet("RF95", r) => Page_data = Fields(r)

\* A browser that keeps reloading the page at / shows what OnRxDone stored
\* last, again and again, however the requests fall between the packets.
BrowserCatchesUp == []<>(pc = "lost" \/ ~ served \/ seen = Page_data)
=============================================================================
