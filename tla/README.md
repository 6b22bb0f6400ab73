# CutAwaySeeker LoRa GPS: a verification project

The repository holds the firmware of small battery powered boards that find
their position with a GPS receiver and tell each other, over LoRa radio, where
they are. There is no server: every board (a *node*) broadcasts its own
position, records those it hears and passes them on. *Gateways* are boards that
only listen and show what they hear.

This directory holds TLA+ models of that firmware, the TLC configurations that
check them on small instances, and theorems about them that TLAPS checks for
every size.

## 1. Inventory

| Part | Source | State it keeps | Operations | Status |
|---|---|---|---|---|
| Position table | `ChatGPTtrial/1LoRaNode` 29-34, 55-69 | `nodeHistories`: 10 slots of 50 positions | `storePosition` | modelled, proved |
| Mesh node | `ChatGPTtrial/1LoRaNode` 71-184 | `lastBroadcast`, `gpsLastValidTime`, the packet at hand, the radio | `setup`, `loop`: broadcast, skip, listen, record, relay | modelled, proved |
| Radio driver | RadioHead `RH_RF95` (library) | mode, FIFO, one receive buffer | `send`, `waitPacketSent`, `available`, `recv`, two interrupts | its contract is modelled |
| Serial gateway | `ChatGPTtrial/2gateway` | nothing | receive and print | modelled, proved |
| Heltec node | `ChatGPTtrial/1LoRaNode_heltecESP32` | `lora_idle`, `rxpacket`, the broadcast timer | broadcast, `OnRxDone` (neither records nor relays) | modelled |
| Heltec gateways | `ChatGPTtrial/3gateway_*` | `lora_idle`, `rxpacket`, the page | `OnRxDone`, `handleClient` | modelled, proved |
| Ring queue | `Node1_rcvrTry2.5/GlobalVarbs.h` 62-147 | `front`, `rear`, `size`, an array of 3 readings | `createQueue`, `enqueue`, `dequeue`, `front`, `rear` | modelled, proved |
| Manifest book node | `Node1_rcvrTry2.5` | `aBookCalledManifest` (100 queues), `manifest` (2 pages of 3 readings), counters | record own reading, broadcast it, 5 s listening, `addIncomingCurrInfoToMyBookCalledManifest` | modelled, proved |
| its gateway | `gateway_forTry2.5_worksInProgress` | nothing (storing is commented out) | listen 5 s, print | left out: keeps nothing |
| Listen window node | `Archive/Node0_rcvrTry3.0` | a window flag, a manifest of 50 lines | open and close the window, send, `listenForNodes`, `addToManifest` | modelled |
| NMEA diagnostic | `NMEAdiagnostic_worksFINAL` | index into the baud table, time stamps, counts | try a rate, listen, dump, show sentences, hang | modelled |
| LoRaWAN gateway: radio | `ESP-sc-gway/_stateMachine.ino`, `_loraModem.ino` | `_state`, `sf`, `_event`; mode, flags and mask of the chip | `stateMachine`, the calls to the chip | modelled, proved |
| LoRaWAN gateway: main loop | `ESP-sc-gway.ino`, `_txRx.ino`, `_wwwServer.ino` | messages waiting, timers | pages that touch the radio, `readUdp`, sensor packets, `pullData` | modelled in part |
| LoRaWAN gateway: flash memory | `_WiFi.ino`, `_loraFiles.ino`, `_sensor.ino` | configuration file, frame counter, log files | read and write the configuration, `addLog`, `/FCNT`, `/FORMAT` | modelled, proved |
| Libraries of the LoRaWAN gateway | `ESP-1ch-Gateway-v5.0-master/libraries` | | JSON, display, WiFi driver, AES, time, web server | left out: third party, unchanged |
| Serial passthrough | `SerialPassthrough_tester_worksFINAL` | nothing | forward bytes | left out: nothing to check |
| Earlier sketches | `Archive/Node*`, `loopbacktester`, the one-file copy in `ChatGPTtrial` | as their successors | | left out: superseded |
| SparkFun examples | `Archive` | | | left out: third party |

**How they interact.** A node runs one loop, with no threads and no operating
system. The only concurrency inside a node is the radio interrupt, which ends a
transmission or fills the receive buffer at any moment. Between nodes there is
only the air: a packet reaches whichever nodes are in receive mode and in range;
there is no acknowledgement, no retry and no routing. A packet (`GPSData`)
carries the ID of the node it is about (`nodeID`) and of the node that sent it
last (`senderID`); a relay changes `senderID` only. The GPS receiver writes
sentences to a serial port that the loop drains once per iteration. The
LoRaWAN gateway, archived with the sketches, is a program of its own: its loop
runs a state machine over the flags the radio raises, a web server, and the UDP
messages of a network server, and it keeps a configuration and logs in flash.

**What is hard.** The loops do several things in a fixed order and some return
early; the radio is half duplex with one buffer; packets are lost, overwritten,
heard twice and heard late; time is a counter that wraps; IDs are truncated;
tables fill up; the gateway writes mode, mask and flags of its radio one after
the other while the chip goes on, and writes its files while the power may fail.
None of it has a test in the repository.

**What makes it correct.** A table keeps, per node, the newest positions of
that node and nothing else. What is in the mesh was broadcast by the node whose
ID it bears. A node never records itself. What it relays it has recorded. Every
board keeps coming back to listening. Broadcasts are neither early nor late,
and a fake place is sent only for want of a fix. The gateway never waits
for an interrupt that cannot come, forwards each packet once, goes on serving its
network, and counts on after a restart. `PROJECT.json` lists the hazards at their
lines, each with the properties that would catch it.

## 2. Modules

```
SlidingWindow        abstract: the newest Size readings, oldest first
   ^ refined by
NodeHistoryWindow    one node's track, taken out of nodeHistories
   | extends
NodeHistory          one table over time        HistoryProofs
   | extends                                        |
PositionTable        storePosition as operators PositionTableProofs
   ^ extends                                        |
LoRaMesh             every node's loop          LoRaMeshProofs
   | extends    \ extended by                      |
RF95             MeshGateway    gateways that hear the mesh
(external library: the radios and the air)

NodeTimer            the timers of one node's loop   NodeTimerProofs

SlidingWindow
   ^ refined by (page 0)
ManifestBook         the loop of Node1_rcvrTry2.5   ManifestBookProofs
   | extends                                            |
RingQueue            its queue as operators

SlidingWindow
   ^ refined by (each node's manifest)
ListenWindow         the nodes of Node0_rcvrTry3.0   HistoryProofs
   | extends
RF95

HeltecNet            a node and a gateway   HeltecNetProofs
   | extends / instance
HeltecGateway, HeltecNode   their loops, over HeltecRadio (external library)

BaudScan             NMEAdiagnostic.ino

SingleChannelGateway stateMachine and loop     SingleChannelGatewayProofs
   | extends
LoraModem            the SX127x and the calls to it
GatewayStore         its flash memory          GatewayStoreProofs
```

The modules whose names begin with `MC` give TLC what a `.cfg` cannot express;
`SingleChannelGateway` and `GatewayStore` need none. `MCSketches` puts the three
small sketches `NodeHistoryWindow`, `ListenWindow` and `BaudScan` side by side:
which of them runs is chosen at the start, the others' variables stay as they
are, and so each behaviour is one of a single sketch.
The bug-like variants of definitions that the modules hold, marked *Mutant*, are
used by no specification: put in the place of the definition they precede, they
make a property fail.

### PositionTable, NodeHistory, NodeHistoryWindow

`nodeHistories` is a function from slots to records of a function `positions`
and a `count`, as the array of structs is. `Takes` is the condition of line 57;
`Chosen` is the scan with its `break`: the first slot that takes the reading;
`Appended` and `Shifted` are the two branches; `StorePosition` is the whole
function. A reading is a model value: battery, place and time are only told
apart. Array elements beyond `count` are kept as they are in memory (zeroed at
first), so that the model would show one being read.

`NodeHistoryWindow` takes the positions of one node out of the table and shows
that they behave as `SlidingWindow` with the readings of that node as items:
readings of others never enter, only the oldest ever leaves. A node that finds
no free slot simply never gets a window. The table's specification is `TableSpec`,
so that `HistoryProofs` can extend this module and `ListenWindow`, whose manifests
are windows too.

### RF95, LoRaMesh

`RF95` is the contract of the driver, taken from how the sketches call it and
from the library they were built with. A transmission that ends is received by
*any set* of the radios then in receive mode. That covers range, collisions and
late tuning, and it lets more happen than physics does (a packet may arrive
within the few microseconds between `available` and `recv`); what is shown holds
all the more. The receive interrupt overwrites the buffer and takes the radio to
idle, where it is deaf until `available` puts it back into receive mode.

`LoRaMesh` gives each node a program counter with the places where an interrupt
can make a difference:

| `pc` | Source | Leaves by |
|---|---|---|
| setup, halted | 71-92, 78 | `Setup`, `SetupFails`, `Halted` |
| loop | 94-141 | `NotDue`, `Broadcast`, `SkipBroadcast` (the early return) |
| broadcasting | 144 | `BroadcastSent` |
| listen | 163 | `NothingHeard`, `Heard` |
| recv | 166 | `Receive` |
| handle | 167-177 | `DropOwn`, `StoreAndRelay`, `StoreOnly` |
| relaying | 178 | `RelaySent` |

`due` stands for `millis() - lastBroadcast >= 5000`. It is set, or not, whenever
an iteration ends, and cleared with `lastBroadcast`. After the early return it
stays cleared for the next iteration, because 5 s do not pass between two lines
of the program. Whether a due reading is sent or skipped is left open here and
decided in `NodeTimer`. A reading is the pair `<<node, number>>`, so that
properties can speak of where a packet came from and in which order; `sent`
counts them.

### NodeTimer

One node's clock, timers and GPS validity. `now` is real time, `millis` its
remainder by `Wrap`, and `since` the difference of two `uint32_t`. Time passes
between any two steps, but at most `MaxPass` at one place of the loop.
`valid` is what `isValid()` of the library says: it becomes true with a decoded
fix and never false again. The variables `lastFix`, `decided`, `sentAt` and
`content` only record what happened, for the properties to speak of. The date,
and the time stamp that `convertToUnixTimestamp` makes of it, are left out.

### RingQueue, ManifestBook

The firmware of `Node1_rcvrTry2.5` is another design: nothing is relayed, and a
node keeps a book with a page, a ring buffer of three readings, per node.
`RingQueue` keeps the fields and the remainders of the source. `enqueue` is
`put` after `makeRoom`; `dequeue`, `front` and `rear` of an empty queue, which
return an uninitialized reading, are never called.

`ManifestBook` is one such node among others that may send at any time. The
three steps of its loop are `Record` (reading, page 0, `manifest`, broadcast),
and either `TimesOut` or `Receive`. The radio hears on when listening timed out,
so `Arrives` is possible while the node takes its next reading as well; the
driver then holds the packet over the broadcast. `Stops` are the pages at which
the search of line 299 may end, `Found` the first of them, `PageFor` adds what
happens when it ends at none. `manifest` is its memory: the two arrays of the
two pages lie one behind the other, so that an index one too far is seen to hit
the second. `readingCounter` is kept as far as it gets into a `readingID`, a
`uint16_t`, whose width is the constant `IDWidth`.

### HeltecRadio, HeltecNode, HeltecGateway, HeltecNet

The Heltec library returns from `Send` at once and calls `OnRxDone` from
`IrqProcess`; `HeltecRadio` is that contract. In `HeltecNode` the `Radio.Rx(0)` of
the same turn of `loop()` cuts a transmission off unless it ended during
`delay(100)`, which blinks the LED. How long it takes is open: the call of
`SetTxConfig` is commented out (lines 147-150), so nothing in the code sets the
spreading factor or the bandwidth it is sent with.

`HeltecGateway` keeps the memory from `rxpacket` on, word by word. A packet of a
node with an RF95 radio is 32 bytes, `rxpacket` has 28, and other users of the
band may send up to 255, and so does the node receive: `memcpy`, and the NUL behind
it, run over the end. What lies there is for the linker to say (lines 124-132
declare `RadioEvents`, `txNumber`, `rssi`, `rxSize` and `lora_idle`, and then
Strings): some words may be written over without harm, and then comes one that
may not. `vital` is the place of that one, any of `Layouts`, the word right behind
`rxpacket` included. When a packet gets as far, `OnRxDoneOverruns` leads to
`lost`, from where the program is not followed; it may stay there for good, or the
processor may notice and start it again (`Restart`). A packet without RadioHead's
header is read one word off, as the code reads it. `HeltecNet` lets both boards
hear each other, packets with an RF95 header and packets of other users
(`Noise`), of all `Lengths`.

### MeshGateway

`2gateway.ino` on some of the boards of `LoRaMesh`: `GatewayHears`, `Prints`,
`LedOff`. It has the same radio and the same interrupts, so that packets are
overwritten while it prints and blinks. `printed` records the lines.

### ListenWindow

Each node sends at every byte of its GPS receiver and calls `listenForNodes` in
the 10 s window and at the end of every turn. `due` is the comparison at the top
of `loop()`, which is used again, from the same `millis()`, when the window is
shut. The text that is received is not terminated in a buffer that is not
cleared; `Garbage` is what digits may follow the last number.

### BaudScan

The scan for the baud rate of the GPS receiver. A tick is half a second, and in
a tick there is time for many turns of `loop()`. The receiver sends in the first
tick of every second and pauses in the other, as receivers at 1 Hz do; at a
wrong rate characters of some kind arrive, or none. `StartAt` is `tryBaud`,
`NextBaud` the order in which the table is tried, with the initial rate first.

### LoraModem, SingleChannelGateway

`LoraModem` holds one operator for each call to the SX127x: each maps the chip
(mode, interrupt flags, mask, whether it is locked on to a packet, the FIFO)
before the call to the chip after it. `intr` is what `stateMachine` reacts to:
raised and not masked. A preamble, a header, the end of a packet, of a detection,
of a transmission and of the wait in RX_SINGLE change the chip by themselves, and
those on DIO0 and DIO1 set `_event`.

`SingleChannelGateway` has an action for each branch of `stateMachine`, in the
states `S_SCAN`, `S_CAD`, `S_RX`, `S_TX` and `S_TXDONE`, and for each thing that
the rest of `loop()` may do to it:

| `pc` | In `loop()` | Leaves by |
|---|---|---|
| machine | `stateMachine()` | one of its 16 branches |
| quiet | the reset after 15 s without a packet | `QuietReset`, `NotQuiet` |
| server, served | `server.handleClient()` | `Setting`, `ResetRadio`, `NoRequest`, `Served` |
| event | `if (_event == 1) return` | `EventFirst`, `NoWlan`, `Connected` |
| udp | `readUdp` | `ReadDownlink`, `ReadOther`, `NoMessage` |
| stat | statistics and sensor packets | `SensorPacket`, `NoSensorPacket` |
| pull | `pullData` and `startReceiver` | `Pull`, `NotPull` |

A turn of the state machine is one step: its register writes take microseconds
and what the chip reports takes milliseconds. For the same reason a detection
does not end on the few lines between the machine and the test of `_event`
(`TimePasses`). Frequency and spreading factor only decide whether a packet is
received, and whether it is received is open. Branches of the code for flags
that cannot be raised in a state are left out; that they cannot is what
`WaitsForWhatComes` says.

### GatewayStore

What is in flash: the configuration file with the frame counter and the counters
of the log files, and the log files. `writeConfig` empties the file and writes it
again, so that a power cut leaves a `Beginning` of it. The file system writes
pages of 256 bytes, and with the settings the gateway writes the line of FCNT
ends in the first; this is assumed. `Interval` and `Margin` are the 10 and 10 of
the source, and `Width` the 65536 values of a `uint16_t`: the counter wraps, and
so does its sum with the margin. A 0 in the file is taken for no counter
(`_WiFi.ino` 144), be it that none was saved or that 0 was. While the power is off
`frameCount` stays what the RAM held last, for the properties to compare with;
`lastSent` and `recent` only record what was sent and written.

## 3. What is checked

| Run | Instance | Shows |
|---|---|---|
| `sketches` | table: 3 nodes (one with ID 0), 2 slots of 2 positions, 2 readings; window: a node with a GPS receiver and one without, manifests of 2 lines; scan: the 11 rates of the table, waits of 1 s and 3 s, a clock of 128 s | the table stays well formed (`TableTypeOK`, `OneSlotPerNode`, `OneNodePerSlot`), nothing is evicted (`NoEviction`), a track and a manifest are sliding windows (`TrackIsWindow`, `ManifestIsWindow`), the scan finds the rate (`Detects`) |
| `mesh` | 3 nodes, two of them with one ID, 2 broadcasts, 1 slot of 1 position | `Genuine`, `RelayedIsRecorded`, `NoOwnReadings`, `ListensAgain`, `HeardIsHandled` |
| `mesh_gateway` | 2 nodes with 2 and 1 broadcasts, a gateway | `TrackInOrder`, `PrintedInOrder`, `NotFromItself`, `HeardIsPrinted`, `EventuallyQuiet` |
| `node_timer` | period 3, grace 6, wrap 16, time to 45 | `Spaced`, `Punctual`, `NeverSilentForLong`, `FakeOnlyWithoutFix` |
| `timer_stale` | same, time to 30 | violated: `FakeAfterGrace` |
| `book_pages` | 2 other nodes, queues of 3, so 3 pages looked at | `OneNodePerPage`, `OnePagePerNode`, consistent rings, `OwnPageIsWindow`, `HeardIsRecorded` |
| `book_mixed` | 3 other nodes, queues of 3 | violated: `OneNodePerPage` |
| `book_manifest` | 1 other node, queues of 3 | violated: `ManifestHoldsOwnPage` |
| `heltec_net` | a node with 1 broadcast, a gateway, 3 packets of 2, 7, 8 and 10 words, the vital word right behind `rxpacket`, two words on, or out of reach | `PageShowsLast`, `BothListenAgain`, `BrowserCatchesUp` |
| `sc_gateway` | 2 packets on the air, 1 message, 2 spreading factors | `WaitsForWhatComes`, `UplinksInOrder`, `ListensAgain`, `ServesNetwork` |
| `gateway_store` | saved at every second frame, a counter of 5 values, 2 log files of 2 records, 6 files | `RestartsGoOn`, `RecentLogsKept` |
| `store_resent` | saved at every tenth frame, a counter of 65536 values | violated: `NotSentAgain` |

**Why the bounds are enough.** Three reporting nodes over two slots fill the
table and leave one out; three positions into a slot of two shift it. In the
mesh, one slot makes the second node heard find the table full. Two nodes are
the smallest mesh with an echo, three the smallest in which a reading takes two
ways, comes back relayed by another, and can be relayed for ever. Two broadcasts
of one node shift its track in the other's table and can overtake each other at
the gateway. `MaxBroadcasts` is a bound of the models: in `EventuallyQuiet` it
plays the part of nodes that stop broadcasting. In `node_timer` the grace period
is two broadcast periods, as in the source, and the clock wraps twice.
In the book, four readingIDs keep the readings of one page apart and go around
as the 65536 of the source do; the readings of the others are of two kinds, as
many as their queues need to tell a new reading from an old one. Four pages stand
for the 100: no page beyond the ones looked at is ever written. `DiscoveredCap`
bounds `numDiscoveredNodes`, which counts on without end once the book is
crowded. For the scan in `sketches` the table is the true one, and the clock is
long enough
for the whole scan and a turn of it; `MAX_SAMPLE` and `Enough` are reached within
one rate. A second spreading factor makes `S_CAD` both go on and start over, and
a second packet meets whatever the first left behind. In `gateway_store` the log
counters turn over a byte of 4, and there are files older than the two that
count; the frame counter wraps at 5, which two does not divide, as ten does not
divide 65536, and there are restarts before and after the first saving and on
both sides of the wrap. In `heltec_net` three packets are enough for one that is
shorter or longer to be left in memory before, and for one to come after a
restart. Where the vital word is makes three cases: every packet of an RF95 node
is too long, only the longest packet is, and none is.

**What the runs show of the mesh.** With distinct IDs the test
`incoming.senderID != curr_ID` (line 175) never keeps a packet from being relayed
(`NotFromItself`): a packet a node receives was sent last by another node. Only
when two nodes share an ID does it ever hold one back; `StoreOnly` is reached in
`mesh` alone. So nothing ends the relaying of a reading between two
neighbours of its origin. Two nodes fall silent, since the origin drops its own
reading; three need not, and the same reading is then recorded over and over.
`mesh` contains those endless behaviours and shows that each node still
listens and handles what it hears.

**Disagreements found.**

* `timer_stale`: the library's `isValid()` is never taken back, so once a fix was
  decoded the node never sends the fake place, and goes on broadcasting the last
  real one, however old.
* `book_mixed`: the search for a page stops at as many pages as a page has
  readings (3), not at the 100 there are. The third other node is queued on page
  1, among the first one's readings, and "discovered" at each packet. While no
  more than two others are heard, `book_pages` shows the book to be right.
* `book_manifest`: the writer of `manifest` is reset at an index greater than
  `NumofReadings`, one too late (line 162). Of each four readings one is written
  behind the array of `manifest[0]`, into `manifest[1]`, while the oldest stays in
  `manifest[0]`; the comments want the oldest deleted and the page to be this
  node's. No reading is lost from both pages (`ManifestCoversOwnPage`, proved).
* `store_resent`: until the tenth sensor packet the file holds the counter 0, which
  is taken for none, so that a restart begins at 0 again and sends counters that
  were sent. The comment says that ten are left out instead. `RestartsGoOn` says
  what holds: with a counter in the file a restart goes on behind what was sent;
  without one at most `Interval` packets are sent again, unless the power cut
  emptied the file.

Further behaviour that the models contain and a reader of the code may not
expect; the properties above are stated so that they hold with it:

* A node that never had a fix measures the grace period from its first loop, and
  each time `millis()` comes round to that value it is silent for 10 s once more
  (`NeverSilentForLong`).
* The Heltec gateways read the packets of Heltec nodes, which have no header, one
  word off, so that a latitude is shown as a node. `PageShowsLast` is about nodes
  with an RF95 radio. Their packets are 4 bytes, and a NUL, too long for `rxpacket`:
  where the linker put something behind it that the program depends on, the first
  of them ends the program. Both boards' properties hold until such a packet comes.
* The page at `/w` is put together before the first packet and never changes; what
  it is to show no document says. `BrowserCatchesUp` is about the page at `/`.
* The Heltec node's broadcast may be cut off by its own `Radio.Rx(0)`.
* A receiver that never pauses for 5 ms holds the baud scan at a wrong rate, and
  after a disconnection the time since the last sentence is printed as the time
  of that sentence. `Detects` assumes a receiver that pauses.
* The listening window of `Node0_rcvrTry3.0` is timed from its opening and opens
  again in the turn after it shut. While GPS bytes come faster than lines are
  sent, its loop stays in `sendLocation`. A line that is shorter than one before
  may be read with digits of it.
* A packet without payload leaves the LoRaWAN gateway's radio idle until
  PULL_DATA or a quiet quarter of a minute (`ListensAgain` holds by these).
* Its log files may be left for good after a restart.

**Fairness.** `ManifestBook` assumes weak fairness of the program and nothing of
what arrives. `LoRaMesh` and `MeshGateway` assume weak fairness of each board's
program, for the processor runs `loop()` without end, and of each radio's end of
transmission, for a transmission takes a fixed time. Nothing is assumed of
reception: every packet may be lost. `HeltecNet` assumes weak fairness of both
programs as long as they are not lost, and that the browser's timer runs, but not
that a lost program is started again; `BaudScan` that time passes and `loop()`
runs.
`SingleChannelGateway` assumes weak fairness of `loop()` and of the ends of
transmissions, preambles and packets. Four assumptions are strong, for other
steps may disable what they are about again and again: a detection and a wait
that are started over and over do end (`DetectionEnds`, `GivesUp`: they take
milliseconds, and what restarts them comes far more seldom), the WLAN is not away
whenever it is looked at (`Connected`), and PULL_DATA falls due (`Pull`: its timer
has long run out when `loop()` gets there). The safety properties need no
fairness.

## 4. What is proved

Eight modules whose names end in `Proofs` hold the proofs. Every safety property the
passing runs check is stated by a theorem there. They assume of the constants only
what the modules state: `NodeID` is a set of naturals, at least one slot and one
entry of a manifest, between 1 and 255 positions per slot (`count` is a `uint8_t`),
that bounds are naturals, that every node has an ID, that gateways broadcast
nothing, that a queue has at least one place, that the book has two pages and as
many as the search looks at, that what must not be written over lies behind the
seven words of `rxpacket`, that the frame counter is saved at least as often as the
margin covers and the margin is less than a round of it, and that one round of a
node's loop takes less than the broadcast period, and both less than one turn of
`millis()`. What a theorem assumes besides stands in its statement, and below.

**The table.** The inductive invariant is that the table is in its type and
`WellFormed`: used slots first, one slot per node, one node per slot. No part
stands alone. `OneSlot` needs `UsedFirst`, since `storePosition` gives a reading
to the first empty slot and would miss its node's slot behind a hole. The type
needs `OneNode`, which tells that the positions a shift moves are real ones.
`StoredSlot` and `StoredContents` say what one slot becomes, `StorePositionSlot`,
`StorePositionContents` and `StorePositionWellFormed` what the table becomes.
From it follow `Typing`, `NoHoles`, `NoSecondSlot`, `NoMixedSlot` and
`NothingEvicted`. `TrackImplementsWindow` is the refinement: under the mapping
that takes one node's positions out of the table, `storePosition` is a push onto
the window of that node (`StoredSlides`), for a reading of another node, or of a
node without a slot in a full table, a stutter (`StorePositionSlides`).

**The manifests of the listen window nodes.** `ManifestImplementsWindow` is the
same refinement for `ListenWindow`. `LinesInv` says that what is on the air or in
a receive buffer is a place some node was at, and that a manifest holds no more
lines than it has room for; then `addToManifest` is a push (`AddedSlides`), and
`NextManifest` says that nothing else changes a manifest, nor two at once.

**The mesh.** `IInv` conjoins the types, the bound on broadcasts,
`RadioFollowsProgram`, well formed tables, `Genuine`, `NoOwnReadings` and
`RelayedIsRecorded`.
`RadioFollowsProgram` is what the others rest on: it tells that what the program
handles is a packet, and under which sender the radio transmits. `NextPackets`
is the heart: a packet a step brings to a node was somewhere before, or is the
reading just broadcast, or is the relayed form of one at hand. Hence
`Provenance`, for any number of nodes, relays and losses. `NextRecorded` gives
`NoOwnTrack`. `RelaysAreRecorded` rests on `StorePositionRecords`: the scan stops
at the least slot that takes the reading (`FirstSlot`, from the library's
well-foundedness of the naturals), and if there is none, every slot is another
node's. `RelayTestNeverHolds` assumes besides that IDs are distinct.

**Gateways in the mesh, and order.** `AllInv` takes all this over to
`SpecAll`, where some boards are gateways: they never send (`Silent`), so that
nodes alone are origin and sender of whatever is anywhere, the printed lines
included (`FromSpeakers`). `Kinds` sorts the steps of all the boards into six by
what they do to packets, and the rest of the proof speaks of these six only.
`TracksAreInOrder` and `PrintsInOrder` assume distinct IDs and at most two nodes;
with three nodes both are false, a reading then comes two ways. Their invariant
has two parts. `InOrder` follows one packet kind (one origin, one sender) from
the FIFO of its sender through a receive buffer into a program and a table or the
printed lines: what is further on is older. `RelaysBehind` is needed since
what a node sends on is a kind of its own: all of it that is anywhere is older
than what still comes to that node from the origin. So when the node takes up the
next packet and sends it on, the new relay is behind no older one, whatever was
lost or overwritten on any of these ways. That the packet it takes up has come
directly is where there may be only two nodes (`ForeignIsDirect`).

**The timers.** The heart is `SinceIs`: the difference of two `uint32_t` is the
time that passed, whenever less than one turn of `millis()` did, wherever the
clock wrapped in between. `IInv` says, for each place of the loop, how long ago
the timer ran out at most (`Lag`), so that it is always less than one turn; hence
`TimerIsPunctual` and `BroadcastsAreSpaced`. For the grace period no such bound
exists; `SinceAtMost`, that the difference never exceeds the time that passed,
gives `FakesNeedGrace`. For `SilenceIsBounded`, `Silence` says that a node without a
fix has been silent for less than one round longer than the program takes its
grace period to have run for (`Elapsed`, less than the truth by whole turns of the
clock), and so for less than the grace period and one round. The clock must not
begin another turn during that time (`RemainderGrows`). So the theorem
assumes that a turn of `millis()` has room for the grace period, the period and
three passes of the loop, 15 s and some of 49.7 days in the source. The
assumption is needed: with the other constants of `node_timer`, `Wrap` of 8, 9 or
10 violates the property.

**The book.** `NextPlace` and `ItemPlace` say which place of the ring a remainder
is; `Consistent` relates rear, front and size, and the place behind the rear is
then never one that holds an item. So `EnqueueSlides`: `enqueue` appends, or
drops the oldest and appends. Then `IInv` conjoins the types,
`RingsConsistent`, that page 0 holds own readings only (`OnlyOwn`), and that it
is not empty while the node listens (`OwnFirst`). The last two need each other:
the search passes page 0 by because the reading at its front is there and is an
own one. `OwnPageImplementsWindow` is the refinement of `SlidingWindow`, for any
number of nodes heard. `RecordsAreInStep` says that no reading on page 0 is
missing from both pages of `manifest`; that none is missing from `manifest[0]`, as
the comments have it, is false (`book_manifest`). It rests on how `manifest` and
page 0 go together (`InStep`): each reading on the page lies as many places behind the
writer of `manifest` as it is old (`Behind`), modulo the places there are, and
the page is shorter than those.

`PagesAreNodes` and `NodesHaveOnePage` assume that fewer other nodes are heard
than the search looks at pages, 3 in the source: `book_mixed` shows what comes
else. `Paging` says that the pages in use follow each other (`NoGap`), those
behind page 0 are of others (`ForeignPages`) and no two of one node
(`PagesApart`). If the search ended nowhere, every page it looks at would be of
another node, more pages than there are nodes (`SearchStops`, by the library's
pigeonhole principle); and where it ends is either the node's own page or the
first empty one.

**The Heltec boards.** `PageIsOfLastPacket`: `memcpy` writes the eight
words of a packet and the NUL the ninth, so the seven that the page is
read from are the fields, whatever shorter or longer packets left in memory
(`PageOfPacket`). It holds for every set of `Lengths` and every `Layouts`: a
packet that reaches the vital word leaves the page as it is and ends what the
model follows, and a restart begins with no packet. That both boards listen
again is liveness, and only model-checked.

**The LoRaWAN gateway.** `WaitsForWhatComes` is not inductive: it does not say
that the awaited flag is unmasked before it is raised, nor that RXDONE never comes
without a header. `Fits` adds that, state by state. Each call to the chip yields a
radio that fits, whatever it was doing (`FitsCalls`, `FitsListening`,
`FitsStarted`), and each thing the chip does by itself keeps it fitting; so
`RadioIsWaitedFor`. For `ForwardedInOrder`, `IInv` relates the packets forwarded
to the one in the FIFO and to RXDONE (`FifoIsNew`): each forwarding clears the
flag that asked for it, and `Calm` says that no call raises it.

**Its flash memory.** `Behind` says how far the file may be behind the counter,
around its width (`Ahead`): while the program runs no further than the counter is
past a multiple of `Interval` (`NextRemainder`), and over a restart by no more than
`Margin`; and that a file with the counter 0 means that no more than `Interval`
frames were counted, or that it was emptied. So `CounterGoesOn`, wherever the power
goes off and the counter wraps, for every interval up to the margin and every
width beyond it.
For `RecentLogsStay`, `LogInv` says of every file among the last ones that is
numbered below `FILENO`: all the numbers above its own, up to `FILENO`, have been
written after it (`Covers`). The file that `addLog` removes is `LOGFILEMAX`
numbers back, so as many files would stand before it, more than there is room for
among the last ones (`OldestIsNotRecent`, by the pigeonhole principle). This stays
true when a restart takes the numbers back: they are gone through again before
there is a newer one.

**Only model-checked.** The liveness properties and `Detects`, out of the proof
system's reach: `ListensAgain`, `HeardIsHandled`, `HeardIsPrinted`,
`EventuallyQuiet`, `HeardIsRecorded`, `BothListenAgain`, `BrowserCatchesUp`,
`ServesNetwork`.

## 5. What is not modelled

Voltage, coordinates and time stamps are not computed: a reading is a value of
its own. The serial output, the
LED and the debug timer leave no state behind. In the book, two nodes with one ID
are left out: the other's readings would be those of page 0. A restart of a node
is not modelled: it keeps nothing over it and starts as at `Init`.

Of the LoRaWAN gateway are left out: the text of the web pages, JSON, encryption
and message integrity codes, statistics, display, updates over the air and the
arithmetic of NTP; what is in a message of the server (`LoraDown`) and when it is
to be sent; and a file that cannot be opened. No two packets are on the air at a time.

Two thirds of the lines of the repository are third party libraries archived with
the LoRaWAN gateway (ArduinoJson and its tests, drivers of displays and WiFi
chips, AES, fonts), and much of the rest are earlier copies of the sketches. They
are listed as components and not modelled: the libraries are not this project's
own logic, and the copies would repeat the modules there are.

## 6. Plan

Done: the table, the mesh with its gateways, the timers, the book, the Heltec
boards, the listen window, the baud scan, and of the LoRaWAN gateway the state
machine, the main loop and the flash memory. To come:

1. `LoraDown`: what is transmitted after a message that could not be parsed, and
   the wait for its time stamp.
2. Proofs: that each node's table in the mesh is the table of `NodeHistory`.
