---------------------------- MODULE ListenWindow ----------------------------
(***************************************************************************)
(* The nodes of Node0_rcvrTry3.0.ino: each sends its place as a line of    *)
(* text whenever the GPS receiver delivers a byte, opens a window of 10 s  *)
(* for listening, and keeps the last 50 lines it received in manifest.     *)
(***************************************************************************)
EXTENDS Naturals, Sequences, RF95

CONSTANTS
  Size,         \* 50
  Interval,     \* listenInterval
  Receivers,    \* the nodes whose GPS receiver is connected
  MaxReadings,  \* bound on the places of a node
  Garbage       \* the digits that may follow the text in memory

ASSUME SizeAssumption == Size \in Nat \ {0}
ASSUME IntervalAssumption == Interval \in Nat \ {0}
ASSUME MaxReadingsAssumption == MaxReadings \in Nat
ASSUME ReceiversAssumption == Receivers \subseteq Node
ASSUME GarbageAssumption == "" \in Garbage

VARIABLES
  pc,         \* pc[n]: where n's program is
  listening,
  elapsed,    \* elapsed[n]: the time since listenStartMillis, up to Interval
  due,        \* due[n]: whether it was Interval at the top of loop()
  bytes,      \* bytes[n]: Serial1.available() > 0
  reading,    \* reading[n]: the place that gps holds
  manifest    \* its first nodeCount entries

timers == <<listening, elapsed, due>>
gps == <<bytes, reading>>
vars == <<pc, timers, gps, manifest, radioVars>>

Message == [node : Node, reading : 0 .. MaxReadings]

\* An entry: the place, and the digits that were read after the last one.
Entry == [message : Message, extra : Garbage]

\* setup() is over; a radio that does not initialise halts the program.
Init ==
  /\ RadioInit
  /\ pc = [n \in Node |-> "top"]
  /\ listening = [n \in Node |-> FALSE]
  /\ elapsed = [n \in Node |-> 0]
  /\ due = [n \in Node |-> FALSE]
  /\ bytes = [n \in Node |-> FALSE]
  /\ reading = [n \in Node |-> 0]
  /\ manifest = [n \in Node |-> << >>]

Goto(n, from, to) == pc[n] = from /\ pc' = [pc EXCEPT ![n] = to]

----------------------------------------------------------------------------
(* The listening window.                                                   *)

\* Time passes.
Tick(n) ==
  /\ elapsed[n] < Interval
  /\ elapsed' = [elapsed EXCEPT ![n] = @ + 1]
  /\ UNCHANGED <<pc, listening, due, gps, manifest, radioVars>>

IntervalOver(n) == elapsed[n] >= Interval

OpenWindow(n) ==
  /\ Goto(n, "top", "window")
  /\ ~ listening[n] /\ IntervalOver(n)
  /\ listening' = [listening EXCEPT ![n] = TRUE]
  /\ elapsed' = [elapsed EXCEPT ![n] = 0]
  /\ due' = [due EXCEPT ![n] = FALSE]
  /\ UNCHANGED <<gps, manifest, radioVars>>

WindowOpen(n) ==
  /\ Goto(n, "top", "window")
  /\ listening[n]
  /\ due' = [due EXCEPT ![n] = IntervalOver(n)]
  /\ UNCHANGED <<listening, elapsed, gps, manifest, radioVars>>

WindowShut(n) ==
  /\ Goto(n, "top", "gps")
  /\ ~ listening[n] /\ ~ IntervalOver(n)
  /\ due' = [due EXCEPT ![n] = FALSE]
  /\ UNCHANGED <<listening, elapsed, gps, manifest, radioVars>>

\* listenStartMillis stays: the window opens again in the next turn.
CloseWindow(n) ==
  /\ Goto(n, "close", "gps")
  /\ listening' = [listening EXCEPT ![n] = ~ due[n]]
  /\ UNCHANGED <<elapsed, due, gps, manifest, radioVars>>

----------------------------------------------------------------------------
(* listenForNodes, called in the window and at the end of loop().          *)

\* Mutant: the shift leaves the first entry where it is.
AddedShort(entries, entry) ==
  IF Len(entries) < Size THEN Append(entries, entry)
  ELSE [i \in 1 .. Size |->
          IF i = Size THEN entry
          ELSE IF i = 1 THEN entries[1] ELSE entries[i + 1]]

\* addToManifest
Added(entries, entry) ==
  IF Len(entries) < Size THEN Append(entries, entry)
  ELSE [i \in 1 .. Size |-> IF i = Size THEN entry ELSE entries[i + 1]]

\* The text is sent without a terminator into a buffer that is not cleared:
\* sscanf goes on reading what digits follow.
Entries(message) == [message : {message}, extra : Garbage]

NothingHeard(n, from, to) ==
  /\ Goto(n, from, to)
  /\ rxBuf[n] = NoPacket
  /\ available(n)
  /\ UNCHANGED <<timers, gps, manifest>>

Hears(n, from, to) ==
  /\ Goto(n, from, to)
  /\ recv(n)
  /\ \E entry \in Entries(rxBuf[n]) :
       manifest' = [manifest EXCEPT ![n] = Added(@, entry)]
  /\ UNCHANGED <<timers, gps>>

listenForNodes(n) ==
  \/ NothingHeard(n, "window", "close") \/ Hears(n, "window", "close")
  \/ NothingHeard(n, "end", "top") \/ Hears(n, "end", "top")

----------------------------------------------------------------------------
(* while (Serial1.available() > 0)                                         *)

Own(n) == [node |-> n, reading |-> reading[n]]

\* A byte is read, and sendLocation called, whether it ends a sentence or not.
ReadAndSend(n) ==
  /\ bytes[n]
  /\ Goto(n, "gps", "sending")
  /\ bytes' = [bytes EXCEPT ![n] = FALSE]
  /\ send(n, Own(n))
  /\ UNCHANGED <<timers, reading, manifest>>

NoByte(n) ==
  /\ ~ bytes[n]
  /\ Goto(n, "gps", "end")
  /\ UNCHANGED <<timers, gps, manifest, radioVars>>

LocationSent(n) ==
  /\ packetSent(n)
  /\ Goto(n, "sending", "gps")
  /\ UNCHANGED <<timers, gps, manifest, radioVars>>

\* The receiver's next byte.  It may end a sentence.
ByteArrives(n) ==
  /\ n \in Receivers
  /\ ~ bytes[n]
  /\ bytes' = [bytes EXCEPT ![n] = TRUE]
  /\ \/ UNCHANGED reading
     \/ reading[n] < MaxReadings /\ reading' = [reading EXCEPT ![n] = @ + 1]
  /\ UNCHANGED <<pc, timers, manifest, radioVars>>

----------------------------------------------------------------------------

Step(n) ==
  \/ OpenWindow(n) \/ WindowOpen(n) \/ WindowShut(n) \/ CloseWindow(n)
  \/ listenForNodes(n)
  \/ ReadAndSend(n) \/ NoByte(n) \/ LocationSent(n)

Deliver(n) == TxDone(n) /\ UNCHANGED <<pc, timers, gps, manifest>>

Next == \E n \in Node : Step(n) \/ Deliver(n) \/ Tick(n) \/ ByteArrives(n)

\* loop() goes on, transmissions end, time passes, and the receiver sends.
Spec ==
  /\ Init /\ [][Next]_vars
  /\ \A n \in Node : /\ WF_vars(Step(n)) /\ WF_vars(Deliver(n))
                     /\ WF_vars(Tick(n)) /\ WF_vars(ByteArrives(n))

----------------------------------------------------------------------------

TypeOK ==
  /\ RadioType(Message)
  /\ pc \in [Node -> {"top", "window", "close", "gps", "sending", "end"}]
  /\ {listening, due, bytes} \subseteq [Node -> BOOLEAN]
  /\ elapsed \in [Node -> 0 .. Interval]
  /\ reading \in [Node -> 0 .. MaxReadings]
  /\ \A n \in Node : Len(manifest[n]) <= Size
                     /\ \A i \in DOMAIN manifest[n] : manifest[n][i] \in Entry

\* Of every node's manifest: it is the sliding window of the lines the node
\* decoded, through all the recv calls in and out of the listening window.
Window(n) == INSTANCE SlidingWindow WITH Item <- Entry, window <- manifest[n]

WindowSteps ==
  [][\A n \in Node : [Window(n)!Next]_(manifest[n])]_manifest

ManifestIsWindow == (\A n \in Node : Window(n)!Init) /\ WindowSteps
=============================================================================
