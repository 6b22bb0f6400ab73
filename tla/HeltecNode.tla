---------------------------- MODULE HeltecNode ----------------------------
(***************************************************************************)
(* The node on a Heltec board, 1LoRaNode_heltecESP32.ino: the broadcast of *)
(* the mesh node over a radio whose Send returns at once.  Nothing waits   *)
(* for the end of the transmission: the Radio.Rx(0) of the same turn of    *)
(* loop() cuts it off unless it ended during the delay that blinks the     *)
(* LED.  How long it takes is left open, as the call of SetTxConfig is     *)
(* commented out.  What is received is copied to rxpacket, whatever its    *)
(* length, and never read again.                                           *)
(***************************************************************************)
EXTENDS Naturals, Sequences, HeltecRadio

CONSTANT MaxBroadcasts \* bound on the broadcasts

VARIABLES
  pc,         \* where loop() is; "lost" when its data was written over
  due,        \* 5 s have passed since lastBroadcast
  lora_idle,
  vital,      \* the first word, counted from rxpacket, of other data that the
              \* program depends on
  sent        \* broadcasts handed to the radio

vars == <<pc, due, lora_idle, vital, sent, radioVars>>

\* setup() is over.
Init(layouts) ==
  /\ Init_Radio
  /\ pc = "loop"
  /\ due = FALSE
  /\ lora_idle = TRUE
  /\ vital \in layouts
  /\ sent = 0

Goto(from, to) == pc = from /\ pc' = to

\* The end of an iteration: the 5 s may have run out by the next test.
EndLoop(from) ==
  /\ Goto(from, "loop")
  /\ \/ due' = FALSE
     \/ sent < MaxBroadcasts /\ due' = TRUE

----------------------------------------------------------------------------
(* The broadcast.                                                          *)

NotDue ==
  /\ ~ due
  /\ Goto("loop", "listen")
  /\ UNCHANGED <<due, lora_idle, vital, sent, radioVars>>

\* Within 10 s without a fix: the early return.
SkipBroadcast ==
  /\ due
  /\ pc = "loop"
  /\ due' = FALSE
  /\ UNCHANGED <<pc, lora_idle, vital, sent, radioVars>>

Broadcast ==
  /\ due
  /\ Goto("loop", "blink")
  /\ due' = FALSE
  /\ Send
  /\ sent' = sent + 1
  /\ UNCHANGED <<lora_idle, vital>>

\* delay(100) is over.
Blinked ==
  /\ Goto("blink", "listen")
  /\ UNCHANGED <<due, lora_idle, vital, sent, radioVars>>

\* The transmission is over, before the receiver is started.
Transmitted ==
  /\ mode = "tx"
  /\ mode' = "standby"
  /\ UNCHANGED <<pc, due, lora_idle, vital, sent, heard>>

----------------------------------------------------------------------------
(* Radio.Rx(0); Radio.IrqProcess();                                        *)

\* lora_idle is true from the start and is never cleared.
Listen ==
  /\ lora_idle
  /\ Goto("listen", "irq")
  /\ Rx
  /\ UNCHANGED <<due, lora_idle, vital, sent>>

NoInterrupt ==
  /\ EndLoop("irq")
  /\ NothingToPassOn
  /\ UNCHANGED <<lora_idle, vital, sent>>

\* memcpy(rxpacket, payload, size) and the NUL behind it.
Reaches(packet) == packet # NoPacket /\ Len(packet) + 1 >= vital

OnRxDone ==
  /\ ~ Reaches(heard)
  /\ EndLoop("irq")
  /\ PassOn
  /\ lora_idle' = TRUE
  /\ UNCHANGED <<vital, sent>>

\* The packet is written over what the program depends on.
OnRxDoneOverruns ==
  /\ Reaches(heard)
  /\ Goto("irq", "lost")
  /\ PassOn
  /\ UNCHANGED <<due, lora_idle, vital, sent>>

Loop ==
  \/ NotDue \/ SkipBroadcast \/ Broadcast \/ Blinked
  \/ Listen \/ NoInterrupt \/ OnRxDone \/ OnRxDoneOverruns

\* The processor may notice, and start the program again.
Restart ==
  /\ Goto("lost", "loop")
  /\ due' = FALSE
  /\ lora_idle' = TRUE
  /\ mode' = "standby" /\ heard' = NoPacket
  /\ UNCHANGED <<vital, sent>>

\* Another node's packet is received, or is missed.
Arrives(packet) ==
  /\ Hear(packet) \/ UNCHANGED radioVars
  /\ UNCHANGED <<pc, due, lora_idle, vital, sent>>

----------------------------------------------------------------------------

TypeOK(Packets) ==
  /\ RadioType(Packets)
  /\ pc \in {"loop", "blink", "listen", "irq", "lost"}
  /\ {due, lora_idle} \subseteq BOOLEAN
  /\ vital \in Nat
  /\ sent \in 0 .. MaxBroadcasts
=============================================================================
