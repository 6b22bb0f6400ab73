---------------------------- MODULE HeltecRadio ----------------------------
(***************************************************************************)
(* The radio library of the Heltec boards (LoRaWan_APP.h) as the sketches  *)
(* use it: Send starts a transmission and returns, Rx starts receiving and *)
(* cuts off a transmission that is still going on, Sleep switches the      *)
(* radio off, and IrqProcess calls OnRxDone for the packet that an         *)
(* interrupt announced.  Nothing waits for the end of a transmission.      *)
(***************************************************************************)
CONSTANT NoPacket

VARIABLES
  mode,  \* what the radio does
  heard  \* the packet that the next IrqProcess passes on

radioVars == <<mode, heard>>

RadioType(Packet) ==
  /\ mode \in {"standby", "rx", "tx", "sleep"}
  /\ heard \in Packet \union {NoPacket}

Init_Radio == mode = "standby" /\ heard = NoPacket

Send == mode' = "tx" /\ UNCHANGED heard

Rx == mode' = "rx" /\ UNCHANGED heard

\* A packet comes in.  The receiver goes on receiving: a packet that was not
\* passed on yet is overwritten.
Hear(packet) ==
  /\ mode = "rx"
  /\ heard' = packet
  /\ UNCHANGED mode

\* Radio.Sleep(), called by OnRxDone, which IrqProcess called.
PassOn ==
  /\ heard # NoPacket
  /\ heard' = NoPacket
  /\ mode' = "sleep"

NothingToPassOn == heard = NoPacket /\ UNCHANGED radioVars
=============================================================================
