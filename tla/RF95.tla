-------------------------------- MODULE RF95 --------------------------------
(***************************************************************************)
(* The RH_RF95 radio driver of RadioHead as the sketches use it: one radio *)
(* per node and the air between them.  The driver is a library; what is    *)
(* modelled is the contract the sketches call: send starts a transmission  *)
(* and returns, waitPacketSent returns once it ended, available puts the   *)
(* radio into receive mode and tells whether a packet is buffered, recv    *)
(* takes it out.  There is one receive buffer; an interrupt fills it and   *)
(* sends the radio to idle, deaf until available is called again.          *)
(*                                                                         *)
(* A transmission that ends is received by any set of the radios that are  *)
(* in receive mode at that moment: the others are out of range, hit by     *)
(* another transmission, or tuned in too late.                             *)
(***************************************************************************)
CONSTANTS
  Node,     \* one radio each
  NoPacket  \* an empty buffer

VARIABLES
  mode,  \* mode[n]: what the radio does
  fifo,  \* fifo[n]: the packet it is transmitting
  rxBuf  \* rxBuf[n]: the packet it received last, until recv takes it

radioVars == <<mode, fifo, rxBuf>>

Mode == {"idle", "rx", "tx"}

RadioType(Packet) ==
  /\ mode \in [Node -> Mode]
  /\ fifo \in [Node -> Packet \union {NoPacket}]
  /\ rxBuf \in [Node -> Packet \union {NoPacket}]

RadioInit ==
  /\ mode = [n \in Node |-> "idle"]
  /\ fifo = [n \in Node |-> NoPacket]
  /\ rxBuf = [n \in Node |-> NoPacket]

packetSent(n) == mode[n] # "tx"

\* A packet that is still in the receive buffer stays there.
send(n, packet) ==
  /\ packetSent(n)
  /\ mode' = [mode EXCEPT ![n] = "tx"]
  /\ fifo' = [fifo EXCEPT ![n] = packet]
  /\ UNCHANGED rxBuf

\* The answer of available is rxBuf[n] # NoPacket.
available(n) ==
  /\ packetSent(n)
  /\ mode' = [mode EXCEPT ![n] = "rx"]
  /\ UNCHANGED <<fifo, rxBuf>>

recv(n) ==
  /\ packetSent(n)
  /\ rxBuf[n] # NoPacket
  /\ mode' = [mode EXCEPT ![n] = "rx"]
  /\ rxBuf' = [rxBuf EXCEPT ![n] = NoPacket]
  /\ UNCHANGED fifo

Listening == {m \in Node : mode[m] = "rx"}

\* The transmission of n ends, both interrupts in one step: TxDone at n and
\* RxDone at those who received it.  A packet not yet taken is overwritten.
TxDone(n) ==
  /\ mode[n] = "tx"
  /\ \E heard \in SUBSET Listening :
       /\ mode' = [m \in Node |-> IF m = n \/ m \in heard THEN "idle"
                                                           ELSE mode[m]]
       /\ rxBuf' = [m \in Node |-> IF m \in heard THEN fifo[n] ELSE rxBuf[m]]
  /\ fifo' = [fifo EXCEPT ![n] = NoPacket]
=============================================================================
