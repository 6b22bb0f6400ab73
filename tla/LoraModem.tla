----------------------------- MODULE LoraModem -----------------------------
(***************************************************************************)
(* _loraModem.ino of the single channel gateway: the SX127x radio as the   *)
(* program drives it.  Frequency, spreading factor and power decide only   *)
(* whether a packet on the air is received, and that is left open, as a    *)
(* packet may also be too weak.                                            *)
(*                                                                         *)
(* The operators map the state of the chip before a call to that after it. *)
(***************************************************************************)
EXTENDS Naturals

Modes == {"SLEEP", "STDBY", "CAD", "RX", "RX_SINGLE", "TX"}

\* The bits of REG_IRQ_FLAGS.
CadFlags == {"CDDONE", "CDDETD"}
RxFlags == {"RXDONE", "RXTOUT", "HEADER", "CRCERR"}
Flags == CadFlags \cup RxFlags \cup {"TXDONE"}

\* Those that raise DIO0 or DIO1, and with it _event.
DioFlags == Flags \ {"HEADER", "CRCERR"}

\* "empty": without payload; "damaged": with a wrong checksum.
Packet == [id : Nat, content : {"data", "empty", "damaged", "none"}]
Nothing == [id |-> 0, content |-> "none"]

Radio ==
  [mode : Modes,
   flags : SUBSET Flags,
   open : SUBSET Flags,   \* not masked in REG_IRQ_FLAGS_MASK
   locked : BOOLEAN,      \* receiving what is on the air
   fifo : Packet]         \* what was received last

\* The mode is set, and with it what was being received is given up.
opmode(mode, flags, open, r) ==
  [mode |-> mode, flags |-> flags, open |-> open, locked |-> FALSE, fifo |-> r.fifo]

\* The mask is reset and the flags are cleared, in this order.
clear(r) ==
  [mode |-> r.mode, flags |-> {}, open |-> Flags, locked |-> r.locked, fifo |-> r.fifo]

\* The interrupts that stateMachine() reacts to.
intr(r) == r.flags \cap r.open

----------------------------------------------------------------------------

initLoraModem(r) == opmode("SLEEP", {}, Flags, r)

\* Standby, the next frequency, all flags cleared.
hop(r) == opmode("STDBY", {}, Flags, r)

\* The flags are left as they are.
cadScanner(r) == opmode("CAD", r.flags, CadFlags \cup {"CRCERR", "HEADER"}, r)

rxLoraModem(cad, r) == opmode(IF cad THEN "RX_SINGLE" ELSE "RX", {}, RxFlags, r)

\* With the FIFO filled and the wait for the time stamp over.
txLoraModem(r) == opmode("TX", {}, Flags, r)

\* What startReceiver() leaves the radio doing.
startReceiver(cad, r) ==
  clear(IF cad THEN cadScanner(initLoraModem(r)) ELSE rxLoraModem(cad, initLoraModem(r)))

\* What is in the FIFO, if the flags say that it is worth something.
receivePkt(r) ==
  IF "CRCERR" \notin r.flags /\ "HEADER" \in r.flags THEN r.fifo ELSE Nothing

----------------------------------------------------------------------------
(* The chip by itself.                                                     *)

Raise(mode, new, r) ==
  [mode |-> mode, flags |-> r.flags \cup new, open |-> r.open, locked |-> FALSE, fifo |-> r.fifo]

\* A channel activity detection ends.
Detection(detected, r) ==
  Raise("STDBY", IF detected THEN CadFlags ELSE {"CDDONE"}, r)

Receiving(r) == r.mode \in {"RX", "RX_SINGLE"}

\* Its header tells the receiver that a packet is coming.
Header(r) == [Raise(r.mode, {"HEADER"}, r) EXCEPT !.locked = TRUE]

\* The packet has been received.
Received(packet, r) ==
  [Raise(IF r.mode = "RX" THEN "RX" ELSE "STDBY",
         IF packet.content = "damaged" THEN {"RXDONE", "CRCERR"} ELSE {"RXDONE"}, r) EXCEPT !.fifo = packet]

\* RX_SINGLE gives up waiting for a packet.
NoPreamble(r) == Raise("STDBY", {"RXTOUT"}, r)

Transmitted(r) == Raise("STDBY", {"TXDONE"}, r)
=============================================================================
