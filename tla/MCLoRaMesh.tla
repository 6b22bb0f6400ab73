----------------------------- MODULE MCLoRaMesh -----------------------------
(* Instances of the mesh: which nodes there are, their IDs and how often   *)
(* each of them broadcasts.  The IDs start at 0, the nodeID of an empty    *)
(* slot: the 16 low bits of a serial number may all be zero.               *)
EXTENDS LoRaMesh, TLC

CONSTANTS a, b, c

MCReading == Node \X (1 .. 3)

\* Three nodes, the serial numbers of two of which end in the same 16 bits.
SharedID == (a :> 1) @@ (b :> 1) @@ (c :> 2)
SharedBroadcasts == (a :> 1) @@ (b :> 0) @@ (c :> 1)
=============================================================================
