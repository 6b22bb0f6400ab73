---------------------------- MODULE MeshGateway ----------------------------
(***************************************************************************)
(* Gateways in the mesh: 2gateway.ino on some of the boards.  A gateway    *)
(* polls its radio, prints what it receives and blinks an LED; it sends    *)
(* nothing and keeps nothing.                                              *)
(***************************************************************************)
EXTENDS LoRaMesh, Sequences

CONSTANT Gateway

ASSUME GatewayAssumption ==
  /\ Gateway \subseteq Node
  /\ \A g \in Gateway : MaxBroadcasts[g] = 0

VARIABLE printed  \* printed[g]: what g printed, in this order

gatewayVars == <<vars, printed>>

InitAll == Init /\ printed = [g \in Gateway |-> << >>]

----------------------------------------------------------------------------
(* setup() is that of the nodes: SetupFails, Halted and Setup of LoRaMesh. *)

\* Mutant: the packet is left in the driver's buffer.
GatewayHearsAndLeaves(g) ==
  /\ rxBuf[g] # NoPacket
  /\ pc[g] = "loop"
  /\ available(g)
  /\ UNCHANGED <<pc, nodeVars, printed>>

GatewayHears(g) ==
  /\ rxBuf[g] # NoPacket
  /\ Goto(g, "loop", "recv")
  /\ available(g)
  /\ UNCHANGED <<nodeVars, printed>>

GatewayHearsNothing(g) ==
  /\ pc[g] = "loop"
  /\ rxBuf[g] = NoPacket
  /\ available(g)
  /\ UNCHANGED <<pc, nodeVars, printed>>

\* recv, the printing, and the delay in which the LED is on.
Prints(g) ==
  /\ Goto(g, "recv", "handle")
  /\ recv(g)
  /\ incoming' = [incoming EXCEPT ![g] = rxBuf[g]]
  /\ printed' = [printed EXCEPT ![g] = Append(@, rxBuf[g])]
  /\ UNCHANGED <<due, nodeHistories, sent>>

LedOff(g) ==
  /\ Goto(g, "handle", "loop")
  /\ Handled(g)
  /\ UNCHANGED <<due, nodeHistories, sent, radioVars, printed>>

GatewayStep(g) ==
  \/ (SetupFails(g) \/ Halted(g) \/ Setup(g)) /\ UNCHANGED printed
  \/ GatewayHears(g) \/ GatewayHearsNothing(g) \/ Prints(g) \/ LedOff(g)

NextAll ==
  \/ \E n \in Node \ Gateway : Step(n) /\ UNCHANGED printed
  \/ \E n \in Node : Deliver(n) /\ UNCHANGED printed
  \/ \E g \in Gateway : GatewayStep(g)

SpecAll ==
  /\ InitAll /\ [][NextAll]_gatewayVars
  /\ \A n \in Node \ Gateway : WF_gatewayVars(Step(n) /\ UNCHANGED printed)
  /\ \A n \in Node : WF_gatewayVars(Deliver(n) /\ UNCHANGED printed)
  /\ \A g \in Gateway : WF_gatewayVars(GatewayStep(g))

----------------------------------------------------------------------------

\* Among two nodes a gateway prints what one of them took in the order in
\* which it was taken, and once, as often as it comes from the same sender.
\* (What comes directly may overtake what the other node relays, so the last
\* line that names a node need not be its newest place.)
PrintedInOrder ==
  \A g \in Gateway : \A i, j \in DOMAIN printed[g] :
    /\ i < j
    /\ printed[g][i].nodeID = printed[g][j].nodeID
    /\ printed[g][i].senderID = printed[g][j].senderID
    => printed[g][i].reading[2] < printed[g][j].reading[2]

\* What a gateway receives it prints, or what came on top of it before.
HeardIsPrinted ==
  \A g \in Gateway : rxBuf[g] # NoPacket ~> pc[g] = "handle"
=============================================================================
