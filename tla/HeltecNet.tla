----------------------------- MODULE HeltecNet -----------------------------
(***************************************************************************)
(* A node and a gateway on Heltec boards within reach of each other, and   *)
(* nodes with an RF95 radio and other users of the band around them.       *)
(***************************************************************************)
EXTENDS HeltecGateway

CONSTANT MaxBroadcasts \* bound on the node's broadcasts

VARIABLES nodePc, due, nodeIdle, nodeVital, broadcasts, nodeMode, nodeHeard

nodeVars ==
  <<nodePc, due, nodeIdle, nodeVital, broadcasts, nodeMode, nodeHeard>>

Node == INSTANCE HeltecNode
          WITH pc <- nodePc, lora_idle <- nodeIdle, vital <- nodeVital,
               sent <- broadcasts, mode <- nodeMode, heard <- nodeHeard

InitNet == Init /\ Node!Init(Layouts)

----------------------------------------------------------------------------

NodeLoop == Node!Loop /\ UNCHANGED vars

NodeRestarts == Node!Restart /\ UNCHANGED vars

\* The node's transmission ends, and arrives at the gateway, or is missed.
NodeTransmits == Node!Transmitted /\ Arrives(Packet("Heltec", sent + 1))

\* A node with an RF95 radio, or another user of the band, sends.
OthersSend ==
  \E packet \in {Packet("RF95", sent + 1)} \union
                {Noise(n) : n \in Lengths} :
    Arrives(packet) /\ Node!Arrives(packet)

GatewayLoop == Loop /\ UNCHANGED nodeVars

GatewayRestarts == Restart /\ UNCHANGED nodeVars

BrowserReloads == Reload /\ UNCHANGED nodeVars

NextNet ==
  \/ NodeLoop \/ NodeRestarts \/ NodeTransmits \/ OthersSend
  \/ GatewayLoop \/ GatewayRestarts \/ BrowserReloads

\* loop() is called again and again on both boards, as long as they are not
\* lost, and the browser keeps its timer.
SpecNet ==
  /\ InitNet /\ [][NextNet]_<<vars, nodeVars>>
  /\ WF_<<vars, nodeVars>>(NodeLoop)
  /\ WF_<<vars, nodeVars>>(GatewayLoop)
  /\ WF_<<vars, nodeVars>>(BrowserReloads)

----------------------------------------------------------------------------

\* Both boards come back to receiving, whatever they send and receive, unless
\* a packet was written over what their program depends on: on each of them
\* OnRxDone sends the radio to sleep, and on the node Send takes it out of
\* receive mode.
BothListenAgain ==
  /\ []<>(mode = "rx" \/ pc = "lost")
  /\ []<>(nodeMode = "rx" \/ nodePc = "lost")
=============================================================================
