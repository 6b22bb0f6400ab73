------------------------- MODULE NodeHistoryWindow -------------------------
(***************************************************************************)
(* The track that nodeHistories keeps of one node, seen as the sliding     *)
(* window it implements.                                                   *)
(***************************************************************************)
EXTENDS NodeHistory, Sequences

CONSTANT Watched \* the node whose track is looked at

ASSUME WatchedAssumption == Watched \in NodeID

SlotsOf(id) ==
  {i \in Slots : Used(nodeHistories, i) /\ Owner(nodeHistories, i) = id}

\* The positions of a slot, oldest first.
Track(i) == [k \in 1 .. nodeHistories[i].count |->
               nodeHistories[i].positions[k - 1]]

TrackOf(id) ==
  IF SlotsOf(id) = {} THEN << >> ELSE Track(CHOOSE i \in SlotsOf(id) : TRUE)

TrackWindow == INSTANCE SlidingWindow WITH
                  Item   <- {d \in GPSData : d.nodeID = Watched},
                  Size   <- MaxPositions,
                  window <- TrackOf(Watched)

\* What storePosition keeps of a node is the window of the readings of that
\* node, in the order of arrival: no other node's reading ever enters it, and
\* the shift drops the oldest one only.
TrackIsWindow == TrackWindow!Spec

=============================================================================
