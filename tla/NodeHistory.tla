---------------------------- MODULE NodeHistory ----------------------------
(***************************************************************************)
(* One node's table of heard positions over time.                          *)
(***************************************************************************)
EXTENDS PositionTable

VARIABLE nodeHistories

storePosition(newData) ==
  nodeHistories' = StorePosition(nodeHistories, newData)

TableInit == nodeHistories = EmptyTable

TableNext == \E newData \in GPSData : storePosition(newData)

TableSpec == TableInit /\ [][TableNext]_nodeHistories

----------------------------------------------------------------------------

\* The table and every slot of it stay within their declared arrays.
TableTypeOK == nodeHistories \in Table

\* There is no hole among the used slots of the table, whatever the order in
\* which nodes are heard.
UsedSlotsFirst == UsedFirst(nodeHistories)

\* A node never owns two slots: its track is in one place.
OneSlotPerNode == OneSlot(nodeHistories)

\* A slot holds real positions of one node only, although the code compares
\* the first position alone and the shift keeps replacing that position.
OneNodePerSlot == OneNode(nodeHistories)

\* A slot, once a node owns it, is that node's for good and never holds fewer
\* positions: there is no eviction, hence a node heard after all slots are
\* taken is never recorded.
NoEvictionStep ==
  \A i \in Slots :
    Used(nodeHistories, i) =>
      /\ Owner(nodeHistories, i)' = Owner(nodeHistories, i)
      /\ nodeHistories[i].count <= nodeHistories'[i].count

NoEviction == [][NoEvictionStep]_nodeHistories

=============================================================================
