\* Two nodes, one broadcasts twice and the other once, and the gateway.
CONSTANTS
  a = a
  b = b
  g = g
  Node = {a, b, g}
  Gateway = {g}
  NoPacket = NoPacket
  NodeID = {0, 1, 2}
  Reading <- MCReading
  NoReading = NoReading
  NumSlots = 1
  MaxPositions = 2
  curr_ID <- MCID
  MaxBroadcasts <- Unequal
SPECIFICATION SpecAll
INVARIANTS
  TrackInOrder
  PrintedInOrder
  NotFromItself
PROPERTIES
  HeardIsPrinted
  EventuallyQuiet
