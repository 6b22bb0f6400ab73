\* Two of three nodes have the same ID; one of these broadcasts, and the third.
CONSTANTS
  a = a
  b = b
  c = c
  Node = {a, b, c}
  NoPacket = NoPacket
  NodeID = {0, 1, 2}
  Reading <- MCReading
  NoReading = NoReading
  NumSlots = 1
  MaxPositions = 1
  curr_ID <- SharedID
  MaxBroadcasts <- SharedBroadcasts
SPECIFICATION FairSpec
INVARIANTS
  TypeOK
  Genuine
  RelayedIsRecorded
  NoOwnReadings
PROPERTIES
  ListensAgain
  HeardIsHandled
