\* A page for each of the two other nodes, as the search looks at three.
CONSTANTS
  curr_ID = me
  Other = {a, b}
  NumofReadings = 3
  IDWidth = 4
  Sent <- MCSent
  MAX_NUM_NODES = 4
  DiscoveredCap = 4
  Blank = blank
  NoPacket = none
SPECIFICATION Spec
INVARIANTS
  TypeOK
  RingsConsistent
  OneNodePerPage
  OnePagePerNode
PROPERTIES
  OwnPageIsWindow
  HeardIsRecorded
