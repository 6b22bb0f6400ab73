\* One page too few for the three other nodes.
CONSTANTS
  curr_ID = me
  Other = {a, b, c}
  NumofReadings = 3
  IDWidth = 4
  Sent <- MCSent
  MAX_NUM_NODES = 4
  DiscoveredCap = 4
  Blank = blank
  NoPacket = none
SPECIFICATION Spec
INVARIANT
  OneNodePerPage
