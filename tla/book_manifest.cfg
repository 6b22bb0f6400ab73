\* Four readings of this node go once around manifest.
CONSTANTS
  curr_ID = me
  Other = {a}
  NumofReadings = 3
  IDWidth = 4
  Sent <- MCSent
  MAX_NUM_NODES = 4
  DiscoveredCap = 4
  Blank = blank
  NoPacket = none
SPECIFICATION Spec
INVARIANT
  ManifestHoldsOwnPage
