\* Of the table: three nodes and two slots, so that the table fills up; two
\* positions per slot, so that they shift.
\* Of the window: two nodes, one of them without a GPS receiver; manifests of
\* two entries.
\* Of the scan: the eleven rates of baud_table, three of them below the initial
\* one, and a receiver that reports once a second.
CONSTANTS
  NodeID <- MCNodeID
  Reading = {r1, r2}
  NoReading = none
  NumSlots = 2
  MaxPositions = 2
  Watched = 2
  Node = {a, b}
  NoPacket = NoPacket
  Receivers = {a}
  Size = 2
  Interval = 1
  MaxReadings = 2
  Garbage = {"", "9"}
  num_bauds = 11
  INITIAL_BAUD_INDEX = 3
  Period = 2
  Burst = 1
  Wait = 2
  Long = 6
  Delay = 4
  Wrap = 256
  MAX_SAMPLE = 2
  Enough = 3
  Silent = Silent
SPECIFICATION SketchesSpec
INVARIANTS
  TableTypeOK
  OneSlotPerNode
  OneNodePerSlot
PROPERTIES
  NoEviction
  TrackIsWindow
  ManifestIsWindow
  Detects
