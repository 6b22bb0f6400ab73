\* A packet of two words, and one of ten, longer than the eight of a node with
\* an RF95 radio.  What must not be written over is right behind rxpacket, or
\* out of reach of all but the longest packet, or of that one, too.
CONSTANTS
  NoPacket = NoPacket
  MaxBroadcasts = 1
  MaxReadings = 3
  Lengths = {2, 10}
  MemoryWords = 11
  Layouts = {8, 10, 12}
SPECIFICATION SpecNet
INVARIANTS
  PageShowsLast
PROPERTIES
  BothListenAgain
  BrowserCatchesUp
