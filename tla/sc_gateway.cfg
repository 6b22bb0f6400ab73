\* Two packets on the air and a message of the server; two spreading factors.
CONSTANTS
  SF7 = 7
  SF12 = 8
  MaxPackets = 2
  MaxMessages = 1
SPECIFICATION Spec
INVARIANTS
  WaitsForWhatComes
  UplinksInOrder
PROPERTIES
  ListensAgain
  ServesNetwork
