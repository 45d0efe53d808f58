\* Two layers, whose sequence numbers and timestamps wrap.
CONSTANTS
  Layers = {1, 2}
  Numbers = {6, 7, 8}
  Ticks = 16
  Packet <- Packets
  Short = 8
  Long = 64
  Word = 4096
  ChannelSize = 2
  Late = 0
  MaxPackets = 4

SPECIFICATION FairSpec
INVARIANTS
  TypeOK
  RemovedOnce
PROPERTIES
  Renumbers
  RewriterIsUsedWell
  SubscriptionEnds
CHECK_DEADLOCK FALSE
