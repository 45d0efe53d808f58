------------------------- MODULE MCVideoSubscription -------------------------
(* Small instances of VideoSubscription for TLC.                           *)
EXTENDS VideoSubscription

CONSTANTS
  Layers,        \* the SSRCs of the layers
  Numbers,       \* true sequence numbers of their packets
  Ticks          \* the time between two frames

\* A frame has two packets.
Packets ==
  {[ssrc |-> l, ids |-> Identifiers(Ticks * (n \div 2), n)] :
     l \in Layers, n \in Numbers}

ASSUME PacketsAssumption == FramesInOrder

=============================================================================
