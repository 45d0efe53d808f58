\* Two sessions of a participant; the conference ends without it.
CONSTANTS
  s1 = s1
  s2 = s2
  Session = {s1, s2}
  NoSession = NoSession
  PeerQueueCap = 1

SPECIFICATION FairSpec
INVARIANTS
  TypeOK
  PongsFindTheirChannelOpen
PROPERTIES
  HeartbeatsEnd
  SilentParticipantsLeave
CHECK_DEADLOCK FALSE
