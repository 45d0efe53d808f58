\* Joining, leaving, rejoining, publishing and subscribing.
CONSTANTS
  a = a
  b = b
  p1 = p1
  p2 = p2
  p3 = p3
  o1 = o1
  o2 = o2
  t1 = t1
  s1 = s1
  ParticipantID = {a, b}
  TrackID = {t1}
  StreamID = {s1}
  Peer = {p1, p2, p3}
  Track = {o1, o2}
  NoID = NoID
  NoPeer = NoPeer
  NoTrack = NoTrack
  NoTrackID = NoTrackID
  StreamOf <- OneStream
  TracksOf <- OnlyAPublishes
  Kind = {"LeftTheCall", "NewTrackPublished", "TrackSubscription", "DataChannelAvailable"}
  Requests <- SubscriptionRequests
  Declarations <- NoDeclarations
  PeerQueueCap = 1
  MatrixQueueCap = 0
  MaxInFlight = 1

SPECIFICATION Spec
SYMMETRY Symmetry
INVARIANTS
  CurrentPeersAreOpen
  PublishedTracksAreOwned
  SubscribersAreCurrent
  EndedConferenceIsEmpty
PROPERTIES
  MessagesConcernTheirSender
CHECK_DEADLOCK FALSE
