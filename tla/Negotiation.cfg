\* Requests and offers of a client cross with offers of its peer.
CONSTANTS
  t1 = t1
  t2 = t2
  Track = {t1, t2}
  Polite = TRUE
  PeerQueueCap = 1
  MaxRequests = 3
  MaxOffers = 2

SPECIFICATION FairSpec
INVARIANTS
  TypeOK
  StableSidesAgree
PROPERTIES
  SubscriptionsAreNegotiated
CHECK_DEADLOCK FALSE
