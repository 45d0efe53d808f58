\* Two layers, which are published again and again.
CONSTANTS
  p1 = p1
  p2 = p2
  s1 = s1
  s2 = s2
  x = x
  y = y
  Kinds = {"video"}
  Layer = {"Low", "High"}
  Subscriber = {x}
  Publisher = {p1, p2}
  Subscription = {s1}
  NoPublisher = NoPublisher
  NoSubscription = NoSubscription
  NoSubscriber = NoSubscriber
  FullSize = 4
  Sizes = {4}
  StatusCap = 1

SPECIFICATION FairSpec
INVARIANTS
  FedByItsLayer
  PublishersAreRegistered
PROPERTIES
  TrackEndsWithItsReaders
CHECK_DEADLOCK FALSE
