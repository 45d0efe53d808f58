\* A track without layers and two subscribers.
CONSTANTS
  p1 = p1
  p2 = p2
  s1 = s1
  s2 = s2
  x = x
  y = y
  Kinds = {"video", "audio"}
  Layer = {"None"}
  Subscriber = {x, y}
  Publisher = {p1, p2}
  Subscription = {s1, s2}
  NoPublisher = NoPublisher
  NoSubscription = NoSubscription
  NoSubscriber = NoSubscriber
  FullSize = 0
  Sizes = {4}
  StatusCap = 2

SPECIFICATION Spec
SYMMETRY Symmetry
INVARIANTS
  TypeOK
  EndedSubscriptionsAreGone
CHECK_DEADLOCK FALSE
