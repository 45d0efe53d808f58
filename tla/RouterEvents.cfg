\* All kinds of events; conferences may fail to start.
CONSTANTS
  c1 = c1
  c2 = c2
  c3 = c3
  x = x
  y = y
  ConfID = {x, y}
  EmptyID = "empty"
  Stage = {c1, c2, c3}
  Event <- AllEvents
  NoStage = NoStage
  NoEvent = NoEvent

SPECIFICATION FairSpec
INVARIANTS
  TypeOK
  RunningConferencesAreRegistered
PROPERTIES
  InvitesAreNotLost
  EventsAreHandled
CHECK_DEADLOCK FALSE
