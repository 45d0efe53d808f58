\* Channels of one and two elements behave alike; two give more interleavings.
CONSTANTS
  ChannelSize = 2
  StatusSize = 2

SPECIFICATION FairSpec
INVARIANTS
  TypeOK
  ReportsAlternate
PROPERTIES
  SilenceIsReported
  RecoveryIsReported
  StoppedWorkerReturns
CHECK_DEADLOCK FALSE
