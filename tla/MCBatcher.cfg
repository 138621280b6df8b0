CONSTANTS
  Sectors <- MCSectors
  TicketEpoch <- MCTicketEpoch
  MaxWaitSecs = 45
  EpochDurationSeconds = 30
  MaxHead = 3
  Thresholds = {1, 2}
  InitThreshold = 2
  InitEnabled = TRUE
SPECIFICATION Spec
INVARIANTS
  TypeOK
  ExclusiveOwnership
  DispatchWithinThreshold
PROPERTIES
  PendingEventuallyDispatched
  ShutdownCompletes
  QueueSpec
