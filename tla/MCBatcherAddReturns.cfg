CONSTANTS
  Sectors <- MCSectors
  TicketEpoch <- MCTicketEpoch
  MaxWaitSecs = 45
  EpochDurationSeconds = 30
  MaxHead = 3
  Thresholds = {2, 3}
  InitThreshold = 2
  InitEnabled = TRUE
SPECIFICATION Spec
PROPERTIES
  AddReturns
