\* A message whose id is lost (push error after acceptance, or a failed
\* updateSector) lets the workflow resubmit a sector already sent.
CONSTANTS
  Sectors <- MCSectors
  TicketEpoch <- MCTicketEpoch
  MaxWaitSecs = 45
  EpochDurationSeconds = 30
  MaxHead = 3
  Thresholds = {2, 3}
  InitThreshold = 2
  InitEnabled = TRUE
  IdsLost = TRUE
INIT DeliveryInit
NEXT DeliveryNext
INVARIANTS
  NoResend
