CONSTANTS
  Sectors <- MCSectors
  Collateral <- MCCollateral
  MinAggregatedSectors = 4
SPECIFICATION Spec
\* One Process call returns, fails or panics; nothing follows it.
CHECK_DEADLOCK FALSE
INVARIANTS
  TypeOK
  AggregateAligned
  StampedIffCarried
