CONSTANTS
  Sectors <- MCSectors
  Deposit <- MCDeposit
SPECIFICATION Spec
\* One Process call returns or fails; nothing follows it.
CHECK_DEADLOCK FALSE
INVARIANT
  BatchNonEmpty
