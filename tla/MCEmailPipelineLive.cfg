SPECIFICATION FairSpec

CONSTANTS
  Deliveries    = {1, 2}
  Slots         = {s1}
  NoSlot        = NoSlot
  MaxAttempts   = 2
  RecoveryBatch = 1
  Events        = {}
  SlowAttempts  = TRUE
  MaxFaults     = 1

PROPERTY EveryReplyIsDecided

\* The system stops when every delivery is decided.
CHECK_DEADLOCK FALSE
