SPECIFICATION Spec

CONSTANTS
  Deliveries    = {1}
  Slots         = {s1, s2}
  NoSlot        = NoSlot
  MaxAttempts   = 2
  RecoveryBatch = 1
  Events        = {"sent", "delivery_delayed", "delivered"}
  SlowAttempts  = FALSE
  MaxFaults     = 2

SYMMETRY SlotSymmetry

INVARIANT TypeOK
INVARIANT SingleSender
INVARIANT ProviderStatusIsLinked
INVARIANT WebhooksAreNotUndone
PROPERTY ImplementsLifecycle

\* The system stops when every delivery is decided.
CHECK_DEADLOCK FALSE
