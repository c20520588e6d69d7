SPECIFICATION FairSpec

CONSTANTS
  Attachments = {a1, a2}
  Requests    = {r1, r2}
  Messages    = {m1, m2}
  None        = None
  RetriedPuts = FALSE
  LateClients = FALSE
  MaxFaults   = 1

INVARIANT LinkedObjectsAreStored
INVARIANT StoredObjectsAreKnown
INVARIANT MessagesKeepTheirAttachments
PROPERTY AbandonedUploadsAreRemoved

\* The system stops when every upload is linked or removed.
CHECK_DEADLOCK FALSE
