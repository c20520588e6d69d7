SPECIFICATION ListsSpec
CONSTANTS
  t1 = t1
  t2 = t2
  open = open
  closed = closed
  InitialInbox <- ListsInbox
  Statuses = {open, closed}
  All = all
  PageSize = 1
  Addresses <- ListsAddresses
  MaxChanges = 1
  MaxFaults = 1
INVARIANTS
  ShownListCatchesUp
  EmptyPagesNeedAChange
