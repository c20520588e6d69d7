SPECIFICATION Spec
CONSTANTS
  p1 = p1
  Pages = {p1}
  Controls = {"status", "edit"}
  MaxChanges = 2
  MaxMessages = 3
  MaxFaults = 1
CONSTRAINT OneAtATime
INVARIANTS
  PagesCatchUp
  OwnChangesAreShown
  OwnMessagesAreShown
PROPERTY
  RefusalsMeanStalePages
CHECK_DEADLOCK FALSE
