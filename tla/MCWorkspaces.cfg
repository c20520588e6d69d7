SPECIFICATION Spec
CONSTANTS
  Ann = Ann
  Bob = Bob
  Cid = Cid
  Acme = Acme
  Bolt = Bolt
  None = None
  Home = Home
  Accounts = {Ann, Bob, Cid}
  Tabs = {t1, t2}
  Given <- OneEach
  Invited <- Invitations
  New = {Core}
  MaxMoves = 4
  MaxFaults = 1
SYMMETRY TabSymmetry
CONSTRAINT OneTabOrTwo
INVARIANTS
  NobodyIsSentAstray
  RememberedIsShown
  ShownIsListed
  FailedVisitsCanBeRepeated
\* The system stops when the moves are used up.
CHECK_DEADLOCK FALSE
