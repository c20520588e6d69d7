SPECIFICATION ClientSpec
CONSTANTS
  Acme = Acme
  Ticket1 = Ticket1
  Sockets = {1, 2}
  Organizations = {Acme}
  Tickets = {Ticket1}
  TicketOrg <- TicketsOfAcme
  Calls = {1, 2, 3, 4}
  None = None
  Organization = Acme
  Ticket = Ticket1
  Messages = {}
  Deliveries = {d1}
  MaxMoves = 2
INVARIANTS
  NoRoomsLeftBehind
  RoomsOfThePage
  RecoveredPagesAreFresh
PROPERTY
  ImplementsRoomAccess
\* The system stops when connections and navigations are used up.
CHECK_DEADLOCK FALSE
