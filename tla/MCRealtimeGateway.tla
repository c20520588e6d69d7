--------------------------- MODULE MCRealtimeGateway ---------------------------
(* Two organizations with a ticket each, and clients that send any command.  *)

EXTENDS RealtimeGateway

CONSTANTS Acme, Bolt, Ticket1, Ticket2

OneTicketEach == [t \in {Ticket1, Ticket2} |-> IF t = Ticket1 THEN Acme ELSE Bolt]

===============================================================================
