------------------------------ MODULE MCRealtime ------------------------------
(* One organization with one ticket.                                         *)

EXTENDS RealtimeClient

CONSTANTS Acme, Ticket1

TicketsOfAcme == [t \in {Ticket1} |-> Acme]

===============================================================================
