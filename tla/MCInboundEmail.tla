--------------------------- MODULE MCInboundEmail ---------------------------
(* Small instances of a ticket with inbound email; only the sizes of the    *)
(* sets bound them.                                                         *)

EXTENDS InboundEmail, TLC

\* Requests, deliveries, members and emails are interchangeable.
TicketSymmetry ==
  Permutations(Requests) \cup Permutations(Webhooks)
  \cup Permutations(Members) \cup Permutations(Emails)

=============================================================================
