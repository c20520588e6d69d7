----------------------------- MODULE MCTicketPage -----------------------------
(* One page of a ticket, and other clients of the service that change it.   *)

EXTENDS TicketPage

CONSTANT p1

\* Controls and composer share nothing but the queries.  A behaviour uses the
\* controls, while others change the ticket twice, or there are messages, and
\* others change it once.
OneAtATime ==
  \/ messages = {} /\ \A p \in Pages : composer[p].step = "empty"
  \/ row.version < 2 /\ \A p \in Pages : control[p] = [status |-> Idle, edit |-> Idle]

===============================================================================
