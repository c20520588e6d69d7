--------------------------- MODULE DeliveryStatus ---------------------------
(***************************************************************************)
(* The status column of an EmailDelivery row, and what each Resend webhook *)
(* event may do to it.                                                     *)
(***************************************************************************)

EXTENDS Naturals

Statuses == {"PENDING", "SENDING", "SENT", "DELAYED", "DELIVERED",
             "BOUNCED", "COMPLAINED", "SUPPRESSED", "FAILED"}

\* A delivery that the worker still has to send.
Undecided == {"PENDING", "SENDING"}

\* A job for a delivery in one of these statuses is skipped by the worker.
\* DELAYED is not among them.
TerminalStatuses == {"SENT", "DELIVERED", "BOUNCED", "COMPLAINED",
                     "SUPPRESSED", "FAILED"}

\* The outbound events the webhook controller passes on, without "email.".
EventTypes == {"sent", "delivery_delayed", "delivered", "bounced",
               "complained", "suppressed", "failed"}

\* Mutant of EventStatus: a delay is stored under the name of its event.
EventStatusByName ==
  [sent             |-> "SENT",
   delivery_delayed |-> "DELIVERY_DELAYED",
   delivered        |-> "DELIVERED",
   bounced          |-> "BOUNCED",
   complained       |-> "COMPLAINED",
   suppressed       |-> "SUPPRESSED",
   failed           |-> "FAILED"]

\* The status an event asks for ...
EventStatus ==
  [sent             |-> "SENT",
   delivery_delayed |-> "DELAYED",
   delivered        |-> "DELIVERED",
   bounced          |-> "BOUNCED",
   complained       |-> "COMPLAINED",
   suppressed       |-> "SUPPRESSED",
   failed           |-> "FAILED"]

\* ... and the statuses it may replace.
AllowedFrom(e) ==
  IF e = "sent" THEN {"PENDING", "SENDING"}
  ELSE IF e = "delivery_delayed" THEN {"PENDING", "SENDING", "SENT"}
  ELSE {"PENDING", "SENDING", "SENT", "DELAYED"}

=============================================================================
