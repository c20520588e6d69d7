---------------------------- MODULE InboundEmail ----------------------------
(***************************************************************************)
(* InboundEmailService.handleReceivedEmail: the customer's emails become   *)
(* messages of the ticket that Tickets models, and reopen it.              *)
(*                                                                         *)
(* The provider delivers its email.received webhook again until it is      *)
(* answered, and the deliveries of one email may overlap.                  *)
(***************************************************************************)

EXTENDS Tickets

CONSTANTS
  Emails,        (* emails the provider has received for the ticket        *)
  Webhooks       (* concurrent deliveries of email.received                *)

VARIABLES
  event,         (* the WebhookEvent row of each email                     *)
  messages,      (* how many TicketMessage rows each email has made        *)
  hook           (* the progress of each delivery                          *)

inboundVars == <<event, messages, hook>>
vars == <<ticketVars, inboundVars>>

Unheard == [step |-> "idle"]

Init ==
  /\ TicketInit
  /\ event    = [e \in Emails |-> "none"]
  /\ messages = [e \in Emails |-> 0]
  /\ hook     = [h \in Webhooks |-> Unheard]

Goto(h, q) == hook' = [hook EXCEPT ![h] = q]

\* A delivery of an email that has an event is answered as a duplicate.
ReceiveWebhook(h, e) ==
  /\ hook[h] = Unheard
  /\ event[e] = "none"
  /\ Goto(h, [step |-> "fetching", email |-> e])
  /\ UNCHANGED <<ticketVars, event, messages>>

\* The provider's copy of the email and the ticket's customer decide; as the
\* customer's address may be edited, two deliveries may decide differently.
CheckEmail(h) ==
  /\ hook[h].step = "fetching"
  /\ \E outcome \in {"accepting", "ignoring"} :
        Goto(h, [step |-> outcome, email |-> hook[h].email])
  /\ UNCHANGED <<ticketVars, event, messages>>

\* recordIgnoredEvent; the unique key makes the second event a duplicate.
IgnoreEmail(h) ==
  /\ hook[h].step = "ignoring"
  /\ event' = [event EXCEPT ![hook[h].email] = IF @ = "none" THEN "IGNORED" ELSE @]
  /\ Goto(h, Unheard)
  /\ UNCHANGED <<ticketVars, messages>>

\* Mutant of Reopen: the timestamps are left as they are.
ReopenStatusOnly ==
  /\ status' = "OPEN"
  /\ unaware' = {r \in Requests : req[r].step = "changing"}
  /\ statusAudit' = IF status = "OPEN" THEN statusAudit
                    ELSE [from |-> "CUSTOMER_REPLY", to |-> "OPEN"]
  /\ UNCHANGED stamps

\* updateMany where status in PENDING, RESOLVED, CLOSED; audited if it counts 1.
Reopen ==
  /\ unaware' = {r \in Requests : req[r].step = "changing"}
  /\ IF status = "OPEN"
     THEN UNCHANGED <<status, stamps, statusAudit>>
     ELSE /\ status' = "OPEN"
          /\ stamps' = Cleared
          /\ statusAudit' = [from |-> "CUSTOMER_REPLY", to |-> "OPEN"]

\* Mutant of AcceptEmail: the event is upserted.
AcceptEmailUpsert(h) ==
  LET e == hook[h].email IN
  /\ hook[h].step = "accepting"
  /\ event' = [event EXCEPT ![e] = "PROCESSED"]
  /\ messages' = [messages EXCEPT ![e] = @ + 1]
  /\ Reopen
  /\ Goto(h, Unheard)
  /\ UNCHANGED <<assignVars, tagVars, req>>

\* One transaction: the event claims the email, and the message and the ticket
\* follow; a delivery that comes second is undone by the unique key.
AcceptEmail(h) ==
  LET e == hook[h].email IN
  /\ hook[h].step = "accepting"
  /\ IF event[e] = "none"
     THEN /\ event' = [event EXCEPT ![e] = "PROCESSED"]
          /\ messages' = [messages EXCEPT ![e] = @ + 1]
          /\ Reopen
     ELSE UNCHANGED <<event, messages, statusVars>>
  /\ Goto(h, Unheard)
  /\ UNCHANGED <<assignVars, tagVars, req>>

\* The provider or the database cannot be reached, or the API dies.
WebhookFails(h) ==
  /\ hook[h] # Unheard
  /\ Goto(h, Unheard)
  /\ UNCHANGED <<ticketVars, event, messages>>

WebhookStep(h) ==
  \/ \E e \in Emails : ReceiveWebhook(h, e)
  \/ CheckEmail(h)
  \/ IgnoreEmail(h)
  \/ AcceptEmail(h)
  \/ WebhookFails(h)

Next ==
  \/ TicketStep /\ UNCHANGED inboundVars
  \/ \E h \in Webhooks : WebhookStep(h)

Spec == Init /\ [][Next]_vars

-----------------------------------------------------------------------------
(* Properties.                                                               *)

TypeOK ==
  /\ TicketTypeOK
  /\ event \in [Emails -> {"none", "PROCESSED", "IGNORED"}]
  /\ messages \in [Emails -> Nat]
  /\ hook \in [Webhooks -> {Unheard} \cup [step : {"fetching", "accepting", "ignoring"},
                                           email : Emails]]

\* However often and at the same time the webhook of an email is delivered, it
\* makes one message and is recorded as processed, or makes none.
EmailMakesOneMessage ==
  \A e \in Emails : messages[e] = IF event[e] = "PROCESSED" THEN 1 ELSE 0

=============================================================================
