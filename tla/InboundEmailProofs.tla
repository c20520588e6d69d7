------------------------- MODULE InboundEmailProofs -------------------------
(***************************************************************************)
(* Theorems about a ticket with inbound email, for any number of requests, *)
(* members, tags, emails and overlapping webhook deliveries.               *)
(***************************************************************************)

EXTENDS InboundEmail, TLAPS

-----------------------------------------------------------------------------
(* Types.                                                                    *)

LEMMA InitTypeOK == Init => TypeOK
<1> SUFFICES ASSUME Init PROVE TypeOK
  OBVIOUS
<1>1. req \in [Requests -> TicketRequest]
  BY DEF Init, TicketInit, TicketRequest
<1>2. /\ status \in TicketStatuses
      /\ stamps \in [resolved : BOOLEAN, closed : BOOLEAN]
      /\ statusAudit \in [from : TicketStatuses \cup {"NONE", "CUSTOMER_REPLY"}, to : TicketStatuses]
  BY DEF Init, TicketInit, TicketStatuses, Cleared
<1>3. /\ assignee \in Members \cup {Nobody}
      /\ role \in [Members -> {"AGENT", "VIEWER"}]
      /\ tags \subseteq Tags
      /\ tagAudit \in [Tags -> Int]
  BY DEF Init, TicketInit
<1>4. unaware \subseteq Requests
  BY DEF Init, TicketInit
<1>5. TicketTypeOK
  BY <1>1, <1>2, <1>3, <1>4 DEF TicketTypeOK
<1> QED BY <1>5 DEF Init, TypeOK, Unheard

\* What a request that is about to write has read.
LEMMA RequestTypes ==
  ASSUME TypeOK, NEW r \in Requests
  PROVE  /\ req[r].step = "changing" => /\ req[r].seen \in TicketStatuses
                                        /\ req[r].to \in Transitions[req[r].seen]
         /\ req[r].step = "assigning" => req[r].to \in Members \cup {Nobody}
         /\ req[r].step = "tagging" => req[r].tag \in Tags
  BY DEF TypeOK, TicketTypeOK, TicketRequest, Changing, Idle

\* What a delivery under way is about.
LEMMA HookTypes ==
  ASSUME TypeOK, NEW h \in Webhooks, hook[h].step # "idle"
  PROVE  hook[h].email \in Emails
  BY DEF TypeOK, Unheard

LEMMA TransitionTypes ==
  \A s \in TicketStatuses : Transitions[s] \subseteq TicketStatuses
  BY DEF TicketStatuses, Transitions

LEMMA StampTypes ==
  ASSUME TypeOK, NEW next \in TicketStatuses
  PROVE  LifecycleTimestamps(next) \in [resolved : BOOLEAN, closed : BOOLEAN]
  BY DEF TypeOK, TicketTypeOK, LifecycleTimestamps, Cleared, TicketStatuses

\* A request keeps its type when it becomes idle.
LEMMA IdleTypes ==
  ASSUME TypeOK, NEW r \in Requests, Becomes(r, Idle)
  PROVE  req' \in [Requests -> TicketRequest]
  BY DEF TypeOK, TicketTypeOK, Becomes, TicketRequest

LEMMA TypeRequestStep ==
  ASSUME TypeOK, NEW r \in Requests, RequestStep(r), UNCHANGED inboundVars
  PROVE  TypeOK'
<1> USE DEF inboundVars, statusVars, lifecycleVars, assignVars, tagVars
<1>1. ASSUME NEW next \in TicketStatuses, ReadStatus(r, next)
      PROVE  TypeOK'
  <2>1. [step |-> "changing", seen |-> status, to |-> next] \in TicketRequest
    BY <1>1 DEF ReadStatus, TypeOK, TicketTypeOK, TicketRequest, Changing
  <2> QED BY <1>1, <2>1 DEF ReadStatus, TypeOK, TicketTypeOK, Becomes
<1>2. CASE UpdateStatus(r)
  <2>1. CASE status = req[r].seen
    <3>1. req[r].seen \in TicketStatuses /\ req[r].to \in TicketStatuses
      BY <1>2, RequestTypes, TransitionTypes DEF UpdateStatus
    <3>2. LifecycleTimestamps(req[r].to) \in [resolved : BOOLEAN, closed : BOOLEAN]
      BY <3>1, StampTypes
    <3> QED BY <1>2, <2>1, <3>1, <3>2, IdleTypes
            DEF UpdateStatus, ChangeStatus, TypeOK, TicketTypeOK
  <2>2. CASE status # req[r].seen
    BY <1>2, <2>2, IdleTypes DEF UpdateStatus, TypeOK, TicketTypeOK
  <2> QED BY <2>1, <2>2
<1>3. CASE ReadReplied(r)
  <2>1. [step |-> "replying"] \in TicketRequest
    BY DEF TicketRequest
  <2> QED BY <1>3, <2>1 DEF ReadReplied, TypeOK, TicketTypeOK, Becomes
<1>4. CASE PostReply(r) \/ RequestEnds(r)
  BY <1>4, IdleTypes DEF PostReply, RequestEnds, TypeOK, TicketTypeOK
<1>5. ASSUME NEW m \in Members \cup {Nobody}, CheckAssignee(r, m)
      PROVE  TypeOK'
  <2>1. [step |-> "assigning", to |-> m] \in TicketRequest
    BY DEF TicketRequest
  <2> QED BY <1>5, <2>1 DEF CheckAssignee, TypeOK, TicketTypeOK, Becomes
<1>6. CASE Assign(r)
  BY <1>6, RequestTypes, IdleTypes DEF Assign, TypeOK, TicketTypeOK
<1>7. ASSUME NEW t \in Tags, FindLink(r, t)
      PROVE  TypeOK'
  <2>1. [step |-> "tagging", tag |-> t] \in TicketRequest
    BY DEF TicketRequest
  <2> QED BY <1>7, <2>1 DEF FindLink, TypeOK, TicketTypeOK, Becomes
<1>8. CASE AddTag(r)
  BY <1>8, RequestTypes, IdleTypes DEF AddTag, TypeOK, TicketTypeOK
<1> QED BY <1>1, <1>2, <1>3, <1>4, <1>5, <1>6, <1>7, <1>8 DEF RequestStep

LEMMA TypeWebhookStep ==
  ASSUME TypeOK, NEW h \in Webhooks, WebhookStep(h)
  PROVE  TypeOK'
<1> USE DEF ticketVars, statusVars, lifecycleVars, assignVars, tagVars, Goto, TypeOK
<1>1. ASSUME NEW e \in Emails, ReceiveWebhook(h, e)
      PROVE  TypeOK'
  BY <1>1 DEF ReceiveWebhook, TicketTypeOK
<1>2. CASE CheckEmail(h)
  BY <1>2, HookTypes DEF CheckEmail, TicketTypeOK
<1>3. CASE IgnoreEmail(h)
  BY <1>3, HookTypes DEF IgnoreEmail, TicketTypeOK
<1>4. CASE AcceptEmail(h)
  <2>1. hook[h].email \in Emails
    BY <1>4, HookTypes DEF AcceptEmail
  <2>2. CASE event[hook[h].email] = "none"
    <3>1. Reopen /\ UNCHANGED <<assignVars, tagVars, req>>
      BY <1>4, <2>2 DEF AcceptEmail
    <3>2. TicketTypeOK'
      <4>1. unaware' \subseteq Requests
        BY <3>1 DEF Reopen
      <4>2. /\ status' \in TicketStatuses
            /\ stamps' \in [resolved : BOOLEAN, closed : BOOLEAN]
            /\ statusAudit' \in [from : TicketStatuses \cup {"NONE", "CUSTOMER_REPLY"},
                                 to : TicketStatuses]
        <5>1. CASE status = "OPEN"
          BY <3>1, <5>1 DEF Reopen, TicketTypeOK
        <5>2. CASE status # "OPEN"
          <6>1. /\ status' = "OPEN"
                /\ stamps' = Cleared
                /\ statusAudit' = [from |-> "CUSTOMER_REPLY", to |-> "OPEN"]
            BY <3>1, <5>2 DEF Reopen
          <6> QED BY <6>1 DEF Cleared, TicketStatuses
        <5> QED BY <5>1, <5>2
      <4>3. UNCHANGED <<assignee, role, tags, tagAudit, req>>
        BY <3>1
      <4> QED BY <4>1, <4>2, <4>3 DEF TicketTypeOK
    <3>3. /\ event' \in [Emails -> {"none", "PROCESSED", "IGNORED"}]
          /\ messages' \in [Emails -> Nat]
      BY <1>4, <2>1, <2>2 DEF AcceptEmail
    <3>4. hook' \in [Webhooks -> {Unheard} \cup [step : {"fetching", "accepting", "ignoring"},
                                               email : Emails]]
      BY <1>4 DEF AcceptEmail
    <3> QED BY <3>2, <3>3, <3>4
  <2>3. CASE event[hook[h].email] # "none"
    BY <1>4, <2>3 DEF AcceptEmail, TicketTypeOK
  <2> QED BY <2>2, <2>3
<1>5. CASE WebhookFails(h)
  BY <1>5 DEF WebhookFails, TicketTypeOK
<1> QED BY <1>1, <1>2, <1>3, <1>4, <1>5 DEF WebhookStep

LEMMA NextTypeOK ==
  ASSUME TypeOK, [Next]_vars
  PROVE  TypeOK'
<1>1. ASSUME NEW r \in Requests, RequestStep(r), UNCHANGED inboundVars
      PROVE  TypeOK'
  BY <1>1, TypeRequestStep
<1>2. ASSUME NEW m \in Members, ChangeRole(m), UNCHANGED inboundVars
      PROVE  TypeOK'
  BY <1>2 DEF ChangeRole, TypeOK, TicketTypeOK, inboundVars, statusVars, lifecycleVars, tagVars
<1>3. ASSUME NEW t \in Tags, RemoveTag(t), UNCHANGED inboundVars
      PROVE  TypeOK'
  BY <1>3 DEF RemoveTag, TypeOK, TicketTypeOK, inboundVars, statusVars, lifecycleVars, assignVars
<1>4. ASSUME NEW h \in Webhooks, WebhookStep(h)
      PROVE  TypeOK'
  BY <1>4, TypeWebhookStep
<1>5. CASE UNCHANGED vars
  BY <1>5 DEF vars, ticketVars, inboundVars, statusVars, lifecycleVars, assignVars, tagVars, TypeOK,
              TicketTypeOK
<1> QED BY <1>1, <1>2, <1>3, <1>4, <1>5 DEF Next, TicketStep

\* The values the variables take; a request that is about to change the status
\* asks for a transition that the table allows from the status it read.
THEOREM TypeCorrect == Spec => []TypeOK
  BY InitTypeOK, NextTypeOK, PTL DEF Spec

-----------------------------------------------------------------------------
(* The lifecycle of the ticket.                                              *)

\* All that ever happens to it: an allowed transition from the status the row
\* really has, or a reopening by the customer.
LEMMA LifecycleStep ==
  ASSUME TypeOK, [Next]_vars
  PROVE  \/ /\ UNCHANGED lifecycleVars
            /\ unaware' \subseteq unaware
         \/ \E next \in Transitions[status] : ChangeStatus(status, next)
         \/ Reopen
<1> USE DEF statusVars
<1>1. ASSUME NEW r \in Requests, RequestStep(r)
      PROVE  \/ UNCHANGED lifecycleVars /\ unaware' \subseteq unaware
             \/ \E next \in Transitions[status] : ChangeStatus(status, next)
  <2>1. CASE UpdateStatus(r)
    <3>1. CASE status = req[r].seen
      <4>1. ChangeStatus(req[r].seen, req[r].to)
        BY <2>1, <3>1 DEF UpdateStatus
      <4>2. req[r].to \in Transitions[req[r].seen]
        BY <2>1, RequestTypes DEF UpdateStatus
      <4> QED BY <3>1, <4>1, <4>2
    <3>2. CASE status # req[r].seen
      BY <2>1, <3>2 DEF UpdateStatus
    <3> QED BY <3>1, <3>2
  <2>2. CASE ~ UpdateStatus(r)
    BY <1>1, <2>2 DEF RequestStep, ReadStatus, ReadReplied, PostReply, CheckAssignee, Assign,
       FindLink, AddTag, RequestEnds
  <2> QED BY <2>1, <2>2
<1>2. ASSUME NEW h \in Webhooks, WebhookStep(h)
      PROVE  UNCHANGED statusVars \/ Reopen
  BY <1>2 DEF WebhookStep, ReceiveWebhook, CheckEmail, IgnoreEmail, AcceptEmail, WebhookFails,
     ticketVars
<1>3. ASSUME NEW m \in Members, ChangeRole(m) PROVE UNCHANGED statusVars
  BY <1>3 DEF ChangeRole
<1>4. ASSUME NEW t \in Tags, RemoveTag(t) PROVE UNCHANGED statusVars
  BY <1>4 DEF RemoveTag
<1>5. CASE UNCHANGED vars
  BY <1>5 DEF vars, ticketVars
<1> QED BY <1>1, <1>2, <1>3, <1>4, <1>5 DEF Next, TicketStep

\* The timestamps agree with the status: PENDING keeps them and CLOSED keeps
\* resolvedAt, which is right because the compare-and-set makes sure that the
\* row still has the status those were validated against.
THEOREM StampsStayTrue == Spec => []TimestampsMatchStatus
<1>1. Init => TimestampsMatchStatus
  BY DEF Init, TicketInit, TimestampsMatchStatus, Cleared
<1>2. ASSUME TypeOK, TimestampsMatchStatus, [Next]_vars PROVE TimestampsMatchStatus'
  <2>1. CASE UNCHANGED lifecycleVars
    BY <1>2, <2>1 DEF lifecycleVars, TimestampsMatchStatus
  <2>2. ASSUME NEW next \in Transitions[status], ChangeStatus(status, next)
        PROVE  TimestampsMatchStatus'
    <3>1. status' = next /\ stamps' = LifecycleTimestamps(next)
      BY <2>2 DEF ChangeStatus
    <3>2. status \in TicketStatuses
      BY <1>2 DEF TypeOK, TicketTypeOK
    <3> QED BY <1>2, <3>1, <3>2 DEF Transitions, TicketStatuses, LifecycleTimestamps, Cleared,
               TimestampsMatchStatus
  <2>3. CASE Reopen
    <3>1. CASE status = "OPEN"
      BY <1>2, <2>3, <3>1 DEF Reopen, TimestampsMatchStatus
    <3>2. CASE status # "OPEN"
      <4>1. status' = "OPEN" /\ stamps' = Cleared
        BY <2>3, <3>2 DEF Reopen
      <4> QED BY <4>1 DEF Cleared, TimestampsMatchStatus
    <3> QED BY <3>1, <3>2
  <2> QED BY <1>2, <2>1, <2>2, <2>3, LifecycleStep
<1> QED BY TypeCorrect, <1>1, <1>2, PTL DEF Spec

\* Until the first change after a reply of the customer, the ticket is open.
UnansweredIsOpen == unaware # {} => status = "OPEN"

\* A change validated before a customer's reply that is the first to take effect
\* after it was validated from OPEN.
THEOREM LateChangesReplaceOnlyOpen == Spec => LateChangesReplaceOpen
<1>1. Init => UnansweredIsOpen
  BY DEF Init, TicketInit, UnansweredIsOpen
<1>2. ASSUME TypeOK, UnansweredIsOpen, [Next]_vars PROVE UnansweredIsOpen'
  <2>1. CASE UNCHANGED lifecycleVars /\ unaware' \subseteq unaware
    BY <1>2, <2>1 DEF lifecycleVars, UnansweredIsOpen
  <2>2. ASSUME NEW next \in Transitions[status], ChangeStatus(status, next)
        PROVE  UnansweredIsOpen'
    BY <2>2 DEF ChangeStatus, UnansweredIsOpen
  <2>3. CASE Reopen
    <3>1. status' = "OPEN"
      BY <2>3 DEF Reopen
    <3> QED BY <3>1 DEF UnansweredIsOpen
  <2> QED BY <1>2, <2>1, <2>2, <2>3, LifecycleStep
<1>3. UnansweredIsOpen =>
        [\A r \in unaware : UpdateStatus(r) /\ status' # status
                             => req[r].seen = "OPEN"]_ticketVars
  <2> SUFFICES ASSUME UnansweredIsOpen, NEW r \in unaware, UpdateStatus(r), status' # status
               PROVE  req[r].seen = "OPEN"
    OBVIOUS
  <2>1. status = req[r].seen
    BY DEF UpdateStatus, statusVars, lifecycleVars
  <2> QED BY <2>1 DEF UnansweredIsOpen
<1> QED BY TypeCorrect, <1>1, <1>2, <1>3, PTL DEF Spec, LateChangesReplaceOpen

\* The audit trail of the status: every change is audited as what it was.
THEOREM StatusTrail == Spec => StatusTrailIsTrue
<1>1. TypeOK /\ [Next]_vars =>
        [\/ /\ status' \in Transitions[status]
            /\ statusAudit' = [from |-> status, to |-> status']
         \/ /\ status # "OPEN" /\ status' = "OPEN"
            /\ statusAudit' = [from |-> "CUSTOMER_REPLY", to |-> "OPEN"]]_<<status, statusAudit>>
  BY LifecycleStep DEF lifecycleVars, ChangeStatus, Reopen
<1>2. TypeOK /\ [Next]_vars =>
        [<<status, statusAudit>>' # <<status, statusAudit>> =>
          \/ /\ status' \in Transitions[status]
             /\ statusAudit' = [from |-> status, to |-> status']
          \/ /\ status # "OPEN" /\ status' = "OPEN"
             /\ statusAudit' = [from |-> "CUSTOMER_REPLY", to |-> "OPEN"]]_ticketVars
  BY <1>1
<1> QED BY TypeCorrect, <1>2, PTL DEF Spec, StatusTrailIsTrue

-----------------------------------------------------------------------------
(* Tags.                                                                     *)

\* Rows and audit entries of tags change together, and rows really change.
LEMMA TagStep ==
  ASSUME TypeOK, [Next]_vars
  PROVE  \/ UNCHANGED tagVars
         \/ \E t \in Tags : /\ t \notin tags /\ tags' = tags \cup {t}
                            /\ tagAudit' = [tagAudit EXCEPT ![t] = @ + 1]
         \/ \E t \in Tags : /\ t \in tags /\ tags' = tags \ {t}
                            /\ tagAudit' = [tagAudit EXCEPT ![t] = @ - 1]
<1>1. ASSUME NEW r \in Requests, AddTag(r)
      PROVE  \/ UNCHANGED tagVars
             \/ \E t \in Tags : /\ t \notin tags /\ tags' = tags \cup {t}
                                /\ tagAudit' = [tagAudit EXCEPT ![t] = @ + 1]
  <2>1. req[r].tag \in Tags
    BY <1>1, RequestTypes DEF AddTag
  <2> QED BY <1>1, <2>1 DEF AddTag
<1>2. ASSUME NEW r \in Requests, RequestStep(r), ~ AddTag(r)
      PROVE  UNCHANGED tagVars
  BY <1>2 DEF RequestStep, ReadStatus, UpdateStatus, ReadReplied, PostReply, CheckAssignee,
     Assign, FindLink, RequestEnds
<1>3. ASSUME NEW h \in Webhooks, WebhookStep(h)
      PROVE  UNCHANGED tagVars
  BY <1>3 DEF WebhookStep, ReceiveWebhook, CheckEmail, IgnoreEmail, AcceptEmail, WebhookFails,
     ticketVars
<1>4. ASSUME NEW m \in Members, ChangeRole(m) PROVE UNCHANGED tagVars
  BY <1>4 DEF ChangeRole
<1>5. ASSUME NEW t \in Tags, RemoveTag(t)
      PROVE  /\ t \in tags /\ tags' = tags \ {t}
             /\ tagAudit' = [tagAudit EXCEPT ![t] = @ - 1]
  BY <1>5 DEF RemoveTag
<1>6. CASE UNCHANGED vars
  BY <1>6 DEF vars, ticketVars
<1> QED BY <1>1, <1>2, <1>3, <1>4, <1>5, <1>6 DEF Next, TicketStep

\* The audit entries of each tag add up to whether the ticket has it.
THEOREM TagTrail == Spec => []TagTrailAddsUp
<1>1. Init => TagTrailAddsUp
  BY DEF Init, TicketInit, TagTrailAddsUp
<1>2. ASSUME TypeOK, TagTrailAddsUp, [Next]_vars PROVE TagTrailAddsUp'
  <2>1. CASE UNCHANGED tagVars
    BY <1>2, <2>1 DEF tagVars, TagTrailAddsUp
  <2>2. CASE \E t \in Tags : /\ t \notin tags /\ tags' = tags \cup {t}
                             /\ tagAudit' = [tagAudit EXCEPT ![t] = @ + 1]
    BY <1>2, <2>2 DEF TypeOK, TicketTypeOK, TagTrailAddsUp
  <2>3. CASE \E t \in Tags : /\ t \in tags /\ tags' = tags \ {t}
                             /\ tagAudit' = [tagAudit EXCEPT ![t] = @ - 1]
    BY <1>2, <2>3 DEF TypeOK, TicketTypeOK, TagTrailAddsUp
  <2> QED BY <1>2, <2>1, <2>2, <2>3, TagStep
<1> QED BY TypeCorrect, <1>1, <1>2, PTL DEF Spec

-----------------------------------------------------------------------------
(* Emails.                                                                   *)

\* An email makes one message, however often its webhook is delivered.
THEOREM OneMessage == Spec => []EmailMakesOneMessage
<1>1. Init => EmailMakesOneMessage
  BY DEF Init, EmailMakesOneMessage
<1>2. ASSUME TypeOK, EmailMakesOneMessage, [Next]_vars PROVE EmailMakesOneMessage'
  <2>1. CASE UNCHANGED <<event, messages>>
    BY <1>2, <2>1 DEF EmailMakesOneMessage
  <2>2. ASSUME NEW h \in Webhooks, IgnoreEmail(h) PROVE EmailMakesOneMessage'
    <3>1. hook[h].email \in Emails
      BY <1>2, <2>2, HookTypes DEF IgnoreEmail
    <3> QED BY <1>2, <2>2, <3>1 DEF IgnoreEmail, EmailMakesOneMessage, TypeOK
  <2>3. ASSUME NEW h \in Webhooks, AcceptEmail(h) PROVE EmailMakesOneMessage'
    <3>1. hook[h].email \in Emails
      BY <1>2, <2>3, HookTypes DEF AcceptEmail
    <3>2. CASE event[hook[h].email] = "none"
      <4>1. /\ event' = [event EXCEPT ![hook[h].email] = "PROCESSED"]
            /\ messages' = [messages EXCEPT ![hook[h].email] = @ + 1]
        BY <2>3, <3>2 DEF AcceptEmail
      <4> QED BY <1>2, <3>1, <3>2, <4>1 DEF EmailMakesOneMessage, TypeOK
    <3>3. CASE event[hook[h].email] # "none"
      BY <1>2, <2>3, <3>3 DEF AcceptEmail, EmailMakesOneMessage
    <3> QED BY <3>2, <3>3
  <2> QED
    BY <1>2, <2>1, <2>2, <2>3 DEF Next, WebhookStep, ReceiveWebhook, CheckEmail, WebhookFails,
       inboundVars, vars
<1> QED BY TypeCorrect, <1>1, <1>2, PTL DEF Spec

=============================================================================
