------------------------------- MODULE Tickets -------------------------------
(***************************************************************************)
(* One ticket, as the handlers of TicketsService change it: its status and *)
(* lifecycle timestamps, its assignee and its tags.  A handler reads in    *)
(* one step and writes in a later one; no transaction here is Serializable.*)
(* InboundEmail adds the customer's replies and the specification.         *)
(***************************************************************************)

EXTENDS Integers

CONSTANTS
  Requests,      (* concurrent HTTP requests of members with tickets:write *)
  Members,       (* memberships of the ticket's organization               *)
  Tags,          (* tags of the organization                               *)
  Nobody         (* no assignee                                            *)

ASSUME TicketsAssumption == Nobody \notin Members

VARIABLES
  status,        (* Ticket.status                                          *)
  stamps,        (* are resolvedAt and closedAt set?                       *)
  statusAudit,   (* the latest TICKET_STATUS_CHANGED entry                 *)
  unaware,       (* history: the requests that validated a change before a *)
                 (* reply of the customer that no change has followed yet  *)
  assignee,      (* Ticket.assigneeMembershipId                            *)
  role,          (* is a member a "VIEWER", or may it be assigned tickets? *)
  tags,          (* the ticket's TicketTag rows                            *)
  tagAudit,      (* TICKET_TAG_ADDED less TICKET_TAG_REMOVED entries       *)
  req            (* what each request has read, and will write             *)

lifecycleVars == <<status, stamps, statusAudit>>
statusVars    == <<lifecycleVars, unaware>>
assignVars    == <<assignee, role>>
tagVars       == <<tags, tagAudit>>
ticketVars    == <<statusVars, assignVars, tagVars, req>>

TicketStatuses == {"OPEN", "PENDING", "RESOLVED", "CLOSED"}

\* isStatusTransitionAllowed
Transitions ==
  [OPEN     |-> {"PENDING", "RESOLVED"},
   PENDING  |-> {"OPEN", "RESOLVED"},
   RESOLVED |-> {"OPEN", "CLOSED"},
   CLOSED   |-> {"OPEN"}]

Cleared == [resolved |-> FALSE, closed |-> FALSE]

\* getLifecycleTimestamps, applied to the row
LifecycleTimestamps(next) ==
  CASE next = "OPEN"     -> Cleared
    [] next = "PENDING"  -> stamps
    [] next = "RESOLVED" -> [resolved |-> TRUE, closed |-> FALSE]
    [] next = "CLOSED"   -> [resolved |-> stamps.resolved, closed |-> TRUE]

Idle == [step |-> "idle"]

Becomes(r, q) == req' = [req EXCEPT ![r] = q]

\* TicketsService.create: an open ticket.
TicketInit ==
  /\ status      = "OPEN"
  /\ stamps      = Cleared
  /\ statusAudit = [from |-> "NONE", to |-> "OPEN"]
  /\ unaware     = {}
  /\ assignee    = Nobody
  /\ role        \in [Members -> {"AGENT", "VIEWER"}]
  /\ tags        = {}
  /\ tagAudit    = [t \in Tags |-> 0]
  /\ req         = [r \in Requests |-> Idle]

-----------------------------------------------------------------------------
(* updateStatus                                                              *)

\* Mutant of ReadStatus: any other status may be asked for.
ReadStatusAny(r, next) ==
  /\ req[r] = Idle
  /\ next # status
  /\ Becomes(r, [step |-> "changing", seen |-> status, to |-> next])
  /\ unaware' = unaware \ {r}
  /\ UNCHANGED <<lifecycleVars, assignVars, tagVars>>

\* The ticket's own status, and a transition that is not allowed, are 409s.
ReadStatus(r, next) ==
  /\ req[r] = Idle
  /\ next \in Transitions[status]
  /\ Becomes(r, [step |-> "changing", seen |-> status, to |-> next])
  /\ unaware' = unaware \ {r}
  /\ UNCHANGED <<lifecycleVars, assignVars, tagVars>>

\* Row and audit entry of a change that was validated from another status.
ChangeStatus(from, next) ==
  /\ status' = next
  /\ stamps' = LifecycleTimestamps(next)
  /\ statusAudit' = [from |-> from, to |-> next]
  /\ unaware' = {}

\* Mutant of UpdateStatus: the row is found by its id only.
UpdateStatusById(r) ==
  /\ req[r].step = "changing"
  /\ ChangeStatus(req[r].seen, req[r].to)
  /\ Becomes(r, Idle)
  /\ UNCHANGED <<assignVars, tagVars>>

\* Compare-and-set of the validated status; if it fails, 409.
UpdateStatus(r) ==
  /\ req[r].step = "changing"
  /\ IF status = req[r].seen
     THEN ChangeStatus(req[r].seen, req[r].to)
     ELSE UNCHANGED statusVars
  /\ Becomes(r, Idle)
  /\ UNCHANGED <<assignVars, tagVars>>

-----------------------------------------------------------------------------
(* createMessage of a PUBLIC_REPLY: the status is read when its transaction  *)
(* starts, and not again.  Its delivery row and its attachments are modelled *)
(* in EmailPipeline and Attachments.                                         *)

ReadReplied(r) ==
  /\ req[r] = Idle
  /\ status # "CLOSED"
  /\ Becomes(r, [step |-> "replying"])
  /\ UNCHANGED <<statusVars, assignVars, tagVars>>

PostReply(r) ==
  /\ req[r].step = "replying"
  /\ Becomes(r, Idle)
  /\ UNCHANGED <<statusVars, assignVars, tagVars>>

-----------------------------------------------------------------------------
(* assign                                                                    *)

CheckAssignee(r, m) ==
  /\ req[r] = Idle
  /\ m # Nobody => role[m] # "VIEWER"
  /\ Becomes(r, [step |-> "assigning", to |-> m])
  /\ UNCHANGED <<statusVars, assignVars, tagVars>>

\* update by id
Assign(r) ==
  /\ req[r].step = "assigning"
  /\ assignee' = req[r].to
  /\ Becomes(r, Idle)
  /\ UNCHANGED <<statusVars, role, tagVars>>

\* MembersService.updateRole, which module Team models.
ChangeRole(m) ==
  /\ \E new \in {"AGENT", "VIEWER"} \ {role[m]} : role' = [role EXCEPT ![m] = new]
  /\ UNCHANGED <<statusVars, assignee, tagVars, req>>

-----------------------------------------------------------------------------
(* addTag and removeTag                                                      *)

\* An existing link ends the transaction without an audit entry.
FindLink(r, t) ==
  /\ req[r] = Idle
  /\ t \notin tags
  /\ Becomes(r, [step |-> "tagging", tag |-> t])
  /\ UNCHANGED <<statusVars, assignVars, tagVars>>

\* Mutant of AddTag: the link is upserted.
AddTagUpsert(r) ==
  LET t == req[r].tag IN
  /\ req[r].step = "tagging"
  /\ tags' = tags \cup {t}
  /\ tagAudit' = [tagAudit EXCEPT ![t] = @ + 1]
  /\ Becomes(r, Idle)
  /\ UNCHANGED <<statusVars, assignVars>>

\* The primary key of TicketTag undoes the second of two transactions.
AddTag(r) ==
  LET t == req[r].tag IN
  /\ req[r].step = "tagging"
  /\ IF t \notin tags
     THEN /\ tags' = tags \cup {t}
          /\ tagAudit' = [tagAudit EXCEPT ![t] = @ + 1]
     ELSE UNCHANGED tagVars
  /\ Becomes(r, Idle)
  /\ UNCHANGED <<statusVars, assignVars>>

\* deleteMany, audited when its count is not 0
RemoveTag(t) ==
  /\ t \in tags
  /\ tags' = tags \ {t}
  /\ tagAudit' = [tagAudit EXCEPT ![t] = @ - 1]
  /\ UNCHANGED <<statusVars, assignVars, req>>

-----------------------------------------------------------------------------

\* A failed query, or a crash before the commit.
RequestEnds(r) ==
  /\ req[r] # Idle
  /\ Becomes(r, Idle)
  /\ UNCHANGED <<statusVars, assignVars, tagVars>>

RequestStep(r) ==
  \/ \E next \in TicketStatuses : ReadStatus(r, next)
  \/ UpdateStatus(r)
  \/ ReadReplied(r)
  \/ PostReply(r)
  \/ \E m \in Members \cup {Nobody} : CheckAssignee(r, m)
  \/ Assign(r)
  \/ \E t \in Tags : FindLink(r, t)
  \/ AddTag(r)
  \/ RequestEnds(r)

TicketStep ==
  \/ \E r \in Requests : RequestStep(r)
  \/ \E m \in Members : ChangeRole(m)
  \/ \E t \in Tags : RemoveTag(t)

-----------------------------------------------------------------------------
(* Properties.                                                               *)

\* A request changes a status only to one the transition table allows.
Changing ==
  {q \in [step : {"changing"}, seen : TicketStatuses, to : TicketStatuses] :
      q.to \in Transitions[q.seen]}

TicketRequest ==
  {Idle} \cup Changing \cup [step : {"replying"}]
  \cup [step : {"assigning"}, to : Members \cup {Nobody}]
  \cup [step : {"tagging"}, tag : Tags]

TicketTypeOK ==
  /\ status \in TicketStatuses
  /\ stamps \in [resolved : BOOLEAN, closed : BOOLEAN]
  /\ statusAudit \in [from : TicketStatuses \cup {"NONE", "CUSTOMER_REPLY"}, to : TicketStatuses]
  /\ unaware \subseteq Requests
  /\ assignee \in Members \cup {Nobody}
  /\ role \in [Members -> {"AGENT", "VIEWER"}]
  /\ tags \subseteq Tags
  /\ tagAudit \in [Tags -> Int]
  /\ req \in [Requests -> TicketRequest]

\* The timestamps that analytics counts by agree with the status, although a
\* change writes only some of them and relies on the others being as the status
\* that was validated left them.
TimestampsMatchStatus ==
  /\ stamps.resolved <=> status \in {"RESOLVED", "CLOSED"}
  /\ stamps.closed <=> status = "CLOSED"

\* The first change after a customer's reply, when it was validated before the
\* reply, was validated from OPEN: what the reply reopens stays open until the
\* ticket is changed by somebody who found it OPEN.
LateChangesReplaceOpen ==
  [][\A r \in unaware : UpdateStatus(r) /\ status' # status => req[r].seen = "OPEN"]_ticketVars

\* inbound-email.service.ts:429: "A customer reply means this ticket requires
\* agent attention again", so no change validated before it should take it out
\* of sight.
RepliesKeepTicketsOpen ==
  [][\A r \in unaware : UpdateStatus(r) => UNCHANGED status]_ticketVars

\* Every change of status is one the transition table allows from the status
\* that it really replaced, and is audited as that, or is the reopening of a
\* ticket by its customer.
StatusTrailIsTrue ==
  [][<<status, statusAudit>>' # <<status, statusAudit>> =>
        \/ /\ status' \in Transitions[status]
           /\ statusAudit' = [from |-> status, to |-> status']
        \/ /\ status # "OPEN" /\ status' = "OPEN"
           /\ statusAudit' = [from |-> "CUSTOMER_REPLY", to |-> "OPEN"]]_ticketVars

\* The audit entries of a tag add up to the ticket's tags, whoever adds and
\* removes them at the same time.
TagTrailAddsUp == \A t \in Tags : tagAudit[t] = IF t \in tags THEN 1 ELSE 0

\* tickets.service.ts:1354: "Closed tickets must be reopened before sending a
\* public reply".
ClosedTicketsGetNoReply ==
  [][\A r \in Requests : PostReply(r) => status # "CLOSED"]_ticketVars

=============================================================================
