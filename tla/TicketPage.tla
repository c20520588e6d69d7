------------------------------ MODULE TicketPage ------------------------------
(***************************************************************************)
(* The page of one ticket in the browsers of several agents: its controls, *)
(* its composer and the cache behind it (TanStack Query), with the service *)
(* and the realtime events that tell each page of the others.  Pages have  *)
(* loaded, and are in the ticket's room; RealtimeClient models how they    *)
(* get there.  A change of status is validated in one step and written in  *)
(* another; Tickets has both steps of the other requests.                  *)
(***************************************************************************)

EXTENDS Naturals, FiniteSets

CONSTANTS
  Pages,          (* browser tabs that show the ticket                     *)
  Controls,       (* the controls that are used: "status", "edit"          *)
  MaxChanges,     (* bound: changes of the ticket                          *)
  MaxMessages,    (* bound: messages                                       *)
  MaxFaults       (* bound: failed fetches and lost answers                *)

ASSUME TicketPageAssumption ==
  Controls \subseteq {"status", "edit"} /\ MaxChanges \in Nat /\ MaxMessages \in Nat /\ MaxFaults \in Nat

VARIABLES
  row,            (* the ticket: its status, and how often it changed      *)
  messages,       (* its messages, numbered as they are created            *)
  events,         (* per page: events to come, by the query they refresh   *)
  shows,          (* per page and query: the cached data                   *)
  fetch,          (* per page and query: the fetch under way               *)
  failed,         (* history: per page, queries whose last refetch failed  *)
  control,        (* per page: the mutations of its controls               *)
  composer,       (* per page: the draft                                   *)
  own,            (* history: per page, its last change and its messages   *)
                  (* that were confirmed                                   *)
  faults          (* failed fetches and lost answers so far                *)

storeVars == <<row, messages>>
cacheVars == <<shows, fetch, failed>>
pageVars  == <<cacheVars, control, composer, events, own>>
vars      == <<storeVars, pageVars, faults>>

Queries == {"ticket", "messages"}
Stored  == [ticket |-> row, messages |-> messages]

NoFetch == [at |-> "none"]
Sent    == [at |-> "sent"]
Idle    == [step |-> "idle"]

Statuses == {"OPEN", "PENDING", "RESOLVED", "CLOSED"}
Kinds    == {"PUBLIC_REPLY", "INTERNAL_NOTE"}

\* isStatusTransitionAllowed
Transitions ==
  [OPEN     |-> {"PENDING", "RESOLVED"},
   PENDING  |-> {"OPEN", "RESOLVED"},
   RESOLVED |-> {"OPEN", "CLOSED"},
   CLOSED   |-> {"OPEN"}]

\* Mutant: the page lets pending tickets be closed.
OffersEager(status) == Transitions[status] \cup (IF status = "PENDING" THEN {"CLOSED"} ELSE {})

\* The page has a table of its own.
Offers(status) ==
  CASE status = "OPEN"     -> {"PENDING", "RESOLVED"}
    [] status = "PENDING"  -> {"OPEN", "RESOLVED"}
    [] status = "RESOLVED" -> {"OPEN", "CLOSED"}
    [] status = "CLOSED"   -> {"OPEN"}

Init ==
  /\ row \in [status : Statuses, version : {0}]
  /\ messages = {}
  /\ events = [p \in Pages |-> {}]
  /\ shows = [p \in Pages |-> Stored]
  /\ fetch = [p \in Pages |-> [q \in Queries |-> NoFetch]]
  /\ failed = [p \in Pages |-> {}]
  /\ control = [p \in Pages |-> [c \in {"status", "edit"} |-> Idle]]
  /\ composer = [p \in Pages |-> [step |-> "empty", typed |-> "nothing", kind |-> "nothing", answer |-> {},
                     selected |-> IF row.status = "CLOSED" THEN "INTERNAL_NOTE" ELSE "PUBLIC_REPLY"]]
  /\ own = [p \in Pages |-> [version |-> 0, messages |-> {}]]
  /\ faults = 0

-----------------------------------------------------------------------------
(* The cache.                                                                *)

\* invalidateQueries of a mounted query: a fetch under way is given up for a
\* new one, and with it the refresh that a control was waiting for.
Refetch(p, q) == fetch' = [fetch EXCEPT ![p][q] = Sent]

Refreshed(controls) == [c \in DOMAIN controls |-> IF controls[c].step = "refreshing" THEN Idle ELSE controls[c]]

Read(p, q) ==
  /\ fetch[p][q] = Sent
  /\ fetch' = [fetch EXCEPT ![p][q] = [at |-> "answered", saw |-> Stored[q]]]
  /\ UNCHANGED <<storeVars, events, shows, failed, control, composer, own, faults>>

Show(p, q) ==
  /\ fetch[p][q].at = "answered"
  /\ shows' = [shows EXCEPT ![p][q] = fetch[p][q].saw]
  /\ fetch' = [fetch EXCEPT ![p][q] = NoFetch]
  /\ failed' = [failed EXCEPT ![p] = @ \ {q}]
  /\ control' = IF q = "ticket" THEN [control EXCEPT ![p] = Refreshed(@)] ELSE control
  /\ UNCHANGED <<storeVars, events, composer, own, faults>>

\* The query stays invalid until something else refetches it.
FetchFails(p, q) ==
  /\ fetch[p][q] # NoFetch
  /\ faults < MaxFaults /\ faults' = faults + 1
  /\ fetch' = [fetch EXCEPT ![p][q] = NoFetch]
  /\ failed' = [failed EXCEPT ![p] = @ \cup {q}]
  /\ control' = IF q = "ticket" THEN [control EXCEPT ![p] = Refreshed(@)] ELSE control
  /\ UNCHANGED <<storeVars, events, shows, composer, own>>

-----------------------------------------------------------------------------
(* Events.                                                                   *)

\* Events are published once the change is committed, and arrive some time
\* later: ticket.updated, and ticket.message.created, which is of the ticket too.
Publish(q) == events' = [p \in Pages |-> events[p] \cup {q}]

\* Mutant: an update of the ticket refreshes the lists, not the ticket.
HearListsOnly(p, q) ==
  /\ q \in events[p]
  /\ events' = [events EXCEPT ![p] = @ \ {q}]
  /\ fetch' = IF q = "messages" THEN [fetch EXCEPT ![p] = [r \in Queries |-> Sent]] ELSE fetch
  /\ control' = IF q = "messages" THEN [control EXCEPT ![p] = Refreshed(@)] ELSE control
  /\ UNCHANGED <<storeVars, shows, failed, composer, own, faults>>

\* Mutant: a message refreshes the conversation only.
HearOwnQuery(p, q) ==
  /\ q \in events[p]
  /\ events' = [events EXCEPT ![p] = @ \ {q}]
  /\ fetch' = [fetch EXCEPT ![p][q] = Sent]
  /\ control' = IF q = "ticket" THEN [control EXCEPT ![p] = Refreshed(@)] ELSE control
  /\ UNCHANGED <<storeVars, shows, failed, composer, own, faults>>

Hear(p, q) ==
  /\ q \in events[p]
  /\ events' = [events EXCEPT ![p] = @ \ {q}]
  /\ fetch' = [fetch EXCEPT ![p] = [r \in Queries |-> IF r = q \/ q = "messages" THEN Sent ELSE @[r]]]
  /\ control' = [control EXCEPT ![p] = Refreshed(@)]
  /\ UNCHANGED <<storeVars, shows, failed, composer, own, faults>>

-----------------------------------------------------------------------------
(* The controls: status, and one that stands for priority, assignee, tags    *)
(* and the dialog; each is disabled while its own mutation is pending.       *)

Change(status) ==
  /\ row' = [status |-> status, version |-> row.version + 1]
  /\ Publish("ticket")

SelectStatus(p, next) ==
  /\ "status" \in Controls /\ control[p]["status"] = Idle
  /\ next \in Offers(shows[p].ticket.status)
  /\ control' = [control EXCEPT ![p]["status"] = [step |-> "sent", to |-> next, shown |-> shows[p].ticket]]
  /\ UNCHANGED <<storeVars, cacheVars, composer, events, own, faults>>

SelectOther(p) ==
  /\ "edit" \in Controls /\ control[p]["edit"] = Idle
  /\ control' = [control EXCEPT ![p]["edit"] = [step |-> "editing"]]
  /\ UNCHANGED <<storeVars, cacheVars, composer, events, own, faults>>

Answer(p, c, to) == control' = [control EXCEPT ![p][c] = to]

ValidateStatus(p) ==
  LET asked == control[p]["status"] IN
  /\ asked.step = "sent"
  /\ asked.to \in Transitions[row.status]
  /\ Answer(p, "status", [step |-> "validated", to |-> asked.to, shown |-> asked.shown, seen |-> row.status])
  /\ UNCHANGED <<storeVars, cacheVars, composer, events, own, faults>>

\* Compare-and-set of the status that was validated.
UpdateStatus(p) ==
  LET asked == control[p]["status"] IN
  /\ asked.step = "validated"
  /\ asked.seen = row.status
  /\ row.version < MaxChanges
  /\ Change(asked.to)
  /\ Answer(p, "status", [step |-> "written", version |-> row.version + 1])
  /\ UNCHANGED <<messages, cacheVars, composer, own, faults>>

\* 409: the ticket has that status, or may not change to it, or has changed since
\* it was validated; the page shows the error and what it showed before.
RefuseStatus(p) ==
  LET asked == control[p]["status"] IN
  /\ \/ asked.step = "sent" /\ asked.to \notin Transitions[row.status]
     \/ asked.step = "validated" /\ asked.seen # row.status
  /\ Answer(p, "status", Idle)
  /\ UNCHANGED <<storeVars, cacheVars, composer, events, own, faults>>

UpdateOther(p) ==
  /\ control[p]["edit"].step = "editing"
  /\ row.version < MaxChanges
  /\ Change(row.status)
  /\ Answer(p, "edit", [step |-> "written", version |-> row.version + 1])
  /\ UNCHANGED <<messages, cacheVars, composer, own, faults>>

\* Mutant: a fetch under way is good enough.
RefreshLazily(p, c) ==
  /\ control[p][c].step = "written"
  /\ fetch' = [fetch EXCEPT ![p]["ticket"] = IF @ = NoFetch THEN Sent ELSE @]
  /\ Answer(p, c, [control[p][c] EXCEPT !.step = "refreshing"])
  /\ own' = [own EXCEPT ![p].version = IF @ < control[p][c].version THEN control[p][c].version ELSE @]
  /\ UNCHANGED <<storeVars, shows, failed, composer, events, faults>>

\* onSuccess: the control stays pending until the ticket is refetched.
Refresh(p, c) ==
  /\ control[p][c].step = "written"
  /\ Refetch(p, "ticket")
  /\ control' = [control EXCEPT ![p] = [Refreshed(@) EXCEPT ![c] = [control[p][c] EXCEPT !.step = "refreshing"]]]
  /\ own' = [own EXCEPT ![p].version = IF @ < control[p][c].version THEN control[p][c].version ELSE @]
  /\ UNCHANGED <<storeVars, shows, failed, composer, events, faults>>

\* onError: the page keeps what it shows, and waits for the event.  A request it
\* has given up may still be written, as if by another client.
LoseAnswer(p, c) ==
  /\ control[p][c].step \in {"sent", "validated", "editing", "written"}
  /\ faults < MaxFaults /\ faults' = faults + 1
  /\ Answer(p, c, Idle)
  /\ UNCHANGED <<storeVars, cacheVars, composer, events, own>>

-----------------------------------------------------------------------------
(* The composer.                                                             *)

Draft(p, d) == composer' = [composer EXCEPT ![p] = d]

\* What the page would send now: a closed ticket takes notes only.
Kind(p) == IF shows[p].ticket.status = "CLOSED" THEN "INTERNAL_NOTE" ELSE composer[p].selected

Type(p) ==
  /\ composer[p].step = "empty"
  /\ Draft(p, [composer[p] EXCEPT !.step = "draft", !.typed = Kind(p)])
  /\ UNCHANGED <<storeVars, cacheVars, control, events, own, faults>>

\* Reply is disabled on a closed ticket.  A kind picked for an empty draft is one
\* picked later.
SelectKind(p, k) ==
  /\ composer[p].step = "draft"
  /\ k = "PUBLIC_REPLY" => shows[p].ticket.status # "CLOSED"
  /\ Draft(p, [composer[p] EXCEPT !.selected = k, !.typed = k])
  /\ UNCHANGED <<storeVars, cacheVars, control, events, own, faults>>

\* The files are uploaded one after the other, and then the message is posted.
Submit(p) ==
  /\ composer[p].step = "draft"
  /\ Draft(p, [composer[p] EXCEPT !.step = "sending", !.kind = Kind(p)])
  /\ UNCHANGED <<storeVars, cacheVars, control, events, own, faults>>

Message == Cardinality(messages) + 1

\* Mutant: no event announces a note.
CreateQuietly(p) ==
  LET d == composer[p] IN
  /\ d.step = "sending"
  /\ d.kind = "PUBLIC_REPLY" => row.status # "CLOSED"
  /\ Cardinality(messages) < MaxMessages
  /\ messages' = messages \cup {Message}
  /\ IF d.kind = "INTERNAL_NOTE" THEN UNCHANGED events ELSE Publish("messages")
  /\ Draft(p, [d EXCEPT !.step = "posted", !.answer = {Message}])
  /\ UNCHANGED <<row, cacheVars, control, own, faults>>

CreateMessage(p) ==
  LET d == composer[p] IN
  /\ d.step = "sending"
  /\ d.kind = "PUBLIC_REPLY" => row.status # "CLOSED"
  /\ Cardinality(messages) < MaxMessages
  /\ messages' = messages \cup {Message}
  /\ Publish("messages")
  /\ Draft(p, [d EXCEPT !.step = "posted", !.answer = {Message}])
  /\ UNCHANGED <<row, cacheVars, control, own, faults>>

\* A closed ticket takes no public reply: 409.
RefuseMessage(p) ==
  /\ composer[p].step = "sending"
  /\ composer[p].kind = "PUBLIC_REPLY" /\ row.status = "CLOSED"
  /\ Draft(p, [composer[p] EXCEPT !.step = "draft", !.kind = "nothing", !.answer = {}])
  /\ UNCHANGED <<storeVars, cacheVars, control, events, own, faults>>

\* onSuccess: setQueryData, which ends no fetch that is under way.
Appear(p) ==
  /\ composer[p].step = "posted"
  /\ shows' = [shows EXCEPT ![p].messages = @ \cup composer[p].answer]
  /\ own' = [own EXCEPT ![p].messages = @ \cup composer[p].answer]
  /\ Draft(p, [composer[p] EXCEPT !.step = "empty", !.typed = "nothing", !.kind = "nothing", !.answer = {}])
  /\ UNCHANGED <<storeVars, fetch, failed, control, events, faults>>

\* onError: the draft stays, to be sent again, whether or not a message was, or
\* will be, created of it.
LoseMessage(p) ==
  /\ composer[p].step \in {"sending", "posted"}
  /\ faults < MaxFaults /\ faults' = faults + 1
  /\ Draft(p, [composer[p] EXCEPT !.step = "draft", !.kind = "nothing", !.answer = {}])
  /\ UNCHANGED <<storeVars, cacheVars, control, events, own>>

\* createMessage for another client, or for a request that a page has given up.
CreateElsewhere ==
  /\ Cardinality(messages) < MaxMessages
  /\ messages' = messages \cup {Message}
  /\ Publish("messages")
  /\ UNCHANGED <<row, cacheVars, control, composer, own, faults>>

\* An email of the customer, which module InboundEmail models.
CustomerReplies ==
  /\ Cardinality(messages) < MaxMessages
  /\ messages' = messages \cup {Message}
  /\ row' = IF row.status = "OPEN" THEN row ELSE [status |-> "OPEN", version |-> row.version + 1]
  /\ Publish("messages")
  /\ UNCHANGED <<cacheVars, control, composer, own, faults>>

\* A change by another client of the service: its ticket list, or a tab that is
\* not one of Pages.
ChangeElsewhere(next) ==
  /\ next \in Transitions[row.status] \cup {row.status}
  /\ row.version < MaxChanges
  /\ Change(next)
  /\ UNCHANGED <<messages, cacheVars, control, composer, own, faults>>

-----------------------------------------------------------------------------

Load(p, q) == Read(p, q) \/ Show(p, q) \/ Hear(p, q)

Next ==
  \/ CustomerReplies \/ CreateElsewhere
  \/ \E s \in Statuses : ChangeElsewhere(s)
  \/ \E p \in Pages, q \in Queries : Load(p, q) \/ FetchFails(p, q)
  \/ \E p \in Pages :
       \/ \E s \in Statuses : SelectStatus(p, s)
       \/ SelectOther(p) \/ ValidateStatus(p) \/ UpdateStatus(p) \/ RefuseStatus(p) \/ UpdateOther(p)
       \/ \E c \in {"status", "edit"} : Refresh(p, c) \/ LoseAnswer(p, c)
       \/ Type(p) \/ (\E k \in Kinds : SelectKind(p, k)) \/ Submit(p)
       \/ CreateMessage(p) \/ RefuseMessage(p) \/ Appear(p) \/ LoseMessage(p)

Spec == Init /\ [][Next]_vars

-----------------------------------------------------------------------------
(* Properties.                                                               *)

Ticket     == [status : Statuses, version : Nat]
MessageSet == SUBSET Nat
Data       == [ticket : Ticket, messages : MessageSet]
Owned      == [version : Nat, messages : MessageSet]
Fetched(S) == {NoFetch, Sent} \cup [at : {"answered"}, saw : S]
Mutation   == {Idle} \cup [step : {"editing"}] \cup [step : {"sent"}, to : Statuses, shown : Ticket]
                \cup [step : {"validated"}, to : Statuses, shown : Ticket, seen : Statuses]
                \cup [step : {"written", "refreshing"}, version : Nat]
Composer   == [step : {"empty", "draft", "sending", "posted"}, selected : Kinds,
               typed : Kinds \cup {"nothing"}, kind : Kinds \cup {"nothing"}, answer : MessageSet]

\* Type correctness: a page shows and fetches what its queries return, and what
\* it sends has a kind until the request is settled.
TypeOK ==
  /\ row \in Ticket /\ messages \in MessageSet
  /\ shows \in [Pages -> Data]
  /\ fetch \in [Pages -> [ticket : Fetched(Ticket), messages : Fetched(MessageSet)]]
  /\ events \in [Pages -> SUBSET Queries] /\ failed \in [Pages -> SUBSET Queries]
  /\ control \in [Pages -> [status : Mutation, edit : Mutation]]
  /\ composer \in [Pages -> Composer]
  /\ \A p \in Pages : composer[p].step \in {"sending", "posted"} <=> composer[p].kind # "nothing"
  /\ own \in [Pages -> Owned]
  /\ faults \in Nat

Pending(p, q) == {q, "messages"} \cap events[p] # {}

\* Whatever mutations, events and fetches overlap: a page that does not show
\* what is stored has an event or a fetch coming that started late enough, or
\* its last refetch failed; and an answer that is out of date is not the last.
PagesCatchUp ==
  \A p \in Pages, q \in Queries :
    /\ fetch[p][q] = NoFetch /\ shows[p][q] # Stored[q] => Pending(p, q) \/ q \in failed[p]
    /\ fetch[p][q].at = "answered" => fetch[p][q].saw = Stored[q] \/ Pending(p, q)

Coming(p, q, Has(_)) == fetch[p][q] = Sent \/ (fetch[p][q].at = "answered" /\ Has(fetch[p][q].saw))

\* A change that was confirmed to a page is not taken back on it: the page
\* shows it, or a fetch that includes it is under way, or the refetch failed.
OwnChangesAreShown ==
  \A p \in Pages :
    LET Has(ticket) == ticket.version >= own[p].version IN
    Has(shows[p].ticket) \/ Coming(p, "ticket", Has) \/ "ticket" \in failed[p]

\* A message that was sent appears and stays, unless an event or a fetch is
\* about to bring it back.
OwnMessagesAreShown ==
  \A p \in Pages :
    LET Has(shown) == own[p].messages \subseteq shown IN
    \/ Has(shows[p].messages)
    \/ Coming(p, "messages", Has) \/ Pending(p, "messages") \/ "messages" \in failed[p]

\* The service refuses a change of status only when the ticket has changed since
\* the state in which the page offered it, by what it validates and by what it
\* compares: also when the ticket left that status and has it again.
RefusalsMeanStalePages ==
  [][\A p \in Pages : RefuseStatus(p) => row.version > control[p]["status"].shown.version]_vars

\* docs/architecture.md: "Internal notes do not send email".  What was typed as
\* a note is sent as one.
NotesStayInternal ==
  [][\A p \in Pages :
       CreateMessage(p) /\ composer[p].typed = "INTERNAL_NOTE" => composer[p].kind = "INTERNAL_NOTE"]_vars

===============================================================================
