------------------------------- MODULE Directory -------------------------------
(***************************************************************************)
(* The customers of one organization: CustomersService, which checks in    *)
(* queries of their own before the transaction that writes, the tickets    *)
(* that TicketsService creates for customers, and the pages and dialogs    *)
(* from which agents write.  Addresses are in lower case (the DTOs see to  *)
(* it) and stand for a customer's other fields, which nothing compares.    *)
(***************************************************************************)

EXTENDS Naturals

CONSTANTS
  Agents,         (* agents with a page each; one request at a time        *)
  Customers,      (* the customers there can be                            *)
  Emails,         (* addresses                                             *)
  None            (* no address, no customer, no form                      *)

ASSUME DirectoryAssumption == None \notin Emails \cup Customers

VARIABLES
  customer,       (* the rows                                              *)
  tickets,        (* customers with tickets that agents created            *)
  req,            (* per agent: the request under way                      *)
  page,           (* per agent: the customer shown, and the form's draft   *)
  overtaken,      (* history: requests that read before another one wrote  *)
  raced           (* history: customers last written by such a request     *)

storeVars   == <<customer, tickets>>
historyVars == <<overtaken, raced>>
vars        == <<storeVars, req, page, historyVars>>

NoRow   == [state |-> "none", email |-> None]
Idle    == [step |-> "idle"]
NewPage == [of |-> None, shows |-> NoRow, draft |-> None]   (* the list, with its form *)

Taken(e, c) == \E d \in Customers \ {c} : customer[d].state = "active" /\ customer[d].email = e

Init ==
  /\ customer = [c \in Customers |-> NoRow]
  /\ tickets = {}
  /\ req = [a \in Agents |-> Idle]
  /\ page = [a \in Agents |-> NewPage]
  /\ overtaken = {} /\ raced = {}

-----------------------------------------------------------------------------
(* Pages.                                                                    *)

\* The form takes the customer's fields when it is mounted, and keeps what is
\* typed when the customer is fetched again; archived customers have no form.
Shown(p, c, row) ==
  [of |-> c, shows |-> row,
   draft |-> IF row.state = "archived" THEN None
             ELSE IF p.of = c /\ p.shows.state = "active" THEN p.draft ELSE row.email]

\* Mutant: the page of a customer that is not found is shown all the same.
VisitAny(a, c) ==
  /\ req[a] = Idle
  /\ page' = [page EXCEPT ![a] = Shown(NewPage, c, customer[c])]
  /\ UNCHANGED <<storeVars, req, historyVars>>

Visit(a, c) ==
  /\ req[a] = Idle
  /\ customer[c].state # "none"
  /\ page' = [page EXCEPT ![a] = Shown(NewPage, c, customer[c])]
  /\ UNCHANGED <<storeVars, req, historyVars>>

VisitList(a) ==
  /\ req[a] = Idle
  /\ page' = [page EXCEPT ![a] = NewPage]
  /\ UNCHANGED <<storeVars, req, historyVars>>

TypeEmail(a, e) ==
  /\ req[a] = Idle
  /\ page[a].shows.state # "archived"
  /\ page' = [page EXCEPT ![a].draft = e]
  /\ UNCHANGED <<storeVars, req, historyVars>>

Send(a, op, c, e) ==
  /\ req[a] = Idle
  /\ req' = [req EXCEPT ![a] = [step |-> "sent", op |-> op, of |-> c, email |-> e]]
  /\ UNCHANGED <<storeVars, page, historyVars>>

\* All fields of the form, changed or not.
SubmitForm(a) ==
  LET p == page[a] IN
  \/ p.of = None /\ Send(a, "create", None, p.draft)
  \/ p.of # None /\ p.shows.state = "active" /\ Send(a, "update", p.of, p.draft)

ConfirmArchive(a) == page[a].shows.state = "active" /\ Send(a, "archive", page[a].of, None)

PressRestore(a) == page[a].shows.state = "archived" /\ Send(a, "restore", page[a].of, None)

\* POST tickets; the web application has no form for it.
PostTicket(a, c) == customer[c].state # "none" /\ Send(a, "ticket", c, None)

\* onSuccess: the queries are invalidated, and a new customer's page opens.
Succeed(a) ==
  LET r == req[a] IN
  /\ r.step = "done"
  /\ page' = IF r.of = page[a].of \/ r.op = "create"
             THEN [page EXCEPT ![a] = Shown(@, r.of, customer[r.of])] ELSE page
  /\ req' = [req EXCEPT ![a] = Idle]
  /\ UNCHANGED <<storeVars, historyVars>>

-----------------------------------------------------------------------------
(* The service: findFirst, assertEmailAvailable, transaction.                *)

Step(a, r) == req' = [req EXCEPT ![a] = r]

\* An error is answered: the page shows it and keeps what it has.
Fail(a) == Step(a, Idle) /\ UNCHANGED <<storeVars, page, historyVars>>

\* From here on others may overtake the request.
Found(a, r) ==
  /\ Step(a, r)
  /\ overtaken' = overtaken \ {a}
  /\ UNCHANGED <<storeVars, page, raced>>

\* Mutant: the row that an archive or a restore finds may be in any state.
FindAnyCustomer(a) ==
  LET r == req[a]
      row == customer[r.of] IN
  /\ r.step = "sent"
  /\ \/ r.op = "create" /\ Found(a, [r EXCEPT !.step = "found"])
     \/ r.op = "update" /\ row.state = "active" /\ Found(a, [r EXCEPT !.step = "found"])
     \/ r.op = "archive" /\ Found(a, [r EXCEPT !.step = "checked"])
     \/ r.op = "restore" /\ 
          Found(a, [step |-> "found", op |-> "restore", of |-> r.of, email |-> row.email])
     \/ r.op = "ticket" /\ row.state = "active" /\ Found(a, [r EXCEPT !.step = "checked"])

FindCustomer(a) ==
  LET r == req[a]
      row == customer[r.of] IN
  /\ r.step = "sent"
  /\ \/ r.op = "create" /\ Found(a, [r EXCEPT !.step = "found"])
     \/ r.op = "update" /\ row.state = "active" /\ Found(a, [r EXCEPT !.step = "found"])
     \/ r.op = "archive" /\ row.state = "active" /\ Found(a, [r EXCEPT !.step = "checked"])
     \/ r.op = "restore" /\ row.state = "archived" /\
          Found(a, [step |-> "found", op |-> "restore", of |-> r.of, email |-> row.email])
     \/ r.op = "ticket" /\ row.state = "active" /\ Found(a, [r EXCEPT !.step = "checked"])

\* Archived customers are neither updated nor given tickets.
RefuseArchived(a) ==
  /\ req[a].step = "sent"
  /\ req[a].op \in {"update", "ticket"} /\ customer[req[a].of].state = "archived"
  /\ Fail(a)

\* Archived already, or restored already: answered with the row as it is.
NothingToDo(a) ==
  /\ req[a].step = "sent"
  /\ \/ req[a].op = "archive" /\ customer[req[a].of].state = "archived"
     \/ req[a].op = "restore" /\ customer[req[a].of].state = "active"
  /\ Step(a, [req[a] EXCEPT !.step = "done"])
  /\ UNCHANGED <<storeVars, page, historyVars>>

\* Mutant: a customer that is restored had its address before.
CheckEmailOfNew(a) ==
  LET r == req[a] IN
  /\ r.step = "found"
  /\ r.op = "restore" \/ ~ Taken(r.email, r.of)
  /\ Step(a, [r EXCEPT !.step = "checked"])
  /\ UNCHANGED <<storeVars, page, historyVars>>

\* assertEmailAvailable, for customers with an address.
CheckEmail(a) ==
  LET r == req[a] IN
  /\ r.step = "found"
  /\ r.email = None \/ ~ Taken(r.email, r.of)
  /\ Step(a, [r EXCEPT !.step = "checked"])
  /\ UNCHANGED <<storeVars, page, historyVars>>

RefuseEmail(a) ==
  /\ req[a].step = "found"
  /\ req[a].email # None /\ Taken(req[a].email, req[a].of)
  /\ Fail(a)

Reading == {a \in Agents : req[a].step \in {"found", "checked"}}

Ready(a, op) == req[a].step = "checked" /\ req[a].op = op

Done(a, c) == Step(a, [step |-> "done", op |-> req[a].op, of |-> c, email |-> None])

\* The transaction of a request for customer c; its audit entry is left out.
Commit(a, c, row) ==
  /\ customer' = [customer EXCEPT ![c] = row]
  /\ overtaken' = (overtaken \cup Reading) \ {a}
  /\ raced' = IF a \in overtaken THEN raced \cup {c} ELSE raced \ {c}
  /\ Done(a, c)
  /\ UNCHANGED <<tickets, page>>

CreateCustomer(a, c) ==
  /\ Ready(a, "create") /\ customer[c].state = "none"
  /\ Commit(a, c, [state |-> "active", email |-> req[a].email])

\* By id: whatever became of the row.
UpdateCustomer(a) ==
  LET c == req[a].of IN
  /\ Ready(a, "update")
  /\ Commit(a, c, [customer[c] EXCEPT !.email = req[a].email])

ArchiveCustomer(a) ==
  LET c == req[a].of IN
  /\ Ready(a, "archive")
  /\ Commit(a, c, [customer[c] EXCEPT !.state = "archived"])

RestoreCustomer(a) ==
  LET c == req[a].of IN
  /\ Ready(a, "restore")
  /\ Commit(a, c, [customer[c] EXCEPT !.state = "active"])

\* TicketsService.create.
CreateTicket(a) ==
  /\ Ready(a, "ticket")
  /\ tickets' = tickets \cup {req[a].of}
  /\ Done(a, req[a].of)
  /\ UNCHANGED <<customer, page, historyVars>>

-----------------------------------------------------------------------------

Write(a) ==
  \/ \E c \in Customers : CreateCustomer(a, c)
  \/ UpdateCustomer(a) \/ ArchiveCustomer(a) \/ RestoreCustomer(a) \/ CreateTicket(a)

Serve(a) ==
  \/ FindCustomer(a) \/ RefuseArchived(a) \/ NothingToDo(a)
  \/ CheckEmail(a) \/ RefuseEmail(a) \/ Write(a)

Browse(a) ==
  \/ \E c \in Customers : Visit(a, c) \/ PostTicket(a, c)
  \/ VisitList(a)
  \/ \E e \in Emails \cup {None} : TypeEmail(a, e)
  \/ SubmitForm(a) \/ ConfirmArchive(a) \/ PressRestore(a) \/ Succeed(a)

Next == \E a \in Agents : Serve(a) \/ Browse(a)

Spec == Init /\ [][Next]_vars

-----------------------------------------------------------------------------
(* Properties.                                                               *)

Row     == [state : {"none", "active", "archived"}, email : Emails \cup {None}]
Request ==
  {Idle} \cup [step : {"sent", "found", "checked", "done"}, of : Customers \cup {None},
               op : {"create", "update", "archive", "restore", "ticket"}, email : Emails \cup {None}]

\* Type correctness; requests and pages name customers that exist.
TypeOK ==
  /\ customer \in [Customers -> Row]
  /\ tickets \subseteq Customers
  /\ req \in [Agents -> Request]
  /\ \A a \in Agents : req[a] # Idle =>
       IF req[a].op = "create" /\ req[a].step # "done" THEN req[a].of = None
       ELSE req[a].of \in Customers /\ customer[req[a].of].state # "none"
  /\ page \in [Agents -> [of : Customers \cup {None}, shows : Row, draft : Emails \cup {None}]]
  /\ \A a \in Agents : (page[a].of = None <=> page[a].shows.state = "none")
  /\ overtaken \subseteq Agents /\ raced \subseteq Customers

\* "An active customer with this email already exists" is checked before the
\* transaction, for three operations in three ways.  Two active customers have
\* one address only where a request wrote after it had been overtaken.
DuplicatesNeedARace ==
  \A c, d \in Customers :
    /\ c # d /\ customer[c].state = "active" /\ customer[d].state = "active"
    /\ customer[c].email = customer[d].email /\ customer[c].email # None
    => c \in raced \/ d \in raced

\* What the checks are for, at the moment of the write.
Legal(a) ==
  LET r == req[a] IN
  CASE r.op = "create"  -> r.email = None \/ ~ Taken(r.email, r.of)
    [] r.op = "update"  -> customer[r.of].state = "active" /\ (r.email = None \/ ~ Taken(r.email, r.of))
    [] r.op = "archive" -> customer[r.of].state = "active"
    [] r.op = "restore" -> customer[r.of].state = "archived" /\ (r.email = None \/ ~ Taken(customer[r.of].email, r.of))
    [] r.op = "ticket"  -> customer[r.of].state = "active"

\* Archived customers get no update and no ticket, and are archived and
\* restored in turn, unless a request was overtaken.
WritesAreLegal == [][\A a \in Agents : Write(a) => Legal(a) \/ a \in overtaken]_vars

===============================================================================
