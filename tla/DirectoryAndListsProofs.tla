------------------------ MODULE DirectoryAndListsProofs ------------------------
(***************************************************************************)
(* Theorems about Directory, for any agents, customers and addresses, and  *)
(* about Lists, for any tickets, addresses and page size, and any number   *)
(* of changes and faults.  The two share no variable: Lists is the inbox   *)
(* and the customer list, Directory the customers behind one of them.      *)
(***************************************************************************)

EXTENDS Directory, Lists, TLAPS

-----------------------------------------------------------------------------
(* The customers.                                                            *)

\* The customer of a page has a row, and rows are never deleted.
PagesExist == \A a \in Agents : page[a].of # None => customer[page[a].of].state # "none"

\* What a request has read still holds, unless another one has written since.
Prepared(a) ==
  req[a].step \in {"found", "checked"} /\ a \notin overtaken =>
    /\ req[a].op \in {"update", "archive", "ticket"} => customer[req[a].of].state = "active"
    /\ req[a].op = "restore" =>
         customer[req[a].of].state = "archived" /\ customer[req[a].of].email = req[a].email
    /\ req[a].step = "checked" /\ req[a].op \in {"create", "update", "restore"} =>
         req[a].email = None \/ ~ Taken(req[a].email, req[a].of)

DirInv == TypeOK /\ PagesExist /\ DuplicatesNeedARace /\ \A a \in Agents : Prepared(a)

-----------------------------------------------------------------------------
(* Requests.                                                                 *)

Steps == {"sent", "found", "checked", "done"}
Ops   == {"create", "update", "archive", "restore", "ticket"}

\* What TypeOK says of a request that is not idle.
LEMMA RequestFields ==
  ASSUME TypeOK, NEW a \in Agents, req[a].step # "idle"
  PROVE  /\ req[a] # Idle
         /\ req[a] = [step |-> req[a].step, of |-> req[a].of, op |-> req[a].op, email |-> req[a].email]
         /\ req[a].step \in Steps /\ req[a].op \in Ops
         /\ req[a].of \in Customers \cup {None} /\ req[a].email \in Emails \cup {None}
         /\ IF req[a].op = "create" /\ req[a].step # "done" THEN req[a].of = None
            ELSE req[a].of \in Customers /\ customer[req[a].of].state # "none"
<1>1. req[a] \in Request
  BY DEF TypeOK
<1>2. req[a] # Idle
  BY DEF Idle
<1>3. req[a] \in [step : Steps, of : Customers \cup {None}, op : Ops, email : Emails \cup {None}]
  BY <1>1, <1>2 DEF Request, Steps, Ops
<1> QED
  BY <1>2, <1>3 DEF TypeOK, Steps, Ops

\* A page for a customer that has a row is a page.
LEMMA ShownIsAPage ==
  ASSUME TypeOK, NEW p \in [of : Customers \cup {None}, shows : Row, draft : Emails \cup {None}],
         NEW c \in Customers, customer[c].state # "none"
  PROVE  /\ Shown(p, c, customer[c]) \in [of : Customers \cup {None}, shows : Row, draft : Emails \cup {None}]
         /\ Shown(p, c, customer[c]).of = c
         /\ Shown(p, c, customer[c]).shows = customer[c]
<1>1. customer[c] \in Row
  BY DEF TypeOK
<1>2. customer[c].email \in Emails \cup {None}
  BY <1>1 DEF Row
<1>3. PICK d \in Emails \cup {None} : Shown(p, c, customer[c]) = [of |-> c, shows |-> customer[c], draft |-> d]
  <2>1. p.draft \in Emails \cup {None}
    OBVIOUS
  <2> QED
    BY <1>2, <2>1 DEF Shown
<1> QED
  BY <1>1, <1>3

LEMMA DirInit == ASSUME Init PROVE DirInv
<1> USE DirectoryAssumption DEF Init, NoRow, NewPage, Idle
<1>1. NoRow \in Row
  BY DEF Row
<1>2. TypeOK
  BY <1>1 DEF TypeOK, Request
<1>3. PagesExist
  BY DEF PagesExist
<1>4. DuplicatesNeedARace
  BY DEF DuplicatesNeedARace
<1>5. \A a \in Agents : Prepared(a)
  BY DEF Prepared
<1> QED
  BY <1>2, <1>3, <1>4, <1>5 DEF DirInv

-----------------------------------------------------------------------------
(* Steps of the pages: no row changes.                                       *)

\* A step that changes only the page of one agent, to a page.
LEMMA PageStep ==
  ASSUME DirInv, NEW a \in Agents,
         NEW p \in [of : Customers \cup {None}, shows : Row, draft : Emails \cup {None}],
         p.of = None <=> p.shows.state = "none",
         p.of # None => customer[p.of].state # "none",
         page' = [page EXCEPT ![a] = p],
         UNCHANGED <<storeVars, req, historyVars>>
  PROVE  DirInv'
<1> USE DEF DirInv, storeVars, historyVars
<1>1. page' \in [Agents -> [of : Customers \cup {None}, shows : Row, draft : Emails \cup {None}]]
  BY DEF TypeOK
<1>2. \A b \in Agents : page'[b] = IF b = a THEN p ELSE page[b]
  BY DEF TypeOK
<1>3. TypeOK'
  BY <1>1, <1>2 DEF TypeOK
<1>4. PagesExist'
  BY <1>2 DEF PagesExist
<1>5. DuplicatesNeedARace'
  BY DEF DuplicatesNeedARace
<1>6. ASSUME NEW b \in Agents PROVE Prepared(b)'
  BY DEF Prepared, Taken
<1> QED
  BY <1>3, <1>4, <1>5, <1>6

\* A step that changes only the request of one agent, to one that is idle, sent
\* or done, or one whose reading still holds.
LEMMA RequestStep ==
  ASSUME DirInv, NEW a \in Agents, NEW r \in Request,
         r # Idle => IF r.op = "create" /\ r.step # "done" THEN r.of = None
                     ELSE r.of \in Customers /\ customer[r.of].state # "none",
         Step(a, r), UNCHANGED <<storeVars, page, raced>>,
         overtaken' \in {overtaken, overtaken \ {a}},
         Prepared(a)'
  PROVE  DirInv'
<1> USE DEF DirInv, storeVars
<1>1. \A b \in Agents : req'[b] = IF b = a THEN r ELSE req[b]
  BY DEF TypeOK, Step
<1>2. req' \in [Agents -> Request]
  BY DEF TypeOK, Step
<1>3. TypeOK'
  BY <1>1, <1>2 DEF TypeOK
<1>4. PagesExist'
  BY DEF PagesExist
<1>5. DuplicatesNeedARace'
  BY DEF DuplicatesNeedARace
<1>6. ASSUME NEW b \in Agents PROVE Prepared(b)'
  <2>1. CASE b = a
    BY <2>1
  <2>2. CASE b # a
    <3>1. req'[b] = req[b] /\ (b \in overtaken' <=> b \in overtaken)
      BY <1>1, <2>2
    <3> QED
      BY <3>1 DEF Prepared, Taken
  <2> QED
    BY <2>1, <2>2
<1> QED
  BY <1>3, <1>4, <1>5, <1>6

LEMMA SendStep ==
  ASSUME DirInv, NEW a \in Agents, NEW op \in Ops, NEW c \in Customers \cup {None}, NEW e \in Emails \cup {None},
         IF op = "create" THEN c = None ELSE c \in Customers /\ customer[c].state # "none", Send(a, op, c, e)
  PROVE  DirInv'
<1>1. PICK r : r = [step |-> "sent", op |-> op, of |-> c, email |-> e]
  OBVIOUS
<1>2. r \in Request /\ r.op = op /\ r.of = c /\ r.step = "sent"
  BY <1>1 DEF Request, Ops
<1>3. Step(a, r) /\ UNCHANGED <<storeVars, page, raced, overtaken>>
  BY <1>1 DEF Send, Step, historyVars
<1>4. Prepared(a)'
  <2>1. req'[a] = r
    BY <1>3 DEF Step, DirInv, TypeOK
  <2> QED
    BY <1>2, <2>1 DEF Prepared
<1> QED
  BY <1>2, <1>3, <1>4, RequestStep

LEMMA BrowseStep == ASSUME DirInv, NEW a \in Agents, Browse(a) PROVE DirInv'
<1> USE DirectoryAssumption
<1> DEFINE Page == [of : Customers \cup {None}, shows : Row, draft : Emails \cup {None}]
<1>1. /\ page[a] \in Page /\ (page[a].of = None <=> page[a].shows.state = "none")
      /\ page[a].of # None => page[a].of \in Customers /\ customer[page[a].of].state # "none"
      /\ page[a].draft \in Emails \cup {None}
  BY DEF DirInv, TypeOK, PagesExist
<1>2. NewPage \in Page /\ NewPage.of = None /\ NewPage.shows.state = "none"
  BY DEF NewPage, NoRow, Row
<1>3. ASSUME NEW c \in Customers, Visit(a, c) PROVE DirInv'
  <2>1. customer[c].state # "none"
    BY <1>3 DEF Visit
  <2>2. PICK p : p = Shown(NewPage, c, customer[c])
    OBVIOUS
  <2>3. p \in Page /\ p.of = c /\ p.shows = customer[c]
    BY <1>2, <2>1, <2>2, ShownIsAPage DEF DirInv
  <2>4. page' = [page EXCEPT ![a] = p] /\ UNCHANGED <<storeVars, req, historyVars>>
    BY <1>3, <2>2 DEF Visit
  <2> QED
    BY <2>1, <2>3, <2>4, PageStep
<1>4. ASSUME NEW c \in Customers, PostTicket(a, c) PROVE DirInv'
  BY <1>4, SendStep DEF PostTicket, Ops
<1>5. ASSUME VisitList(a) PROVE DirInv'
  BY <1>2, <1>5, PageStep DEF VisitList
<1>6. ASSUME NEW e \in Emails \cup {None}, TypeEmail(a, e) PROVE DirInv'
  <2>1. PICK p : p = [page[a] EXCEPT !.draft = e]
    OBVIOUS
  <2>2. p \in Page /\ p.of = page[a].of /\ p.shows = page[a].shows
    BY <1>1, <2>1
  <2>3. page' = [page EXCEPT ![a] = p] /\ UNCHANGED <<storeVars, req, historyVars>>
    BY <1>6, <2>1 DEF TypeEmail, DirInv, TypeOK
  <2> QED
    BY <1>1, <2>2, <2>3, PageStep
<1>7. ASSUME SubmitForm(a) PROVE DirInv'
  BY <1>1, <1>7, SendStep DEF SubmitForm, Ops
<1>8. ASSUME ConfirmArchive(a) PROVE DirInv'
  BY <1>1, <1>8, SendStep DEF ConfirmArchive, Ops
<1>9. ASSUME PressRestore(a) PROVE DirInv'
  BY <1>1, <1>9, SendStep DEF PressRestore, Ops
<1>10. ASSUME Succeed(a) PROVE DirInv'
  <2>1. req[a].step # "idle" /\ req[a].step = "done"
    BY <1>10 DEF Succeed
  <2>2. PICK c \in Customers : c = req[a].of /\ customer[c].state # "none"
    BY <2>1, RequestFields DEF DirInv
  <2>3. PICK p : p = Shown(page[a], c, customer[c])
    OBVIOUS
  <2>4. p \in Page /\ p.of = c /\ p.shows = customer[c]
    BY <1>1, <2>2, <2>3, ShownIsAPage DEF DirInv
  <2>5. PICK q \in Page : /\ page' = [page EXCEPT ![a] = q] /\ (q.of = None <=> q.shows.state = "none")
                          /\ q.of # None => customer[q.of].state # "none"
    <3>1. CASE c = page[a].of \/ req[a].op = "create"
      <4>1. page' = [page EXCEPT ![a] = p]
        BY <1>10, <2>2, <2>3, <3>1 DEF Succeed, DirInv, TypeOK
      <4> QED
        BY <2>2, <2>4, <4>1
    <3>2. CASE ~ (c = page[a].of \/ req[a].op = "create")
      <4>1. page' = [page EXCEPT ![a] = page[a]]
        BY <1>10, <2>2, <3>2 DEF Succeed, DirInv, TypeOK
      <4> QED
        BY <1>1, <4>1
    <3> QED
      BY <3>1, <3>2
  <2>6. req' = [req EXCEPT ![a] = Idle] /\ UNCHANGED <<storeVars, historyVars>>
    BY <1>10 DEF Succeed
  <2>7. /\ \A b \in Agents : req'[b] = IF b = a THEN Idle ELSE req[b]
        /\ req' \in [Agents -> Request]
    BY <2>6 DEF DirInv, TypeOK, Request
  <2>8. \A b \in Agents : page'[b] = IF b = a THEN q ELSE page[b]
    BY <2>5 DEF DirInv, TypeOK
  <2>9. page' \in [Agents -> Page]
    BY <2>5 DEF DirInv, TypeOK
  <2>10. TypeOK'
    BY <2>5, <2>6, <2>7, <2>8, <2>9 DEF DirInv, TypeOK, storeVars, historyVars
  <2>11. PagesExist'
    BY <2>5, <2>6, <2>8 DEF DirInv, PagesExist, storeVars
  <2>12. DuplicatesNeedARace'
    BY <2>6 DEF DirInv, DuplicatesNeedARace, storeVars, historyVars
  <2>13. ASSUME NEW b \in Agents PROVE Prepared(b)'
    BY <2>6, <2>7 DEF DirInv, Prepared, Taken, storeVars, historyVars, Idle
  <2> QED
    BY <2>10, <2>11, <2>12, <2>13 DEF DirInv
<1> QED
  BY <1>3, <1>4, <1>5, <1>6, <1>7, <1>8, <1>9, <1>10 DEF Browse

-----------------------------------------------------------------------------
(* Steps of the service that read.                                           *)

LEMMA FindStep == ASSUME DirInv, NEW a \in Agents, FindCustomer(a) PROVE DirInv'
<1>1. req[a].step = "sent"
  BY DEF FindCustomer
<1>2. PICK s, o, p, e : req[a] = [step |-> s, of |-> o, op |-> p, email |-> e]
  BY <1>1, RequestFields DEF DirInv
<1>3. /\ s = "sent" /\ p \in Ops /\ o \in Customers \cup {None} /\ e \in Emails \cup {None}
      /\ IF p = "create" THEN o = None ELSE o \in Customers /\ customer[o].state # "none"
  BY <1>1, <1>2, RequestFields DEF DirInv
<1>4. o \in Customers => customer[o].email \in Emails \cup {None}
  BY DEF DirInv, TypeOK, Row
<1>5. PICK t \in {"found", "checked"}, f \in Emails \cup {None} :
        /\ Found(a, [step |-> t, of |-> o, op |-> p, email |-> f])
        /\ p \in {"update", "archive", "ticket"} => customer[o].state = "active"
        /\ p = "restore" => customer[o].state = "archived" /\ f = customer[o].email
        /\ t = "checked" => p \in {"archive", "ticket"}
  <2>1. /\ [req[a] EXCEPT !.step = "found"] = [step |-> "found", of |-> o, op |-> p, email |-> e]
        /\ [req[a] EXCEPT !.step = "checked"] = [step |-> "checked", of |-> o, op |-> p, email |-> e]
    BY <1>2
  <2>2. CASE p = "create"
    BY <1>2, <1>3, <2>1, <2>2 DEF FindCustomer
  <2>3. CASE p = "update"
    BY <1>2, <1>3, <2>1, <2>3 DEF FindCustomer
  <2>4. CASE p = "archive"
    BY <1>2, <1>3, <2>1, <2>4 DEF FindCustomer
  <2>5. CASE p = "restore"
    BY <1>2, <1>3, <1>4, <2>1, <2>5 DEF FindCustomer
  <2>6. CASE p = "ticket"
    BY <1>2, <1>3, <2>1, <2>6 DEF FindCustomer
  <2> QED
    BY <1>3, <2>2, <2>3, <2>4, <2>5, <2>6 DEF Ops
<1>6. PICK r : r = [step |-> t, of |-> o, op |-> p, email |-> f]
  OBVIOUS
<1>7. r \in Request /\ r.step = t /\ r.of = o /\ r.op = p /\ r.email = f
  BY <1>3, <1>5, <1>6 DEF Request, Ops
<1>8. /\ Step(a, r) /\ UNCHANGED <<storeVars, page, raced>> /\ overtaken' = overtaken \ {a}
  BY <1>5, <1>6 DEF Found
<1>9. Prepared(a)'
  <2>1. req'[a] = r /\ customer' = customer
    BY <1>8 DEF Step, DirInv, TypeOK, storeVars
  <2> QED
    BY <1>5, <1>7, <2>1 DEF Prepared
<1> QED
  BY <1>3, <1>5, <1>7, <1>8, <1>9, RequestStep

\* The request is answered with an error.
LEMMA FailStep == ASSUME DirInv, NEW a \in Agents, Fail(a) PROVE DirInv'
<1>1. Idle \in Request
  BY DEF Request
<1>2. Step(a, Idle) /\ UNCHANGED <<storeVars, page, raced, overtaken>>
  BY DEF Fail, historyVars
<1>3. Prepared(a)'
  <2>1. req'[a] = Idle
    BY <1>2 DEF Step, DirInv, TypeOK
  <2> QED
    BY <2>1 DEF Prepared, Idle
<1> QED
  BY <1>1, <1>2, <1>3, RequestStep

LEMMA NothingStep == ASSUME DirInv, NEW a \in Agents, NothingToDo(a) PROVE DirInv'
<1>1. req[a].step = "sent" /\ req[a].op \in {"archive", "restore"}
  BY DEF NothingToDo
<1>2. PICK r : r = [req[a] EXCEPT !.step = "done"]
  OBVIOUS
<1>3. r = [step |-> "done", of |-> req[a].of, op |-> req[a].op, email |-> req[a].email]
  <2>1. req[a] \in [step : Steps, of : Customers \cup {None}, op : Ops, email : Emails \cup {None}]
    BY <1>1 DEF DirInv, TypeOK, Request, Idle, Steps, Ops
  <2> QED
    BY <1>2, <2>1
<1>4. r \in Request /\ r.step = "done" /\ r.of \in Customers /\ customer[r.of].state # "none"
  BY <1>1, <1>3, RequestFields DEF DirInv, Request, Ops
<1>5. Step(a, r) /\ UNCHANGED <<storeVars, page, raced, overtaken>>
  BY <1>2 DEF NothingToDo, historyVars
<1>6. Prepared(a)'
  <2>1. req'[a] = r
    BY <1>5 DEF Step, DirInv, TypeOK
  <2> QED
    BY <1>4, <2>1 DEF Prepared
<1> QED
  BY <1>4, <1>5, <1>6, RequestStep

LEMMA CheckStep == ASSUME DirInv, NEW a \in Agents, CheckEmail(a) PROVE DirInv'
<1>1. req[a].step = "found" /\ (req[a].email = None \/ ~ Taken(req[a].email, req[a].of))
  BY DEF CheckEmail
<1>2. PICK r : r = [req[a] EXCEPT !.step = "checked"]
  OBVIOUS
<1>3. r = [step |-> "checked", of |-> req[a].of, op |-> req[a].op, email |-> req[a].email]
  <2>1. req[a] \in [step : Steps, of : Customers \cup {None}, op : Ops, email : Emails \cup {None}]
    BY <1>1 DEF DirInv, TypeOK, Request, Idle, Steps, Ops
  <2> QED
    BY <1>2, <2>1
<1>4. r \in Request /\ r.step = "checked" /\ r.op = req[a].op /\ r.of = req[a].of /\ r.email = req[a].email
  BY <1>1, <1>3, RequestFields DEF DirInv, Request, Ops
<1>5. IF r.op = "create" THEN r.of = None ELSE r.of \in Customers /\ customer[r.of].state # "none"
  BY <1>1, <1>4, RequestFields DEF DirInv
<1>6. Step(a, r) /\ UNCHANGED <<storeVars, page, raced, overtaken>>
  BY <1>2 DEF CheckEmail, historyVars
<1>7. Prepared(a)'
  <2>1. req'[a] = r /\ customer' = customer /\ overtaken' = overtaken
    BY <1>6 DEF Step, DirInv, TypeOK, storeVars
  <2>2. Prepared(a)
    BY DEF DirInv
  <2> QED
    BY <1>1, <1>4, <2>1, <2>2 DEF Prepared, Taken
<1> QED
  BY <1>4, <1>5, <1>6, <1>7, RequestStep

-----------------------------------------------------------------------------
(* Steps of the service that write.                                          *)

\* The row of a customer is written, in the state that its request found or
\* overtaken by another one.
LEMMA CommitStep ==
  ASSUME DirInv, NEW a \in Agents, NEW c \in Customers, NEW row \in Row, row.state # "none",
         req[a].step = "checked", Commit(a, c, row),
         a \notin overtaken => \/ row.state # "active" \/ row.email = None
                               \/ \A d \in Customers \ {c} : ~ (customer[d].state = "active" /\ customer[d].email = row.email)
  PROVE  DirInv'
<1>1. req[a].op \in Ops
  BY RequestFields DEF DirInv
<1>2. PICK r : r = [step |-> "done", op |-> req[a].op, of |-> c, email |-> None]
  OBVIOUS
<1>3. r \in Request /\ r.step = "done" /\ r.of = c
  BY <1>1, <1>2 DEF Request, Ops
<1>4. /\ req' \in [Agents -> Request]
      /\ \A b \in Agents : req'[b] = IF b = a THEN r ELSE req[b]
  BY <1>2, <1>3 DEF Commit, Done, Step, DirInv, TypeOK
<1>5. /\ customer' \in [Customers -> Row]
      /\ \A d \in Customers : customer'[d] = IF d = c THEN row ELSE customer[d]
  BY DEF Commit, DirInv, TypeOK
<1>6. tickets' = tickets /\ page' = page
  BY DEF Commit
<1>7. /\ overtaken' = (overtaken \cup Reading) \ {a}
      /\ raced' = IF a \in overtaken THEN raced \cup {c} ELSE raced \ {c}
  BY DEF Commit
<1>8. TypeOK'
  <2>1. overtaken' \subseteq Agents /\ raced' \subseteq Customers
    BY <1>7 DEF DirInv, TypeOK, Reading
  <2>2. \A b \in Agents : req'[b] # Idle =>
          IF req'[b].op = "create" /\ req'[b].step # "done" THEN req'[b].of = None
          ELSE req'[b].of \in Customers /\ customer'[req'[b].of].state # "none"
    BY <1>3, <1>4, <1>5 DEF DirInv, TypeOK
  <2> QED
    BY <1>4, <1>5, <1>6, <2>1, <2>2 DEF DirInv, TypeOK
<1>9. PagesExist'
  <2>1. \A b \in Agents : page[b].of # None => page[b].of \in Customers
    BY DEF DirInv, TypeOK
  <2> QED
    BY <1>5, <1>6, <2>1 DEF DirInv, PagesExist
<1>10. DuplicatesNeedARace'
  <2>1. SUFFICES ASSUME NEW d \in Customers, NEW e \in Customers, d # e,
                        customer'[d].state = "active", customer'[e].state = "active",
                        customer'[d].email = customer'[e].email, customer'[d].email # None
                 PROVE  d \in raced' \/ e \in raced'
    BY DEF DuplicatesNeedARace
  <2>2. CASE d # c /\ e # c
    <3>1. d \in raced \/ e \in raced
      BY <1>5, <2>1, <2>2 DEF DirInv, DuplicatesNeedARace
    <3> QED
      BY <1>7, <2>2, <3>1
  <2>3. CASE d = c \/ e = c
    <3>1. CASE a \in overtaken
      BY <1>7, <2>3, <3>1
    <3>2. CASE a \notin overtaken
      BY <1>5, <2>1, <2>3, <3>2
    <3> QED
      BY <3>1, <3>2
  <2> QED
    BY <2>2, <2>3
<1>11. ASSUME NEW b \in Agents PROVE Prepared(b)'
  <2>1. CASE b = a
    BY <1>3, <1>4, <2>1 DEF Prepared
  <2>2. CASE b # a
    <3>1. req'[b].step \in {"found", "checked"} => b \in overtaken'
      BY <1>4, <1>7, <2>2 DEF Reading
    <3> QED
      BY <3>1 DEF Prepared
  <2> QED
    BY <2>1, <2>2
<1> QED
  BY <1>8, <1>9, <1>10, <1>11 DEF DirInv

LEMMA CreateTicketStep == ASSUME DirInv, NEW a \in Agents, CreateTicket(a) PROVE DirInv'
<1>1. req[a].step = "checked" /\ req[a].op = "ticket"
  BY DEF CreateTicket, Ready
<1>2. req[a].of \in Customers /\ customer[req[a].of].state # "none"
  BY <1>1, RequestFields DEF DirInv
<1>3. PICK r : r = [step |-> "done", op |-> req[a].op, of |-> req[a].of, email |-> None]
  OBVIOUS
<1>4. r \in Request /\ r.step = "done" /\ r.of = req[a].of
  BY <1>1, <1>2, <1>3 DEF Request
<1>5. /\ req' \in [Agents -> Request]
      /\ \A b \in Agents : req'[b] = IF b = a THEN r ELSE req[b]
  BY <1>3, <1>4 DEF CreateTicket, Done, Step, DirInv, TypeOK
<1>6. customer' = customer /\ page' = page /\ overtaken' = overtaken /\ raced' = raced
  BY DEF CreateTicket, historyVars
<1>7. tickets' \subseteq Customers
  BY <1>2 DEF CreateTicket, DirInv, TypeOK
<1>8. TypeOK'
  BY <1>2, <1>4, <1>5, <1>6, <1>7 DEF DirInv, TypeOK
<1>9. PagesExist' /\ DuplicatesNeedARace'
  BY <1>6 DEF DirInv, PagesExist, DuplicatesNeedARace
<1>10. ASSUME NEW b \in Agents PROVE Prepared(b)'
  BY <1>4, <1>5, <1>6 DEF DirInv, Prepared, Taken
<1> QED
  BY <1>8, <1>9, <1>10 DEF DirInv

LEMMA WriteStep == ASSUME DirInv, NEW a \in Agents, Write(a) PROVE DirInv'
<1> USE DirectoryAssumption
<1>1. req[a].step = "checked"
  BY DEF Write, CreateCustomer, UpdateCustomer, ArchiveCustomer, RestoreCustomer, CreateTicket, Ready
<1>2. /\ req[a].email \in Emails \cup {None}
      /\ IF req[a].op = "create" THEN req[a].of = None
         ELSE req[a].of \in Customers /\ customer[req[a].of].state # "none"
  BY <1>1, RequestFields DEF DirInv
<1>3. \A c \in Customers :
        customer[c].state \in {"none", "active", "archived"} /\ customer[c].email \in Emails \cup {None}
          /\ customer[c] \in [state : {"none", "active", "archived"}, email : Emails \cup {None}]
  BY DEF DirInv, TypeOK, Row
<1>4. Prepared(a)
  BY DEF DirInv
<1>5. ASSUME NEW c \in Customers, CreateCustomer(a, c) PROVE DirInv'
  <2>1. PICK row : row = [state |-> "active", email |-> req[a].email]
    OBVIOUS
  <2>2. row \in Row /\ row.state = "active" /\ row.email = req[a].email /\ Commit(a, c, row)
    BY <1>2, <1>5, <2>1 DEF CreateCustomer, Row
  <2>3. a \notin overtaken => row.email = None \/ \A d \in Customers \ {c} : ~ (customer[d].state = "active" /\ customer[d].email = row.email)
    <3>1. req[a].op = "create"
      BY <1>5 DEF CreateCustomer, Ready
    <3>2. a \notin overtaken => req[a].email = None \/ ~ Taken(req[a].email, req[a].of)
      BY <1>1, <1>4, <3>1 DEF Prepared
    <3>3. customer[c].state = "none"
      BY <1>5 DEF CreateCustomer
    <3>4. \A d \in Customers : d # req[a].of
      BY <1>2, <3>1
    <3> QED
      BY <2>2, <3>2, <3>4 DEF Taken
  <2> QED
    BY <1>1, <2>2, <2>3, CommitStep
<1>6. ASSUME UpdateCustomer(a) PROVE DirInv'
  <2>1. PICK c \in Customers : c = req[a].of /\ req[a].op = "update"
    BY <1>2, <1>6 DEF UpdateCustomer, Ready
  <2>2. PICK row : row = [state |-> customer[c].state, email |-> req[a].email]
    OBVIOUS
  <2>3. row = [customer[c] EXCEPT !.email = req[a].email]
    BY <1>3, <2>2
  <2>4. row \in Row /\ row.state # "none" /\ row.email = req[a].email /\ Commit(a, c, row)
    BY <1>2, <1>3, <1>6, <2>1, <2>2, <2>3 DEF UpdateCustomer, Row
  <2>5. a \notin overtaken => row.email = None \/ \A d \in Customers \ {c} : ~ (customer[d].state = "active" /\ customer[d].email = row.email)
    BY <1>1, <1>4, <2>1, <2>4 DEF Prepared, Taken
  <2> QED
    BY <1>1, <2>4, <2>5, CommitStep
<1>7. ASSUME ArchiveCustomer(a) PROVE DirInv'
  <2>1. PICK c \in Customers : c = req[a].of /\ req[a].op = "archive" /\ customer[c].state # "none"
    BY <1>2, <1>7 DEF ArchiveCustomer, Ready
  <2>2. PICK row : row = [state |-> "archived", email |-> customer[c].email]
    OBVIOUS
  <2>3. row = [customer[c] EXCEPT !.state = "archived"]
    BY <1>3, <2>2
  <2>4. row \in Row /\ row.state = "archived" /\ Commit(a, c, row)
    BY <1>3, <1>7, <2>1, <2>2, <2>3 DEF ArchiveCustomer, Row
  <2> QED
    BY <1>1, <2>4, CommitStep
<1>8. ASSUME RestoreCustomer(a) PROVE DirInv'
  <2>1. PICK c \in Customers : c = req[a].of /\ req[a].op = "restore" /\ customer[c].state # "none"
    BY <1>2, <1>8 DEF RestoreCustomer, Ready
  <2>2. PICK row : row = [state |-> "active", email |-> customer[c].email]
    OBVIOUS
  <2>3. row = [customer[c] EXCEPT !.state = "active"]
    BY <1>3, <2>2
  <2>4. row \in Row /\ row.state = "active" /\ row.email = customer[c].email /\ Commit(a, c, row)
    BY <1>3, <1>8, <2>1, <2>2, <2>3 DEF RestoreCustomer, Row
  <2>5. a \notin overtaken => row.email = None \/ \A d \in Customers \ {c} : ~ (customer[d].state = "active" /\ customer[d].email = row.email)
    BY <1>1, <1>4, <2>1, <2>4 DEF Prepared, Taken
  <2> QED
    BY <1>1, <2>4, <2>5, CommitStep
<1>9. ASSUME CreateTicket(a) PROVE DirInv'
  BY <1>9, CreateTicketStep
<1> QED
  BY <1>5, <1>6, <1>7, <1>8, <1>9 DEF Write

-----------------------------------------------------------------------------
(* The theorems.                                                             *)

LEMMA DirStep == ASSUME DirInv, [Next]_vars PROVE DirInv'
<1>1. ASSUME NEW a \in Agents, Serve(a) PROVE DirInv'
  <2>1. CASE FindCustomer(a)
    BY <2>1, FindStep
  <2>2. CASE RefuseArchived(a)
    BY <2>2, FailStep DEF RefuseArchived
  <2>3. CASE NothingToDo(a)
    BY <2>3, NothingStep
  <2>4. CASE CheckEmail(a)
    BY <2>4, CheckStep
  <2>5. CASE RefuseEmail(a)
    BY <2>5, FailStep DEF RefuseEmail
  <2>6. CASE Write(a)
    BY <2>6, WriteStep
  <2> QED
    BY <1>1, <2>1, <2>2, <2>3, <2>4, <2>5, <2>6 DEF Serve
<1>2. ASSUME NEW a \in Agents, Browse(a) PROVE DirInv'
  BY <1>2, BrowseStep
<1>3. CASE UNCHANGED vars
  BY <1>3 DEF vars, storeVars, historyVars, DirInv, TypeOK, PagesExist, DuplicatesNeedARace, Prepared, Taken
<1> QED
  BY <1>1, <1>2, <1>3 DEF Next

LEMMA DirInvariant == Spec => []DirInv
<1>1. Init => DirInv
  BY DirInit
<1>2. DirInv /\ [Next]_vars => DirInv'
  BY DirStep
<1> QED
  BY <1>1, <1>2, PTL DEF Spec

\* Type correctness of the directory: requests and pages name customers that
\* have rows (customers.service.ts, and the pages and dialogs).
THEOREM DirectoryTypeCorrect == Spec => []TypeOK
<1>1. DirInv => TypeOK
  BY DEF DirInv
<1> QED
  BY <1>1, DirInvariant, PTL

\* Two active customers share an address only where a request wrote after
\* another one had written since it read (customers.service.ts:30).
THEOREM DuplicatesAlwaysNeedARace == Spec => []DuplicatesNeedARace
<1>1. DirInv => DuplicatesNeedARace
  BY DEF DirInv
<1> QED
  BY <1>1, DirInvariant, PTL

\* A request that was not overtaken writes only what its checks allow, in the
\* state in which it writes.
LEMMA WriteIsLegal == ASSUME DirInv, NEW a \in Agents, Write(a), a \notin overtaken PROVE Legal(a)
<1>1. req[a].step = "checked"
  BY DEF Write, CreateCustomer, UpdateCustomer, ArchiveCustomer, RestoreCustomer, CreateTicket, Ready
<1>2. req[a].op \in Ops
  BY <1>1, RequestFields DEF DirInv
<1>3. Prepared(a)
  BY DEF DirInv
<1>4. CASE req[a].op = "create"
  BY <1>1, <1>3, <1>4 DEF Prepared, Legal
<1>5. CASE req[a].op = "update"
  BY <1>1, <1>3, <1>5 DEF Prepared, Legal
<1>6. CASE req[a].op = "archive"
  BY <1>1, <1>3, <1>6 DEF Prepared, Legal
<1>7. CASE req[a].op = "restore"
  BY <1>1, <1>3, <1>7 DEF Prepared, Legal
<1>8. CASE req[a].op = "ticket"
  BY <1>1, <1>3, <1>8 DEF Prepared, Legal
<1> QED
  BY <1>2, <1>4, <1>5, <1>6, <1>7, <1>8 DEF Ops

\* Archived customers get no update and no ticket, and are archived and restored
\* in turn, unless a request was overtaken (customers.service.ts:309-589).
THEOREM WritesAreAlwaysLegal == Spec => WritesAreLegal
<1>1. DirInv => \A a \in Agents : Write(a) => Legal(a) \/ a \in overtaken
  BY WriteIsLegal
<1>2. DirInv /\ [Next]_vars => [\A a \in Agents : Write(a) => Legal(a) \/ a \in overtaken]_vars
  BY <1>1
<1> QED
  BY <1>2, DirInvariant, PTL DEF Spec, WritesAreLegal

-----------------------------------------------------------------------------
(* The lists.                                                                *)

\* What is cached and fetched, over some set of answers D.
Shaped(D) ==
  /\ cache \in [Addresses -> [data : D, stale : BOOLEAN]]
  /\ fetch \in [Addresses -> {NoFetch, Asked} \cup [at : {"answered"}, data : D]]

ListsTypeOK ==
  /\ \E D : Shaped(D)
  /\ url \in Addresses /\ going \in Addresses /\ events \in Nat

\* An answer that is not up to date is stale, or an event is to come, or one has
\* found its fetch under way.
CachesCatchUp ==
  \A k \in Addresses : ~ cache[k].data.missing /\ cache[k].data # Answer(k) =>
    events > 0 \/ cache[k].stale \/ k \in unheard

AnswersCatchUp ==
  \A k \in Addresses : fetch[k].at = "answered" /\ fetch[k].data # Answer(k) =>
    events > 0 \/ k \in unheard

\* The list that is shown is not stale for long.
RenderedIsFetched == cache[url].stale => fetch[url] # NoFetch \/ url \in failed

\* A list whose last fetch failed is stale.
FailedAreStale == \A k \in Addresses : k \in failed => cache[k].stale

ListsInv ==
  ListsTypeOK /\ CachesCatchUp /\ AnswersCatchUp /\ RenderedIsFetched /\ FailedAreStale

-----------------------------------------------------------------------------

LEMMA InitListsInv == ASSUME ListsInit PROVE ListsInv
<1> USE ListsAssumption DEF ListsInit, Start, NoData, NoFetch, Asked
<1>1. Shaped({NoData})
  BY DEF Shaped
<1>2. ListsTypeOK
  BY <1>1 DEF ListsTypeOK
<1>3. CachesCatchUp
  BY DEF CachesCatchUp
<1>4. AnswersCatchUp
  BY DEF AnswersCatchUp
<1>5. RenderedIsFetched
  BY DEF RenderedIsFetched
<1>20. FailedAreStale
  BY DEF FailedAreStale
<1> QED
  BY <1>2, <1>3, <1>4, <1>5, <1>20 DEF ListsInv

\* Answers depend on the tickets alone.
LEMMA SameAnswers == ASSUME inbox' = inbox, NEW k \in Addresses PROVE Answer(k)' = Answer(k)
BY DEF Answer

LEMMA ChangeStep == ASSUME ListsInv, NEW i \in DOMAIN inbox, NEW s \in Statuses, Change(i, s) PROVE ListsInv'
<1>1. events \in Nat /\ events' = events + 1 /\ UNCHANGED <<browserVars, queryVars>>
  BY DEF Change, ListsInv, ListsTypeOK
<1>2. events' \in Nat /\ events' > 0
  BY <1>1
<1>3. ListsTypeOK'
  BY <1>1, <1>2 DEF ListsInv, ListsTypeOK, Shaped, browserVars, queryVars
<1>4. CachesCatchUp' /\ AnswersCatchUp'
  BY <1>2 DEF CachesCatchUp, AnswersCatchUp
<1>5. RenderedIsFetched'
  BY <1>1 DEF ListsInv, RenderedIsFetched, browserVars, queryVars
<1>20. FailedAreStale'
  BY <1>1 DEF ListsInv, FailedAreStale, queryVars
<1> QED
  BY <1>3, <1>4, <1>5, <1>20 DEF ListsInv

LEMMA ReadStep == ASSUME ListsInv, NEW k \in Addresses, Read(k) PROVE ListsInv'
<1>1. PICK D : Shaped(D)
  BY DEF ListsInv, ListsTypeOK
<1>2. UNCHANGED <<inbox, events, browserVars, cache, failed, unheard>>
  BY DEF Read
<1>3. PICK f : f = [at |-> "answered", data |-> Answer(k)]
  OBVIOUS
<1>4. fetch' = [fetch EXCEPT ![k] = f]
  BY <1>3 DEF Read
<1>5. \A j \in Addresses : fetch'[j] = IF j = k THEN f ELSE fetch[j]
  BY <1>1, <1>4 DEF Shaped
<1>6. PICK E : E = D \cup {Answer(k)}
  OBVIOUS
<1>11. Shaped(E)'
  BY <1>1, <1>2, <1>3, <1>4, <1>6 DEF Shaped
<1>7. ListsTypeOK'
  BY <1>2, <1>11 DEF ListsInv, ListsTypeOK, browserVars
<1>8. CachesCatchUp'
  BY <1>2, SameAnswers DEF ListsInv, CachesCatchUp
<1>9. AnswersCatchUp'
  <2>1. SUFFICES ASSUME NEW j \in Addresses, fetch'[j].at = "answered", fetch'[j].data # Answer(j)'
                 PROVE  events' > 0 \/ j \in unheard'
    BY DEF AnswersCatchUp
  <2>2. Answer(j)' = Answer(j)
    BY <1>2, SameAnswers
  <2>3. j # k
    BY <1>3, <1>5, <2>1, <2>2
  <2> QED
    BY <1>2, <1>5, <2>1, <2>2, <2>3 DEF ListsInv, AnswersCatchUp
<1>10. RenderedIsFetched'
  <2>1. f # NoFetch
    BY <1>3 DEF NoFetch
  <2> QED
    BY <1>2, <1>5, <2>1 DEF ListsInv, ListsTypeOK, RenderedIsFetched, browserVars
<1>20. FailedAreStale'
  BY <1>2 DEF ListsInv, FailedAreStale
<1> QED
  BY <1>7, <1>8, <1>9, <1>10, <1>20 DEF ListsInv

LEMMA ShowStep == ASSUME ListsInv, NEW k \in Addresses, Show(k) PROVE ListsInv'
<1>1. PICK D : Shaped(D)
  BY DEF ListsInv, ListsTypeOK
<1>2. UNCHANGED <<inbox, events, browserVars, unheard>> /\ failed' = failed \ {k} /\ fetch[k].at = "answered"
  BY DEF Show
<1>3. fetch[k].data \in D
  BY <1>1, <1>2 DEF Shaped, NoFetch, Asked
<1>4. PICK c : c = [data |-> fetch[k].data, stale |-> FALSE]
  OBVIOUS
<1>5. cache' = [cache EXCEPT ![k] = c] /\ fetch' = [fetch EXCEPT ![k] = NoFetch]
  BY <1>4 DEF Show
<1>6. Shaped(D)'
  BY <1>1, <1>3, <1>4, <1>5 DEF Shaped
<1>7. \A j \in Addresses : /\ cache'[j] = IF j = k THEN c ELSE cache[j]
                           /\ fetch'[j] = IF j = k THEN NoFetch ELSE fetch[j]
  BY <1>1, <1>5 DEF Shaped
<1>8. ListsTypeOK'
  BY <1>2, <1>6 DEF ListsInv, ListsTypeOK, browserVars
<1>9. CachesCatchUp'
  <2>1. SUFFICES ASSUME NEW j \in Addresses, ~ cache'[j].data.missing, cache'[j].data # Answer(j)'
                 PROVE  events' > 0 \/ cache'[j].stale \/ j \in unheard'
    BY DEF CachesCatchUp
  <2>2. Answer(j)' = Answer(j)
    BY <1>2, SameAnswers
  <2>3. CASE j = k
    BY <1>2, <1>4, <1>7, <2>1, <2>2, <2>3 DEF ListsInv, AnswersCatchUp
  <2>4. CASE j # k
    BY <1>2, <1>7, <2>1, <2>2, <2>4 DEF ListsInv, CachesCatchUp
  <2> QED
    BY <2>3, <2>4
<1>10. AnswersCatchUp'
  BY <1>2, <1>7, SameAnswers DEF ListsInv, AnswersCatchUp, NoFetch
<1>11. RenderedIsFetched'
  <2>1. CASE url = k
    BY <1>2, <1>4, <1>7, <2>1 DEF browserVars, RenderedIsFetched
  <2>2. CASE url # k
    BY <1>2, <1>7, <2>2 DEF ListsInv, ListsTypeOK, browserVars, RenderedIsFetched
  <2> QED
    BY <2>1, <2>2
<1>20. FailedAreStale'
  BY <1>2, <1>7 DEF ListsInv, FailedAreStale
<1> QED
  BY <1>8, <1>9, <1>10, <1>11, <1>20 DEF ListsInv

\* FetchFails and Age: what is cached becomes stale, and nothing else of it changes.
LEMMA StaleEntry ==
  ASSUME NEW D, Shaped(D), NEW k \in Addresses, cache' = [cache EXCEPT ![k].stale = TRUE]
  PROVE  /\ cache' \in [Addresses -> [data : D, stale : BOOLEAN]]
         /\ \A j \in Addresses : cache'[j].data = cache[j].data /\ cache'[j].stale = (j = k \/ cache[j].stale)
<1>1. PICK c : c = [cache[k] EXCEPT !.stale = TRUE]
  OBVIOUS
<1>2. cache[k] \in [data : D, stale : BOOLEAN]
  BY DEF Shaped
<1>3. c \in [data : D, stale : BOOLEAN] /\ c.data = cache[k].data /\ c.stale = TRUE
  BY <1>1, <1>2
<1>4. cache' = [cache EXCEPT ![k] = c]
  BY <1>1 DEF Shaped
<1>5. \A j \in Addresses : cache[j].stale \in BOOLEAN
  BY DEF Shaped
<1>6. \A j \in Addresses : cache'[j] = IF j = k THEN c ELSE cache[j]
  BY <1>4 DEF Shaped
<1>7. cache' \in [Addresses -> [data : D, stale : BOOLEAN]]
  BY <1>3, <1>4 DEF Shaped
<1>8. ASSUME NEW j \in Addresses PROVE cache'[j].data = cache[j].data /\ cache'[j].stale = (j = k \/ cache[j].stale)
  <2>1. CASE j = k
    <3>1. cache'[j] = c
      BY <1>6, <2>1
    <3>2. cache'[j].data = cache[j].data
      BY <1>3, <2>1, <3>1
    <3>3. cache'[j].stale = TRUE
      BY <1>3, <3>1
    <3> QED
      BY <2>1, <3>2, <3>3, Zenon
  <2>2. CASE j # k
    <3>1. cache'[j] = cache[j]
      BY <1>6, <2>2
    <3> QED
      BY <1>5, <2>2, <3>1, Zenon
  <2> QED
    BY <2>1, <2>2
<1> QED
  BY <1>7, <1>8

LEMMA FetchFailsStep == ASSUME ListsInv, NEW k \in Addresses, FetchFails(k) PROVE ListsInv'
<1>1. PICK D : Shaped(D)
  BY DEF ListsInv, ListsTypeOK
<1>2. /\ UNCHANGED <<inbox, events, browserVars, unheard>> /\ failed' = failed \cup {k}
      /\ fetch' = [fetch EXCEPT ![k] = NoFetch] /\ cache' = [cache EXCEPT ![k].stale = TRUE]
  BY DEF FetchFails
<1>3. /\ cache' \in [Addresses -> [data : D, stale : BOOLEAN]]
      /\ \A j \in Addresses : cache'[j].data = cache[j].data /\ cache'[j].stale = (j = k \/ cache[j].stale)
  BY <1>1, <1>2, StaleEntry
<1>4. \A j \in Addresses : fetch'[j] = IF j = k THEN NoFetch ELSE fetch[j]
  BY <1>1, <1>2 DEF Shaped
<1>5. Shaped(D)'
  BY <1>1, <1>2, <1>3 DEF Shaped
<1>6. ListsTypeOK'
  BY <1>2, <1>5 DEF ListsInv, ListsTypeOK, browserVars
<1>7. CachesCatchUp'
  BY <1>2, <1>3, SameAnswers DEF ListsInv, CachesCatchUp
<1>8. AnswersCatchUp'
  BY <1>2, <1>4, SameAnswers DEF ListsInv, AnswersCatchUp, NoFetch
<1>9. RenderedIsFetched'
  BY <1>2, <1>3, <1>4 DEF ListsInv, ListsTypeOK, RenderedIsFetched, browserVars
<1>20. FailedAreStale'
  BY <1>2, <1>3 DEF ListsInv, FailedAreStale
<1> QED
  BY <1>6, <1>7, <1>8, <1>9, <1>20 DEF ListsInv

LEMMA AgeStep == ASSUME ListsInv, NEW k \in Addresses, Age(k) PROVE ListsInv'
<1>1. PICK D : Shaped(D)
  BY DEF ListsInv, ListsTypeOK
<1>2. /\ UNCHANGED <<inbox, events, browserVars, failed, fetch, unheard>> /\ k # url
      /\ cache' = [cache EXCEPT ![k].stale = TRUE]
  BY DEF Age
<1>3. /\ cache' \in [Addresses -> [data : D, stale : BOOLEAN]]
      /\ \A j \in Addresses : cache'[j].data = cache[j].data /\ cache'[j].stale = (j = k \/ cache[j].stale)
  BY <1>1, <1>2, StaleEntry
<1>4. Shaped(D)'
  BY <1>1, <1>2, <1>3 DEF Shaped
<1>5. ListsTypeOK'
  BY <1>2, <1>4 DEF ListsInv, ListsTypeOK, browserVars
<1>6. CachesCatchUp'
  BY <1>2, <1>3, SameAnswers DEF ListsInv, CachesCatchUp
<1>7. AnswersCatchUp'
  BY <1>2, SameAnswers DEF ListsInv, AnswersCatchUp
<1>8. RenderedIsFetched'
  BY <1>2, <1>3 DEF ListsInv, ListsTypeOK, RenderedIsFetched, browserVars
<1>20. FailedAreStale'
  BY <1>2, <1>3 DEF ListsInv, FailedAreStale
<1> QED
  BY <1>5, <1>6, <1>7, <1>8, <1>20 DEF ListsInv

\* A fetch begins: nothing that it answers can be out of date yet.
LEMMA AskStep ==
  ASSUME ListsInv, NEW k \in Addresses, Ask(k), UNCHANGED <<inbox, events, cache, failed>>, k \notin Known \/ cache[k].stale,
         url' \in Addresses, going' \in Addresses, url' = k \/ url' = url
  PROVE  ListsInv'
<1>1. PICK D : Shaped(D)
  BY DEF ListsInv, ListsTypeOK
<1>2. fetch' = [fetch EXCEPT ![k] = Asked] /\ unheard' = unheard \ {k}
  BY DEF Ask
<1>3. \A j \in Addresses : fetch'[j] = IF j = k THEN Asked ELSE fetch[j]
  BY <1>1, <1>2 DEF Shaped
<1>4. Shaped(D)'
  BY <1>1, <1>2 DEF Shaped
<1>5. ListsTypeOK'
  BY <1>4 DEF ListsInv, ListsTypeOK
<1>6. CachesCatchUp'
  BY <1>2, SameAnswers DEF ListsInv, CachesCatchUp, Known
<1>7. AnswersCatchUp'
  BY <1>2, <1>3, SameAnswers DEF ListsInv, AnswersCatchUp, Asked
<1>8. RenderedIsFetched'
  <2>1. Asked # NoFetch
    BY DEF Asked, NoFetch
  <2> QED
    BY <1>3, <2>1 DEF ListsInv, ListsTypeOK, RenderedIsFetched
<1>20. FailedAreStale'
  BY DEF ListsInv, FailedAreStale
<1> QED
  BY <1>5, <1>6, <1>7, <1>8, <1>20 DEF ListsInv

LEMMA HearStep == ASSUME ListsInv, Hear PROVE ListsInv'
<1>1. PICK D : Shaped(D)
  BY DEF ListsInv, ListsTypeOK
<1>2. PICK again : /\ again = {url} \cap (Known \cup (Addresses \ Running))
                   /\ fetch' = [k \in Addresses |-> IF k \in again THEN Asked ELSE fetch[k]]
                   /\ unheard' = (unheard \cup Running) \ again
  BY DEF Hear
<1>3. /\ UNCHANGED <<inbox, browserVars, failed>>
      /\ cache' = [k \in Addresses |-> [cache[k] EXCEPT !.stale = TRUE]]
      /\ events > 0 /\ events' = events - 1 /\ events \in Nat
  BY DEF Hear, ListsInv, ListsTypeOK
<1>4. ASSUME NEW k \in Addresses
      PROVE  cache'[k] \in [data : D, stale : BOOLEAN] /\ cache'[k].stale = TRUE
  <2>1. cache[k] \in [data : D, stale : BOOLEAN]
    BY <1>1 DEF Shaped
  <2> QED
    BY <1>3, <2>1
<1>5. cache' \in [Addresses -> [data : D, stale : BOOLEAN]]
  BY <1>3, <1>4
<1>6. fetch' \in [Addresses -> {NoFetch, Asked} \cup [at : {"answered"}, data : D]]
  BY <1>1, <1>2 DEF Shaped
<1>7. ListsTypeOK'
  <2>1. Shaped(D)'
    BY <1>5, <1>6 DEF Shaped
  <2>2. events' \in Nat
    BY <1>3
  <2> QED
    BY <1>3, <2>1, <2>2 DEF ListsInv, ListsTypeOK, browserVars
<1>8. CachesCatchUp'
  BY <1>4 DEF CachesCatchUp
<1>9. AnswersCatchUp'
  <2>1. SUFFICES ASSUME NEW k \in Addresses, fetch'[k].at = "answered"
                 PROVE  k \in unheard'
    BY DEF AnswersCatchUp
  <2>2. k \notin again
    BY <1>2, <2>1 DEF Asked
  <2>3. fetch[k] # NoFetch
    BY <1>2, <2>1, <2>2 DEF NoFetch
  <2> QED
    BY <1>2, <2>2, <2>3 DEF Running
<1>10. RenderedIsFetched'
  <2>1. Asked # NoFetch
    BY DEF Asked, NoFetch
  <2>2. url' = url /\ url \in Addresses
    BY <1>3 DEF browserVars, ListsInv, ListsTypeOK
  <2>3. CASE fetch[url] = NoFetch
    BY <1>2, <2>1, <2>2, <2>3 DEF RenderedIsFetched, Running
  <2>4. CASE fetch[url] # NoFetch
    BY <1>2, <2>1, <2>2, <2>4 DEF RenderedIsFetched
  <2> QED
    BY <2>3, <2>4
<1>11. FailedAreStale'
  BY <1>4 DEF FailedAreStale
<1> QED
  BY <1>7, <1>8, <1>9, <1>10, <1>11 DEF ListsInv

LEMMA ReplaceStep == ASSUME ListsInv, NEW k, NEW m, Replace(k, m) PROVE ListsInv'
<1>1. UNCHANGED <<inbox, events, url, queryVars>> /\ going' \in Addresses
  BY DEF Replace
<1>2. ListsTypeOK'
  BY <1>1 DEF ListsInv, ListsTypeOK, Shaped, queryVars
<1>3. CachesCatchUp' /\ AnswersCatchUp'
  BY <1>1, SameAnswers DEF ListsInv, CachesCatchUp, AnswersCatchUp, queryVars
<1>4. RenderedIsFetched' /\ FailedAreStale'
  BY <1>1 DEF ListsInv, RenderedIsFetched, FailedAreStale, queryVars
<1> QED
  BY <1>2, <1>3, <1>4 DEF ListsInv

LEMMA ArriveStep == ASSUME ListsInv, Arrive PROVE ListsInv'
<1>1. url' = going /\ going \in Addresses /\ UNCHANGED <<inbox, events, going, cache, failed>>
  BY DEF Arrive, ListsInv, ListsTypeOK
<1>2. CASE cache[going].stale /\ fetch[going] = NoFetch
  <2>1. Ask(going)
    BY <1>2 DEF Arrive
  <2> QED
    BY <1>1, <1>2, <2>1, AskStep
<1>3. CASE ~ (cache[going].stale /\ fetch[going] = NoFetch)
  <2>1. UNCHANGED <<fetch, unheard>>
    BY <1>3 DEF Arrive
  <2>2. ListsTypeOK'
    BY <1>1, <2>1 DEF ListsInv, ListsTypeOK, Shaped
  <2>3. CachesCatchUp' /\ AnswersCatchUp'
    BY <1>1, <2>1, SameAnswers DEF ListsInv, CachesCatchUp, AnswersCatchUp
  <2>4. RenderedIsFetched' /\ FailedAreStale'
    BY <1>1, <1>3, <2>1 DEF ListsInv, RenderedIsFetched, FailedAreStale
  <2> QED
    BY <2>2, <2>3, <2>4 DEF ListsInv
<1> QED
  BY <1>2, <1>3

LEMMA TryAgainStep == ASSUME ListsInv, TryAgain PROVE ListsInv'
<1>1. url \in Addresses /\ url \in failed /\ Ask(url) /\ UNCHANGED <<inbox, events, browserVars, cache, failed>>
  BY DEF TryAgain, ListsInv, ListsTypeOK
<1>2. cache[url].stale
  BY <1>1 DEF ListsInv, FailedAreStale
<1>3. going' \in Addresses /\ url' = url
  BY <1>1 DEF browserVars, ListsInv, ListsTypeOK
<1> QED
  BY <1>1, <1>2, <1>3, AskStep

LEMMA ListsStep == ASSUME ListsInv, [ListsNext]_listVars PROVE ListsInv'
<1>1. ASSUME NEW i \in DOMAIN inbox, NEW s \in Statuses, Change(i, s) PROVE ListsInv'
  BY <1>1, ChangeStep
<1>2. ASSUME NEW k \in Addresses, Read(k) \/ Show(k) \/ FetchFails(k) \/ Age(k) PROVE ListsInv'
  BY <1>2, ReadStep, ShowStep, FetchFailsStep, AgeStep
<1>3. ASSUME NEW f \in Statuses \cup {All}, Select(f) \/ Submit(f) PROVE ListsInv'
  BY <1>3, ReplaceStep DEF Select, Submit, FirstPage
<1>10. CASE Clear
  BY <1>10, ReplaceStep DEF Clear, FirstPage
<1>4. CASE Hear
  BY <1>4, HearStep
<1>5. CASE TryAgain
  BY <1>5, TryAgainStep
<1>6. CASE NextPage
  BY <1>6, ReplaceStep DEF NextPage
<1>7. CASE PreviousPage
  BY <1>7, ReplaceStep DEF PreviousPage
<1>8. CASE Arrive
  BY <1>8, ArriveStep
<1>9. CASE UNCHANGED listVars
  <2>1. UNCHANGED <<inbox, events, browserVars, queryVars>>
    BY <1>9 DEF listVars
  <2>2. ListsTypeOK'
    BY <2>1 DEF ListsInv, ListsTypeOK, Shaped, browserVars, queryVars
  <2>3. CachesCatchUp' /\ AnswersCatchUp'
    BY <2>1, SameAnswers DEF ListsInv, CachesCatchUp, AnswersCatchUp, queryVars
  <2>4. RenderedIsFetched' /\ FailedAreStale'
    BY <2>1 DEF ListsInv, RenderedIsFetched, FailedAreStale, browserVars, queryVars
  <2> QED
    BY <2>2, <2>3, <2>4 DEF ListsInv
<1> QED
  BY <1>1, <1>2, <1>3, <1>4, <1>5, <1>6, <1>7, <1>8, <1>9, <1>10 DEF ListsNext

LEMMA ListsInvariant == ListsSpec => []ListsInv
<1>1. ListsInit => ListsInv
  BY InitListsInv
<1>2. ListsInv /\ [ListsNext]_listVars => ListsInv'
  BY ListsStep
<1> QED
  BY <1>1, <1>2, PTL DEF ListsSpec

\* The list that is shown catches up with what is stored, whatever events,
\* fetches, failures and changes of the address overlap (ticket-inbox.tsx:214,
\* realtime-provider.tsx:755).
THEOREM ShownListAlwaysCatchesUp == ListsSpec => []ShownListCatchesUp
<1>1. ListsInv => ShownListCatchesUp
  BY DEF ListsInv, ListsTypeOK, CachesCatchUp, RenderedIsFetched, ShownListCatchesUp
<1> QED
  BY <1>1, ListsInvariant, PTL

-----------------------------------------------------------------------------
(* Pages and their rows.                                                     *)

\* Arithmetic with a product of two variables, step by step.
LEMMA TimesMonotone == ASSUME NEW p \in Nat, NEW q \in Nat, NEW b \in Nat, p <= q PROVE p * b <= q * b
<1>1. q - p \in Nat /\ q = p + (q - p)
  OBVIOUS
<1>2. PICK d \in Nat : q = p + d
  BY <1>1
<1>3. q * b = p * b + d * b
  BY <1>2
<1>4. d * b \in Nat /\ p * b \in Nat
  OBVIOUS
<1> QED
  BY <1>3, <1>4

\* The last page is not empty: what is skipped is less than there is.
LEMMA LastPageIsNotEmpty ==
  ASSUME NEW n \in Nat, NEW p \in Nat, p > 1, p <= TotalPages(n)
  PROVE  (p - 1) * PageSize < n
<1> DEFINE q == TotalPages(n)
<1>1. PageSize \in Nat \ {0}
  BY ListsAssumption
<1>2. q \in Nat /\ q * PageSize <= n + PageSize - 1
  BY <1>1 DEF TotalPages
<1> HIDE DEF q
<1>3. p * PageSize <= q * PageSize
  <2>1. p \in Nat /\ q \in Nat /\ PageSize \in Nat /\ p <= q
    BY <1>1, <1>2 DEF q
  <2> QED
    BY <2>1, TimesMonotone, Zenon
<1>4. (p - 1) * PageSize = p * PageSize - PageSize
  BY <1>1
<1> QED
  BY <1>1, <1>2, <1>3, <1>4

LEMMA TotalType == ASSUME NEW s, NEW f PROVE Len(Matching(s, f)) \in Nat
  OBVIOUS

LEMMA AnswerTotal ==
  ASSUME NEW k \in Addresses
  PROVE  Answer(k).total = Len(Matching(inbox, k.filter)) /\ Answer(k).missing = FALSE
  BY DEF Answer, ListOf

\* A page there is has rows.
LEMMA PagesHaveRows ==
  ASSUME NEW k \in Addresses, k.page > 1, k.page <= TotalPages(Len(Matching(inbox, k.filter)))
  PROVE  Answer(k).rows # <<>>
<1> DEFINE found == Matching(inbox, k.filter)
           skip  == (k.page - 1) * PageSize
           upTo  == IF skip + PageSize < Len(found) THEN skip + PageSize ELSE Len(found)
<1>1. Len(found) \in Nat
  BY TotalType
<1>2. k.page \in Nat /\ PageSize \in Nat \ {0}
  BY ListsAssumption
<1>3. skip < Len(found)
  BY <1>1, <1>2, LastPageIsNotEmpty
<1>4. skip \in Nat
  BY <1>2
<1>5. Answer(k).rows = [i \in 1 .. upTo - skip |-> found[skip + i]]
  BY DEF Answer, ListOf
<1> HIDE DEF found, skip
<1>6. 1 \in 1 .. upTo - skip
  BY <1>1, <1>2, <1>3, <1>4
<1> HIDE DEF upTo
<1> QED
  BY <1>5, <1>6

-----------------------------------------------------------------------------
(* A page that was chosen while there was such a page is still there, unless *)
(* tickets have changed since.                                               *)

Exists(k) == k.page <= TotalPages(Len(Matching(inbox, k.filter)))

PagesExistUnmoved == \A k \in {url, going} : k.page > 1 => k \in moved \/ Exists(k)

LEMMA ReplaceKeepsPages ==
  ASSUME ListsTypeOK, PagesExistUnmoved, NEW k, NEW m \in BOOLEAN, Replace(k, m),
         m \/ ~ (k.page > 1) \/ Exists(k)
  PROVE  PagesExistUnmoved'
<1>1. /\ inbox' = inbox /\ url' = url /\ going' = k
      /\ moved' = (moved \cap ({url} \ {k})) \cup (IF m THEN LaterPages({k}) ELSE {})
  BY DEF Replace
<1>2. k.page > 1 => k \in moved' \/ Exists(k)'
  BY <1>1 DEF LaterPages, Exists
<1>3. url # k /\ url.page > 1 => url \in moved' \/ Exists(url)'
  BY <1>1 DEF PagesExistUnmoved, Exists
<1> QED
  BY <1>1, <1>2, <1>3 DEF PagesExistUnmoved

LEMMA FirstPageKeepsPages ==
  ASSUME ListsTypeOK, PagesExistUnmoved, NEW f, FirstPage(f) PROVE PagesExistUnmoved'
<1> DEFINE k == [filter |-> f, page |-> 1]
<1>1. Replace(k, FALSE)
  BY DEF FirstPage
<1>2. ~ (k.page > 1)
  OBVIOUS
<1> HIDE DEF k
<1> QED
  BY <1>1, <1>2, ReplaceKeepsPages

LEMMA NextPageKeepsPages == ASSUME ListsTypeOK, PagesExistUnmoved, NextPage PROVE PagesExistUnmoved'
<1> DEFINE k == [url EXCEPT !.page = @ + 1]
           m == cache[url].data # Answer(url)
<1>1. url \in [filter : Statuses \cup {All}, page : Nat \ {0}] /\ url \in Addresses
  BY ListsAssumption DEF ListsTypeOK
<1>2. k.page = url.page + 1 /\ k.filter = url.filter /\ url.page \in Nat
  BY <1>1
<1>3. m \in BOOLEAN /\ Replace(k, m)
  BY DEF NextPage
<1>4. ASSUME ~ m PROVE Exists(k)
  <2>1. cache[url].data = Answer(url)
    BY <1>4
  <2>2. Answer(url).total = Len(Matching(inbox, url.filter)) /\ Answer(url).missing = FALSE
    BY <1>1, AnswerTotal
  <2>3. Displayed = url
    BY <2>1, <2>2 DEF Displayed
  <2>4. url.page < TotalPages(Len(Matching(inbox, url.filter)))
    BY <2>1, <2>2, <2>3 DEF NextPage, HasNextPage
  <2>5. TotalPages(Len(Matching(inbox, url.filter))) \in Nat
    BY ListsAssumption, TotalType DEF TotalPages
  <2> QED
    BY <1>2, <2>4, <2>5 DEF Exists
<1> HIDE DEF k, m
<1> QED
  BY <1>3, <1>4, ReplaceKeepsPages

LEMMA PreviousPageKeepsPages == ASSUME ListsTypeOK, PagesExistUnmoved, PreviousPage PROVE PagesExistUnmoved'
<1> DEFINE k == [url EXCEPT !.page = IF @ > 1 THEN @ - 1 ELSE 1]
           m == url \in moved
<1>1. url \in [filter : Statuses \cup {All}, page : Nat \ {0}]
  BY ListsAssumption DEF ListsTypeOK
<1>2. k.page = (IF url.page > 1 THEN url.page - 1 ELSE 1) /\ k.filter = url.filter /\ url.page \in Nat
  BY <1>1
<1>3. m \in BOOLEAN /\ Replace(k, m)
  BY DEF PreviousPage
<1>4. ASSUME ~ m, k.page > 1 PROVE Exists(k)
  <2>1. url.page > 1 /\ url.page <= TotalPages(Len(Matching(inbox, url.filter)))
    BY <1>2, <1>4 DEF PagesExistUnmoved, Exists
  <2>2. TotalPages(Len(Matching(inbox, url.filter))) \in Nat
    BY ListsAssumption, TotalType DEF TotalPages
  <2> QED
    BY <1>2, <2>1, <2>2 DEF Exists
<1> HIDE DEF k, m
<1> QED
  BY <1>3, <1>4, ReplaceKeepsPages

LEMMA PagesStep == ASSUME ListsInv, PagesExistUnmoved, [ListsNext]_listVars PROVE PagesExistUnmoved'
<1>0. ListsTypeOK
  BY DEF ListsInv
<1>1. ASSUME UNCHANGED <<inbox, url, going, moved>> PROVE PagesExistUnmoved'
  BY <1>1 DEF PagesExistUnmoved, Exists
<1>2. ASSUME NEW i \in DOMAIN inbox, NEW s \in Statuses, Change(i, s) PROVE PagesExistUnmoved'
  BY <1>2 DEF Change, browserVars, LaterPages, PagesExistUnmoved
<1>3. ASSUME NEW k \in Addresses, Read(k) \/ Show(k) \/ FetchFails(k) \/ Age(k) PROVE PagesExistUnmoved'
  BY <1>1, <1>3 DEF Read, Show, FetchFails, Age, browserVars
<1>4. CASE Hear \/ TryAgain
  BY <1>1, <1>4 DEF Hear, TryAgain, browserVars
<1>5. ASSUME NEW f \in Statuses \cup {All}, Select(f) \/ Submit(f) PROVE PagesExistUnmoved'
  BY <1>0, <1>5, FirstPageKeepsPages DEF Select, Submit
<1>6. CASE Clear
  BY <1>0, <1>6, FirstPageKeepsPages DEF Clear
<1>7. CASE NextPage \/ PreviousPage
  BY <1>0, <1>7, NextPageKeepsPages, PreviousPageKeepsPages
<1>8. CASE Arrive
  BY <1>8 DEF Arrive, PagesExistUnmoved, Exists
<1>9. CASE UNCHANGED listVars
  BY <1>1, <1>9 DEF listVars, browserVars
<1> QED
  BY <1>2, <1>3, <1>4, <1>5, <1>6, <1>7, <1>8, <1>9 DEF ListsNext

\* A page of the list beyond the first is shown empty, and up to date, only
\* where tickets have changed since it was chosen, or it was chosen by a button
\* of another page or of an answer out of date (EmptyPagesNeedAChange), for any
\* page size and any tickets: the last page there is has rows
\* (tickets.service.ts:399-432, ticket-inbox.tsx:915-990).
THEOREM EmptyPagesAlwaysNeedAChange == ListsSpec => []EmptyPagesNeedAChange
<1>1. ListsInit => ListsInv /\ PagesExistUnmoved
  BY InitListsInv DEF ListsInit, Start, PagesExistUnmoved
<1>2. ListsInv /\ PagesExistUnmoved /\ [ListsNext]_listVars => (ListsInv /\ PagesExistUnmoved)'
  BY ListsStep, PagesStep
<1>3. ListsInv /\ PagesExistUnmoved => EmptyPagesNeedAChange
  BY PagesHaveRows DEF ListsInv, ListsTypeOK, PagesExistUnmoved, Exists, EmptyPagesNeedAChange
<1> QED
  BY <1>1, <1>2, <1>3, PTL DEF ListsSpec

===============================================================================
