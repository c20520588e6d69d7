--------------------------- MODULE TicketPageProofs ---------------------------
(***************************************************************************)
(* Theorems about the page of a ticket, for any number of pages, changes,  *)
(* messages and faults.                                                    *)
(***************************************************************************)

EXTENDS TicketPage, FiniteSetTheorems, TLAPS

-----------------------------------------------------------------------------
(* Types.  Messages are counted, so there are finitely many, and a new one   *)
(* has a number of its own; what a page counts as its own is among them.     *)

Counted ==
  /\ IsFiniteSet(messages)
  /\ \A m \in messages : m <= Cardinality(messages)
  /\ \A p \in Pages : own[p].messages \subseteq messages /\ composer[p].answer \subseteq messages

LEMMA InitTypes == Init => TypeOK /\ Counted
<1> SUFFICES ASSUME Init PROVE TypeOK /\ Counted
  OBVIOUS
<1>1. row \in Ticket
  BY DEF Init, Ticket
<1>2. messages = {} /\ messages \in MessageSet /\ IsFiniteSet(messages)
  BY FS_EmptySet DEF Init, MessageSet
<1>3. Stored \in Data
  BY <1>1, <1>2 DEF Stored, Data
<1>4. shows \in [Pages -> Data]
  BY <1>3 DEF Init
<1>5. [q \in Queries |-> NoFetch] \in [ticket : Fetched(Ticket), messages : Fetched(MessageSet)]
  BY DEF Queries, Fetched
<1>6. fetch \in [Pages -> [ticket : Fetched(Ticket), messages : Fetched(MessageSet)]]
  BY <1>5 DEF Init
<1>7. [c \in {"status", "edit"} |-> Idle] \in [status : Mutation, edit : Mutation]
  BY DEF Mutation
<1>8. control \in [Pages -> [status : Mutation, edit : Mutation]]
  BY <1>7 DEF Init
<1>9. {} \in MessageSet
  BY DEF MessageSet
<1>10. composer \in [Pages -> Composer]
  BY <1>9 DEF Init, Kinds, Composer
<1>11. own \in [Pages -> Owned]
  BY <1>9 DEF Init, Owned
<1>12. \A p \in Pages : composer[p].step = "empty" /\ composer[p].kind = "nothing" /\ composer[p].answer = {}
  BY DEF Init
<1>13. \A p \in Pages : own[p].messages = {}
  BY DEF Init
<1> QED BY <1>1, <1>2, <1>4, <1>6, <1>8, <1>10, <1>11, <1>12, <1>13 DEF Init, TypeOK, Counted, Queries

LEMMA ControlTypes ==
  ASSUME TypeOK, NEW p \in Pages, NEW c \in {"status", "edit"}, NEW to \in Mutation
  PROVE  /\ control[p][c] \in Mutation
         /\ [control EXCEPT ![p][c] = to] \in [Pages -> [status : Mutation, edit : Mutation]]
         /\ Refreshed(control[p]) \in [status : Mutation, edit : Mutation]
         /\ [control EXCEPT ![p] = Refreshed(@)] \in [Pages -> [status : Mutation, edit : Mutation]]
         /\ [control EXCEPT ![p] = [Refreshed(@) EXCEPT ![c] = to]] \in [Pages -> [status : Mutation, edit : Mutation]]
<1>1. /\ control \in [Pages -> [status : Mutation, edit : Mutation]]
      /\ control[p] \in [status : Mutation, edit : Mutation]
  BY DEF TypeOK
<1>2. control[p][c] \in Mutation /\ DOMAIN control[p] = {"status", "edit"}
  BY <1>1
<1>3. Idle \in Mutation
  BY DEF Mutation
<1>4. Refreshed(control[p]) \in [status : Mutation, edit : Mutation]
  BY <1>1, <1>2, <1>3 DEF Refreshed
<1>5. [Refreshed(control[p]) EXCEPT ![c] = to] \in [status : Mutation, edit : Mutation]
  BY <1>4
<1> QED BY <1>1, <1>2, <1>4, <1>5

LEMMA FetchTypes ==
  ASSUME TypeOK, NEW p \in Pages, NEW q \in Queries, NEW f,
         f \in {NoFetch, Sent} \/ (f.at = "answered" /\ f = [at |-> "answered", saw |-> Stored[q]])
  PROVE  [fetch EXCEPT ![p][q] = f] \in [Pages -> [ticket : Fetched(Ticket), messages : Fetched(MessageSet)]]
<1>1. /\ fetch[p] \in [ticket : Fetched(Ticket), messages : Fetched(MessageSet)]
      /\ row \in Ticket /\ messages \in MessageSet
      /\ fetch \in [Pages -> [ticket : Fetched(Ticket), messages : Fetched(MessageSet)]]
  BY DEF TypeOK
<1>2. CASE q = "ticket"
  <2>1. f \in Fetched(Ticket)
    BY <1>1, <1>2 DEF Fetched, Stored
  <2> QED BY <1>1, <1>2, <2>1
<1>3. CASE q = "messages"
  <2>1. f \in Fetched(MessageSet)
    BY <1>1, <1>3 DEF Fetched, Stored
  <2> QED BY <1>1, <1>3, <2>1
<1> QED BY <1>2, <1>3 DEF Queries

LEMMA DraftTypes ==
  ASSUME TypeOK, NEW p \in Pages, NEW d \in Composer,
         d.step \in {"sending", "posted"} <=> d.kind # "nothing",
         Draft(p, d)
  PROVE  /\ composer' \in [Pages -> Composer]
         /\ \A x \in Pages : composer'[x].step \in {"sending", "posted"} <=> composer'[x].kind # "nothing"
         /\ \A x \in Pages : composer'[x].answer = IF x = p THEN d.answer ELSE composer[x].answer
  BY DEF TypeOK, Draft

LEMMA KindTypes == ASSUME TypeOK, NEW p \in Pages PROVE Kind(p) \in Kinds
  BY DEF TypeOK, Kind, Kinds, Composer

LEMMA PublishTypes ==
  ASSUME TypeOK, NEW q \in Queries, Publish(q) PROVE events' \in [Pages -> SUBSET Queries]
  BY DEF TypeOK, Publish

LEMMA MessageTypes ==
  ASSUME TypeOK, Counted
  PROVE  /\ {Message} \in MessageSet /\ messages \cup {Message} \in MessageSet
         /\ IsFiniteSet(messages \cup {Message})
         /\ \A n \in messages \cup {Message} : n <= Cardinality(messages \cup {Message})
<1>1. Cardinality(messages) \in Nat
  BY FS_CardinalityType DEF Counted
<1>2. IsFiniteSet(messages \cup {Message})
  BY FS_AddElement DEF Counted
<1>3. Message \in Nat /\ Message \notin messages
  BY <1>1 DEF Message, Counted, TypeOK, MessageSet
<1>4. Cardinality(messages \cup {Message}) = Message
  BY <1>3, FS_AddElement DEF Counted, Message
<1>5. \A n \in messages : n <= Message
  BY <1>1 DEF Message, Counted, TypeOK, MessageSet
<1>6. \A n \in messages \cup {Message} : n <= Message
  BY <1>3, <1>5
<1>7. {Message} \in MessageSet /\ messages \cup {Message} \in MessageSet
  BY <1>3 DEF TypeOK, MessageSet
<1> QED BY <1>2, <1>4, <1>6, <1>7

-----------------------------------------------------------------------------
(* Every action keeps the types.                                             *)

LEMMA CacheKeepsTypes ==
  ASSUME TypeOK, Counted, NEW p \in Pages, NEW q \in Queries,
         Load(p, q) \/ FetchFails(p, q)
  PROVE  TypeOK' /\ Counted'
<1>1. CASE Read(p, q)
  <2>1. fetch' \in [Pages -> [ticket : Fetched(Ticket), messages : Fetched(MessageSet)]]
    BY <1>1, FetchTypes DEF Read
  <2> QED BY <1>1, <2>1 DEF Read, TypeOK, Counted, storeVars
<1>2. CASE Show(p, q)
  <2>1. fetch' \in [Pages -> [ticket : Fetched(Ticket), messages : Fetched(MessageSet)]]
    BY <1>2, FetchTypes DEF Show
  <2>2. control' \in [Pages -> [status : Mutation, edit : Mutation]]
    BY <1>2, ControlTypes DEF Show, Mutation, TypeOK
  <2>3. shows' \in [Pages -> Data]
    <3>1. fetch[p] \in [ticket : Fetched(Ticket), messages : Fetched(MessageSet)] /\ shows[p] \in Data
      BY DEF TypeOK
    <3>2. CASE q = "ticket"
      <4>1. fetch[p][q].saw \in Ticket
        BY <3>1, <3>2, <1>2 DEF Show, Fetched, NoFetch, Sent
      <4> QED BY <4>1, <3>1, <3>2, <1>2 DEF Show, Data, TypeOK
    <3>3. CASE q = "messages"
      <4>1. fetch[p][q].saw \in MessageSet
        BY <3>1, <3>3, <1>2 DEF Show, Fetched, NoFetch, Sent
      <4> QED BY <4>1, <3>1, <3>3, <1>2 DEF Show, Data, TypeOK
    <3> QED BY <3>2, <3>3 DEF Queries
  <2> QED BY <1>2, <2>1, <2>2, <2>3 DEF Show, TypeOK, Counted, storeVars
<1>3. CASE Hear(p, q)
  <2>1. control' \in [Pages -> [status : Mutation, edit : Mutation]]
    BY <1>3, ControlTypes DEF Hear, Mutation, TypeOK
  <2>2. fetch' \in [Pages -> [ticket : Fetched(Ticket), messages : Fetched(MessageSet)]]
    BY <1>3 DEF Hear, TypeOK, Fetched, Queries
  <2> QED BY <1>3, <2>1, <2>2 DEF Hear, TypeOK, Counted, storeVars
<1>4. CASE FetchFails(p, q)
  <2>1. fetch' \in [Pages -> [ticket : Fetched(Ticket), messages : Fetched(MessageSet)]]
    BY <1>4, FetchTypes DEF FetchFails
  <2>2. control' \in [Pages -> [status : Mutation, edit : Mutation]]
    BY <1>4, ControlTypes DEF FetchFails, Mutation, TypeOK
  <2> QED BY <1>4, <2>1, <2>2 DEF FetchFails, TypeOK, Counted, storeVars
<1> QED BY <1>1, <1>2, <1>3, <1>4 DEF Load

LEMMA ChangeKeepsTypes ==
  ASSUME TypeOK, NEW s \in Statuses, Change(s)
  PROVE  row' \in Ticket /\ events' \in [Pages -> SUBSET Queries]
<1>1. row' \in Ticket
  BY DEF TypeOK, Change, Ticket
<1>2. Publish("ticket") /\ "ticket" \in Queries
  BY DEF Change, Queries
<1> QED BY <1>1, <1>2, PublishTypes

\* What a control has asked for.
LEMMA AskedTypes ==
  ASSUME TypeOK, NEW p \in Pages, control[p]["status"].step \in {"sent", "validated"}
  PROVE  /\ control[p]["status"].to \in Statuses
         /\ control[p]["status"].shown \in Ticket
  BY DEF TypeOK, Mutation, Idle

LEMMA ControlsKeepTypes ==
  ASSUME TypeOK, Counted, NEW p \in Pages, NEW c \in {"status", "edit"}, NEW s \in Statuses,
         \/ SelectStatus(p, s) \/ SelectOther(p) \/ ValidateStatus(p) \/ UpdateStatus(p)
         \/ RefuseStatus(p) \/ UpdateOther(p) \/ Refresh(p, c) \/ LoseAnswer(p, c)
  PROVE  TypeOK' /\ Counted'
<1>1. CASE SelectStatus(p, s)
  <2>1. shows[p].ticket \in Ticket
    BY DEF TypeOK, Data
  <2>2. [step |-> "sent", to |-> s, shown |-> shows[p].ticket] \in Mutation
    BY <2>1 DEF Mutation
  <2>3. control' \in [Pages -> [status : Mutation, edit : Mutation]]
    BY <1>1, <2>2, ControlTypes DEF SelectStatus
  <2> QED BY <1>1, <2>3 DEF SelectStatus, TypeOK, Counted, storeVars, cacheVars
<1>2. CASE SelectOther(p)
  <2>1. [step |-> "editing"] \in Mutation
    BY DEF Mutation
  <2>2. control' \in [Pages -> [status : Mutation, edit : Mutation]]
    BY <1>2, <2>1, ControlTypes DEF SelectOther
  <2> QED BY <1>2, <2>2 DEF SelectOther, TypeOK, Counted, storeVars, cacheVars
<1>8. CASE ValidateStatus(p)
  <2>1. row.status \in Statuses /\ control[p]["status"] \in Mutation /\ "status" \in {"status", "edit"}
    BY DEF TypeOK, Ticket
  <2> DEFINE asked == control[p]["status"]
             to == [step |-> "validated", to |-> asked.to, shown |-> asked.shown, seen |-> row.status]
  <2>2. asked.to \in Statuses /\ asked.shown \in Ticket
    BY <1>8, <2>1, AskedTypes DEF ValidateStatus
  <2>3. to \in Mutation
    BY <2>1, <2>2 DEF Mutation
  <2>4. control' = [control EXCEPT ![p]["status"] = to]
    BY <1>8 DEF ValidateStatus, Answer
  <2> HIDE DEF to
  <2>5. control' \in [Pages -> [status : Mutation, edit : Mutation]]
    BY <2>3, <2>4, ControlTypes
  <2> QED BY <1>8, <2>5 DEF ValidateStatus, TypeOK, Counted, storeVars, cacheVars
<1>3. CASE UpdateStatus(p)
  <2>1. row.status \in Statuses /\ row.version \in Nat
    BY DEF TypeOK, Ticket
  <2>2. control[p]["status"].to \in Statuses
    BY <1>3, AskedTypes DEF UpdateStatus
  <2>3. row' \in Ticket /\ events' \in [Pages -> SUBSET Queries]
    BY <1>3, <2>2, ChangeKeepsTypes DEF UpdateStatus
  <2>4. [step |-> "written", version |-> row.version + 1] \in Mutation
    BY <2>1 DEF Mutation
  <2>5. control' \in [Pages -> [status : Mutation, edit : Mutation]]
    BY <1>3, <2>4, ControlTypes DEF UpdateStatus, Answer
  <2> QED BY <1>3, <2>3, <2>5 DEF UpdateStatus, TypeOK, Counted, cacheVars
<1>4. CASE RefuseStatus(p)
  <2>1. Idle \in Mutation
    BY DEF Mutation
  <2>2. control' \in [Pages -> [status : Mutation, edit : Mutation]]
    BY <1>4, <2>1, ControlTypes DEF RefuseStatus, Answer
  <2> QED BY <1>4, <2>2 DEF RefuseStatus, TypeOK, Counted, storeVars, cacheVars
<1>5. CASE UpdateOther(p)
  <2>1. row.status \in Statuses /\ row.version \in Nat
    BY DEF TypeOK, Ticket
  <2>2. row' \in Ticket /\ events' \in [Pages -> SUBSET Queries]
    BY <1>5, <2>1, ChangeKeepsTypes DEF UpdateOther
  <2>3. [step |-> "written", version |-> row.version + 1] \in Mutation
    BY <2>1 DEF Mutation
  <2>4. control' \in [Pages -> [status : Mutation, edit : Mutation]]
    BY <1>5, <2>3, ControlTypes DEF UpdateOther, Answer
  <2> QED BY <1>5, <2>2, <2>4 DEF UpdateOther, TypeOK, Counted, cacheVars
<1>6. CASE Refresh(p, c)
  <2>1. fetch' \in [Pages -> [ticket : Fetched(Ticket), messages : Fetched(MessageSet)]]
    BY <1>6, FetchTypes DEF Refresh, Refetch, Queries
  <2>2. PICK v \in Nat : control[p][c] = [step |-> "written", version |-> v]
    <3>1. control[p][c] \in Mutation
      BY DEF TypeOK
    <3> QED BY <1>6, <3>1 DEF Refresh, Mutation, Idle
  <2>3. [control[p][c] EXCEPT !.step = "refreshing"] \in Mutation
    BY <2>2 DEF Mutation
  <2>4. control' \in [Pages -> [status : Mutation, edit : Mutation]]
    BY <1>6, <2>3, ControlTypes DEF Refresh
  <2>5. /\ own' \in [Pages -> Owned]
        /\ \A x \in Pages : own'[x].messages = own[x].messages
    BY <1>6, <2>2 DEF Refresh, TypeOK, Owned
  <2> QED BY <1>6, <2>1, <2>4, <2>5 DEF Refresh, TypeOK, Counted, storeVars
<1>7. CASE LoseAnswer(p, c)
  <2>1. Idle \in Mutation
    BY DEF Mutation
  <2>2. control' \in [Pages -> [status : Mutation, edit : Mutation]]
    BY <1>7, <2>1, ControlTypes DEF LoseAnswer, Answer
  <2> QED BY <1>7, <2>2 DEF LoseAnswer, TypeOK, Counted, storeVars, cacheVars
<1> QED BY <1>1, <1>2, <1>3, <1>4, <1>5, <1>6, <1>7, <1>8

LEMMA ComposerKeepsTypes ==
  ASSUME TypeOK, Counted, NEW p \in Pages, NEW k \in Kinds,
         Type(p) \/ SelectKind(p, k) \/ Submit(p) \/ RefuseMessage(p) \/ LoseMessage(p)
  PROVE  TypeOK' /\ Counted'
<1>1. /\ composer[p] \in Composer /\ Kind(p) \in Kinds /\ {} \in MessageSet
      /\ composer[p].step \in {"sending", "posted"} <=> composer[p].kind # "nothing"
  BY KindTypes DEF TypeOK, MessageSet
<1> SUFFICES ASSUME NEW d \in Composer, Draft(p, d),
                    d.step \in {"sending", "posted"} <=> d.kind # "nothing",
                    d.answer \in {composer[p].answer, {}},
                    UNCHANGED <<storeVars, cacheVars, control, events, own>>, faults' \in Nat
             PROVE  TypeOK' /\ Counted'
  <2>1. CASE Type(p)
    BY <1>1, <2>1 DEF Type, Composer, Kinds, TypeOK
  <2>2. CASE SelectKind(p, k)
    BY <1>1, <2>2 DEF SelectKind, Composer, Kinds, TypeOK
  <2>3. CASE Submit(p)
    BY <1>1, <2>3 DEF Submit, Composer, Kinds, TypeOK
  <2>4. CASE RefuseMessage(p)
    BY <1>1, <2>4 DEF RefuseMessage, Composer, Kinds, TypeOK
  <2>5. CASE LoseMessage(p)
    <3> DEFINE d == [composer[p] EXCEPT !.step = "draft", !.kind = "nothing", !.answer = {}]
    <3>1. d \in Composer /\ d.step = "draft" /\ d.kind = "nothing" /\ d.answer = {}
      BY <1>1 DEF Composer
    <3>2. /\ Draft(p, d) /\ faults' = faults + 1
          /\ UNCHANGED <<storeVars, cacheVars, control, events, own>>
      BY <2>5 DEF LoseMessage
    <3>3. faults' \in Nat
      BY <3>2 DEF TypeOK
    <3> HIDE DEF d
    <3> QED BY <3>1, <3>2, <3>3
  <2> QED BY <2>1, <2>2, <2>3, <2>4, <2>5
<1>2. /\ composer' \in [Pages -> Composer]
      /\ \A x \in Pages : composer'[x].step \in {"sending", "posted"} <=> composer'[x].kind # "nothing"
      /\ \A x \in Pages : composer'[x].answer = IF x = p THEN d.answer ELSE composer[x].answer
  BY DraftTypes
<1> QED BY <1>2 DEF TypeOK, Counted, storeVars, cacheVars

LEMMA MessagesKeepTypes ==
  ASSUME TypeOK, Counted, NEW p \in Pages, CreateMessage(p) \/ Appear(p)
  PROVE  TypeOK' /\ Counted'
<1>1. /\ composer[p] \in Composer /\ {} \in MessageSet /\ "messages" \in Queries
      /\ composer[p].step \in {"sending", "posted"} <=> composer[p].kind # "nothing"
  BY DEF TypeOK, MessageSet, Queries
<1>2. CASE CreateMessage(p)
  <2> DEFINE m == Message
             d == [composer[p] EXCEPT !.step = "posted", !.answer = {m}]
  <2>2. /\ {m} \in MessageSet /\ messages \cup {m} \in MessageSet /\ IsFiniteSet(messages \cup {m})
        /\ \A n \in messages \cup {m} : n <= Cardinality(messages \cup {m})
    BY MessageTypes
  <2>3. messages' = messages \cup {m} /\ Draft(p, d) /\ Publish("messages") /\ composer[p].step = "sending"
    BY <1>2 DEF CreateMessage
  <2> HIDE DEF m
  <2>4. d \in Composer /\ d.answer = {m} /\ d.step = "posted" /\ d.kind # "nothing"
    BY <1>1, <2>2, <2>3 DEF Composer
  <2> HIDE DEF d
  <2>5. /\ composer' \in [Pages -> Composer]
        /\ \A x \in Pages : composer'[x].step \in {"sending", "posted"} <=> composer'[x].kind # "nothing"
        /\ \A x \in Pages : composer'[x].answer = IF x = p THEN {m} ELSE composer[x].answer
    BY <2>3, <2>4, DraftTypes
  <2>6. events' \in [Pages -> SUBSET Queries]
    BY <1>1, <2>3, PublishTypes
  <2> QED BY <1>2, <2>2, <2>3, <2>5, <2>6 DEF CreateMessage, TypeOK, Counted, cacheVars
<1>3. CASE Appear(p)
  <2> DEFINE d == [composer[p] EXCEPT !.step = "empty", !.typed = "nothing", !.kind = "nothing", !.answer = {}]
  <2>1. d \in Composer /\ d.answer = {} /\ d.step = "empty" /\ d.kind = "nothing"
    BY <1>1 DEF Composer
  <2>2. Draft(p, d)
    BY <1>3 DEF Appear
  <2> HIDE DEF d
  <2>3. /\ composer' \in [Pages -> Composer]
        /\ \A x \in Pages : composer'[x].step \in {"sending", "posted"} <=> composer'[x].kind # "nothing"
        /\ \A x \in Pages : composer'[x].answer = IF x = p THEN {} ELSE composer[x].answer
    BY <2>1, <2>2, DraftTypes
  <2>4. /\ shows[p] \in Data /\ own[p] \in Owned
        /\ composer[p].answer \in MessageSet
    BY <1>1 DEF TypeOK, Composer
  <2>5. shows' \in [Pages -> Data]
    <3>1. shows[p].messages \cup composer[p].answer \in MessageSet
      BY <2>4 DEF Data, MessageSet
    <3> QED BY <1>3, <2>4, <3>1 DEF Appear, Data, TypeOK
  <2>6. own' \in [Pages -> Owned]
    <3>1. own[p].messages \cup composer[p].answer \in MessageSet
      BY <2>4 DEF Owned, MessageSet
    <3> QED BY <1>3, <2>4, <3>1 DEF Appear, Owned, TypeOK
  <2>7. \A x \in Pages : own'[x].messages \subseteq messages
    BY <1>3 DEF Appear, Counted, Owned, TypeOK
  <2> QED BY <1>3, <2>3, <2>5, <2>6, <2>7 DEF Appear, TypeOK, Counted, storeVars
<1> QED BY <1>2, <1>3

LEMMA OthersKeepTypes ==
  ASSUME TypeOK, Counted, NEW s \in Statuses, CustomerReplies \/ CreateElsewhere \/ ChangeElsewhere(s)
  PROVE  TypeOK' /\ Counted'
<1>1. CASE CustomerReplies \/ CreateElsewhere
  <2>1. /\ messages \cup {Message} \in MessageSet /\ IsFiniteSet(messages \cup {Message})
        /\ \A n \in messages \cup {Message} : n <= Cardinality(messages \cup {Message})
    BY MessageTypes
  <2>2. /\ messages' = messages \cup {Message} /\ Publish("messages") /\ "messages" \in Queries
        /\ UNCHANGED <<cacheVars, control, composer, own, faults>>
    BY <1>1 DEF CustomerReplies, CreateElsewhere, Queries
  <2>3. row' \in Ticket
    BY <1>1 DEF CustomerReplies, CreateElsewhere, TypeOK, Ticket, Statuses
  <2>4. events' \in [Pages -> SUBSET Queries]
    BY <2>2, PublishTypes
  <2> QED BY <2>1, <2>2, <2>3, <2>4 DEF TypeOK, Counted, cacheVars
<1>2. CASE ChangeElsewhere(s)
  <2>1. row' \in Ticket /\ events' \in [Pages -> SUBSET Queries]
    BY <1>2, ChangeKeepsTypes DEF ChangeElsewhere
  <2> QED BY <1>2, <2>1 DEF ChangeElsewhere, TypeOK, Counted, cacheVars
<1> QED BY <1>1, <1>2

LEMMA NextTypes == TypeOK /\ Counted /\ [Next]_vars => TypeOK' /\ Counted'
<1> SUFFICES ASSUME TypeOK, Counted, [Next]_vars PROVE TypeOK' /\ Counted'
  OBVIOUS
<1>1. CASE UNCHANGED vars
  BY <1>1 DEF TypeOK, Counted, vars, storeVars, pageVars, cacheVars
<1>2. CASE Next
  BY <1>2, CacheKeepsTypes, ControlsKeepTypes, ComposerKeepsTypes, MessagesKeepTypes, OthersKeepTypes
     DEF Next, Statuses, Kinds
<1> QED BY <1>1, <1>2

\* Type correctness (TypeOK) for any number of pages, changes and messages.
THEOREM PageTypeCorrect == Spec => []TypeOK
<1>1. Init => TypeOK /\ Counted
  BY InitTypes
<1>2. TypeOK /\ Counted /\ [Next]_vars => (TypeOK /\ Counted)'
  BY NextTypes
<1> QED BY <1>1, <1>2, PTL DEF Spec

-----------------------------------------------------------------------------
(* A page catches up: whatever a step does to what is stored is announced to *)
(* every page, and whatever it does to a page comes from the store.          *)

LEMMA InitCatchesUp == Init => PagesCatchUp
<1> SUFFICES ASSUME Init, NEW p \in Pages, NEW q \in Queries
             PROVE  /\ shows[p][q] = Stored[q]
                    /\ fetch[p][q].at # "answered"
  BY DEF PagesCatchUp
<1> QED BY DEF Init, NoFetch, Queries

\* A step that changes no cache, no event and nothing that is stored.
LEMMA QuietCatchesUp ==
  PagesCatchUp /\ UNCHANGED <<storeVars, cacheVars, events>> => PagesCatchUp'
  BY DEF PagesCatchUp, storeVars, cacheVars, Stored, Pending

\* A step that changes what one query returns, and announces it.
LEMMA AnnouncedCatchesUp ==
  ASSUME TypeOK, PagesCatchUp, UNCHANGED cacheVars, NEW q \in Queries, Publish(q),
         q = "ticket" => messages' = messages
  PROVE  PagesCatchUp'
<1>1. \A p \in Pages : events'[p] = events[p] \cup {q}
  BY DEF Publish
<1>2. CASE q = "ticket"
  <2>1. \A p \in Pages : Pending(p, "ticket")'
    BY <1>1, <1>2 DEF Pending
  <2>2. \A p \in Pages : Pending(p, "messages") => Pending(p, "messages")'
    BY <1>1 DEF Pending
  <2>3. Stored'["messages"] = Stored["messages"]
    BY <1>2 DEF Stored
  <2> QED BY <2>1, <2>2, <2>3 DEF PagesCatchUp, cacheVars, Queries
<1>3. CASE q = "messages"
  <2>1. \A p \in Pages, r \in Queries : Pending(p, r)'
    BY <1>1, <1>3 DEF Pending
  <2> QED BY <2>1 DEF PagesCatchUp
<1> QED BY <1>2, <1>3 DEF Queries

LEMMA FetchShape ==
  ASSUME TypeOK, NEW p \in Pages
  PROVE  fetch \in [Pages -> [Queries -> Fetched(Ticket) \cup Fetched(MessageSet)]]
         /\ shows \in [Pages -> [Queries -> Ticket \cup MessageSet]]
  BY DEF TypeOK, Queries, Data

LEMMA CacheCatchesUp ==
  ASSUME TypeOK, PagesCatchUp, NEW p \in Pages, NEW q \in Queries,
         Load(p, q) \/ FetchFails(p, q)
  PROVE  PagesCatchUp'
<1>1. /\ fetch \in [Pages -> [Queries -> Fetched(Ticket) \cup Fetched(MessageSet)]]
      /\ shows \in [Pages -> [Queries -> Ticket \cup MessageSet]]
      /\ failed \in [Pages -> SUBSET Queries] /\ events \in [Pages -> SUBSET Queries]
  BY FetchShape DEF TypeOK
<1>2. UNCHANGED storeVars => Stored' = Stored
  BY DEF storeVars, Stored
<1> SUFFICES ASSUME NEW x \in Pages, NEW r \in Queries
             PROVE  (/\ fetch[x][r] = NoFetch /\ shows[x][r] # Stored[r] => Pending(x, r) \/ r \in failed[x]
                     /\ fetch[x][r].at = "answered" => fetch[x][r].saw = Stored[r] \/ Pending(x, r))'
  BY DEF PagesCatchUp
<1>3. /\ fetch[x][r] = NoFetch /\ shows[x][r] # Stored[r] => Pending(x, r) \/ r \in failed[x]
      /\ fetch[x][r].at = "answered" => fetch[x][r].saw = Stored[r] \/ Pending(x, r)
  BY DEF PagesCatchUp
<1>4. CASE Read(p, q)
  <2>1. fetch'[x][r] = IF x = p /\ r = q THEN [at |-> "answered", saw |-> Stored[q]] ELSE fetch[x][r]
    BY <1>1, <1>4 DEF Read
  <2>2. Stored' = Stored /\ shows' = shows /\ failed' = failed /\ events' = events
    BY <1>2, <1>4 DEF Read
  <2> QED BY <1>3, <2>1, <2>2 DEF Pending, NoFetch
<1>5. CASE Show(p, q)
  <2>1. /\ fetch'[x][r] = IF x = p /\ r = q THEN NoFetch ELSE fetch[x][r]
        /\ shows'[x][r] = IF x = p /\ r = q THEN fetch[p][q].saw ELSE shows[x][r]
        /\ r \in failed'[x] <=> r \in failed[x] /\ ~(x = p /\ r = q)
    BY <1>1, <1>5 DEF Show
  <2>2. Stored' = Stored /\ events' = events /\ fetch[p][q].at = "answered"
    BY <1>2, <1>5 DEF Show
  <2> QED BY <1>3, <2>1, <2>2 DEF Pending, NoFetch
<1>6. CASE Hear(p, q)
  <2>1. /\ fetch'[x][r] = IF x = p /\ (r = q \/ q = "messages") THEN Sent ELSE fetch[x][r]
        /\ events'[x] = IF x = p THEN events[x] \ {q} ELSE events[x]
    BY <1>1, <1>6 DEF Hear
  <2>2. Stored' = Stored /\ shows' = shows /\ failed' = failed
    BY <1>2, <1>6 DEF Hear
  <2>3. CASE x = p /\ (r = q \/ q = "messages")
    BY <2>1, <2>3 DEF NoFetch, Sent
  <2>4. CASE ~(x = p /\ (r = q \/ q = "messages"))
    <3>1. Pending(x, r) => Pending(x, r)'
      BY <2>1, <2>4 DEF Pending
    <3> QED BY <1>3, <2>1, <2>2, <2>4, <3>1
  <2> QED BY <2>3, <2>4
<1>7. CASE FetchFails(p, q)
  <2>1. /\ fetch'[x][r] = IF x = p /\ r = q THEN NoFetch ELSE fetch[x][r]
        /\ r \in failed'[x] <=> r \in failed[x] \/ (x = p /\ r = q)
    BY <1>1, <1>7 DEF FetchFails
  <2>2. Stored' = Stored /\ events' = events /\ shows' = shows
    BY <1>2, <1>7 DEF FetchFails
  <2> QED BY <1>3, <2>1, <2>2 DEF Pending, NoFetch
<1> QED BY <1>4, <1>5, <1>6, <1>7 DEF Load

LEMMA RefreshCatchesUp ==
  ASSUME TypeOK, PagesCatchUp, NEW p \in Pages, NEW c \in {"status", "edit"}, Refresh(p, c)
  PROVE  PagesCatchUp'
<1>1. \A x \in Pages, r \in Queries :
        fetch'[x][r] = IF x = p /\ r = "ticket" THEN Sent ELSE fetch[x][r]
  BY FetchShape DEF Refresh, Refetch, Queries
<1>2. Stored' = Stored /\ UNCHANGED <<shows, failed, events>>
  BY DEF Refresh, storeVars, Stored
<1> QED BY <1>1, <1>2 DEF PagesCatchUp, Pending, NoFetch, Sent

LEMMA AppearCatchesUp ==
  ASSUME TypeOK, Counted, PagesCatchUp, NEW p \in Pages, Appear(p)
  PROVE  PagesCatchUp'
<1>1. \A x \in Pages : /\ shows'[x].ticket = shows[x].ticket
                       /\ shows'[x].messages = IF x = p THEN shows[x].messages \cup composer[p].answer
                                               ELSE shows[x].messages
  <2>1. shows' = [shows EXCEPT ![p].messages = @ \cup composer[p].answer]
    BY DEF Appear
  <2>2. shows \in [Pages -> [ticket : Ticket, messages : MessageSet]]
    BY DEF TypeOK, Data
  <2> QED BY ONLY <2>1, <2>2, p \in Pages
<1>2. composer[p].answer \subseteq messages
  BY DEF Counted
<1>3. Stored' = Stored /\ UNCHANGED <<fetch, failed, events>>
  BY DEF Appear, storeVars, Stored
<1>4. \A x \in Pages, r \in Queries : shows[x][r] = Stored[r] => shows'[x][r] = Stored[r]
  <2> SUFFICES ASSUME NEW x \in Pages, NEW r \in Queries, shows[x][r] = Stored[r]
               PROVE  shows'[x][r] = Stored[r]
    OBVIOUS
  <2>1. CASE r = "ticket"
    BY <1>1, <2>1
  <2>2. CASE r = "messages"
    <3>1. shows[x].messages = messages
      BY <2>2 DEF Stored
    <3>2. shows[x].messages \cup composer[p].answer = messages
      BY <3>1, <1>2
    <3>3. shows'[x].messages = messages
      BY <1>1, <3>1, <3>2
    <3> QED BY <2>2, <3>3 DEF Stored
  <2> QED BY <2>1, <2>2 DEF Queries
<1> QED BY <1>3, <1>4 DEF PagesCatchUp, Pending

LEMMA NextCatchesUp == TypeOK /\ Counted /\ PagesCatchUp /\ [Next]_vars => PagesCatchUp'
<1> SUFFICES ASSUME TypeOK, Counted, PagesCatchUp, [Next]_vars PROVE PagesCatchUp'
  OBVIOUS
<1> USE DEF Queries
<1>1. CASE UNCHANGED vars
  BY <1>1, QuietCatchesUp DEF vars, pageVars
<1>2. CASE CustomerReplies \/ CreateElsewhere
  BY <1>2, AnnouncedCatchesUp DEF CustomerReplies, CreateElsewhere
<1>3. ASSUME NEW s \in Statuses, ChangeElsewhere(s) PROVE PagesCatchUp'
  BY <1>3, AnnouncedCatchesUp DEF ChangeElsewhere, Change
<1>4. ASSUME NEW p \in Pages, NEW q \in Queries, Load(p, q) \/ FetchFails(p, q) PROVE PagesCatchUp'
  BY <1>4, CacheCatchesUp
<1>5. ASSUME NEW p \in Pages, NEW s \in Statuses,
             SelectStatus(p, s) \/ SelectOther(p) \/ ValidateStatus(p) \/ RefuseStatus(p)
      PROVE  PagesCatchUp'
  BY <1>5, QuietCatchesUp DEF SelectStatus, SelectOther, ValidateStatus, RefuseStatus
<1>6. ASSUME NEW p \in Pages, UpdateStatus(p) \/ UpdateOther(p) PROVE PagesCatchUp'
  BY <1>6, AnnouncedCatchesUp DEF UpdateStatus, UpdateOther, Change
<1>7. ASSUME NEW p \in Pages, NEW c \in {"status", "edit"}, Refresh(p, c) PROVE PagesCatchUp'
  BY <1>7, RefreshCatchesUp
<1>8. ASSUME NEW p \in Pages, NEW c \in {"status", "edit"}, LoseAnswer(p, c) PROVE PagesCatchUp'
  BY <1>8, QuietCatchesUp DEF LoseAnswer
<1>9. ASSUME NEW p \in Pages, NEW k \in Kinds,
             Type(p) \/ SelectKind(p, k) \/ Submit(p) \/ RefuseMessage(p) \/ LoseMessage(p)
      PROVE  PagesCatchUp'
  BY <1>9, QuietCatchesUp DEF Type, SelectKind, Submit, RefuseMessage, LoseMessage
<1>10. ASSUME NEW p \in Pages, CreateMessage(p) PROVE PagesCatchUp'
  BY <1>10, AnnouncedCatchesUp DEF CreateMessage
<1>11. ASSUME NEW p \in Pages, Appear(p) PROVE PagesCatchUp'
  BY <1>11, AppearCatchesUp
<1> QED BY <1>1, <1>2, <1>3, <1>4, <1>5, <1>6, <1>7, <1>8, <1>9, <1>10, <1>11 DEF Next, Statuses, Kinds

\* PagesCatchUp for any number of pages, changes, messages and faults.
THEOREM PagesAlwaysCatchUp == Spec => []PagesCatchUp
<1>1. Init => TypeOK /\ Counted /\ PagesCatchUp
  BY InitTypes, InitCatchesUp
<1>2. TypeOK /\ Counted /\ PagesCatchUp /\ [Next]_vars => (TypeOK /\ Counted /\ PagesCatchUp)'
  BY NextTypes, NextCatchesUp
<1> QED BY <1>1, <1>2, PTL DEF Spec

\* A message that was sent is shown, or about to be (OwnMessagesAreShown): it is
\* stored, and the page catches up with what is stored.
THEOREM OwnMessagesAreAlwaysShown == Spec => []OwnMessagesAreShown
<1>1. TypeOK /\ Counted /\ PagesCatchUp => OwnMessagesAreShown
  <2> SUFFICES ASSUME TypeOK, Counted, PagesCatchUp, NEW p \in Pages,
                      ~(own[p].messages \subseteq shows[p].messages),
                      ~Pending(p, "messages"), "messages" \notin failed[p]
               PROVE  \/ fetch[p]["messages"] = Sent
                      \/ /\ fetch[p]["messages"].at = "answered"
                         /\ own[p].messages \subseteq fetch[p]["messages"].saw
    BY DEF OwnMessagesAreShown, Coming
  <2>1. own[p].messages \subseteq messages /\ Stored["messages"] = messages
    BY DEF Counted, Stored
  <2>2. fetch[p]["messages"] # NoFetch
    BY <2>1 DEF PagesCatchUp, Queries
  <2>3. CASE fetch[p]["messages"].at = "answered"
    BY <2>1, <2>3 DEF PagesCatchUp, Queries
  <2>4. fetch[p]["messages"] \in Fetched(MessageSet)
    BY DEF TypeOK
  <2> QED BY <2>2, <2>3, <2>4 DEF Fetched
<1>2. Init => TypeOK /\ Counted /\ PagesCatchUp
  BY InitTypes, InitCatchesUp
<1>3. TypeOK /\ Counted /\ PagesCatchUp /\ [Next]_vars => (TypeOK /\ Counted /\ PagesCatchUp)'
  BY NextTypes, NextCatchesUp
<1> QED BY <1>1, <1>2, <1>3, PTL DEF Spec

-----------------------------------------------------------------------------
(* Changes that were confirmed.  That a page shows them or fetches them does *)
(* not say that an answer on its way includes them, so it is not inductive:  *)
(* an answer is never older than what was confirmed, because the refetch     *)
(* that follows a confirmation gives up the fetch before it.                 *)

Includes(ticket, p) == ticket.version >= own[p].version

Confirmed ==
  \A p \in Pages :
    /\ Includes(row, p)
    /\ \A c \in {"status", "edit"} : control[p][c].step = "written" => control[p][c].version <= row.version
    /\ fetch[p].ticket = NoFetch => Includes(shows[p].ticket, p) \/ "ticket" \in failed[p]
    /\ fetch[p].ticket.at = "answered" => Includes(fetch[p].ticket.saw, p)

LEMMA InitConfirmed == Init => Confirmed
  BY DEF Init, Confirmed, Includes, Stored, Idle, Queries, NoFetch

\* Versions are numbers wherever they appear.
LEMMA VersionTypes ==
  ASSUME TypeOK, NEW p \in Pages
  PROVE  /\ own[p].version \in Nat /\ row.version \in Nat /\ shows[p].ticket.version \in Nat
         /\ fetch[p].ticket.at = "answered" => fetch[p].ticket.saw.version \in Nat
         /\ \A c \in {"status", "edit"} : control[p][c].step = "written" => control[p][c].version \in Nat
<1>1. own[p].version \in Nat /\ row.version \in Nat /\ shows[p].ticket.version \in Nat
  BY DEF TypeOK, Data, Owned, Ticket
<1>2. fetch[p].ticket \in Fetched(Ticket)
  BY DEF TypeOK
<1>3. \A c \in {"status", "edit"} : control[p][c] \in Mutation
  BY DEF TypeOK
<1>4. fetch[p].ticket.at = "answered" => fetch[p].ticket.saw.version \in Nat
  BY <1>2 DEF Fetched, NoFetch, Sent, Ticket
<1>5. \A c \in {"status", "edit"} : control[p][c].step = "written" => control[p][c].version \in Nat
  BY <1>3 DEF Mutation, Idle
<1> QED BY <1>1, <1>4, <1>5

\* A step after which the ticket is no older and no mutation newly confirmed,
\* the cached ticket being left alone.
LEMMA ChangeKeepsConfirmed ==
  ASSUME TypeOK, Confirmed, UNCHANGED <<fetch, failed>>,
         row'.version \in Nat, row'.version >= row.version,
         \A p \in Pages : own'[p].version = own[p].version /\ shows'[p].ticket = shows[p].ticket,
         \A p \in Pages, c \in {"status", "edit"} :
           control'[p][c].step = "written" =>
             control'[p][c] = control[p][c] \/ control'[p][c].version = row'.version
  PROVE  Confirmed'
<1> SUFFICES ASSUME NEW p \in Pages
             PROVE  (/\ Includes(row, p)
                     /\ \A c \in {"status", "edit"} : control[p][c].step = "written" => control[p][c].version <= row.version
                     /\ fetch[p].ticket = NoFetch => Includes(shows[p].ticket, p) \/ "ticket" \in failed[p]
                     /\ fetch[p].ticket.at = "answered" => Includes(fetch[p].ticket.saw, p))'
  BY DEF Confirmed
<1>1. own[p].version \in Nat /\ row.version \in Nat
  BY VersionTypes
<1>2. Includes(row, p)'
  BY <1>1 DEF Confirmed, Includes
<1>3. ASSUME NEW c \in {"status", "edit"}, control'[p][c].step = "written"
      PROVE  control'[p][c].version <= row'.version
  <2>1. control[p][c].step = "written" => control[p][c].version \in Nat
    BY VersionTypes
  <2> QED BY <1>1, <1>3, <2>1 DEF Confirmed
<1>4. (fetch[p].ticket = NoFetch => Includes(shows[p].ticket, p) \/ "ticket" \in failed[p])'
  BY DEF Confirmed, Includes
<1>5. (fetch[p].ticket.at = "answered" => Includes(fetch[p].ticket.saw, p))'
  BY DEF Confirmed, Includes
<1> QED BY <1>2, <1>3, <1>4, <1>5

\* A control that stops waiting for the ticket to be refetched was not
\* confirmed by that.
LEMMA RefreshedWritten ==
  ASSUME TypeOK, NEW p \in Pages, NEW c \in {"status", "edit"}
  PROVE  Refreshed(control[p])[c].step = "written" => Refreshed(control[p])[c] = control[p][c]
<1>1. DOMAIN control[p] = {"status", "edit"}
  BY DEF TypeOK
<1> QED BY <1>1 DEF Refreshed, Idle

LEMMA CacheKeepsConfirmed ==
  ASSUME TypeOK, Confirmed, NEW p \in Pages, NEW q \in Queries,
         Load(p, q) \/ FetchFails(p, q)
  PROVE  Confirmed'
<1>1. /\ control \in [Pages -> [status : Mutation, edit : Mutation]]
      /\ fetch \in [Pages -> [Queries -> Fetched(Ticket) \cup Fetched(MessageSet)]]
      /\ shows \in [Pages -> [Queries -> Ticket \cup MessageSet]]
      /\ failed \in [Pages -> SUBSET Queries]
  BY FetchShape DEF TypeOK
<1>2. UNCHANGED <<row, own>>
  BY DEF Load, Read, Show, Hear, FetchFails, storeVars
<1> SUFFICES ASSUME NEW x \in Pages
             PROVE  (/\ Includes(row, x)
                     /\ \A c \in {"status", "edit"} : control[x][c].step = "written" => control[x][c].version <= row.version
                     /\ fetch[x].ticket = NoFetch => Includes(shows[x].ticket, x) \/ "ticket" \in failed[x]
                     /\ fetch[x].ticket.at = "answered" => Includes(fetch[x].ticket.saw, x))'
  BY DEF Confirmed
<1>3. Includes(row, x)'
  BY <1>2 DEF Confirmed, Includes
<1>4. ASSUME NEW c \in {"status", "edit"}, control'[x][c].step = "written"
      PROVE  control'[x][c].version <= row'.version
  <2>1. control'[x] \in {control[x], Refreshed(control[x])}
    BY <1>1 DEF Load, Read, Show, Hear, FetchFails
  <2>2. control'[x][c] = control[x][c]
    BY <1>4, <2>1, RefreshedWritten
  <2> QED BY <1>2, <1>4, <2>2 DEF Confirmed
<1>5. /\ (fetch[x].ticket = NoFetch => Includes(shows[x].ticket, x) \/ "ticket" \in failed[x])'
      /\ (fetch[x].ticket.at = "answered" => Includes(fetch[x].ticket.saw, x))'
  <2>0. /\ fetch[x].ticket = NoFetch => Includes(shows[x].ticket, x) \/ "ticket" \in failed[x]
        /\ fetch[x].ticket.at = "answered" => Includes(fetch[x].ticket.saw, x)
        /\ Includes(row, x)
    BY DEF Confirmed
  <2>1. CASE Read(p, q)
    <3>1. fetch'[x].ticket = IF x = p /\ q = "ticket" THEN [at |-> "answered", saw |-> row] ELSE fetch[x].ticket
      BY <1>1, <2>1 DEF Read, Queries, Stored
    <3>2. shows' = shows /\ failed' = failed
      BY <2>1 DEF Read
    <3> QED BY <1>2, <2>0, <3>1, <3>2 DEF Includes, NoFetch
  <2>2. CASE Show(p, q)
    <3>1. /\ fetch'[x].ticket = IF x = p /\ q = "ticket" THEN NoFetch ELSE fetch[x].ticket
          /\ shows'[x].ticket = IF x = p /\ q = "ticket" THEN fetch[x].ticket.saw ELSE shows[x].ticket
          /\ "ticket" \in failed[x] /\ ~(x = p /\ q = "ticket") => "ticket" \in failed'[x]
          /\ x = p /\ q = "ticket" => fetch[x].ticket.at = "answered"
      BY <1>1, <2>2 DEF Show, Queries
    <3> QED BY <1>2, <2>0, <3>1 DEF Includes, NoFetch
  <2>3. CASE Hear(p, q)
    <3>1. fetch'[x].ticket \in {Sent, fetch[x].ticket} /\ shows' = shows /\ failed' = failed
      BY <1>1, <2>3 DEF Hear, Queries
    <3> QED BY <1>2, <2>0, <3>1 DEF Includes, NoFetch, Sent
  <2>4. CASE FetchFails(p, q)
    <3>1. /\ fetch'[x].ticket = IF x = p /\ q = "ticket" THEN NoFetch ELSE fetch[x].ticket
          /\ shows' = shows
          /\ "ticket" \in failed'[x] <=> "ticket" \in failed[x] \/ (x = p /\ q = "ticket")
      BY <1>1, <2>4 DEF FetchFails, Queries
    <3> QED BY <1>2, <2>0, <3>1 DEF Includes, NoFetch
  <2> QED BY <2>1, <2>2, <2>3, <2>4 DEF Load
<1> QED BY <1>3, <1>4, <1>5

LEMMA RefreshKeepsConfirmed ==
  ASSUME TypeOK, Confirmed, NEW p \in Pages, NEW c \in {"status", "edit"}, Refresh(p, c)
  PROVE  Confirmed'
<1>1. /\ UNCHANGED <<row, shows, failed>>
      /\ \A x \in Pages : fetch'[x].ticket = IF x = p THEN Sent ELSE fetch[x].ticket
  BY DEF Refresh, Refetch, TypeOK, storeVars
<1>2. \A x \in Pages :
        own'[x].version = IF x = p /\ own[p].version < control[p][c].version THEN control[p][c].version
                          ELSE own[x].version
  BY DEF Refresh, TypeOK
<1>3. control[p][c].step = "written" /\ control[p][c].version \in Nat /\ control[p][c].version <= row.version
  BY VersionTypes DEF Refresh, Confirmed
<1>4. \A x \in Pages : own'[x].version <= row.version
  BY <1>2, <1>3 DEF Confirmed, Includes
<1>5. ASSUME NEW x \in Pages, NEW e \in {"status", "edit"}, control'[x][e].step = "written"
      PROVE  control'[x][e].version <= row.version
  <2>1. CASE x # p
    BY <1>5, <2>1 DEF Refresh, Confirmed, TypeOK
  <2>2. CASE x = p /\ e = c
    <3>1. control'[x][e].step = "refreshing"
      <4>1. Refreshed(control[p]) \in [status : Mutation, edit : Mutation]
        <5>1. Idle \in Mutation
          BY DEF Mutation
        <5> QED BY <5>1, ControlTypes
      <4>2. control'[p] = [Refreshed(control[p]) EXCEPT ![c] = [control[p][c] EXCEPT !.step = "refreshing"]]
        BY DEF Refresh, TypeOK
      <4>3. control'[p][c] = [control[p][c] EXCEPT !.step = "refreshing"]
        BY <4>1, <4>2
      <4>4. control[p][c] \in Mutation
        BY DEF TypeOK
      <4> QED BY <1>3, <2>2, <4>3, <4>4 DEF Mutation, Idle
    <3> QED BY <1>5, <3>1
  <2>3. CASE x = p /\ e # c
    <3>1. DOMAIN Refreshed(control[p]) = {"status", "edit"}
      BY DEF Refreshed, TypeOK
    <3>2. control'[p][e] = Refreshed(control[p])[e]
      BY <2>3, <3>1 DEF Refresh, TypeOK
    <3> QED BY <1>5, <2>3, <3>2, RefreshedWritten DEF Confirmed
  <2> QED BY <2>1, <2>2, <2>3
<1>6. ASSUME NEW x \in Pages PROVE Includes(row, x)'
  <2>1. own'[x].version \in Nat /\ row.version \in Nat
    BY <1>2, <1>3, VersionTypes
  <2> QED BY <1>1, <1>4, <2>1 DEF Includes
<1>7. ASSUME NEW x \in Pages
      PROVE  /\ (fetch[x].ticket = NoFetch => Includes(shows[x].ticket, x) \/ "ticket" \in failed[x])'
             /\ (fetch[x].ticket.at = "answered" => Includes(fetch[x].ticket.saw, x))'
  BY <1>1, <1>2 DEF Confirmed, Includes, NoFetch, Sent
<1> QED BY <1>1, <1>5, <1>6, <1>7 DEF Confirmed

\* Steps that leave the ticket, its cached copies and what was confirmed alone.
LEMMA QuietKeepsConfirmed ==
  ASSUME Confirmed, UNCHANGED <<row, fetch, failed>>,
         \A p \in Pages : own'[p].version = own[p].version /\ shows'[p].ticket = shows[p].ticket,
         \A p \in Pages, c \in {"status", "edit"} :
           control'[p][c].step = "written" => control'[p][c] = control[p][c]
  PROVE  Confirmed'
  BY DEF Confirmed, Includes

LEMMA MutationsKeepConfirmed ==
  ASSUME TypeOK, Confirmed, NEW p \in Pages, NEW c \in {"status", "edit"}, NEW s \in Statuses,
         SelectStatus(p, s) \/ SelectOther(p) \/ ValidateStatus(p) \/ RefuseStatus(p) \/ LoseAnswer(p, c)
  PROVE  Confirmed'
<1>1. UNCHANGED <<row, shows, fetch, failed, own>>
  BY DEF SelectStatus, SelectOther, ValidateStatus, RefuseStatus, LoseAnswer, storeVars, cacheVars
<1>2. \A x \in Pages, e \in {"status", "edit"} :
        control'[x][e].step = "written" => control'[x][e] = control[x][e]
  <2>1. PICK e, to :
             e \in {"status", "edit"} /\ to.step # "written" /\ control' = [control EXCEPT ![p][e] = to]
    <3>1. CASE SelectStatus(p, s)
      BY <3>1 DEF SelectStatus
    <3>2. CASE SelectOther(p)
      BY <3>2 DEF SelectOther
    <3>3. CASE RefuseStatus(p) \/ LoseAnswer(p, c)
      BY <3>3 DEF RefuseStatus, LoseAnswer, Answer, Idle
    <3>4. CASE ValidateStatus(p)
      BY <3>4 DEF ValidateStatus, Answer
    <3> QED BY <3>1, <3>2, <3>3, <3>4
  <2> QED BY <2>1 DEF TypeOK
<1> QED BY <1>1, <1>2, QuietKeepsConfirmed

LEMMA UpdatesKeepConfirmed ==
  ASSUME TypeOK, Confirmed, NEW p \in Pages, UpdateStatus(p) \/ UpdateOther(p)
  PROVE  Confirmed'
<1>1. row.version \in Nat /\ row'.version = row.version + 1
  BY VersionTypes DEF UpdateStatus, UpdateOther, Change
<1>2. UNCHANGED <<shows, fetch, failed, own>>
  BY DEF UpdateStatus, UpdateOther, cacheVars
<1>3. PICK c \in {"status", "edit"} : Answer(p, c, [step |-> "written", version |-> row.version + 1])
  BY DEF UpdateStatus, UpdateOther
<1>4. \A x \in Pages, e \in {"status", "edit"} :
        control'[x][e].step = "written" =>
          control'[x][e] = control[x][e] \/ control'[x][e].version = row'.version
  BY <1>1, <1>3 DEF Answer, TypeOK
<1> QED BY <1>1, <1>2, <1>4, ChangeKeepsConfirmed

LEMMA NextConfirmed == TypeOK /\ Confirmed /\ [Next]_vars => Confirmed'
<1> SUFFICES ASSUME TypeOK, Confirmed, [Next]_vars PROVE Confirmed'
  OBVIOUS
<1>0. row.version \in Nat
  BY DEF TypeOK, Ticket
<1>1. CASE UNCHANGED vars
  BY <1>1, QuietKeepsConfirmed DEF vars, storeVars, pageVars, cacheVars
<1>2. CASE CustomerReplies \/ CreateElsewhere
  <2>1. row'.version \in Nat /\ row'.version >= row.version
    BY <1>0, <1>2 DEF CustomerReplies, CreateElsewhere
  <2> QED BY <1>2, <2>1, ChangeKeepsConfirmed DEF CustomerReplies, CreateElsewhere, cacheVars
<1>3. ASSUME NEW s \in Statuses, ChangeElsewhere(s) PROVE Confirmed'
  <2>1. row'.version \in Nat /\ row'.version >= row.version
    BY <1>0, <1>3 DEF ChangeElsewhere, Change
  <2> QED BY <1>3, <2>1, ChangeKeepsConfirmed DEF ChangeElsewhere, cacheVars
<1>4. ASSUME NEW p \in Pages, NEW q \in Queries, Load(p, q) \/ FetchFails(p, q) PROVE Confirmed'
  BY <1>4, CacheKeepsConfirmed
<1>5. ASSUME NEW p \in Pages, NEW s \in Statuses, NEW c \in {"status", "edit"},
             SelectStatus(p, s) \/ SelectOther(p) \/ ValidateStatus(p) \/ RefuseStatus(p) \/ LoseAnswer(p, c)
      PROVE  Confirmed'
  BY <1>5, MutationsKeepConfirmed
<1>6. ASSUME NEW p \in Pages, UpdateStatus(p) \/ UpdateOther(p) PROVE Confirmed'
  BY <1>6, UpdatesKeepConfirmed
<1>7. ASSUME NEW p \in Pages, NEW c \in {"status", "edit"}, Refresh(p, c) PROVE Confirmed'
  BY <1>7, RefreshKeepsConfirmed
<1>8. ASSUME NEW p \in Pages, NEW k \in Kinds,
             \/ Type(p) \/ SelectKind(p, k) \/ Submit(p) \/ RefuseMessage(p) \/ LoseMessage(p)
             \/ CreateMessage(p)
      PROVE  Confirmed'
  <2>1. UNCHANGED <<row, cacheVars, control>>
    BY <1>8 DEF Type, SelectKind, Submit, RefuseMessage, LoseMessage, CreateMessage, storeVars
  <2>2. \A x \in Pages : own'[x].version = own[x].version
    BY <1>8 DEF Type, SelectKind, Submit, RefuseMessage, LoseMessage, CreateMessage
  <2> QED BY <2>1, <2>2, QuietKeepsConfirmed DEF cacheVars
<1>9. ASSUME NEW p \in Pages, Appear(p) PROVE Confirmed'
  <2>1. \A x \in Pages : own'[x].version = own[x].version /\ shows'[x].ticket = shows[x].ticket
    BY <1>9 DEF Appear, TypeOK, Data
  <2> QED BY <1>9, <2>1, QuietKeepsConfirmed DEF Appear, storeVars
<1>10. "OPEN" \in Statuses /\ "PUBLIC_REPLY" \in Kinds /\ "status" \in {"status", "edit"}
  BY DEF Statuses, Kinds
<1> QED BY <1>1, <1>2, <1>3, <1>4, <1>5, <1>6, <1>7, <1>8, <1>9, <1>10 DEF Next

\* A change that was confirmed to a page is not taken back on it
\* (OwnChangesAreShown), for any number of pages, changes and faults.
THEOREM OwnChangesAreAlwaysShown == Spec => []OwnChangesAreShown
<1>1. TypeOK /\ Confirmed => OwnChangesAreShown
  <2> SUFFICES ASSUME TypeOK, Confirmed, NEW p \in Pages,
                      ~Includes(shows[p].ticket, p), "ticket" \notin failed[p]
               PROVE  \/ fetch[p]["ticket"] = Sent
                      \/ fetch[p]["ticket"].at = "answered" /\ Includes(fetch[p]["ticket"].saw, p)
    BY DEF OwnChangesAreShown, Coming, Includes
  <2>1. fetch[p].ticket \in Fetched(Ticket)
    BY DEF TypeOK
  <2> QED BY <2>1 DEF Confirmed, Fetched
<1>2. Init => TypeOK /\ Counted /\ Confirmed
  BY InitTypes, InitConfirmed
<1>3. TypeOK /\ Counted /\ Confirmed /\ [Next]_vars => (TypeOK /\ Counted /\ Confirmed)'
  BY NextTypes, NextConfirmed
<1> QED BY <1>1, <1>2, <1>3, PTL DEF Spec

-----------------------------------------------------------------------------
(* What a page knows of the ticket is never ahead of the row, and as old as  *)
(* the row only if it is the same: an answer, the page, and what a control   *)
(* was offered for.  A control asks for what was offered, and the page's     *)
(* table is the service's.                                                   *)

NoLater(ticket) == ticket.version < row.version \/ ticket = row

Known ==
  \A p \in Pages :
    LET asked == control[p]["status"] IN
    /\ NoLater(shows[p].ticket)
    /\ fetch[p].ticket.at = "answered" => NoLater(fetch[p].ticket.saw)
    /\ asked.step = "sent" => asked.to \in Transitions[asked.shown.status] /\ NoLater(asked.shown)
    /\ asked.step = "validated" =>
         \/ asked.shown.version < row.version
         \/ asked.shown = row /\ asked.seen = row.status

LEMMA OffersAllowed == ASSUME NEW s \in Statuses PROVE Offers(s) = Transitions[s]
  BY DEF Offers, Transitions, Statuses

LEMMA InitKnown == Init => Known
  BY DEF Init, Known, NoLater, Stored, Queries, NoFetch, Idle

\* The row changes only with its version.
LEMMA RowGrows ==
  ASSUME TypeOK, [Next]_vars
  PROVE  row' = row \/ row'.version > row.version
<1>1. row.version \in Nat
  BY DEF TypeOK, Ticket
<1>2. ASSUME NEW s, Change(s) PROVE row'.version > row.version
  BY <1>1, <1>2 DEF Change
<1>3. CASE CustomerReplies \/ CreateElsewhere
  BY <1>1, <1>3 DEF CustomerReplies, CreateElsewhere, storeVars
<1>4. ASSUME NEW p \in Pages,
             \/ \E q \in Queries : Load(p, q) \/ FetchFails(p, q)
             \/ \E s \in Statuses : SelectStatus(p, s)
             \/ SelectOther(p) \/ ValidateStatus(p) \/ RefuseStatus(p)
             \/ \E c \in {"status", "edit"} : Refresh(p, c) \/ LoseAnswer(p, c)
             \/ Type(p) \/ (\E k \in Kinds : SelectKind(p, k)) \/ Submit(p)
             \/ CreateMessage(p) \/ RefuseMessage(p) \/ Appear(p) \/ LoseMessage(p)
      PROVE  row' = row
  BY <1>4 DEF Load, Read, Show, Hear, FetchFails, SelectStatus, SelectOther, ValidateStatus, RefuseStatus,
     Refresh, LoseAnswer, Type, SelectKind, Submit, CreateMessage, RefuseMessage, Appear, LoseMessage,
     storeVars
<1>5. ASSUME NEW p \in Pages, UpdateStatus(p) \/ UpdateOther(p) PROVE row'.version > row.version
  BY <1>2, <1>5 DEF UpdateStatus, UpdateOther
<1>6. ASSUME NEW s \in Statuses, ChangeElsewhere(s) PROVE row'.version > row.version
  BY <1>2, <1>6 DEF ChangeElsewhere
<1>7. CASE UNCHANGED vars
  BY <1>7 DEF vars, storeVars
<1> QED BY <1>3, <1>4, <1>5, <1>6, <1>7 DEF Next

\* What was no later than the row is no later than the row after a step.
LEMMA NoLaterStays ==
  ASSUME TypeOK, TypeOK', row' = row \/ row'.version > row.version, NEW t \in Ticket, NoLater(t)
  PROVE  t.version < row'.version \/ t = row'
  BY DEF NoLater, TypeOK, Ticket

\* A step that shows and asks for nothing new.
LEMMA QuietKeepsKnown ==
  ASSUME TypeOK, TypeOK', Known, row' = row \/ row'.version > row.version,
         \A p \in Pages :
           /\ shows'[p].ticket = shows[p].ticket
           /\ fetch'[p].ticket \in {fetch[p].ticket, NoFetch, Sent}
           /\ control'[p]["status"].step \in {"sent", "validated"} =>
                control'[p]["status"] = control[p]["status"]
  PROVE  Known'
<1> SUFFICES ASSUME NEW p \in Pages
             PROVE  (LET asked == control[p]["status"] IN
                     /\ NoLater(shows[p].ticket)
                     /\ fetch[p].ticket.at = "answered" => NoLater(fetch[p].ticket.saw)
                     /\ asked.step = "sent" => asked.to \in Transitions[asked.shown.status] /\ NoLater(asked.shown)
                     /\ asked.step = "validated" =>
                          \/ asked.shown.version < row.version
                          \/ asked.shown = row /\ asked.seen = row.status)'
  BY DEF Known
<1> DEFINE asked == control[p]["status"]
<1>1. shows[p].ticket \in Ticket /\ fetch[p].ticket \in Fetched(Ticket)
  BY DEF TypeOK, Data
<1>2. NoLater(shows[p].ticket)'
  <2>1. NoLater(shows[p].ticket)
    BY DEF Known
  <2>2. shows[p].ticket.version < row'.version \/ shows[p].ticket = row'
    BY <1>1, <2>1, NoLaterStays
  <2> QED BY <2>2 DEF NoLater
<1>3. ASSUME fetch'[p].ticket.at = "answered" PROVE NoLater(fetch[p].ticket.saw)'
  <2>1. fetch'[p].ticket = fetch[p].ticket
    BY <1>3 DEF NoFetch, Sent
  <2>2. fetch[p].ticket.saw \in Ticket
    BY <1>1, <1>3, <2>1 DEF Fetched, NoFetch, Sent
  <2>3. NoLater(fetch[p].ticket.saw)
    BY <1>3, <2>1 DEF Known
  <2>4. fetch[p].ticket.saw.version < row'.version \/ fetch[p].ticket.saw = row'
    BY <2>2, <2>3, NoLaterStays
  <2> QED BY <2>1, <2>4 DEF NoLater
<1>4. ASSUME asked'.step = "sent" PROVE (asked.to \in Transitions[asked.shown.status] /\ NoLater(asked.shown))'
  <2>1. asked' = asked
    BY <1>4
  <2>2. asked.shown \in Ticket
    BY <1>4, <2>1, AskedTypes
  <2>3. asked.to \in Transitions[asked.shown.status] /\ NoLater(asked.shown)
    BY <1>4, <2>1 DEF Known
  <2> HIDE DEF asked
  <2>4. asked.shown.version < row'.version \/ asked.shown = row'
    BY <2>2, <2>3, NoLaterStays
  <2> QED BY <2>1, <2>3, <2>4 DEF NoLater, Transitions
<1>5. ASSUME asked'.step = "validated"
      PROVE  (asked.shown.version < row.version \/ (asked.shown = row /\ asked.seen = row.status))'
  <2>1. asked' = asked
    BY <1>5
  <2>2. asked.shown \in Ticket
    BY <1>5, <2>1, AskedTypes
  <2>3. asked.shown.version < row.version \/ (asked.shown = row /\ asked.seen = row.status)
    BY <1>5, <2>1 DEF Known
  <2> HIDE DEF asked
  <2>4. row.version \in Nat /\ row'.version \in Nat /\ asked.shown.version \in Nat
    BY <2>2 DEF TypeOK, Ticket
  <2> QED BY <2>1, <2>3, <2>4
<1> QED BY <1>2, <1>3, <1>4, <1>5

LEMMA CacheKeepsKnown ==
  ASSUME TypeOK, TypeOK', Known, NEW p \in Pages, NEW q \in Queries, Load(p, q) \/ FetchFails(p, q)
  PROVE  Known'
<1>1. /\ control \in [Pages -> [status : Mutation, edit : Mutation]]
      /\ fetch \in [Pages -> [Queries -> Fetched(Ticket) \cup Fetched(MessageSet)]]
      /\ shows \in [Pages -> [Queries -> Ticket \cup MessageSet]]
  BY FetchShape DEF TypeOK
<1>2. row' = row
  BY DEF Load, Read, Show, Hear, FetchFails, storeVars
<1>3. \A x \in Pages : control'[x]["status"] \in {control[x]["status"], Idle}
  BY <1>1 DEF Load, Read, Show, Hear, FetchFails, Refreshed
<1>4. \A x \in Pages :
        control'[x]["status"].step \in {"sent", "validated"} => control'[x]["status"] = control[x]["status"]
  BY <1>3 DEF Idle
<1>5. CASE Read(p, "ticket")
  <2>1. \A x \in Pages : /\ shows'[x].ticket = shows[x].ticket
                         /\ fetch'[x].ticket = IF x = p THEN [at |-> "answered", saw |-> row] ELSE fetch[x].ticket
    BY <1>1, <1>5 DEF Read, Queries, Stored
  <2> QED BY <1>2, <1>4, <2>1 DEF Known, NoLater
<1>6. CASE Show(p, "ticket")
  <2>1. /\ fetch[p].ticket.at = "answered"
        /\ \A x \in Pages :
             /\ shows'[x].ticket = IF x = p THEN fetch[p].ticket.saw ELSE shows[x].ticket
             /\ fetch'[x].ticket = IF x = p THEN NoFetch ELSE fetch[x].ticket
    BY <1>1, <1>6 DEF Show, Queries
  <2>2. NoLater(fetch[p].ticket.saw)
    BY <2>1 DEF Known
  <2>3. \A x \in Pages : /\ NoLater(shows[x].ticket)'
                         /\ (fetch[x].ticket.at = "answered" => NoLater(fetch[x].ticket.saw))'
    BY <1>2, <2>1, <2>2 DEF Known, NoLater, NoFetch
  <2>4. \A x \in Pages :
          LET a == control'[x]["status"] IN
          /\ a.step = "sent" => a.to \in Transitions[a.shown.status] /\ (a.shown.version < row.version \/ a.shown = row)
          /\ a.step = "validated" =>
               a.shown.version < row.version \/ (a.shown = row /\ a.seen = row.status)
    BY <1>4 DEF Known, NoLater
  <2> QED BY <1>2, <2>3, <2>4 DEF Known, NoLater
<1>7. CASE ~Read(p, "ticket") /\ ~Show(p, "ticket")
  <2>1. \A x \in Pages : /\ shows'[x].ticket = shows[x].ticket
                         /\ fetch'[x].ticket \in {fetch[x].ticket, NoFetch, Sent}
    <3>1. CASE Read(p, "messages")
      BY <1>1, <3>1 DEF Read, Queries
    <3>2. CASE Show(p, "messages")
      BY <1>1, <3>2 DEF Show, Queries
    <3>3. CASE Hear(p, q)
      BY <1>1, <3>3 DEF Hear, Queries
    <3>4. CASE FetchFails(p, q)
      BY <1>1, <3>4 DEF FetchFails, Queries
    <3> QED BY <1>7, <3>1, <3>2, <3>3, <3>4 DEF Load, Queries
  <2> QED BY <1>2, <1>4, <2>1, QuietKeepsKnown
<1> QED BY <1>5, <1>6, <1>7

LEMMA AskingKeepsKnown ==
  ASSUME TypeOK, TypeOK', Known, NEW p \in Pages, NEW s \in Statuses, SelectStatus(p, s) \/ ValidateStatus(p)
  PROVE  Known'
<1>0. control \in [Pages -> [status : Mutation, edit : Mutation]]
  BY DEF TypeOK
<1>1. UNCHANGED <<row, shows, fetch>>
  BY DEF SelectStatus, ValidateStatus, storeVars, cacheVars
<1>2. CASE SelectStatus(p, s)
  <2>1. shows[p].ticket.status \in Statuses
    BY DEF TypeOK, Data, Ticket
  <2>2. s \in Transitions[shows[p].ticket.status]
    BY <1>2, <2>1, OffersAllowed DEF SelectStatus
  <2>3. \A x \in Pages :
          control'[x]["status"] = IF x = p THEN [step |-> "sent", to |-> s, shown |-> shows[p].ticket]
                                  ELSE control[x]["status"]
    BY <1>0, <1>2 DEF SelectStatus
  <2> QED BY <1>1, <2>2, <2>3 DEF Known, NoLater
<1>3. CASE ValidateStatus(p)
  <2> DEFINE asked == control[p]["status"]
  <2>1. asked.step = "sent" /\ NoLater(asked.shown)
    BY <1>3 DEF ValidateStatus, Known
  <2>2. \A x \in Pages :
          control'[x]["status"] =
            IF x = p THEN [step |-> "validated", to |-> asked.to, shown |-> asked.shown, seen |-> row.status]
            ELSE control[x]["status"]
    BY <1>0, <1>3 DEF ValidateStatus, Answer
  <2> HIDE DEF asked
  <2>3. ASSUME NEW x \in Pages, x = p
        PROVE  /\ control'[x]["status"].step = "validated" /\ control'[x]["status"].shown = asked.shown
               /\ control'[x]["status"].seen = row.status
    BY <2>2, <2>3
  <2> QED BY <1>1, <2>1, <2>2, <2>3 DEF Known, NoLater
<1> QED BY <1>2, <1>3

LEMMA NextKnown == TypeOK /\ TypeOK' /\ Known /\ [Next]_vars => Known'
<1> SUFFICES ASSUME TypeOK, TypeOK', Known, [Next]_vars PROVE Known'
  OBVIOUS
<1>0. /\ row' = row \/ row'.version > row.version
      /\ control \in [Pages -> [status : Mutation, edit : Mutation]]
  BY RowGrows DEF TypeOK
<1>1. CASE UNCHANGED <<shows, fetch, control>>
  BY <1>0, <1>1, QuietKeepsKnown
<1>2. CASE UNCHANGED vars
  BY <1>1, <1>2 DEF vars, pageVars, cacheVars
<1>3. ASSUME NEW p \in Pages, NEW c \in {"status", "edit"},
             \/ SelectOther(p) \/ UpdateStatus(p) \/ RefuseStatus(p) \/ UpdateOther(p) \/ LoseAnswer(p, c)
      PROVE  UNCHANGED <<shows, fetch>>
  BY <1>3 DEF SelectOther, UpdateStatus, RefuseStatus, UpdateOther, LoseAnswer, cacheVars
<1>4. ASSUME NEW p \in Pages, NEW c \in {"status", "edit"},
             \/ SelectOther(p) \/ UpdateStatus(p) \/ RefuseStatus(p) \/ UpdateOther(p) \/ LoseAnswer(p, c)
      PROVE  Known'
  <2>1. ASSUME NEW x \in Pages, control'[x]["status"].step \in {"sent", "validated"}
        PROVE  control'[x]["status"] = control[x]["status"]
    <3>1. CASE SelectOther(p)
      BY <1>0, <2>1, <3>1 DEF SelectOther
    <3>2. CASE UpdateStatus(p)
      BY <1>0, <2>1, <3>2 DEF UpdateStatus, Answer
    <3>3. CASE RefuseStatus(p)
      BY <1>0, <2>1, <3>3 DEF RefuseStatus, Answer, Idle
    <3>4. CASE UpdateOther(p)
      BY <1>0, <2>1, <3>4 DEF UpdateOther, Answer
    <3>5. CASE LoseAnswer(p, c)
      BY <1>0, <2>1, <3>5 DEF LoseAnswer, Answer, Idle
    <3> QED BY <1>4, <3>1, <3>2, <3>3, <3>4, <3>5
  <2> QED BY <1>0, <1>3, <1>4, <2>1, QuietKeepsKnown
<1>5. ASSUME NEW p \in Pages, NEW c \in {"status", "edit"}, Refresh(p, c) PROVE Known'
  <2>1. /\ shows' = shows
        /\ \A x \in Pages : fetch'[x].ticket \in {fetch[x].ticket, Sent}
    BY <1>5 DEF Refresh, Refetch, TypeOK
  <2>2. Refreshed(control[p]) \in [status : Mutation, edit : Mutation]
    BY ControlTypes, Idle \in Mutation DEF Mutation
  <2>3. Refreshed(control[p])["status"] \in {control[p]["status"], Idle}
    BY <1>0 DEF Refreshed
  <2>4. control[p][c] \in Mutation /\ control[p][c].step = "written"
    BY <1>0, <1>5 DEF Refresh
  <2>5. [control[p][c] EXCEPT !.step = "refreshing"].step = "refreshing"
    BY <2>4 DEF Mutation, Idle
  <2>6. \A x \in Pages :
          control'[x]["status"] = IF x # p THEN control[x]["status"]
                                  ELSE IF c = "status" THEN [control[p][c] EXCEPT !.step = "refreshing"]
                                  ELSE Refreshed(control[p])["status"]
    BY <1>0, <1>5, <2>2 DEF Refresh
  <2>7. ASSUME NEW x \in Pages, control'[x]["status"].step \in {"sent", "validated"}
        PROVE  control'[x]["status"] = control[x]["status"]
    <3>1. CASE x # p
      BY <2>6, <3>1
    <3>2. CASE x = p /\ c = "status"
      BY <2>5, <2>6, <2>7, <3>2
    <3>3. CASE x = p /\ c = "edit"
      BY <2>3, <2>6, <2>7, <3>3 DEF Idle
    <3> QED BY <3>1, <3>2, <3>3
  <2> QED BY <1>0, <2>1, <2>7, QuietKeepsKnown
<1>6. ASSUME NEW p \in Pages, Appear(p) PROVE Known'
  <2>1. UNCHANGED <<fetch, control>> /\ \A x \in Pages : shows'[x].ticket = shows[x].ticket
    BY <1>6 DEF Appear, TypeOK, Data
  <2> QED BY <1>0, <2>1, QuietKeepsKnown
<1>7. CASE \/ CustomerReplies \/ CreateElsewhere \/ (\E s \in Statuses : ChangeElsewhere(s))
           \/ \E p \in Pages : \/ Type(p) \/ (\E k \in Kinds : SelectKind(p, k)) \/ Submit(p)
                               \/ CreateMessage(p) \/ RefuseMessage(p) \/ LoseMessage(p)
  BY <1>1, <1>7 DEF CustomerReplies, CreateElsewhere, ChangeElsewhere, Type, SelectKind, Submit,
                    CreateMessage, RefuseMessage, LoseMessage, cacheVars
<1>8. ASSUME NEW p \in Pages, NEW q \in Queries, Load(p, q) \/ FetchFails(p, q) PROVE Known'
  BY <1>8, CacheKeepsKnown
<1>9. ASSUME NEW p \in Pages, NEW s \in Statuses, SelectStatus(p, s) \/ ValidateStatus(p) PROVE Known'
  BY <1>9, AskingKeepsKnown
<1>10. "status" \in {"status", "edit"} /\ "OPEN" \in Statuses
  BY DEF Statuses
<1> QED BY <1>2, <1>4, <1>5, <1>6, <1>7, <1>8, <1>9, <1>10 DEF Next

\* The service refuses a change of status only when the ticket has changed since
\* the state in which the page offered it (RefusalsMeanStalePages), by either of
\* its checks and also if the ticket has the status again that was shown.
THEOREM OnlyStalePagesAreRefused == Spec => RefusalsMeanStalePages
<1>1. Init => TypeOK /\ Counted /\ Known
  BY InitTypes, InitKnown
<1>2. TypeOK /\ Counted /\ Known /\ [Next]_vars => (TypeOK /\ Counted /\ Known)'
  BY NextTypes, NextKnown
<1>3. TypeOK /\ Known => [\A p \in Pages : RefuseStatus(p) => row.version > control[p]["status"].shown.version]_vars
  <2> SUFFICES ASSUME TypeOK, Known, NEW p \in Pages, RefuseStatus(p)
               PROVE  row.version > control[p]["status"].shown.version
    OBVIOUS
  <2> DEFINE asked == control[p]["status"]
  <2>1. asked.step \in {"sent", "validated"}
    BY DEF RefuseStatus
  <2>2. asked.shown.version \in Nat /\ row.version \in Nat
    BY <2>1, AskedTypes DEF TypeOK, Ticket
  <2>3. asked.shown.version < row.version
    BY <2>1 DEF RefuseStatus, Known, NoLater
  <2> HIDE DEF asked
  <2>4. row.version > asked.shown.version
    BY <2>2, <2>3
  <2> QED BY <2>4 DEF asked
<1> QED BY <1>1, <1>2, <1>3, PTL DEF Spec, RefusalsMeanStalePages

===============================================================================
