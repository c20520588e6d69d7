--------------------------------- MODULE Lists ---------------------------------
(***************************************************************************)
(* The ticket inbox of one browser: filter and page are in the address,    *)
(* every address has a cached answer of its own, realtime events make all  *)
(* of them stale, and the API counts and pages what the filter selects.    *)
(* The customer list works alike.  Tickets are listed by their last        *)
(* update; statuses stand for all that one can filter by or search for.    *)
(***************************************************************************)

EXTENDS Naturals, Sequences, SequencesExt

CONSTANTS
  InitialInbox,   (* the tickets there are                                 *)
  Statuses,       (* of tickets; each is a filter                          *)
  All,            (* no filter                                             *)
  PageSize,       (* DTO: 20 unless the query says otherwise               *)
  Addresses,      (* bound: filters and pages one goes to                  *)
  MaxChanges,     (* bound: changes to tickets                             *)
  MaxFaults       (* bound: fetches that fail after their retry            *)

ASSUME ListsAssumption ==
  /\ All \notin Statuses /\ PageSize \in Nat \ {0}
  /\ Addresses \subseteq [filter : Statuses \cup {All}, page : Nat \ {0}]
  /\ [filter |-> All, page |-> 1] \in Addresses
  /\ MaxChanges \in Nat /\ MaxFaults \in Nat

VARIABLES
  inbox,          (* the tickets with their statuses, last updated first   *)
  events,         (* ticket events on their way to the browser             *)
  url,            (* filter and page of the address that is rendered       *)
  going,          (* the address that the router is about to render        *)
  last,           (* the address whose answer was shown last               *)
  cache,          (* per address: the answer, and whether it is stale      *)
  failed,         (* addresses whose last fetch failed                     *)
  fetch,          (* per address: the fetch under way                      *)
  unheard,        (* history: fetches that an event did not start again    *)
  moved,          (* history: later pages chosen before tickets changed    *)
  changes, faults

browserVars == <<url, going, last>>
queryVars   == <<cache, failed, fetch, unheard>>
listVars    == <<inbox, events, browserVars, queryVars, moved, changes, faults>>

Start   == [filter |-> All, page |-> 1]
NoData  == [rows |-> <<>>, total |-> 0, missing |-> TRUE]
LaterPages(S) == {k \in S : k.page > 1}

NoFetch == [at |-> "none"]
Asked   == [at |-> "asked"]

-----------------------------------------------------------------------------
(* What TicketsService.list answers.                                         *)

Matching(s, f) == SelectSeq(s, LAMBDA t : f \in {All, t.status})

\* The tickets s that the filter selects, skip and take, and their number.
ListOf(s, k) ==
  LET found == Matching(s, k.filter)
      skip  == (k.page - 1) * PageSize
      upTo  == IF skip + PageSize < Len(found) THEN skip + PageSize ELSE Len(found) IN
  [rows |-> [i \in 1 .. upTo - skip |-> found[skip + i]], total |-> Len(found), missing |-> FALSE]

Answer(k) == ListOf(inbox, k)

\* Mutant: one page more when the last one is full.
TotalPagesPlusOne(total) == total \div PageSize + 1

TotalPages(total) == (total + PageSize - 1) \div PageSize

-----------------------------------------------------------------------------

ListsInit ==
  /\ inbox = InitialInbox
  /\ events = 0
  /\ url = Start /\ going = Start /\ last = Start
  /\ cache = [k \in Addresses |-> [data |-> NoData, stale |-> TRUE]]
  /\ failed = {}
  /\ fetch = [k \in Addresses |-> IF k = Start THEN Asked ELSE NoFetch]
  /\ unheard = {} /\ moved = {}
  /\ changes = 0 /\ faults = 0

\* A ticket changes, elsewhere; @updatedAt brings it to the front.
Change(i, s) ==
  /\ changes < MaxChanges
  /\ inbox' = <<[inbox[i] EXCEPT !.status = s]>> \o RemoveAt(inbox, i)
  /\ events' = events + 1 /\ changes' = changes + 1
  /\ moved' = LaterPages({url, going})
  /\ UNCHANGED <<browserVars, queryVars, faults>>

\* findMany and count, here as one: a change between them has its event to come.
Read(k) ==
  /\ fetch[k] = Asked
  /\ fetch' = [fetch EXCEPT ![k] = [at |-> "answered", data |-> Answer(k)]]
  /\ UNCHANGED <<inbox, events, browserVars, cache, failed, unheard, moved, changes, faults>>

-----------------------------------------------------------------------------
(* Queries.                                                                  *)

\* Mutant: all answers are those of the address that is rendered.
ShowRendered(k) ==
  /\ fetch[k].at = "answered"
  /\ cache' = [cache EXCEPT ![url] = [data |-> fetch[k].data, stale |-> FALSE]]
  /\ fetch' = [fetch EXCEPT ![k] = NoFetch]
  /\ failed' = failed \ {k}
  /\ UNCHANGED <<inbox, events, browserVars, unheard, moved, changes, faults>>

\* An answer ends its query's staleness, whatever was invalidated meanwhile.
Show(k) ==
  /\ fetch[k].at = "answered"
  /\ cache' = [cache EXCEPT ![k] = [data |-> fetch[k].data, stale |-> FALSE]]
  /\ fetch' = [fetch EXCEPT ![k] = NoFetch]
  /\ failed' = failed \ {k}
  /\ UNCHANGED <<inbox, events, browserVars, unheard, moved, changes, faults>>

FetchFails(k) ==
  /\ fetch[k] # NoFetch /\ faults < MaxFaults
  /\ fetch' = [fetch EXCEPT ![k] = NoFetch]
  /\ cache' = [cache EXCEPT ![k].stale = TRUE]
  /\ failed' = failed \cup {k} /\ faults' = faults + 1
  /\ UNCHANGED <<inbox, events, browserVars, unheard, moved, changes>>

Ask(k) ==
  /\ fetch' = [fetch EXCEPT ![k] = Asked]
  /\ unheard' = unheard \ {k}

\* "Try again", which a list shows in place of an error.
TryAgain ==
  /\ url \in failed
  /\ Ask(url)
  /\ UNCHANGED <<inbox, events, browserVars, cache, failed, moved, changes, faults>>

Running == {k \in Addresses : fetch[k] # NoFetch}
Known   == {k \in Addresses : ~ cache[k].data.missing}

\* An event: every list is stale, and the one that is shown is fetched, anew if
\* it is being fetched; but a first fetch is let run.
Hear ==
  /\ events > 0 /\ events' = events - 1
  /\ cache' = [k \in Addresses |-> [cache[k] EXCEPT !.stale = TRUE]]
  /\ LET again == {url} \cap (Known \cup (Addresses \ Running)) IN
     /\ fetch' = [k \in Addresses |-> IF k \in again THEN Asked ELSE fetch[k]]
     /\ unheard' = (unheard \cup Running) \ again
  /\ UNCHANGED <<inbox, browserVars, failed, moved, changes, faults>>

\* staleTime, which matters when one comes back to a list.
Age(k) ==
  /\ k # url /\ ~ cache[k].stale
  /\ cache' = [cache EXCEPT ![k].stale = TRUE]
  /\ UNCHANGED <<inbox, events, browserVars, failed, fetch, unheard, moved, changes, faults>>

-----------------------------------------------------------------------------
(* The address.                                                              *)

\* keepPreviousData: until the first answer arrives, the one shown before.
Displayed == IF ~ cache[url].data.missing \/ url \in failed THEN url ELSE last

\* updateParams: from the address that is rendered, even if another one is on its
\* way; m tells whether tickets may have changed since what it was chosen from.
Replace(k, m) ==
  /\ k \in Addresses
  /\ going' = k
  /\ moved' = (moved \cap ({url} \ {k})) \cup (IF m THEN LaterPages({k}) ELSE {})
  /\ UNCHANGED <<inbox, events, url, last, queryVars, changes, faults>>

\* updateFilter: another filter begins at its first page.
FirstPage(f) == Replace([filter |-> f, page |-> 1], FALSE)

\* One of the selects changes.
Select(f) == f # url.filter /\ FirstPage(f)

\* The search field, and the form of the customer list, may be submitted as they are.
Submit(f) == FirstPage(f)

\* "Clear", offered where something is filtered.
Clear == url.filter # All /\ FirstPage(All)

HasNextPage(k)     == ~ cache[k].data.missing /\ k.page < TotalPages(cache[k].data.total)
HasPreviousPage(k) == ~ cache[k].data.missing /\ TotalPages(cache[k].data.total) > 1 /\ k.page > 1

NextPage ==
  /\ HasNextPage(Displayed)
  /\ Replace([url EXCEPT !.page = @ + 1], cache[url].data # Answer(url))

PreviousPage ==
  /\ HasPreviousPage(Displayed)
  /\ Replace([url EXCEPT !.page = IF @ > 1 THEN @ - 1 ELSE 1], url \in moved)

\* The new address is rendered: its query is fetched unless its answer is fresh.
Arrive ==
  /\ going # url
  /\ url' = going
  /\ last' = IF cache[url].data.missing THEN last ELSE url
  /\ moved' = moved \cap {going}
  /\ IF cache[going].stale /\ fetch[going] = NoFetch THEN Ask(going) ELSE UNCHANGED <<fetch, unheard>>
  /\ UNCHANGED <<inbox, events, going, cache, failed, changes, faults>>

-----------------------------------------------------------------------------

ListsNext ==
  \/ \E i \in DOMAIN inbox, s \in Statuses : Change(i, s)
  \/ \E k \in Addresses : Read(k) \/ Show(k) \/ FetchFails(k) \/ Age(k)
  \/ \E f \in Statuses \cup {All} : Select(f) \/ Submit(f)
  \/ Clear \/ Hear \/ TryAgain \/ NextPage \/ PreviousPage \/ Arrive

ListsSpec == ListsInit /\ [][ListsNext]_listVars

-----------------------------------------------------------------------------
(* Properties.                                                               *)

\* The list that is shown is the one that the address asks for and up to date,
\* or it will be: an event is on its way or a fetch is.  The exceptions are a
\* fetch that failed, and one that an event found under way and left alone.
ShownListCatchesUp ==
  ~ cache[url].data.missing /\ cache[url].data # Answer(url) =>
    events > 0 \/ fetch[url] # NoFetch \/ url \in failed \cup unheard

\* The last page, and every page before it, has tickets: an empty one is shown,
\* and rightly, only where tickets have changed since it was chosen, or the
\* button was that of another page, or of an answer out of date.
EmptyPagesNeedAChange ==
  url.page > 1 /\ cache[url].data = Answer(url) /\ cache[url].data.rows = <<>> => url \in moved

===============================================================================
