---------------------------- MODULE RealtimeClient ----------------------------
(***************************************************************************)
(* The browser's side of realtime, composed with the gateway: the provider *)
(* joins and leaves rooms for the bridges of the page that is shown, over  *)
(* a connection that can break, and keeps the cached conversation of the   *)
(* ticket fresh by the events it hears.  The page is none of the           *)
(* organization's, one of its pages, or a ticket of it.                    *)
(***************************************************************************)

EXTENDS RealtimeGateway, Naturals, SequencesExt

CONSTANTS
  Organization,    (* of the pages                                         *)
  Ticket,          (* of the ticket page                                   *)
  Messages,        (* messages the ticket is going to have                 *)
  Deliveries,      (* delivery updates the ticket is going to have         *)
  MaxMoves         (* bound: navigations                                   *)

ASSUME ClientAssumption ==
  /\ Cardinality(Sockets) \in Nat /\ Sockets = 1 .. Cardinality(Sockets)
  /\ Cardinality(Calls) \in Nat /\ Calls = 1 .. Cardinality(Calls)
  /\ Ticket \in Tickets /\ TicketOrg[Ticket] = Organization
  /\ Messages \cap Deliveries = {}
  /\ MaxMoves \in Nat

VARIABLES
  page,            (* "none", "org", "ticket": which bridges are mounted   *)
  socket,          (* the present or last connection                       *)
  rooms,           (* the provider's refs: joined rooms, pending joins     *)
  up, down,        (* commands and answers in transit                      *)
  written,         (* messages and delivery updates committed              *)
  published,       (* those published to the rooms                         *)
  cache, fetch,    (* the cached conversation, <<>> or <<rows>>; its fetch *)
  stale,           (* the cache is invalidated                             *)
  moves,           (* navigations so far                                   *)
  flaws,           (* history: what went less than smoothly                *)
  caughtUp         (* history: refetched at the last join, and still shown *)

linkVars  == <<up, down, socket>>
cacheVars == <<cache, fetch, stale>>
dataVars  == <<written, published, cacheVars>>
pageVars  == <<page, moves, flaws>>

Ready == socket > 0 /\ conn[socket] = "open"

\* hasRecovered: a connection after the first one has become ready.
Recovered == socket > 1

Free == [for |-> "nothing"]

NoRooms == [joined |-> {}, joins |-> [r \in {"org", "ticket"} |-> 0],
            promise |-> [c \in Calls |-> Free]]

ClientInit ==
  /\ GatewayInit
  /\ \A s, r \in Sockets : member[s] = member[r]
  /\ page \in {"none", "ticket"} /\ moves = 0 /\ flaws = {} /\ caughtUp = FALSE
  /\ socket = 0 /\ up = <<>> /\ down = <<>>
  /\ rooms = NoRooms
  /\ written = {} /\ published = {}
  /\ cache = <<>> /\ stale = FALSE
  /\ fetch = [at |-> IF page = "ticket" THEN "sent" ELSE "none", saw |-> {}]

-----------------------------------------------------------------------------
(* The provider.  An operator takes the refs, what was emitted so far, the   *)
(* connection and the history, p = [rooms, out, on, flaws], and returns them *)
(* after one call.                                                           *)

Command(name, id) == [name |-> name, id |-> id]

Unused(p) ==
  {c \in Calls : /\ p.rooms.promise[c] = Free /\ call[c] = Idle
                 /\ \A m \in Range(p.out) \cup Range(down) : m.id # c}

JoinCommand(room) == IF room = "org" THEN "org join" ELSE "ticket join"

\* waitForAck of a join, with the bridge that awaits it.  The organization's is
\* sent for a ticket's bridge alone when its own bridge waits for another one.
EmitJoin(p, room, waiter) ==
  LET c == CHOOSE c \in Unused(p) : \A d \in Unused(p) : c <= d IN
  [p EXCEPT
     !.rooms.joins[room] = c,
     !.rooms.promise[c] = [for |-> room, on |-> p.on, waiters |-> <<waiter>>],
     !.out = Append(@, Command(JoinCommand(room), c)),
     !.flaws = IF room = "org" /\ waiter.bridge = "ticket" THEN @ \cup {"alone"} ELSE @]

AwaitJoin(p, room, waiter) ==
  [p EXCEPT !.rooms.promise[p.rooms.joins[room]].waiters = Append(@, waiter)]

JoinRoom(p, room, waiter) ==
  IF room \in p.rooms.joined THEN p
  ELSE IF p.rooms.joins[room] # 0 THEN AwaitJoin(p, room, waiter)
  ELSE EmitJoin(p, room, waiter)

ProviderJoinTicket(p, waiter) ==
  JoinRoom(p, IF "org" \in p.rooms.joined THEN "ticket" ELSE "org", waiter)

Emit(p, name) == IF p.on = 0 THEN p ELSE [p EXCEPT !.out = Append(@, Command(name, 0))]

ProviderLeaveTicket(p) ==
  Emit([p EXCEPT !.rooms.joined = @ \ {"ticket"}, !.rooms.joins["ticket"] = 0], "ticket leave")

\* Pending joins of tickets stay.
ProviderLeaveOrganization(p) ==
  Emit([p EXCEPT !.rooms.joined = {}, !.rooms.joins["org"] = 0], "org leave")

-----------------------------------------------------------------------------
(* The bridges: an effect joins when the page shows and realtime is ready;   *)
(* its cleanup cancels it and leaves.                                        *)

Waiter(bridge) == [bridge |-> bridge, canceled |-> FALSE]

CanceledBy(bridge, promise) ==
  IF promise = Free THEN Free
  ELSE [promise EXCEPT !.waiters =
          [i \in DOMAIN promise.waiters |->
             [promise.waiters[i] EXCEPT !.canceled = @ \/ promise.waiters[i].bridge = bridge]]]

Cancel(p, bridge) ==
  [p EXCEPT !.rooms.promise = [c \in Calls |-> CanceledBy(bridge, p.rooms.promise[c])]]

Mounted(pg) == CASE pg = "none" -> {} [] pg = "org" -> {"org"} [] pg = "ticket" -> {"org", "ticket"}

Cleanup(p, bridges) ==
  LET q == IF "org" \in bridges THEN ProviderLeaveOrganization(Cancel(p, "org")) ELSE p IN
  IF "ticket" \in bridges THEN ProviderLeaveTicket(Cancel(q, "ticket")) ELSE q

Effects(p, bridges) ==
  LET q == IF "org" \in bridges THEN JoinRoom(p, "org", Waiter("org")) ELSE p IN
  IF "ticket" \in bridges THEN ProviderJoinTicket(q, Waiter("ticket")) ELSE q

\* Mutant: a bridge does not look whether it was canceled.
ResumeAlways(p, room, waiter) ==
  IF room = "org" /\ waiter.bridge = "ticket" THEN JoinRoom(p, "ticket", waiter) ELSE p

\* What a bridge, or joinTicket on its behalf, does after the join it awaited.
Resume(p, room, waiter) ==
  IF room = "org" /\ waiter.bridge = "ticket" THEN JoinRoom(p, "ticket", waiter)
  ELSE IF ~ waiter.canceled THEN p
  ELSE IF room = "org" THEN ProviderLeaveOrganization(p) ELSE ProviderLeaveTicket(p)

Provider == [rooms |-> rooms, out |-> up, on |-> IF Ready THEN socket ELSE 0, flaws |-> flaws]

Becomes(p) == rooms' = p.rooms /\ up' = p.out /\ flaws' = p.flaws

\* Bound: a step joins no more than one room.
Spare == Unused(Provider) # {}

\* Joins of this connection that are not answered.
Pending == \E c \in Calls : rooms.promise[c] # Free /\ rooms.promise[c].on = socket

-----------------------------------------------------------------------------
(* The cached conversation (TanStack Query): a mounted query is refetched    *)
(* when it is invalidated, and a fetch under way is then started again -     *)
(* unless it is the first one, which has no data to fall back on.            *)

NoFetch == [at |-> "none", saw |-> {}]
Sent    == [at |-> "sent", saw |-> {}]

Invalidate(conversation) ==
  /\ stale' = (stale \/ conversation)
  /\ fetch' = IF /\ conversation /\ page = "ticket"
                 /\ cache # <<>> \/ fetch.at = "none"
              THEN Sent ELSE fetch
  /\ UNCHANGED cache

ReadMessages ==
  /\ fetch = Sent
  /\ fetch' = [at |-> "answered", saw |-> written]
  /\ UNCHANGED <<gatewayVars, linkVars, pageVars, rooms, written, published, cache, stale, caughtUp>>

ShowMessages ==
  /\ fetch.at = "answered"
  /\ cache' = <<fetch.saw>> /\ fetch' = NoFetch /\ stale' = FALSE
  /\ UNCHANGED <<gatewayVars, linkVars, pageVars, rooms, written, published, caughtUp>>

\* A service commits, and then publishes: a message to the rooms of the
\* organization and of the ticket, a delivery update to the ticket's.
Write(w) ==
  /\ w \notin written
  /\ written' = written \cup {w}
  /\ UNCHANGED <<gatewayVars, linkVars, pageVars, rooms, published, cacheVars, caughtUp>>

Publish(w) ==
  /\ w \in written \ published
  /\ published' = published \cup {w}
  /\ down' = IF /\ Ready
                /\ \/ Ticket \in ticketRooms[socket]
                   \/ w \in Messages /\ Organization \in orgRooms[socket]
             THEN Append(down, Command("event", 0)) ELSE down
  /\ UNCHANGED <<gatewayVars, up, socket, pageVars, rooms, written, cacheVars, caughtUp>>

\* A query that is mounted is fetched unless it is fresh.
MountConversation(shown) ==
  /\ fetch' \in IF ~ shown \/ fetch.at # "none" THEN {fetch}
               ELSE IF cache = <<>> \/ stale THEN {Sent} ELSE {Sent, fetch}
  /\ UNCHANGED <<cache, stale>>

-----------------------------------------------------------------------------
(* The connection, and the pages.                                            *)

\* realtime.ready: the effects of the mounted bridges run.
Connect ==
  /\ ~ Ready
  /\ socket + 1 \in Sockets
  /\ HandleConnection(socket + 1)
  /\ socket' = socket + 1
  /\ Spare /\ Becomes(Effects([Provider EXCEPT !.on = socket + 1], Mounted(page)))
  /\ UNCHANGED <<down, page, moves, dataVars, caughtUp>>

\* Mutant: the refs of the joined rooms outlive their connection.
DisconnectKeepingRooms ==
  /\ Ready
  /\ HandleDisconnect(socket)
  /\ up' = <<>> /\ down' = <<>>
  /\ rooms' = [Cancel(Cancel(Provider, "org"), "ticket").rooms EXCEPT
                 !.joins = [r \in {"org", "ticket"} |-> 0]]
  /\ caughtUp' = FALSE
  /\ UNCHANGED <<socket, pageVars, dataVars>>

\* What was in transit is lost; the bridges are cleaned up and the refs cleared.
Disconnect ==
  /\ Ready
  /\ HandleDisconnect(socket)
  /\ up' = <<>> /\ down' = <<>>
  /\ rooms' = [NoRooms EXCEPT !.promise = Cancel(Cancel(Provider, "org"), "ticket").rooms.promise]
  /\ caughtUp' = FALSE
  /\ UNCHANGED <<socket, pageVars, dataVars>>

\* An answer that was lost: five seconds later the promise is rejected, which
\* takes the pending join of its room out, whichever that is by now.
TimeOut(c) ==
  /\ rooms.promise[c] # Free /\ (rooms.promise[c].on # socket \/ ~ Ready)
  /\ rooms' = [rooms EXCEPT !.promise[c] = Free, !.joins[rooms.promise[c].for] = 0]
  /\ UNCHANGED <<gatewayVars, linkVars, dataVars, pageVars, caughtUp>>

Navigate(pg) ==
  LET hasty == IF Pending THEN {"hasty"} ELSE {}
      p     == Cleanup([Provider EXCEPT !.flaws = @ \cup hasty], Mounted(page) \ Mounted(pg)) IN
  /\ pg # page /\ moves < MaxMoves /\ Spare
  /\ Becomes(IF Ready THEN Effects(p, Mounted(pg) \ Mounted(page)) ELSE p)
  /\ page' = pg /\ moves' = moves + 1
  /\ caughtUp' = (caughtUp /\ pg = "ticket")
  /\ MountConversation(pg = "ticket")
  /\ UNCHANGED <<gatewayVars, down, socket, written, published>>

\* The server takes the next command.  A join looks its membership up; the
\* others are answered at once, and the answers of leaves are not looked at.
Receive ==
  LET m == Head(up)
      denied == m.name = "ticket join" /\ Organization \notin tenants[socket] IN
  /\ up # <<>> /\ up' = Tail(up)
  /\ CASE m.name = "org join" -> JoinOrganization(m.id, socket, Organization)
       [] m.name = "ticket join" /\ ~ denied -> JoinTicket(m.id, socket, Organization, Ticket)
       [] m.name = "org leave" /\ Organization \in tenants[socket] -> LeaveOrganization(socket, Organization)
       [] m.name = "ticket leave" /\ Ticket \in tickets[socket] -> LeaveTicket(socket, Ticket)
       [] OTHER -> UNCHANGED gatewayVars
  /\ down' = IF denied THEN Append(down, Command("refused", m.id)) ELSE down
  /\ UNCHANGED <<socket, dataVars, pageVars, rooms, caughtUp>>

\* A handler goes on, and answers when it ends.
Handle(c) ==
  /\ HandlerStep(c)
  /\ down' = IF call'[c] # Idle \/ call[c].socket # socket \/ ~ Ready THEN down
             ELSE Append(down, Command(IF \/ At(c, "org found")
                                          \/ At(c, "ticket exists") /\ ExistsInOrganization(call[c].ticket, call[c].org)
                                       THEN "joined" ELSE "refused", c))
  /\ UNCHANGED <<up, socket, dataVars, pageVars, rooms, caughtUp>>

\* The waiters of a join go on in the order they came.
ResumeAll(p, room, waiters) ==
  LET after[i \in 0 .. Len(waiters)] ==
        IF i = 0 THEN p ELSE Resume(after[i - 1], room, waiters[i])
  IN  after[Len(waiters)]

Settle(c, ok) ==
  LET join == rooms.promise[c]
      p    == [Provider EXCEPT !.rooms.promise[c] = Free, !.rooms.joins[join.for] = 0] IN
  IF ok THEN ResumeAll([p EXCEPT !.rooms.joined = @ \cup {join.for}], join.for, join.waiters)
        ELSE [p EXCEPT !.flaws = @ \cup {"refused"}]

\* Mutant: the conversation is refreshed when the organization was joined.
AcknowledgedByOrganization(m) ==
  LET joined == rooms.promise[m.id].for IN
  /\ Spare /\ Becomes(Settle(m.id, m.name = "joined"))
  /\ Invalidate(m.name = "joined" /\ joined = "org" /\ Recovered)
  /\ caughtUp' = (caughtUp \/ (/\ m.name = "joined" /\ joined = "ticket" /\ Recovered
                               /\ page = "ticket" /\ cache # <<>>))

\* After a recovery the join of the ticket's room refreshes the conversation.
Acknowledged(m) ==
  LET refreshes == m.name = "joined" /\ rooms.promise[m.id].for = "ticket" /\ Recovered IN
  /\ Spare /\ Becomes(Settle(m.id, m.name = "joined"))
  /\ Invalidate(refreshes)
  /\ caughtUp' = (caughtUp \/ (refreshes /\ page = "ticket" /\ cache # <<>>))

Listen ==
  LET m == Head(down) IN
  /\ down # <<>> /\ down' = Tail(down)
  /\ IF m.name = "event"
     THEN Invalidate(TRUE) /\ UNCHANGED <<up, rooms, caughtUp, flaws>>
     ELSE Acknowledged(m)
  /\ UNCHANGED <<gatewayVars, socket, page, moves, written, published>>

-----------------------------------------------------------------------------

Serve == Receive \/ (\E c \in Calls : Handle(c)) \/ (\E w \in Messages \cup Deliveries : Publish(w))

Browse == Connect \/ Listen \/ ReadMessages \/ ShowMessages \/ (\E c \in Calls : TimeOut(c))

ClientNext ==
  \/ Serve \/ Browse \/ Disconnect
  \/ \E w \in Messages \cup Deliveries : Write(w)
  \/ \E pg \in {"none", "org", "ticket"} : Navigate(pg)

clientVars == <<gatewayVars, linkVars, dataVars, pageVars, rooms, caughtUp>>

ClientSpec == ClientInit /\ [][ClientNext]_clientVars

-----------------------------------------------------------------------------
(* Properties.                                                               *)

\* Nothing is under way on the connection.
Quiet ==
  /\ Ready /\ up = <<>> /\ down = <<>>
  /\ \A c \in Calls : call[c] = Idle
  /\ written = published

\* However hastily the pages were changed, and whatever pending joins were
\* forgotten early, a connection on which nothing is under way is in the room
\* of a ticket only on the ticket's page, and in the organization's only on its
\* pages: a join that is answered after its bridge has gone is taken back.  The
\* organization's is not when only the bridge of a ticket awaited it.
NoRoomsLeftBehind ==
  Quiet =>
    /\ page # "ticket" => ticketRooms[socket] = {}
    /\ page = "none" /\ "alone" \notin flaws => orgRooms[socket] = {}

\* When no page was left with a join pending, what the provider believes, what
\* the server has, and what the page needs agree once nothing is under way.
RoomsOfThePage ==
  Quiet /\ flaws = {} =>
    /\ rooms.joined = Mounted(page)
    /\ orgRooms[socket] = IF "org" \in rooms.joined THEN {Organization} ELSE {}
    /\ ticketRooms[socket] = IF "ticket" \in rooms.joined THEN {Ticket} ELSE {}

\* A conversation that was recovered after a lost connection shows every
\* message and every delivery update once nothing is under way: one written in
\* the gap is in the refetched page, one after it has an event.
RecoveredPagesAreFresh ==
  Quiet /\ flaws = {} /\ caughtUp /\ fetch = NoFetch => cache = <<written>>

===============================================================================
