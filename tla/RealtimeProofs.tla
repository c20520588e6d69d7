---------------------------- MODULE RealtimeProofs ----------------------------
(***************************************************************************)
(* Realtime.  The gateway, for any sockets, organizations, tickets and     *)
(* numbers of commands in progress: its types, the record client.data      *)
(* keeps of the rooms, and that it implements RoomAccess.  The browser and *)
(* the gateway together: the browser is one of the clients the gateway     *)
(* expects, the provider keeps track of every join it sent, and no room is *)
(* left behind; while nothing goes wrong, the rooms are those of the page, *)
(* and a page that was recovered shows everything.                         *)
(***************************************************************************)

EXTENDS RealtimeClient, WellFoundedInduction, TLAPS

-----------------------------------------------------------------------------
(* The gateway: its handlers.                                                *)

\* A command in progress is one of the handlers' states.
LEMMA HandlerKinds ==
  ASSUME GatewayTypeOK, NEW c \in Calls
  PROVE  /\ At(c, "idle") <=> call[c] = Idle
         /\ ~ At(c, "idle") => /\ call[c].socket \in Sockets
                               /\ call[c].org \in Organizations
                               /\ call[c] = Handler(call[c].pc, call[c].socket, call[c].org, call[c].ticket)
         /\ call[c].pc \in {"org lookup", "org found", "org missing"} => call[c].ticket = None
         /\ call[c].pc \in {"ticket lookup", "ticket found", "ticket missing", "ticket exists"}
              => call[c].ticket \in Tickets
<1>1. call[c] \in Handlers
  BY DEF GatewayTypeOK
<1>2. CASE call[c] = Idle
  BY <1>2 DEF At, Idle
<1>3. ASSUME call[c] \in [pc : {"org lookup", "org found", "org missing"},
                          socket : Sockets, org : Organizations, ticket : {None}]
      PROVE  /\ call[c].pc \in {"org lookup", "org found", "org missing"}
             /\ call[c].ticket = None
             /\ call[c].socket \in Sockets /\ call[c].org \in Organizations
             /\ call[c] = Handler(call[c].pc, call[c].socket, call[c].org, call[c].ticket)
  BY <1>3 DEF Handler
<1>4. ASSUME call[c] \in [pc : {"ticket lookup", "ticket found", "ticket missing", "ticket exists"},
                          socket : Sockets, org : Organizations, ticket : Tickets]
      PROVE  /\ call[c].pc \in {"ticket lookup", "ticket found", "ticket missing", "ticket exists"}
             /\ call[c].ticket \in Tickets
             /\ call[c].socket \in Sockets /\ call[c].org \in Organizations
             /\ call[c] = Handler(call[c].pc, call[c].socket, call[c].org, call[c].ticket)
  BY <1>4 DEF Handler
<1>5. Idle.pc = "idle"
  BY DEF Idle
<1> QED
  BY <1>1, <1>2, <1>3, <1>4, <1>5 DEF Handlers, At

\* The states of the handlers.
LEMMA HandlerIsTyped ==
  ASSUME NEW s \in Sockets, NEW o \in Organizations
  PROVE  /\ \A pc \in {"org lookup", "org found", "org missing"} : Handler(pc, s, o, None) \in Handlers
         /\ \A pc \in {"ticket lookup", "ticket found", "ticket missing", "ticket exists"}, t \in Tickets :
              Handler(pc, s, o, t) \in Handlers
BY DEF Handlers, Handler

\* An await leaves the command with its socket, organization and ticket.
LEMMA AwaitChanges ==
  ASSUME GatewayTypeOK, NEW c \in Calls, NEW pc, ~ At(c, "idle"), Await(c, pc)
  PROVE  call' = [call EXCEPT ![c] = Handler(pc, call[c].socket, call[c].org, call[c].ticket)]
<1>1. call[c] = Handler(call[c].pc, call[c].socket, call[c].org, call[c].ticket)
  BY HandlerKinds
<1>2. [call[c] EXCEPT !.pc = pc] = Handler(pc, call[c].socket, call[c].org, call[c].ticket)
  BY <1>1 DEF Handler
<1>3. call' = [call EXCEPT ![c] = [call[c] EXCEPT !.pc = pc]]
  BY DEF Await
<1> QED  BY <1>2, <1>3

-----------------------------------------------------------------------------

LEMMA TypeInit == GatewayInit => GatewayTypeOK
BY GatewayAssumption DEF GatewayInit, GatewayTypeOK, Handlers, Idle

LEMMA TypeStep == GatewayTypeOK /\ [GatewayNext]_gatewayVars => GatewayTypeOK'
<1> SUFFICES ASSUME GatewayTypeOK, [GatewayNext]_gatewayVars PROVE GatewayTypeOK'
  OBVIOUS
<1> USE GatewayAssumption
<1>1. ASSUME NEW s \in Sockets,
             ChangeMembership(s) \/ HandleConnection(s) \/ HandleDisconnect(s)
      PROVE  GatewayTypeOK'
  BY <1>1 DEF GatewayTypeOK, ChangeMembership, HandleConnection, HandleDisconnect, socketVars
<1>2. ASSUME NEW s \in Sockets, NEW o \in Organizations, LeaveOrganization(s, o)
      PROVE  GatewayTypeOK'
  BY <1>2 DEF GatewayTypeOK, LeaveOrganization, Leave, LeaveAllTickets
<1>3. ASSUME NEW s \in Sockets, NEW t \in Tickets, LeaveTicket(s, t)
      PROVE  GatewayTypeOK'
  BY <1>3 DEF GatewayTypeOK, LeaveTicket
<1>4. ASSUME NEW s \in Sockets, NEW c \in Calls, NEW o \in Organizations, JoinOrganization(c, s, o)
      PROVE  GatewayTypeOK'
  <2>1. Handler("org lookup", s, o, None) \in Handlers
    BY HandlerIsTyped
  <2> QED  BY <1>4, <2>1 DEF GatewayTypeOK, JoinOrganization, socketVars
<1>5. ASSUME NEW s \in Sockets, NEW c \in Calls, NEW o \in Organizations, NEW t \in Tickets,
             JoinTicket(c, s, o, t)
      PROVE  GatewayTypeOK'
  <2>1. Handler("ticket lookup", s, o, t) \in Handlers
    BY HandlerIsTyped
  <2> QED  BY <1>5, <2>1 DEF GatewayTypeOK, JoinTicket, socketVars
<1>6. ASSUME NEW c \in Calls, ResolveTenant(c) PROVE GatewayTypeOK'
  <2>1. PICK pc \in {"org found", "org missing", "ticket found", "ticket missing"} :
          /\ Await(c, pc)
          /\ At(c, IF pc \in {"org found", "org missing"} THEN "org lookup" ELSE "ticket lookup")
    BY <1>6 DEF ResolveTenant, At
  <2>2. call' = [call EXCEPT ![c] = Handler(pc, call[c].socket, call[c].org, call[c].ticket)]
    BY <2>1, AwaitChanges DEF At
  <2>3. Handler(pc, call[c].socket, call[c].org, call[c].ticket) \in Handlers
    BY <2>1, HandlerKinds, HandlerIsTyped DEF At
  <2> QED  BY <1>6, <2>2, <2>3 DEF GatewayTypeOK, ResolveTenant, socketVars
<1>7. ASSUME NEW c \in Calls, EnterOrganization(c) \/ RefuseOrganization(c) PROVE GatewayTypeOK'
  <2>1. call[c].socket \in Sockets /\ call[c].org \in Organizations
    BY <1>7, HandlerKinds DEF EnterOrganization, RefuseOrganization, At
  <2>2. call' \in [Calls -> Handlers]
    <3>1. Idle \in Handlers
      BY DEF Handlers
    <3> QED  BY <1>7, <3>1 DEF GatewayTypeOK, EnterOrganization, RefuseOrganization, Return
  <2>3. orgRooms' \in [Sockets -> SUBSET Organizations] /\ tenants' \in [Sockets -> SUBSET Organizations]
    <3>1. CASE RefuseOrganization(c)
      BY <3>1 DEF GatewayTypeOK, RefuseOrganization, socketVars
    <3>2. CASE EnterOrganization(c)
      <4>1. InRoom(call[c].socket, call[c].org) \in SUBSET Organizations
        BY <2>1 DEF InRoom
      <4> QED  BY <2>1, <3>2, <4>1 DEF GatewayTypeOK, EnterOrganization
    <3> QED  BY <1>7, <3>1, <3>2
  <2> QED  BY <1>7, <2>2, <2>3 DEF GatewayTypeOK, EnterOrganization, RefuseOrganization, socketVars
<1>8. ASSUME NEW c \in Calls, ExpelSocket(c) PROVE GatewayTypeOK'
  <2>1. call[c].socket \in Sockets /\ call[c].org \in Organizations
    BY <1>8, HandlerKinds DEF ExpelSocket, At
  <2> QED  BY <1>8, <2>1 DEF GatewayTypeOK, ExpelSocket, Leave, LeaveAllTickets, Return, Handlers
<1>9. ASSUME NEW c \in Calls, RefreshTenant(c) PROVE GatewayTypeOK'
  <2>1. call' = [call EXCEPT ![c] = Handler("ticket exists", call[c].socket, call[c].org, call[c].ticket)]
    BY <1>9, AwaitChanges DEF RefreshTenant, At
  <2>2. /\ call[c].socket \in Sockets /\ call[c].org \in Organizations
        /\ Handler("ticket exists", call[c].socket, call[c].org, call[c].ticket) \in Handlers
    BY <1>9, HandlerKinds, HandlerIsTyped DEF RefreshTenant, At
  <2> QED  BY <1>9, <2>1, <2>2 DEF GatewayTypeOK, RefreshTenant
<1>10. ASSUME NEW c \in Calls, EnterTicket(c) \/ RefuseTicket(c) PROVE GatewayTypeOK'
  <2>1. call[c].socket \in Sockets /\ call[c].ticket \in Tickets
    BY <1>10, HandlerKinds DEF EnterTicket, RefuseTicket, At
  <2>2. call' \in [Calls -> Handlers]
    <3>1. Idle \in Handlers
      BY DEF Handlers
    <3> QED  BY <1>10, <3>1 DEF GatewayTypeOK, EnterTicket, RefuseTicket, Return
  <2>3. ticketRooms' \in [Sockets -> SUBSET Tickets] /\ tickets' \in [Sockets -> SUBSET Tickets]
    <3>1. CASE RefuseTicket(c)
      BY <3>1 DEF GatewayTypeOK, RefuseTicket, socketVars
    <3>2. CASE EnterTicket(c)
      <4>1. InRoom(call[c].socket, call[c].ticket) \in SUBSET Tickets
        BY <2>1 DEF InRoom
      <4> QED  BY <2>1, <3>2, <4>1 DEF GatewayTypeOK, EnterTicket
    <3> QED  BY <1>10, <3>1, <3>2
  <2> QED  BY <1>10, <2>2, <2>3 DEF GatewayTypeOK, EnterTicket, RefuseTicket, socketVars
<1>11. CASE UNCHANGED gatewayVars
  BY <1>11 DEF GatewayTypeOK, gatewayVars, socketVars
<1> QED
  BY <1>1, <1>2, <1>3, <1>4, <1>5, <1>6, <1>7, <1>8, <1>9, <1>10, <1>11 DEF GatewayNext, HandlerStep

\* Every reachable state of the gateway is typed: joinOrganization, joinTicket
\* and their leaves keep client.data and the rooms sets of known rooms.
THEOREM GatewayTypeCorrect == GatewaySpec => []GatewayTypeOK
BY TypeInit, TypeStep, PTL DEF GatewaySpec

-----------------------------------------------------------------------------
(* The record of the rooms.                                                  *)

\* A socket has no commands and no record before it is connected: without it a
\* command could record a room that the socket, not yet open, does not enter.
Unconnected ==
  \A s \in Sockets : conn[s] = "new" =>
    tickets[s] = {} /\ \A c \in Calls : At(c, "idle") \/ call[c].socket # s

RecordInv == Unconnected /\ RoomsAreRecorded

\* The record holds at first and every step keeps it: a room is entered and
\* recorded by one step, and left by one that looks it up in the record.
LEMMA RecordInit == GatewayInit => RecordInv
BY DEF GatewayInit, RecordInv, Unconnected, RoomsAreRecorded, At, Idle

LEMMA UnconnectedStep ==
  GatewayTypeOK /\ Unconnected /\ [GatewayNext]_gatewayVars => Unconnected'
<1> SUFFICES ASSUME GatewayTypeOK, Unconnected, [GatewayNext]_gatewayVars,
                    NEW r \in Sockets, conn'[r] = "new", NEW d
             PROVE  tickets'[r] = {} /\ (d \in Calls => call'[d].pc = "idle" \/ call'[d].socket # r)
  BY DEF Unconnected, At
<1>0. conn[r] = "new" => tickets[r] = {} /\ (d \in Calls => call[d].pc = "idle" \/ call[d].socket # r)
  BY DEF Unconnected, At
<1> USE <1>0 DEF GatewayTypeOK
<1>1. ASSUME NEW s \in Sockets,
             ChangeMembership(s) \/ HandleConnection(s) \/ HandleDisconnect(s)
      PROVE  tickets'[r] = {} /\ (d \in Calls => call'[d].pc = "idle" \/ call'[d].socket # r)
  BY <1>1 DEF ChangeMembership, HandleConnection, HandleDisconnect, socketVars
<1>2. ASSUME NEW s \in Sockets,
             (\E o \in Organizations : LeaveOrganization(s, o)) \/ (\E t \in Tickets : LeaveTicket(s, t))
      PROVE  tickets'[r] = {} /\ (d \in Calls => call'[d].pc = "idle" \/ call'[d].socket # r)
  BY <1>2 DEF LeaveOrganization, LeaveTicket, Leave, LeaveAllTickets
<1>3. ASSUME NEW s \in Sockets, NEW c \in Calls, NEW o \in Organizations,
             JoinOrganization(c, s, o) \/ \E t \in Tickets : JoinTicket(c, s, o, t)
      PROVE  tickets'[r] = {} /\ (d \in Calls => call'[d].pc = "idle" \/ call'[d].socket # r)
  <2>1. Handler("org lookup", s, o, None).socket = s
    BY DEF Handler
  <2>2. \A t \in Tickets : Handler("ticket lookup", s, o, t).socket = s
    BY DEF Handler
  <2>3. tickets'[r] = {} /\ conn[r] = "new" /\ s # r
    BY <1>3 DEF JoinOrganization, JoinTicket, socketVars
  <2> QED  BY <1>3, <2>1, <2>2, <2>3 DEF JoinOrganization, JoinTicket
<1>4. ASSUME NEW c \in Calls, NEW pc, ~ At(c, "idle"), Await(c, pc), UNCHANGED <<conn, tickets>>
      PROVE  tickets'[r] = {} /\ (d \in Calls => call'[d].pc = "idle" \/ call'[d].socket # r)
  <2>1. call' = [call EXCEPT ![c] = Handler(pc, call[c].socket, call[c].org, call[c].ticket)]
    BY <1>4, AwaitChanges
  <2>2. d \in Calls => call'[d].socket = call[d].socket /\ (d = c => call[d].pc # "idle") /\ (d # c => call'[d] = call[d])
    BY <1>4, <2>1 DEF Handler, At
  <2> QED  BY <1>4, <2>2
<1>5. ASSUME NEW c \in Calls, ResolveTenant(c) \/ RefreshTenant(c)
      PROVE  tickets'[r] = {} /\ (d \in Calls => call'[d].pc = "idle" \/ call'[d].socket # r)
  <2>1. ~ At(c, "idle") /\ UNCHANGED <<conn, tickets>>
    BY <1>5 DEF ResolveTenant, RefreshTenant, At, socketVars
  <2>2. \E pc : Await(c, pc)
    BY <1>5 DEF ResolveTenant, RefreshTenant
  <2> QED  BY <1>4, <2>1, <2>2
<1>6. ASSUME NEW c \in Calls, Return(c), UNCHANGED conn,
             \/ tickets'[r] \subseteq tickets[r]
             \/ EnterTicket(c)
      PROVE  tickets'[r] = {} /\ (d \in Calls => call'[d].pc = "idle" \/ call'[d].socket # r)
  <2>1. d \in Calls => call'[d].pc = "idle" \/ call'[d] = call[d]
    BY <1>6 DEF Return, Idle
  <2>2. CASE EnterTicket(c)
    <3>1. call[c].socket \in Sockets /\ call[c].socket # r
      BY <1>6, <2>2, HandlerKinds DEF EnterTicket, Unconnected, At
    <3> QED  BY <1>6, <2>1, <2>2, <3>1 DEF EnterTicket
  <2> QED  BY <1>6, <2>1, <2>2
<1>7. ASSUME NEW c \in Calls,
             EnterOrganization(c) \/ RefuseOrganization(c) \/ ExpelSocket(c) \/ EnterTicket(c) \/ RefuseTicket(c)
      PROVE  tickets'[r] = {} /\ (d \in Calls => call'[d].pc = "idle" \/ call'[d].socket # r)
  <2>1. CASE ExpelSocket(c)
    <3>1. tickets'[r] \subseteq tickets[r]
      BY <2>1 DEF ExpelSocket, Leave, LeaveAllTickets
    <3> QED  BY <1>6, <2>1, <3>1 DEF ExpelSocket
  <2>2. CASE EnterTicket(c)
    BY <1>6, <2>2 DEF EnterTicket
  <2> QED
    BY <1>6, <1>7, <2>1, <2>2 DEF EnterOrganization, RefuseOrganization, RefuseTicket, socketVars
<1>8. CASE UNCHANGED gatewayVars
  BY <1>8 DEF gatewayVars, socketVars
<1> QED
  BY <1>1, <1>2, <1>3, <1>5, <1>7, <1>8 DEF GatewayNext, HandlerStep

LEMMA RecordStep ==
  GatewayTypeOK /\ RecordInv /\ [GatewayNext]_gatewayVars => RoomsAreRecorded'
<1> SUFFICES ASSUME GatewayTypeOK, RecordInv, [GatewayNext]_gatewayVars,
                    NEW r \in Sockets
             PROVE  /\ orgRooms'[r] \subseteq tenants'[r]
                    /\ ticketRooms'[r] = IF conn'[r] = "open" THEN tickets'[r] ELSE {}
  BY DEF RoomsAreRecorded
<1>0. /\ orgRooms[r] \subseteq tenants[r]
      /\ ticketRooms[r] = IF conn[r] = "open" THEN tickets[r] ELSE {}
      /\ conn[r] = "new" => tickets[r] = {}
  BY DEF RecordInv, Unconnected, RoomsAreRecorded
<1> USE <1>0 DEF GatewayTypeOK
<1>1. ASSUME NEW s \in Sockets,
             ChangeMembership(s) \/ HandleConnection(s) \/ HandleDisconnect(s)
      PROVE  /\ orgRooms'[r] \subseteq tenants'[r]
             /\ ticketRooms'[r] = IF conn'[r] = "open" THEN tickets'[r] ELSE {}
  <2>1. CASE ChangeMembership(s)
    BY <2>1 DEF ChangeMembership, socketVars
  <2>2. CASE HandleConnection(s)
    BY <2>2 DEF HandleConnection, socketVars
  <2>3. CASE HandleDisconnect(s)
    BY <2>3 DEF HandleDisconnect
  <2> QED  BY <1>1, <2>1, <2>2, <2>3
<1>2. ASSUME NEW s \in Sockets, NEW o \in Organizations, LeaveOrganization(s, o)
      PROVE  /\ orgRooms'[r] \subseteq tenants'[r]
             /\ ticketRooms'[r] = IF conn'[r] = "open" THEN tickets'[r] ELSE {}
  BY <1>2 DEF LeaveOrganization, Leave, LeaveAllTickets
<1>3. ASSUME NEW s \in Sockets, NEW t \in Tickets, LeaveTicket(s, t)
      PROVE  /\ orgRooms'[r] \subseteq tenants'[r]
             /\ ticketRooms'[r] = IF conn'[r] = "open" THEN tickets'[r] ELSE {}
  BY <1>3 DEF LeaveTicket
<1>4. ASSUME NEW c \in Calls, ExpelSocket(c)
      PROVE  /\ orgRooms'[r] \subseteq tenants'[r]
             /\ ticketRooms'[r] = IF conn'[r] = "open" THEN tickets'[r] ELSE {}
  <2>1. call[c].socket \in Sockets /\ call[c].org \in Organizations
    BY <1>4, HandlerKinds DEF ExpelSocket, At
  <2> QED  BY <1>4, <2>1 DEF ExpelSocket, Leave, LeaveAllTickets
<1>5. ASSUME NEW c \in Calls, EnterOrganization(c) \/ EnterTicket(c) \/ RefreshTenant(c)
      PROVE  /\ orgRooms'[r] \subseteq tenants'[r]
             /\ ticketRooms'[r] = IF conn'[r] = "open" THEN tickets'[r] ELSE {}
  <2>1. CASE EnterOrganization(c)
    BY <2>1 DEF EnterOrganization, InRoom
  <2>2. CASE EnterTicket(c)
    <3>1. call[c].socket \in Sockets
      BY <2>2, HandlerKinds DEF EnterTicket, At
    <3> QED  BY <2>2, <3>1 DEF EnterTicket, InRoom
  <2>3. CASE RefreshTenant(c)
    BY <2>3 DEF RefreshTenant
  <2> QED  BY <1>5, <2>1, <2>2, <2>3
<1>6. ASSUME UNCHANGED <<conn, socketVars>>
      PROVE  /\ orgRooms'[r] \subseteq tenants'[r]
             /\ ticketRooms'[r] = IF conn'[r] = "open" THEN tickets'[r] ELSE {}
  BY <1>6 DEF socketVars
<1>7. ASSUME NEW s \in Sockets, NEW c \in Calls, NEW o \in Organizations,
             JoinOrganization(c, s, o) \/ \E t \in Tickets : JoinTicket(c, s, o, t)
      PROVE  UNCHANGED <<conn, socketVars>>
  BY <1>7 DEF JoinOrganization, JoinTicket
<1>8. ASSUME NEW c \in Calls, ResolveTenant(c) \/ RefuseOrganization(c) \/ RefuseTicket(c)
      PROVE  UNCHANGED <<conn, socketVars>>
  BY <1>8 DEF ResolveTenant, RefuseOrganization, RefuseTicket
<1>9. CASE UNCHANGED gatewayVars
  BY <1>6, <1>9 DEF gatewayVars
<1> QED
  BY <1>1, <1>2, <1>3, <1>4, <1>5, <1>6, <1>7, <1>8, <1>9 DEF GatewayNext, HandlerStep

\* client.data names every room of every open socket, whatever lookups other
\* commands of the socket were waiting for: leaveOrganization and the expulsion
\* of joinTicket, which leave the recorded rooms, leave all there are.
THEOREM RoomsAreAlwaysRecorded == GatewaySpec => []RoomsAreRecorded
<1>1. GatewayInit => GatewayTypeOK /\ RecordInv
  BY TypeInit, RecordInit
<1>2. GatewayTypeOK /\ RecordInv /\ [GatewayNext]_gatewayVars => GatewayTypeOK' /\ RecordInv'
  BY TypeStep, UnconnectedStep, RecordStep DEF RecordInv
<1>3. RecordInv => RoomsAreRecorded
  BY DEF RecordInv
<1> QED  BY <1>1, <1>2, <1>3, PTL DEF GatewaySpec

-----------------------------------------------------------------------------
(* The refinement.                                                           *)

LEMMA AccessInit == GatewayInit => Access!Init
<1> SUFFICES ASSUME GatewayInit PROVE Access!Init
  OBVIOUS
<1>1. Permits = {}
  BY DEF GatewayInit, Permits, Idle
<1>2. Hears = {}
  BY DEF GatewayInit, Hears
<1> QED  BY <1>1, <1>2 DEF GatewayInit, Access!Init

\* Only the lookups of a command decide which permissions there are.
LEMMA PermitsShrink ==
  ASSUME GatewayTypeOK, NEW c \in Calls, NEW h, call' = [call EXCEPT ![c] = h],
         \/ h.pc \notin {"org found", "ticket found", "ticket exists"}
         \/ <<h.socket, h.org>> \in Permits
  PROVE  Permits' \subseteq Permits
BY DEF Permits, GatewayTypeOK

LEMMA PermitsGrow ==
  ASSUME GatewayTypeOK, NEW c \in Calls, NEW h, call' = [call EXCEPT ![c] = h],
         call[c].pc \notin {"org found", "ticket found", "ticket exists"},
         h.pc \in {"org found", "ticket found", "ticket exists"}
  PROVE  Permits' = Permits \cup {<<h.socket, h.org>>}
<1>1. Permits \subseteq Permits'
  BY DEF Permits, GatewayTypeOK
<1>2. <<h.socket, h.org>> \in Permits'
  BY DEF Permits, GatewayTypeOK
<1>3. Permits' \subseteq Permits \cup {<<h.socket, h.org>>}
  BY DEF Permits, GatewayTypeOK
<1> QED  BY <1>1, <1>2, <1>3

LEMMA Withdrawal ==
  ASSUME Permits' \subseteq Permits, Hears' \subseteq Hears, UNCHANGED member
  PROVE  Access!Next
BY DEF Access!Next, Access!Withdraw

LEMMA HearsShrink ==
  ASSUME GatewayTypeOK,
         \A s \in Sockets : orgRooms'[s] \subseteq orgRooms[s] /\ ticketRooms'[s] \subseteq ticketRooms[s]
  PROVE  Hears' \subseteq Hears
BY DEF Hears

\* Every step of the gateway is a step of RoomAccess, or none.
LEMMA AccessStep ==
  GatewayTypeOK /\ [GatewayNext]_gatewayVars => [Access!Next]_(Access!vars)
<1> SUFFICES ASSUME GatewayTypeOK, [GatewayNext]_gatewayVars
             PROVE  [Access!Next]_(Access!vars)
  OBVIOUS
<1>1. ASSUME NEW s \in Sockets, ChangeMembership(s) PROVE Access!Next
  <2>1. Permits' = Permits /\ Hears' = Hears
    BY <1>1 DEF ChangeMembership, Permits, Hears, socketVars
  <2> QED  BY <1>1, <2>1 DEF ChangeMembership, Access!Next, Access!ChangeMembership
<1>2. ASSUME UNCHANGED <<member, call>>,
             \A s \in Sockets : orgRooms'[s] \subseteq orgRooms[s] /\ ticketRooms'[s] \subseteq ticketRooms[s]
      PROVE  Access!Next
  <2>1. Permits' = Permits
    BY <1>2 DEF Permits
  <2> QED  BY <1>2, <2>1, HearsShrink, Withdrawal
<1>3. ASSUME NEW s \in Sockets,
             \/ HandleConnection(s) \/ HandleDisconnect(s)
             \/ \E o \in Organizations : LeaveOrganization(s, o)
             \/ \E t \in Tickets : LeaveTicket(s, t)
      PROVE  Access!Next
  BY <1>2, <1>3 DEF GatewayTypeOK, HandleConnection, HandleDisconnect, LeaveOrganization, LeaveTicket,
                    Leave, LeaveAllTickets, socketVars
<1>4. ASSUME NEW s \in Sockets, NEW c \in Calls, NEW o \in Organizations,
             JoinOrganization(c, s, o) \/ \E t \in Tickets : JoinTicket(c, s, o, t)
      PROVE  Access!Next
  <2>1. PICK h : call' = [call EXCEPT ![c] = h] /\ h.pc \in {"org lookup", "ticket lookup"}
    <3>1. CASE JoinOrganization(c, s, o)
      <4>1. Handler("org lookup", s, o, None).pc = "org lookup"
        BY DEF Handler
      <4> QED  BY <3>1, <4>1 DEF JoinOrganization
    <3>2. ASSUME NEW t \in Tickets, JoinTicket(c, s, o, t)
          PROVE  \E h : call' = [call EXCEPT ![c] = h] /\ h.pc \in {"org lookup", "ticket lookup"}
      <4>1. Handler("ticket lookup", s, o, t).pc = "ticket lookup"
        BY DEF Handler
      <4> QED  BY <3>2, <4>1 DEF JoinTicket
    <3> QED  BY <1>4, <3>1, <3>2
  <2>2. Permits' \subseteq Permits
    BY <2>1, PermitsShrink
  <2>3. Hears' \subseteq Hears
    BY <1>4, HearsShrink DEF JoinOrganization, JoinTicket, socketVars
  <2> QED  BY <1>4, <2>2, <2>3, Withdrawal DEF JoinOrganization, JoinTicket
<1>5. ASSUME NEW c \in Calls, ResolveTenant(c) PROVE Access!Next
  <2> DEFINE s == call[c].socket
             o == call[c].org
  <2>1. PICK pc \in {"org found", "org missing", "ticket found", "ticket missing"} :
          /\ Await(c, pc)
          /\ call[c].pc \in {"org lookup", "ticket lookup"}
          /\ pc \in {"org found", "ticket found"} => o \in member[s]
    BY <1>5 DEF ResolveTenant, At
  <2>2. call' = [call EXCEPT ![c] = Handler(pc, s, o, call[c].ticket)]
    BY <2>1, AwaitChanges DEF At
  <2>3. s \in Sockets /\ o \in Organizations
    BY <2>1, HandlerKinds DEF At
  <2>4. Hears' = Hears /\ UNCHANGED member
    BY <1>5 DEF ResolveTenant, Hears, socketVars
  <2>5. CASE pc \in {"org found", "ticket found"}
    <3>1. Permits' = Permits \cup {<<s, o>>}
      <4> DEFINE h == Handler(pc, s, o, call[c].ticket)
      <4>1. h.pc = pc /\ h.socket = s /\ h.org = o
        BY DEF Handler
      <4> HIDE DEF h
      <4> QED  BY <2>1, <2>2, <2>5, <4>1, PermitsGrow DEF h
    <3> QED  BY <2>1, <2>3, <2>4, <2>5, <3>1 DEF Access!Next, Access!Permit
  <2>6. CASE pc \notin {"org found", "ticket found"}
    <3>1. Permits' \subseteq Permits
      <4>1. Handler(pc, s, o, call[c].ticket).pc = pc
        BY DEF Handler
      <4> QED  BY <2>1, <2>2, <2>6, <4>1, PermitsShrink
    <3> QED  BY <2>4, <3>1, Withdrawal
  <2> QED  BY <2>5, <2>6
<1>6. ASSUME NEW c \in Calls, RefuseOrganization(c) \/ RefuseTicket(c) \/ ExpelSocket(c) PROVE Access!Next
  <2>1. call' = [call EXCEPT ![c] = Idle] /\ UNCHANGED member
    BY <1>6 DEF RefuseOrganization, RefuseTicket, ExpelSocket, Return
  <2>2. Permits' \subseteq Permits
    <3>1. Idle.pc = "idle"
      BY DEF Idle
    <3> QED  BY <2>1, <3>1, PermitsShrink
  <2>3. Hears' \subseteq Hears
    <3>1. CASE ExpelSocket(c)
      <4>1. call[c].socket \in Sockets
        BY <3>1, HandlerKinds DEF ExpelSocket, At
      <4> QED  BY <3>1, <4>1, HearsShrink DEF GatewayTypeOK, ExpelSocket, Leave, LeaveAllTickets
    <3>2. CASE UNCHANGED socketVars
      BY <3>2, HearsShrink DEF socketVars
    <3> QED  BY <1>6, <3>1, <3>2 DEF RefuseOrganization, RefuseTicket
  <2> QED  BY <2>1, <2>2, <2>3, Withdrawal
<1>7. ASSUME NEW c \in Calls, EnterOrganization(c) \/ EnterTicket(c) PROVE Access!Next
  <2> DEFINE s == call[c].socket
             o == call[c].org
  <2>1. /\ s \in Sockets /\ o \in Organizations /\ <<s, o>> \in Permits
        /\ EnterTicket(c) => call[c].ticket \in Tickets /\ TicketOrg[call[c].ticket] = o
    BY <1>7, HandlerKinds DEF EnterOrganization, EnterTicket, ExistsInOrganization, At, Permits
  <2>2. call' = [call EXCEPT ![c] = Idle] /\ UNCHANGED member
    BY <1>7 DEF EnterOrganization, EnterTicket, Return
  <2>3. Permits' \subseteq Permits
    <3>1. Idle.pc = "idle"
      BY DEF Idle
    <3> QED  BY <2>2, <3>1, PermitsShrink
  <2>4. CASE conn[s] = "open"
    <3>1. Hears' = Hears \cup {<<s, o>>}
      <4>1. CASE EnterOrganization(c)
        <5>1. orgRooms' = [orgRooms EXCEPT ![s] = @ \cup {o}] /\ ticketRooms' = ticketRooms
          BY <2>4, <4>1 DEF EnterOrganization, InRoom
        <5> QED  BY <2>1, <5>1 DEF Hears, GatewayTypeOK
      <4>2. CASE EnterTicket(c)
        <5>1. ticketRooms' = [ticketRooms EXCEPT ![s] = @ \cup {call[c].ticket}] /\ orgRooms' = orgRooms
          BY <2>4, <4>2 DEF EnterTicket, InRoom
        <5> QED  BY <2>1, <4>2, <5>1 DEF Hears, GatewayTypeOK
      <4> QED  BY <1>7, <4>1, <4>2
    <3>2. Access!Hear(s, o)
      BY <2>1, <2>2, <2>3, <3>1 DEF Access!Hear
    <3> QED  BY <2>1, <3>2 DEF Access!Next
  <2>5. CASE conn[s] # "open"
    <3>1. Hears' \subseteq Hears
      <4>1. CASE EnterOrganization(c)
        BY <2>5, <4>1, HearsShrink DEF GatewayTypeOK, EnterOrganization, InRoom
      <4>2. CASE EnterTicket(c)
        BY <2>5, <4>2, HearsShrink DEF GatewayTypeOK, EnterTicket, InRoom
      <4> QED  BY <1>7, <4>1, <4>2
    <3> QED  BY <2>2, <2>3, <3>1, Withdrawal
  <2> QED  BY <2>4, <2>5
<1>8. ASSUME NEW c \in Calls, RefreshTenant(c) PROVE Access!Next
  <2>1. call' = [call EXCEPT ![c] = Handler("ticket exists", call[c].socket, call[c].org, call[c].ticket)]
    BY <1>8, AwaitChanges DEF RefreshTenant, At
  <2>2. <<call[c].socket, call[c].org>> \in Permits
    BY <1>8 DEF RefreshTenant, At, Permits
  <2>3. Permits' \subseteq Permits
    <3> DEFINE h == Handler("ticket exists", call[c].socket, call[c].org, call[c].ticket)
    <3>1. h.socket = call[c].socket /\ h.org = call[c].org
      BY DEF Handler
    <3> QED  BY <2>1, <2>2, <3>1, PermitsShrink
  <2>4. Hears' \subseteq Hears
    BY <1>8 DEF RefreshTenant, Hears
  <2> QED  BY <1>8, <2>3, <2>4, Withdrawal DEF RefreshTenant
<1>9. CASE UNCHANGED gatewayVars
  BY <1>9 DEF gatewayVars, socketVars, Access!vars, Permits, Hears
<1> QED
  BY <1>1, <1>3, <1>4, <1>5, <1>6, <1>7, <1>8, <1>9 DEF GatewayNext, HandlerStep

\* The gateway implements RoomAccess: whichever lookups are under way, sockets
\* start to hear of an organization only by a request whose own lookup found
\* the membership, whether they join the organization or one of its tickets.
THEOREM GatewayImplementsRoomAccess == GatewaySpec => ImplementsRoomAccess
BY AccessInit, AccessStep, GatewayTypeCorrect, PTL DEF GatewaySpec, ImplementsRoomAccess, Access!Spec

-----------------------------------------------------------------------------
(* Values, and what is known of the provider between two calls.             *)

\* The rooms a page can need, and what can go less than smoothly.
Rooms   == {"org", "ticket"}
Flaws   == {"hasty", "refused", "alone"}
\* What a service writes and publishes.
Updates == Messages \cup Deliveries

\* The provider's refs, and what is in transit.
Waiters  == [bridge : Rooms, canceled : BOOLEAN]
Promises == [for : Rooms, on : Sockets, waiters : Seq(Waiters)]
Refs     == [joined : SUBSET Rooms, joins : [Rooms -> {0} \cup Calls], promise : [Calls -> {Free} \cup Promises]]

Commands == [name : {"org join", "ticket join"}, id : Calls]
            \cup [name : {"org leave", "ticket leave"}, id : {0}]
Answers  == [name : {"joined", "refused"}, id : Calls] \cup [name : {"event"}, id : {0}]

\* The provider, as its operators take it.
Providers == [rooms : Refs, out : Seq(Commands), on : {0} \cup Sockets, flaws : SUBSET Flaws]

\* A join that the present connection can still answer.
Live(p, c) == p.rooms.promise[c] # Free /\ p.rooms.promise[c].on = p.on

\* The room a handler of the gateway is joining.
ForOf(pc) == IF pc \in {"org lookup", "org found", "org missing"} THEN "org" ELSE "ticket"

\* A join in transit to the server is in transit once, and for its promise.
SentOnce(p, answers) ==
  \A i \in 1 .. Len(p.out) : p.out[i].id # 0 =>
    /\ Live(p, p.out[i].id)
    /\ p.out[i].name = JoinCommand(p.rooms.promise[p.out[i].id].for)
    /\ call[p.out[i].id] = Idle
    /\ \A k \in 1 .. Len(p.out) : p.out[k].id = p.out[i].id => k = i
    /\ \A k \in 1 .. Len(answers) : answers[k].id # p.out[i].id

\* An answer in transit is the only one, and the handler has ended.
AnsweredOnce(p, answers) ==
  \A i \in 1 .. Len(answers) : answers[i].id # 0 =>
    /\ Live(p, answers[i].id)
    /\ call[answers[i].id] = Idle
    /\ \A k \in 1 .. Len(answers) : answers[k].id = answers[i].id => k = i

\* A handler of the present connection works for a promise of its room.
Handled(p) ==
  \A c \in Calls : call[c] # Idle /\ call[c].socket = p.on =>
    Live(p, c) /\ p.rooms.promise[c].for = ForOf(call[c].pc)

\* While the connection lasts, a join is on its way, handled or answered.
NotLost(p, answers) ==
  \A c \in Calls : Live(p, c) =>
    \/ \E i \in 1 .. Len(p.out) : p.out[i].id = c
    \/ \E i \in 1 .. Len(answers) : answers[i].id = c
    \/ call[c] # Idle /\ call[c].socket = p.on

\* The pending join of a room is one of this connection, for this room.
PendingKnown(p) ==
  \A r \in Rooms : p.rooms.joins[r] # 0 =>
    Live(p, p.rooms.joins[r]) /\ p.rooms.promise[p.rooms.joins[r]].for = r

\* Somebody waits for every promise: a bridge of that room, unless the
\* organization's join was sent for the bridge of a ticket alone.
Awaited(p) ==
  \A c \in Calls : p.rooms.promise[c] # Free =>
    LET ws == p.rooms.promise[c].waiters IN
    /\ ws # <<>>
    /\ p.rooms.promise[c].for = "ticket" => \A i \in 1 .. Len(ws) : ws[i].bridge = "ticket"
    /\ p.rooms.promise[c].for = "org" /\ "alone" \notin p.flaws => \E i \in 1 .. Len(ws) : ws[i].bridge = "org"

\* What every call of the provider keeps, for what has come back so far.
Good(p, answers) ==
  /\ p \in Providers /\ answers \in Seq(Answers)
  /\ SentOnce(p, answers) /\ AnsweredOnce(p, answers) /\ Handled(p) /\ NotLost(p, answers)
  /\ PendingKnown(p) /\ Awaited(p)

\* A bridge that is not mounted any more, or belongs to an earlier
\* connection, is canceled wherever it still waits.
GoneCanceled(p, mounted) ==
  \A c \in Calls : p.rooms.promise[c] # Free =>
    \A i \in 1 .. Len(p.rooms.promise[c].waiters) :
      p.rooms.promise[c].waiters[i].bridge \notin mounted \/ p.rooms.promise[c].on # p.on
        => p.rooms.promise[c].waiters[i].canceled

\* A call of the provider only sends more: commands and promises stay.
Extends(p, q) ==
  /\ q.on = p.on /\ p.flaws \subseteq q.flaws
  /\ Len(p.out) <= Len(q.out) /\ \A i \in 1 .. Len(p.out) : q.out[i] = p.out[i]
  /\ \A c \in Calls : p.rooms.promise[c] # Free =>
       /\ q.rooms.promise[c] # Free
       /\ q.rooms.promise[c].for = p.rooms.promise[c].for
       /\ q.rooms.promise[c].on = p.rooms.promise[c].on
  /\ \A c \in Calls : q.rooms.promise[c] # Free => p.rooms.promise[c] # Free \/ q.rooms.promise[c].on = p.on

-----------------------------------------------------------------------------
(* The calls of the provider: leaves, and canceling.                        *)

\* Zero is no call and no socket.
LEMMA CallsAreNumbers == 0 \notin Calls /\ Calls \in SUBSET Nat /\ 0 \notin Sockets /\ Sockets \in SUBSET Int
BY ClientAssumption

\* The promises are the same, but for their waiters, and only leaves are sent.
Similar(p, q) ==
  /\ q.on = p.on /\ p.flaws \subseteq q.flaws
  /\ Len(p.out) <= Len(q.out) /\ \A i \in 1 .. Len(p.out) : q.out[i] = p.out[i]
  /\ \A i \in 1 .. Len(q.out) : i > Len(p.out) => q.out[i].id = 0
  /\ \A c \in Calls :
       /\ p.rooms.promise[c] = Free <=> q.rooms.promise[c] = Free
       /\ p.rooms.promise[c] # Free =>
            /\ q.rooms.promise[c].for = p.rooms.promise[c].for
            /\ q.rooms.promise[c].on = p.rooms.promise[c].on
  /\ \A r \in Rooms : q.rooms.joins[r] \in {0, p.rooms.joins[r]}

\* Refs that are similar keep what is known of promises and commands.
LEMMA SimilarKeeps ==
  ASSUME NEW p, NEW q, NEW answers, Good(p, answers), q \in Providers, Similar(p, q), Awaited(q)
  PROVE  Good(q, answers) /\ Extends(p, q)
<1>1. \A c \in Calls : Live(p, c) <=> Live(q, c)
  BY DEF Similar, Live
<1>2. /\ p.out \in Seq(Commands) /\ q.out \in Seq(Commands) /\ answers \in Seq(Answers)
      /\ Len(p.out) \in Nat /\ Len(q.out) \in Nat
  BY DEF Good, Providers
<1>3. \A i \in 1 .. Len(q.out) : q.out[i].id # 0 => i \in 1 .. Len(p.out) /\ q.out[i] = p.out[i]
  BY <1>2 DEF Similar
<1>4. \A i \in 1 .. Len(p.out) : i \in 1 .. Len(q.out) /\ q.out[i] = p.out[i]
  BY <1>2 DEF Similar
<1>5. \A i \in 1 .. Len(p.out) : p.out[i].id # 0 => p.out[i].id \in Calls
  <2>1. ASSUME NEW i \in 1 .. Len(p.out) PROVE p.out[i] \in Commands
    BY <1>2
  <2> QED  BY <2>1 DEF Commands
<1>6. \A i \in 1 .. Len(answers) : answers[i].id # 0 => answers[i].id \in Calls
  <2>1. ASSUME NEW i \in 1 .. Len(answers) PROVE answers[i] \in Answers
    BY <1>2
  <2> QED  BY <2>1 DEF Answers
<1>7. SentOnce(q, answers)
  <2> SUFFICES ASSUME NEW i \in 1 .. Len(q.out), q.out[i].id # 0
               PROVE  /\ Live(q, q.out[i].id)
                      /\ q.out[i].name = JoinCommand(q.rooms.promise[q.out[i].id].for)
                      /\ call[q.out[i].id] = Idle
                      /\ \A k \in 1 .. Len(q.out) : q.out[k].id = q.out[i].id => k = i
                      /\ \A k \in 1 .. Len(answers) : answers[k].id # q.out[i].id
    BY DEF SentOnce
  <2>1. i \in 1 .. Len(p.out) /\ q.out[i] = p.out[i] /\ p.out[i].id \in Calls
    BY <1>3, <1>5
  <2>2. /\ Live(p, p.out[i].id)
        /\ p.out[i].name = JoinCommand(p.rooms.promise[p.out[i].id].for)
        /\ call[p.out[i].id] = Idle
        /\ \A k \in 1 .. Len(p.out) : p.out[k].id = p.out[i].id => k = i
        /\ \A k \in 1 .. Len(answers) : answers[k].id # p.out[i].id
    BY <2>1 DEF Good, SentOnce
  <2>3. q.rooms.promise[q.out[i].id].for = p.rooms.promise[p.out[i].id].for
    BY <2>1, <2>2 DEF Similar, Live
  <2> QED
    BY <1>1, <1>3, <2>1, <2>2, <2>3
<1>8. AnsweredOnce(q, answers)
  BY <1>1, <1>6 DEF Good, AnsweredOnce
<1>9. Handled(q)
  BY <1>1 DEF Good, Handled, Similar, Live
<1>10. NotLost(q, answers)
  BY SMTT(40), <1>1, <1>4 DEF Good, NotLost, Similar
<1>11. PendingKnown(q)
  <2> SUFFICES ASSUME NEW r \in Rooms, q.rooms.joins[r] # 0
               PROVE  Live(q, q.rooms.joins[r]) /\ q.rooms.promise[q.rooms.joins[r]].for = r
    BY DEF PendingKnown
  <2>1. q.rooms.joins[r] = p.rooms.joins[r] /\ p.rooms.joins[r] \in Calls
    BY DEF Similar, Good, Providers, Refs
  <2>2. Live(p, p.rooms.joins[r]) /\ p.rooms.promise[p.rooms.joins[r]].for = r
    BY <2>1 DEF Good, PendingKnown
  <2> QED  BY <1>1, <2>1, <2>2 DEF Similar, Live
<1>12. Extends(p, q)
  BY DEF Similar, Extends
<1> QED
  BY <1>7, <1>8, <1>9, <1>10, <1>11, <1>12 DEF Good

\* Canceling a bridge leaves everything but its waiters.
LEMMA CancelKeeps ==
  ASSUME NEW p, NEW answers, NEW bridge \in Rooms, NEW mounted, Good(p, answers), GoneCanceled(p, mounted)
  PROVE  /\ Good(Cancel(p, bridge), answers)
         /\ GoneCanceled(Cancel(p, bridge), mounted \ {bridge})
         /\ Extends(p, Cancel(p, bridge)) /\ Similar(p, Cancel(p, bridge))
         /\ Cancel(p, bridge).out = p.out
         /\ Cancel(p, bridge).rooms.joined = p.rooms.joined
         /\ Cancel(p, bridge).rooms.joins = p.rooms.joins
         /\ \A c \in Calls : p.rooms.promise[c] = Free => Cancel(p, bridge).rooms.promise[c] = Free
<1> DEFINE q == Cancel(p, bridge)
           pr(c) == p.rooms.promise[c]
           qr(c) == q.rooms.promise[c]
<1>1. /\ q.out = p.out /\ q.on = p.on /\ q.flaws = p.flaws
      /\ q.rooms.joined = p.rooms.joined /\ q.rooms.joins = p.rooms.joins
      /\ DOMAIN q.rooms.promise = Calls
  BY DEF Cancel, Good, Providers, Refs
<1>2. \A c \in Calls : pr(c) = Free => qr(c) = Free
  BY DEF Cancel, CanceledBy, Good, Providers, Refs
<1>3. ASSUME NEW c \in Calls, pr(c) # Free
      PROVE  /\ qr(c) # Free
             /\ qr(c) \in Promises
             /\ qr(c).for = pr(c).for /\ qr(c).on = pr(c).on
             /\ Len(qr(c).waiters) = Len(pr(c).waiters)
             /\ \A i \in 1 .. Len(pr(c).waiters) :
                  /\ qr(c).waiters[i].bridge = pr(c).waiters[i].bridge
                  /\ qr(c).waiters[i].canceled <=>
                       (pr(c).waiters[i].bridge = bridge \/ pr(c).waiters[i].canceled)
  <2>1. pr(c) \in Promises
    BY <1>3 DEF Good, Providers, Refs
  <2> DEFINE ws == pr(c).waiters
             vs == [i \in DOMAIN ws |-> [ws[i] EXCEPT !.canceled = @ \/ ws[i].bridge = bridge]]
  <2>2. qr(c) = [pr(c) EXCEPT !.waiters = vs]
    BY <1>3 DEF Cancel, CanceledBy, Good, Providers, Refs
  <2>3. ws \in Seq(Waiters) /\ DOMAIN ws = 1 .. Len(ws) /\ Len(ws) \in Nat
    BY <2>1 DEF Promises
  <2>4. \A i \in 1 .. Len(ws) : ws[i] \in Waiters
    BY <2>3
  <2>5. \A i \in 1 .. Len(ws) : /\ vs[i] \in Waiters
                                /\ vs[i].bridge = ws[i].bridge
                                /\ vs[i].canceled <=> (ws[i].bridge = bridge \/ ws[i].canceled)
    BY <2>3, <2>4 DEF Waiters
  <2>6. vs \in Seq(Waiters) /\ Len(vs) = Len(ws)
    <3>1. vs \in [1 .. Len(ws) -> Waiters]
      BY <2>3, <2>5
    <3> QED  BY SMTT(40), <2>3, <3>1
  <2>7. qr(c).waiters = vs /\ qr(c).for = pr(c).for /\ qr(c).on = pr(c).on /\ qr(c) \in Promises
    BY <2>1, <2>2, <2>6 DEF Promises
  <2>8. qr(c) # Free
    BY SMTT(40), <2>7 DEF Promises, Free, Rooms
  <2>9. Len(qr(c).waiters) = Len(pr(c).waiters)
    BY <2>6, <2>7
  <2>10. \A i \in 1 .. Len(pr(c).waiters) :
           /\ qr(c).waiters[i].bridge = pr(c).waiters[i].bridge
           /\ qr(c).waiters[i].canceled <=> (pr(c).waiters[i].bridge = bridge \/ pr(c).waiters[i].canceled)
    BY ZenonT(60), <2>5, <2>7
  <2> QED
    BY <2>7, <2>8, <2>9, <2>10
<1>4. q \in Providers
  <2>1. q.rooms.promise = [c \in Calls |-> qr(c)]
    BY DEF Cancel, Good, Providers, Refs
  <2>2. \A c \in Calls : qr(c) \in {Free} \cup Promises
    BY <1>2, <1>3
  <2>3. q.rooms.promise \in [Calls -> {Free} \cup Promises]
    BY <2>1, <2>2
  <2> QED
    BY <1>1, <2>3 DEF Cancel, Good, Providers, Refs
<1>5. Similar(p, q)
  <2>1. Len(p.out) \in Nat
    BY DEF Good, Providers
  <2> QED
    BY <1>1, <1>2, <1>3, <2>1 DEF Similar
<1>6. Awaited(q)
  <2> SUFFICES ASSUME NEW c \in Calls, qr(c) # Free
               PROVE  /\ qr(c).waiters # <<>>
                      /\ qr(c).for = "ticket" =>
                           \A i \in 1 .. Len(qr(c).waiters) : qr(c).waiters[i].bridge = "ticket"
                      /\ qr(c).for = "org" /\ "alone" \notin q.flaws =>
                           \E i \in 1 .. Len(qr(c).waiters) : qr(c).waiters[i].bridge = "org"
    BY DEF Awaited
  <2>1. pr(c) # Free
    BY <1>2
  <2>2. /\ pr(c).waiters # <<>>
        /\ pr(c).for = "ticket" => \A i \in 1 .. Len(pr(c).waiters) : pr(c).waiters[i].bridge = "ticket"
        /\ pr(c).for = "org" /\ "alone" \notin p.flaws =>
             \E i \in 1 .. Len(pr(c).waiters) : pr(c).waiters[i].bridge = "org"
    BY <2>1 DEF Good, Awaited
  <2>3. pr(c) \in Promises /\ qr(c) \in Promises
    BY <1>3, <2>1 DEF Good, Providers, Refs
  <2>4. pr(c).waiters \in Seq(Waiters) /\ qr(c).waiters \in Seq(Waiters)
    BY <2>3 DEF Promises
  <2>5. Len(pr(c).waiters) # 0
    BY <2>2, <2>4
  <2>6. qr(c).waiters # <<>>
    BY <1>3, <2>1, <2>4, <2>5
  <2>7. /\ qr(c).for = pr(c).for
        /\ Len(qr(c).waiters) = Len(pr(c).waiters)
        /\ \A i \in 1 .. Len(pr(c).waiters) : qr(c).waiters[i].bridge = pr(c).waiters[i].bridge
    BY <1>3, <2>1
  <2> HIDE DEF pr, qr, q
  <2> QED
    BY <1>1, <2>2, <2>6, <2>7
<1>7. GoneCanceled(q, mounted \ {bridge})
  <2> SUFFICES ASSUME NEW c \in Calls, qr(c) # Free, NEW i \in 1 .. Len(qr(c).waiters),
                      qr(c).waiters[i].bridge \notin mounted \ {bridge} \/ qr(c).on # q.on
               PROVE  qr(c).waiters[i].canceled
    BY DEF GoneCanceled
  <2>1. pr(c) # Free
    BY <1>2
  <2>2. i \in 1 .. Len(pr(c).waiters)
    BY <1>3, <2>1
  <2>3. pr(c).waiters[i].bridge \notin mounted \/ pr(c).on # p.on => pr(c).waiters[i].canceled
    BY <2>1, <2>2 DEF GoneCanceled
  <2>4. /\ qr(c).on = pr(c).on
        /\ qr(c).waiters[i].bridge = pr(c).waiters[i].bridge
        /\ qr(c).waiters[i].canceled <=> (pr(c).waiters[i].bridge = bridge \/ pr(c).waiters[i].canceled)
    BY <1>3, <2>1, <2>2
  <2> HIDE DEF pr, qr, q
  <2> QED
    BY <1>1, <2>3, <2>4
<1> QED
  BY <1>1, <1>2, <1>4, <1>5, <1>6, <1>7, SimilarKeeps

\* The elements of a sequence with one more.
LEMMA Appending ==
  ASSUME NEW S, NEW s \in Seq(S), NEW e \in S
  PROVE  /\ Append(s, e) \in Seq(S) /\ Len(Append(s, e)) = Len(s) + 1 /\ Len(s) \in Nat
         /\ \A i \in 1 .. Len(s) : Append(s, e)[i] = s[i]
         /\ Append(s, e)[Len(s) + 1] = e
         /\ \A i \in 1 .. Len(Append(s, e)) : i \in 1 .. Len(s) \/ i = Len(s) + 1
OBVIOUS

\* Leaves are sent while there is a connection.
LEMMA EmitLeave ==
  ASSUME NEW p \in Providers, NEW name \in {"org leave", "ticket leave"}
  PROVE  /\ Emit(p, name) \in Providers
         /\ Emit(p, name).rooms = p.rooms /\ Emit(p, name).on = p.on /\ Emit(p, name).flaws = p.flaws
         /\ p.on = 0 => Emit(p, name) = p
         /\ p.on # 0 => Emit(p, name).out = Append(p.out, Command(name, 0))
<1>1. Command(name, 0) \in Commands
  BY DEF Command, Commands
<1>2. Append(p.out, Command(name, 0)) \in Seq(Commands)
  BY <1>1, Appending DEF Providers
<1> QED
  BY <1>2 DEF Emit, Providers

\* A leave forgets rooms and pending joins, no promise.
LEMMA LeaveKeeps ==
  ASSUME NEW p, NEW q, NEW answers, NEW mounted, NEW leave,
         Good(p, answers), GoneCanceled(p, mounted), q \in Providers,
         q.on = p.on, q.flaws = p.flaws, q.rooms.promise = p.rooms.promise,
         \A r \in Rooms : q.rooms.joins[r] \in {0, p.rooms.joins[r]},
         leave \in Commands, leave.id = 0, q.out = p.out \/ q.out = Append(p.out, leave)
  PROVE  /\ Good(q, answers) /\ Similar(p, q) /\ Extends(p, q)
         /\ GoneCanceled(q, mounted)
<1>1. p.out \in Seq(Commands) /\ Len(p.out) \in Nat
  BY DEF Good, Providers
<1>2. /\ Len(p.out) <= Len(q.out) /\ \A i \in 1 .. Len(p.out) : q.out[i] = p.out[i]
      /\ \A i \in 1 .. Len(q.out) : i > Len(p.out) => q.out[i].id = 0
  <2>1. CASE q.out = p.out
    BY <1>1, <2>1
  <2>2. CASE q.out = Append(p.out, leave)
    BY <1>1, <2>2, Appending
  <2> QED  BY <2>1, <2>2
<1>3. Similar(p, q)
  BY <1>2 DEF Similar
<1>4. Awaited(q)
  BY DEF Good, Awaited
<1>5. Good(q, answers) /\ Extends(p, q)
  BY <1>3, <1>4, SimilarKeeps
<1>6. GoneCanceled(q, mounted)
  BY DEF GoneCanceled
<1> QED
  BY <1>3, <1>5, <1>6

\* leaveTicket.
LEMMA LeaveTicketKeeps ==
  ASSUME NEW p, NEW answers, NEW mounted, Good(p, answers), GoneCanceled(p, mounted)
  PROVE  LET q == ProviderLeaveTicket(p) IN
         /\ Good(q, answers) /\ Similar(p, q) /\ Extends(p, q)
         /\ GoneCanceled(q, mounted)
         /\ q.rooms.promise = p.rooms.promise
         /\ q.rooms.joined = p.rooms.joined \ {"ticket"}
         /\ q.rooms.joins["ticket"] = 0 /\ q.rooms.joins["org"] = p.rooms.joins["org"]
         /\ q.flaws = p.flaws
         /\ p.on = 0 => q.out = p.out
         /\ p.on # 0 => q.out = Append(p.out, Command("ticket leave", 0))
<1>1. PICK r : r = [p EXCEPT !.rooms.joined = @ \ {"ticket"}, !.rooms.joins["ticket"] = 0]
  OBVIOUS
<1>2. /\ r \in Providers /\ r.rooms.promise = p.rooms.promise
      /\ r.on = p.on /\ r.flaws = p.flaws /\ r.out = p.out
      /\ r.rooms.joined = p.rooms.joined \ {"ticket"}
      /\ r.rooms.joins["ticket"] = 0 /\ r.rooms.joins["org"] = p.rooms.joins["org"]
  BY <1>1 DEF Good, Providers, Refs, Rooms
<1>3. PICK q : q = Emit(r, "ticket leave")
  OBVIOUS
<1>4. /\ q \in Providers /\ q.rooms = r.rooms /\ q.on = p.on /\ q.flaws = p.flaws
      /\ p.on = 0 => q.out = p.out
      /\ p.on # 0 => q.out = Append(p.out, Command("ticket leave", 0))
  <2>1. /\ q \in Providers /\ q.rooms = r.rooms /\ q.on = r.on /\ q.flaws = r.flaws
        /\ r.on = 0 => q = r
        /\ r.on # 0 => q.out = Append(r.out, Command("ticket leave", 0))
    BY <1>2, <1>3, EmitLeave
  <2> QED  BY <1>2, <2>1
<1>5. PICK leave : leave = Command("ticket leave", 0)
  OBVIOUS
<1>6. leave \in Commands /\ leave.id = 0
  BY <1>5 DEF Command, Commands
<1>7. q.out = p.out \/ q.out = Append(p.out, leave)
  BY <1>4, <1>5
<1>8. \A s \in Rooms : q.rooms.joins[s] \in {0, p.rooms.joins[s]}
  BY <1>2, <1>4 DEF Rooms
<1>9. q.rooms.promise = p.rooms.promise
  BY <1>2, <1>4
<1>10. Good(q, answers) /\ Similar(p, q) /\ Extends(p, q) /\ GoneCanceled(q, mounted)
  BY <1>4, <1>6, <1>7, <1>8, <1>9, LeaveKeeps
<1>11. ProviderLeaveTicket(p) = q
  BY <1>1, <1>3 DEF ProviderLeaveTicket
<1> QED
  BY <1>2, <1>4, <1>10, <1>11

\* leaveOrganization.
LEMMA LeaveOrganizationKeeps ==
  ASSUME NEW p, NEW answers, NEW mounted, Good(p, answers), GoneCanceled(p, mounted)
  PROVE  LET q == ProviderLeaveOrganization(p) IN
         /\ Good(q, answers) /\ Similar(p, q) /\ Extends(p, q)
         /\ GoneCanceled(q, mounted)
         /\ q.rooms.promise = p.rooms.promise
         /\ q.rooms.joined = {}
         /\ q.rooms.joins["org"] = 0 /\ q.rooms.joins["ticket"] = p.rooms.joins["ticket"]
         /\ q.flaws = p.flaws
         /\ p.on = 0 => q.out = p.out
         /\ p.on # 0 => q.out = Append(p.out, Command("org leave", 0))
<1>1. PICK r : r = [p EXCEPT !.rooms.joined = {}, !.rooms.joins["org"] = 0]
  OBVIOUS
<1>2. /\ r \in Providers /\ r.rooms.promise = p.rooms.promise
      /\ r.on = p.on /\ r.flaws = p.flaws /\ r.out = p.out
      /\ r.rooms.joined = {}
      /\ r.rooms.joins["org"] = 0 /\ r.rooms.joins["ticket"] = p.rooms.joins["ticket"]
  BY <1>1 DEF Good, Providers, Refs, Rooms
<1>3. PICK q : q = Emit(r, "org leave")
  OBVIOUS
<1>4. /\ q \in Providers /\ q.rooms = r.rooms /\ q.on = p.on /\ q.flaws = p.flaws
      /\ p.on = 0 => q.out = p.out
      /\ p.on # 0 => q.out = Append(p.out, Command("org leave", 0))
  <2>1. /\ q \in Providers /\ q.rooms = r.rooms /\ q.on = r.on /\ q.flaws = r.flaws
        /\ r.on = 0 => q = r
        /\ r.on # 0 => q.out = Append(r.out, Command("org leave", 0))
    BY <1>2, <1>3, EmitLeave
  <2> QED  BY <1>2, <2>1
<1>5. PICK leave : leave = Command("org leave", 0)
  OBVIOUS
<1>6. leave \in Commands /\ leave.id = 0
  BY <1>5 DEF Command, Commands
<1>7. q.out = p.out \/ q.out = Append(p.out, leave)
  BY <1>4, <1>5
<1>8. \A s \in Rooms : q.rooms.joins[s] \in {0, p.rooms.joins[s]}
  BY <1>2, <1>4 DEF Rooms
<1>9. q.rooms.promise = p.rooms.promise
  BY <1>2, <1>4
<1>10. Good(q, answers) /\ Similar(p, q) /\ Extends(p, q) /\ GoneCanceled(q, mounted)
  BY <1>4, <1>6, <1>7, <1>8, <1>9, LeaveKeeps
<1>11. ProviderLeaveOrganization(p) = q
  BY <1>1, <1>3 DEF ProviderLeaveOrganization
<1> QED
  BY <1>2, <1>4, <1>10, <1>11

\* Numbers of calls that are free stay so.
LEMMA UnusedStay ==
  ASSUME NEW p \in Providers, NEW q \in Providers, Similar(p, q)
  PROVE  Unused(p) \subseteq Unused(q)
<1> SUFFICES ASSUME NEW c \in Unused(p) PROVE c \in Unused(q)
  OBVIOUS
<1>1. c \in Calls /\ p.rooms.promise[c] = Free /\ call[c] = Idle
  BY DEF Unused
<1>2. \A m \in Range(p.out) \cup Range(down) : m.id # c
  BY DEF Unused
<1>3. q.rooms.promise[c] = Free
  BY <1>1 DEF Similar
<1>4. c # 0
  BY <1>1, CallsAreNumbers
<1>5. ASSUME NEW m \in Range(q.out) PROVE m.id # c
  <2>1. PICK i \in DOMAIN q.out : m = q.out[i]
    BY DEF Range
  <2>2. /\ i \in 1 .. Len(q.out) /\ Len(p.out) \in Nat /\ Len(q.out) \in Nat
        /\ DOMAIN p.out = 1 .. Len(p.out)
    BY <2>1 DEF Providers
  <2>3. CASE i > Len(p.out)
    BY <1>4, <2>1, <2>2, <2>3 DEF Similar
  <2>4. CASE i <= Len(p.out)
    <3>1. i \in 1 .. Len(p.out) /\ m = p.out[i]
      BY <2>1, <2>2, <2>4 DEF Similar
    <3>2. m \in Range(p.out)
      BY <2>2, <3>1 DEF Range
    <3> QED  BY <1>2, <3>2
  <2> QED  BY <2>2, <2>3, <2>4
<1> QED
  BY <1>1, <1>2, <1>3, <1>5 DEF Unused

-----------------------------------------------------------------------------
(* Joins.                                                                   *)

\* Less-than of the natural numbers is well-founded.
Below == {p \in Nat \X Nat : p[1] < p[2]}

LEMMA NatWF == IsWellFoundedOn(Below, Nat)
BY NatLessThanWellFounded DEF OpToRel, Below

\* A set of numbers that is not empty has a least one.
LEMMA LeastNumber ==
  ASSUME NEW S \in SUBSET Nat, S # {}
  PROVE  \E m \in S : \A x \in S : m <= x
<1>1. PICK m \in S : \A y \in S : ~ (<<y, m>> \in Below)
  BY NatWF, WFMin
<1>2. \A x \in S : x \in Nat /\ m \in Nat
  OBVIOUS
<1>3. ASSUME NEW x \in S PROVE m <= x
  <2>1. x < m => <<x, m>> \in Below
    BY <1>2 DEF Below
  <2> QED
    BY <1>1, <1>2, <2>1
<1> QED
  BY <1>3

\* What EmitJoin does, with the call it takes.
EmittedAs(p, q, c, room, waiter) ==
  /\ c \in Calls /\ p.rooms.promise[c] = Free /\ call[c] = Idle
  /\ q.on = p.on /\ q.rooms.joined = p.rooms.joined
  /\ q.rooms.joins = [p.rooms.joins EXCEPT ![room] = c]
  /\ q.rooms.promise =
       [p.rooms.promise EXCEPT ![c] = [for |-> room, on |-> p.on, waiters |-> <<waiter>>]]
  /\ q.out = Append(p.out, Command(JoinCommand(room), c))
  /\ q.flaws = IF room = "org" /\ waiter.bridge = "ticket" THEN p.flaws \cup {"alone"} ELSE p.flaws

\* A join is sent under the least number that is free.
LEMMA EmitJoinIs ==
  ASSUME NEW p \in Providers, NEW room \in Rooms, NEW waiter \in Waiters, p.on # 0, Unused(p) # {}
  PROVE  /\ EmitJoin(p, room, waiter) \in Providers
         /\ \E c \in Unused(p) : EmittedAs(p, EmitJoin(p, room, waiter), c, room, waiter)
<1>1. PICK c : c = CHOOSE m \in Unused(p) : \A d \in Unused(p) : m <= d
  OBVIOUS
<1>2. Unused(p) \in SUBSET Nat
  BY CallsAreNumbers DEF Unused
<1>3. \E m \in Unused(p) : \A d \in Unused(p) : m <= d
  BY <1>2, LeastNumber
<1>4. c \in Unused(p)
  BY <1>1, <1>3
<1>5. c \in Calls /\ p.rooms.promise[c] = Free /\ call[c] = Idle
  BY <1>4 DEF Unused
<1>6. PICK pr : pr = [for |-> room, on |-> p.on, waiters |-> <<waiter>>]
  OBVIOUS
<1>7. PICK m : m = Command(JoinCommand(room), c)
  OBVIOUS
<1>8. EmitJoin(p, room, waiter) =
        [p EXCEPT
           !.rooms.joins[room] = c,
           !.rooms.promise[c] = pr,
           !.out = Append(@, m),
           !.flaws = IF room = "org" /\ waiter.bridge = "ticket" THEN @ \cup {"alone"} ELSE @]
  BY <1>1, <1>6, <1>7 DEF EmitJoin
<1>9. pr \in Promises
  BY <1>6 DEF Promises, Providers
<1>10. m \in Commands
  BY <1>5, <1>7 DEF Commands, Command, JoinCommand
<1>11. Append(p.out, m) \in Seq(Commands)
  BY <1>10, Appending DEF Providers
<1>12. PICK q : q = EmitJoin(p, room, waiter)
  OBVIOUS
<1>13. PICK js : js = [p.rooms.joins EXCEPT ![room] = c]
  OBVIOUS
<1>14. PICK ps : ps = [p.rooms.promise EXCEPT ![c] = pr]
  OBVIOUS
<1>15. PICK fl : fl = IF room = "org" /\ waiter.bridge = "ticket" THEN p.flaws \cup {"alone"} ELSE p.flaws
  OBVIOUS
<1>16. PICK os : os = Append(p.out, m)
  OBVIOUS
<1>17. /\ js \in [Rooms -> {0} \cup Calls] /\ ps \in [Calls -> {Free} \cup Promises]
       /\ fl \in SUBSET Flaws /\ os \in Seq(Commands)
  BY <1>5, <1>9, <1>11, <1>13, <1>14, <1>15, <1>16 DEF Providers, Refs, Flaws
<1>18. q = [p EXCEPT !.rooms.joins = js, !.rooms.promise = ps, !.out = os, !.flaws = fl]
  <2>1. q = [p EXCEPT !.rooms.joins[room] = c, !.rooms.promise[c] = pr, !.out = os, !.flaws = fl]
    BY <1>8, <1>12, <1>15, <1>16
  <2> QED  BY <1>13, <1>14, <2>1
<1>19. /\ q.on = p.on /\ q.out = os /\ q.flaws = fl /\ q.rooms.joined = p.rooms.joined
       /\ q.rooms.joins = js /\ q.rooms.promise = ps
       /\ q \in Providers
  BY <1>17, <1>18 DEF Providers, Refs
<1>20. EmittedAs(p, q, c, room, waiter)
  BY <1>5, <1>6, <1>7, <1>13, <1>14, <1>15, <1>16, <1>19 DEF EmittedAs
<1> QED
  BY <1>4, <1>12, <1>19, <1>20

\* No answer is one of these calls'.
NoneOf(answers, cs) == \A i \in 1 .. Len(answers) : answers[i].id \notin cs

\* Sending a join.
LEMMA EmitJoinKeeps ==
  ASSUME NEW p, NEW answers, NEW mounted, NEW room \in Rooms, NEW waiter \in Waiters,
         Good(p, answers), GoneCanceled(p, mounted), NoneOf(answers, Unused(p)),
         p.on # 0, Unused(p) # {}, room = "ticket" => waiter.bridge = "ticket",
         waiter.bridge \in mounted \/ waiter.canceled
  PROVE  LET q == EmitJoin(p, room, waiter) IN
         /\ Good(q, answers) /\ Extends(p, q) /\ GoneCanceled(q, mounted)
         /\ \E c \in Unused(p) : EmittedAs(p, q, c, room, waiter)
<1>1. p \in Providers
  BY DEF Good
<1>2. PICK q : q = EmitJoin(p, room, waiter)
  OBVIOUS
<1>3. q \in Providers /\ \E c \in Unused(p) : EmittedAs(p, q, c, room, waiter)
  BY <1>1, <1>2, EmitJoinIs
<1>4. PICK c \in Unused(p) : EmittedAs(p, q, c, room, waiter)
  BY <1>3
<1>5. /\ c \in Calls /\ c # 0 /\ p.rooms.promise[c] = Free /\ call[c] = Idle
      /\ q.on = p.on /\ p.flaws \subseteq q.flaws
  BY <1>4, CallsAreNumbers DEF EmittedAs
<1>6. PICK pr : pr = [for |-> room, on |-> p.on, waiters |-> <<waiter>>]
  OBVIOUS
<1>7. /\ q.rooms.promise = [p.rooms.promise EXCEPT ![c] = pr]
      /\ pr.for = room /\ pr.on = p.on /\ pr.waiters = <<waiter>>
  BY <1>4, <1>6 DEF EmittedAs
<1>8. pr # Free
  BY <1>7 DEF Free, Rooms
<1>9. /\ q.rooms.promise[c] = pr
      /\ \A d \in Calls : d # c => q.rooms.promise[d] = p.rooms.promise[d]
      /\ \A d \in Calls : p.rooms.promise[d] # Free => d # c
  BY <1>1, <1>5, <1>7 DEF Providers, Refs
<1>10. PICK m : m = Command(JoinCommand(room), c)
  OBVIOUS
<1>11. m.name = JoinCommand(room) /\ m.id = c /\ m \in Commands
  BY <1>5, <1>10 DEF Command, Commands, JoinCommand
<1>12. q.out = Append(p.out, m) /\ p.out \in Seq(Commands) /\ Len(p.out) \in Nat
  BY <1>1, <1>4, <1>10 DEF EmittedAs, Providers
<1>13. /\ Len(q.out) = Len(p.out) + 1
       /\ \A i \in 1 .. Len(p.out) : q.out[i] = p.out[i]
       /\ q.out[Len(p.out) + 1] = m
       /\ \A i \in 1 .. Len(q.out) : i \in 1 .. Len(p.out) \/ i = Len(p.out) + 1
  BY <1>11, <1>12, Appending
<1>14. /\ Live(q, c)
       /\ \A d \in Calls : d # c => (Live(q, d) <=> Live(p, d))
       /\ \A d \in Calls : Live(p, d) => d # c
  BY <1>5, <1>7, <1>8, <1>9 DEF Live
<1>15. \A i \in 1 .. Len(p.out) : p.out[i].id # 0 =>
         /\ p.out[i].id \in Calls
         /\ Live(p, p.out[i].id)
         /\ p.out[i].name = JoinCommand(p.rooms.promise[p.out[i].id].for)
         /\ call[p.out[i].id] = Idle
         /\ \A k \in 1 .. Len(p.out) : p.out[k].id = p.out[i].id => k = i
         /\ \A k \in 1 .. Len(answers) : answers[k].id # p.out[i].id
  <2>1. \A i \in 1 .. Len(p.out) : p.out[i] \in Commands
    BY <1>12
  <2>2. \A i \in 1 .. Len(p.out) : p.out[i].id # 0 => p.out[i].id \in Calls
    BY <2>1 DEF Commands
  <2> QED  BY <2>2 DEF Good, SentOnce
<1>16. \A i \in 1 .. Len(p.out) : p.out[i].id # c
  BY <1>5, <1>14, <1>15
<1>17. \A i \in 1 .. Len(answers) : answers[i].id # c
  BY <1>4 DEF NoneOf
<1>18. SentOnce(q, answers)
  <2> SUFFICES ASSUME NEW i \in 1 .. Len(q.out), q.out[i].id # 0
               PROVE  /\ Live(q, q.out[i].id)
                      /\ q.out[i].name = JoinCommand(q.rooms.promise[q.out[i].id].for)
                      /\ call[q.out[i].id] = Idle
                      /\ \A k \in 1 .. Len(q.out) : q.out[k].id = q.out[i].id => k = i
                      /\ \A k \in 1 .. Len(answers) : answers[k].id # q.out[i].id
    BY DEF SentOnce
  <2>1. CASE i = Len(p.out) + 1
    <3>1. q.out[i] = m /\ m.id = c /\ m.name = JoinCommand(room)
      BY <1>11, <1>13, <2>1
    <3>2. \A k \in 1 .. Len(q.out) : q.out[k].id = c => k = i
      BY <1>13, <1>16, <2>1
    <3> QED
      BY <1>5, <1>7, <1>9, <1>14, <1>17, <3>1, <3>2
  <2>2. CASE i \in 1 .. Len(p.out)
    <3>1. /\ q.out[i] = p.out[i] /\ p.out[i].id \in Calls /\ p.out[i].id # c
          /\ Live(p, p.out[i].id)
          /\ p.out[i].name = JoinCommand(p.rooms.promise[p.out[i].id].for)
          /\ call[p.out[i].id] = Idle
          /\ \A k \in 1 .. Len(p.out) : p.out[k].id = p.out[i].id => k = i
          /\ \A k \in 1 .. Len(answers) : answers[k].id # p.out[i].id
      BY <1>13, <1>15, <1>16, <2>2
    <3>2. Live(q, p.out[i].id) /\ q.rooms.promise[p.out[i].id] = p.rooms.promise[p.out[i].id]
      BY <1>9, <1>14, <3>1
    <3>3. ASSUME NEW k \in 1 .. Len(q.out), q.out[k].id = p.out[i].id PROVE k = i
      <4>1. k \in 1 .. Len(p.out)
        BY <1>11, <1>13, <3>1, <3>3
      <4> QED  BY <1>13, <3>1, <3>3, <4>1
    <3> QED
      BY <3>1, <3>2, <3>3
  <2> QED
    BY <1>13, <2>1, <2>2
<1>19. AnsweredOnce(q, answers)
  <2>1. answers \in Seq(Answers)
    BY DEF Good
  <2>2. \A i \in 1 .. Len(answers) : answers[i] \in Answers
    BY <2>1
  <2>3. \A i \in 1 .. Len(answers) : answers[i].id # 0 => answers[i].id \in Calls
    BY <2>2 DEF Answers
  <2> QED
    BY <1>14, <1>17, <2>3 DEF Good, AnsweredOnce
<1>20. Handled(q)
  BY <1>5, <1>9, <1>14 DEF Good, Handled
<1>21. NotLost(q, answers)
  <2> SUFFICES ASSUME NEW d \in Calls, Live(q, d)
               PROVE  \/ \E i \in 1 .. Len(q.out) : q.out[i].id = d
                      \/ \E i \in 1 .. Len(answers) : answers[i].id = d
                      \/ call[d] # Idle /\ call[d].socket = q.on
    BY DEF NotLost
  <2>1. CASE d = c
    <3>1. Len(p.out) + 1 \in 1 .. Len(q.out)
      BY <1>12, <1>13
    <3> QED  BY <1>11, <1>13, <2>1, <3>1
  <2>2. CASE d # c
    <3>1. \/ \E i \in 1 .. Len(p.out) : p.out[i].id = d
          \/ \E i \in 1 .. Len(answers) : answers[i].id = d
          \/ call[d] # Idle /\ call[d].socket = p.on
      BY <1>14, <2>2 DEF Good, NotLost
    <3>2. \A i \in 1 .. Len(p.out) : i \in 1 .. Len(q.out) /\ q.out[i] = p.out[i]
      BY <1>12, <1>13
    <3> QED  BY <1>5, <3>1, <3>2
  <2> QED  BY <2>1, <2>2
<1>22. PendingKnown(q)
  <2> SUFFICES ASSUME NEW r \in Rooms, q.rooms.joins[r] # 0
               PROVE  Live(q, q.rooms.joins[r]) /\ q.rooms.promise[q.rooms.joins[r]].for = r
    BY DEF PendingKnown
  <2>1. CASE r = room
    BY <1>1, <1>4, <1>7, <1>9, <1>14, <2>1 DEF EmittedAs, Providers, Refs
  <2>2. CASE r # room
    <3>1. q.rooms.joins[r] = p.rooms.joins[r] /\ p.rooms.joins[r] \in Calls
      BY <1>1, <1>4, <2>2 DEF EmittedAs, Providers, Refs
    <3>2. Live(p, p.rooms.joins[r]) /\ p.rooms.promise[p.rooms.joins[r]].for = r
      BY <3>1 DEF Good, PendingKnown
    <3> QED  BY <1>9, <1>14, <3>1, <3>2
  <2> QED  BY <2>1, <2>2
<1>23. <<waiter>> # <<>> /\ Len(<<waiter>>) = 1 /\ <<waiter>>[1] = waiter
  OBVIOUS
<1>24. Awaited(q)
  <2> SUFFICES ASSUME NEW d \in Calls, q.rooms.promise[d] # Free
               PROVE  LET ws == q.rooms.promise[d].waiters IN
                      /\ ws # <<>>
                      /\ q.rooms.promise[d].for = "ticket" => \A i \in 1 .. Len(ws) : ws[i].bridge = "ticket"
                      /\ q.rooms.promise[d].for = "org" /\ "alone" \notin q.flaws =>
                           \E i \in 1 .. Len(ws) : ws[i].bridge = "org"
    BY DEF Awaited
  <2>1. CASE d = c
    <3>1. room = "org" /\ "alone" \notin q.flaws => waiter.bridge = "org"
      BY <1>4 DEF EmittedAs, Waiters, Rooms
    <3>2. q.rooms.promise[d] = pr
      BY <1>9, <2>1
    <3>3. \A i \in 1 .. Len(<<waiter>>) : <<waiter>>[i] = waiter
      BY <1>23
    <3>4. 1 \in 1 .. Len(<<waiter>>)
      BY <1>23
    <3>5. PICK ws : ws = <<waiter>>
      OBVIOUS
    <3>6. ws # <<>> /\ 1 \in 1 .. Len(ws) /\ \A i \in 1 .. Len(ws) : ws[i] = waiter
      BY <1>23, <3>3, <3>4, <3>5
    <3>7. q.rooms.promise[d].waiters = ws /\ q.rooms.promise[d].for = room
      BY <1>7, <3>2, <3>5
    <3> QED  BY <3>1, <3>6, <3>7
  <2>2. CASE d # c
    <3>1. q.rooms.promise[d] = p.rooms.promise[d]
      BY <1>9, <2>2
    <3>2. "alone" \notin q.flaws => "alone" \notin p.flaws
      BY <1>5
    <3> QED  BY <3>1, <3>2 DEF Good, Awaited
  <2> QED  BY <2>1, <2>2
<1>25. GoneCanceled(q, mounted)
  <2> SUFFICES ASSUME NEW d \in Calls, q.rooms.promise[d] # Free,
                      NEW i \in 1 .. Len(q.rooms.promise[d].waiters),
                      \/ q.rooms.promise[d].waiters[i].bridge \notin mounted
                      \/ q.rooms.promise[d].on # q.on
               PROVE  q.rooms.promise[d].waiters[i].canceled
    BY DEF GoneCanceled
  <2>1. CASE d = c
    <3>1. q.rooms.promise[d].waiters = <<waiter>> /\ q.rooms.promise[d].on = q.on
      BY <1>5, <1>7, <1>9, <2>1
    <3>2. i = 1 /\ q.rooms.promise[d].waiters[i] = waiter
      BY <1>23, <3>1
    <3> QED  BY <3>1, <3>2
  <2>2. CASE d # c
    <3>1. q.rooms.promise[d] = p.rooms.promise[d]
      BY <1>9, <2>2
    <3> QED  BY <1>5, <3>1 DEF GoneCanceled
  <2> QED  BY <2>1, <2>2
<1>26. Extends(p, q)
  BY <1>5, <1>9, <1>12, <1>13, <1>14 DEF Extends, Live
<1>27. Good(q, answers)
  BY <1>3, <1>18, <1>19, <1>20, <1>21, <1>22, <1>24 DEF Good
<1> QED
  BY <1>2, <1>4, <1>25, <1>26, <1>27

\* Waiting for a join that is pending.
LEMMA AwaitingKeeps ==
  ASSUME NEW p, NEW answers, NEW mounted, NEW room \in Rooms, NEW waiter \in Waiters,
         Good(p, answers), GoneCanceled(p, mounted),
         p.rooms.joins[room] # 0, room = "ticket" => waiter.bridge = "ticket",
         waiter.bridge \in mounted \/ waiter.canceled
  PROVE  LET q == AwaitJoin(p, room, waiter) IN
         /\ Good(q, answers) /\ Similar(p, q) /\ Extends(p, q) /\ GoneCanceled(q, mounted)
         /\ q.rooms.joined = p.rooms.joined /\ q.rooms.joins = p.rooms.joins
<1> DEFINE q == AwaitJoin(p, room, waiter)
<1>1. PICK c : c = p.rooms.joins[room]
  OBVIOUS
<1>2. p \in Providers /\ c \in Calls
  BY <1>1 DEF Good, Providers, Refs
<1>3. Live(p, c) /\ p.rooms.promise[c].for = room
  BY <1>1 DEF Good, PendingKnown
<1>4. PICK pr : pr = p.rooms.promise[c]
  OBVIOUS
<1>5. pr \in Promises /\ pr # Free /\ pr.for = room /\ pr.on = p.on
  BY <1>2, <1>3, <1>4 DEF Live, Providers, Refs
<1>6. PICK ws : ws = pr.waiters
  OBVIOUS
<1>7. ws \in Seq(Waiters)
  BY <1>5, <1>6 DEF Promises
<1>8. PICK vs : vs = Append(ws, waiter)
  OBVIOUS
<1>9. /\ vs \in Seq(Waiters) /\ Len(vs) = Len(ws) + 1 /\ Len(ws) \in Nat
      /\ \A i \in 1 .. Len(ws) : vs[i] = ws[i]
      /\ vs[Len(ws) + 1] = waiter
      /\ \A i \in 1 .. Len(vs) : i \in 1 .. Len(ws) \/ i = Len(ws) + 1
  BY <1>7, <1>8, Appending
<1>10. PICK nr : nr = [pr EXCEPT !.waiters = vs]
  OBVIOUS
<1>11. nr \in Promises /\ nr.for = room /\ nr.on = p.on /\ nr.waiters = vs
  BY <1>5, <1>9, <1>10 DEF Promises
<1>12. nr # Free
  BY <1>11 DEF Free, Rooms
<1>13. PICK ps : ps = [p.rooms.promise EXCEPT ![c] = nr]
  OBVIOUS
<1>14. /\ ps \in [Calls -> {Free} \cup Promises]
       /\ ps[c] = nr /\ \A d \in Calls : d # c => ps[d] = p.rooms.promise[d]
  BY <1>2, <1>11, <1>13 DEF Providers, Refs
<1>15. q = [p EXCEPT !.rooms.promise = ps]
  BY <1>1, <1>4, <1>6, <1>8, <1>10, <1>13 DEF AwaitJoin
<1>16. /\ q \in Providers /\ q.on = p.on /\ q.out = p.out /\ q.flaws = p.flaws
       /\ q.rooms.joined = p.rooms.joined /\ q.rooms.joins = p.rooms.joins /\ q.rooms.promise = ps
  BY ZenonT(60), <1>2, <1>14, <1>15 DEF Providers, Refs
<1> HIDE DEF q
<1>17. \A d \in Calls :
         /\ p.rooms.promise[d] = Free <=> q.rooms.promise[d] = Free
         /\ p.rooms.promise[d] # Free =>
              /\ q.rooms.promise[d].for = p.rooms.promise[d].for
              /\ q.rooms.promise[d].on = p.rooms.promise[d].on
  BY <1>4, <1>5, <1>11, <1>12, <1>14, <1>16
<1>18. Similar(p, q)
  <2>1. p.out \in Seq(Commands) /\ Len(p.out) \in Nat
    BY <1>2 DEF Providers
  <2> QED
    BY <1>16, <1>17, <2>1 DEF Similar
<1>19. vs # <<>>
  BY <1>9
<1>20. Awaited(q)
  <2> SUFFICES ASSUME NEW d \in Calls, q.rooms.promise[d] # Free
               PROVE  LET us == q.rooms.promise[d].waiters IN
                      /\ us # <<>>
                      /\ q.rooms.promise[d].for = "ticket" => \A i \in 1 .. Len(us) : us[i].bridge = "ticket"
                      /\ q.rooms.promise[d].for = "org" /\ "alone" \notin q.flaws =>
                           \E i \in 1 .. Len(us) : us[i].bridge = "org"
    BY DEF Awaited
  <2>1. CASE d = c
    <3>1. /\ room = "ticket" => \A i \in 1 .. Len(ws) : ws[i].bridge = "ticket"
          /\ room = "org" /\ "alone" \notin p.flaws => \E i \in 1 .. Len(ws) : ws[i].bridge = "org"
      BY <1>2, <1>4, <1>5, <1>6 DEF Good, Awaited
    <3>2. \A i \in 1 .. Len(ws) : i \in 1 .. Len(vs)
      BY <1>9
    <3>3. q.rooms.promise[d].waiters = vs /\ q.rooms.promise[d].for = room
      BY <1>11, <1>14, <1>16, <2>1
    <3>4. room = "ticket" => \A i \in 1 .. Len(vs) : vs[i].bridge = "ticket"
      BY <1>9, <3>1
    <3>5. room = "org" /\ "alone" \notin q.flaws => \E i \in 1 .. Len(vs) : vs[i].bridge = "org"
      BY <1>9, <1>16, <3>1, <3>2
    <3> QED
      BY <1>19, <3>3, <3>4, <3>5
  <2>2. CASE d # c
    <3>1. q.rooms.promise[d] = p.rooms.promise[d]
      BY <1>14, <1>16, <2>2
    <3> QED  BY <1>16, <3>1 DEF Good, Awaited
  <2> QED  BY <2>1, <2>2
<1>21. Good(q, answers) /\ Extends(p, q)
  BY <1>16, <1>18, <1>20, SimilarKeeps
<1>22. GoneCanceled(q, mounted)
  <2> SUFFICES ASSUME NEW d \in Calls, q.rooms.promise[d] # Free,
                      NEW i \in 1 .. Len(q.rooms.promise[d].waiters),
                      \/ q.rooms.promise[d].waiters[i].bridge \notin mounted
                      \/ q.rooms.promise[d].on # q.on
               PROVE  q.rooms.promise[d].waiters[i].canceled
    BY DEF GoneCanceled
  <2>1. CASE d = c
    <3>1. q.rooms.promise[d].waiters = vs /\ q.rooms.promise[d].on = q.on
      BY <1>11, <1>14, <1>16, <2>1
    <3>2. CASE i = Len(ws) + 1
      BY <1>9, <3>1, <3>2
    <3>3. CASE i \in 1 .. Len(ws)
      <4>1. vs[i] = ws[i] /\ vs[i].bridge \notin mounted
        BY <1>9, <3>1, <3>3
      <4>2. ws[i].bridge \notin mounted => ws[i].canceled
        BY <1>2, <1>4, <1>5, <1>6, <3>3 DEF GoneCanceled
      <4> QED  BY <3>1, <4>1, <4>2
    <3> QED  BY <1>9, <3>1, <3>2, <3>3
  <2>2. CASE d # c
    <3>1. q.rooms.promise[d] = p.rooms.promise[d]
      BY <1>14, <1>16, <2>2
    <3> QED  BY <1>16, <3>1 DEF GoneCanceled
  <2> QED  BY <2>1, <2>2
<1> QED
  BY <1>1, <1>4, <1>6, <1>8, <1>11, <1>14, <1>16, <1>18, <1>21, <1>22 DEF q

\* joinOrganization, and joinTicket after its first await.
LEMMA JoinRoomKeeps ==
  ASSUME NEW p, NEW answers, NEW mounted, NEW room \in Rooms, NEW waiter \in Waiters,
         Good(p, answers), GoneCanceled(p, mounted), p.on # 0,
         room = "ticket" => waiter.bridge = "ticket",
         waiter.bridge \in mounted \/ waiter.canceled,
         \/ room \in p.rooms.joined \/ p.rooms.joins[room] # 0
         \/ Unused(p) # {} /\ NoneOf(answers, Unused(p))
  PROVE  LET q == JoinRoom(p, room, waiter) IN
         /\ Good(q, answers) /\ Extends(p, q) /\ GoneCanceled(q, mounted)
         /\ q.rooms.joined = p.rooms.joined
         /\ \A r \in Rooms : p.rooms.joins[r] # 0 => q.rooms.joins[r] # 0
         /\ room \in q.rooms.joined \/ q.rooms.joins[room] # 0
         /\ room \in p.rooms.joined \/ p.rooms.joins[room] # 0 => Similar(p, q)
<1>1. p \in Providers
  BY DEF Good
<1>2. CASE room \in p.rooms.joined
  <2>1. JoinRoom(p, room, waiter) = p
    BY <1>2 DEF JoinRoom
  <2>2. Similar(p, p)
    BY <1>1 DEF Similar, Providers, Refs
  <2>3. Extends(p, p)
    BY <1>1 DEF Extends, Providers
  <2> QED  BY <1>2, <2>1, <2>2, <2>3
<1>3. CASE room \notin p.rooms.joined /\ p.rooms.joins[room] # 0
  <2>1. PICK q : q = AwaitJoin(p, room, waiter)
    OBVIOUS
  <2>2. JoinRoom(p, room, waiter) = q
    BY <1>3, <2>1 DEF JoinRoom
  <2>3. /\ Good(q, answers) /\ Similar(p, q) /\ Extends(p, q) /\ GoneCanceled(q, mounted)
        /\ q.rooms.joined = p.rooms.joined /\ q.rooms.joins = p.rooms.joins
    <3>1. p.rooms.joins[room] # 0
      BY <1>3
    <3>2. /\ Good(AwaitJoin(p, room, waiter), answers) /\ Similar(p, AwaitJoin(p, room, waiter))
          /\ Extends(p, AwaitJoin(p, room, waiter)) /\ GoneCanceled(AwaitJoin(p, room, waiter), mounted)
          /\ AwaitJoin(p, room, waiter).rooms.joined = p.rooms.joined
          /\ AwaitJoin(p, room, waiter).rooms.joins = p.rooms.joins
      BY <3>1, AwaitingKeeps
    <3> QED  BY <2>1, <3>2
  <2> QED  BY <1>3, <2>2, <2>3
<1>4. CASE room \notin p.rooms.joined /\ p.rooms.joins[room] = 0
  <2>1. JoinRoom(p, room, waiter) = EmitJoin(p, room, waiter)
    BY <1>4 DEF JoinRoom
  <2>2. PICK q : q = EmitJoin(p, room, waiter)
    OBVIOUS
  <2>3. /\ Good(q, answers) /\ Extends(p, q) /\ GoneCanceled(q, mounted)
        /\ \E c \in Unused(p) : EmittedAs(p, q, c, room, waiter)
    BY <1>4, <2>2, EmitJoinKeeps
  <2>4. PICK c : c \in Calls /\ EmittedAs(p, q, c, room, waiter)
    BY <2>3 DEF EmittedAs
  <2>5. q.rooms.joined = p.rooms.joined /\ q.rooms.joins = [p.rooms.joins EXCEPT ![room] = c] /\ c # 0
    BY <2>4, CallsAreNumbers DEF EmittedAs
  <2>6. p.rooms.joins \in [Rooms -> {0} \cup Calls]
    BY <1>1 DEF Providers, Refs
  <2> QED  BY <1>4, <2>1, <2>2, <2>3, <2>5, <2>6
<1> QED
  BY <1>2, <1>3, <1>4

-----------------------------------------------------------------------------
(* The waiters of a join go on.                                             *)

\* No answer in transit is for a number that is free.
LEMMA UnusedAreNotAnswered ==
  ASSUME NEW p, NEW answers, Good(p, answers)
  PROVE  NoneOf(answers, Unused(p))
<1> SUFFICES ASSUME NEW i \in 1 .. Len(answers), answers[i].id \in Unused(p) PROVE FALSE
  BY DEF NoneOf
<1>1. answers[i].id \in Calls /\ p.rooms.promise[answers[i].id] = Free
  BY DEF Unused
<1>2. answers[i].id # 0
  BY <1>1, CallsAreNumbers
<1>3. Live(p, answers[i].id)
  BY <1>2 DEF Good, AnsweredOnce
<1> QED
  BY <1>1, <1>3 DEF Live

\* A leave of the room is in transit.
LeaveCommand(room) == IF room = "org" THEN "org leave" ELSE "ticket leave"

LeaveIn(out, room) == \E i \in 1 .. Len(out) : out[i].name = LeaveCommand(room)

\* The leave that was sent last.
LEMMA LeaveAppended ==
  ASSUME NEW out \in Seq(Commands), NEW room \in Rooms
  PROVE  LeaveIn(Append(out, Command(LeaveCommand(room), 0)), room)
<1>1. PICK m : m = Command(LeaveCommand(room), 0)
  OBVIOUS
<1>2. m \in Commands /\ m.name = LeaveCommand(room)
  BY <1>1 DEF Command, Commands, LeaveCommand
<1>3. /\ Len(Append(out, m)) = Len(out) + 1 /\ Len(out) \in Nat
      /\ Append(out, m)[Len(out) + 1] = m
  BY <1>2, Appending
<1>4. Len(out) + 1 \in 1 .. Len(Append(out, m))
  BY <1>3
<1> QED
  BY <1>1, <1>2, <1>3, <1>4 DEF LeaveIn

\* A step of the provider can still join the ticket's room.
CanJoin(p) == p.rooms.joins["ticket"] # 0 \/ Unused(p) # {}

\* What goes on after an awaited join: one that was canceled leaves again.
LEMMA ResumeKeeps ==
  ASSUME NEW p, NEW answers, NEW mounted, NEW room \in Rooms, NEW waiter \in Waiters,
         Good(p, answers), GoneCanceled(p, mounted), p.on # 0,
         room = "ticket" => waiter.bridge = "ticket",
         waiter.bridge \in mounted \/ waiter.canceled,
         room = "org" => CanJoin(p)
  PROVE  LET q == Resume(p, room, waiter) IN
         /\ Good(q, answers) /\ Extends(p, q) /\ GoneCanceled(q, mounted)
         /\ room = "org" => CanJoin(q)
         /\ waiter.canceled /\ waiter.bridge = room => LeaveIn(q.out, room)
<1>1. p \in Providers
  BY DEF Good
<1>2. CASE room = "org" /\ waiter.bridge = "ticket"
  <2>1. PICK r : r = "ticket"
    OBVIOUS
  <2>2. r \in Rooms /\ (r = "ticket" => waiter.bridge = "ticket")
    BY <1>2, <2>1 DEF Rooms
  <2>3. \/ r \in p.rooms.joined \/ p.rooms.joins[r] # 0
        \/ Unused(p) # {} /\ NoneOf(answers, Unused(p))
    BY <1>2, <2>1, UnusedAreNotAnswered DEF CanJoin
  <2>4. PICK q : q = JoinRoom(p, r, waiter)
    OBVIOUS
  <2>5. /\ Good(q, answers) /\ Extends(p, q) /\ GoneCanceled(q, mounted)
        /\ \A s \in Rooms : p.rooms.joins[s] # 0 => q.rooms.joins[s] # 0
        /\ r \in q.rooms.joined \/ q.rooms.joins[r] # 0
        /\ r \in p.rooms.joined \/ p.rooms.joins[r] # 0 => Similar(p, q)
    BY <2>2, <2>3, <2>4, JoinRoomKeeps
  <2>6. CanJoin(q)
    <3>1. CASE p.rooms.joins[r] # 0
      BY <2>1, <2>2, <2>5, <3>1 DEF CanJoin
    <3>2. CASE r \in p.rooms.joined /\ p.rooms.joins[r] = 0
      <4>1. Similar(p, q) /\ q \in Providers
        BY <2>5, <3>2 DEF Good
      <4>2. Unused(p) # {}
        BY <1>2, <2>1, <3>2 DEF CanJoin
      <4> QED  BY <1>1, <4>1, <4>2, UnusedStay DEF CanJoin
    <3>3. CASE r \notin p.rooms.joined /\ p.rooms.joins[r] = 0
      <4>1. JoinRoom(p, r, waiter) = EmitJoin(p, r, waiter)
        BY <3>3 DEF JoinRoom
      <4>2. Unused(p) # {}
        BY <1>2, <2>1, <3>3 DEF CanJoin
      <4>3. \E c \in Unused(p) : EmittedAs(p, q, c, r, waiter)
        BY <1>1, <2>2, <2>4, <4>1, <4>2, EmitJoinIs
      <4>4. PICK c : c \in Calls /\ EmittedAs(p, q, c, r, waiter)
        BY <4>3 DEF EmittedAs
      <4>5. q.rooms.joins = [p.rooms.joins EXCEPT ![r] = c] /\ p.rooms.joins \in [Rooms -> {0} \cup Calls]
        BY <1>1, <4>4 DEF EmittedAs, Providers, Refs
      <4>6. q.rooms.joins[r] # 0
        BY <2>2, <4>4, <4>5, CallsAreNumbers
      <4> QED  BY <2>1, <4>6 DEF CanJoin
    <3> QED  BY <3>1, <3>2, <3>3
  <2>7. Resume(p, room, waiter) = q
    BY <1>2, <2>1, <2>4 DEF Resume
  <2> QED
    BY <1>2, <2>5, <2>6, <2>7
<1>3. CASE ~ (room = "org" /\ waiter.bridge = "ticket") /\ ~ waiter.canceled
  <2>1. Resume(p, room, waiter) = p
    BY <1>3 DEF Resume
  <2>2. Extends(p, p)
    BY <1>1 DEF Extends, Providers
  <2> QED
    BY <1>3, <2>1, <2>2
<1>4. CASE ~ (room = "org" /\ waiter.bridge = "ticket") /\ waiter.canceled /\ room = "org"
  <2>1. PICK q : q = ProviderLeaveOrganization(p)
    OBVIOUS
  <2>2. /\ Good(q, answers) /\ Similar(p, q) /\ Extends(p, q) /\ GoneCanceled(q, mounted)
        /\ q.rooms.joins["ticket"] = p.rooms.joins["ticket"]
        /\ q.out = Append(p.out, Command("org leave", 0))
    BY <2>1, LeaveOrganizationKeeps
  <2>3. LeaveIn(q.out, room)
    BY <1>1, <1>4, <2>2, LeaveAppended DEF LeaveCommand, Providers
  <2>4. CanJoin(q)
    BY <1>1, <1>4, <2>2, UnusedStay DEF CanJoin, Good
  <2>5. Resume(p, room, waiter) = q
    BY <1>4, <2>1 DEF Resume
  <2> QED
    BY <2>2, <2>3, <2>4, <2>5
<1>5. CASE ~ (room = "org" /\ waiter.bridge = "ticket") /\ waiter.canceled /\ room # "org"
  <2>1. PICK q : q = ProviderLeaveTicket(p)
    OBVIOUS
  <2>2. /\ Good(q, answers) /\ Extends(p, q) /\ GoneCanceled(q, mounted)
        /\ q.out = Append(p.out, Command("ticket leave", 0))
    BY <2>1, LeaveTicketKeeps
  <2>3. LeaveIn(q.out, room)
    BY <1>1, <1>5, <2>2, LeaveAppended DEF LeaveCommand, Providers
  <2>4. Resume(p, room, waiter) = q
    BY <1>5, <2>1 DEF Resume
  <2> QED
    BY <1>5, <2>2, <2>3, <2>4
<1> QED
  BY <1>2, <1>3, <1>4, <1>5

\* The waiters of a join go on one after the other.
Running(f, p, room, waiters, n) ==
  f = [i \in 0 .. n |-> IF i = 0 THEN p ELSE Resume(f[i - 1], room, waiters[i])]

\* By the least number of waiters for which there is no such run.
LEMMA RunsExist ==
  ASSUME NEW p, NEW room, NEW waiters \in Seq(Waiters)
  PROVE  \E f : Running(f, p, room, waiters, Len(waiters))
<1> DEFINE Bad == {n \in Nat : ~ \E f : Running(f, p, room, waiters, n)}
<1>1. CASE Bad = {}
  <2>1. Len(waiters) \in Nat
    OBVIOUS
  <2> QED  BY <1>1, <2>1
<1>2. CASE Bad # {}
  <2>1. PICK n \in Bad : \A m \in Bad : n <= m
    BY <1>2, LeastNumber
  <2>2. n # 0
    <3>1. PICK f : f = [i \in 0 .. 0 |-> p]
      OBVIOUS
    <3>2. Running(f, p, room, waiters, 0)
      BY <3>1 DEF Running
    <3> QED  BY <2>1, <3>2
  <2>3. n - 1 \in Nat /\ n - 1 \notin Bad
    BY <2>1, <2>2
  <2>4. PICK f : Running(f, p, room, waiters, n - 1)
    BY <2>3
  <2>5. PICK last : last = Resume(f[n - 1], room, waiters[n])
    OBVIOUS
  <2>6. PICK g : g = [i \in 0 .. n |-> IF i = n THEN last ELSE f[i]]
    OBVIOUS
  <2>7. \A i \in 0 .. n : i # n => g[i] = f[i]
    BY <2>6
  <2>8. \A i \in 0 .. n : g[i] = IF i = 0 THEN p ELSE Resume(g[i - 1], room, waiters[i])
    <3> TAKE i \in 0 .. n
    <3>1. CASE i = n
      <4>1. g[n] = last /\ n - 1 \in 0 .. n /\ n - 1 # n
        BY <2>3, <2>6
      <4> QED  BY <2>2, <2>5, <2>7, <3>1, <4>1
    <3>2. CASE i # n /\ i = 0
      <4>1. f[0] = p /\ 0 \in 0 .. n
        BY <2>1, <2>3, <2>4 DEF Running
      <4> QED  BY <2>7, <3>2, <4>1
    <3>3. CASE i # n /\ i # 0
      <4>1. i \in 0 .. n - 1 /\ i - 1 \in 0 .. n /\ i - 1 # n
        BY <2>1, <3>3
      <4>2. f[i] = Resume(f[i - 1], room, waiters[i])
        BY <2>4, <3>3, <4>1 DEF Running
      <4> QED  BY <2>7, <3>3, <4>1, <4>2
    <3> QED  BY <3>1, <3>2, <3>3
  <2>9. Running(g, p, room, waiters, n)
    BY <2>6, <2>8 DEF Running
  <2> QED
    BY <2>1, <2>9
<1> QED
  BY <1>1, <1>2

\* ResumeAll is such a run.
LEMMA ResumeAllIs ==
  ASSUME NEW p, NEW room, NEW waiters \in Seq(Waiters)
  PROVE  \E f : /\ ResumeAll(p, room, waiters) = f[Len(waiters)]
                /\ f[0] = p
                /\ \A i \in 1 .. Len(waiters) : f[i] = Resume(f[i - 1], room, waiters[i])
<1>1. PICK f : f = CHOOSE g : g = [i \in 0 .. Len(waiters) |->
                                     IF i = 0 THEN p ELSE Resume(g[i - 1], room, waiters[i])]
  OBVIOUS
<1>2. f = [i \in 0 .. Len(waiters) |-> IF i = 0 THEN p ELSE Resume(f[i - 1], room, waiters[i])]
  BY <1>1, RunsExist DEF Running
<1>3. ResumeAll(p, room, waiters) = f[Len(waiters)]
  BY <1>1 DEF ResumeAll
<1>4. Len(waiters) \in Nat
  OBVIOUS
<1>5. f[0] = p /\ \A i \in 1 .. Len(waiters) : f[i] = Resume(f[i - 1], room, waiters[i])
  BY <1>2, <1>4
<1> QED
  BY <1>3, <1>5

\* Two calls of the provider, one after the other.
LEMMA ExtendsTwice ==
  ASSUME NEW p \in Providers, NEW q \in Providers, NEW r \in Providers, Extends(p, q), Extends(q, r)
  PROVE  Extends(p, r)
<1>1. Len(p.out) \in Nat /\ Len(q.out) \in Nat /\ Len(r.out) \in Nat
  BY DEF Providers
<1>2. Len(p.out) <= Len(r.out) /\ \A i \in 1 .. Len(p.out) : i \in 1 .. Len(q.out)
  BY <1>1 DEF Extends
<1> QED
  BY <1>1, <1>2 DEF Extends

\* A leave that was sent is not taken back.
LEMMA LeaveStaysIn ==
  ASSUME NEW p \in Providers, NEW q \in Providers, Extends(p, q), NEW room, LeaveIn(p.out, room)
  PROVE  LeaveIn(q.out, room)
<1>1. Len(p.out) \in Nat /\ Len(q.out) \in Nat
  BY DEF Providers
<1> QED
  BY <1>1 DEF Extends, LeaveIn

\* All waiters went on, and a canceled one has left its room again: by the
\* least number of waiters after which that is not so.
LEMMA ResumeAllKeeps ==
  ASSUME NEW p, NEW answers, NEW mounted, NEW room \in Rooms, NEW waiters \in Seq(Waiters),
         Good(p, answers), GoneCanceled(p, mounted), p.on # 0,
         room = "ticket" => \A i \in 1 .. Len(waiters) : waiters[i].bridge = "ticket",
         \A i \in 1 .. Len(waiters) : waiters[i].bridge \in mounted \/ waiters[i].canceled,
         room = "org" => CanJoin(p)
  PROVE  LET q == ResumeAll(p, room, waiters) IN
         /\ Good(q, answers) /\ Extends(p, q) /\ GoneCanceled(q, mounted)
         /\ (\E i \in 1 .. Len(waiters) : waiters[i].canceled /\ waiters[i].bridge = room)
              => LeaveIn(q.out, room)
<1>1. PICK f : /\ ResumeAll(p, room, waiters) = f[Len(waiters)]
               /\ f[0] = p
               /\ \A i \in 1 .. Len(waiters) : f[i] = Resume(f[i - 1], room, waiters[i])
  BY ResumeAllIs
<1> DEFINE Fine(n) ==
             /\ Good(f[n], answers) /\ Extends(p, f[n]) /\ GoneCanceled(f[n], mounted)
             /\ room = "org" => CanJoin(f[n])
             /\ \A i \in 1 .. n : waiters[i].canceled /\ waiters[i].bridge = room => LeaveIn(f[n].out, room)
           Bad == {n \in 0 .. Len(waiters) : ~ Fine(n)}
<1>2. Len(waiters) \in Nat /\ \A i \in 1 .. Len(waiters) : waiters[i] \in Waiters
  OBVIOUS
<1>3. p \in Providers /\ Extends(p, p)
  BY DEF Good, Extends, Providers
<1>4. CASE Bad # {}
  <2>1. Bad \in SUBSET Nat
    BY <1>2
  <2>2. PICK n \in Bad : \A m \in Bad : n <= m
    BY <1>4, <2>1, LeastNumber
  <2>3. n # 0
    BY <1>1, <1>3, <2>2
  <2>4. n - 1 \in 0 .. Len(waiters) /\ n \in 1 .. Len(waiters) /\ n - 1 \notin Bad
    BY <1>2, <2>2, <2>3
  <2>5. Fine(n - 1)
    BY <2>4
  <2>6. PICK q : q = f[n - 1]
    OBVIOUS
  <2>7. PICK w : w = waiters[n]
    OBVIOUS
  <2>8. /\ Good(q, answers) /\ Extends(p, q) /\ GoneCanceled(q, mounted)
        /\ room = "org" => CanJoin(q)
        /\ \A i \in 1 .. n - 1 : waiters[i].canceled /\ waiters[i].bridge = room => LeaveIn(q.out, room)
    BY <2>5, <2>6
  <2>9. /\ w \in Waiters /\ (room = "ticket" => w.bridge = "ticket")
        /\ w.bridge \in mounted \/ w.canceled
    BY <1>2, <2>4, <2>7
  <2>10. q.on # 0 /\ q \in Providers
    BY <2>8 DEF Extends, Good
  <2>11. PICK r : r = Resume(q, room, w)
    OBVIOUS
  <2>12. /\ Good(r, answers) /\ Extends(q, r) /\ GoneCanceled(r, mounted)
         /\ room = "org" => CanJoin(r)
         /\ w.canceled /\ w.bridge = room => LeaveIn(r.out, room)
    BY <2>8, <2>9, <2>10, <2>11, ResumeKeeps
  <2>13. f[n] = r
    BY <1>1, <2>4, <2>6, <2>7, <2>11
  <2>14. r \in Providers /\ Extends(p, r)
    BY <1>3, <2>8, <2>10, <2>12, ExtendsTwice DEF Good
  <2>15. ASSUME NEW i \in 1 .. n, waiters[i].canceled /\ waiters[i].bridge = room
         PROVE  LeaveIn(r.out, room)
    <3>1. CASE i = n
      BY <2>7, <2>12, <2>15, <3>1
    <3>2. CASE i # n
      <4>1. i \in 1 .. n - 1
        BY <2>4, <3>2
      <4>2. LeaveIn(q.out, room)
        BY <2>8, <2>15, <4>1
      <4> QED  BY <2>10, <2>12, <2>14, <4>2, LeaveStaysIn
    <3> QED  BY <3>1, <3>2
  <2>16. Fine(n)
    BY <2>12, <2>13, <2>14, <2>15
  <2> QED
    BY <2>2, <2>16
<1>5. CASE Bad = {}
  <2>1. Fine(Len(waiters))
    BY <1>2, <1>5
  <2> QED
    BY <1>1, <2>1
<1> QED
  BY <1>4, <1>5

-----------------------------------------------------------------------------
(* The effects and cleanups of a page.                                      *)

\* The cleanup of a bridge: canceled, and its room left.
LEMMA BridgeCleanupKeeps ==
  ASSUME NEW p, NEW answers, NEW mounted, NEW room \in Rooms,
         Good(p, answers), GoneCanceled(p, mounted),
         NEW q, q = Cancel(p, room),
         NEW r, r = IF room = "org" THEN ProviderLeaveOrganization(q) ELSE ProviderLeaveTicket(q)
  PROVE  /\ Good(r, answers) /\ Extends(p, r) /\ GoneCanceled(r, mounted \ {room})
         /\ Unused(p) \subseteq Unused(r)
         /\ p.on # 0 => LeaveIn(r.out, room)
<1>1. PICK left : left = mounted \ {room}
  OBVIOUS
<1>2. /\ Good(q, answers) /\ Extends(p, q) /\ Similar(p, q) /\ GoneCanceled(q, left)
      /\ q.out = p.out
  BY <1>1, CancelKeeps
<1>3. p \in Providers /\ q \in Providers /\ q.on = p.on
  BY <1>2 DEF Good, Extends
<1>4. /\ Good(r, answers) /\ Extends(q, r) /\ Similar(q, r) /\ GoneCanceled(r, left)
      /\ q.on # 0 => r.out = Append(q.out, Command(LeaveCommand(room), 0))
  <2>1. CASE room = "org"
    <3>1. PICK s : s = ProviderLeaveOrganization(q)
      OBVIOUS
    <3>2. r = s /\ LeaveCommand(room) = "org leave"
      BY <2>1, <3>1 DEF LeaveCommand
    <3>3. /\ Good(s, answers) /\ Extends(q, s) /\ Similar(q, s) /\ GoneCanceled(s, left)
          /\ q.on # 0 => s.out = Append(q.out, Command("org leave", 0))
      BY <1>2, <3>1, LeaveOrganizationKeeps
    <3> QED  BY <3>2, <3>3
  <2>2. CASE room # "org"
    <3>1. PICK s : s = ProviderLeaveTicket(q)
      OBVIOUS
    <3>2. r = s /\ LeaveCommand(room) = "ticket leave"
      BY <2>2, <3>1 DEF LeaveCommand
    <3>3. /\ Good(s, answers) /\ Extends(q, s) /\ Similar(q, s) /\ GoneCanceled(s, left)
          /\ q.on # 0 => s.out = Append(q.out, Command("ticket leave", 0))
      BY <1>2, <3>1, LeaveTicketKeeps
    <3> QED  BY <3>2, <3>3
  <2> QED  BY <2>1, <2>2
<1>5. r \in Providers
  BY <1>4 DEF Good
<1>6. Extends(p, r)
  BY <1>2, <1>3, <1>4, <1>5, ExtendsTwice
<1>7. Unused(p) \subseteq Unused(r)
  BY <1>2, <1>3, <1>4, <1>5, UnusedStay
<1>8. p.on # 0 => LeaveIn(r.out, room)
  BY <1>3, <1>4, LeaveAppended DEF Providers
<1> QED
  BY <1>1, <1>4, <1>6, <1>7, <1>8

\* The cleanups of a page.
LEMMA CleanupKeeps ==
  ASSUME NEW p, NEW answers, NEW mounted, NEW bridges \in SUBSET Rooms,
         Good(p, answers), GoneCanceled(p, mounted)
  PROVE  LET q == Cleanup(p, bridges) IN
         /\ Good(q, answers) /\ Extends(p, q) /\ GoneCanceled(q, mounted \ bridges)
         /\ Unused(p) \subseteq Unused(q)
         /\ \A room \in bridges : p.on # 0 => LeaveIn(q.out, room)
<1>1. PICK o : o = "org"
  OBVIOUS
<1>2. PICK t : t = "ticket"
  OBVIOUS
<1>3. o \in Rooms /\ t \in Rooms /\ \A room \in bridges : room = o \/ room = t
  BY <1>1, <1>2 DEF Rooms
<1>4. PICK q : q = IF o \in bridges THEN ProviderLeaveOrganization(Cancel(p, o)) ELSE p
  OBVIOUS
<1>5. PICK left : left = IF o \in bridges THEN mounted \ {o} ELSE mounted
  OBVIOUS
<1>6. /\ Good(q, answers) /\ Extends(p, q) /\ GoneCanceled(q, left)
      /\ Unused(p) \subseteq Unused(q)
      /\ o \in bridges /\ p.on # 0 => LeaveIn(q.out, o)
  <2>1. CASE o \in bridges
    <3>1. PICK c : c = Cancel(p, o)
      OBVIOUS
    <3>2. q = IF o = "org" THEN ProviderLeaveOrganization(c) ELSE ProviderLeaveTicket(c)
      BY <1>1, <1>4, <2>1, <3>1
    <3> QED  BY <1>3, <1>5, <2>1, <3>1, <3>2, BridgeCleanupKeeps
  <2>2. CASE o \notin bridges
    <3>1. Extends(p, p)
      BY DEF Good, Extends, Providers
    <3> QED  BY <1>4, <1>5, <2>2, <3>1
  <2> QED  BY <2>1, <2>2
<1>7. PICK r : r = IF t \in bridges THEN ProviderLeaveTicket(Cancel(q, t)) ELSE q
  OBVIOUS
<1>8. Cleanup(p, bridges) = r
  BY <1>1, <1>2, <1>4, <1>7 DEF Cleanup
<1>9. p \in Providers /\ q \in Providers /\ q.on = p.on
  BY <1>6 DEF Good, Extends
<1>10. PICK rest : rest = IF t \in bridges THEN left \ {t} ELSE left
  OBVIOUS
<1>11. /\ Good(r, answers) /\ Extends(q, r) /\ GoneCanceled(r, rest)
       /\ Unused(q) \subseteq Unused(r)
       /\ t \in bridges /\ p.on # 0 => LeaveIn(r.out, t)
  <2>1. CASE t \in bridges
    <3>1. PICK c : c = Cancel(q, t)
      OBVIOUS
    <3>2. r = IF t = "org" THEN ProviderLeaveOrganization(c) ELSE ProviderLeaveTicket(c)
      BY <1>2, <1>7, <2>1, <3>1
    <3> QED  BY <1>3, <1>6, <1>9, <1>10, <2>1, <3>1, <3>2, BridgeCleanupKeeps
  <2>2. CASE t \notin bridges
    <3>1. Extends(q, q)
      BY <1>9 DEF Extends, Providers
    <3> QED  BY <1>6, <1>7, <1>10, <2>2, <3>1
  <2> QED  BY <2>1, <2>2
<1>12. r \in Providers
  BY <1>11 DEF Good
<1>13. Extends(p, r)
  BY <1>6, <1>9, <1>11, <1>12, ExtendsTwice
<1>14. rest = mounted \ bridges
  BY <1>1, <1>2, <1>3, <1>5, <1>10
<1>15. ASSUME NEW room \in bridges, p.on # 0 PROVE LeaveIn(r.out, room)
  <2>1. CASE room = t
    BY <1>11, <1>15, <2>1
  <2>2. CASE room = o
    BY <1>6, <1>9, <1>11, <1>12, <1>15, <2>2, LeaveStaysIn
  <2> QED  BY <1>3, <2>1, <2>2
<1> QED
  BY <1>6, <1>8, <1>11, <1>13, <1>14, <1>15

\* The effects of a page.
LEMMA EffectsKeep ==
  ASSUME NEW p, NEW answers, NEW mounted, NEW bridges \in SUBSET Rooms,
         Good(p, answers), GoneCanceled(p, mounted), bridges \subseteq mounted,
         p.on # 0, Unused(p) # {}
  PROVE  LET q == Effects(p, bridges) IN
         Good(q, answers) /\ Extends(p, q) /\ GoneCanceled(q, mounted)
<1>1. PICK o : o = "org"
  OBVIOUS
<1>2. PICK t : t = "ticket"
  OBVIOUS
<1>3. o \in Rooms /\ t \in Rooms
  BY <1>1, <1>2 DEF Rooms
<1>4. PICK q : q = IF o \in bridges THEN JoinRoom(p, o, Waiter(o)) ELSE p
  OBVIOUS
<1>5. p \in Providers
  BY DEF Good
<1>6. PICK w : w = Waiter(o)
  OBVIOUS
<1>7. w \in Waiters /\ w.bridge = o
  BY <1>3, <1>6 DEF Waiter, Waiters
<1>8. PICK v : v = Waiter(t)
  OBVIOUS
<1>9. v \in Waiters /\ v.bridge = t
  BY <1>3, <1>8 DEF Waiter, Waiters
<1>10. PICK room : room = IF o \in q.rooms.joined THEN t ELSE o
  OBVIOUS
<1>11. room \in Rooms
  BY <1>3, <1>10
<1>12. /\ Good(q, answers) /\ Extends(p, q) /\ GoneCanceled(q, mounted)
       /\ room \in q.rooms.joined \/ q.rooms.joins[room] # 0 \/ Unused(q) # {}
  <2>1. CASE o \notin bridges
    <3>1. Extends(p, p)
      BY <1>5 DEF Extends, Providers
    <3> QED  BY <1>4, <2>1, <3>1
  <2>2. CASE o \in bridges
    <3>1. q = JoinRoom(p, o, w)
      BY <1>4, <1>6, <2>2
    <3>2. w.bridge \in mounted
      BY <1>7, <2>2
    <3>3. o = "ticket" => w.bridge = "ticket"
      BY <1>7
    <3>4. /\ Good(q, answers) /\ Extends(p, q) /\ GoneCanceled(q, mounted)
          /\ q.rooms.joined = p.rooms.joined
          /\ o \in q.rooms.joined \/ q.rooms.joins[o] # 0
          /\ o \in p.rooms.joined \/ p.rooms.joins[o] # 0 => Similar(p, q)
      <4>1. \/ o \in p.rooms.joined \/ p.rooms.joins[o] # 0
            \/ Unused(p) # {} /\ NoneOf(answers, Unused(p))
        BY UnusedAreNotAnswered
      <4>2. w.bridge \in mounted \/ w.canceled
        BY <3>2
      <4>3. PICK r : r = JoinRoom(p, o, w)
        OBVIOUS
      <4>4. w \in Waiters
        BY <1>7
      <4>5. /\ Good(r, answers) /\ Extends(p, r) /\ GoneCanceled(r, mounted)
            /\ r.rooms.joined = p.rooms.joined
            /\ o \in r.rooms.joined \/ r.rooms.joins[o] # 0
            /\ o \in p.rooms.joined \/ p.rooms.joins[o] # 0 => Similar(p, r)
        BY <1>3, <3>3, <4>1, <4>2, <4>3, <4>4, JoinRoomKeeps
      <4> QED  BY <3>1, <4>3, <4>5
    <3>5. CASE o \in p.rooms.joined
      BY <1>5, <3>4, <3>5, UnusedStay DEF Good
    <3>6. CASE o \notin p.rooms.joined
      BY <1>10, <3>4, <3>6
    <3> QED  BY <3>4, <3>5, <3>6
  <2> QED  BY <2>1, <2>2
<1>13. q \in Providers /\ q.on # 0
  BY <1>12 DEF Good, Extends
<1>14. Effects(p, bridges) = IF t \in bridges THEN JoinRoom(q, room, v) ELSE q
  BY <1>1, <1>2, <1>4, <1>8, <1>10 DEF Effects, ProviderJoinTicket
<1>15. CASE t \notin bridges
  BY <1>12, <1>14, <1>15
<1>16. CASE t \in bridges
  <2>1. v.bridge \in mounted /\ v.bridge = "ticket"
    BY <1>2, <1>9, <1>16
  <2>2. PICK r : r = JoinRoom(q, room, v)
    OBVIOUS
  <2>3. \/ room \in q.rooms.joined \/ q.rooms.joins[room] # 0
        \/ Unused(q) # {} /\ NoneOf(answers, Unused(q))
    BY <1>12, UnusedAreNotAnswered
  <2>4. Good(r, answers) /\ Extends(q, r) /\ GoneCanceled(r, mounted)
    BY <1>9, <1>11, <1>12, <1>13, <2>1, <2>2, <2>3, JoinRoomKeeps
  <2>5. Extends(p, r)
    BY <1>5, <1>12, <1>13, <2>4, ExtendsTwice DEF Good
  <2> QED
    BY <1>14, <1>16, <2>2, <2>4, <2>5
<1> QED
  BY <1>15, <1>16

-----------------------------------------------------------------------------
(* The browser and the gateway together.                                    *)

\* The page, the connection and the cached conversation.
Kept ==
  /\ page \in {"none", "org", "ticket"} /\ socket \in {0} \cup Sockets
  /\ published \subseteq written
  /\ cache = <<>> \/ \E shown \in SUBSET written : cache = <<shown>>
  /\ fetch = NoFetch \/ fetch = Sent \/ (fetch.at = "answered" /\ fetch.saw \subseteq written)
  /\ caughtUp \in BOOLEAN

\* Connections that are to come are new, and nothing belongs to them.
Untouched ==
  /\ \A s \in Sockets : s > socket =>
       conn[s] = "new" /\ tenants[s] = {} /\ tickets[s] = {} /\ orgRooms[s] = {} /\ ticketRooms[s] = {}
  /\ \A c \in Calls : call[c] # Idle => call[c].socket <= socket
  /\ \A c \in Calls : rooms.promise[c] # Free => rooms.promise[c].on <= socket

\* Without a connection nothing is in transit, joined or pending.
Severed ==
  ~ Ready => up = <<>> /\ down = <<>> /\ rooms.joined = {} /\ \A r \in Rooms : rooms.joins[r] = 0

\* The gateway knows of no organization and ticket but the page's, and who
\* has been admitted to it is a member.
OneOrganization ==
  /\ \A s \in Sockets :
       /\ tenants[s] \subseteq member[s]
       /\ orgRooms[s] \subseteq {Organization} /\ ticketRooms[s] \subseteq {Ticket}
  /\ \A c \in Calls : call[c] # Idle =>
       /\ call[c].org = Organization
       /\ ForOf(call[c].pc) = "ticket" => call[c].ticket = Ticket
       /\ call[c].pc \in {"org found", "ticket found", "ticket exists"} => Organization \in member[call[c].socket]
       /\ call[c].pc \in {"org missing", "ticket missing"} => Organization \notin member[call[c].socket]

\* The provider between two steps.
Provided ==
  /\ Good(Provider, down)
  /\ GoneCanceled(Provider, Mounted(page))

\* What is true of the browser and the gateway together.
ClientInv == Kept /\ Untouched /\ Severed /\ OneOrganization /\ Provided

\* The provider between two steps, read from the variables.
LEMMA ProviderIs ==
  /\ Provider.rooms = rooms /\ Provider.out = up /\ Provider.flaws = flaws
  /\ Provider.on = IF Ready THEN socket ELSE 0
BY DEF Provider

LEMMA SocketsAndOn ==
  ASSUME socket \in {0} \cup Sockets
  PROVE  /\ Ready => socket \in Sockets /\ socket # 0 /\ Provider.on = socket /\ Provider.on # 0
         /\ ~ Ready => Provider.on = 0
BY CallsAreNumbers DEF Provider, Ready

\* A step of the provider gives the next state.
LEMMA GoodNext ==
  ASSUME NEW q, NEW d, NEW mounted, Good(q, d), GoneCanceled(q, mounted),
         call' = call, Provider' = q, down' = d, Mounted(page)' = mounted
  PROVE  Provided'
<1>1. \A c : Live(Provider, c)' <=> Live(q, c)
  BY DEF Live
<1>2. SentOnce(Provider, down)'
  BY <1>1 DEF Good, SentOnce
<1>3. AnsweredOnce(Provider, down)'
  BY <1>1 DEF Good, AnsweredOnce
<1>4. Handled(Provider)'
  BY <1>1 DEF Good, Handled
<1>5. NotLost(Provider, down)'
  BY <1>1 DEF Good, NotLost
<1>6. PendingKnown(Provider)'
  BY <1>1 DEF Good, PendingKnown
<1>7. Awaited(Provider)'
  BY DEF Good, Awaited
<1>8. GoneCanceled(Provider, Mounted(page))'
  BY DEF GoneCanceled
<1>9. (Provider \in Providers /\ down \in Seq(Answers))'
  <2>1. (Providers)' = Providers /\ Answers' = Answers
    BY DEF Providers, Refs, Promises, Waiters, Rooms, Commands, Flaws, Free, Answers
  <2> QED  BY <2>1 DEF Good
<1> QED
  BY <1>2, <1>3, <1>4, <1>5, <1>6, <1>7, <1>8, <1>9 DEF Good, Provided

\* What is in transit is typed.
LEMMA UpIsTyped ==
  ASSUME Good(Provider, down)
  PROVE  /\ up \in Seq(Commands) /\ down \in Seq(Answers) /\ rooms \in Refs
         /\ Len(up) \in Nat /\ Len(down) \in Nat
         /\ \A i \in 1 .. Len(up) : up[i] \in Commands
         /\ \A i \in 1 .. Len(down) : down[i] \in Answers
<1>1. up \in Seq(Commands) /\ down \in Seq(Answers) /\ rooms \in Refs
  BY ProviderIs DEF Good, Providers
<1> QED
  BY <1>1

\* The elements of a sequence without its first one.
LEMMA Heading ==
  ASSUME NEW S, NEW s \in Seq(S), s # <<>>
  PROVE  /\ Head(s) \in S /\ Head(s) = s[1] /\ 1 \in 1 .. Len(s)
         /\ Tail(s) \in Seq(S) /\ Len(Tail(s)) = Len(s) - 1 /\ Len(s) \in Nat /\ Len(s) >= 1
         /\ \A i \in 1 .. Len(s) - 1 : Tail(s)[i] = s[i + 1]
OBVIOUS

\* The browser is one of the clients that the gateway has to expect.
LEMMA ClientStepIsGatewayStep ==
  ASSUME ClientInv, [ClientNext]_clientVars
  PROVE  [GatewayNext]_gatewayVars
<1>1. socket \in {0} \cup Sockets /\ Good(Provider, down)
  BY DEF ClientInv, Kept, Provided
<1>2. CASE Connect
  BY <1>2 DEF Connect, GatewayNext
<1>3. CASE Disconnect
  <2>1. socket \in Sockets
    BY <1>1, <1>3, SocketsAndOn DEF Disconnect
  <2> QED  BY <1>3, <2>1 DEF Disconnect, GatewayNext
<1>4. CASE Receive
  <2>1. PICK m : m = Head(up)
    OBVIOUS
  <2>2. up # <<>>
    BY <1>4 DEF Receive
  <2>3. m \in Commands
    BY <1>1, <2>1, <2>2, UpIsTyped, Heading
  <2>4. Ready
    BY <2>2 DEF ClientInv, Severed
  <2>5. socket \in Sockets
    BY <1>1, <2>4, SocketsAndOn
  <2>6. Organization \in Organizations /\ Ticket \in Tickets
    BY ClientAssumption, GatewayAssumption
  <2>7. m.name \in {"org join", "ticket join"} => m.id \in Calls
    BY <2>3 DEF Commands
  <2>8. \/ m.name = "org join" /\ JoinOrganization(m.id, socket, Organization)
        \/ m.name = "ticket join" /\ JoinTicket(m.id, socket, Organization, Ticket)
        \/ LeaveOrganization(socket, Organization)
        \/ LeaveTicket(socket, Ticket)
        \/ UNCHANGED gatewayVars
    BY <1>4, <2>1 DEF Receive
  <2> QED  BY <2>5, <2>6, <2>7, <2>8 DEF GatewayNext
<1>5. ASSUME NEW c \in Calls, Handle(c) PROVE GatewayNext
  BY <1>5 DEF Handle, GatewayNext
<1>6. ASSUME \/ \E w \in Messages \cup Deliveries : Publish(w) \/ Write(w)
             \/ Listen \/ ReadMessages \/ ShowMessages
             \/ \E c \in Calls : TimeOut(c)
             \/ \E pg \in {"none", "org", "ticket"} : Navigate(pg)
             \/ UNCHANGED clientVars
      PROVE  UNCHANGED gatewayVars
  BY <1>6 DEF Publish, Write, Listen, ReadMessages, ShowMessages, TimeOut, Navigate, clientVars
<1> QED
  BY <1>2, <1>3, <1>4, <1>5, <1>6 DEF ClientNext, Serve, Browse

-----------------------------------------------------------------------------
(* The gateway's steps, for the browser.                                    *)

\* What a step of a handler does to its command and to its socket.
LEMMA HandlerStepIs ==
  ASSUME GatewayTypeOK, NEW c \in Calls, HandlerStep(c)
  PROVE  /\ call[c] # Idle /\ call[c].socket \in Sockets /\ call \in [Calls -> Handlers]
         /\ member' = member /\ conn' = conn
         /\ \/ call' = [call EXCEPT ![c] = Idle]
            \/ \E pc : /\ call' = [call EXCEPT ![c] = Handler(pc, call[c].socket, call[c].org, call[c].ticket)]
                       /\ ForOf(pc) = ForOf(call[c].pc)
                       /\ pc \in {"org found", "ticket found"} => call[c].org \in member[call[c].socket]
                       /\ pc = "ticket exists" => call[c].pc = "ticket found"
                       /\ pc \in {"org missing", "ticket missing"} => call[c].org \notin member[call[c].socket]
                       /\ pc \in {"org found", "org missing", "ticket found", "ticket missing", "ticket exists"}
         /\ \A s \in Sockets : s # call[c].socket =>
              /\ tenants'[s] = tenants[s] /\ tickets'[s] = tickets[s]
              /\ orgRooms'[s] = orgRooms[s] /\ ticketRooms'[s] = ticketRooms[s]
         /\ tenants'[call[c].socket] \subseteq
              tenants[call[c].socket] \cup
              (IF call[c].pc \in {"org found", "ticket found"} THEN {call[c].org} ELSE {})
         /\ orgRooms'[call[c].socket] \subseteq
              orgRooms[call[c].socket] \cup (IF call[c].pc = "org found" THEN {call[c].org} ELSE {})
         /\ ticketRooms'[call[c].socket] \subseteq
              ticketRooms[call[c].socket] \cup (IF call[c].pc = "ticket exists" THEN {call[c].ticket} ELSE {})
<1>1. ~ At(c, "idle")
  BY DEF HandlerStep, ResolveTenant, EnterOrganization, RefuseOrganization, ExpelSocket, RefreshTenant,
         EnterTicket, RefuseTicket, At
<1>2. call[c] # Idle /\ call[c].socket \in Sockets /\ call \in [Calls -> Handlers]
  BY <1>1, HandlerKinds DEF GatewayTypeOK
<1>3. CASE ResolveTenant(c)
  <2>1. PICK kind \in {"org", "ticket"} :
          /\ At(c, CASE kind = "org" -> "org lookup" [] kind = "ticket" -> "ticket lookup")
          /\ Await(c, IF call[c].org \in member[call[c].socket]
                      THEN CASE kind = "org" -> "org found" [] kind = "ticket" -> "ticket found"
                      ELSE CASE kind = "org" -> "org missing" [] kind = "ticket" -> "ticket missing")
    BY <1>3 DEF ResolveTenant
  <2>2. PICK pc : pc = IF call[c].org \in member[call[c].socket]
                       THEN CASE kind = "org" -> "org found" [] kind = "ticket" -> "ticket found"
                       ELSE CASE kind = "org" -> "org missing" [] kind = "ticket" -> "ticket missing"
    OBVIOUS
  <2>3. /\ Await(c, pc)
        /\ call[c].pc = IF kind = "org" THEN "org lookup" ELSE "ticket lookup"
    BY <2>1, <2>2 DEF At
  <2>4. call' = [call EXCEPT ![c] = Handler(pc, call[c].socket, call[c].org, call[c].ticket)]
    BY <1>1, <2>3, AwaitChanges
  <2>5. /\ ForOf(pc) = ForOf(call[c].pc)
        /\ pc \in {"org found", "ticket found"} => call[c].org \in member[call[c].socket]
        /\ pc = "ticket exists" => call[c].pc = "ticket found"
        /\ pc \in {"org missing", "ticket missing"} => call[c].org \notin member[call[c].socket]
        /\ pc \in {"org found", "org missing", "ticket found", "ticket missing", "ticket exists"}
    BY <2>2, <2>3 DEF ForOf
  <2>6. UNCHANGED <<member, conn, tenants, tickets, orgRooms, ticketRooms>>
    BY <1>3 DEF ResolveTenant, socketVars
  <2> QED
    BY <1>2, <2>4, <2>5, <2>6
<1>4. CASE EnterOrganization(c)
  BY <1>2, <1>4 DEF EnterOrganization, GatewayTypeOK, Return, At, InRoom
<1>5. CASE RefuseOrganization(c)
  BY <1>2, <1>5 DEF RefuseOrganization, GatewayTypeOK, Return, At, socketVars
<1>6. CASE ExpelSocket(c)
  BY <1>2, <1>6 DEF ExpelSocket, Leave, LeaveAllTickets, GatewayTypeOK, Return, At
<1>7. CASE RefreshTenant(c)
  <2>1. PICK pc : pc = "ticket exists"
    OBVIOUS
  <2>2. call' = [call EXCEPT ![c] = Handler(pc, call[c].socket, call[c].org, call[c].ticket)]
    BY <1>1, <1>7, <2>1, AwaitChanges DEF RefreshTenant
  <2>3. call[c].pc = "ticket found" /\ ForOf(pc) = ForOf(call[c].pc)
    BY <1>7, <2>1 DEF RefreshTenant, At, ForOf
  <2>4. /\ UNCHANGED <<member, conn, tickets, orgRooms, ticketRooms>>
        /\ tenants' = [tenants EXCEPT ![call[c].socket] = @ \cup {call[c].org}]
    BY <1>7 DEF RefreshTenant
  <2> QED
    BY <1>2, <2>1, <2>2, <2>3, <2>4 DEF GatewayTypeOK
<1>8. CASE EnterTicket(c)
  BY <1>2, <1>8 DEF EnterTicket, GatewayTypeOK, Return, At, InRoom
<1>9. CASE RefuseTicket(c)
  BY <1>2, <1>9 DEF RefuseTicket, GatewayTypeOK, Return, At, socketVars
<1> QED
  BY <1>3, <1>4, <1>5, <1>6, <1>7, <1>8, <1>9 DEF HandlerStep

\* A handler's step: members are admitted, others are not.
LEMMA OneOrganizationByHandler ==
  ASSUME GatewayTypeOK, ClientInv, NEW c \in Calls, HandlerStep(c)
  PROVE  OneOrganization'
<1> USE DEF GatewayTypeOK
<1>1. /\ call[c] # Idle /\ call[c].socket \in Sockets
      /\ call[c].org = Organization
      /\ ForOf(call[c].pc) = "ticket" => call[c].ticket = Ticket
      /\ call[c].pc \in {"org found", "ticket found", "ticket exists"} => Organization \in member[call[c].socket]
  BY HandlerStepIs DEF ClientInv, OneOrganization
<1>2. /\ call[c].pc = "ticket exists" => ForOf(call[c].pc) = "ticket"
      /\ member' = member
  BY HandlerStepIs DEF ForOf
<1>3. ASSUME NEW s \in Sockets
      PROVE  /\ tenants'[s] \subseteq member[s]
             /\ orgRooms'[s] \subseteq {Organization} /\ ticketRooms'[s] \subseteq {Ticket}
  <2>1. /\ tenants[s] \subseteq member[s]
        /\ orgRooms[s] \subseteq {Organization} /\ ticketRooms[s] \subseteq {Ticket}
    BY DEF ClientInv, OneOrganization
  <2>2. CASE s # call[c].socket
    BY ZenonT(60), <2>1, <2>2, HandlerStepIs
  <2>3. CASE s = call[c].socket
    BY ZenonT(60), <1>1, <1>2, <2>1, <2>3, HandlerStepIs
  <2> QED  BY <2>2, <2>3
<1>4. ASSUME NEW d \in Calls, call'[d] # Idle
      PROVE  /\ call'[d].org = Organization
             /\ ForOf(call'[d].pc) = "ticket" => call'[d].ticket = Ticket
             /\ call'[d].pc \in {"org found", "ticket found", "ticket exists"}
                  => Organization \in member[call'[d].socket]
             /\ call'[d].pc \in {"org missing", "ticket missing"} => Organization \notin member[call'[d].socket]
  <2>1. CASE d # c
    <3>1. call'[d] = call[d]
      BY <2>1, HandlerStepIs
    <3> QED  BY <1>4, <3>1 DEF ClientInv, OneOrganization
  <2>2. CASE d = c
    <3>1. PICK pc : /\ call' = [call EXCEPT ![c] = Handler(pc, call[c].socket, call[c].org, call[c].ticket)]
                    /\ ForOf(pc) = ForOf(call[c].pc)
                    /\ pc \in {"org found", "ticket found"} => call[c].org \in member[call[c].socket]
                    /\ pc = "ticket exists" => call[c].pc = "ticket found"
                    /\ pc \in {"org missing", "ticket missing"} => call[c].org \notin member[call[c].socket]
      BY <1>4, <2>2, HandlerStepIs
    <3>2. call'[c] = Handler(pc, call[c].socket, call[c].org, call[c].ticket)
      BY <3>1
    <3>3. /\ call'[c].pc = pc /\ call'[c].socket = call[c].socket
          /\ call'[c].org = call[c].org /\ call'[c].ticket = call[c].ticket
      BY <3>2 DEF Handler
    <3> QED  BY <1>1, <2>2, <3>1, <3>3
  <2> QED  BY <2>1, <2>2
<1> QED
  BY <1>2, <1>3, <1>4 DEF OneOrganization, ForOf

\* The four ways in which the server takes a command.
ReceiveCases(m) ==
  /\ up # <<>> /\ m = Head(up) /\ up' = Tail(up)
  /\ UNCHANGED <<socket, dataVars, pageVars, rooms, caughtUp, member, conn>>
  /\ \/ /\ m.name \in {"org join", "ticket join"} /\ m.id \in Calls /\ At(m.id, "idle")
        /\ \E pc, t : /\ call' = [call EXCEPT ![m.id] = Handler(pc, socket, Organization, t)]
                      /\ m.name = JoinCommand(ForOf(pc))
                      /\ ForOf(pc) = "ticket" => t = Ticket /\ Organization \in tenants[socket]
                      /\ pc \in {"org lookup", "ticket lookup"}
        /\ down' = down /\ UNCHANGED socketVars
     \/ /\ m.name = "ticket join" /\ m.id \in Calls
        /\ Organization \notin tenants[socket]
        /\ down' = Append(down, Command("refused", m.id))
        /\ UNCHANGED <<call, socketVars>>
     \/ /\ m.name = "org leave" /\ m.id = 0 /\ down' = down /\ UNCHANGED call
        /\ \/ Organization \in tenants[socket] /\ Leave(socket, Organization)
           \/ Organization \notin tenants[socket] /\ UNCHANGED socketVars
     \/ /\ m.name = "ticket leave" /\ m.id = 0 /\ down' = down /\ UNCHANGED <<call, tenants, orgRooms>>
        /\ \/ /\ Ticket \in tickets[socket]
              /\ ticketRooms' = [ticketRooms EXCEPT ![socket] = @ \ {Ticket}]
              /\ tickets' = [tickets EXCEPT ![socket] = @ \ {Ticket}]
           \/ Ticket \notin tickets[socket] /\ UNCHANGED socketVars

\* The server's step takes the first command, in one of the four ways.
LEMMA ReceiveIs ==
  ASSUME ClientInv, Receive
  PROVE  \E m \in Commands : ReceiveCases(m) /\ Ready /\ socket \in Sockets
<1>1. PICK m : m = Head(up)
  OBVIOUS
<1>2. up # <<>> /\ up' = Tail(up)
  BY DEF Receive
<1>3. socket \in {0} \cup Sockets /\ Good(Provider, down) /\ Ready
  BY <1>2 DEF ClientInv, Kept, Provided, Severed
<1>4. m \in Commands /\ socket \in Sockets
  BY <1>1, <1>2, <1>3, UpIsTyped, Heading, SocketsAndOn
<1>5. UNCHANGED <<socket, dataVars, pageVars, rooms, caughtUp>>
  BY DEF Receive
<1>6. CASE m.name = "org join"
  <2>1. JoinOrganization(m.id, socket, Organization) /\ down' = down /\ m.id \in Calls
    BY <1>1, <1>4, <1>6 DEF Receive, Commands
  <2>2. ForOf("org lookup") = "org" /\ m.name = JoinCommand("org")
    BY <1>6 DEF ForOf, JoinCommand
  <2>3. PICK pc : pc = "org lookup"
    OBVIOUS
  <2>4. /\ call' = [call EXCEPT ![m.id] = Handler(pc, socket, Organization, None)]
        /\ m.name = JoinCommand(ForOf(pc)) /\ ForOf(pc) # "ticket" /\ pc \in {"org lookup", "ticket lookup"}
        /\ At(m.id, "idle") /\ UNCHANGED <<member, conn, socketVars>>
    BY <2>1, <2>2, <2>3 DEF JoinOrganization
  <2> QED
    BY <1>1, <1>2, <1>3, <1>4, <1>5, <1>6, <2>1, <2>4 DEF ReceiveCases
<1>7. CASE m.name = "ticket join" /\ Organization \in tenants[socket]
  <2>1. JoinTicket(m.id, socket, Organization, Ticket) /\ down' = down /\ m.id \in Calls
    BY <1>1, <1>4, <1>7 DEF Receive, Commands
  <2>2. ForOf("ticket lookup") = "ticket" /\ m.name = JoinCommand("ticket")
    BY <1>7 DEF ForOf, JoinCommand
  <2>3. PICK pc : pc = "ticket lookup"
    OBVIOUS
  <2>4. /\ call' = [call EXCEPT ![m.id] = Handler(pc, socket, Organization, Ticket)]
        /\ m.name = JoinCommand(ForOf(pc)) /\ pc \in {"org lookup", "ticket lookup"}
        /\ At(m.id, "idle") /\ UNCHANGED <<member, conn, socketVars>>
    BY <2>1, <2>2, <2>3 DEF JoinTicket
  <2> QED
    BY <1>1, <1>2, <1>3, <1>4, <1>5, <1>7, <2>1, <2>4 DEF ReceiveCases
<1>8. CASE m.name = "ticket join" /\ Organization \notin tenants[socket]
  <2>1. /\ UNCHANGED gatewayVars /\ down' = Append(down, Command("refused", m.id)) /\ m.id \in Calls
    BY <1>1, <1>4, <1>8 DEF Receive, Commands
  <2>2. UNCHANGED <<member, conn, call, socketVars>>
    BY <2>1 DEF gatewayVars
  <2> QED
    BY <1>1, <1>2, <1>3, <1>4, <1>5, <1>8, <2>1, <2>2 DEF ReceiveCases
<1>9. CASE m.name = "org leave"
  <2>1. m.id = 0 /\ down' = down
    BY <1>1, <1>4, <1>9 DEF Receive, Commands
  <2>2. CASE Organization \in tenants[socket]
    <3>1. LeaveOrganization(socket, Organization)
      BY <1>1, <1>9, <2>2 DEF Receive
    <3>2. Leave(socket, Organization) /\ UNCHANGED <<member, conn, call>>
      BY <3>1 DEF LeaveOrganization
    <3> QED
      BY <1>1, <1>2, <1>3, <1>4, <1>5, <1>9, <2>1, <2>2, <3>2 DEF ReceiveCases
  <2>3. CASE Organization \notin tenants[socket]
    <3>1. UNCHANGED gatewayVars
      BY <1>1, <1>9, <2>3 DEF Receive
    <3>2. UNCHANGED <<member, conn, call, socketVars>>
      BY <3>1 DEF gatewayVars
    <3> QED
      BY <1>1, <1>2, <1>3, <1>4, <1>5, <1>9, <2>1, <2>3, <3>2 DEF ReceiveCases
  <2> QED  BY <2>2, <2>3
<1>10. CASE m.name = "ticket leave"
  <2>1. m.id = 0 /\ down' = down
    BY <1>1, <1>4, <1>10 DEF Receive, Commands
  <2>2. CASE Ticket \in tickets[socket]
    <3>1. LeaveTicket(socket, Ticket)
      BY <1>1, <1>10, <2>2 DEF Receive
    <3>2. /\ UNCHANGED <<member, conn, call, tenants, orgRooms>>
          /\ ticketRooms' = [ticketRooms EXCEPT ![socket] = @ \ {Ticket}]
          /\ tickets' = [tickets EXCEPT ![socket] = @ \ {Ticket}]
      BY <3>1 DEF LeaveTicket
    <3> QED
      BY <1>1, <1>2, <1>3, <1>4, <1>5, <1>10, <2>1, <2>2, <3>2 DEF ReceiveCases
  <2>3. CASE Ticket \notin tickets[socket]
    <3>1. UNCHANGED gatewayVars
      BY <1>1, <1>10, <2>3 DEF Receive
    <3>2. UNCHANGED <<member, conn, call, socketVars>>
      BY <3>1 DEF gatewayVars
    <3> QED
      BY <1>1, <1>2, <1>3, <1>4, <1>5, <1>10, <2>1, <2>3, <3>2 DEF ReceiveCases, socketVars
  <2> QED  BY <2>2, <2>3
<1> QED
  BY <1>4, <1>6, <1>7, <1>8, <1>9, <1>10 DEF Commands

\* Constants.
LEMMA ProvidersStay == Providers' = Providers /\ Answers' = Answers
BY DEF Providers, Refs, Promises, Waiters, Rooms, Commands, Flaws, Free, Answers

\* The provider in a step that leaves the refs and the connection.
LEMMA SameProvider ==
  ASSUME UNCHANGED <<rooms, flaws, socket, conn>>
  PROVE  /\ Provider'.rooms = rooms /\ Provider'.flaws = flaws /\ Provider'.out = up'
         /\ Provider'.on = Provider.on /\ Ready' = Ready
BY DEF Provider, Ready

\* The joins and answers in transit, by their numbers.
LEMMA SentAreCalls ==
  ASSUME Good(Provider, down)
  PROVE  /\ \A i \in 1 .. Len(up) : up[i].id # 0 =>
              /\ up[i].id \in Calls /\ up[i] = Command(up[i].name, up[i].id)
              /\ Live(Provider, up[i].id)
              /\ up[i].name = JoinCommand(rooms.promise[up[i].id].for)
              /\ call[up[i].id] = Idle
              /\ \A k \in 1 .. Len(up) : up[k].id = up[i].id => k = i
              /\ \A k \in 1 .. Len(down) : down[k].id # up[i].id
         /\ \A i \in 1 .. Len(down) : down[i].id # 0 =>
              /\ down[i].id \in Calls
              /\ Live(Provider, down[i].id)
              /\ call[down[i].id] = Idle
              /\ \A k \in 1 .. Len(down) : down[k].id = down[i].id => k = i
<1>1. ASSUME NEW i \in 1 .. Len(up), up[i].id # 0
      PROVE  up[i].id \in Calls /\ up[i] = Command(up[i].name, up[i].id)
  BY <1>1, UpIsTyped DEF Commands, Command
<1>2. ASSUME NEW i \in 1 .. Len(down), down[i].id # 0
      PROVE  down[i].id \in Calls
  BY <1>2, UpIsTyped DEF Answers
<1> QED
  BY <1>1, <1>2, ProviderIs DEF Good, SentOnce, AnsweredOnce

\* A command goes from the wire to a handler, or is answered at once.
LEMMA ReceiveKeepsProvider ==
  ASSUME ClientInv, GatewayTypeOK, NEW m \in Commands, ReceiveCases(m), Ready, socket \in Sockets
  PROVE  Provided'
<1>1. /\ Good(Provider, down) /\ GoneCanceled(Provider, Mounted(page))
      /\ up \in Seq(Commands) /\ down \in Seq(Answers) /\ rooms \in Refs
      /\ up # <<>> /\ m = Head(up) /\ up' = Tail(up)
      /\ UNCHANGED <<socket, page, flaws, rooms, conn>>
      /\ call \in [Calls -> Handlers]
  BY UpIsTyped DEF ClientInv, Provided, ReceiveCases, pageVars, GatewayTypeOK
<1>2. /\ m = up[1] /\ 1 \in 1 .. Len(up)
      /\ up' \in Seq(Commands) /\ Len(up') = Len(up) - 1 /\ Len(up) \in Nat /\ Len(up) >= 1
      /\ \A i \in 1 .. Len(up') : up'[i] = up[i + 1] /\ i + 1 \in 1 .. Len(up) /\ i + 1 # 1
  BY <1>1, Heading
<1>3. \A i \in 1 .. Len(up) : i # 1 => i - 1 \in 1 .. Len(up') /\ up'[i - 1] = up[i]
  BY <1>2
<1>4. PICK p : p = Provider
  OBVIOUS
<1>5. PICK q : q = Provider'
  OBVIOUS
<1>6. /\ q.rooms = p.rooms /\ q.flaws = p.flaws /\ q.out = up' /\ q.on = p.on
      /\ p.rooms = rooms /\ p.out = up /\ p.on = socket
  BY <1>1, <1>4, <1>5, SameProvider, ProviderIs
<1>7. q \in Providers
  BY <1>1, <1>2, <1>4, <1>5, <1>6 DEF Good, Providers, Provider
<1>8. \A c : Live(q, c) <=> Live(p, c)
  BY <1>6 DEF Live
<1>9. m.id # 0 => /\ m.id \in Calls /\ Live(p, m.id) /\ m.name = JoinCommand(rooms.promise[m.id].for)
                  /\ call[m.id] = Idle
                  /\ \A i \in 1 .. Len(up') : up'[i].id # m.id
                  /\ \A k \in 1 .. Len(down) : down[k].id # m.id
  BY <1>1, <1>2, <1>4, SentAreCalls
<1>10. \A c \in Calls : call'[c] = call[c] \/ (c = m.id /\ m.id # 0 /\ call'[c] # Idle)
  <2>1. CASE \E pc, t : /\ call' = [call EXCEPT ![m.id] = Handler(pc, socket, Organization, t)]
                        /\ m.id \in Calls /\ pc \in {"org lookup", "ticket lookup"}
    <3>1. PICK pc, t : /\ call' = [call EXCEPT ![m.id] = Handler(pc, socket, Organization, t)]
                       /\ m.id \in Calls /\ pc \in {"org lookup", "ticket lookup"}
      BY <2>1
    <3>2. Handler(pc, socket, Organization, t) # Idle
      BY <3>1 DEF Handler, Idle
    <3> QED  BY <1>1, <3>1, <3>2, CallsAreNumbers
  <2>2. CASE call' = call
    BY <2>2
  <2> QED  BY <2>1, <2>2 DEF ReceiveCases
<1>11. \/ down' = down
       \/ /\ down' = Append(down, Command("refused", m.id)) /\ m.id \in Calls /\ call' = call
  BY DEF ReceiveCases
<1>12. /\ down' \in Seq(Answers) /\ Len(down) \in Nat /\ Len(down') \in Nat
       /\ \A i \in 1 .. Len(down) : i \in 1 .. Len(down') /\ down'[i] = down[i]
       /\ \A i \in 1 .. Len(down') : \/ i \in 1 .. Len(down)
                                     \/ i = Len(down) + 1 /\ down'[i].id = m.id /\ m.id # 0 /\ call' = call
  <2>1. CASE down' = down
    BY <1>1, <2>1
  <2>2. CASE down' = Append(down, Command("refused", m.id)) /\ m.id \in Calls /\ call' = call
    <3>1. PICK a : a = Command("refused", m.id)
      OBVIOUS
    <3>2. a \in Answers /\ a.id = m.id /\ m.id # 0
      BY <2>2, <3>1, CallsAreNumbers DEF Command, Answers
    <3> QED  BY <1>1, <2>2, <3>1, <3>2, Appending
  <2> QED  BY <1>11, <2>1, <2>2
<1>13. SentOnce(Provider, down)'
  <2> SUFFICES ASSUME NEW i \in 1 .. Len(up'), up'[i].id # 0
               PROVE  /\ Live(q, up'[i].id)
                      /\ up'[i].name = JoinCommand(q.rooms.promise[up'[i].id].for)
                      /\ call'[up'[i].id] = Idle
                      /\ \A k \in 1 .. Len(up') : up'[k].id = up'[i].id => k = i
                      /\ \A k \in 1 .. Len(down') : down'[k].id # up'[i].id
    BY <1>5, <1>6 DEF SentOnce, Live
  <2>1. PICK x : x = up'[i].id
    OBVIOUS
  <2>2. /\ x \in Calls /\ Live(p, x) /\ up'[i].name = JoinCommand(rooms.promise[x].for) /\ call[x] = Idle
        /\ \A k \in 1 .. Len(up) : up[k].id = x => k = i + 1
        /\ \A k \in 1 .. Len(down) : down[k].id # x
    BY <1>1, <1>2, <1>4, <2>1, SentAreCalls
  <2>3. x # m.id
    BY <1>2, <2>1, <2>2
  <2>4. call'[x] = Idle
    BY <1>10, <2>2, <2>3
  <2>5. \A k \in 1 .. Len(up') : up'[k].id = x => k = i
    BY <1>2, <2>2
  <2>6. \A k \in 1 .. Len(down') : down'[k].id # x
    BY <1>12, <2>2, <2>3
  <2> QED
    BY <1>6, <1>8, <2>1, <2>2, <2>4, <2>5, <2>6
<1>14. AnsweredOnce(Provider, down)'
  <2> SUFFICES ASSUME NEW i \in 1 .. Len(down'), down'[i].id # 0
               PROVE  /\ Live(q, down'[i].id)
                      /\ call'[down'[i].id] = Idle
                      /\ \A k \in 1 .. Len(down') : down'[k].id = down'[i].id => k = i
    BY <1>5, <1>6 DEF AnsweredOnce, Live
  <2>1. CASE i \in 1 .. Len(down)
    <3>1. /\ down'[i] = down[i] /\ down[i].id \in Calls /\ Live(p, down[i].id) /\ call[down[i].id] = Idle
          /\ \A k \in 1 .. Len(down) : down[k].id = down[i].id => k = i
      BY <1>1, <1>4, <1>12, <2>1, SentAreCalls
    <3>2. down[i].id # m.id
      BY <1>9, <2>1, <3>1, CallsAreNumbers
    <3> QED  BY <1>8, <1>10, <1>12, <3>1, <3>2
  <2>2. CASE i \notin 1 .. Len(down)
    <3>1. i = Len(down) + 1 /\ down'[i].id = m.id /\ m.id # 0 /\ call' = call
      BY <1>12, <2>2
    <3>2. \A k \in 1 .. Len(down') : down'[k].id = m.id => k = i
      BY <1>9, <1>12, <3>1
    <3> QED  BY <1>8, <1>9, <3>1, <3>2
  <2> QED  BY <2>1, <2>2
<1>15. Handled(Provider)'
  <2> SUFFICES ASSUME NEW c \in Calls, call'[c] # Idle /\ call'[c].socket = q.on
               PROVE  Live(q, c) /\ q.rooms.promise[c].for = ForOf(call'[c].pc)
    BY <1>5, <1>6 DEF Handled, Live, ForOf
  <2>1. CASE call'[c] = call[c]
    BY <1>1, <1>4, <1>6, <1>8, <2>1 DEF Good, Handled
  <2>2. CASE call'[c] # call[c]
    <3>1. c = m.id /\ m.id # 0
      BY <1>10, <2>2
    <3>2. PICK pc, t : /\ call' = [call EXCEPT ![m.id] = Handler(pc, socket, Organization, t)]
                       /\ m.name = JoinCommand(ForOf(pc)) /\ pc \in {"org lookup", "ticket lookup"}
      BY <2>2 DEF ReceiveCases
    <3>3. call'[c] = Handler(pc, socket, Organization, t)
      BY <1>1, <3>1, <3>2
    <3>4. call'[c].pc = pc
      BY <3>3 DEF Handler
    <3>5. rooms.promise[c] \in Promises
      BY <1>1, <1>4, <1>6, <1>9, <3>1 DEF Live, Refs
    <3>6. JoinCommand(rooms.promise[c].for) = JoinCommand(ForOf(pc))
      BY <1>9, <3>1, <3>2
    <3>7. rooms.promise[c].for = ForOf(pc)
      BY <3>5, <3>6 DEF JoinCommand, ForOf, Promises, Rooms
    <3> QED  BY <1>6, <1>8, <1>9, <3>1, <3>4, <3>7
  <2> QED  BY <2>1, <2>2
<1>16. NotLost(Provider, down)'
  <2> SUFFICES ASSUME NEW c \in Calls, Live(q, c)
               PROVE  \/ \E i \in 1 .. Len(up') : up'[i].id = c
                      \/ \E i \in 1 .. Len(down') : down'[i].id = c
                      \/ call'[c] # Idle /\ call'[c].socket = q.on
    BY <1>5, <1>6 DEF NotLost, Live
  <2>1. \/ \E i \in 1 .. Len(up) : up[i].id = c
        \/ \E i \in 1 .. Len(down) : down[i].id = c
        \/ call[c] # Idle /\ call[c].socket = q.on
    BY <1>1, <1>4, <1>6, <1>8 DEF Good, NotLost
  <2>2. CASE \E i \in 1 .. Len(down) : down[i].id = c
    BY <1>12, <2>2
  <2>3. CASE call[c] # Idle /\ call[c].socket = q.on
    <3>1. c # m.id
      BY <1>9, <2>3, CallsAreNumbers
    <3> QED  BY <1>10, <2>3, <3>1
  <2>4. CASE \E i \in 1 .. Len(up) : i # 1 /\ up[i].id = c
    BY <1>3, <2>4
  <2>5. CASE up[1].id = c
    <3>1. c = m.id /\ m.id # 0
      BY <1>2, <2>5, CallsAreNumbers
    <3>2. CASE \E pc, t : call' = [call EXCEPT ![m.id] = Handler(pc, socket, Organization, t)]
                          /\ pc \in {"org lookup", "ticket lookup"}
      <4>1. PICK pc, t : call' = [call EXCEPT ![m.id] = Handler(pc, socket, Organization, t)]
                         /\ pc \in {"org lookup", "ticket lookup"}
        BY <3>2
      <4>2. call'[c] = Handler(pc, socket, Organization, t)
        BY <1>1, <3>1, <4>1
      <4>3. call'[c].socket = socket /\ call'[c].pc = pc
        BY <4>2 DEF Handler
      <4>4. pc # "idle" /\ Idle.pc = "idle"
        BY <4>1 DEF Idle
      <4>5. call'[c] # Idle
        BY <4>3, <4>4
      <4> QED  BY <1>6, <4>3, <4>5
    <3>3. CASE down' = Append(down, Command("refused", m.id))
      <4>1. PICK a : a = Command("refused", m.id)
        OBVIOUS
      <4>2. a \in Answers /\ a.id = m.id
        BY <1>9, <3>1, <4>1 DEF Command, Answers
      <4>3. Len(down) + 1 \in 1 .. Len(down') /\ down'[Len(down) + 1] = a
        BY <1>1, <1>12, <3>3, <4>1, <4>2, Appending
      <4> QED  BY <3>1, <4>2, <4>3
    <3> QED  BY <3>1, <3>2, <3>3 DEF ReceiveCases
  <2> QED  BY <2>1, <2>2, <2>3, <2>4, <2>5
<1>17. PendingKnown(Provider)'
  BY <1>1, <1>4, <1>5, <1>6, <1>8 DEF Good, PendingKnown, Live
<1>18. Awaited(Provider)'
  BY <1>1, <1>4, <1>5, <1>6 DEF Good, Awaited
<1>19. GoneCanceled(Provider, Mounted(page))'
  BY <1>1, <1>4, <1>5, <1>6 DEF GoneCanceled
<1>20. (Provider \in Providers /\ down \in Seq(Answers))'
  BY <1>5, <1>7, <1>12, ProvidersStay
<1> QED
  BY <1>13, <1>14, <1>15, <1>16, <1>17, <1>18, <1>19, <1>20 DEF Provided, Good

\* What a handler's step does to its command, and to what is in transit.
LEMMA HandleIs ==
  ASSUME ClientInv, GatewayTypeOK, NEW c \in Calls, Handle(c)
  PROVE  /\ HandlerStep(c) /\ call[c] # Idle /\ call[c].socket \in Sockets
         /\ call \in [Calls -> Handlers]
         /\ UNCHANGED <<up, socket, dataVars, pageVars, rooms, caughtUp, conn, member>>
         /\ \A d \in Calls : d # c => call'[d] = call[d]
         /\ \/ call'[c] = Idle
            \/ /\ call'[c] # Idle /\ call'[c].socket = call[c].socket
               /\ ForOf(call'[c].pc) = ForOf(call[c].pc) /\ down' = down
         /\ \/ down' = down /\ (call'[c] = Idle => call[c].socket # socket \/ ~ Ready)
            \/ /\ Ready /\ call[c].socket = socket /\ call'[c] = Idle
               /\ \E name \in {"joined", "refused"} : down' = Append(down, Command(name, c))
<1>1. /\ HandlerStep(c) /\ UNCHANGED <<up, socket, dataVars, pageVars, rooms, caughtUp>>
      /\ \/ down' = down /\ (call'[c] # Idle \/ call[c].socket # socket \/ ~ Ready)
         \/ /\ Ready /\ call[c].socket = socket /\ call'[c] = Idle
            /\ \E name \in {"joined", "refused"} : down' = Append(down, Command(name, c))
  BY DEF Handle
<1>2. /\ call[c] # Idle /\ call[c].socket \in Sockets /\ call \in [Calls -> Handlers]
      /\ member' = member /\ conn' = conn
  BY <1>1, HandlerStepIs
<1>3. CASE call' = [call EXCEPT ![c] = Idle]
  <2>1. call'[c] = Idle /\ \A d \in Calls : d # c => call'[d] = call[d]
    BY <1>2, <1>3
  <2> QED  BY <1>1, <1>2, <2>1
<1>4. CASE \E pc : /\ call' = [call EXCEPT ![c] = Handler(pc, call[c].socket, call[c].org, call[c].ticket)]
                   /\ ForOf(pc) = ForOf(call[c].pc)
                   /\ pc \in {"org found", "org missing", "ticket found", "ticket missing", "ticket exists"}
  <2>1. PICK pc : /\ call' = [call EXCEPT ![c] = Handler(pc, call[c].socket, call[c].org, call[c].ticket)]
                  /\ ForOf(pc) = ForOf(call[c].pc)
                  /\ pc \in {"org found", "org missing", "ticket found", "ticket missing", "ticket exists"}
    BY <1>4
  <2>2. PICK h : h = Handler(pc, call[c].socket, call[c].org, call[c].ticket)
    OBVIOUS
  <2>3. h.pc = pc /\ h.socket = call[c].socket
    BY <2>2 DEF Handler
  <2>4. pc # "idle" /\ Idle.pc = "idle"
    BY <2>1 DEF Idle
  <2>5. h # Idle
    BY <2>3, <2>4
  <2>6. call'[c] = h /\ \A d \in Calls : d # c => call'[d] = call[d]
    BY <1>2, <2>1, <2>2
  <2> QED  BY <1>1, <1>2, <2>1, <2>3, <2>5, <2>6
<1> QED
  BY <1>1, <1>3, <1>4, HandlerStepIs

\* A handler goes on, or its answer is under way.
LEMMA HandleKeepsProvider ==
  ASSUME ClientInv, GatewayTypeOK, NEW c \in Calls, Handle(c)
  PROVE  Provided'
<1>1. /\ Good(Provider, down) /\ GoneCanceled(Provider, Mounted(page))
      /\ up \in Seq(Commands) /\ down \in Seq(Answers) /\ rooms \in Refs
      /\ UNCHANGED <<socket, page, flaws, rooms, conn, up>>
      /\ call[c] # Idle /\ call[c].socket \in Sockets /\ c # 0
      /\ \A d \in Calls : d # c => call'[d] = call[d]
  BY UpIsTyped, HandleIs, CallsAreNumbers DEF ClientInv, Provided, pageVars
<1>2. PICK p : p = Provider
  OBVIOUS
<1>3. PICK q : q = Provider'
  OBVIOUS
<1>4. /\ q.rooms = p.rooms /\ q.flaws = p.flaws /\ q.out = up /\ q.on = p.on
      /\ p.rooms = rooms /\ p.out = up
  BY <1>1, <1>2, <1>3, SameProvider, ProviderIs
<1>5. q \in Providers
  BY <1>1, <1>2, <1>3, <1>4 DEF Good, Providers, Provider
<1>6. \A d : Live(q, d) <=> Live(p, d)
  BY <1>4 DEF Live
<1>7. p.on = IF Ready THEN socket ELSE 0
  BY <1>2, ProviderIs
<1>8. call[c].socket = p.on <=> Ready /\ call[c].socket = socket
  BY <1>1, <1>7, CallsAreNumbers
<1>9. /\ down' \in Seq(Answers) /\ Len(down) \in Nat /\ Len(down') \in Nat
      /\ \A i \in 1 .. Len(down) : i \in 1 .. Len(down') /\ down'[i] = down[i]
      /\ \A i \in 1 .. Len(down') : \/ i \in 1 .. Len(down)
                                    \/ /\ i = Len(down) + 1 /\ down'[i].id = c /\ call'[c] = Idle
                                       /\ call[c].socket = p.on
      /\ call'[c] = Idle /\ call[c].socket = p.on => \E i \in 1 .. Len(down') : down'[i].id = c
  <2>1. CASE down' = down /\ (call'[c] = Idle => call[c].socket # socket \/ ~ Ready)
    BY <1>1, <1>8, <2>1
  <2>2. CASE /\ Ready /\ call[c].socket = socket /\ call'[c] = Idle
             /\ \E name \in {"joined", "refused"} : down' = Append(down, Command(name, c))
    <3>1. PICK name \in {"joined", "refused"} : down' = Append(down, Command(name, c))
      BY <2>2
    <3>2. PICK a : a = Command(name, c)
      OBVIOUS
    <3>3. a \in Answers /\ a.id = c
      BY <3>1, <3>2 DEF Command, Answers
    <3>4. /\ down' \in Seq(Answers) /\ Len(down) \in Nat /\ Len(down') = Len(down) + 1
          /\ \A i \in 1 .. Len(down) : down'[i] = down[i]
          /\ down'[Len(down) + 1] = a
          /\ \A i \in 1 .. Len(down') : i \in 1 .. Len(down) \/ i = Len(down) + 1
      BY <1>1, <3>1, <3>2, <3>3, Appending
    <3>5. Len(down) + 1 \in 1 .. Len(down') /\ \A i \in 1 .. Len(down) : i \in 1 .. Len(down')
      BY <3>4
    <3> QED  BY <1>8, <2>2, <3>3, <3>4, <3>5
  <2> QED  BY <2>1, <2>2, HandleIs
<1>10. SentOnce(Provider, down)'
  <2> SUFFICES ASSUME NEW i \in 1 .. Len(up), up[i].id # 0
               PROVE  /\ Live(q, up[i].id)
                      /\ up[i].name = JoinCommand(q.rooms.promise[up[i].id].for)
                      /\ call'[up[i].id] = Idle
                      /\ \A k \in 1 .. Len(up) : up[k].id = up[i].id => k = i
                      /\ \A k \in 1 .. Len(down') : down'[k].id # up[i].id
    BY <1>3, <1>4 DEF SentOnce, Live
  <2>1. PICK x : x = up[i].id
    OBVIOUS
  <2>2. /\ x \in Calls /\ Live(p, x) /\ up[i].name = JoinCommand(rooms.promise[x].for) /\ call[x] = Idle
        /\ \A k \in 1 .. Len(up) : up[k].id = x => k = i
        /\ \A k \in 1 .. Len(down) : down[k].id # x
    BY <1>1, <1>2, <2>1, SentAreCalls
  <2>3. x # c
    BY <1>1, <2>2
  <2>4. call'[x] = Idle
    BY <1>1, <2>2, <2>3
  <2>5. \A k \in 1 .. Len(down') : down'[k].id # x
    BY <1>9, <2>2, <2>3
  <2> QED
    BY <1>4, <1>6, <2>1, <2>2, <2>4, <2>5
<1>11. AnsweredOnce(Provider, down)'
  <2> SUFFICES ASSUME NEW i \in 1 .. Len(down'), down'[i].id # 0
               PROVE  /\ Live(q, down'[i].id)
                      /\ call'[down'[i].id] = Idle
                      /\ \A k \in 1 .. Len(down') : down'[k].id = down'[i].id => k = i
    BY <1>3, <1>4 DEF AnsweredOnce, Live
  <2>1. \A k \in 1 .. Len(down) : down[k].id # c
    BY <1>1, SentAreCalls
  <2>2. CASE i \in 1 .. Len(down)
    <3>1. /\ down'[i] = down[i] /\ down[i].id \in Calls /\ Live(p, down[i].id) /\ call[down[i].id] = Idle
          /\ \A k \in 1 .. Len(down) : down[k].id = down[i].id => k = i
      BY <1>1, <1>2, <1>9, <2>2, SentAreCalls
    <3>2. down[i].id # c
      BY <2>1, <2>2
    <3> QED  BY <1>1, <1>6, <1>9, <3>1, <3>2
  <2>3. CASE i \notin 1 .. Len(down)
    <3>1. i = Len(down) + 1 /\ down'[i].id = c /\ call'[c] = Idle /\ call[c].socket = p.on
      BY <1>9, <2>3
    <3>2. \A k \in 1 .. Len(down') : down'[k].id = c => k = i
      BY <1>9, <2>1, <3>1
    <3>3. Live(p, c)
      BY <1>1, <1>2, <3>1 DEF Good, Handled
    <3> QED  BY <1>6, <3>1, <3>2, <3>3
  <2> QED  BY <2>2, <2>3
<1>12. Handled(Provider)'
  <2> SUFFICES ASSUME NEW d \in Calls, call'[d] # Idle /\ call'[d].socket = q.on
               PROVE  Live(q, d) /\ q.rooms.promise[d].for = ForOf(call'[d].pc)
    BY <1>3, <1>4 DEF Handled, Live, ForOf
  <2>1. CASE d # c
    BY <1>1, <1>2, <1>4, <1>6, <2>1 DEF Good, Handled
  <2>2. CASE d = c
    <3>1. call'[c].socket = call[c].socket /\ ForOf(call'[c].pc) = ForOf(call[c].pc)
      BY <2>2, HandleIs
    <3>2. Live(p, c) /\ p.rooms.promise[c].for = ForOf(call[c].pc)
      BY <1>1, <1>2, <1>4, <2>2, <3>1 DEF Good, Handled
    <3> QED  BY <1>4, <1>6, <2>2, <3>1, <3>2
  <2> QED  BY <2>1, <2>2
<1>13. NotLost(Provider, down)'
  <2> SUFFICES ASSUME NEW d \in Calls, Live(q, d)
               PROVE  \/ \E i \in 1 .. Len(up) : up[i].id = d
                      \/ \E i \in 1 .. Len(down') : down'[i].id = d
                      \/ call'[d] # Idle /\ call'[d].socket = q.on
    BY <1>3, <1>4 DEF NotLost, Live
  <2>1. \/ \E i \in 1 .. Len(up) : up[i].id = d
        \/ \E i \in 1 .. Len(down) : down[i].id = d
        \/ call[d] # Idle /\ call[d].socket = q.on
    BY <1>1, <1>2, <1>4, <1>6 DEF Good, NotLost
  <2>2. CASE \E i \in 1 .. Len(down) : down[i].id = d
    BY <1>9, <2>2
  <2>3. CASE call[d] # Idle /\ call[d].socket = q.on /\ d # c
    BY <1>1, <2>3
  <2>4. CASE call[c].socket = q.on /\ d = c
    <3>1. CASE call'[c] = Idle
      BY <1>4, <1>9, <2>4, <3>1
    <3>2. CASE call'[c] # Idle
      <4>1. call'[c].socket = call[c].socket
        BY <3>2, HandleIs
      <4> QED  BY <2>4, <3>2, <4>1
    <3> QED  BY <3>1, <3>2
  <2> QED  BY <2>1, <2>2, <2>3, <2>4
<1>14. PendingKnown(Provider)'
  BY <1>1, <1>2, <1>3, <1>4, <1>6 DEF Good, PendingKnown, Live
<1>15. Awaited(Provider)'
  BY <1>1, <1>2, <1>3, <1>4 DEF Good, Awaited
<1>16. GoneCanceled(Provider, Mounted(page))'
  BY <1>1, <1>2, <1>3, <1>4 DEF GoneCanceled
<1>17. (Provider \in Providers /\ down \in Seq(Answers))'
  BY <1>3, <1>5, <1>9, ProvidersStay
<1> QED
  BY <1>10, <1>11, <1>12, <1>13, <1>14, <1>15, <1>16, <1>17 DEF Provided, Good

-----------------------------------------------------------------------------
(* Settling.                                                                *)

\* A promise is settled, or rejected by its timer when it is not live; what
\* settled it was the first answer.
Settled(p, q, c, answers, rest) ==
  /\ q \in Providers /\ q.out = p.out /\ q.on = p.on /\ p.flaws \subseteq q.flaws
  /\ q.rooms.promise = [p.rooms.promise EXCEPT ![c] = Free]
  /\ q.rooms.joins = [p.rooms.joins EXCEPT ![p.rooms.promise[c].for] = 0]
  /\ \/ ~ Live(p, c) /\ rest = answers
     \/ answers # <<>> /\ Head(answers).id = c /\ rest = Tail(answers)

\* A promise that is settled takes its number and its answer with it.
LEMMA SettledKeeps ==
  ASSUME NEW p, NEW q, NEW answers, NEW rest, NEW mounted, NEW c \in Calls,
         Good(p, answers), GoneCanceled(p, mounted), p.rooms.promise[c] # Free,
         Settled(p, q, c, answers, rest)
  PROVE  Good(q, rest) /\ GoneCanceled(q, mounted)
<1>1. /\ p \in Providers /\ q \in Providers /\ answers \in Seq(Answers)
      /\ p.rooms.promise \in [Calls -> {Free} \cup Promises]
      /\ p.rooms.joins \in [Rooms -> {0} \cup Calls]
      /\ p.out \in Seq(Commands) /\ Len(p.out) \in Nat
      /\ q.out = p.out /\ q.on = p.on /\ p.flaws \subseteq q.flaws /\ c # 0
  BY CallsAreNumbers DEF Good, Settled, Providers, Refs
<1>2. /\ q.rooms.promise[c] = Free
      /\ \A d \in Calls : d # c => q.rooms.promise[d] = p.rooms.promise[d]
  BY <1>1 DEF Settled
<1>3. /\ \A r \in Rooms : q.rooms.joins[r] # 0 =>
           q.rooms.joins[r] = p.rooms.joins[r] /\ r # p.rooms.promise[c].for
      /\ \A r \in Rooms : p.rooms.joins[r] \in {0} \cup Calls
  <2>1. p.rooms.promise[c] \in Promises
    BY <1>1
  <2>2. p.rooms.promise[c].for \in Rooms
    BY <2>1 DEF Promises
  <2> QED  BY <1>1, <2>2 DEF Settled
<1>4. /\ ~ Live(q, c) /\ \A d \in Calls : d # c => (Live(q, d) <=> Live(p, d))
  BY <1>1, <1>2 DEF Live
<1>5. /\ \A i \in 1 .. Len(p.out) : p.out[i].id # 0 => p.out[i].id \in Calls
      /\ \A i \in 1 .. Len(answers) : answers[i].id # 0 => answers[i].id \in Calls
  <2>1. ASSUME NEW i \in 1 .. Len(p.out), p.out[i].id # 0 PROVE p.out[i].id \in Calls
    <3>1. p.out[i] \in Commands
      BY <1>1
    <3> QED  BY <2>1, <3>1 DEF Commands
  <2>2. ASSUME NEW i \in 1 .. Len(answers), answers[i].id # 0 PROVE answers[i].id \in Calls
    <3>1. answers[i] \in Answers
      BY <1>1
    <3> QED  BY <2>2, <3>1 DEF Answers
  <2> QED  BY <2>1, <2>2
<1>6. rest \in Seq(Answers) /\ Len(rest) \in Nat /\ Len(answers) \in Nat
  <2>1. rest = answers \/ (answers # <<>> /\ rest = Tail(answers))
    BY DEF Settled
  <2>2. answers # <<>> => Tail(answers) \in Seq(Answers)
    BY <1>1
  <2>3. rest \in Seq(Answers)
    BY <1>1, <2>1, <2>2
  <2> QED  BY <1>1, <2>3
<1>7. \E k \in 0 .. 1 :
        /\ Len(answers) = Len(rest) + k
        /\ \A i \in 1 .. Len(rest) : rest[i] = answers[i + k] /\ i + k \in 1 .. Len(answers)
        /\ k = 0 => p.rooms.promise[c].on # p.on
        /\ k = 1 => 1 \in 1 .. Len(answers) /\ answers[1].id = c
  <2>1. CASE ~ Live(p, c) /\ rest = answers
    <3>1. p.rooms.promise[c].on # p.on
      BY <2>1 DEF Live
    <3>2. \A i \in 1 .. Len(rest) : i + 0 = i
      BY <1>6
    <3>3. /\ Len(answers) = Len(rest) + 0
          /\ \A i \in 1 .. Len(rest) : rest[i] = answers[i + 0] /\ i + 0 \in 1 .. Len(answers)
      BY <1>6, <2>1, <3>2
    <3> QED  BY <3>1, <3>3
  <2>2. CASE answers # <<>> /\ Head(answers).id = c /\ rest = Tail(answers)
    <3>1. /\ Len(answers) = Len(rest) + 1
          /\ \A i \in 1 .. Len(rest) : rest[i] = answers[i + 1] /\ i + 1 \in 1 .. Len(answers)
          /\ 1 \in 1 .. Len(answers) /\ answers[1].id = c
      BY <1>1, <1>6, <2>2, Heading
    <3> QED  BY <3>1
  <2> QED  BY <2>1, <2>2 DEF Settled
<1>15. PICK k \in 0 .. 1 :
        /\ Len(answers) = Len(rest) + k
        /\ \A i \in 1 .. Len(rest) : rest[i] = answers[i + k] /\ i + k \in 1 .. Len(answers)
        /\ k = 0 => p.rooms.promise[c].on # p.on
        /\ k = 1 => 1 \in 1 .. Len(answers) /\ answers[1].id = c
  BY <1>7
<1>8. SentOnce(q, rest)
  <2> SUFFICES ASSUME NEW i \in 1 .. Len(p.out), p.out[i].id # 0
               PROVE  /\ Live(q, p.out[i].id)
                      /\ p.out[i].name = JoinCommand(q.rooms.promise[p.out[i].id].for)
                      /\ call[p.out[i].id] = Idle
                      /\ \A j \in 1 .. Len(p.out) : p.out[j].id = p.out[i].id => j = i
                      /\ \A j \in 1 .. Len(rest) : rest[j].id # p.out[i].id
    BY <1>1 DEF SentOnce
  <2>1. PICK x : x = p.out[i].id
    OBVIOUS
  <2>2. /\ x \in Calls /\ Live(p, x) /\ p.out[i].name = JoinCommand(p.rooms.promise[x].for)
        /\ call[x] = Idle
        /\ \A j \in 1 .. Len(p.out) : p.out[j].id = x => j = i
        /\ \A j \in 1 .. Len(answers) : answers[j].id # x
    BY <1>5, <2>1 DEF Good, SentOnce
  <2>3. x # c
    BY <1>6, <1>15, <2>2 DEF Live
  <2>4. \A j \in 1 .. Len(rest) : rest[j].id # x
    BY <1>6, <1>15, <2>2
  <2> QED
    BY <1>2, <1>4, <2>1, <2>2, <2>3, <2>4
<1>9. AnsweredOnce(q, rest)
  <2> SUFFICES ASSUME NEW i \in 1 .. Len(rest), rest[i].id # 0
               PROVE  /\ Live(q, rest[i].id)
                      /\ call[rest[i].id] = Idle
                      /\ \A j \in 1 .. Len(rest) : rest[j].id = rest[i].id => j = i
    BY DEF AnsweredOnce
  <2>1. PICK x : x = rest[i].id
    OBVIOUS
  <2>2. /\ x \in Calls /\ Live(p, x) /\ call[x] = Idle
        /\ \A j \in 1 .. Len(answers) : answers[j].id = x => j = i + k
    BY <1>5, <1>6, <1>15, <2>1 DEF Good, AnsweredOnce
  <2>3. x # c
    <3>1. CASE k = 0
      BY <1>6, <1>15, <2>2, <3>1 DEF Live
    <3>2. CASE k = 1
      BY <1>6, <1>15, <2>2, <3>2
    <3> QED  BY <3>1, <3>2
  <2>4. \A j \in 1 .. Len(rest) : rest[j].id = x => j = i
    BY SMTT(40), <1>6, <1>15, <2>2
  <2> QED
    BY <1>4, <2>1, <2>2, <2>3, <2>4
<1>10. Handled(q)
  <2> SUFFICES ASSUME NEW d \in Calls, call[d] # Idle /\ call[d].socket = p.on
               PROVE  Live(q, d) /\ q.rooms.promise[d].for = ForOf(call[d].pc)
    BY <1>1 DEF Handled
  <2>1. Live(p, d) /\ p.rooms.promise[d].for = ForOf(call[d].pc)
    BY DEF Good, Handled
  <2>2. d # c
    <3>1. k = 1 => call[c] = Idle
      BY <1>1, <1>6, <1>15 DEF Good, AnsweredOnce
    <3> QED  BY <1>6, <1>15, <2>1, <3>1 DEF Live
  <2> QED  BY <1>2, <1>4, <2>1, <2>2
<1>11. NotLost(q, rest)
  <2> SUFFICES ASSUME NEW d \in Calls, Live(q, d)
               PROVE  \/ \E i \in 1 .. Len(p.out) : p.out[i].id = d
                      \/ \E i \in 1 .. Len(rest) : rest[i].id = d
                      \/ call[d] # Idle /\ call[d].socket = p.on
    BY <1>1 DEF NotLost
  <2>1. d # c /\ Live(p, d)
    BY <1>4
  <2>2. \/ \E i \in 1 .. Len(p.out) : p.out[i].id = d
        \/ \E i \in 1 .. Len(answers) : answers[i].id = d
        \/ call[d] # Idle /\ call[d].socket = p.on
    BY <2>1 DEF Good, NotLost
  <2>3. ASSUME NEW i \in 1 .. Len(answers), answers[i].id = d
        PROVE  \E j \in 1 .. Len(rest) : rest[j].id = d
    <3>1. i - k \in 1 .. Len(rest)
      BY <1>6, <1>15, <2>1, <2>3
    <3>2. rest[i - k] = answers[i]
      BY <1>6, <1>15, <3>1
    <3> QED  BY <2>3, <3>1, <3>2
  <2> QED  BY <2>2, <2>3
<1>12. PendingKnown(q)
  <2> SUFFICES ASSUME NEW r \in Rooms, q.rooms.joins[r] # 0
               PROVE  Live(q, q.rooms.joins[r]) /\ q.rooms.promise[q.rooms.joins[r]].for = r
    BY DEF PendingKnown
  <2>1. PICK d : d = q.rooms.joins[r]
    OBVIOUS
  <2>2. d \in Calls /\ Live(p, d) /\ p.rooms.promise[d].for = r /\ r # p.rooms.promise[c].for
    BY <1>3, <2>1 DEF Good, PendingKnown
  <2> QED  BY <1>2, <1>4, <2>1, <2>2
<1>13. Awaited(q)
  <2> SUFFICES ASSUME NEW d \in Calls, q.rooms.promise[d] # Free
               PROVE  LET ws == q.rooms.promise[d].waiters IN
                      /\ ws # <<>>
                      /\ q.rooms.promise[d].for = "ticket" =>
                           \A i \in 1 .. Len(ws) : ws[i].bridge = "ticket"
                      /\ q.rooms.promise[d].for = "org" /\ "alone" \notin q.flaws =>
                           \E i \in 1 .. Len(ws) : ws[i].bridge = "org"
    BY DEF Awaited
  <2>1. d # c /\ q.rooms.promise[d] = p.rooms.promise[d]
    BY <1>2
  <2> QED  BY <1>1, <2>1 DEF Good, Awaited
<1>14. GoneCanceled(q, mounted)
  <2> SUFFICES ASSUME NEW d \in Calls, q.rooms.promise[d] # Free,
                      NEW i \in 1 .. Len(q.rooms.promise[d].waiters),
                      \/ q.rooms.promise[d].waiters[i].bridge \notin mounted
                      \/ q.rooms.promise[d].on # q.on
               PROVE  q.rooms.promise[d].waiters[i].canceled
    BY DEF GoneCanceled
  <2>1. d # c /\ q.rooms.promise[d] = p.rooms.promise[d]
    BY <1>2
  <2> QED  BY <1>1, <2>1 DEF GoneCanceled
<1> QED
  BY <1>1, <1>6, <1>8, <1>9, <1>10, <1>11, <1>12, <1>13, <1>14 DEF Good

\* Events are not answers.
LEMMA EventsKeep ==
  ASSUME NEW p, NEW answers, NEW rest, Good(p, answers), rest \in Seq(Answers),
         \/ /\ Len(rest) = Len(answers) + 1 /\ rest[Len(rest)].id = 0
            /\ \A i \in 1 .. Len(answers) : rest[i] = answers[i]
         \/ answers # <<>> /\ Head(answers).id = 0 /\ rest = Tail(answers)
  PROVE  Good(p, rest)
<1>1. answers \in Seq(Answers) /\ Len(answers) \in Nat /\ Len(rest) \in Nat /\ 0 \notin Calls
  BY CallsAreNumbers DEF Good
<1>2. PICK k \in 0 .. 1 :
        /\ \A i \in 1 .. Len(rest) : rest[i].id # 0 =>
             rest[i].id = answers[i + k].id /\ i + k \in 1 .. Len(answers)
        /\ \A i \in 1 .. Len(answers) : answers[i].id # 0 =>
             i - k \in 1 .. Len(rest) /\ rest[i - k].id = answers[i].id
  <2>1. CASE /\ Len(rest) = Len(answers) + 1 /\ rest[Len(rest)].id = 0
             /\ \A i \in 1 .. Len(answers) : rest[i] = answers[i]
    <3>1. PICK k \in 0 .. 1 : k = 0
      OBVIOUS
    <3>2. /\ \A i \in 1 .. Len(rest) : rest[i].id # 0 =>
                rest[i].id = answers[i + k].id /\ i + k \in 1 .. Len(answers)
          /\ \A i \in 1 .. Len(answers) : answers[i].id # 0 =>
                i - k \in 1 .. Len(rest) /\ rest[i - k].id = answers[i].id
      BY <1>1, <2>1, <3>1
    <3> QED  BY <3>1, <3>2
  <2>2. CASE answers # <<>> /\ Head(answers).id = 0 /\ rest = Tail(answers)
    <3>1. PICK k \in 0 .. 1 : k = 1
      OBVIOUS
    <3>2. /\ Head(answers) = answers[1] /\ Len(rest) = Len(answers) - 1
          /\ \A i \in 1 .. Len(answers) - 1 : rest[i] = answers[i + 1]
      BY <1>1, <2>2, Heading
    <3>3. /\ \A i \in 1 .. Len(rest) : rest[i].id # 0 =>
                rest[i].id = answers[i + k].id /\ i + k \in 1 .. Len(answers)
          /\ \A i \in 1 .. Len(answers) : answers[i].id # 0 =>
                i - k \in 1 .. Len(rest) /\ rest[i - k].id = answers[i].id
      <4>1. ASSUME NEW i \in 1 .. Len(answers), answers[i].id # 0
            PROVE  i - 1 \in 1 .. Len(rest) /\ rest[i - 1].id = answers[i].id
        <5>1. i # 1
          BY <2>2, <3>2, <4>1
        <5> QED  BY <1>1, <3>2, <5>1
      <4> QED  BY <1>1, <3>1, <3>2, <4>1
    <3> QED  BY <3>1, <3>3
  <2> QED  BY <2>1, <2>2
<1>3. SentOnce(p, rest)
  <2> SUFFICES ASSUME NEW i \in 1 .. Len(p.out), p.out[i].id # 0
               PROVE  \A j \in 1 .. Len(rest) : rest[j].id # p.out[i].id
    BY DEF Good, SentOnce
  <2> QED  BY <1>1, <1>2 DEF Good, SentOnce
<1>4. AnsweredOnce(p, rest)
  <2> SUFFICES ASSUME NEW i \in 1 .. Len(rest), rest[i].id # 0
               PROVE  /\ Live(p, rest[i].id)
                      /\ call[rest[i].id] = Idle
                      /\ \A j \in 1 .. Len(rest) : rest[j].id = rest[i].id => j = i
    BY DEF AnsweredOnce
  <2>1. /\ Live(p, rest[i].id) /\ call[rest[i].id] = Idle
        /\ \A j \in 1 .. Len(answers) : answers[j].id = rest[i].id => j = i + k
    BY <1>2 DEF Good, AnsweredOnce
  <2>2. \A j \in 1 .. Len(rest) : rest[j].id = rest[i].id => j = i
    BY <1>1, <1>2, <2>1
  <2> QED  BY <2>1, <2>2
<1>5. NotLost(p, rest)
  <2> SUFFICES ASSUME NEW c \in Calls, Live(p, c)
               PROVE  \/ \E i \in 1 .. Len(p.out) : p.out[i].id = c
                      \/ \E i \in 1 .. Len(rest) : rest[i].id = c
                      \/ call[c] # Idle /\ call[c].socket = p.on
    BY DEF NotLost
  <2>1. ASSUME NEW i \in 1 .. Len(answers), answers[i].id = c
        PROVE  \E j \in 1 .. Len(rest) : rest[j].id = c
    BY <1>1, <1>2, <2>1
  <2> QED  BY <2>1 DEF Good, NotLost
<1> QED
  BY <1>3, <1>4, <1>5 DEF Good

-----------------------------------------------------------------------------
(* The browser's steps.                                                     *)

\* More bridges are mounted.
LEMMA WiderIsWeaker ==
  ASSUME NEW p, NEW some, NEW more, some \subseteq more, GoneCanceled(p, some)
  PROVE  GoneCanceled(p, more)
BY DEF GoneCanceled

\* The bridges of a page.
LEMMA MountedAreRooms == \A pg \in {"none", "org", "ticket"} : Mounted(pg) \in SUBSET Rooms
BY DEF Mounted, Rooms

\* A step that stores what the provider returned.
LEMMA ProviderBecomes ==
  ASSUME NEW q \in Providers, Becomes(q), q.on = IF Ready' THEN socket' ELSE 0
  PROVE  Provider' = q
BY DEF Providers, Becomes, Provider

\* A promise is of the present connection, or it was there before.
Outlived ==
  \A d \in Calls : rooms'.promise[d] # Free =>
    \/ rooms'.promise[d].on = Provider'.on
    \/ rooms.promise[d] # Free /\ rooms'.promise[d].on = rooms.promise[d].on

\* Steps that leave the provider alone.
LEMMA EventKeepsProvider ==
  ASSUME ClientInv, UNCHANGED <<gatewayVars, up, socket, page, rooms, flaws>>,
         down' = down \/ down' = Append(down, Command("event", 0))
  PROVE  Provided'
<1>1. Good(Provider, down) /\ GoneCanceled(Provider, Mounted(page)) /\ down \in Seq(Answers)
  BY UpIsTyped DEF ClientInv, Provided
<1>2. Good(Provider, down')
  <2>1. CASE down' = down
    BY <1>1, <2>1
  <2>2. CASE down' = Append(down, Command("event", 0))
    <3>1. PICK a : a = Command("event", 0)
      OBVIOUS
    <3>2. a \in Answers /\ a.id = 0
      BY <3>1 DEF Command, Answers
    <3>3. /\ down' \in Seq(Answers) /\ Len(down') = Len(down) + 1 /\ down'[Len(down')].id = 0
          /\ \A i \in 1 .. Len(down) : down'[i] = down[i]
      BY <1>1, <2>2, <3>1, <3>2, Appending
    <3> QED  BY <1>1, <3>3, EventsKeep
  <2> QED  BY <2>1, <2>2
<1>3. call' = call /\ Provider' = Provider /\ Mounted(page)' = Mounted(page)
  BY DEF gatewayVars, Provider, Ready
<1> QED
  BY <1>1, <1>2, <1>3, GoodNext

\* A new connection: no answer is awaited on it yet.
LEMMA ConnectIs ==
  ASSUME ClientInv, Connect, NEW p, p = [Provider EXCEPT !.on = socket + 1]
  PROVE  /\ Good(p, down) /\ GoneCanceled(p, Mounted(page)) /\ \A c \in Calls : ~ Live(p, c)
         /\ p.rooms = rooms /\ p.out = <<>> /\ p.flaws = flaws /\ p.on = socket + 1 /\ p.on # 0
         /\ Unused(p) # {}
         /\ socket + 1 \in Sockets /\ page \in {"none", "org", "ticket"} /\ down = <<>> /\ rooms.joined = {}
<1>1. /\ ~ Ready /\ socket + 1 \in Sockets /\ Spare
  BY DEF Connect
<1>2. /\ Good(Provider, down) /\ GoneCanceled(Provider, Mounted(page))
      /\ socket \in {0} \cup Sockets /\ page \in {"none", "org", "ticket"}
      /\ up = <<>> /\ down = <<>> /\ rooms \in Refs /\ Provider \in Providers /\ rooms.joined = {}
  BY <1>1, UpIsTyped DEF ClientInv, Provided, Kept, Severed, Good
<1>3. /\ Provider.rooms = rooms /\ Provider.out = <<>> /\ Provider.flaws = flaws /\ Provider.on = 0
  BY <1>1, <1>2, ProviderIs
<1>4. /\ p.rooms = rooms /\ p.out = <<>> /\ p.flaws = flaws /\ p.on = socket + 1 /\ p.on # 0
      /\ p \in Providers
  BY <1>1, <1>2, <1>3, CallsAreNumbers DEF Providers
<1>5. \A c \in Calls : ~ Live(p, c)
  <2> SUFFICES ASSUME NEW c \in Calls, Live(p, c) PROVE FALSE
    OBVIOUS
  <2>1. rooms.promise[c] # Free /\ rooms.promise[c].on = socket + 1
    BY <1>4 DEF Live
  <2>2. rooms.promise[c].on <= socket
    BY <2>1 DEF ClientInv, Untouched
  <2>3. socket \in Int
    BY <1>2, CallsAreNumbers
  <2> QED  BY <2>1, <2>2, <2>3
<1>6. \A c \in Calls : call[c] # Idle => call[c].socket # socket + 1
  <2> SUFFICES ASSUME NEW c \in Calls, call[c] # Idle, call[c].socket = socket + 1 PROVE FALSE
    OBVIOUS
  <2>1. call[c].socket <= socket
    BY DEF ClientInv, Untouched
  <2>2. socket \in Int
    BY <1>2, CallsAreNumbers
  <2> QED  BY <2>1, <2>2
<1>7. Good(p, down)
  <2>1. SentOnce(p, down) /\ AnsweredOnce(p, down)
    BY <1>2, <1>4 DEF SentOnce, AnsweredOnce
  <2>2. Handled(p) /\ NotLost(p, down)
    BY <1>4, <1>5, <1>6 DEF Handled, NotLost
  <2>3. PendingKnown(p)
    BY <1>1, <1>4 DEF PendingKnown, ClientInv, Severed
  <2>4. Awaited(p)
    BY <1>2, <1>3, <1>4 DEF Good, Awaited
  <2> QED  BY <1>2, <1>4, <2>1, <2>2, <2>3, <2>4 DEF Good
<1>8. GoneCanceled(p, Mounted(page))
  <2> SUFFICES ASSUME NEW c \in Calls, rooms.promise[c] # Free,
                      NEW i \in 1 .. Len(rooms.promise[c].waiters)
               PROVE  rooms.promise[c].waiters[i].canceled
    BY <1>4 DEF GoneCanceled
  <2>1. rooms.promise[c] \in Promises
    BY <1>2 DEF Refs
  <2>2. rooms.promise[c].on # 0
    BY <2>1, CallsAreNumbers DEF Promises
  <2> QED  BY <1>2, <1>3, <2>2 DEF GoneCanceled
<1>9. Unused(p) # {}
  <2>1. Unused(p) = Unused(Provider)
    BY <1>3, <1>4 DEF Unused
  <2> QED  BY <1>1, <2>1 DEF Spare
<1> QED
  BY <1>1, <1>2, <1>4, <1>5, <1>7, <1>8, <1>9

\* A new connection: the mounted bridges join.
LEMMA ConnectKeepsProvider ==
  ASSUME ClientInv, GatewayTypeOK, Connect
  PROVE  /\ Provided' /\ Outlived /\ Ready' /\ conn'[socket'] = "open" /\ flaws \subseteq flaws'
         /\ Provider' = Effects([Provider EXCEPT !.on = socket + 1], Mounted(page))
<1>1. PICK p : p = [Provider EXCEPT !.on = socket + 1]
  OBVIOUS
<1>2. PICK q : q = Effects(p, Mounted(page))
  OBVIOUS
<1>3. /\ HandleConnection(socket + 1) /\ socket' = socket + 1
      /\ Becomes(q) /\ UNCHANGED <<down, page>>
  BY <1>1, <1>2 DEF Connect
<1>4. /\ Good(p, down) /\ GoneCanceled(p, Mounted(page))
      /\ p.rooms = rooms /\ p.flaws = flaws /\ p.on = socket + 1 /\ p.on # 0
      /\ Unused(p) # {} /\ socket + 1 \in Sockets /\ page \in {"none", "org", "ticket"}
  BY <1>1, ConnectIs
<1>5. PICK bridges : bridges = Mounted(page)
  OBVIOUS
<1>6. bridges \in SUBSET Rooms
  BY <1>4, <1>5, MountedAreRooms
<1>7. Good(q, down) /\ Extends(p, q) /\ GoneCanceled(q, bridges)
  BY <1>2, <1>4, <1>5, <1>6, EffectsKeep
<1>8. q \in Providers /\ q.on = socket + 1
  BY <1>4, <1>7 DEF Good, Extends
<1>9. Ready' /\ conn'[socket'] = "open" /\ call' = call
  <2>1. conn[socket + 1] = "new" /\ conn' = [conn EXCEPT ![socket + 1] = "open"] /\ call' = call
    BY <1>3 DEF HandleConnection
  <2>2. conn'[socket + 1] = "open"
    BY <1>4, <2>1 DEF GatewayTypeOK
  <2>3. socket + 1 > 0
    <3>1. \A s \in Sockets : s > 0
      BY ClientAssumption
    <3> QED  BY <1>4, <3>1
  <2> QED  BY <1>3, <2>1, <2>2, <2>3 DEF Ready
<1>10. Provider' = q
  BY <1>3, <1>8, <1>9, ProviderBecomes
<1>11. /\ rooms' = q.rooms /\ flaws' = q.flaws /\ Provider'.on = socket + 1
  BY <1>3, <1>8, <1>10 DEF Becomes
<1>12. Outlived /\ flaws \subseteq flaws'
  BY <1>4, <1>7, <1>11 DEF Extends, Outlived
<1> QED
  BY <1>1, <1>2, <1>3, <1>5, <1>7, <1>9, <1>10, <1>12, GoodNext

\* The connection is lost: every promise outlives it, canceled.
LEMMA DisconnectKeepsProvider ==
  ASSUME ClientInv, GatewayTypeOK, Disconnect
  PROVE  /\ Provided' /\ Outlived /\ ~ Ready'
         /\ rooms'.joined = {} /\ \A r \in Rooms : rooms'.joins[r] = 0
<1>1. PICK o : o = "org"
  OBVIOUS
<1>2. PICK t : t = "ticket"
  OBVIOUS
<1>3. o \in Rooms /\ t \in Rooms /\ Rooms = {o, t}
  BY <1>1, <1>2 DEF Rooms
<1>4. PICK r : r = Cancel(Provider, o)
  OBVIOUS
<1>5. PICK s : s = Cancel(r, t)
  OBVIOUS
<1>6. PICK q : q = Provider'
  OBVIOUS
<1>7. /\ Ready /\ HandleDisconnect(socket) /\ up' = <<>> /\ down' = <<>>
      /\ rooms' = [NoRooms EXCEPT !.promise = s.rooms.promise]
      /\ UNCHANGED <<socket, page, flaws>>
  BY <1>1, <1>2, <1>4, <1>5 DEF Disconnect, pageVars
<1>8. /\ Good(Provider, down) /\ GoneCanceled(Provider, Mounted(page))
      /\ socket \in Sockets /\ page \in {"none", "org", "ticket"}
  BY <1>7, SocketsAndOn DEF ClientInv, Provided, Kept
<1>9. PICK mounted : mounted = Mounted(page)
  OBVIOUS
<1>10. PICK left : left = mounted \ {o}
  OBVIOUS
<1>11. Good(r, down) /\ GoneCanceled(r, left) /\ r.flaws = flaws
  <2>1. r.flaws = Provider.flaws
    BY <1>4 DEF Cancel
  <2> QED  BY <1>3, <1>4, <1>8, <1>9, <1>10, <2>1, CancelKeeps, ProviderIs
<1>12. Good(s, down) /\ GoneCanceled(s, left \ {t}) /\ s.flaws = flaws
  <2>1. s.flaws = r.flaws
    BY <1>5 DEF Cancel
  <2> QED  BY <1>3, <1>5, <1>11, <2>1, CancelKeeps
<1>13. s \in Providers /\ s.rooms \in Refs /\ s.rooms.promise \in [Calls -> {Free} \cup Promises]
  BY <1>12 DEF Good, Providers, Refs
<1>14. ~ Ready' /\ call' = call
  <2>1. conn' = [conn EXCEPT ![socket] = "closed"] /\ call' = call
    BY <1>7 DEF HandleDisconnect
  <2> QED  BY <1>7, <1>8, <2>1 DEF Ready, GatewayTypeOK
<1>15. /\ q.rooms = rooms' /\ q.out = <<>> /\ q.on = 0 /\ q.flaws = flaws
       /\ rooms'.promise = s.rooms.promise /\ rooms'.joined = {}
       /\ rooms'.joins = [x \in Rooms |-> 0]
       /\ q = [rooms |-> rooms', out |-> <<>>, on |-> 0, flaws |-> flaws]
  BY <1>6, <1>7, <1>14 DEF Provider, NoRooms, Rooms
<1>16. rooms' \in Refs
  BY <1>7, <1>13 DEF NoRooms, Refs, Rooms
<1>17. q \in Providers
  BY <1>12, <1>13, <1>15, <1>16 DEF Providers
<1>18. \A c \in Calls : ~ Live(q, c)
  <2> SUFFICES ASSUME NEW c \in Calls, Live(q, c) PROVE FALSE
    OBVIOUS
  <2>1. s.rooms.promise[c] \in Promises /\ s.rooms.promise[c].on = 0
    BY <1>13, <1>15 DEF Live
  <2> QED  BY <2>1, CallsAreNumbers DEF Promises
<1>19. Good(q, <<>>)
  <2>1. SentOnce(q, <<>>) /\ AnsweredOnce(q, <<>>)
    BY <1>15 DEF SentOnce, AnsweredOnce
  <2>2. Handled(q)
    BY <1>15, HandlerKinds, CallsAreNumbers DEF Handled, GatewayTypeOK
  <2>3. NotLost(q, <<>>)
    BY <1>18 DEF NotLost
  <2>4. PendingKnown(q)
    BY <1>15 DEF PendingKnown
  <2>5. Awaited(q)
    BY <1>12, <1>15 DEF Good, Awaited
  <2> QED  BY <1>17, <2>1, <2>2, <2>3, <2>4, <2>5 DEF Good
<1>20. GoneCanceled(q, mounted)
  <2> SUFFICES ASSUME NEW c \in Calls, s.rooms.promise[c] # Free,
                      NEW i \in 1 .. Len(s.rooms.promise[c].waiters)
               PROVE  s.rooms.promise[c].waiters[i].canceled
    BY <1>15 DEF GoneCanceled
  <2>1. s.rooms.promise[c] \in Promises
    BY <1>13
  <2>2. s.rooms.promise[c].waiters \in Seq(Waiters)
    BY <2>1 DEF Promises
  <2>3. s.rooms.promise[c].waiters[i] \in Waiters
    BY <2>2
  <2>4. s.rooms.promise[c].waiters[i].bridge \in {o, t}
    BY <1>3, <2>3 DEF Waiters
  <2> QED  BY <1>10, <1>12, <2>4 DEF GoneCanceled
<1>21. Outlived
  <2>1. Similar(Provider, s)
    <3>1. Similar(Provider, r) /\ Similar(r, s)
      BY <1>3, <1>4, <1>5, <1>8, <1>9, <1>11, CancelKeeps
    <3>2. Len(Provider.out) \in Nat /\ r.out = Provider.out /\ s.out = r.out
      BY <1>4, <1>5, <1>8 DEF Cancel, Good, Providers
    <3> QED  BY <3>1, <3>2 DEF Similar
  <2> QED  BY <1>15, <2>1, ProviderIs DEF Outlived, Similar
<1> QED
  BY <1>6, <1>7, <1>9, <1>14, <1>15, <1>19, <1>20, <1>21, GoodNext

\* A promise of an earlier connection is rejected.
LEMMA TimeOutKeepsProvider ==
  ASSUME ClientInv, NEW c \in Calls, TimeOut(c)
  PROVE  /\ Provided' /\ Outlived
         /\ rooms'.joined = rooms.joined /\ \A r \in Rooms : rooms'.joins[r] \in {0, rooms.joins[r]}
         /\ \A d \in Calls : Live(Provider, d) => rooms'.promise[d] = rooms.promise[d]
<1>1. PICK q : q = Provider'
  OBVIOUS
<1>2. PICK p : p = Provider
  OBVIOUS
<1>3. /\ Good(p, down) /\ GoneCanceled(p, Mounted(page)) /\ rooms \in Refs /\ p \in Providers
      /\ socket \in {0} \cup Sockets
      /\ rooms.promise[c] # Free /\ (rooms.promise[c].on # socket \/ ~ Ready)
      /\ rooms' = [rooms EXCEPT !.promise[c] = Free, !.joins[rooms.promise[c].for] = 0]
      /\ UNCHANGED <<up, down, socket, page, flaws, conn, call>>
  BY <1>2, UpIsTyped DEF ClientInv, Provided, Kept, TimeOut, gatewayVars, linkVars, pageVars, Good
<1>4. /\ p.rooms = rooms /\ p.out = up /\ p.flaws = flaws /\ p.on = IF Ready THEN socket ELSE 0
      /\ q.rooms = rooms' /\ q.out = up /\ q.flaws = flaws /\ q.on = p.on
      /\ q = [rooms |-> rooms', out |-> up, on |-> p.on, flaws |-> flaws]
  BY <1>1, <1>2, <1>3 DEF Provider, Ready
<1>5. rooms.promise[c] \in Promises
  BY <1>3 DEF Refs
<1>6. rooms.promise[c].on \in Sockets /\ rooms.promise[c].for \in Rooms
  BY <1>5 DEF Promises
<1>7. ~ Live(p, c)
  BY <1>3, <1>4, <1>6, CallsAreNumbers DEF Live
<1>8. /\ rooms'.promise = [rooms.promise EXCEPT ![c] = Free]
      /\ rooms'.joins = [rooms.joins EXCEPT ![rooms.promise[c].for] = 0]
      /\ rooms' \in Refs
  BY <1>3, <1>6 DEF Refs
<1>9. q \in Providers
  BY <1>3, <1>4, <1>8 DEF Providers
<1>10. Settled(p, q, c, down, down)
  BY <1>4, <1>7, <1>8, <1>9 DEF Settled
<1>11. PICK mounted : mounted = Mounted(page)
  OBVIOUS
<1>12. Good(q, down) /\ GoneCanceled(q, mounted)
  BY <1>3, <1>4, <1>10, <1>11, SettledKeeps
<1>13. /\ rooms'.joined = rooms.joined /\ \A r \in Rooms : rooms'.joins[r] \in {0, rooms.joins[r]}
       /\ \A d \in Calls : d # c => rooms'.promise[d] = rooms.promise[d]
       /\ rooms'.promise[c] = Free
  BY <1>3, <1>8 DEF Refs
<1>14. Outlived
  BY <1>13 DEF Outlived
<1>15. \A d \in Calls : Live(Provider, d) => rooms'.promise[d] = rooms.promise[d]
  BY <1>2, <1>7, <1>13
<1> QED
  BY <1>1, <1>3, <1>11, <1>12, <1>13, <1>14, <1>15, GoodNext

\* Another page: what the cleanups and the effects start from.
LEMMA HastyIs ==
  ASSUME ClientInv,
         NEW hasty, hasty = IF Pending THEN {"hasty"} ELSE {},
         NEW p, p = [Provider EXCEPT !.flaws = @ \cup hasty]
  PROVE  /\ p.rooms = rooms /\ p.out = up /\ p.on = Provider.on /\ p.flaws = flaws \cup hasty
         /\ Good(p, down) /\ GoneCanceled(p, Mounted(page)) /\ Unused(p) = Unused(Provider)
         /\ \A c : Live(p, c) <=> Live(Provider, c)
         /\ Extends(Provider, p)
<1>1. PICK q : q = p
  OBVIOUS
<1>2. Good(Provider, down) /\ GoneCanceled(Provider, Mounted(page)) /\ Provider \in Providers
  BY DEF ClientInv, Provided, Good
<1>3. /\ q.rooms = Provider.rooms /\ q.out = Provider.out /\ q.on = Provider.on
      /\ q.flaws = Provider.flaws \cup hasty /\ q \in Providers
  BY <1>1, <1>2 DEF Providers, Flaws
<1>4. \A c : Live(q, c) <=> Live(Provider, c)
  BY <1>3 DEF Live
<1>5. Good(q, down)
  <2>1. SentOnce(q, down)
    BY <1>2, <1>3, <1>4 DEF Good, SentOnce
  <2>2. AnsweredOnce(q, down) /\ Handled(q) /\ NotLost(q, down)
    BY <1>2, <1>3, <1>4 DEF Good, AnsweredOnce, Handled, NotLost
  <2>3. PendingKnown(q)
    BY <1>2, <1>3, <1>4 DEF Good, PendingKnown
  <2>4. Awaited(q)
    BY <1>2, <1>3 DEF Good, Awaited
  <2> QED  BY <1>2, <1>3, <2>1, <2>2, <2>3, <2>4 DEF Good
<1>6. GoneCanceled(q, Mounted(page))
  BY <1>2, <1>3 DEF GoneCanceled
<1>7. Unused(q) = Unused(Provider)
  BY <1>3 DEF Unused
<1>8. Extends(Provider, q)
  BY <1>2, <1>3 DEF Extends, Providers
<1> QED
  BY <1>1, <1>3, <1>4, <1>5, <1>6, <1>7, <1>8, ProviderIs

\* The bridges that go leave.
LEMMA NavigateIs ==
  ASSUME ClientInv, Spare, NEW pg \in {"none", "org", "ticket"},
         NEW hasty, hasty = IF Pending THEN {"hasty"} ELSE {},
         NEW p, p = [Provider EXCEPT !.flaws = @ \cup hasty],
         NEW gone, gone = Mounted(page) \ Mounted(pg),
         NEW r, r = Cleanup(p, gone)
  PROVE  /\ Good(r, down) /\ GoneCanceled(r, Mounted(pg)) /\ Extends(p, r)
         /\ Unused(r) # {} /\ r.on = Provider.on
         /\ \A room \in gone : Ready => LeaveIn(r.out, room)
<1>1. PICK mounted : mounted = Mounted(pg)
  OBVIOUS
<1>2. PICK was : was = Mounted(page)
  OBVIOUS
<1>3. socket \in {0} \cup Sockets /\ page \in {"none", "org", "ticket"}
  BY DEF ClientInv, Kept
<1>4. was \in SUBSET Rooms /\ mounted \in SUBSET Rooms
  BY <1>1, <1>2, <1>3, MountedAreRooms
<1>5. Good(p, down) /\ GoneCanceled(p, was) /\ p.on = Provider.on /\ Unused(p) # {}
  BY <1>2, HastyIs DEF Spare
<1>6. gone \in SUBSET Rooms /\ was \ gone \subseteq mounted
  BY <1>1, <1>2, <1>4
<1>7. /\ Good(r, down) /\ Extends(p, r) /\ GoneCanceled(r, was \ gone) /\ Unused(p) \subseteq Unused(r)
      /\ \A room \in gone : p.on # 0 => LeaveIn(r.out, room)
  BY <1>5, <1>6, CleanupKeeps
<1>8. GoneCanceled(r, mounted)
  BY <1>6, <1>7, WiderIsWeaker
<1>9. r.on = Provider.on /\ Unused(r) # {}
  BY <1>5, <1>7 DEF Extends
<1>10. \A room \in gone : Ready => LeaveIn(r.out, room)
  BY <1>3, <1>5, <1>7, SocketsAndOn
<1> QED
  BY <1>1, <1>7, <1>8, <1>9, <1>10

\* Another page: the bridges that go leave, those that come join.
LEMMA NavigateKeepsProvider ==
  ASSUME ClientInv, NEW pg \in {"none", "org", "ticket"}, Navigate(pg)
  PROVE  /\ Provided' /\ Outlived /\ Extends(Provider, Provider')
         /\ Ready => \A room \in Mounted(page) \ Mounted(pg) : LeaveIn(up', room)
<1>1. PICK hasty : hasty = IF Pending THEN {"hasty"} ELSE {}
  OBVIOUS
<1>2. PICK p : p = [Provider EXCEPT !.flaws = @ \cup hasty]
  OBVIOUS
<1>3. PICK gone : gone = Mounted(page) \ Mounted(pg)
  OBVIOUS
<1>4. PICK come : come = Mounted(pg) \ Mounted(page)
  OBVIOUS
<1>5. PICK r : r = Cleanup(p, gone)
  OBVIOUS
<1>6. PICK q : q = IF Ready THEN Effects(r, come) ELSE r
  OBVIOUS
<1>7. PICK mounted : mounted = Mounted(pg)
  OBVIOUS
<1>8. /\ Spare /\ Becomes(q) /\ page' = pg
      /\ UNCHANGED <<down, socket, conn, call>>
  BY <1>1, <1>2, <1>3, <1>4, <1>5, <1>6 DEF Navigate, gatewayVars
<1>9. Provider \in Providers /\ socket \in {0} \cup Sockets
  BY DEF ClientInv, Provided, Kept, Good
<1>10. Good(p, down) /\ Extends(Provider, p) /\ p \in Providers
  BY <1>1, <1>2, HastyIs DEF Good
<1>11. /\ Good(r, down) /\ GoneCanceled(r, mounted) /\ Extends(p, r)
       /\ Unused(r) # {} /\ r.on = Provider.on
       /\ \A room \in gone : Ready => LeaveIn(r.out, room)
  <2>1. Spare
    BY <1>8
  <2>2. Good(r, down) /\ GoneCanceled(r, mounted) /\ Extends(p, r) /\ Unused(r) # {} /\ r.on = Provider.on
    BY <1>1, <1>2, <1>3, <1>5, <1>7, <2>1, NavigateIs
  <2>3. \A room \in gone : Ready => LeaveIn(r.out, room)
    BY <1>1, <1>2, <1>3, <1>5, <1>7, <2>1, NavigateIs
  <2> QED  BY <2>2, <2>3
<1>12. Good(q, down) /\ GoneCanceled(q, mounted) /\ q.on = Provider.on /\ Extends(r, q)
  <2>1. CASE Ready
    <3>1. r.on # 0
      BY <1>9, <1>11, <2>1, SocketsAndOn
    <3>2. q = Effects(r, come)
      BY <1>6, <2>1
    <3>3. come \in SUBSET Rooms /\ come \subseteq mounted
      BY <1>4, <1>7, MountedAreRooms
    <3>4. Good(q, down) /\ Extends(r, q) /\ GoneCanceled(q, mounted)
      BY <1>11, <3>1, <3>2, <3>3, EffectsKeep
    <3> QED  BY <1>11, <3>4 DEF Extends
  <2>2. CASE ~ Ready
    <3>1. Extends(r, r)
      BY <1>11 DEF Good, Extends, Providers
    <3> QED  BY <1>6, <1>11, <2>2, <3>1
  <2> QED  BY <2>1, <2>2
<1>13. q \in Providers /\ r \in Providers
  BY <1>11, <1>12 DEF Good
<1>14. Provider' = q
  <2>1. q.on = IF Ready' THEN socket' ELSE 0
    BY <1>8, <1>12, ProviderIs DEF Ready
  <2> QED  BY <1>8, <1>13, <2>1, ProviderBecomes
<1>15. Mounted(page)' = mounted
  BY <1>7, <1>8
<1>16. Extends(Provider, q)
  <2>1. Extends(Provider, r)
    BY <1>9, <1>10, <1>11, <1>13, ExtendsTwice
  <2> QED  BY <1>9, <1>12, <1>13, <2>1, ExtendsTwice
<1>17. /\ rooms' = q.rooms /\ up' = q.out
  BY <1>8 DEF Becomes
<1>18. Outlived
  BY <1>12, <1>14, <1>16, <1>17, ProviderIs DEF Extends, Outlived
<1>19. ASSUME Ready, NEW room \in gone PROVE LeaveIn(up', room)
  BY <1>11, <1>12, <1>13, <1>17, <1>19, LeaveStaysIn
<1> QED
  BY <1>3, <1>8, <1>12, <1>14, <1>15, <1>16, <1>18, <1>19, GoodNext

\* The answer that is heard: of a join of this connection, for bridges that
\* wait for it.
LEMMA HeardAnswerIs ==
  ASSUME ClientInv, down # <<>>, Head(down).name # "event"
  PROVE  /\ Head(down).id \in Calls /\ Head(down).id # 0 /\ Live(Provider, Head(down).id)
         /\ rooms.promise[Head(down).id] \in Promises
         /\ rooms.promise[Head(down).id].waiters \in Seq(Waiters)
         /\ rooms.promise[Head(down).id].for \in Rooms
         /\ Head(down).name \in {"joined", "refused"}
         /\ Ready /\ socket \in Sockets /\ socket # 0
<1>1. Good(Provider, down) /\ socket \in {0} \cup Sockets /\ rooms \in Refs /\ down \in Seq(Answers)
  BY UpIsTyped DEF ClientInv, Provided, Kept
<1>2. PICK m : m = Head(down)
  OBVIOUS
<1>3. m \in Answers /\ m = down[1] /\ 1 \in 1 .. Len(down)
  BY <1>1, <1>2, Heading
<1>4. m.id \in Calls /\ m.id # 0 /\ m.name \in {"joined", "refused"}
  BY <1>2, <1>3, CallsAreNumbers DEF Answers
<1>5. Live(Provider, m.id)
  BY <1>1, <1>3, <1>4, SentAreCalls
<1>6. rooms.promise[m.id] # Free
  BY <1>5, ProviderIs DEF Live
<1>7. rooms.promise[m.id] \in Promises
  BY <1>1, <1>4, <1>6 DEF Refs
<1>8. Ready /\ socket \in Sockets /\ socket # 0
  BY <1>1, SocketsAndOn DEF ClientInv, Severed
<1> QED
  BY <1>2, <1>4, <1>5, <1>7, <1>8 DEF Promises

\* The provider before the waiters of an answer go on, and after.
Freed(c, joined, more) ==
  [rooms |-> [joined  |-> rooms.joined \cup joined,
              joins   |-> [rooms.joins EXCEPT ![rooms.promise[c].for] = 0],
              promise |-> [rooms.promise EXCEPT ![c] = Free]],
   out |-> up, on |-> Provider.on, flaws |-> flaws \cup more]

\* Settling, by its two outcomes.
LEMMA SettleIs ==
  ASSUME ClientInv, NEW c \in Calls, rooms.promise[c] \in Promises
  PROVE  /\ Settle(c, TRUE) = ResumeAll(Freed(c, {rooms.promise[c].for}, {}),
                                        rooms.promise[c].for, rooms.promise[c].waiters)
         /\ Settle(c, FALSE) = Freed(c, {}, {"refused"})
<1>1. rooms \in Refs /\ Provider \in Providers
  BY UpIsTyped DEF ClientInv, Provided, Good
<1>2. PICK join : join = rooms.promise[c]
  OBVIOUS
<1>3. PICK room : room = join.for
  OBVIOUS
<1>4. room \in Rooms
  BY <1>2, <1>3 DEF Promises
<1>5. PICK p : p = [Provider EXCEPT !.rooms.promise[c] = Free, !.rooms.joins[room] = 0]
  OBVIOUS
<1>6. p = [rooms |-> [joined  |-> rooms.joined, joins |-> [rooms.joins EXCEPT ![room] = 0],
                      promise |-> [rooms.promise EXCEPT ![c] = Free]],
           out |-> up, on |-> Provider.on, flaws |-> flaws]
  <2>1. PICK in, js, pr : rooms = [joined |-> in, joins |-> js, promise |-> pr]
    BY <1>1 DEF Refs
  <2>2. PICK on : on = Provider.on
    OBVIOUS
  <2>3. Provider = [rooms |-> [joined |-> in, joins |-> js, promise |-> pr],
                    out |-> up, on |-> on, flaws |-> flaws]
    BY <2>1, <2>2 DEF Provider
  <2>4. p = [rooms |-> [joined  |-> in, joins |-> [js EXCEPT ![room] = 0],
                        promise |-> [pr EXCEPT ![c] = Free]],
             out |-> up, on |-> on, flaws |-> flaws]
    BY <1>5, <2>3
  <2>5. rooms.joined = in /\ rooms.joins = js /\ rooms.promise = pr
    BY <2>1
  <2> QED  BY <2>2, <2>4, <2>5
<1>7. Freed(c, {room}, {}) = [p EXCEPT !.rooms.joined = @ \cup {room}]
  <2>1. flaws \cup {} = flaws
    OBVIOUS
  <2> QED  BY SMTT(40), <1>2, <1>3, <1>6, <2>1 DEF Freed
<1>8. Freed(c, {}, {"refused"}) = [p EXCEPT !.flaws = @ \cup {"refused"}]
  <2>1. rooms.joined \cup {} = rooms.joined
    OBVIOUS
  <2> QED  BY <1>2, <1>3, <1>6, <2>1 DEF Freed
<1> QED
  BY <1>2, <1>3, <1>5, <1>7, <1>8 DEF Settle

\* The refs before the waiters go on are typed.
LEMMA FreedIsTyped ==
  ASSUME ClientInv, NEW c \in Calls, rooms.promise[c] \in Promises,
         NEW joined \in SUBSET Rooms, NEW more \in SUBSET Flaws
  PROVE  Freed(c, joined, more) \in Providers
<1>1. rooms \in Refs /\ Provider \in Providers
  BY UpIsTyped DEF ClientInv, Provided, Good
<1>2. PICK room : room = rooms.promise[c].for
  OBVIOUS
<1>3. room \in Rooms
  BY <1>2 DEF Promises
<1>4. PICK refs : refs = [joined  |-> rooms.joined \cup joined, joins |-> [rooms.joins EXCEPT ![room] = 0],
                          promise |-> [rooms.promise EXCEPT ![c] = Free]]
  OBVIOUS
<1>5. refs \in Refs
  BY <1>1, <1>3, <1>4 DEF Refs
<1>6. up \in Seq(Commands) /\ Provider.on \in {0} \cup Sockets /\ flaws \in SUBSET Flaws
  BY <1>1, ProviderIs DEF Providers
<1>7. PICK on : on = Provider.on
  OBVIOUS
<1>8. Freed(c, joined, more) = [rooms |-> refs, out |-> up, on |-> on, flaws |-> flaws \cup more]
  BY <1>2, <1>4, <1>7 DEF Freed
<1> QED
  BY <1>5, <1>6, <1>7, <1>8 DEF Providers

\* They are good for the answers that are left.
LEMMA FreedKeeps ==
  ASSUME ClientInv, Spare, down # <<>>, Head(down).name # "event",
         NEW c, c = Head(down).id, NEW joined \in SUBSET Rooms, NEW more \in SUBSET Flaws
  PROVE  LET q == Freed(c, joined, more) IN
         /\ Good(q, Tail(down)) /\ GoneCanceled(q, Mounted(page))
         /\ q.on = socket /\ q.on # 0 /\ Unused(q) # {}
<1>1. PICK q : q = Freed(c, joined, more)
  OBVIOUS
<1>2. PICK p : p = Provider
  OBVIOUS
<1>3. PICK mounted : mounted = Mounted(page)
  OBVIOUS
<1>4. PICK rest : rest = Tail(down)
  OBVIOUS
<1>5. /\ Good(p, down) /\ GoneCanceled(p, mounted)
      /\ c \in Calls /\ rooms.promise[c] \in Promises /\ p.rooms.promise[c] # Free
      /\ Ready /\ socket \in Sockets /\ socket # 0
      /\ p.rooms = rooms /\ p.out = up /\ p.flaws = flaws /\ p.on = socket
  BY <1>2, <1>3, HeardAnswerIs, ProviderIs DEF ClientInv, Provided, Live
<1>6. /\ q \in Providers /\ q.out = up /\ q.on = p.on /\ q.flaws = flaws \cup more
      /\ q.rooms.promise = [rooms.promise EXCEPT ![c] = Free]
      /\ q.rooms.joins = [rooms.joins EXCEPT ![rooms.promise[c].for] = 0]
  <2>1. c \in Calls /\ rooms.promise[c] \in Promises
    BY <1>5
  <2>2. q \in Providers
    BY <1>1, <2>1, FreedIsTyped
  <2> QED  BY <1>1, <1>2, <2>2 DEF Freed
<1>7. Settled(p, q, c, down, rest)
  BY <1>4, <1>5, <1>6 DEF Settled
<1>8. Good(q, rest) /\ GoneCanceled(q, mounted)
  BY <1>5, <1>7, SettledKeeps
<1>9. Unused(p) \subseteq Unused(q)
  BY <1>5, <1>6 DEF Unused
<1> QED
  BY <1>1, <1>2, <1>3, <1>4, <1>5, <1>6, <1>8, <1>9 DEF Spare

\* What hearing an answer does: the provider goes on from its next state.
LEMMA SettleKeeps ==
  ASSUME ClientInv, Spare, down # <<>>, Head(down).name # "event", NEW ok \in BOOLEAN
  PROVE  LET q == Settle(Head(down).id, ok) IN
         /\ Good(q, Tail(down)) /\ GoneCanceled(q, Mounted(page)) /\ q.on = socket
         /\ ok => /\ Extends(Freed(Head(down).id, {rooms.promise[Head(down).id].for}, {}), q)
                  /\ \A i \in 1 .. Len(rooms.promise[Head(down).id].waiters) :
                       LET w == rooms.promise[Head(down).id].waiters[i] IN
                       w.canceled /\ w.bridge = rooms.promise[Head(down).id].for
                         => LeaveIn(q.out, w.bridge)
<1>1. PICK c : c = Head(down).id
  OBVIOUS
<1>2. /\ c \in Calls /\ rooms.promise[c] \in Promises /\ rooms.promise[c] # Free
      /\ rooms.promise[c].for \in Rooms /\ rooms.promise[c].waiters \in Seq(Waiters)
  BY <1>1, HeardAnswerIs, ProviderIs DEF Live
<1>3. PICK room : room = rooms.promise[c].for
  OBVIOUS
<1>4. PICK waiters : waiters = rooms.promise[c].waiters
  OBVIOUS
<1>5. PICK q : q = Settle(c, ok)
  OBVIOUS
<1>6. CASE ok
  <2>1. PICK p : p = Freed(c, {room}, {})
    OBVIOUS
  <2>2. q = ResumeAll(p, room, waiters)
    BY <1>2, <1>3, <1>4, <1>5, <1>6, <2>1, SettleIs
  <2>3. PICK rest : rest = Tail(down)
    OBVIOUS
  <2>4. PICK mounted : mounted = Mounted(page)
    OBVIOUS
  <2>5. Good(p, rest) /\ GoneCanceled(p, mounted) /\ p.on = socket /\ p.on # 0 /\ Unused(p) # {}
    BY <1>1, <1>2, <1>3, <2>1, <2>3, <2>4, FreedKeeps
  <2>6. room = "ticket" => \A i \in 1 .. Len(waiters) : waiters[i].bridge = "ticket"
    BY <1>2, <1>3, <1>4, ProviderIs DEF ClientInv, Provided, Good, Awaited
  <2>7. \A i \in 1 .. Len(waiters) : waiters[i].bridge \in mounted \/ waiters[i].canceled
    BY <1>2, <1>4, <2>4, ProviderIs DEF ClientInv, Provided, GoneCanceled
  <2>8. waiters \in Seq(Waiters) /\ room \in Rooms
    BY <1>2, <1>3, <1>4
  <2>9. CanJoin(p)
    BY <2>5 DEF CanJoin
  <2>10. /\ Good(q, rest) /\ Extends(p, q) /\ GoneCanceled(q, mounted)
         /\ (\E i \in 1 .. Len(waiters) : waiters[i].canceled /\ waiters[i].bridge = room)
              => LeaveIn(q.out, room)
    BY <2>2, <2>5, <2>6, <2>7, <2>8, <2>9, ResumeAllKeeps
  <2>11. q.on = socket
    BY <2>5, <2>10 DEF Extends
  <2> QED
    BY <1>1, <1>3, <1>4, <1>5, <2>1, <2>3, <2>4, <2>10, <2>11
<1>7. CASE ~ ok
  <2>1. q = Freed(c, {}, {"refused"})
    BY <1>2, <1>5, <1>7, SettleIs
  <2>2. {"refused"} \in SUBSET Flaws /\ {} \in SUBSET Rooms
    BY DEF Flaws
  <2>3. Good(q, Tail(down)) /\ GoneCanceled(q, Mounted(page)) /\ q.on = socket
    BY <1>1, <2>1, <2>2, FreedKeeps
  <2> QED
    BY <1>1, <1>5, <1>7, <2>3
<1> QED
  BY <1>6, <1>7

\* What comes back: an event, or an answer whose waiters go on.
LEMMA ListenKeepsProvider ==
  ASSUME ClientInv, Listen
  PROVE  /\ Provided' /\ Outlived /\ flaws \subseteq flaws'
         /\ \A i \in 1 .. Len(up) : i \in 1 .. Len(up') /\ up'[i] = up[i]
         /\ \A d \in Calls : rooms.promise[d] # Free /\ d # Head(down).id =>
              rooms'.promise[d] # Free /\ rooms'.promise[d].for = rooms.promise[d].for
         /\ Head(down).name = "joined" =>
              \A i \in 1 .. Len(rooms.promise[Head(down).id].waiters) :
                LET w == rooms.promise[Head(down).id].waiters[i] IN
                w.canceled /\ w.bridge = rooms.promise[Head(down).id].for => LeaveIn(up', w.bridge)
<1>1. down # <<>> /\ down' = Tail(down) /\ UNCHANGED <<call, conn, socket, page>>
  BY DEF Listen, gatewayVars
<1>2. Good(Provider, down) /\ GoneCanceled(Provider, Mounted(page)) /\ down \in Seq(Answers)
  BY UpIsTyped DEF ClientInv, Provided
<1>3. PICK mounted : mounted = Mounted(page)
  OBVIOUS
<1>4. Mounted(page)' = mounted
  BY <1>1, <1>3
<1>5. CASE Head(down).name = "event"
  <2>1. UNCHANGED <<up, rooms, flaws>>
    BY <1>5 DEF Listen
  <2>2. Provider' = Provider
    BY <1>1, <2>1 DEF Provider, Ready
  <2>3. Head(down) \in Answers /\ down' \in Seq(Answers)
    BY <1>1, <1>2, Heading
  <2>4. Head(down).id = 0
    BY <1>5, <2>3 DEF Answers
  <2>5. Good(Provider, down')
    BY <1>1, <1>2, <2>3, <2>4, EventsKeep
  <2>6. Outlived /\ flaws \subseteq flaws'
    BY <2>1 DEF Outlived
  <2>7. \A i \in 1 .. Len(up) : i \in 1 .. Len(up') /\ up'[i] = up[i]
    BY <2>1
  <2> QED
    BY <1>1, <1>2, <1>3, <1>4, <1>5, <2>1, <2>2, <2>5, <2>6, <2>7, GoodNext
<1>6. CASE Head(down).name # "event"
  <2>1. PICK ok \in BOOLEAN : ok = (Head(down).name = "joined")
    OBVIOUS
  <2>2. PICK q : q = Settle(Head(down).id, ok)
    OBVIOUS
  <2>3. Spare /\ Becomes(q)
    BY <1>6, <2>1, <2>2 DEF Listen, Acknowledged
  <2>4. Good(q, down') /\ GoneCanceled(q, mounted) /\ q.on = socket
    BY <1>1, <1>3, <1>6, <2>2, <2>3, SettleKeeps
  <2>5. Ready /\ q \in Providers
    BY <1>1, <1>6, <2>4, HeardAnswerIs DEF Good
  <2>6. q.on = IF Ready' THEN socket' ELSE 0
    BY <1>1, <2>4, <2>5 DEF Ready
  <2>7. Provider' = q
    BY <2>3, <2>5, <2>6, ProviderBecomes
  <2>8. PICK c : c = Head(down).id
    OBVIOUS
  <2>9. PICK p : p = IF ok THEN Freed(c, {rooms.promise[c].for}, {}) ELSE Freed(c, {}, {"refused"})
    OBVIOUS
  <2>10. c \in Calls /\ rooms \in Refs /\ rooms.promise[c] \in Promises
         /\ up \in Seq(Commands) /\ q.out \in Seq(Commands)
    BY <1>2, <1>6, <1>1, <2>5, <2>8, HeardAnswerIs, UpIsTyped DEF Providers
  <2>11. Extends(p, q)
    <3>1. CASE ok
      BY <1>1, <1>6, <2>2, <2>3, <2>8, <2>9, <3>1, SettleKeeps
    <3>2. CASE ~ ok
      <4>1. q = Settle(c, FALSE)
        BY <2>1, <2>2, <2>8, <3>2
      <4>2. q = p
        BY <2>9, <2>10, <3>2, <4>1, SettleIs
      <4> QED  BY <2>5, <4>2 DEF Extends, Providers
    <3> QED  BY <3>1, <3>2
  <2>12. /\ p.out = up /\ p.on = Provider.on /\ flaws \subseteq p.flaws
         /\ p.rooms.promise = [rooms.promise EXCEPT ![c] = Free]
    BY <2>9 DEF Freed
  <2>13. /\ \A d \in Calls : d # c => p.rooms.promise[d] = rooms.promise[d]
         /\ p.rooms.promise[c] = Free
    BY <2>10, <2>12 DEF Refs
  <2>14. /\ rooms' = q.rooms /\ up' = q.out /\ flaws' = q.flaws
    BY <2>3 DEF Becomes
  <2>15. /\ \A d \in Calls : rooms.promise[d] # Free /\ d # c =>
              rooms'.promise[d] # Free /\ rooms'.promise[d].for = rooms.promise[d].for
                /\ rooms'.promise[d].on = rooms.promise[d].on
         /\ \A d \in Calls : rooms'.promise[d] # Free =>
              (d # c /\ rooms.promise[d] # Free) \/ rooms'.promise[d].on = Provider'.on
    BY <2>7, <2>11, <2>12, <2>13, <2>14 DEF Extends
  <2>16. Outlived
    BY <2>15 DEF Outlived
  <2>17. flaws \subseteq flaws' /\ \A i \in 1 .. Len(up) : i \in 1 .. Len(up') /\ up'[i] = up[i]
    BY <2>10, <2>11, <2>12, <2>14 DEF Extends
  <2>18. ASSUME ok, NEW i \in 1 .. Len(rooms.promise[c].waiters),
                NEW w, w = rooms.promise[c].waiters[i],
                w.canceled /\ w.bridge = rooms.promise[c].for
         PROVE  LeaveIn(up', w.bridge)
    BY <1>1, <1>6, <2>2, <2>3, <2>8, <2>14, <2>18, SettleKeeps
  <2> QED
    BY <1>1, <1>4, <2>1, <2>4, <2>7, <2>8, <2>15, <2>16, <2>17, <2>18, GoodNext
<1> QED
  BY <1>5, <1>6

-----------------------------------------------------------------------------
(* The invariant.                                                           *)

\* Steps that the gateway does not see.
Unseen == UNCHANGED <<gatewayVars, socket>>

\* The steps, one by one.
LEMMA StepIs ==
  ASSUME [ClientNext]_clientVars
  PROVE  \/ Connect \/ Disconnect \/ Receive \/ \E c \in Calls : Handle(c)
         \/ \E c \in Calls : TimeOut(c)
         \/ Listen
         \/ \E pg \in {"none", "org", "ticket"} : Navigate(pg)
         \/ \E w \in Updates : Publish(w) \/ Write(w)
         \/ ReadMessages \/ ShowMessages \/ UNCHANGED clientVars
BY DEF ClientNext, Serve, Browse, Updates

\* These the gateway does not see.
LEMMA UnseenSteps ==
  ASSUME \/ \E c \in Calls : TimeOut(c)
         \/ Listen
         \/ \E pg \in {"none", "org", "ticket"} : Navigate(pg)
         \/ \E w \in Updates : Publish(w) \/ Write(w)
         \/ ReadMessages \/ ShowMessages \/ UNCHANGED clientVars
  PROVE  Unseen
BY DEF TimeOut, Listen, Navigate, Publish, Write, ReadMessages, ShowMessages, clientVars, Unseen, linkVars

\* The steps that the provider has no part in.
LEMMA QuietSteps ==
  ASSUME \/ \E w \in Updates : Publish(w) \/ Write(w)
         \/ ReadMessages \/ ShowMessages \/ UNCHANGED clientVars
  PROVE  /\ UNCHANGED <<gatewayVars, up, socket, page, rooms, flaws>>
         /\ \/ down' = down
            \/ Ready /\ down' = Append(down, Command("event", 0))
BY DEF Publish, Write, ReadMessages, ShowMessages, clientVars, linkVars, pageVars

\* Every step keeps what is known of the provider,
LEMMA ProvidedStep ==
  ASSUME ClientInv, GatewayTypeOK, [ClientNext]_clientVars
  PROVE  Provided' /\ Outlived
<1>1. CASE Connect
  BY <1>1, ConnectKeepsProvider
<1>2. CASE Disconnect
  BY <1>2, DisconnectKeepsProvider
<1>3. CASE Receive
  <2>1. rooms' = rooms
    BY <1>3 DEF Receive
  <2>2. Outlived
    BY <2>1 DEF Outlived
  <2> QED  BY <1>3, <2>2, ReceiveIs, ReceiveKeepsProvider
<1>4. ASSUME NEW c \in Calls, Handle(c) PROVE Provided' /\ Outlived
  <2>1. rooms' = rooms
    BY <1>4 DEF Handle
  <2>2. Outlived
    BY <2>1 DEF Outlived
  <2> QED  BY <1>4, <2>2, HandleKeepsProvider
<1>5. ASSUME NEW c \in Calls, TimeOut(c) PROVE Provided' /\ Outlived
  BY <1>5, TimeOutKeepsProvider
<1>6. CASE Listen
  BY <1>6, ListenKeepsProvider
<1>7. ASSUME NEW pg \in {"none", "org", "ticket"}, Navigate(pg) PROVE Provided' /\ Outlived
  BY <1>7, NavigateKeepsProvider
<1>8. CASE \/ \E w \in Updates : Publish(w) \/ Write(w)
           \/ ReadMessages \/ ShowMessages \/ UNCHANGED clientVars
  <2>1. /\ UNCHANGED <<gatewayVars, up, socket, page, rooms, flaws>>
        /\ down' = down \/ down' = Append(down, Command("event", 0))
    BY <1>8, QuietSteps
  <2>2. Outlived
    BY <2>1 DEF Outlived
  <2> QED  BY <2>1, <2>2, EventKeepsProvider
<1> QED
  BY <1>1, <1>2, <1>3, <1>4, <1>5, <1>6, <1>7, <1>8, StepIs

\* of the page and the conversation,
LEMMA KeptStep ==
  ASSUME ClientInv, [ClientNext]_clientVars
  PROVE  Kept'
<1> USE DEF ClientInv, Kept
<1>1. CASE Connect
  BY <1>1 DEF Connect, dataVars, cacheVars
<1>2. CASE Disconnect
  BY <1>2 DEF Disconnect, dataVars, cacheVars, pageVars
<1>3. CASE Receive
  BY <1>3 DEF Receive, dataVars, cacheVars, pageVars
<1>4. ASSUME NEW c \in Calls, Handle(c) PROVE Kept'
  BY <1>4 DEF Handle, dataVars, cacheVars, pageVars
<1>5. ASSUME NEW c \in Calls, TimeOut(c) PROVE Kept'
  BY <1>5 DEF TimeOut, dataVars, cacheVars, pageVars, linkVars
<1>6. CASE Listen
  <2>1. /\ UNCHANGED <<socket, page, written, published, cache>>
        /\ fetch' \in {fetch, Sent} /\ caughtUp' \in BOOLEAN
    BY <1>6 DEF Listen, Acknowledged, Invalidate
  <2> QED  BY <2>1 DEF Sent
<1>7. ASSUME NEW pg \in {"none", "org", "ticket"}, Navigate(pg) PROVE Kept'
  <2>1. /\ UNCHANGED <<socket, written, published, cache>> /\ page' = pg
        /\ fetch' \in {fetch, Sent} /\ caughtUp' \in BOOLEAN
    BY <1>7 DEF Navigate, MountConversation
  <2> QED  BY <2>1 DEF Sent
<1>8. ASSUME NEW w \in Updates, Publish(w) PROVE Kept'
  BY <1>8 DEF Publish, cacheVars, pageVars
<1>9. ASSUME NEW w \in Updates, Write(w) PROVE Kept'
  <2>1. written \subseteq written' /\ SUBSET written \subseteq SUBSET written'
    BY <1>9 DEF Write
  <2> QED  BY <1>9, <2>1 DEF Write, cacheVars, pageVars, linkVars
<1>10. CASE ReadMessages
  BY <1>10 DEF ReadMessages, linkVars, pageVars
<1>11. CASE ShowMessages
  <2>1. /\ UNCHANGED <<socket, page, written, published, caughtUp>>
        /\ cache' = <<fetch.saw>> /\ fetch.at = "answered" /\ fetch' = NoFetch
    BY <1>11 DEF ShowMessages, linkVars, pageVars
  <2>2. fetch.saw \in SUBSET written
    BY <2>1 DEF Sent, NoFetch
  <2> QED  BY <2>1, <2>2
<1>12. CASE UNCHANGED clientVars
  BY <1>12 DEF clientVars, linkVars, pageVars, dataVars, cacheVars
<1> QED
  BY <1>1, <1>2, <1>3, <1>4, <1>5, <1>6, <1>7, <1>8, <1>9, <1>10, <1>11, <1>12, StepIs

\* The gateway's steps for a client touch its present connection, or a former
\* one of which a command is still handled.
LEMMA UntouchedStep ==
  ASSUME ClientInv, GatewayTypeOK, Outlived, [ClientNext]_clientVars, Kept'
  PROVE  Untouched'
<1>1. /\ socket \in {0} \cup Sockets /\ socket' \in {0} \cup Sockets
      /\ \A s \in Sockets : s \in Int /\ s > 0
  BY ClientAssumption DEF ClientInv, Kept
<1>2. socket <= socket'
  <2>1. socket' = socket \/ socket' = socket + 1
    BY StepIs, UnseenSteps, HandleIs DEF Connect, Disconnect, Receive, Unseen, GatewayTypeOK
  <2> QED  BY <1>1, <2>1
<1>3. \A c \in Calls : rooms'.promise[c] # Free => rooms'.promise[c].on <= socket'
  <2> SUFFICES ASSUME NEW c \in Calls, rooms'.promise[c] # Free
               PROVE  rooms'.promise[c].on <= socket'
    OBVIOUS
  <2>1. CASE rooms'.promise[c].on = Provider'.on
    <3>1. Provider'.on = 0 \/ Provider'.on = socket'
      BY DEF Provider
    <3> QED  BY <1>1, <2>1, <3>1
  <2>2. CASE rooms.promise[c] # Free /\ rooms'.promise[c].on = rooms.promise[c].on
    <3>1. rooms.promise[c] \in Promises
      BY <2>2, UpIsTyped DEF ClientInv, Provided, Refs
    <3>2. rooms.promise[c].on \in Sockets /\ rooms.promise[c].on <= socket
      BY <2>2, <3>1 DEF Promises, ClientInv, Untouched
    <3> QED  BY <1>1, <1>2, <2>2, <3>2
  <2> QED  BY <2>1, <2>2 DEF Outlived
<1>4. /\ \A s \in Sockets : s > socket' => s > socket
      /\ \A s \in Sockets : s > socket => s # socket
      /\ \A s \in Sockets : s > socket' => s # socket'
  BY <1>1, <1>2
<1>5. CASE Unseen
  BY <1>3, <1>5 DEF Unseen, gatewayVars, socketVars, ClientInv, Untouched
<1>6. CASE Connect
  <2>1. /\ conn' = [conn EXCEPT ![socket'] = "open"]
        /\ UNCHANGED <<tenants, tickets, orgRooms, ticketRooms, call>>
    BY <1>6 DEF Connect, HandleConnection, socketVars
  <2>2. \A s \in Sockets : s > socket' => conn'[s] = conn[s]
    <3>1. PICK n : n = socket'
      OBVIOUS
    <3>2. conn' = [conn EXCEPT ![n] = "open"] /\ conn \in [Sockets -> {"new", "open", "closed"}]
      BY <2>1, <3>1 DEF GatewayTypeOK
    <3>3. \A s \in Sockets : s # n => conn'[s] = conn[s]
      BY <3>2
    <3> QED  BY <1>4, <3>1, <3>3
  <2>3. \A c \in Calls : call[c] # Idle => call[c].socket <= socket'
    <3> SUFFICES ASSUME NEW c \in Calls, call[c] # Idle PROVE call[c].socket <= socket'
      OBVIOUS
    <3>1. call[c].socket \in Sockets
      BY HandlerKinds
    <3>2. call[c].socket <= socket
      BY DEF ClientInv, Untouched
    <3> QED  BY <1>1, <1>2, <3>1, <3>2
  <2> QED  BY <1>3, <1>4, <2>1, <2>2, <2>3 DEF ClientInv, Untouched
<1>7. CASE Disconnect
  <2>1. /\ conn' = [conn EXCEPT ![socket] = "closed"]
        /\ orgRooms' = [orgRooms EXCEPT ![socket] = {}]
        /\ ticketRooms' = [ticketRooms EXCEPT ![socket] = {}]
        /\ UNCHANGED <<tenants, tickets, call, socket>>
    BY <1>7 DEF Disconnect, HandleDisconnect
  <2>2. \A s \in Sockets : s > socket =>
          conn'[s] = conn[s] /\ orgRooms'[s] = orgRooms[s] /\ ticketRooms'[s] = ticketRooms[s]
    BY <1>4, <2>1 DEF GatewayTypeOK
  <2> QED  BY <1>3, <2>1, <2>2 DEF ClientInv, Untouched
<1>8. CASE Receive
  <2>1. PICK m \in Commands : ReceiveCases(m) /\ Ready /\ socket \in Sockets
    BY <1>8, ReceiveIs
  <2>2. UNCHANGED <<socket, conn>>
    BY <2>1 DEF ReceiveCases
  <2>3. \A s \in Sockets : s > socket =>
          /\ tenants'[s] = tenants[s] /\ tickets'[s] = tickets[s]
          /\ orgRooms'[s] = orgRooms[s] /\ ticketRooms'[s] = ticketRooms[s]
    BY <1>4, <2>1 DEF ReceiveCases, socketVars, Leave, LeaveAllTickets, GatewayTypeOK
  <2>4. \A c \in Calls : call'[c] # Idle => call'[c].socket <= socket
    <3>1. CASE call' = call
      BY <3>1 DEF ClientInv, Untouched
    <3>2. CASE m.id \in Calls /\ \E pc, t : call' = [call EXCEPT ![m.id] = Handler(pc, socket, Organization, t)]
      <4>1. PICK pc, t : call' = [call EXCEPT ![m.id] = Handler(pc, socket, Organization, t)]
        BY <3>2
      <4>2. PICK h : h = Handler(pc, socket, Organization, t)
        OBVIOUS
      <4>3. h.socket = socket /\ socket <= socket
        BY <1>1, <4>2 DEF Handler
      <4>4. \A c \in Calls : call'[c] = call[c] \/ call'[c] = h
        BY <4>1, <4>2 DEF GatewayTypeOK
      <4> QED  BY <4>3, <4>4 DEF ClientInv, Untouched
    <3> QED  BY <2>1, <3>1, <3>2 DEF ReceiveCases
  <2> QED  BY <1>3, <2>2, <2>3, <2>4 DEF ClientInv, Untouched
<1>9. ASSUME NEW c \in Calls, Handle(c) PROVE Untouched'
  <2>1. /\ HandlerStep(c) /\ call[c] # Idle /\ call[c].socket \in Sockets
        /\ UNCHANGED <<socket, conn>>
        /\ \A d \in Calls : d # c => call'[d] = call[d]
        /\ call'[c] = Idle \/ call'[c].socket = call[c].socket
    BY <1>9, HandleIs
  <2>2. call[c].socket <= socket
    BY <2>1 DEF ClientInv, Untouched
  <2>3. \A s \in Sockets : s > socket => s # call[c].socket
    BY <1>1, <2>1, <2>2
  <2>4. \A s \in Sockets : s > socket =>
          /\ tenants'[s] = tenants[s] /\ tickets'[s] = tickets[s]
          /\ orgRooms'[s] = orgRooms[s] /\ ticketRooms'[s] = ticketRooms[s]
    <3>1. \A s \in Sockets : s # call[c].socket =>
            /\ tenants'[s] = tenants[s] /\ tickets'[s] = tickets[s]
            /\ orgRooms'[s] = orgRooms[s] /\ ticketRooms'[s] = ticketRooms[s]
      BY <2>1, HandlerStepIs
    <3> QED  BY <2>3, <3>1
  <2>5. \A d \in Calls : call'[d] # Idle => call'[d].socket <= socket
    BY <2>1, <2>2 DEF ClientInv, Untouched
  <2> QED  BY <1>3, <2>1, <2>4, <2>5 DEF ClientInv, Untouched
<1> QED
  BY <1>5, <1>6, <1>7, <1>8, <1>9, StepIs, UnseenSteps

\* A cleanup that is not connected, on refs that are empty.
Emptied(p) == p.on = 0 /\ p.out = <<>> /\ p.rooms.joined = {} /\ \A r \in Rooms : p.rooms.joins[r] = 0

\* Leaving when there is no connection sends nothing.
LEMMA CleanupOfEmptied ==
  ASSUME NEW p, NEW answers, NEW mounted, NEW bridges \in SUBSET Rooms,
         Good(p, answers), GoneCanceled(p, mounted), Emptied(p)
  PROVE  Emptied(Cleanup(p, bridges))
<1>1. PICK o : o = "org"
  OBVIOUS
<1>2. PICK t : t = "ticket"
  OBVIOUS
<1>3. o \in Rooms /\ t \in Rooms /\ Rooms = {o, t}
  BY <1>1, <1>2 DEF Rooms
<1>4. ASSUME NEW q, NEW m, NEW b \in Rooms, NEW c, c = Cancel(q, b),
             Good(q, answers), GoneCanceled(q, m), Emptied(q)
      PROVE  Good(c, answers) /\ GoneCanceled(c, m \ {b}) /\ Emptied(c)
  <2>1. /\ Good(c, answers) /\ GoneCanceled(c, m \ {b}) /\ Extends(q, c)
        /\ c.out = q.out /\ c.rooms.joined = q.rooms.joined /\ c.rooms.joins = q.rooms.joins
    BY <1>4, CancelKeeps
  <2> QED  BY <1>4, <2>1 DEF Emptied, Extends
<1>5. PICK c : c = Cancel(p, o)
  OBVIOUS
<1>6. PICK q : q = IF o \in bridges THEN ProviderLeaveOrganization(c) ELSE p
  OBVIOUS
<1>7. Good(c, answers) /\ GoneCanceled(c, mounted \ {o}) /\ Emptied(c)
  BY <1>3, <1>4, <1>5
<1>8. Good(q, answers) /\ Emptied(q) /\ \E m : GoneCanceled(q, m)
  <2>1. CASE o \in bridges
    <3>1. PICK r : r = ProviderLeaveOrganization(c)
      OBVIOUS
    <3>2. PICK m : m = mounted \ {o}
      OBVIOUS
    <3>3. /\ Good(r, answers) /\ GoneCanceled(r, m) /\ Extends(c, r)
          /\ r.rooms.joined = {} /\ r.rooms.joins["org"] = 0
          /\ r.rooms.joins["ticket"] = c.rooms.joins["ticket"]
          /\ c.on = 0 => r.out = c.out
      BY <1>7, <3>1, <3>2, LeaveOrganizationKeeps
    <3> QED  BY <1>6, <1>7, <2>1, <3>1, <3>3 DEF Emptied, Rooms, Extends
  <2>2. CASE o \notin bridges
    BY <1>6, <2>2
  <2> QED  BY <2>1, <2>2
<1>9. PICK m : GoneCanceled(q, m)
  BY <1>8
<1>10. PICK d : d = Cancel(q, t)
  OBVIOUS
<1>11. Good(d, answers) /\ GoneCanceled(d, m \ {t}) /\ Emptied(d)
  BY <1>3, <1>4, <1>8, <1>9, <1>10
<1>12. Cleanup(p, bridges) = IF t \in bridges THEN ProviderLeaveTicket(d) ELSE q
  BY <1>1, <1>2, <1>5, <1>6, <1>10 DEF Cleanup
<1>13. CASE t \in bridges
  <2>1. PICK r : r = ProviderLeaveTicket(d)
    OBVIOUS
  <2>2. PICK n : n = m \ {t}
    OBVIOUS
  <2>3. /\ Good(r, answers) /\ Extends(d, r)
        /\ r.rooms.joined = d.rooms.joined \ {"ticket"} /\ r.rooms.joins["ticket"] = 0
        /\ r.rooms.joins["org"] = d.rooms.joins["org"]
        /\ d.on = 0 => r.out = d.out
    BY <1>11, <2>1, <2>2, LeaveTicketKeeps
  <2>4. r.rooms.joined = {}
    BY <1>11, <2>3 DEF Emptied
  <2> QED  BY <1>11, <1>12, <1>13, <2>1, <2>3, <2>4 DEF Emptied, Rooms, Extends
<1>14. CASE t \notin bridges
  BY <1>8, <1>12, <1>14
<1> QED
  BY <1>13, <1>14

\* Every step leaves a lost connection severed.
LEMMA SeveredStep ==
  ASSUME ClientInv, GatewayTypeOK, [ClientNext]_clientVars
  PROVE  Severed'
<1> SUFFICES ASSUME ~ Ready'
             PROVE  up' = <<>> /\ down' = <<>> /\ rooms'.joined = {} /\ \A r \in Rooms : rooms'.joins[r] = 0
  BY DEF Severed
<1>1. ~ Ready => /\ up = <<>> /\ down = <<>> /\ rooms.joined = {} /\ \A r \in Rooms : rooms.joins[r] = 0
  BY DEF ClientInv, Severed
<1>2. CASE Connect
  BY <1>2, ConnectKeepsProvider
<1>3. CASE Disconnect
  BY <1>3, DisconnectKeepsProvider DEF Disconnect
<1>4. CASE Receive
  <2>1. Ready /\ UNCHANGED <<socket, conn>>
    BY <1>4, ReceiveIs DEF ReceiveCases
  <2> QED  BY <2>1 DEF Ready
<1>5. ASSUME NEW c \in Calls, Handle(c)
      PROVE  up' = <<>> /\ down' = <<>> /\ rooms'.joined = {} /\ \A r \in Rooms : rooms'.joins[r] = 0
  <2>1. UNCHANGED <<up, rooms, socket, conn>> /\ (~ Ready => down' = down)
    BY <1>5, HandleIs
  <2>2. ~ Ready
    BY <2>1 DEF Ready
  <2> QED  BY <1>1, <2>1, <2>2
<1>6. ASSUME Unseen PROVE ~ Ready
  BY <1>6 DEF Unseen, gatewayVars, Ready
<1>7. ASSUME NEW c \in Calls, TimeOut(c)
      PROVE  up' = <<>> /\ down' = <<>> /\ rooms'.joined = {} /\ \A r \in Rooms : rooms'.joins[r] = 0
  <2>1. ~ Ready /\ UNCHANGED <<up, down>>
    BY <1>6, <1>7, UnseenSteps DEF TimeOut, linkVars
  <2> QED  BY <1>1, <1>7, <2>1, TimeOutKeepsProvider
<1>8. CASE Listen
  BY <1>1, <1>6, <1>8, UnseenSteps DEF Listen
<1>9. ASSUME NEW pg \in {"none", "org", "ticket"}, Navigate(pg)
      PROVE  up' = <<>> /\ down' = <<>> /\ rooms'.joined = {} /\ \A r \in Rooms : rooms'.joins[r] = 0
  <2>1. ~ Ready
    BY <1>6, <1>9, UnseenSteps
  <2>2. PICK hasty : hasty = IF Pending THEN {"hasty"} ELSE {}
    OBVIOUS
  <2>3. PICK p : p = [Provider EXCEPT !.flaws = @ \cup hasty]
    OBVIOUS
  <2>4. PICK gone : gone = Mounted(page) \ Mounted(pg)
    OBVIOUS
  <2>5. PICK r : r = Cleanup(p, gone)
    OBVIOUS
  <2>6. Becomes(r) /\ down' = down
    BY <1>9, <2>1, <2>2, <2>3, <2>4, <2>5 DEF Navigate
  <2>7. PICK was : was = Mounted(page)
    OBVIOUS
  <2>8. Good(Provider, down) /\ GoneCanceled(Provider, was) /\ Provider \in Providers
        /\ page \in {"none", "org", "ticket"}
    BY <2>7 DEF ClientInv, Provided, Good, Kept
  <2>9. gone \in SUBSET Rooms
    BY <2>4, <2>8, MountedAreRooms
  <2>10. Good(p, down) /\ GoneCanceled(p, was) /\ Emptied(p)
    <3>1. /\ p.rooms = rooms /\ p.out = up /\ p.on = Provider.on
          /\ Good(p, down) /\ GoneCanceled(p, was)
      BY <2>2, <2>3, <2>7, HastyIs
    <3> QED  BY <1>1, <2>1, <3>1, ProviderIs DEF Emptied
  <2>11. Emptied(r)
    BY <2>5, <2>9, <2>10, CleanupOfEmptied
  <2> QED  BY <1>1, <2>1, <2>6, <2>11 DEF Emptied, Becomes
<1>10. CASE \/ \E w \in Updates : Publish(w) \/ Write(w)
            \/ ReadMessages \/ ShowMessages \/ UNCHANGED clientVars
  <2>1. /\ UNCHANGED <<gatewayVars, up, socket, page, rooms, flaws>>
        /\ \/ down' = down
           \/ Ready /\ down' = Append(down, Command("event", 0))
    BY <1>10, QuietSteps
  <2>2. ~ Ready
    BY <2>1 DEF gatewayVars, Ready
  <2> QED  BY <1>1, <2>1, <2>2
<1> QED
  BY <1>2, <1>3, <1>4, <1>5, <1>7, <1>8, <1>9, <1>10, StepIs

\* Every step stays in the page's organization.
LEMMA OneOrganizationStep ==
  ASSUME ClientInv, GatewayTypeOK, [ClientNext]_clientVars
  PROVE  OneOrganization'
<1>1. OneOrganization
  BY DEF ClientInv
<1>2. CASE Unseen
  BY <1>1, <1>2 DEF Unseen, gatewayVars, socketVars, OneOrganization, ForOf
<1>3. CASE Connect
  BY <1>1, <1>3 DEF Connect, HandleConnection, socketVars, OneOrganization, ForOf
<1>4. CASE Disconnect
  <2>1. /\ orgRooms' = [orgRooms EXCEPT ![socket] = {}]
        /\ ticketRooms' = [ticketRooms EXCEPT ![socket] = {}]
        /\ UNCHANGED <<member, tenants, tickets, call, socket>>
    BY <1>4 DEF Disconnect, HandleDisconnect
  <2>2. \A s \in Sockets : orgRooms'[s] \subseteq orgRooms[s] /\ ticketRooms'[s] \subseteq ticketRooms[s]
    BY <2>1 DEF GatewayTypeOK
  <2>3. \A s \in Sockets : orgRooms'[s] \subseteq {Organization} /\ ticketRooms'[s] \subseteq {Ticket}
    BY <1>1, <2>2 DEF OneOrganization
  <2> QED  BY <1>1, <2>1, <2>3 DEF OneOrganization, ForOf
<1>5. CASE Receive
  <2>1. PICK m \in Commands : ReceiveCases(m) /\ Ready /\ socket \in Sockets
    BY <1>5, ReceiveIs
  <2>2. member' = member
    BY <2>1 DEF ReceiveCases
  <2>3. \A s \in Sockets :
          /\ tenants'[s] \subseteq tenants[s]
          /\ orgRooms'[s] \subseteq orgRooms[s] /\ ticketRooms'[s] \subseteq ticketRooms[s]
    <3>1. CASE UNCHANGED socketVars
      BY <3>1 DEF socketVars
    <3>2. CASE Leave(socket, Organization)
      BY <3>2 DEF Leave, LeaveAllTickets, GatewayTypeOK
    <3>3. CASE /\ UNCHANGED <<tenants, orgRooms>>
               /\ ticketRooms' = [ticketRooms EXCEPT ![socket] = @ \ {Ticket}]
      BY <3>3 DEF GatewayTypeOK
    <3> QED  BY <2>1, <3>1, <3>2, <3>3 DEF ReceiveCases
  <2>4. \A s \in Sockets :
          /\ tenants'[s] \subseteq member[s]
          /\ orgRooms'[s] \subseteq {Organization} /\ ticketRooms'[s] \subseteq {Ticket}
    BY <1>1, <2>3 DEF OneOrganization
  <2>5. ASSUME NEW c \in Calls, call'[c] # Idle
        PROVE  /\ call'[c].org = Organization
               /\ ForOf(call'[c].pc) = "ticket" => call'[c].ticket = Ticket
               /\ call'[c].pc \in {"org found", "ticket found", "ticket exists"}
                    => Organization \in member[call'[c].socket]
               /\ call'[c].pc \in {"org missing", "ticket missing"}
                    => Organization \notin member[call'[c].socket]
    <3>1. CASE call'[c] = call[c]
      BY <1>1, <2>5, <3>1 DEF OneOrganization
    <3>2. CASE call'[c] # call[c]
      <4>1. PICK pc, t : /\ call' = [call EXCEPT ![m.id] = Handler(pc, socket, Organization, t)]
                         /\ ForOf(pc) = "ticket" => t = Ticket
                         /\ pc \in {"org lookup", "ticket lookup"}
        BY <2>1, <3>2 DEF ReceiveCases
      <4>2. PICK h : h = Handler(pc, socket, Organization, t)
        OBVIOUS
      <4>3. call'[c] = h
        BY <3>2, <4>1, <4>2 DEF GatewayTypeOK
      <4>4. h.pc = pc /\ h.org = Organization /\ h.ticket = t
        BY <4>2 DEF Handler
      <4> QED  BY <4>1, <4>3, <4>4
    <3> QED  BY <3>1, <3>2
  <2> QED  BY <2>2, <2>4, <2>5 DEF OneOrganization, ForOf
<1>6. ASSUME NEW c \in Calls, Handle(c) PROVE OneOrganization'
  BY <1>6, HandleIs, OneOrganizationByHandler
<1> QED
  BY <1>2, <1>3, <1>4, <1>5, <1>6, StepIs, UnseenSteps

\* All of it holds initially,
LEMMA ClientInitIs ==
  ASSUME ClientInit
  PROVE  GatewayTypeOK /\ ClientInv
<1>1. GatewayTypeOK /\ GatewayInit
  BY TypeInit DEF ClientInit
<1>2. /\ page \in {"none", "ticket"} /\ socket = 0 /\ up = <<>> /\ down = <<>> /\ rooms = NoRooms
      /\ flaws = {} /\ caughtUp = FALSE /\ written = {} /\ published = {} /\ cache = <<>>
      /\ fetch = Sent \/ fetch = NoFetch
  BY DEF ClientInit, Sent, NoFetch
<1>3. /\ \A c \in Calls : rooms.promise[c] = Free
      /\ \A r \in Rooms : rooms.joins[r] = 0
      /\ rooms.joined = {} /\ rooms \in Refs
  BY <1>2 DEF NoRooms, Rooms, Refs
<1>4. Provider \in Providers /\ Provider.on = 0 /\ ~ Ready
  BY <1>2, <1>3 DEF Providers, Provider, Ready
<1>5. \A c \in Calls : call[c] = Idle
  BY <1>1 DEF GatewayInit
<1>6. SentOnce(Provider, down) /\ AnsweredOnce(Provider, down)
  BY <1>2, ProviderIs DEF SentOnce, AnsweredOnce
<1>7. Handled(Provider) /\ NotLost(Provider, down)
  BY <1>3, <1>5, ProviderIs DEF Handled, NotLost, Live
<1>8. PendingKnown(Provider) /\ Awaited(Provider) /\ GoneCanceled(Provider, Mounted(page))
  BY <1>3, ProviderIs DEF PendingKnown, Awaited, GoneCanceled
<1>9. Provided
  BY <1>2, <1>4, <1>6, <1>7, <1>8 DEF Provided, Good
<1>10. Kept /\ Severed
  BY <1>2, <1>3 DEF Kept, Severed
<1>11. Untouched /\ OneOrganization
  BY <1>1, <1>3, <1>5 DEF GatewayInit, Untouched, OneOrganization
<1> QED
  BY <1>1, <1>9, <1>10, <1>11 DEF ClientInv

\* and every step keeps it, and is one of the gateway's or none.
LEMMA ClientStep ==
  GatewayTypeOK /\ ClientInv /\ [ClientNext]_clientVars =>
    GatewayTypeOK' /\ ClientInv' /\ [GatewayNext]_gatewayVars
<1> SUFFICES ASSUME GatewayTypeOK, ClientInv, [ClientNext]_clientVars
             PROVE  GatewayTypeOK' /\ ClientInv' /\ [GatewayNext]_gatewayVars
  OBVIOUS
<1>1. [GatewayNext]_gatewayVars
  BY ClientStepIsGatewayStep
<1>2. GatewayTypeOK'
  BY <1>1, TypeStep
<1>3. Provided' /\ Outlived
  BY ProvidedStep
<1>4. Kept'
  BY KeptStep
<1>5. Untouched'
  BY <1>3, <1>4, UntouchedStep
<1>6. Severed' /\ OneOrganization'
  BY SeveredStep, OneOrganizationStep
<1> QED
  BY <1>1, <1>2, <1>3, <1>4, <1>5, <1>6 DEF ClientInv

\* The browser asks of the gateway only what a client may.
THEOREM BrowserIsAClient == ClientSpec => GatewaySpec
<1>1. ClientInit => GatewayTypeOK /\ ClientInv /\ GatewayInit
  BY ClientInitIs DEF ClientInit
<1> QED
  BY <1>1, ClientStep, PTL DEF ClientSpec, GatewaySpec

\* What is known of the provider.
THEOREM ProviderKeepsItsPromises == ClientSpec => [](GatewayTypeOK /\ ClientInv)
<1>1. ClientInit => GatewayTypeOK /\ ClientInv
  BY ClientInitIs
<1> QED
  BY <1>1, ClientStep, PTL DEF ClientSpec

-----------------------------------------------------------------------------
(* The rooms that are left.                                                  *)

\* The socket is in the room; a bridge of the page needs it, or only a
\* ticket's bridge awaited it; its join is about to be heard of.
In(room) == IF room = "org" THEN Organization \in orgRooms[socket] ELSE Ticket \in ticketRooms[socket]

Needed(room) == room \in Mounted(page) \/ (room = "org" /\ "alone" \in flaws)

JoinedFor(room) ==
  \E i \in 1 .. Len(down) : down[i].name = "joined" /\ rooms.promise[down[i].id].for = room

\* A room that no bridge needs any more is about to be left, or its join is
\* about to be answered.
TakenBack ==
  Ready => \A room \in Rooms : In(room) => Needed(room) \/ LeaveIn(up, room) \/ JoinedFor(room)

\* An answer on its way is for one promise of this connection.
LEMMA JoinedAreCalls ==
  ASSUME ClientInv, NEW i \in 1 .. Len(down), down[i].name = "joined"
  PROVE  /\ down[i].id \in Calls /\ Live(Provider, down[i].id) /\ rooms.promise[down[i].id] # Free
         /\ \A k \in 1 .. Len(down) : down[k].id = down[i].id => k = i
         /\ call[down[i].id] = Idle
<1>1. Good(Provider, down) /\ down[i] \in Answers
  BY UpIsTyped DEF ClientInv, Provided
<1>2. down[i].id \in Calls /\ down[i].id # 0
  BY <1>1, CallsAreNumbers DEF Answers
<1>3. /\ Live(Provider, down[i].id) /\ call[down[i].id] = Idle
      /\ \A k \in 1 .. Len(down) : down[k].id = down[i].id => k = i
  BY <1>1, <1>2, SentAreCalls
<1> QED
  BY <1>2, <1>3, ProviderIs DEF Live

\* What is in transit stays there.
LEMMA JoinedStays ==
  ASSUME ClientInv, NEW room, JoinedFor(room),
         \A i \in 1 .. Len(down) : i \in 1 .. Len(down') /\ down'[i] = down[i],
         \A d \in Calls : Live(Provider, d) => rooms'.promise[d].for = rooms.promise[d].for
  PROVE  JoinedFor(room)'
<1>1. PICK i \in 1 .. Len(down) : down[i].name = "joined" /\ rooms.promise[down[i].id].for = room
  BY DEF JoinedFor
<1>2. rooms'.promise[down[i].id].for = room
  BY <1>1, JoinedAreCalls
<1> QED
  BY <1>1, <1>2 DEF JoinedFor

\* Another page: rooms that are not needed any more are left.
LEMMA TakenBackByNavigate ==
  ASSUME ClientInv, TakenBack, NEW pg \in {"none", "org", "ticket"}, Navigate(pg)
  PROVE  TakenBack'
<1> SUFFICES ASSUME Ready', NEW room \in Rooms, In(room)', ~ Needed(room)'
             PROVE  LeaveIn(up', room) \/ JoinedFor(room)'
  BY DEF TakenBack, LeaveIn, LeaveCommand
<1>1. Unseen /\ page' = pg /\ down' = down
  BY UnseenSteps DEF Navigate
<1>2. Ready /\ In(room)
  BY <1>1 DEF Unseen, gatewayVars, socketVars, Ready, In
<1>3. /\ Extends(Provider, Provider')
      /\ \A r \in Mounted(page) \ Mounted(pg) : LeaveIn(up', r)
  BY <1>2, NavigateKeepsProvider
<1>4. /\ Provider.rooms = rooms /\ Provider.out = up /\ Provider.flaws = flaws
      /\ Provider'.rooms = rooms' /\ Provider'.out = up' /\ Provider'.flaws = flaws'
  BY DEF Provider
<1>5. Mounted(page)' = Mounted(pg)
  BY <1>1
<1>6. room \notin Mounted(pg) /\ (room # "org" \/ "alone" \notin flaws')
  BY <1>5 DEF Needed
<1>7. CASE Needed(room)
  <2>1. room \in Mounted(page)
    BY <1>3, <1>4, <1>6, <1>7 DEF Needed, Extends
  <2> QED  BY <1>3, <1>6, <2>1
<1>8. CASE LeaveIn(up, room)
  <2>1. Len(up) \in Nat /\ Len(up') \in Nat
    <3>1. Provided'
      BY NavigateKeepsProvider
    <3>2. up' \in Seq(Commands)'
      BY <3>1, <1>4 DEF Provided, Good, Providers
    <3> QED  BY <3>2, UpIsTyped DEF ClientInv, Provided
  <2> QED  BY <1>3, <1>4, <1>8, <2>1 DEF LeaveIn, Extends
<1>9. CASE JoinedFor(room)
  <2>1. \A d \in Calls : Live(Provider, d) => rooms'.promise[d].for = rooms.promise[d].for
    BY <1>3, <1>4 DEF Live, Extends
  <2> QED  BY <1>1, <1>9, <2>1, JoinedStays
<1> QED
  BY <1>2, <1>7, <1>8, <1>9 DEF TakenBack

\* An answer for a bridge that has gone is followed by a leave.
LEMMA TakenBackByListen ==
  ASSUME ClientInv, TakenBack, Listen
  PROVE  TakenBack'
<1> SUFFICES ASSUME Ready', NEW room \in Rooms, In(room)', ~ Needed(room)'
             PROVE  LeaveIn(up', room) \/ JoinedFor(room)'
  BY DEF TakenBack, LeaveIn, LeaveCommand
<1>1. Unseen /\ page' = page /\ down # <<>> /\ down' = Tail(down) /\ down \in Seq(Answers)
  BY UnseenSteps, UpIsTyped DEF Listen, ClientInv, Provided
<1>2. Ready /\ In(room)
  BY <1>1 DEF Unseen, gatewayVars, socketVars, Ready, In
<1>3. /\ flaws \subseteq flaws'
      /\ \A i \in 1 .. Len(up) : i \in 1 .. Len(up') /\ up'[i] = up[i]
      /\ \A d \in Calls : rooms.promise[d] # Free /\ d # Head(down).id =>
           rooms'.promise[d] # Free /\ rooms'.promise[d].for = rooms.promise[d].for
      /\ Head(down).name = "joined" =>
           \A i \in 1 .. Len(rooms.promise[Head(down).id].waiters) :
             LET w == rooms.promise[Head(down).id].waiters[i] IN
             w.canceled /\ w.bridge = rooms.promise[Head(down).id].for => LeaveIn(up', w.bridge)
  BY ListenKeepsProvider
<1>4. Mounted(page)' = Mounted(page)
  BY <1>1
<1>5. ~ Needed(room)
  BY <1>3, <1>4 DEF Needed
<1>6. CASE LeaveIn(up, room)
  BY <1>3, <1>6 DEF LeaveIn
<1>7. CASE JoinedFor(room)
  <2>1. PICK i \in 1 .. Len(down) : down[i].name = "joined" /\ rooms.promise[down[i].id].for = room
    BY <1>7 DEF JoinedFor
  <2>2. /\ Head(down) = down[1] /\ 1 \in 1 .. Len(down) /\ Len(down') = Len(down) - 1 /\ Len(down) \in Nat
        /\ \A k \in 1 .. Len(down) - 1 : down'[k] = down[k + 1]
    BY <1>1, Heading
  <2>3. CASE i # 1
    <3>1. down[i].id # Head(down).id
      BY <2>1, <2>2, <2>3, JoinedAreCalls
    <3>2. rooms'.promise[down[i].id].for = room
      BY <1>3, <2>1, <3>1, JoinedAreCalls
    <3>3. i - 1 \in 1 .. Len(down') /\ down'[i - 1] = down[i]
      BY <2>2, <2>3
    <3> QED  BY <2>1, <3>2, <3>3 DEF JoinedFor
  <2>4. CASE i = 1
    <3>1. PICK c : c = Head(down).id
      OBVIOUS
    <3>2. PICK ws : ws = rooms.promise[c].waiters
      OBVIOUS
    <3>3. c \in Calls /\ rooms.promise[c] # Free /\ rooms.promise[c].for = room /\ Head(down).name = "joined"
      BY <2>1, <2>2, <2>4, <3>1, JoinedAreCalls
    <3>4. \E k \in 1 .. Len(ws) : ws[k].bridge = room
      <4>1. /\ ws # <<>>
            /\ room = "ticket" => \A k \in 1 .. Len(ws) : ws[k].bridge = "ticket"
            /\ room = "org" /\ "alone" \notin flaws => \E k \in 1 .. Len(ws) : ws[k].bridge = "org"
        BY <3>2, <3>3, ProviderIs DEF ClientInv, Provided, Good, Awaited
      <4>2. ws \in Seq(Waiters)
        <5>1. rooms.promise[c] \in Promises
          BY <3>3, UpIsTyped DEF ClientInv, Provided, Refs
        <5> QED  BY <3>2, <5>1 DEF Promises
      <4>3. 1 \in 1 .. Len(ws)
        BY <4>1, <4>2
      <4>4. CASE room = "org"
        BY <1>5, <4>1, <4>4 DEF Needed
      <4>5. CASE room = "ticket"
        BY <4>1, <4>3, <4>5
      <4> QED  BY <4>4, <4>5 DEF Rooms
    <3>5. PICK k \in 1 .. Len(ws) : ws[k].bridge = room
      BY <3>4
    <3>6. ws[k].canceled
      BY <1>5, <3>2, <3>3, <3>5, ProviderIs DEF ClientInv, Provided, GoneCanceled, Needed
    <3>7. LeaveIn(up', ws[k].bridge)
      BY <1>3, <3>1, <3>2, <3>3, <3>5, <3>6
    <3> QED  BY <3>5, <3>7
  <2> QED  BY <2>3, <2>4
<1> QED
  BY <1>2, <1>5, <1>6, <1>7 DEF TakenBack

\* The server takes a leave: the room is not among the socket's any more.
LEMMA TakenBackByReceive ==
  ASSUME ClientInv, GatewayTypeOK, RoomsAreRecorded, TakenBack, Receive
  PROVE  TakenBack'
<1> SUFFICES ASSUME Ready', NEW room \in Rooms, In(room)', ~ Needed(room)'
             PROVE  LeaveIn(up', room) \/ JoinedFor(room)'
  BY DEF TakenBack, LeaveIn, LeaveCommand
<1>1. PICK m \in Commands : ReceiveCases(m) /\ Ready /\ socket \in Sockets
  BY ReceiveIs
<1>2. /\ up # <<>> /\ m = Head(up) /\ up' = Tail(up) /\ UNCHANGED <<socket, rooms, page, flaws>>
      /\ up \in Seq(Commands) /\ down \in Seq(Answers)
  BY <1>1, UpIsTyped DEF ReceiveCases, pageVars, ClientInv, Provided
<1>3. /\ m = up[1] /\ Len(up') = Len(up) - 1 /\ Len(up) \in Nat
      /\ \A k \in 1 .. Len(up) - 1 : up'[k] = up[k + 1]
  BY <1>2, Heading
<1>4. \A i \in 1 .. Len(down) : i \in 1 .. Len(down') /\ down'[i] = down[i]
  <2>1. CASE down' = down
    BY <2>1
  <2>2. CASE m.id \in Calls /\ down' = Append(down, Command("refused", m.id))
    <3>1. PICK a : a = Command("refused", m.id)
      OBVIOUS
    <3>2. a \in Answers
      BY <2>2, <3>1 DEF Command, Answers
    <3> QED  BY <1>2, <2>2, <3>1, <3>2, Appending
  <2> QED  BY <1>1, <2>1, <2>2 DEF ReceiveCases
<1>5. In(room)
  <2>1. /\ orgRooms'[socket] \subseteq orgRooms[socket]
        /\ ticketRooms'[socket] \subseteq ticketRooms[socket]
    <3>1. CASE UNCHANGED socketVars
      BY <3>1 DEF socketVars
    <3>2. CASE Leave(socket, Organization)
      BY <1>1, <3>2 DEF Leave, LeaveAllTickets, GatewayTypeOK
    <3>3. CASE /\ UNCHANGED <<tenants, orgRooms>>
               /\ ticketRooms' = [ticketRooms EXCEPT ![socket] = @ \ {Ticket}]
      BY <1>1, <3>3 DEF GatewayTypeOK
    <3> QED  BY <1>1, <3>1, <3>2, <3>3 DEF ReceiveCases
  <2> QED  BY <1>2, <2>1 DEF In
<1>6. ~ Needed(room)
  BY <1>2 DEF Needed
<1>7. CASE JoinedFor(room)
  BY <1>2, <1>4, <1>7, JoinedStays
<1>8. CASE LeaveIn(up, room)
  <2>1. PICK i \in 1 .. Len(up) : up[i].name = LeaveCommand(room)
    BY <1>8 DEF LeaveIn
  <2>2. CASE i # 1
    <3>1. i - 1 \in 1 .. Len(up') /\ up'[i - 1] = up[i]
      BY <1>3, <2>2
    <3> QED  BY <2>1, <3>1 DEF LeaveIn
  <2>3. CASE i = 1
    <3>1. m.name = LeaveCommand(room)
      BY <1>3, <2>1, <2>3
    <3>2. orgRooms[socket] \subseteq tenants[socket] /\ (conn[socket] = "open" => ticketRooms[socket] = tickets[socket])
      BY <1>1 DEF RoomsAreRecorded
    <3>3. conn[socket] = "open"
      BY <1>1 DEF Ready
    <3>4. CASE room = "org"
      <4>1. m.name = "org leave"
        BY <3>1, <3>4 DEF LeaveCommand
      <4>2. \/ Organization \in tenants[socket] /\ Leave(socket, Organization)
            \/ Organization \notin tenants[socket]
        BY <1>1, <4>1 DEF ReceiveCases, JoinCommand
      <4>3. Organization \in orgRooms[socket]
        BY <1>5, <3>4 DEF In
      <4>4. Organization \notin orgRooms'[socket]
        BY <1>1, <3>2, <4>2, <4>3 DEF Leave, GatewayTypeOK
      <4> QED  BY <1>2, <3>4, <4>4 DEF In
    <3>5. CASE room = "ticket"
      <4>1. m.name = "ticket leave"
        BY <3>1, <3>5 DEF LeaveCommand
      <4>2. \/ /\ Ticket \in tickets[socket]
               /\ ticketRooms' = [ticketRooms EXCEPT ![socket] = @ \ {Ticket}]
            \/ Ticket \notin tickets[socket]
        BY <1>1, <4>1 DEF ReceiveCases, JoinCommand
      <4>3. Ticket \in ticketRooms[socket]
        BY <1>5, <3>5 DEF In
      <4>4. Ticket \notin ticketRooms'[socket]
        BY <1>1, <3>2, <3>3, <4>2, <4>3 DEF GatewayTypeOK
      <4> QED  BY <1>2, <3>5, <4>4 DEF In
    <3> QED  BY <3>4, <3>5 DEF Rooms
  <2> QED  BY <2>2, <2>3
<1> QED
  BY <1>1, <1>5, <1>6, <1>7, <1>8 DEF TakenBack

\* Where a handler enters a room.
LEMMA EnteringIs ==
  ASSUME GatewayTypeOK, NEW c \in Calls, HandlerStep(c)
  PROVE  /\ call[c].pc = "org found" => call' = [call EXCEPT ![c] = Idle]
         /\ \/ UNCHANGED ticketRooms
            \/ \A s \in Sockets : ticketRooms'[s] \subseteq ticketRooms[s]
            \/ /\ At(c, "ticket exists") /\ ExistsInOrganization(call[c].ticket, call[c].org)
               /\ call' = [call EXCEPT ![c] = Idle]
<1>1. CASE ResolveTenant(c)
  BY <1>1 DEF ResolveTenant, At, socketVars
<1>2. CASE EnterOrganization(c) \/ RefuseOrganization(c)
  BY <1>2 DEF EnterOrganization, RefuseOrganization, Return, At, socketVars
<1>3. CASE ExpelSocket(c)
  BY <1>3 DEF ExpelSocket, Leave, LeaveAllTickets, At, GatewayTypeOK
<1>4. CASE RefreshTenant(c)
  BY <1>4 DEF RefreshTenant, At
<1>5. CASE EnterTicket(c)
  BY <1>5 DEF EnterTicket, At, Return
<1>6. CASE RefuseTicket(c)
  BY <1>6 DEF RefuseTicket, At, Return, socketVars
<1> QED
  BY <1>1, <1>2, <1>3, <1>4, <1>5, <1>6 DEF HandlerStep

\* A socket that enters a room has its answer under way.
LEMMA TakenBackByHandle ==
  ASSUME ClientInv, GatewayTypeOK, TakenBack, NEW c \in Calls, Handle(c)
  PROVE  TakenBack'
<1> SUFFICES ASSUME Ready', NEW room \in Rooms, In(room)', ~ Needed(room)'
             PROVE  LeaveIn(up', room) \/ JoinedFor(room)'
  BY DEF TakenBack, LeaveIn, LeaveCommand
<1>1. /\ HandlerStep(c) /\ call[c] # Idle /\ call[c].socket \in Sockets
      /\ UNCHANGED <<up, socket, page, flaws, rooms, conn>>
      /\ down \in Seq(Answers)
      /\ call \in [Calls -> Handlers]
  BY HandleIs, UpIsTyped DEF pageVars, ClientInv, Provided
<1>2. Ready /\ socket \in Sockets
  BY <1>1, SocketsAndOn DEF Ready, ClientInv, Kept
<1>3. ~ Needed(room)
  BY <1>1 DEF Needed
<1>4. CASE In(room)
  <2>1. CASE LeaveIn(up, room)
    BY <1>1, <2>1
  <2>2. CASE JoinedFor(room)
    <3>1. \A i \in 1 .. Len(down) : i \in 1 .. Len(down') /\ down'[i] = down[i]
      <4>1. CASE down' = down
        BY <4>1
      <4>2. CASE \E name \in {"joined", "refused"} : down' = Append(down, Command(name, c))
        <5>1. PICK name \in {"joined", "refused"} : down' = Append(down, Command(name, c))
          BY <4>2
        <5>2. PICK a : a = Command(name, c)
          OBVIOUS
        <5>3. a \in Answers
          BY <5>2 DEF Command, Answers
        <5> QED  BY <1>1, <5>1, <5>2, <5>3, Appending
      <4> QED  BY <4>1, <4>2, HandleIs
    <3> QED  BY <1>1, <2>2, <3>1, JoinedStays
  <2> QED  BY <1>2, <1>3, <1>4, <2>1, <2>2 DEF TakenBack
<1>5. CASE ~ In(room)
  <2>1. \A s \in Sockets : s # call[c].socket => orgRooms'[s] = orgRooms[s] /\ ticketRooms'[s] = ticketRooms[s]
    <3>1. \A s \in Sockets : s # call[c].socket =>
            /\ tenants'[s] = tenants[s] /\ tickets'[s] = tickets[s]
            /\ orgRooms'[s] = orgRooms[s] /\ ticketRooms'[s] = ticketRooms[s]
      BY <1>1, HandlerStepIs
    <3> QED  BY <3>1
  <2>2. call[c].socket = socket
    BY <1>1, <1>2, <1>5, <2>1 DEF In
  <2>3. rooms.promise[c].for = ForOf(call[c].pc) /\ Live(Provider, c)
    <3>1. call[c].socket = Provider.on
      BY <1>2, <2>2, ProviderIs
    <3> QED  BY <1>1, <3>1, ProviderIs DEF ClientInv, Provided, Good, Handled
  <2>4. /\ call' = [call EXCEPT ![c] = Idle] /\ ForOf(call[c].pc) = room
        /\ \/ At(c, "org found")
           \/ At(c, "ticket exists") /\ ExistsInOrganization(call[c].ticket, call[c].org)
    <3>1. CASE room = "org"
      <4>1. orgRooms'[socket] \subseteq
              orgRooms[socket] \cup (IF call[c].pc = "org found" THEN {call[c].org} ELSE {})
        BY <1>1, <2>2, HandlerStepIs
      <4>2. call[c].pc = "org found"
        BY <1>1, <1>5, <3>1, <4>1 DEF In
      <4> QED  BY <1>1, <3>1, <4>2, EnteringIs DEF At, ForOf
    <3>2. CASE room = "ticket"
      <4>1. /\ At(c, "ticket exists") /\ ExistsInOrganization(call[c].ticket, call[c].org)
            /\ call' = [call EXCEPT ![c] = Idle]
        BY <1>1, <1>2, <1>5, <3>2, EnteringIs DEF In
      <4> QED  BY <3>2, <4>1 DEF At, ForOf
    <3> QED  BY <3>1, <3>2 DEF Rooms
  <2>5. call'[c] = Idle
    BY <1>1, <2>4
  <2>6. PICK a : a = Command("joined", c)
    OBVIOUS
  <2>7. a \in Answers /\ a.name = "joined" /\ a.id = c
    BY <2>6 DEF Command, Answers
  <2>8. down' = Append(down, a)
    BY <1>2, <2>2, <2>4, <2>5, <2>6 DEF Handle
  <2>9. Len(down) + 1 \in 1 .. Len(down') /\ down'[Len(down) + 1] = a
    BY <1>1, <2>7, <2>8, Appending
  <2> QED  BY <1>1, <2>3, <2>4, <2>7, <2>9 DEF JoinedFor
<1> QED
  BY <1>4, <1>5

\* Every step keeps rooms taken back,
LEMMA TakenBackStep ==
  GatewayTypeOK /\ RoomsAreRecorded /\ ClientInv /\ TakenBack /\ [ClientNext]_clientVars => TakenBack'
<1> SUFFICES ASSUME GatewayTypeOK, RoomsAreRecorded, ClientInv, TakenBack, [ClientNext]_clientVars
             PROVE  TakenBack'
  OBVIOUS
<1>1. CASE Connect
  <2>1. /\ socket + 1 \in Sockets /\ socket' = socket + 1 /\ UNCHANGED <<orgRooms, ticketRooms>>
    BY <1>1 DEF Connect, HandleConnection, socketVars
  <2>2. socket \in Int
    BY CallsAreNumbers DEF ClientInv, Kept
  <2>3. orgRooms[socket + 1] = {} /\ ticketRooms[socket + 1] = {}
    BY <2>1, <2>2 DEF ClientInv, Untouched
  <2> QED  BY <2>1, <2>3 DEF TakenBack, In
<1>2. CASE Disconnect
  BY <1>2, DisconnectKeepsProvider DEF TakenBack
<1>3. ASSUME NEW c \in Calls, TimeOut(c) PROVE TakenBack'
  <2>1. UNCHANGED <<gatewayVars, up, down, socket, page, flaws>>
    BY <1>3 DEF TimeOut, linkVars, pageVars
  <2>2. \A d \in Calls : Live(Provider, d) => rooms'.promise[d] = rooms.promise[d]
    BY <1>3, TimeOutKeepsProvider
  <2> SUFFICES ASSUME Ready', NEW room \in Rooms, In(room)', ~ Needed(room)'
               PROVE  LeaveIn(up', room) \/ JoinedFor(room)'
    BY DEF TakenBack, LeaveIn, LeaveCommand
  <2>3. Ready /\ In(room) /\ ~ Needed(room)
    BY <2>1 DEF Ready, In, Needed, gatewayVars, socketVars
  <2>4. CASE LeaveIn(up, room)
    BY <2>1, <2>4
  <2>5. CASE JoinedFor(room)
    <3>1. \A i \in 1 .. Len(down) : i \in 1 .. Len(down') /\ down'[i] = down[i]
      BY <2>1
    <3>2. \A d \in Calls : Live(Provider, d) => rooms'.promise[d].for = rooms.promise[d].for
      BY <2>2
    <3> QED  BY <2>5, <3>1, <3>2, JoinedStays
  <2> QED  BY <2>3, <2>4, <2>5 DEF TakenBack
<1>4. CASE \/ \E w \in Updates : Publish(w) \/ Write(w)
           \/ ReadMessages \/ ShowMessages \/ UNCHANGED clientVars
  <2>1. /\ UNCHANGED <<gatewayVars, up, socket, page, rooms, flaws>>
        /\ down' = down \/ down' = Append(down, Command("event", 0))
    BY <1>4, QuietSteps
  <2> SUFFICES ASSUME Ready', NEW room \in Rooms, In(room)', ~ Needed(room)'
               PROVE  LeaveIn(up', room) \/ JoinedFor(room)'
    BY DEF TakenBack, LeaveIn, LeaveCommand
  <2>2. Ready /\ In(room) /\ ~ Needed(room)
    BY <2>1 DEF Ready, In, Needed, gatewayVars, socketVars
  <2>3. CASE LeaveIn(up, room)
    BY <2>1, <2>3
  <2>4. CASE JoinedFor(room)
    <3>1. \A i \in 1 .. Len(down) : i \in 1 .. Len(down') /\ down'[i] = down[i]
      <4>1. CASE down' = down
        BY <4>1
      <4>2. CASE down' = Append(down, Command("event", 0))
        <5>1. PICK a : a = Command("event", 0)
          OBVIOUS
        <5>2. a \in Answers /\ down \in Seq(Answers)
          BY <5>1, UpIsTyped DEF Command, Answers, ClientInv, Provided
        <5> QED  BY <4>2, <5>1, <5>2, Appending
      <4> QED  BY <2>1, <4>1, <4>2
    <3>2. \A d \in Calls : Live(Provider, d) => rooms'.promise[d].for = rooms.promise[d].for
      BY <2>1
    <3> QED  BY <2>4, <3>1, <3>2, JoinedStays
  <2> QED  BY <2>2, <2>3, <2>4 DEF TakenBack
<1> QED
  BY <1>1, <1>2, <1>3, <1>4, StepIs, TakenBackByReceive, TakenBackByHandle, TakenBackByNavigate, TakenBackByListen

\* and a connection on which nothing is under way has none to take back.
LEMMA NothingLeft ==
  ASSUME ClientInv, TakenBack
  PROVE  NoRoomsLeftBehind
<1> SUFFICES ASSUME Quiet
             PROVE  /\ page # "ticket" => ticketRooms[socket] = {}
                    /\ page = "none" /\ "alone" \notin flaws => orgRooms[socket] = {}
  BY DEF NoRoomsLeftBehind
<1>1. Ready /\ up = <<>> /\ down = <<>>
  BY DEF Quiet
<1>2. socket \in Sockets /\ page \in {"none", "org", "ticket"}
  BY <1>1, SocketsAndOn DEF ClientInv, Kept
<1>3. orgRooms[socket] \subseteq {Organization} /\ ticketRooms[socket] \subseteq {Ticket}
  BY <1>2 DEF ClientInv, OneOrganization
<1>4. \A room \in Rooms : In(room) => Needed(room)
  BY <1>1 DEF TakenBack, LeaveIn, JoinedFor
<1>5. ASSUME page # "ticket" PROVE Ticket \notin ticketRooms[socket]
  <2>1. "ticket" \notin Mounted(page)
    BY <1>2, <1>5 DEF Mounted
  <2> QED  BY <1>4, <2>1 DEF In, Needed, Rooms
<1>6. ASSUME page = "none", "alone" \notin flaws PROVE Organization \notin orgRooms[socket]
  <2>1. "org" \notin Mounted(page)
    BY <1>6 DEF Mounted
  <2> QED  BY <1>4, <1>6, <2>1 DEF In, Needed, Rooms
<1> QED
  BY <1>3, <1>5, <1>6

\* A connection on which nothing is under way has left the ticket it is not
\* shown any more, and the organization likewise, however the joins, the leaves
\* and their answers crossed.
THEOREM NothingIsLeftBehind == ClientSpec => []NoRoomsLeftBehind
<1>1. ClientInit => TakenBack
  BY DEF ClientInit, TakenBack, Ready
<1>2. ClientInv /\ TakenBack => NoRoomsLeftBehind
  BY NothingLeft
<1> QED
  BY <1>1, <1>2, TakenBackStep, BrowserIsAClient, RoomsAreAlwaysRecorded, ProviderKeepsItsPromises, PTL DEF ClientSpec

-----------------------------------------------------------------------------
(* A connection on which nothing has gone wrong.                             *)

\* The provider awaits no answer of this connection.
Still(p) == \A c \in Calls : ~ Live(p, c)

\* Nothing but leaves of these rooms was sent.
Left(p, q, bridges) ==
  /\ q.on = p.on /\ q.flaws = p.flaws
  /\ \A c \in Calls : Live(q, c) <=> Live(p, c)
  /\ Len(p.out) <= Len(q.out) /\ \A i \in 1 .. Len(p.out) : q.out[i] = p.out[i]
  /\ \A i \in 1 .. Len(q.out) : i > Len(p.out) =>
       q.out[i].id = 0 /\ \E r \in bridges : q.out[i].name = LeaveCommand(r)

\* One leave after the other.
LEMMA LeftTwice ==
  ASSUME NEW p \in Providers, NEW q \in Providers, NEW r \in Providers,
         NEW a, NEW b, Left(p, q, a), Left(q, r, b)
  PROVE  Left(p, r, a \cup b)
<1>1. Len(p.out) \in Nat /\ Len(q.out) \in Nat /\ Len(r.out) \in Nat
  BY DEF Providers
<1>2. /\ r.on = p.on /\ r.flaws = p.flaws
      /\ \A c \in Calls : Live(r, c) <=> Live(p, c)
  BY DEF Left
<1>3. Len(p.out) <= Len(r.out) /\ \A i \in 1 .. Len(p.out) : r.out[i] = p.out[i]
  BY <1>1 DEF Left
<1>4. ASSUME NEW i \in 1 .. Len(r.out), i > Len(p.out)
      PROVE  r.out[i].id = 0 /\ \E s \in a \cup b : r.out[i].name = LeaveCommand(s)
  <2>1. CASE i > Len(q.out)
    BY <2>1 DEF Left
  <2>2. CASE ~ (i > Len(q.out))
    <3>1. i \in 1 .. Len(q.out)
      BY <1>1, <2>2
    <3>2. r.out[i] = q.out[i]
      BY <3>1 DEF Left
    <3> QED  BY <1>4, <3>1, <3>2 DEF Left
  <2> QED  BY <2>1, <2>2
<1> QED
  BY <1>2, <1>3, <1>4 DEF Left

\* The cleanup of one bridge.
LEMMA BridgeLeaves ==
  ASSUME NEW p, NEW answers, NEW mounted, NEW room \in Rooms,
         Good(p, answers), GoneCanceled(p, mounted), p.on # 0,
         NEW q, q = Cancel(p, room),
         NEW r, r = IF room = "org" THEN ProviderLeaveOrganization(q) ELSE ProviderLeaveTicket(q)
  PROVE  /\ Good(r, answers) /\ GoneCanceled(r, mounted \ {room}) /\ Left(p, r, {room})
         /\ room = "org" => r.rooms.joined = {}
         /\ room # "org" => r.rooms.joined = p.rooms.joined \ {room}
<1>1. PICK left : left = mounted \ {room}
  OBVIOUS
<1>2. /\ Good(q, answers) /\ Similar(p, q) /\ GoneCanceled(q, left)
      /\ q.out = p.out /\ q.rooms.joined = p.rooms.joined
  BY <1>1, CancelKeeps
<1>3. q.flaws = p.flaws
  BY DEF Cancel, Good, Providers
<1>4. /\ Good(r, answers) /\ Similar(q, r) /\ GoneCanceled(r, left) /\ r.flaws = q.flaws
      /\ q.on # 0 => r.out = Append(q.out, Command(LeaveCommand(room), 0))
      /\ room = "org" => r.rooms.joined = {}
      /\ room # "org" => r.rooms.joined = q.rooms.joined \ {room}
  <2>1. CASE room = "org"
    <3>1. PICK s : s = ProviderLeaveOrganization(q)
      OBVIOUS
    <3>2. r = s /\ LeaveCommand(room) = "org leave"
      BY <2>1, <3>1 DEF LeaveCommand
    <3>3. /\ Good(s, answers) /\ Similar(q, s) /\ GoneCanceled(s, left) /\ s.flaws = q.flaws
          /\ q.on # 0 => s.out = Append(q.out, Command("org leave", 0))
          /\ s.rooms.joined = {}
      BY <1>2, <3>1, LeaveOrganizationKeeps
    <3> QED  BY <2>1, <3>2, <3>3
  <2>2. CASE room # "org"
    <3>1. PICK s : s = ProviderLeaveTicket(q)
      OBVIOUS
    <3>2. r = s /\ LeaveCommand(room) = "ticket leave"
      BY <2>2, <3>1 DEF LeaveCommand
    <3>3. /\ Good(s, answers) /\ Similar(q, s) /\ GoneCanceled(s, left) /\ s.flaws = q.flaws
          /\ q.on # 0 => s.out = Append(q.out, Command("ticket leave", 0))
          /\ s.rooms.joined = q.rooms.joined \ {"ticket"}
      BY <1>2, <3>1, LeaveTicketKeeps
    <3> QED  BY <2>2, <3>2, <3>3 DEF Rooms
  <2> QED  BY <2>1, <2>2
<1>5. /\ q.on = p.on /\ r.on = q.on
      /\ \A c \in Calls : Live(q, c) <=> Live(p, c)
      /\ \A c \in Calls : Live(r, c) <=> Live(q, c)
  BY <1>2, <1>4 DEF Similar, Live
<1>6. PICK leave : leave = Command(LeaveCommand(room), 0)
  OBVIOUS
<1>7. leave \in Commands /\ leave.id = 0 /\ leave.name = LeaveCommand(room)
  BY <1>6 DEF Command, Commands, LeaveCommand
<1>8. p.out \in Seq(Commands) /\ r.out = Append(p.out, leave)
  BY <1>2, <1>4, <1>5, <1>6 DEF Good, Providers
<1>9. /\ Len(p.out) <= Len(r.out) /\ \A i \in 1 .. Len(p.out) : r.out[i] = p.out[i]
      /\ \A i \in 1 .. Len(r.out) : i > Len(p.out) => r.out[i] = leave
  BY <1>7, <1>8, Appending
<1>10. Left(p, r, {room})
  BY <1>3, <1>4, <1>5, <1>7, <1>9 DEF Left
<1> QED
  BY <1>1, <1>2, <1>4, <1>10

\* The cleanups of a page send their leaves, and forget the rooms.
LEMMA CleanupLeaves ==
  ASSUME NEW p, NEW answers, NEW mounted, NEW bridges \in SUBSET Rooms,
         Good(p, answers), GoneCanceled(p, mounted), p.on # 0
  PROVE  /\ Left(p, Cleanup(p, bridges), bridges)
         /\ Cleanup(p, bridges).rooms.joined =
              IF "org" \in bridges THEN {} ELSE p.rooms.joined \ bridges
<1>1. PICK o : o = "org"
  OBVIOUS
<1>2. PICK t : t = "ticket"
  OBVIOUS
<1>3. o \in Rooms /\ t \in Rooms /\ o # t /\ \A room \in bridges : room = o \/ room = t
  BY <1>1, <1>2 DEF Rooms
<1>4. PICK q : q = IF o \in bridges THEN ProviderLeaveOrganization(Cancel(p, o)) ELSE p
  OBVIOUS
<1>5. PICK left : left = IF o \in bridges THEN mounted \ {o} ELSE mounted
  OBVIOUS
<1>6. PICK a : a = IF o \in bridges THEN {o} ELSE {}
  OBVIOUS
<1>7. /\ Good(q, answers) /\ GoneCanceled(q, left) /\ Left(p, q, a)
      /\ q.rooms.joined = IF o \in bridges THEN {} ELSE p.rooms.joined
  <2>1. CASE o \in bridges
    <3>1. PICK c : c = Cancel(p, o)
      OBVIOUS
    <3>2. q = IF o = "org" THEN ProviderLeaveOrganization(c) ELSE ProviderLeaveTicket(c)
      BY <1>1, <1>4, <2>1, <3>1
    <3>3. Good(q, answers) /\ GoneCanceled(q, mounted \ {o}) /\ Left(p, q, {o})
      BY <1>3, <3>1, <3>2, BridgeLeaves
    <3>4. q.rooms.joined = {}
      BY <1>1, <1>3, <3>1, <3>2, BridgeLeaves
    <3> QED  BY <1>1, <1>5, <1>6, <2>1, <3>3, <3>4
  <2>2. CASE o \notin bridges
    <3>1. Left(p, p, {})
      BY DEF Good, Left, Providers
    <3> QED  BY <1>4, <1>5, <1>6, <2>2, <3>1
  <2> QED  BY <2>1, <2>2
<1>8. PICK r : r = IF t \in bridges THEN ProviderLeaveTicket(Cancel(q, t)) ELSE q
  OBVIOUS
<1>9. Cleanup(p, bridges) = r
  BY <1>1, <1>2, <1>4, <1>8 DEF Cleanup
<1>10. p \in Providers /\ q \in Providers /\ q.on # 0
  BY <1>7 DEF Good, Left
<1>11. PICK b : b = IF t \in bridges THEN {t} ELSE {}
  OBVIOUS
<1>12. /\ r \in Providers /\ Left(q, r, b)
       /\ r.rooms.joined = IF t \in bridges THEN q.rooms.joined \ {t} ELSE q.rooms.joined
  <2>1. CASE t \in bridges
    <3>1. PICK c : c = Cancel(q, t)
      OBVIOUS
    <3>2. r = IF t = "org" THEN ProviderLeaveOrganization(c) ELSE ProviderLeaveTicket(c)
      BY <1>2, <1>8, <2>1, <3>1
    <3>3. Good(r, answers) /\ Left(q, r, {t})
      BY <1>3, <1>7, <1>10, <3>1, <3>2, BridgeLeaves
    <3>4. r.rooms.joined = q.rooms.joined \ {"ticket"}
      <4>1. Good(q, answers) /\ GoneCanceled(q, left) /\ t \in Rooms
        BY <1>3, <1>7
      <4>2. PICK rest : rest = left \ {t}
        OBVIOUS
      <4>3. Good(c, answers) /\ GoneCanceled(c, rest) /\ c.rooms.joined = q.rooms.joined
        BY <3>1, <4>1, <4>2, CancelKeeps
      <4>4. r = ProviderLeaveTicket(c)
        BY <1>8, <2>1, <3>1
      <4>5. r.rooms.joined = c.rooms.joined \ {"ticket"}
        BY <4>3, <4>4, LeaveTicketKeeps
      <4> QED  BY <4>3, <4>5
    <3> QED  BY <1>2, <1>11, <2>1, <3>3, <3>4 DEF Good
  <2>2. CASE t \notin bridges
    <3>1. Left(q, q, {})
      BY <1>10 DEF Left, Providers
    <3> QED  BY <1>8, <1>10, <1>11, <2>2, <3>1
  <2> QED  BY <2>1, <2>2
<1>13. Left(p, r, a \cup b)
  BY <1>7, <1>10, <1>12, LeftTwice
<1>14. a \cup b = bridges
  BY <1>3, <1>6, <1>11
<1>15. r.rooms.joined = IF o \in bridges THEN {} ELSE p.rooms.joined \ bridges
  BY <1>3, <1>7, <1>12
<1> QED
  BY <1>1, <1>9, <1>13, <1>14, <1>15

\* The provider awaits this answer and no other, first for the bridge of the
\* room, and then, if two wait for it, for the ticket's.
Asking(p, c, room, n) ==
  /\ c \in Calls /\ Live(p, c) /\ \A d \in Calls : Live(p, d) => d = c
  /\ p.rooms.promise[c].for = room
  /\ LET ws == p.rooms.promise[c].waiters IN
     Len(ws) = n /\ ws[1] = Waiter(room) /\ (n = 2 => ws[2] = Waiter("ticket"))

\* What the provider is at, for a page: it has joined the rooms, or asks for
\* the organization's, or, being in that, for the ticket's.
Steady(p, pg) ==
  \/ Still(p) /\ p.rooms.joined = Mounted(pg)
  \/ (\E c \in Calls : Asking(p, c, "org", 1)) /\ p.rooms.joined = {} /\ pg = "org"
  \/ (\E c \in Calls : Asking(p, c, "org", 2)) /\ p.rooms.joined = {} /\ pg = "ticket"
  \/ (\E c \in Calls : Asking(p, c, "ticket", 1)) /\ p.rooms.joined = {"org"} /\ pg = "ticket"

\* Nothing was sent but the join whose answer is awaited now.
Asked(p, q) ==
  /\ q.rooms.joined = p.rooms.joined
  /\ \/ Still(q) /\ q.out = p.out
     \/ \E c \in Calls, r \in Rooms :
          q.out = Append(p.out, Command(JoinCommand(r), c)) /\ \A d \in Calls : Live(q, d) => d = c

\* A join is sent when no answer is awaited.
LEMMA EmittedIsAsked ==
  ASSUME NEW p \in Providers, NEW room \in Rooms, NEW waiter \in Waiters,
         p.on # 0, Unused(p) # {}, Still(p), waiter = Waiter(room),
         NEW q, q = EmitJoin(p, room, waiter)
  PROVE  /\ q \in Providers /\ q.on = p.on /\ Asked(p, q)
         /\ \E c \in Calls : Asking(q, c, room, 1) /\ q.rooms.joins[room] = c /\ c # 0
<1>1. q \in Providers /\ \E c \in Unused(p) : EmittedAs(p, q, c, room, waiter)
  BY EmitJoinIs
<1>2. PICK c \in Unused(p) : EmittedAs(p, q, c, room, waiter)
  BY <1>1
<1>3. /\ c \in Calls /\ c # 0 /\ q.on = p.on /\ q.rooms.joined = p.rooms.joined
      /\ q.out = Append(p.out, Command(JoinCommand(room), c))
      /\ q.rooms.joins = [p.rooms.joins EXCEPT ![room] = c]
  BY <1>2, CallsAreNumbers DEF EmittedAs
<1>4. PICK pr : pr = [for |-> room, on |-> p.on, waiters |-> <<waiter>>]
  OBVIOUS
<1>5. q.rooms.promise = [p.rooms.promise EXCEPT ![c] = pr]
  BY <1>2, <1>4 DEF EmittedAs
<1>6. pr.for = room /\ pr.on = p.on
  BY <1>4
<1>7. pr # Free
  BY <1>6 DEF Free, Rooms
<1>8. /\ q.rooms.promise[c] = pr
      /\ \A d \in Calls : d # c => q.rooms.promise[d] = p.rooms.promise[d]
      /\ q.rooms.joins[room] = c
  BY <1>3, <1>5 DEF Providers, Refs
<1>9. Live(q, c) /\ \A d \in Calls : Live(q, d) => d = c
  BY <1>3, <1>6, <1>7, <1>8 DEF Live, Still
<1>10. PICK ws : ws = pr.waiters
  OBVIOUS
<1>11. Len(ws) = 1 /\ ws[1] = Waiter(room)
  BY <1>4, <1>10
<1>12. Asking(q, c, room, 1)
  BY <1>3, <1>6, <1>8, <1>9, <1>10, <1>11 DEF Asking
<1>13. Asked(p, q)
  BY <1>3, <1>9 DEF Asked
<1> QED
  BY <1>1, <1>3, <1>8, <1>12, <1>13

\* Nothing is pending when no answer is awaited.
LEMMA StillJoins ==
  ASSUME NEW p, NEW answers, Good(p, answers), Still(p), NEW room \in Rooms, room \notin p.rooms.joined,
         NEW waiter
  PROVE  JoinRoom(p, room, waiter) = EmitJoin(p, room, waiter)
<1>1. p.rooms.joins[room] \in {0} \cup Calls
  BY DEF Good, Providers, Refs
<1>2. p.rooms.joins[room] = 0
  BY <1>1 DEF Good, PendingKnown, Still
<1> QED
  BY <1>2 DEF JoinRoom

\* Another bridge waits for the join that is pending.
LEMMA AwaitingIsAsked ==
  ASSUME NEW p \in Providers, NEW q \in Providers, NEW r, NEW room \in Rooms, NEW w \in Waiters,
         NEW c \in Calls, c # 0, Asking(q, c, room, 1), q.rooms.joins[room] = c, room \notin q.rooms.joined,
         Asked(p, q), w = Waiter("ticket"), r = JoinRoom(q, room, w)
  PROVE  Asking(r, c, room, 2) /\ Asked(p, r)
<1>1. r = AwaitJoin(q, room, w)
  BY DEF JoinRoom
<1>2. PICK pr : pr = q.rooms.promise[c]
  OBVIOUS
<1>3. pr \in Promises /\ pr # Free /\ pr.for = room /\ pr.on = q.on
  BY <1>2 DEF Asking, Live, Providers, Refs
<1>4. PICK ws : ws = pr.waiters
  OBVIOUS
<1>5. Len(ws) = 1 /\ ws[1] = Waiter(room)
  BY <1>2, <1>4 DEF Asking
<1>6. PICK vs : vs = Append(ws, w)
  OBVIOUS
<1>7. vs \in Seq(Waiters) /\ Len(vs) = 2 /\ vs[1] = Waiter(room) /\ vs[2] = w
  <2>1. /\ vs \in Seq(Waiters) /\ Len(vs) = Len(ws) + 1 /\ vs[Len(ws) + 1] = w
        /\ \A i \in 1 .. Len(ws) : vs[i] = ws[i]
    <3>1. ws \in Seq(Waiters)
      BY <1>3, <1>4 DEF Promises
    <3> QED  BY <1>6, <3>1, Appending
  <2> QED  BY <1>5, <2>1
<1>8. PICK nr : nr = [pr EXCEPT !.waiters = vs]
  OBVIOUS
<1>9. nr \in Promises /\ nr.for = room /\ nr.on = q.on /\ nr.waiters = vs
  BY <1>3, <1>7, <1>8 DEF Promises
<1>10. nr # Free
  BY <1>9 DEF Free, Rooms
<1>11. PICK ps : ps = [q.rooms.promise EXCEPT ![c] = nr]
  OBVIOUS
<1>12. r = [q EXCEPT !.rooms.promise = ps]
  BY <1>1, <1>2, <1>4, <1>6, <1>8, <1>11 DEF AwaitJoin
<1>13. r.rooms.promise = ps /\ r.rooms.joined = q.rooms.joined /\ r.on = q.on /\ r.out = q.out
  BY <1>12 DEF Providers, Refs
<1>14. ps[c] = nr /\ \A d \in Calls : d # c => ps[d] = q.rooms.promise[d]
  BY <1>11 DEF Providers, Refs
<1>15. Live(r, c) /\ \A d \in Calls : Live(r, d) <=> Live(q, d)
  BY <1>9, <1>10, <1>13, <1>14 DEF Live, Asking
<1>16. Asking(r, c, room, 2)
  BY <1>7, <1>9, <1>13, <1>14, <1>15 DEF Asking
<1>17. ~ Still(q)
  BY DEF Still, Asking
<1>18. Asked(p, r)
  BY <1>13, <1>15, <1>17 DEF Asked
<1> QED
  BY <1>16, <1>18

\* The bridges of the three pages.
LEMMA MountedIs ==
  /\ Mounted("none") = {} /\ Mounted("org") = {"org"} /\ Mounted("ticket") = {"org", "ticket"}
  BY DEF Mounted

\* The effects of a page whose other rooms are joined.
LEMMA EffectsAreAsked ==
  ASSUME NEW p, NEW answers, NEW pg \in {"none", "org", "ticket"},
         Good(p, answers), Still(p), p.on # 0, Unused(p) # {},
         p.rooms.joined \in {{}, {"org"}, {"org", "ticket"}}, p.rooms.joined \subseteq Mounted(pg),
         NEW bridges, bridges = Mounted(pg) \ p.rooms.joined,
         NEW q, q = Effects(p, bridges)
  PROVE  Steady(q, pg) /\ Asked(p, q)
<1>1. PICK o : o = "org"
  OBVIOUS
<1>2. PICK t : t = "ticket"
  OBVIOUS
<1>3. PICK v : v = Waiter(o)
  OBVIOUS
<1>4. PICK w : w = Waiter(t)
  OBVIOUS
<1>5. o \in Rooms /\ t \in Rooms /\ o # t /\ v \in Waiters /\ w \in Waiters
  BY <1>1, <1>2, <1>3, <1>4 DEF Rooms, Waiter, Waiters
<1>6. p \in Providers
  BY DEF Good
<1>7. CASE bridges = {}
  <2>1. q = p
    BY <1>7 DEF Effects
  <2>2. p.rooms.joined = Mounted(pg)
    BY <1>7
  <2> QED  BY <2>1, <2>2 DEF Steady, Asked
<1>8. CASE p.rooms.joined = {} /\ pg = "org"
  <2>1. bridges = {o}
    BY <1>1, <1>8, MountedIs
  <2>2. q = JoinRoom(p, o, v)
    BY <1>1, <1>2, <1>3, <1>5, <2>1 DEF Effects
  <2>3. q = EmitJoin(p, o, v)
    BY <1>5, <1>8, <2>2, StillJoins
  <2>4. Asked(p, q) /\ \E c \in Calls : Asking(q, c, o, 1)
    BY ZenonT(60), <1>3, <1>5, <1>6, <2>3, EmittedIsAsked
  <2> QED  BY <1>1, <1>8, <2>4 DEF Steady, Asked
<1>9. CASE p.rooms.joined = {} /\ pg = "ticket"
  <2>1. bridges = {o, t}
    BY <1>1, <1>2, <1>9, MountedIs
  <2>2. PICK r : r = JoinRoom(p, o, v)
    OBVIOUS
  <2>3. r = EmitJoin(p, o, v)
    BY <1>5, <1>9, <2>2, StillJoins
  <2>4. r \in Providers /\ Asked(p, r) /\ \E c \in Calls : Asking(r, c, o, 1) /\ r.rooms.joins[o] = c /\ c # 0
    BY <1>3, <1>5, <1>6, <2>3, EmittedIsAsked
  <2>5. PICK c \in Calls : Asking(r, c, o, 1) /\ r.rooms.joins[o] = c /\ c # 0
    BY <2>4
  <2>6. o \notin r.rooms.joined
    BY <1>9, <2>4 DEF Asked
  <2>7. q = JoinRoom(r, o, w)
    BY <1>1, <1>2, <1>3, <1>4, <2>1, <2>2, <2>6 DEF Effects, ProviderJoinTicket
  <2>8. Asking(q, c, o, 2) /\ Asked(p, q)
    <3>1. w = Waiter("ticket") /\ w \in Waiters /\ o \in Rooms
      BY <1>2, <1>4, <1>5
    <3>2. r \in Providers /\ Asked(p, r)
      BY <2>4
    <3>3. c # 0 /\ Asking(r, c, o, 1) /\ r.rooms.joins[o] = c
      BY <2>5
    <3> QED  BY <1>6, <2>6, <2>7, <3>1, <3>2, <3>3, AwaitingIsAsked
  <2> QED  BY <1>1, <1>9, <2>8 DEF Steady, Asked
<1>10. CASE p.rooms.joined = {"org"} /\ pg = "ticket"
  <2>1. bridges = {t}
    BY <1>2, <1>10, MountedIs
  <2>2. q = JoinRoom(p, t, w)
    BY <1>1, <1>2, <1>4, <1>5, <1>10, <2>1 DEF Effects, ProviderJoinTicket
  <2>3. t \notin p.rooms.joined
    BY <1>2, <1>10
  <2>4. q = EmitJoin(p, t, w)
    BY <1>5, <2>2, <2>3, StillJoins
  <2>5. Asked(p, q) /\ \E c \in Calls : Asking(q, c, t, 1)
    BY ZenonT(60), <1>4, <1>5, <1>6, <2>4, EmittedIsAsked
  <2> QED  BY <1>2, <1>10, <2>5 DEF Steady, Asked
<1>11. bridges = {} \/ (p.rooms.joined = {} /\ pg \in {"org", "ticket"}) \/ (p.rooms.joined = {"org"} /\ pg = "ticket")
  BY MountedIs
<1> QED
  BY <1>7, <1>8, <1>9, <1>10, <1>11

\* The waiters of an answer go on, when all other answers have come.
LEMMA ResumingIsAsked ==
  ASSUME NEW p, NEW answers, NEW pg \in {"none", "org", "ticket"},
         Good(p, answers), Still(p), p.on # 0, Unused(p) # {},
         NEW room \in Rooms, NEW ws \in Seq(Waiters), NEW n, Len(ws) = n,
         ws[1] = Waiter(room), n = 2 => ws[2] = Waiter("ticket"),
         \/ room = "org" /\ n = 1 /\ p.rooms.joined = {"org"} /\ pg = "org"
         \/ room = "org" /\ n = 2 /\ p.rooms.joined = {"org"} /\ pg = "ticket"
         \/ room = "ticket" /\ n = 1 /\ p.rooms.joined = {"org", "ticket"} /\ pg = "ticket",
         NEW q, q = ResumeAll(p, room, ws)
  PROVE  Steady(q, pg) /\ Asked(p, q)
<1>1. PICK o : o = "org"
  OBVIOUS
<1>2. PICK t : t = "ticket"
  OBVIOUS
<1>3. PICK v : v = Waiter(room)
  OBVIOUS
<1>4. PICK w : w = Waiter(t)
  OBVIOUS
<1>5. o \in Rooms /\ t \in Rooms /\ o # t /\ w \in Waiters
  BY <1>1, <1>2, <1>4 DEF Rooms, Waiter, Waiters
<1>6. v.bridge = room /\ v.canceled = FALSE /\ w.bridge = t
  BY <1>3, <1>4 DEF Waiter
<1>7. p \in Providers
  BY DEF Good
<1>8. PICK f : /\ ResumeAll(p, room, ws) = f[Len(ws)]
               /\ f[0] = p
               /\ \A i \in 1 .. Len(ws) : f[i] = Resume(f[i - 1], room, ws[i])
  BY ResumeAllIs
<1>9. 1 \in 1 .. Len(ws) /\ Len(ws) = n /\ n \in {1, 2}
  OBVIOUS
<1>10. Resume(p, room, v) = p
  BY <1>6 DEF Resume, Rooms
<1>11. f[1] = p
  <2>1. f[1] = Resume(f[1 - 1], room, ws[1])
    BY <1>8, <1>9
  <2>2. 1 - 1 = 0
    OBVIOUS
  <2> QED  BY <1>3, <1>8, <1>10, <2>1, <2>2
<1>12. CASE n = 1
  <2>1. q = p
    BY <1>8, <1>9, <1>11, <1>12
  <2>2. p.rooms.joined = Mounted(pg)
    <3>1. \/ p.rooms.joined = {"org"} /\ pg = "org"
          \/ p.rooms.joined = {"org", "ticket"} /\ pg = "ticket"
      BY <1>12
    <3> QED  BY <3>1, MountedIs
  <2> QED  BY <2>1, <2>2 DEF Steady, Asked
<1>13. CASE n = 2
  <2>1. room = o /\ p.rooms.joined = {o} /\ pg = "ticket"
    BY <1>1, <1>13
  <2>2. f[2] = Resume(f[2 - 1], room, ws[2])
    BY <1>8, <1>9, <1>13
  <2>3. 2 - 1 = 1
    OBVIOUS
  <2>4. q = Resume(p, room, w)
    BY <1>2, <1>4, <1>8, <1>9, <1>11, <1>13, <2>2, <2>3
  <2>5. q = JoinRoom(p, t, w)
    BY <1>1, <1>2, <1>6, <2>1, <2>4 DEF Resume
  <2>6. t \notin p.rooms.joined
    BY <1>5, <2>1
  <2>7. q = EmitJoin(p, t, w)
    BY <1>5, <2>5, <2>6, StillJoins
  <2>8. Asked(p, q) /\ \E c \in Calls : Asking(q, c, t, 1)
    BY <1>4, <1>5, <1>7, <2>7, EmittedIsAsked
  <2> QED  BY <1>1, <1>2, <2>1, <2>8 DEF Steady, Asked
<1> QED
  BY <1>9, <1>12, <1>13

-----------------------------------------------------------------------------
(* The rooms of the page.                                                    *)

\* While an answer is awaited, nothing was sent after its join.
LastInLine == \A c \in Calls : Live(Provider, c) => up = <<>> \/ up[Len(up)].id = c

\* The server has put the socket into the rooms it has answered for, and none
\* of them is about to be left.
Entered ==
  /\ "org" \in rooms.joined \/ JoinedFor("org") => In("org") /\ ~ LeaveIn(up, "org")
  /\ "ticket" \in rooms.joined \/ JoinedFor("ticket") =>
       In("ticket") /\ ~ LeaveIn(up, "org") /\ ~ LeaveIn(up, "ticket")

Smoothly == Ready /\ flaws = {} => Steady(Provider, page) /\ LastInLine /\ Entered

\* The last command is the join that is awaited; it is not a leave.
LEMMA AskedIsLast ==
  ASSUME NEW p \in Providers, NEW q, Asked(p, q)
  PROVE  /\ \A c \in Calls : Live(q, c) => q.out[Len(q.out)].id = c
         /\ \A room \in Rooms : LeaveIn(q.out, room) => LeaveIn(p.out, room)
<1>1. CASE Still(q) /\ q.out = p.out
  BY <1>1 DEF Still
<1>2. ASSUME NEW c \in Calls, NEW r \in Rooms, q.out = Append(p.out, Command(JoinCommand(r), c)),
             \A d \in Calls : Live(q, d) => d = c
      PROVE  /\ \A d \in Calls : Live(q, d) => q.out[Len(q.out)].id = d
             /\ \A room \in Rooms : LeaveIn(q.out, room) => LeaveIn(p.out, room)
  <2>1. PICK join : join = Command(JoinCommand(r), c)
    OBVIOUS
  <2>2. join \in Commands /\ join.id = c /\ \A room \in Rooms : join.name # LeaveCommand(room)
    BY <2>1 DEF Command, Commands, JoinCommand, LeaveCommand, Rooms
  <2>3. PICK s : s = p.out
    OBVIOUS
  <2>4. PICK t : t = q.out
    OBVIOUS
  <2>5. s \in Seq(Commands) /\ t = Append(s, join)
    BY <1>2, <2>1, <2>3, <2>4 DEF Providers
  <2>6. /\ Len(t) = Len(s) + 1 /\ Len(s) \in Nat /\ t[Len(s) + 1] = join
        /\ \A i \in 1 .. Len(s) : t[i] = s[i]
        /\ \A i \in 1 .. Len(t) : i \in 1 .. Len(s) \/ i = Len(s) + 1
    BY <2>2, <2>5, Appending
  <2>7. t[Len(t)].id = c
    BY <2>2, <2>6
  <2>8. ASSUME NEW room \in Rooms, LeaveIn(t, room) PROVE LeaveIn(s, room)
    BY <2>2, <2>6, <2>8 DEF LeaveIn
  <2> QED  BY <1>2, <2>3, <2>4, <2>7, <2>8
<1> QED
  BY <1>1, <1>2 DEF Asked

\* A step of the provider gives its next state.
LEMMA SteadyNext ==
  ASSUME NEW q, NEW pg, Steady(q, pg), Provider' = q, page' = pg
  PROVE  Steady(Provider, page)'
<1>1. \A c : Live(Provider, c)' <=> Live(q, c)
  BY DEF Live
<1>2. Still(q) => Still(Provider)'
  BY <1>1 DEF Still
<1>3. \A c, room, n : Asking(q, c, room, n) => Asking(Provider, c, room, n)'
  BY <1>1 DEF Asking, Waiter
<1>4. Mounted(page)' = Mounted(pg)
  OBVIOUS
<1> QED
  BY <1>2, <1>3, <1>4 DEF Steady

\* and with it the promises, the commands and the rooms.
LEMMA AskedNext ==
  ASSUME NEW p \in Providers, NEW q, NEW pg, Steady(q, pg), Asked(p, q), Provider' = q, page' = pg
  PROVE  /\ Steady(Provider, page)' /\ LastInLine' /\ rooms'.joined = p.rooms.joined
         /\ \A room \in Rooms : LeaveIn(up', room) => LeaveIn(p.out, room)
<1>1. rooms' = q.rooms /\ up' = q.out
  BY DEF Provider
<1>2. \A c : Live(Provider, c)' <=> Live(q, c)
  BY DEF Live
<1>3. LastInLine'
  BY <1>1, <1>2, AskedIsLast DEF LastInLine
<1>4. \A room \in Rooms : LeaveIn(up', room) => LeaveIn(p.out, room)
  BY <1>1, AskedIsLast
<1> QED
  BY <1>1, <1>3, <1>4, SteadyNext DEF Asked

\* A step that leaves the answers that are awaited as they are.
LEMMA SteadyStays ==
  ASSUME Steady(Provider, page), page' = page, Provider'.on = Provider.on, rooms'.joined = rooms.joined,
         \A c \in Calls : Live(Provider, c) => rooms'.promise[c] = rooms.promise[c],
         \A c \in Calls : Live(Provider, c)' => Live(Provider, c)
  PROVE  Steady(Provider, page)'
<1>1. /\ Provider.rooms = rooms /\ Provider'.rooms = rooms'
  BY DEF Provider
<1>2. \A c \in Calls : Live(Provider, c)' <=> Live(Provider, c)
  BY <1>1 DEF Live
<1>3. Still(Provider) => Still(Provider)'
  BY <1>2 DEF Still
<1>4. \A c \in Calls : \A room, n : Asking(Provider, c, room, n) => Asking(Provider, c, room, n)'
  BY <1>1, <1>2 DEF Asking, Waiter
<1>5. Mounted(page)' = Mounted(page)
  OBVIOUS
<1> QED
  BY <1>1, <1>3, <1>4, <1>5 DEF Steady

\* The join whose answer is awaited is the only one that was not answered.
LEMMA OneIsAwaited ==
  ASSUME Steady(Provider, page), NEW c \in Calls, NEW d \in Calls, Live(Provider, c), Live(Provider, d)
  PROVE  c = d
BY DEF Steady, Still, Asking

\* A socket is in the room of a ticket only while it is in the organization's.
LEMMA EnteredInOrder ==
  ASSUME ClientInv, Steady(Provider, page), Entered, "ticket" \in rooms.joined \/ JoinedFor("ticket")
  PROVE  "org" \in rooms.joined
<1>1. page \in {"none", "org", "ticket"} /\ Provider.rooms = rooms
  BY ProviderIs DEF ClientInv, Kept
<1>2. CASE Still(Provider)
  <2>1. ~ JoinedFor("ticket")
    BY <1>2, JoinedAreCalls DEF JoinedFor, Still
  <2>2. rooms.joined = Mounted(page)
    BY <1>1, <1>2 DEF Steady, Asking, Still
  <2> QED  BY <1>1, <2>1, <2>2, MountedIs
<1>3. CASE ~ Still(Provider)
  <2>1. "ticket" \notin rooms.joined
    BY <1>1, <1>3 DEF Steady
  <2>2. PICK i \in 1 .. Len(down) : down[i].name = "joined" /\ rooms.promise[down[i].id].for = "ticket"
    BY <2>1 DEF JoinedFor
  <2>3. PICK d \in Calls : d = down[i].id /\ Live(Provider, d) /\ rooms.promise[d].for = "ticket"
    BY <2>2, JoinedAreCalls
  <2>4. ASSUME NEW c \in Calls, NEW n, Asking(Provider, c, "org", n) PROVE FALSE
    <3>1. c = d
      BY <2>3, <2>4, OneIsAwaited DEF Asking
    <3> QED  BY <1>1, <2>3, <2>4, <3>1 DEF Asking
  <2> QED  BY <1>1, <1>3, <2>4 DEF Steady
<1> QED
  BY <1>2, <1>3

\* A new connection: nothing is joined, and the first join is asked for.
LEMMA ConnectSmoothly ==
  ASSUME ClientInv, GatewayTypeOK, Connect
  PROVE  Smoothly'
<1>1. PICK p : p = [Provider EXCEPT !.on = socket + 1]
  OBVIOUS
<1>2. PICK pg : pg = page
  OBVIOUS
<1>3. PICK bridges : bridges = Mounted(pg)
  OBVIOUS
<1>4. PICK q : q = Effects(p, bridges)
  OBVIOUS
<1>5. /\ Good(p, down) /\ Still(p) /\ p.rooms.joined = {} /\ p.on # 0 /\ Unused(p) # {}
      /\ pg \in {"none", "org", "ticket"} /\ p.out = <<>> /\ down = <<>>
  BY <1>1, <1>2, ConnectIs DEF Still
<1>6. bridges = Mounted(pg) \ p.rooms.joined /\ p.rooms.joined \subseteq Mounted(pg)
      /\ p.rooms.joined \in {{}, {"org"}, {"org", "ticket"}}
  BY <1>3, <1>5
<1>7. Steady(q, pg) /\ Asked(p, q)
  BY <1>4, <1>5, <1>6, EffectsAreAsked
<1>8. Provider' = q
  BY <1>1, <1>2, <1>3, <1>4, ConnectKeepsProvider
<1>9. page' = pg /\ down' = <<>>
  BY <1>2, <1>5 DEF Connect
<1>10. p \in Providers
  BY <1>5 DEF Good
<1>11. /\ Steady(Provider, page)' /\ LastInLine' /\ rooms'.joined = {}
  BY <1>5, <1>7, <1>8, <1>9, <1>10, AskedNext
<1>12. Entered'
  BY <1>9, <1>11 DEF Entered, JoinedFor
<1> QED
  BY <1>11, <1>12 DEF Smoothly

\* The leaves in transit.
LEMMA LeftLeaves ==
  ASSUME NEW p \in Providers, NEW q \in Providers, NEW bridges \in SUBSET Rooms, Left(p, q, bridges),
         NEW room \in Rooms, LeaveIn(q.out, room)
  PROVE  LeaveIn(p.out, room) \/ room \in bridges
<1>1. PICK i \in 1 .. Len(q.out) : q.out[i].name = LeaveCommand(room)
  BY DEF LeaveIn
<1>2. Len(p.out) \in Nat /\ Len(q.out) \in Nat
  BY DEF Providers
<1>3. CASE i > Len(p.out)
  <2>1. PICK r \in bridges : q.out[i].name = LeaveCommand(r)
    BY <1>3 DEF Left
  <2> QED  BY <1>1, <2>1 DEF LeaveCommand, Rooms
<1>4. CASE ~ (i > Len(p.out))
  <2>1. i \in 1 .. Len(p.out) /\ p.out[i] = q.out[i]
    BY <1>2, <1>4 DEF Left
  <2> QED  BY <1>1, <2>1 DEF LeaveIn
<1> QED
  BY <1>3, <1>4

\* Another page, when nothing was pending: the rooms that stay are not left.
LEMMA NavigateSmoothly ==
  ASSUME ClientInv, Smoothly, NEW pg \in {"none", "org", "ticket"}, Navigate(pg)
  PROVE  Smoothly'
<1> SUFFICES ASSUME Ready', flaws' = {}
             PROVE  Steady(Provider, page)' /\ LastInLine' /\ Entered'
  BY DEF Smoothly
<1>1. PICK hasty : hasty = IF Pending THEN {"hasty"} ELSE {}
  OBVIOUS
<1>2. PICK p : p = [Provider EXCEPT !.flaws = @ \cup hasty]
  OBVIOUS
<1>3. PICK gone : gone = Mounted(page) \ Mounted(pg)
  OBVIOUS
<1>4. PICK come : come = Mounted(pg) \ Mounted(page)
  OBVIOUS
<1>5. PICK r : r = Cleanup(p, gone)
  OBVIOUS
<1>6. PICK q : q = Effects(r, come)
  OBVIOUS
<1>7. Unseen /\ page' = pg /\ down' = down /\ page \in {"none", "org", "ticket"} /\ socket \in {0} \cup Sockets
  BY UnseenSteps DEF Navigate, ClientInv, Kept
<1>8. Ready /\ Provider.on = socket /\ socket # 0
  <2>1. Ready
    BY <1>7 DEF Unseen, gatewayVars, Ready
  <2> QED  BY <1>7, <2>1, SocketsAndOn
<1>9. /\ p.rooms = rooms /\ p.out = up /\ p.on = Provider.on /\ p.flaws = flaws \cup hasty
      /\ Good(p, down) /\ GoneCanceled(p, Mounted(page))
      /\ \A c : Live(p, c) <=> Live(Provider, c)
  BY <1>1, <1>2, HastyIs
<1>10. /\ Good(r, down) /\ Unused(r) # {} /\ Extends(p, r) /\ Provider' = q /\ Extends(r, q)
  <2>1. PICK mounted : mounted = Mounted(pg)
    OBVIOUS
  <2>2. /\ Good(r, down) /\ Extends(p, r) /\ GoneCanceled(r, mounted)
        /\ Unused(r) # {} /\ r.on = Provider.on
    <3>1. Spare
      BY DEF Navigate
    <3> QED  BY <1>1, <1>2, <1>3, <1>5, <2>1, <3>1, NavigateIs
  <2>3. come \in SUBSET Rooms /\ come \subseteq mounted
    BY <1>4, <2>1, MountedAreRooms
  <2>4. r.on # 0
    BY <1>8, <2>2
  <2>5. Good(q, down) /\ Extends(r, q)
    BY <1>6, <2>2, <2>3, <2>4, EffectsKeep
  <2>6. Becomes(q) /\ UNCHANGED <<socket, conn>>
    BY <1>1, <1>2, <1>3, <1>4, <1>5, <1>6, <1>8 DEF Navigate, gatewayVars
  <2>7. q \in Providers /\ q.on = IF Ready' THEN socket' ELSE 0
    BY <1>8, <2>2, <2>5, <2>6, ProviderIs DEF Good, Extends, Ready
  <2>8. Provider' = q
    BY <2>6, <2>7, ProviderBecomes
  <2> QED  BY <2>2, <2>5, <2>8
<1>11. flaws = {} /\ hasty = {}
  <2>1. flaws' = q.flaws
    BY <1>10 DEF Provider
  <2> QED  BY <1>9, <1>10, <2>1 DEF Extends
<1>12. ~ Pending
  BY <1>1, <1>11
<1>13. Still(Provider) /\ Still(p)
  <2>1. Still(Provider)
    BY <1>8, <1>12, ProviderIs DEF Pending, Still, Live
  <2> QED  BY <1>9, <2>1 DEF Still
<1>14. Entered /\ rooms.joined = Mounted(page)
  <2>1. Steady(Provider, page) /\ Entered
    BY <1>8, <1>11 DEF Smoothly
  <2> QED  BY <1>13, <2>1, ProviderIs DEF Steady, Still, Asking
<1>15. gone \in SUBSET Rooms
  BY <1>3, <1>7, MountedAreRooms
<1>16. Left(p, r, gone) /\ r.rooms.joined = IF "org" \in gone THEN {} ELSE p.rooms.joined \ gone
  <2>1. p.on # 0
    BY <1>8, <1>9
  <2>2. PICK was : was = Mounted(page)
    OBVIOUS
  <2>3. Good(p, down) /\ GoneCanceled(p, was)
    BY <1>9, <2>2
  <2> QED  BY <1>5, <1>15, <2>1, <2>3, CleanupLeaves
<1>17. PICK left : left = r.rooms.joined
  OBVIOUS
<1>18. left = IF "org" \in gone THEN {} ELSE Mounted(page) \ gone
  BY <1>9, <1>14, <1>16, <1>17
<1>19. /\ left \in {{}, {"org"}, {"org", "ticket"}} /\ left \subseteq Mounted(pg) /\ left \subseteq Mounted(page)
       /\ come = Mounted(pg) \ left
       /\ "org" \in left => "org" \notin gone
       /\ "ticket" \in left => gone = {}
  <2>1. PICK was \in {"none", "org", "ticket"} : was = page
    BY <1>7
  <2>2. /\ gone = Mounted(was) \ Mounted(pg) /\ come = Mounted(pg) \ Mounted(was)
        /\ left = IF "org" \in gone THEN {} ELSE Mounted(was) \ gone
    BY <1>3, <1>4, <1>18, <2>1
  <2>3. CASE pg = "none"
    BY <2>1, <2>2, <2>3, MountedIs
  <2>4. CASE pg = "org"
    BY <2>1, <2>2, <2>4, MountedIs
  <2>5. CASE pg = "ticket"
    BY <2>1, <2>2, <2>5, MountedIs
  <2> QED  BY <2>3, <2>4, <2>5
<1>20. Still(r) /\ r.on # 0
  BY <1>8, <1>9, <1>13, <1>16 DEF Left, Still
<1>21. Steady(q, pg) /\ Asked(r, q)
  <2>1. /\ r.rooms.joined \in {{}, {"org"}, {"org", "ticket"}} /\ r.rooms.joined \subseteq Mounted(pg)
        /\ come = Mounted(pg) \ r.rooms.joined
    BY <1>17, <1>19
  <2> QED  BY <1>6, <1>10, <1>20, <2>1, EffectsAreAsked
<1>22. p \in Providers /\ r \in Providers
  BY <1>9, <1>10 DEF Good
<1>23. /\ Steady(Provider, page)' /\ LastInLine' /\ rooms'.joined = left
       /\ \A room \in Rooms : LeaveIn(up', room) => LeaveIn(r.out, room)
  BY <1>7, <1>10, <1>17, <1>21, <1>22, AskedNext
<1>24. \A room \in Rooms : LeaveIn(up', room) => LeaveIn(up, room) \/ room \in gone
  BY <1>9, <1>15, <1>16, <1>22, <1>23, LeftLeaves
<1>25. \A room : ~ JoinedFor(room)'
  <2>1. \A i \in 1 .. Len(down) : down[i].name # "joined"
    BY <1>13, JoinedAreCalls DEF Still
  <2> QED  BY <1>7, <2>1 DEF JoinedFor
<1>26. \A room : In(room)' <=> In(room)
  BY <1>7 DEF Unseen, gatewayVars, socketVars, In
<1>27. \A room \in left : room \in rooms.joined
  BY <1>14, <1>19
<1>28. Entered'
  <2>1. ASSUME "org" \in left PROVE In("org")' /\ ~ LeaveIn(up', "org")
    BY <1>14, <1>19, <1>24, <1>26, <1>27, <2>1 DEF Entered, Rooms
  <2>2. ASSUME "ticket" \in left PROVE In("ticket")' /\ ~ LeaveIn(up', "org") /\ ~ LeaveIn(up', "ticket")
    BY <1>14, <1>19, <1>24, <1>26, <1>27, <2>2 DEF Entered, Rooms
  <2> QED  BY <1>23, <1>25, <2>1, <2>2 DEF Entered, LeaveIn, LeaveCommand
<1> QED
  BY <1>23, <1>28

\* The event that is heard, and what is in transit after it.
LEMMA HearEventSmoothly ==
  ASSUME ClientInv, Smoothly, Listen, Head(down).name = "event"
  PROVE  Smoothly'
<1>1. /\ down # <<>> /\ down' = Tail(down)
      /\ UNCHANGED <<gatewayVars, socket, page, up, rooms, flaws>>
  BY DEF Listen
<1>2. Provider' = Provider /\ (Ready' <=> Ready)
  BY <1>1 DEF Provider, Ready, gatewayVars
<1>3. \A c : Live(Provider, c)' <=> Live(Provider, c)
  BY <1>2 DEF Live
<1>4. LastInLine => LastInLine'
  BY <1>1, <1>3 DEF LastInLine
<1>5. Steady(Provider, page) => Steady(Provider, page)'
  BY <1>1, <1>2, <1>3, SteadyStays
<1>6. \A room : JoinedFor(room)' => JoinedFor(room)
  <2>1. down \in Seq(Answers)
    BY UpIsTyped DEF ClientInv, Provided
  <2>2. \A i \in 1 .. Len(down') : i + 1 \in 1 .. Len(down) /\ down'[i] = down[i + 1]
    BY <1>1, <2>1, Heading
  <2> QED  BY <1>1, <2>2 DEF JoinedFor
<1>7. \A room : In(room)' <=> In(room)
  BY <1>1 DEF In, gatewayVars, socketVars
<1>8. Entered => Entered'
  BY <1>1, <1>6, <1>7 DEF Entered, LeaveIn, LeaveCommand
<1> QED
  BY <1>1, <1>2, <1>4, <1>5, <1>8 DEF Smoothly

\* The answer that is heard is the one that was awaited.
LEMMA HearJoinedSmoothly ==
  ASSUME ClientInv, Smoothly, Listen, Head(down).name # "event", Ready, flaws' = {}
  PROVE  /\ Steady(Provider, page)' /\ LastInLine' /\ Entered' /\ flaws = {}
         /\ rooms'.joined = rooms.joined \cup {rooms.promise[Head(down).id].for}
<1>1. /\ down # <<>> /\ down' = Tail(down) /\ Unseen /\ page' = page
      /\ Spare /\ Becomes(Settle(Head(down).id, Head(down).name = "joined"))
      /\ flaws \subseteq flaws'
  BY ListenKeepsProvider, UnseenSteps DEF Listen, Acknowledged
<1>2. Steady(Provider, page) /\ LastInLine /\ Entered
  BY <1>1 DEF Smoothly
<1>3. /\ down \in Seq(Answers) /\ up \in Seq(Commands) /\ Good(Provider, down)
      /\ page \in {"none", "org", "ticket"} /\ Provider.rooms = rooms
  BY UpIsTyped, ProviderIs DEF ClientInv, Provided, Kept
<1>4. PICK c : c = Head(down).id
  OBVIOUS
<1>5. /\ c \in Calls /\ c # 0 /\ Live(Provider, c) /\ rooms.promise[c] \in Promises
      /\ Head(down).name \in {"joined", "refused"}
  BY <1>1, <1>4, HeardAnswerIs
<1>6. PICK room : room = rooms.promise[c].for
  OBVIOUS
<1>7. PICK ws : ws = rooms.promise[c].waiters
  OBVIOUS
<1>8. room \in Rooms /\ ws \in Seq(Waiters)
  BY <1>5, <1>6, <1>7 DEF Promises
<1>9. Head(down).name = "joined"
  <2>1. CASE Head(down).name = "refused"
    <3>1. PICK q : q = Freed(c, {}, {"refused"})
      OBVIOUS
    <3>2. Settle(c, FALSE) = q
      BY <1>5, <3>1, SettleIs
    <3>3. (Head(down).name = "joined") = FALSE
      BY <2>1
    <3>4. Becomes(q)
      BY <1>1, <1>4, <3>2, <3>3
    <3>5. "refused" \in q.flaws
      BY <3>1 DEF Freed
    <3> QED  BY <3>4, <3>5 DEF Becomes
  <2> QED  BY <1>5, <2>1
<1>10. PICK p : p = Freed(c, {room}, {})
  OBVIOUS
<1>11. PICK q : q = ResumeAll(p, room, ws)
  OBVIOUS
<1>12. Becomes(q)
  <2>1. Settle(c, TRUE) = q
    BY <1>5, <1>6, <1>7, <1>10, <1>11, SettleIs
  <2>2. (Head(down).name = "joined") = TRUE
    BY <1>9
  <2> QED  BY <1>1, <1>4, <2>1, <2>2
<1>13. PICK rest : rest = Tail(down)
  OBVIOUS
<1>14. PICK pg : pg = page
  OBVIOUS
<1>15. /\ Good(p, rest) /\ p.on = socket /\ p.on # 0 /\ Unused(p) # {}
  BY <1>1, <1>4, <1>8, <1>10, <1>13, FreedKeeps
<1>16. /\ p.rooms.joined = rooms.joined \cup {room} /\ p.out = up /\ p.rooms.promise[c] = Free
       /\ p.on = Provider.on
       /\ \A d \in Calls : d # c => p.rooms.promise[d] = rooms.promise[d]
  <2>1. rooms \in Refs
    BY <1>3, UpIsTyped
  <2>2. rooms.promise \in [Calls -> {Free} \cup Promises]
    BY <2>1 DEF Refs
  <2>3. /\ p.rooms.joined = rooms.joined \cup {room} /\ p.out = up /\ p.on = Provider.on
        /\ p.rooms.promise = [rooms.promise EXCEPT ![c] = Free]
    BY <1>10 DEF Freed
  <2> QED  BY <1>5, <2>2, <2>3
<1>17. \A d \in Calls : Live(Provider, d) => d = c
  BY <1>2, <1>5, OneIsAwaited
<1>18. Still(p)
  BY <1>3, <1>16, <1>17 DEF Still, Live
<1>19. PICK n : /\ Len(ws) = n /\ ws[1] = Waiter(room) /\ (n = 2 => ws[2] = Waiter("ticket"))
                /\ \/ room = "org" /\ n = 1 /\ rooms.joined = {} /\ pg = "org"
                   \/ room = "org" /\ n = 2 /\ rooms.joined = {} /\ pg = "ticket"
                   \/ room = "ticket" /\ n = 1 /\ rooms.joined = {"org"} /\ pg = "ticket"
  <2>1. ASSUME NEW d \in Calls, NEW r, NEW m, Asking(Provider, d, r, m)
        PROVE  d = c /\ room = r /\ Len(ws) = m /\ ws[1] = Waiter(r) /\ (m = 2 => ws[2] = Waiter("ticket"))
    <3>1. d = c
      BY <1>17, <2>1 DEF Asking
    <3> QED  BY <1>3, <1>6, <1>7, <2>1, <3>1 DEF Asking
  <2>2. ~ Still(Provider)
    BY <1>5 DEF Still
  <2>3. CASE (\E d \in Calls : Asking(Provider, d, "org", 1)) /\ rooms.joined = {} /\ pg = "org"
    BY <2>1, <2>3
  <2>4. CASE (\E d \in Calls : Asking(Provider, d, "org", 2)) /\ rooms.joined = {} /\ pg = "ticket"
    BY <2>1, <2>4
  <2>5. CASE (\E d \in Calls : Asking(Provider, d, "ticket", 1)) /\ rooms.joined = {"org"} /\ pg = "ticket"
    BY <2>1, <2>5
  <2> QED  BY <1>2, <1>3, <1>14, <2>2, <2>3, <2>4, <2>5 DEF Steady
<1>20. /\ \/ room = "org" /\ n = 1 /\ p.rooms.joined = {"org"} /\ pg = "org"
          \/ room = "org" /\ n = 2 /\ p.rooms.joined = {"org"} /\ pg = "ticket"
          \/ room = "ticket" /\ n = 1 /\ p.rooms.joined = {"org", "ticket"} /\ pg = "ticket"
  BY <1>16, <1>19
<1>21. Steady(q, pg) /\ Asked(p, q)
  <2>1. Len(ws) = n /\ ws[1] = Waiter(room) /\ (n = 2 => ws[2] = Waiter("ticket"))
    BY <1>19
  <2>2. pg \in {"none", "org", "ticket"}
    BY <1>3, <1>14
  <2> QED  BY <1>8, <1>11, <1>15, <1>18, <1>20, <2>1, <2>2, ResumingIsAsked
<1>22. Provider' = q
  <2>1. Good(q, rest) /\ q.on = socket
    <3>1. Settle(c, TRUE) = q
      BY <1>5, <1>6, <1>7, <1>10, <1>11, SettleIs
    <3> QED  BY <1>1, <1>4, <1>13, <3>1, SettleKeeps
  <2>2. q.on = IF Ready' THEN socket' ELSE 0
    BY <1>1, <2>1 DEF Unseen, gatewayVars, Ready
  <2> QED  BY <1>12, <2>1, <2>2, ProviderBecomes DEF Good
<1>23. p \in Providers
  BY <1>15 DEF Good
<1>24. /\ Steady(Provider, page)' /\ LastInLine' /\ rooms'.joined = p.rooms.joined
       /\ \A r \in Rooms : LeaveIn(up', r) => LeaveIn(p.out, r)
  BY <1>1, <1>14, <1>21, <1>22, <1>23, AskedNext
<1>25. down[1] = Head(down) /\ 1 \in 1 .. Len(down)
  BY <1>1, <1>3, Heading
<1>26. up = <<>>
  <2>1. ASSUME up # <<>>, up[Len(up)].id = c PROVE FALSE
    <3>1. Len(up) \in 1 .. Len(up)
      BY <1>3, <2>1
    <3> QED  BY <1>3, <1>4, <1>5, <1>25, <2>1, <3>1, SentAreCalls
  <2> QED  BY <1>2, <1>5, <2>1 DEF LastInLine
<1>27. \A r \in Rooms : ~ LeaveIn(up', r)
  BY <1>16, <1>24, <1>26 DEF LeaveIn
<1>28. \A r : ~ JoinedFor(r)'
  <2>1. ASSUME NEW i \in 1 .. Len(down'), down'[i].name = "joined" PROVE FALSE
    <3>1. i + 1 \in 1 .. Len(down) /\ down'[i] = down[i + 1] /\ i + 1 # 1
      BY <1>1, <1>3, Heading
    <3>2. PICK k \in 1 .. Len(down) : k = i + 1
      BY <3>1
    <3>3. down[k].name = "joined" /\ k # 1
      BY <2>1, <3>1, <3>2
    <3>4. /\ down[k].id \in Calls /\ Live(Provider, down[k].id)
          /\ \A j \in 1 .. Len(down) : down[j].id = down[k].id => j = k
      BY <3>3, JoinedAreCalls
    <3>5. down[k].id = down[1].id
      BY <1>4, <1>17, <1>25, <3>4
    <3> QED  BY <1>25, <3>3, <3>4, <3>5
  <2> QED  BY <2>1 DEF JoinedFor
<1>29. \A r : In(r)' <=> In(r)
  BY <1>1 DEF Unseen, gatewayVars, socketVars, In
<1>30. \A r \in p.rooms.joined : r \in rooms.joined \/ JoinedFor(r)
  BY <1>4, <1>6, <1>9, <1>16, <1>25 DEF JoinedFor
<1>31. Entered'
  <2>1. ASSUME "org" \in rooms'.joined PROVE In("org")'
    BY <1>2, <1>24, <1>29, <1>30, <2>1 DEF Entered
  <2>2. ASSUME "ticket" \in rooms'.joined PROVE In("ticket")'
    BY <1>2, <1>24, <1>29, <1>30, <2>2 DEF Entered
  <2>3. ~ LeaveIn(up', "org") /\ ~ LeaveIn(up', "ticket")
    BY <1>27 DEF Rooms
  <2> QED  BY <1>28, <2>1, <2>2, <2>3 DEF Entered, LeaveIn, LeaveCommand
<1> QED
  BY <1>1, <1>4, <1>6, <1>16, <1>24, <1>31

\* What comes back, the one or the other.
LEMMA ListenSmoothly ==
  ASSUME ClientInv, Smoothly, Listen
  PROVE  Smoothly'
<1>1. Unseen
  BY UnseenSteps
<1>2. Ready' => Ready
  BY <1>1 DEF Unseen, gatewayVars, Ready
<1> QED
  BY <1>2, HearEventSmoothly, HearJoinedSmoothly DEF Smoothly

\* The server takes a command: no room is left that the page is entered into.
LEMMA ReceiveSmoothly ==
  ASSUME ClientInv, GatewayTypeOK, Smoothly, Receive
  PROVE  Smoothly'
<1> SUFFICES ASSUME Ready', flaws' = {}
             PROVE  Steady(Provider, page)' /\ LastInLine' /\ Entered'
  BY DEF Smoothly
<1>1. PICK m \in Commands : ReceiveCases(m) /\ Ready /\ socket \in Sockets
  BY ReceiveIs
<1>2. /\ up # <<>> /\ m = Head(up) /\ up' = Tail(up) /\ UNCHANGED <<socket, rooms, page, flaws, conn>>
      /\ up \in Seq(Commands) /\ down \in Seq(Answers)
  BY <1>1, UpIsTyped DEF ReceiveCases, pageVars, ClientInv, Provided
<1>3. /\ m = up[1] /\ Len(up') = Len(up) - 1 /\ Len(up) \in Nat /\ 1 \in 1 .. Len(up)
      /\ \A k \in 1 .. Len(up) - 1 : up'[k] = up[k + 1]
  BY <1>2, Heading
<1>4. Steady(Provider, page) /\ LastInLine /\ Entered
  BY <1>1, <1>2 DEF Smoothly
<1>5. Provider'.on = Provider.on
  BY <1>2 DEF Provider, Ready
<1>6. \A c : Live(Provider, c)' <=> Live(Provider, c)
  BY <1>2, <1>5, ProviderIs DEF Live, Provider
<1>7. Steady(Provider, page)'
  BY <1>2, <1>4, <1>5, <1>6, SteadyStays
<1>8. LastInLine'
  <2> SUFFICES ASSUME NEW c \in Calls, Live(Provider, c), up' # <<>>
               PROVE  up'[Len(up')].id = c
    BY <1>6 DEF LastInLine
  <2>1. up[Len(up)].id = c
    BY <1>2, <1>4 DEF LastInLine
  <2>2. up' \in Seq(Commands)
    BY <1>2, Heading
  <2>3. Len(up') \in 1 .. Len(up) - 1 /\ Len(up') + 1 = Len(up)
    BY <1>3, <2>2
  <2> QED  BY <1>3, <2>1, <2>3
<1>9. \A room : LeaveIn(up', room) => LeaveIn(up, room)
  <2>1. \A i \in 1 .. Len(up') : i + 1 \in 1 .. Len(up) /\ up'[i] = up[i + 1]
    BY <1>3
  <2> QED  BY <2>1 DEF LeaveIn
<1>10. \A room : JoinedFor(room)' => JoinedFor(room)
  <2>1. CASE down' = down
    BY <1>2, <2>1 DEF JoinedFor
  <2>2. CASE m.id \in Calls /\ down' = Append(down, Command("refused", m.id))
    <3>1. PICK a : a = Command("refused", m.id)
      OBVIOUS
    <3>2. a \in Answers /\ a.name # "joined"
      BY <2>2, <3>1 DEF Command, Answers
    <3>3. /\ down'[Len(down) + 1] = a
          /\ \A i \in 1 .. Len(down) : down'[i] = down[i]
          /\ \A i \in 1 .. Len(down') : i \in 1 .. Len(down) \/ i = Len(down) + 1
      BY <1>2, <2>2, <3>1, <3>2, Appending
    <3> QED  BY <1>2, <3>2, <3>3 DEF JoinedFor
  <2> QED  BY <1>1, <2>1, <2>2 DEF ReceiveCases
<1>11. ASSUME NEW room \in Rooms, In(room), ~ LeaveIn(up, "org"), ~ LeaveIn(up, room)
       PROVE  In(room)'
  <2>1. m.name # "org leave" /\ (room = "ticket" => m.name # "ticket leave")
    BY <1>3, <1>11 DEF LeaveIn, LeaveCommand
  <2>2. CASE UNCHANGED socketVars
    BY <1>2, <1>11, <2>2 DEF socketVars, In
  <2>3. CASE m.name = "ticket leave" /\ UNCHANGED orgRooms
    BY <1>2, <1>11, <2>1, <2>3 DEF In, Rooms
  <2> QED  BY <1>1, <2>1, <2>2, <2>3 DEF ReceiveCases
<1>12. Entered'
  <2>1. "org" \in rooms'.joined \/ JoinedFor("org")' => In("org")' /\ ~ LeaveIn(up', "org")
    BY <1>2, <1>4, <1>9, <1>10, <1>11 DEF Entered, Rooms
  <2>2. "ticket" \in rooms'.joined \/ JoinedFor("ticket")' =>
          In("ticket")' /\ ~ LeaveIn(up', "org") /\ ~ LeaveIn(up', "ticket")
    BY <1>2, <1>4, <1>9, <1>10, <1>11 DEF Entered, Rooms
  <2> QED  BY <2>1, <2>2 DEF Entered, LeaveIn, LeaveCommand
<1> QED
  BY <1>7, <1>8, <1>12

\* Only a lost membership takes a socket out of rooms that no leave was sent for.
LEMMA OnlyExpelled ==
  ASSUME GatewayTypeOK, NEW c \in Calls, HandlerStep(c)
  PROVE  \/ call[c].pc = "ticket missing"
         \/ \A s \in Sockets : orgRooms[s] \subseteq orgRooms'[s] /\ ticketRooms[s] \subseteq ticketRooms'[s]
<1>1. CASE ResolveTenant(c) \/ RefuseOrganization(c) \/ RefuseTicket(c)
  BY <1>1 DEF ResolveTenant, RefuseOrganization, RefuseTicket, socketVars
<1>2. CASE EnterOrganization(c)
  BY <1>2 DEF EnterOrganization, GatewayTypeOK
<1>3. CASE ExpelSocket(c)
  BY <1>3 DEF ExpelSocket, At
<1>4. CASE RefreshTenant(c)
  BY <1>4 DEF RefreshTenant
<1>5. CASE EnterTicket(c)
  BY <1>5 DEF EnterTicket, GatewayTypeOK
<1> QED
  BY <1>1, <1>2, <1>3, <1>4, <1>5 DEF HandlerStep

\* A handler that answers has put the socket into the room.
LEMMA AnsweredIsEntered ==
  ASSUME GatewayTypeOK, NEW c \in Calls, HandlerStep(c), conn[call[c].socket] = "open"
  PROVE  /\ At(c, "org found") => call[c].org \in orgRooms'[call[c].socket]
         /\ At(c, "ticket exists") /\ ExistsInOrganization(call[c].ticket, call[c].org) =>
              call[c].ticket \in ticketRooms'[call[c].socket]
<1>1. call[c].socket \in Sockets
  BY HandlerStepIs
<1>2. ASSUME At(c, "org found") PROVE call[c].org \in orgRooms'[call[c].socket]
  <2>1. EnterOrganization(c)
    BY <1>2 DEF HandlerStep, ResolveTenant, RefuseOrganization, ExpelSocket, RefreshTenant,
                EnterTicket, RefuseTicket, At
  <2> QED  BY <1>1, <2>1 DEF EnterOrganization, InRoom, GatewayTypeOK
<1>3. ASSUME At(c, "ticket exists"), ExistsInOrganization(call[c].ticket, call[c].org)
      PROVE  call[c].ticket \in ticketRooms'[call[c].socket]
  <2>1. EnterTicket(c)
    BY <1>3 DEF HandlerStep, ResolveTenant, EnterOrganization, RefuseOrganization, ExpelSocket,
                RefreshTenant, RefuseTicket, At
  <2> QED  BY <1>1, <2>1 DEF EnterTicket, InRoom, GatewayTypeOK
<1> QED
  BY <1>2, <1>3

\* The answer of a handler says that the room was entered; no membership that
\* was found is lost on a connection.
LEMMA HandleSmoothly ==
  ASSUME ClientInv, GatewayTypeOK, RoomsAreRecorded, Smoothly, NEW c \in Calls, Handle(c)
  PROVE  Smoothly'
<1> SUFFICES ASSUME Ready', flaws' = {}
             PROVE  Steady(Provider, page)' /\ LastInLine' /\ Entered'
  BY DEF Smoothly
<1>1. /\ HandlerStep(c) /\ call[c] # Idle /\ call[c].socket \in Sockets
      /\ UNCHANGED <<up, socket, page, flaws, rooms, conn>>
      /\ down \in Seq(Answers)
  BY HandleIs, UpIsTyped DEF pageVars, ClientInv, Provided
<1>2. Ready /\ socket \in Sockets /\ Provider.on = socket /\ conn[socket] = "open"
  <2>1. Ready
    BY <1>1 DEF Ready
  <2> QED  BY <2>1, SocketsAndOn DEF Ready, ClientInv, Kept
<1>3. Steady(Provider, page) /\ LastInLine /\ Entered
  BY <1>1, <1>2 DEF Smoothly
<1>4. Provider' = Provider
  BY <1>1 DEF Provider, Ready
<1>5. \A d : Live(Provider, d)' <=> Live(Provider, d)
  BY <1>4 DEF Live
<1>6. Steady(Provider, page)' /\ LastInLine'
  BY <1>1, <1>3, <1>4, <1>5, SteadyStays DEF LastInLine
<1>7. ASSUME NEW room \in Rooms, In(room), In("org") PROVE In(room)'
  <2>1. CASE call[c].socket # socket
    <3>1. \A s \in Sockets : s # call[c].socket =>
            /\ tenants'[s] = tenants[s] /\ tickets'[s] = tickets[s]
            /\ orgRooms'[s] = orgRooms[s] /\ ticketRooms'[s] = ticketRooms[s]
      BY <1>1, HandlerStepIs
    <3> QED  BY <1>1, <1>2, <1>7, <2>1, <3>1 DEF In
  <2>2. CASE call[c].socket = socket
    <3>1. Organization \in orgRooms[socket]
      BY <1>7 DEF In
    <3>2. Organization \in member[socket]
      BY <1>2, <3>1 DEF RoomsAreRecorded, ClientInv, OneOrganization
    <3>3. call[c].pc # "ticket missing"
      BY <1>1, <2>2, <3>2 DEF ClientInv, OneOrganization
    <3> QED  BY <1>1, <1>2, <1>7, <3>3, OnlyExpelled DEF In
  <2> QED  BY <2>1, <2>2
<1>8. ASSUME NEW room \in Rooms, JoinedFor(room)', ~ JoinedFor(room)
      PROVE  In(room)' /\ up = <<>>
  <2>1. PICK i \in 1 .. Len(down') : down'[i].name = "joined" /\ rooms.promise[down'[i].id].for = room
    BY <1>1, <1>8 DEF JoinedFor
  <2>2. down' # down
    BY <1>8, <2>1 DEF JoinedFor
  <2>3. /\ call[c].socket = socket
        /\ \E name \in {"joined", "refused"} : down' = Append(down, Command(name, c))
    BY <2>2, HandleIs
  <2>4. PICK name \in {"joined", "refused"} : down' = Append(down, Command(name, c))
    BY <2>3
  <2>5. PICK a : a = Command(name, c)
    OBVIOUS
  <2>6. a \in Answers /\ a.name = name /\ a.id = c
    BY <2>5 DEF Command, Answers
  <2>7. /\ down'[Len(down) + 1] = a
        /\ \A k \in 1 .. Len(down) : down'[k] = down[k]
        /\ \A k \in 1 .. Len(down') : k \in 1 .. Len(down) \/ k = Len(down) + 1
    BY <1>1, <2>4, <2>5, <2>6, Appending
  <2>8. i \notin 1 .. Len(down)
    BY <1>8, <2>1, <2>7 DEF JoinedFor
  <2>9. name = "joined" /\ rooms.promise[c].for = room
    BY <2>1, <2>6, <2>7, <2>8
  <2>10. \/ At(c, "org found")
         \/ At(c, "ticket exists") /\ ExistsInOrganization(call[c].ticket, call[c].org)
    <3>1. PICK good : good = (\/ At(c, "org found")
                              \/ At(c, "ticket exists") /\ ExistsInOrganization(call[c].ticket, call[c].org))
      OBVIOUS
    <3>2. PICK b : b = Command(IF good THEN "joined" ELSE "refused", c)
      OBVIOUS
    <3>3. b \in Answers /\ b.name = IF good THEN "joined" ELSE "refused"
      BY <3>2 DEF Command, Answers
    <3>4. down' = Append(down, b)
      BY <2>2, <3>1, <3>2 DEF Handle
    <3>5. down'[Len(down) + 1] = b
      BY <1>1, <3>3, <3>4, Appending
    <3> QED  BY <2>6, <2>7, <2>9, <3>1, <3>3, <3>5
  <2>11. Live(Provider, c) /\ rooms.promise[c].for = ForOf(call[c].pc)
    BY <1>1, <1>2, <2>3, ProviderIs DEF ClientInv, Provided, Good, Handled
  <2>12. call[c].org = Organization /\ (ForOf(call[c].pc) = "ticket" => call[c].ticket = Ticket)
    BY <1>1 DEF ClientInv, OneOrganization
  <2>13. In(room)'
    <3>1. CASE At(c, "org found")
      <4>1. room = "org"
        BY <2>9, <2>11, <3>1 DEF At, ForOf
      <4>2. Organization \in orgRooms'[socket]
        BY <1>1, <1>2, <2>3, <2>12, <3>1, AnsweredIsEntered
      <4> QED  BY <1>1, <4>1, <4>2 DEF In
    <3>2. CASE At(c, "ticket exists") /\ ExistsInOrganization(call[c].ticket, call[c].org)
      <4>1. room = "ticket"
        BY <2>9, <2>11, <3>2 DEF At, ForOf
      <4>2. Ticket \in ticketRooms'[socket]
        BY <1>1, <1>2, <2>3, <2>9, <2>11, <2>12, <3>2, <4>1, AnsweredIsEntered
      <4> QED  BY <1>1, <4>1, <4>2 DEF In
    <3> QED  BY <2>10, <3>1, <3>2
  <2>14. up = <<>>
    <3>1. Good(Provider, down) /\ up \in Seq(Commands)
      BY UpIsTyped DEF ClientInv, Provided
    <3>2. ASSUME up # <<>>, up[Len(up)].id = c PROVE FALSE
      <4>1. Len(up) \in 1 .. Len(up) /\ c # 0
        BY <3>1, <3>2, CallsAreNumbers
      <4> QED  BY <1>1, <3>1, <3>2, <4>1, SentAreCalls
    <3> QED  BY <1>3, <2>11, <3>2 DEF LastInLine
  <2> QED  BY <2>13, <2>14
<1>9. Entered'
  <2>1. ASSUME "org" \in rooms'.joined \/ JoinedFor("org")' PROVE In("org")' /\ ~ LeaveIn(up', "org")
    <3>1. CASE "org" \in rooms.joined \/ JoinedFor("org")
      BY <1>1, <1>3, <1>7, <3>1 DEF Entered, Rooms
    <3>2. CASE ~ ("org" \in rooms.joined \/ JoinedFor("org"))
      BY <1>1, <1>8, <2>1, <3>2 DEF LeaveIn, Rooms
    <3> QED  BY <3>1, <3>2
  <2>2. ASSUME "ticket" \in rooms'.joined \/ JoinedFor("ticket")'
        PROVE  In("ticket")' /\ ~ LeaveIn(up', "org") /\ ~ LeaveIn(up', "ticket")
    <3>1. CASE "ticket" \in rooms.joined \/ JoinedFor("ticket")
      <4>1. "org" \in rooms.joined
        BY <1>3, <3>1, EnteredInOrder
      <4> QED  BY <1>1, <1>3, <1>7, <3>1, <4>1 DEF Entered, Rooms
    <3>2. CASE ~ ("ticket" \in rooms.joined \/ JoinedFor("ticket"))
      BY <1>1, <1>8, <2>2, <3>2 DEF LeaveIn, Rooms
    <3> QED  BY <3>1, <3>2
  <2> QED  BY <2>1, <2>2 DEF Entered, LeaveIn, LeaveCommand
<1> QED
  BY <1>6, <1>9

\* The steps that the rooms have no part in.
LEMMA QuietSmoothly ==
  ASSUME ClientInv, Smoothly,
         \/ \E w \in Updates : Publish(w) \/ Write(w)
         \/ ReadMessages \/ ShowMessages \/ UNCHANGED clientVars
  PROVE  Smoothly'
<1>1. /\ UNCHANGED <<gatewayVars, up, socket, page, rooms, flaws>>
      /\ down' = down \/ down' = Append(down, Command("event", 0))
  BY QuietSteps
<1>2. Provider' = Provider /\ (Ready' <=> Ready)
  BY <1>1 DEF Provider, Ready, gatewayVars
<1>3. \A c : Live(Provider, c)' <=> Live(Provider, c)
  BY <1>2 DEF Live
<1>4. LastInLine => LastInLine'
  BY <1>1, <1>3 DEF LastInLine
<1>5. Steady(Provider, page) => Steady(Provider, page)'
  BY <1>1, <1>2, <1>3, SteadyStays
<1>6. \A room : JoinedFor(room)' => JoinedFor(room)
  <2>1. CASE down' = down
    BY <1>1, <2>1 DEF JoinedFor
  <2>2. CASE down' = Append(down, Command("event", 0))
    <3>1. PICK a : a = Command("event", 0)
      OBVIOUS
    <3>2. a \in Answers /\ a.name # "joined" /\ down \in Seq(Answers)
      BY <3>1, UpIsTyped DEF Command, Answers, ClientInv, Provided
    <3>3. /\ down'[Len(down) + 1] = a
          /\ \A i \in 1 .. Len(down) : down'[i] = down[i]
          /\ \A i \in 1 .. Len(down') : i \in 1 .. Len(down) \/ i = Len(down) + 1
      BY <2>2, <3>1, <3>2, Appending
    <3> QED  BY <1>1, <3>2, <3>3 DEF JoinedFor
  <2> QED  BY <1>1, <2>1, <2>2
<1>7. \A room : In(room)' <=> In(room)
  BY <1>1 DEF In, gatewayVars, socketVars
<1>8. Entered => Entered'
  BY <1>1, <1>6, <1>7 DEF Entered, LeaveIn, LeaveCommand
<1> QED
  BY <1>1, <1>2, <1>4, <1>5, <1>8 DEF Smoothly

\* A promise of a former connection is rejected.
LEMMA TimeOutSmoothly ==
  ASSUME ClientInv, Smoothly, NEW c \in Calls, TimeOut(c)
  PROVE  Smoothly'
<1>1. /\ UNCHANGED <<gatewayVars, up, down, socket, page, flaws>> /\ rooms'.joined = rooms.joined
      /\ \A d \in Calls : Live(Provider, d) => rooms'.promise[d] = rooms.promise[d]
  BY TimeOutKeepsProvider DEF TimeOut, linkVars, pageVars
<1>2. Provider'.on = Provider.on /\ (Ready' <=> Ready) /\ Provider'.rooms = rooms' /\ Provider.rooms = rooms
  BY <1>1 DEF Provider, Ready, gatewayVars
<1>3. \A d \in Calls : rooms'.promise[d] = Free \/ rooms'.promise[d] = rooms.promise[d]
  <2>1. rooms \in Refs
    BY UpIsTyped DEF ClientInv, Provided
  <2>2. rooms.promise \in [Calls -> {Free} \cup Promises]
    BY <2>1 DEF Refs
  <2>3. PICK ps : ps = [rooms.promise EXCEPT ![c] = Free]
    OBVIOUS
  <2>4. rooms'.promise = ps
    BY <2>1, <2>3 DEF TimeOut, Refs
  <2> QED  BY <2>2, <2>3, <2>4
<1>4. \A d \in Calls : Live(Provider, d)' <=> Live(Provider, d)
  BY <1>1, <1>2, <1>3 DEF Live
<1>5. LastInLine => LastInLine'
  BY <1>1, <1>4 DEF LastInLine
<1>6. Steady(Provider, page) => Steady(Provider, page)'
  BY <1>1, <1>2, <1>4, SteadyStays
<1>7. \A room : JoinedFor(room)' => JoinedFor(room)
  <2>1. \A i \in 1 .. Len(down) : down[i].name = "joined" => rooms'.promise[down[i].id] = rooms.promise[down[i].id]
    BY <1>1, JoinedAreCalls
  <2> QED  BY <1>1, <2>1 DEF JoinedFor
<1>8. \A room : In(room)' <=> In(room)
  BY <1>1 DEF In, gatewayVars, socketVars
<1>9. Entered => Entered'
  BY <1>1, <1>7, <1>8 DEF Entered, LeaveIn, LeaveCommand
<1> QED
  BY <1>1, <1>2, <1>5, <1>6, <1>9 DEF Smoothly

\* Every step, as long as nothing goes wrong.
LEMMA SmoothlyStep ==
  GatewayTypeOK /\ RoomsAreRecorded /\ ClientInv /\ Smoothly /\ [ClientNext]_clientVars => Smoothly'
<1> SUFFICES ASSUME GatewayTypeOK, RoomsAreRecorded, ClientInv, Smoothly, [ClientNext]_clientVars
             PROVE  Smoothly'
  OBVIOUS
<1>1. CASE Disconnect
  BY <1>1, DisconnectKeepsProvider DEF Smoothly
<1>2. CASE Connect
  BY <1>2, ConnectSmoothly
<1>3. CASE Receive
  BY <1>3, ReceiveSmoothly
<1>4. CASE Listen
  BY <1>4, ListenSmoothly
<1> QED
  BY <1>1, <1>2, <1>3, <1>4, StepIs, HandleSmoothly, TimeOutSmoothly, NavigateSmoothly, QuietSmoothly

\* When nothing is under way, what the provider believes, what the server has,
\* and what the page needs are the same.
LEMMA SmoothlyAgree ==
  ASSUME ClientInv, TakenBack, Smoothly
  PROVE  RoomsOfThePage
<1> SUFFICES ASSUME Quiet, flaws = {}
             PROVE  /\ rooms.joined = Mounted(page)
                    /\ orgRooms[socket] = IF "org" \in rooms.joined THEN {Organization} ELSE {}
                    /\ ticketRooms[socket] = IF "ticket" \in rooms.joined THEN {Ticket} ELSE {}
  BY DEF RoomsOfThePage
<1>1. Ready /\ up = <<>> /\ down = <<>> /\ \A c \in Calls : call[c] = Idle
  BY DEF Quiet
<1>2. Steady(Provider, page) /\ Entered
  BY <1>1 DEF Smoothly
<1>3. Still(Provider)
  <2>1. NotLost(Provider, down) /\ Provider.out = up
    BY ProviderIs DEF ClientInv, Provided, Good
  <2> QED  BY <1>1, <2>1 DEF NotLost, Still
<1>4. rooms.joined = Mounted(page)
  BY <1>2, <1>3, ProviderIs DEF Steady, Still, Asking
<1>5. socket \in Sockets
  BY <1>1, SocketsAndOn DEF ClientInv, Kept
<1>6. orgRooms[socket] \subseteq {Organization} /\ ticketRooms[socket] \subseteq {Ticket}
  BY <1>5 DEF ClientInv, OneOrganization
<1>7. \A room \in Rooms : In(room) => room \in rooms.joined
  BY <1>1, <1>4 DEF TakenBack, Needed, LeaveIn, JoinedFor
<1>8. Organization \in orgRooms[socket] <=> "org" \in rooms.joined
  BY <1>2, <1>7 DEF Entered, In, Rooms
<1>9. Ticket \in ticketRooms[socket] <=> "ticket" \in rooms.joined
  BY <1>2, <1>7 DEF Entered, In, Rooms
<1> QED
  BY <1>4, <1>6, <1>8, <1>9

\* As long as no page was left with a join pending and no join was refused, the
\* three agree on the rooms whenever nothing is under way: over every
\* connection, every order of commands and answers, and all the pages between.
THEOREM RoomsAgree == ClientSpec => []RoomsOfThePage
<1>1. ClientInit => Smoothly /\ TakenBack
  BY DEF ClientInit, Smoothly, TakenBack, Ready
<1>2. ClientInv /\ TakenBack /\ Smoothly => RoomsOfThePage
  BY SmoothlyAgree
<1> QED
  BY <1>1, <1>2, TakenBackStep, SmoothlyStep, BrowserIsAClient, RoomsAreAlwaysRecorded,
     ProviderKeepsItsPromises, PTL DEF ClientSpec

-----------------------------------------------------------------------------
(* The page that was recovered.                                              *)

\* An update is known to the page, or the page is about to learn of it: it is
\* not published yet, an event is in transit, or it is fetched.
Heard(w) ==
  \/ w \notin published
  \/ \E i \in 1 .. Len(down) : down[i].name = "event"
  \/ fetch = Sent
  \/ fetch.at = "answered" /\ w \in fetch.saw
  \/ fetch = NoFetch /\ w \in cache[1]

\* The page that was recovered is on its way to show everything: it is in
\* the ticket's room, and everything committed is known or about to be.
CatchesUp ==
  caughtUp =>
    /\ Ready /\ page = "ticket" /\ cache # <<>>
    /\ flaws = {} => "ticket" \in rooms.joined /\ \A w \in written : Heard(w)

\* What was in transit to the browser still is.
Longer == \A i \in 1 .. Len(down) : i \in 1 .. Len(down') /\ down'[i] = down[i]

\* An answer or an event that is sent.
LEMMA AppendedIsLonger ==
  ASSUME ClientInv, NEW a \in Answers, down' = down \/ down' = Append(down, a)
  PROVE  Longer
<1>1. down \in Seq(Answers)
  BY UpIsTyped DEF ClientInv, Provided
<1>2. CASE down' = down
  BY <1>2 DEF Longer
<1>3. CASE down' = Append(down, a)
  BY <1>1, <1>3, Appending DEF Longer
<1> QED
  BY <1>2, <1>3

\* The server only adds to what is in transit to the browser.
LEMMA ServedIsLonger ==
  ASSUME ClientInv, GatewayTypeOK, Receive \/ \E c \in Calls : Handle(c)
  PROVE  /\ Longer
         /\ UNCHANGED <<socket, conn, page, written, published, cache, fetch, flaws, rooms, caughtUp>>
<1>1. CASE Receive
  <2>1. PICK m \in Commands : ReceiveCases(m)
    BY <1>1, ReceiveIs
  <2>2. \E a \in Answers : down' = down \/ down' = Append(down, a)
    <3>1. CASE down' = down
      <4>1. PICK a : a = Command("event", 0)
        OBVIOUS
      <4>2. a \in Answers
        BY <4>1 DEF Command, Answers
      <4> QED  BY <3>1, <4>2
    <3>2. CASE m.id \in Calls /\ down' = Append(down, Command("refused", m.id))
      <4>1. PICK a : a = Command("refused", m.id)
        OBVIOUS
      <4>2. a \in Answers
        BY <3>2, <4>1 DEF Command, Answers
      <4> QED  BY <3>2, <4>1, <4>2
    <3> QED  BY <2>1, <3>1, <3>2 DEF ReceiveCases
  <2>3. Longer
    BY <2>2, AppendedIsLonger
  <2> QED  BY <2>1, <2>3 DEF ReceiveCases, dataVars, cacheVars, pageVars
<1>2. ASSUME NEW c \in Calls, Handle(c)
      PROVE  /\ Longer
             /\ UNCHANGED <<socket, conn, page, written, published, cache, fetch, flaws, rooms, caughtUp>>
  <2>1. UNCHANGED <<socket, conn, dataVars, pageVars, rooms, caughtUp>>
    BY <1>2, HandleIs
  <2>2. \E a \in Answers : down' = down \/ down' = Append(down, a)
    <3>1. CASE down' = down
      <4>1. PICK a : a = Command("event", 0)
        OBVIOUS
      <4>2. a \in Answers
        BY <4>1 DEF Command, Answers
      <4> QED  BY <3>1, <4>2
    <3>2. CASE \E name \in {"joined", "refused"} : down' = Append(down, Command(name, c))
      <4>1. PICK name \in {"joined", "refused"} : down' = Append(down, Command(name, c))
        BY <3>2
      <4>2. PICK a : a = Command(name, c)
        OBVIOUS
      <4>3. a \in Answers
        BY <4>2 DEF Command, Answers
      <4> QED  BY <4>1, <4>2, <4>3
    <3> QED  BY <1>2, <3>1, <3>2, HandleIs
  <2>3. Longer
    BY <2>2, AppendedIsLonger
  <2> QED  BY <2>1, <2>3 DEF dataVars, cacheVars, pageVars
<1> QED
  BY <1>1, <1>2

\* A step that does not fetch, and takes nothing that is in transit.
LEMMA CatchesUpStays ==
  ASSUME CatchesUp, Longer, rooms'.joined = rooms.joined,
         UNCHANGED <<socket, conn, page, written, published, cache, fetch, flaws, caughtUp>>
  PROVE  CatchesUp'
<1>1. Ready' <=> Ready
  BY DEF Ready
<1>2. \A w : Heard(w) => Heard(w)'
  BY DEF Heard, Longer
<1> QED
  BY <1>1, <1>2 DEF CatchesUp

\* The answer of the ticket's join fetches the conversation; no other answer is
\* awaited while the page is caught up.
LEMMA CatchesUpByAnswer ==
  ASSUME ClientInv, Smoothly, CatchesUp, Listen, Head(down).name # "event"
  PROVE  CatchesUp'
<1> SUFFICES ASSUME caughtUp'
             PROVE  /\ Ready' /\ page' = "ticket" /\ cache' # <<>>
                    /\ flaws' = {} => "ticket" \in rooms'.joined /\ \A w \in written' : Heard(w)'
  BY DEF CatchesUp
<1>1. PICK c : c = Head(down).id
  OBVIOUS
<1>2. PICK refreshes \in BOOLEAN :
        refreshes = (Head(down).name = "joined" /\ rooms.promise[c].for = "ticket" /\ Recovered)
  OBVIOUS
<1>3. /\ down # <<>> /\ Unseen /\ page' = page /\ written' = written
      /\ Invalidate(refreshes)
      /\ caughtUp' = (caughtUp \/ (refreshes /\ page = "ticket" /\ cache # <<>>))
  BY <1>1, <1>2, UnseenSteps DEF Listen, Acknowledged
<1>4. Ready /\ Live(Provider, c) /\ c \in Calls
  BY <1>1, <1>3, HeardAnswerIs
<1>5. Ready'
  BY <1>3, <1>4 DEF Unseen, gatewayVars, Ready
<1>6. page = "ticket" /\ cache # <<>> /\ cache' = cache
  BY <1>3 DEF CatchesUp, Invalidate
<1>7. ASSUME flaws' = {} PROVE "ticket" \in rooms'.joined /\ \A w \in written' : Heard(w)'
  <2>1. /\ flaws = {} /\ rooms'.joined = rooms.joined \cup {rooms.promise[c].for}
    BY <1>1, <1>4, <1>7, HearJoinedSmoothly
  <2>2. ~ caughtUp
    <3>1. ASSUME "ticket" \in rooms.joined PROVE FALSE
      <4>1. Steady(Provider, page) /\ Provider.rooms = rooms
        BY <1>4, <2>1, ProviderIs DEF Smoothly
      <4>2. ~ Still(Provider)
        BY <1>4 DEF Still
      <4> QED  BY <3>1, <4>1, <4>2 DEF Steady
    <3> QED  BY <2>1, <3>1 DEF CatchesUp
  <2>3. refreshes /\ rooms.promise[c].for = "ticket"
    BY <1>2, <1>3, <2>2
  <2>4. fetch' = Sent
    BY <1>3, <1>6, <2>3 DEF Invalidate
  <2> QED  BY <2>1, <2>3, <2>4 DEF Heard
<1> QED
  BY <1>3, <1>5, <1>6, <1>7

\* An event that is heard fetches the conversation once more.
LEMMA CatchesUpByEvent ==
  ASSUME CatchesUp, Listen, Head(down).name = "event"
  PROVE  CatchesUp'
<1>1. /\ UNCHANGED <<gatewayVars, socket, page, rooms, flaws, caughtUp, written>>
      /\ Invalidate(TRUE)
  BY DEF Listen
<1>2. Ready' <=> Ready
  BY <1>1 DEF Ready, gatewayVars
<1>3. page = "ticket" /\ cache # <<>> => fetch' = Sent /\ cache' = cache
  BY <1>1 DEF Invalidate
<1> QED
  BY <1>1, <1>2, <1>3 DEF CatchesUp, Heard

\* What is published is heard of in the room of the ticket.
LEMMA CatchesUpByPublish ==
  ASSUME ClientInv, Smoothly, CatchesUp, NEW u \in Updates, Publish(u)
  PROVE  CatchesUp'
<1>1. /\ UNCHANGED <<gatewayVars, socket, page, rooms, flaws, caughtUp, written, cache, fetch>>
      /\ published' = published \cup {u}
  BY DEF Publish, pageVars, cacheVars
<1>2. PICK a : a = Command("event", 0)
  OBVIOUS
<1>3. a \in Answers /\ a.name = "event"
  BY <1>2 DEF Command, Answers
<1>4. Longer
  <2>1. down' = down \/ down' = Append(down, a)
    BY <1>2 DEF Publish
  <2> QED  BY <1>3, <2>1, AppendedIsLonger
<1>5. Ready' <=> Ready
  BY <1>1 DEF Ready, gatewayVars
<1>6. ASSUME caughtUp, flaws = {}, NEW w \in written PROVE Heard(w)'
  <2>1. Ready /\ "ticket" \in rooms.joined /\ Heard(w)
    BY <1>6 DEF CatchesUp
  <2>2. Ticket \in ticketRooms[socket]
    BY <1>6, <2>1 DEF Smoothly, Entered, In
  <2>3. down' = Append(down, a)
    BY <1>2, <2>1, <2>2 DEF Publish
  <2>4. Len(down) + 1 \in 1 .. Len(down') /\ down'[Len(down) + 1] = a
    <3>1. down \in Seq(Answers)
      BY UpIsTyped DEF ClientInv, Provided
    <3> QED  BY <1>3, <2>3, <3>1, Appending
  <2> QED  BY <1>3, <2>4 DEF Heard
<1> QED
  BY <1>1, <1>5, <1>6 DEF CatchesUp

\* The fetch, and what it shows.
LEMMA CatchesUpByFetch ==
  ASSUME CatchesUp, ReadMessages \/ ShowMessages
  PROVE  CatchesUp'
<1>1. UNCHANGED <<gatewayVars, socket, page, rooms, flaws, caughtUp, written, published, down>>
  BY DEF ReadMessages, ShowMessages, linkVars, pageVars
<1>2. Ready' <=> Ready
  BY <1>1 DEF Ready, gatewayVars
<1>3. CASE ReadMessages
  <2>1. fetch'.at = "answered" /\ fetch'.saw = written /\ cache' = cache
    BY <1>3 DEF ReadMessages
  <2>2. \A w \in written : Heard(w)'
    BY <2>1 DEF Heard
  <2> QED  BY <1>1, <1>2, <2>1, <2>2 DEF CatchesUp
<1>4. CASE ShowMessages
  <2>1. /\ fetch.at = "answered" /\ fetch' = NoFetch /\ cache' = <<fetch.saw>>
    BY <1>4 DEF ShowMessages
  <2>2. cache'[1] = fetch.saw /\ cache' # <<>>
    BY <2>1
  <2>3. fetch # Sent /\ fetch # NoFetch
    BY <2>1 DEF Sent, NoFetch
  <2>4. \A w : Heard(w) => Heard(w)'
    BY <1>1, <2>1, <2>2, <2>3 DEF Heard
  <2> QED  BY <1>1, <1>2, <2>2, <2>4 DEF CatchesUp
<1> QED
  BY <1>3, <1>4

\* What is committed is not published yet.
LEMMA CatchesUpByWrite ==
  ASSUME ClientInv, CatchesUp, NEW u \in Updates, Write(u)
  PROVE  CatchesUp'
<1>1. /\ UNCHANGED <<gatewayVars, socket, page, rooms, flaws, caughtUp, published, down, cache, fetch>>
      /\ written' = written \cup {u}
  BY DEF Write, linkVars, pageVars, cacheVars
<1>2. Ready' <=> Ready
  BY <1>1 DEF Ready, gatewayVars
<1>3. u \notin published
  BY DEF Write, ClientInv, Kept
<1>4. \A w : Heard(w) => Heard(w)'
  BY <1>1 DEF Heard
<1>5. Heard(u)'
  BY <1>1, <1>3 DEF Heard
<1> QED
  BY <1>1, <1>2, <1>4, <1>5 DEF CatchesUp

\* Every step keeps the page catching up,
LEMMA CatchesUpStep ==
  GatewayTypeOK /\ ClientInv /\ Smoothly /\ CatchesUp /\ [ClientNext]_clientVars => CatchesUp'
<1> SUFFICES ASSUME GatewayTypeOK, ClientInv, Smoothly, CatchesUp, [ClientNext]_clientVars
             PROVE  CatchesUp'
  OBVIOUS
<1>1. CASE Connect
  BY <1>1 DEF Connect, CatchesUp
<1>2. CASE Disconnect
  BY <1>2 DEF Disconnect, CatchesUp
<1>3. ASSUME NEW pg \in {"none", "org", "ticket"}, Navigate(pg) PROVE CatchesUp'
  BY <1>3 DEF Navigate, CatchesUp
<1>4. CASE Receive \/ \E c \in Calls : Handle(c)
  <2>1. /\ Longer
        /\ UNCHANGED <<socket, conn, page, written, published, cache, fetch, flaws, rooms, caughtUp>>
    BY <1>4, ServedIsLonger
  <2> QED  BY <2>1, CatchesUpStays
<1>5. ASSUME NEW c \in Calls, TimeOut(c) PROVE CatchesUp'
  <2>1. /\ UNCHANGED <<socket, conn, page, written, published, cache, fetch, flaws, caughtUp, down>>
        /\ rooms'.joined = rooms.joined
    BY <1>5, TimeOutKeepsProvider DEF TimeOut, gatewayVars, linkVars, pageVars, dataVars, cacheVars
  <2>2. Longer
    BY <2>1 DEF Longer
  <2> QED  BY <2>1, <2>2, CatchesUpStays
<1>6. CASE Listen
  BY <1>6, CatchesUpByAnswer, CatchesUpByEvent
<1>7. CASE UNCHANGED clientVars
  <2>1. UNCHANGED <<socket, conn, page, written, published, cache, fetch, flaws, rooms, caughtUp, down>>
    BY <1>7 DEF clientVars, gatewayVars, linkVars, pageVars, dataVars, cacheVars
  <2>2. Longer
    BY <2>1 DEF Longer
  <2> QED  BY <2>1, <2>2, CatchesUpStays
<1> QED
  BY <1>1, <1>2, <1>3, <1>4, <1>5, <1>6, <1>7, StepIs, CatchesUpByPublish, CatchesUpByWrite, CatchesUpByFetch

\* and when nothing is under way it has.
LEMMA CaughtUpIsFresh ==
  ASSUME ClientInv, CatchesUp
  PROVE  RecoveredPagesAreFresh
<1> SUFFICES ASSUME Quiet, flaws = {}, caughtUp, fetch = NoFetch
             PROVE  cache = <<written>>
  BY DEF RecoveredPagesAreFresh
<1>1. PICK shown \in SUBSET written : cache = <<shown>>
  BY DEF CatchesUp, ClientInv, Kept
<1>2. cache[1] = shown
  BY <1>1
<1>3. fetch # Sent /\ fetch.at # "answered"
  BY DEF Sent, NoFetch
<1>4. \A w \in written : w \in shown
  BY <1>2, <1>3 DEF CatchesUp, Heard, Quiet
<1>5. shown = written
  BY <1>1, <1>4
<1> QED
  BY <1>1, <1>5

\* A conversation that was refetched when the ticket's room was joined again
\* shows all that was committed once nothing is under way: of what came after
\* the fetch there was an event, since the socket stayed in the room.
THEOREM RecoveredAreFresh == ClientSpec => []RecoveredPagesAreFresh
<1>1. ClientInit => Smoothly /\ CatchesUp
  BY DEF ClientInit, Smoothly, CatchesUp, Ready
<1>2. ClientInv /\ CatchesUp => RecoveredPagesAreFresh
  BY CaughtUpIsFresh
<1> QED
  BY <1>1, <1>2, SmoothlyStep, CatchesUpStep, BrowserIsAClient, RoomsAreAlwaysRecorded,
     ProviderKeepsItsPromises, PTL DEF ClientSpec

===============================================================================
