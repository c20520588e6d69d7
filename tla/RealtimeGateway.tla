---------------------------- MODULE RealtimeGateway ----------------------------
(***************************************************************************)
(* The Socket.IO gateway: what a connection is subscribed to.  A handler   *)
(* runs to its next await without interruption; membership and ticket      *)
(* lookups are awaits, and other commands of the same socket are handled   *)
(* meanwhile.  Joining and leaving a room of the adapter is immediate.     *)
(***************************************************************************)

CONSTANTS
  Sockets,         (* connections; a reconnect is another one              *)
  Organizations,
  Tickets,
  TicketOrg,       (* the organization of each ticket                      *)
  Calls,           (* join commands in progress at one time                *)
  None             (* not a ticket                                         *)

ASSUME GatewayAssumption ==
  /\ TicketOrg \in [Tickets -> Organizations]
  /\ None \notin Tickets

VARIABLES
  member,          (* Membership rows of each socket's user                *)
  conn,            (* "new", "open", "closed"                              *)
  tenants,         (* client.data.tenants                                  *)
  tickets,         (* client.data.tickets                                  *)
  orgRooms,        (* organization rooms the socket is in                  *)
  ticketRooms,     (* ticket rooms the socket is in                        *)
  call             (* join commands: how far each handler has come         *)

socketVars  == <<tenants, tickets, orgRooms, ticketRooms>>
gatewayVars == <<member, conn, socketVars, call>>

Idle == [pc |-> "idle"]

Handler(pc, s, o, t) == [pc |-> pc, socket |-> s, org |-> o, ticket |-> t]

GatewayInit ==
  /\ member \in [Sockets -> SUBSET Organizations]
  /\ conn = [s \in Sockets |-> "new"]
  /\ tenants = [s \in Sockets |-> {}]
  /\ tickets = [s \in Sockets |-> {}]
  /\ orgRooms = [s \in Sockets |-> {}]
  /\ ticketRooms = [s \in Sockets |-> {}]
  /\ call = [c \in Calls |-> Idle]

\* An administrator of the database adds or removes a membership, or the user
\* accepts an invitation.
ChangeMembership(s) ==
  /\ \E orgs \in SUBSET Organizations : member' = [member EXCEPT ![s] = orgs]
  /\ UNCHANGED <<conn, socketVars, call>>

\* The handshake's middleware has verified the token and synchronised the user.
HandleConnection(s) ==
  /\ conn[s] = "new"
  /\ conn' = [conn EXCEPT ![s] = "open"]
  /\ UNCHANGED <<member, socketVars, call>>

\* Socket.IO takes a closed socket out of its rooms, and for good.
HandleDisconnect(s) ==
  /\ conn[s] = "open"
  /\ conn' = [conn EXCEPT ![s] = "closed"]
  /\ orgRooms' = [orgRooms EXCEPT ![s] = {}]
  /\ ticketRooms' = [ticketRooms EXCEPT ![s] = {}]
  /\ UNCHANGED <<member, tenants, tickets, call>>

InRoom(s, x) == IF conn[s] = "open" THEN {x} ELSE {}

TicketsOf(o) == {t \in Tickets : TicketOrg[t] = o}

At(c, from) == call[c].pc = from

Await(c, to) == call' = [call EXCEPT ![c].pc = to]

Return(c) == call' = [call EXCEPT ![c] = Idle]

-----------------------------------------------------------------------------
(* organization.join, organization.leave                                     *)

JoinOrganization(c, s, o) ==
  /\ conn[s] = "open" /\ At(c, "idle")
  /\ call' = [call EXCEPT ![c] = Handler("org lookup", s, o, None)]
  /\ UNCHANGED <<member, conn, socketVars>>

\* Mutant: a user without a membership is resolved, too.
ResolveTenantTrusting(c) ==
  /\ \/ At(c, "org lookup") /\ Await(c, "org found")
     \/ At(c, "ticket lookup") /\ Await(c, "ticket found")
  /\ UNCHANGED <<member, conn, socketVars>>

\* TenantContextService.resolve, for both joins.
ResolveTenant(c) ==
  /\ \E kind \in {"org", "ticket"} :
        /\ At(c, CASE kind = "org" -> "org lookup" [] kind = "ticket" -> "ticket lookup")
        /\ Await(c, IF call[c].org \in member[call[c].socket]
                    THEN CASE kind = "org" -> "org found" [] kind = "ticket" -> "ticket found"
                    ELSE CASE kind = "org" -> "org missing" [] kind = "ticket" -> "ticket missing")
  /\ UNCHANGED <<member, conn, socketVars>>

EnterOrganization(c) ==
  LET s == call[c].socket
      o == call[c].org IN
  /\ At(c, "org found")
  /\ orgRooms' = [orgRooms EXCEPT ![s] = @ \cup InRoom(s, o)]
  /\ tenants' = [tenants EXCEPT ![s] = @ \cup {o}]
  /\ Return(c)
  /\ UNCHANGED <<member, conn, tickets, ticketRooms>>

RefuseOrganization(c) ==
  /\ At(c, "org missing")
  /\ Return(c)
  /\ UNCHANGED <<member, conn, socketVars>>

\* leaveAllOrganizationTickets: the tickets that client.data knows of.
LeaveAllTickets(s, o) ==
  /\ ticketRooms' = [ticketRooms EXCEPT ![s] = @ \ (tickets[s] \cap TicketsOf(o))]
  /\ tickets' = [tickets EXCEPT ![s] = @ \ TicketsOf(o)]

Leave(s, o) ==
  /\ LeaveAllTickets(s, o)
  /\ orgRooms' = [orgRooms EXCEPT ![s] = @ \ {o}]
  /\ tenants' = [tenants EXCEPT ![s] = @ \ {o}]

\* Otherwise: ORGANIZATION_NOT_JOINED
LeaveOrganization(s, o) ==
  /\ conn[s] = "open" /\ o \in tenants[s]
  /\ Leave(s, o)
  /\ UNCHANGED <<member, conn, call>>

-----------------------------------------------------------------------------
(* ticket.join, ticket.leave                                                 *)

\* Otherwise: ORGANIZATION_NOT_JOINED
JoinTicket(c, s, o, t) ==
  /\ conn[s] = "open" /\ At(c, "idle")
  /\ o \in tenants[s]
  /\ call' = [call EXCEPT ![c] = Handler("ticket lookup", s, o, t)]
  /\ UNCHANGED <<member, conn, socketVars>>

\* The membership is gone: the socket is taken out of every room of the
\* organization that client.data knows of.
ExpelSocket(c) ==
  /\ At(c, "ticket missing")
  /\ Leave(call[c].socket, call[c].org)
  /\ Return(c)
  /\ UNCHANGED <<member, conn>>

\* Every role has TICKETS_READ.
RefreshTenant(c) ==
  /\ At(c, "ticket found")
  /\ tenants' = [tenants EXCEPT ![call[c].socket] = @ \cup {call[c].org}]
  /\ Await(c, "ticket exists")
  /\ UNCHANGED <<member, conn, tickets, orgRooms, ticketRooms>>

\* existsInOrganization
ExistsInOrganization(t, o) == TicketOrg[t] = o

\* Mutant: the ticket is recorded by its organization.
EnterTicketByOrganization(c) ==
  LET s == call[c].socket IN
  /\ At(c, "ticket exists")
  /\ ExistsInOrganization(call[c].ticket, call[c].org)
  /\ ticketRooms' = [ticketRooms EXCEPT ![s] = @ \cup InRoom(s, call[c].ticket)]
  /\ tickets' = [tickets EXCEPT ![s] = @ \cup {call[c].org}]
  /\ Return(c)
  /\ UNCHANGED <<member, conn, tenants, orgRooms>>

EnterTicket(c) ==
  LET s == call[c].socket
      t == call[c].ticket IN
  /\ At(c, "ticket exists")
  /\ ExistsInOrganization(t, call[c].org)
  /\ ticketRooms' = [ticketRooms EXCEPT ![s] = @ \cup InRoom(s, t)]
  /\ tickets' = [tickets EXCEPT ![s] = @ \cup {t}]
  /\ Return(c)
  /\ UNCHANGED <<member, conn, tenants, orgRooms>>

RefuseTicket(c) ==
  /\ At(c, "ticket exists")
  /\ ~ ExistsInOrganization(call[c].ticket, call[c].org)
  /\ Return(c)
  /\ UNCHANGED <<member, conn, socketVars>>

\* Otherwise: TICKET_NOT_JOINED
LeaveTicket(s, t) ==
  /\ conn[s] = "open" /\ t \in tickets[s]
  /\ ticketRooms' = [ticketRooms EXCEPT ![s] = @ \ {t}]
  /\ tickets' = [tickets EXCEPT ![s] = @ \ {t}]
  /\ UNCHANGED <<member, conn, tenants, orgRooms, call>>

-----------------------------------------------------------------------------
(* With clients that send any command at any time.                           *)

HandlerStep(c) ==
  \/ ResolveTenant(c)
  \/ EnterOrganization(c) \/ RefuseOrganization(c)
  \/ ExpelSocket(c) \/ RefreshTenant(c)
  \/ EnterTicket(c) \/ RefuseTicket(c)

GatewayNext ==
  \/ \E s \in Sockets :
       \/ ChangeMembership(s) \/ HandleConnection(s) \/ HandleDisconnect(s)
       \/ \E o \in Organizations : LeaveOrganization(s, o)
       \/ \E t \in Tickets : LeaveTicket(s, t)
       \/ \E c \in Calls, o \in Organizations :
            \/ JoinOrganization(c, s, o)
            \/ \E t \in Tickets : JoinTicket(c, s, o, t)
  \/ \E c \in Calls : HandlerStep(c)

GatewaySpec == GatewayInit /\ [][GatewayNext]_gatewayVars

-----------------------------------------------------------------------------
(* Properties.                                                               *)

Handlers ==
  {Idle}
  \cup [pc : {"org lookup", "org found", "org missing"},
        socket : Sockets, org : Organizations, ticket : {None}]
  \cup [pc : {"ticket lookup", "ticket found", "ticket missing", "ticket exists"},
        socket : Sockets, org : Organizations, ticket : Tickets]

GatewayTypeOK ==
  /\ member \in [Sockets -> SUBSET Organizations]
  /\ conn \in [Sockets -> {"new", "open", "closed"}]
  /\ tenants \in [Sockets -> SUBSET Organizations]
  /\ orgRooms \in [Sockets -> SUBSET Organizations]
  /\ tickets \in [Sockets -> SUBSET Tickets]
  /\ ticketRooms \in [Sockets -> SUBSET Tickets]
  /\ call \in [Calls -> Handlers]

\* Whatever lookups were under way meanwhile, client.data names every room the
\* socket is in: leaving an organization and losing a membership look there.
RoomsAreRecorded ==
  \A s \in Sockets :
    /\ orgRooms[s] \subseteq tenants[s]
    /\ ticketRooms[s] = IF conn[s] = "open" THEN tickets[s] ELSE {}

\* The requests whose lookup found a membership, and what sockets can hear.
Permits ==
  {<<call[c].socket, call[c].org>> :
     c \in {d \in Calls : call[d].pc \in {"org found", "ticket found", "ticket exists"}}}

Hears ==
  {so \in Sockets \X Organizations :
     so[2] \in orgRooms[so[1]] \/ \E t \in ticketRooms[so[1]] : TicketOrg[t] = so[2]}

Access == INSTANCE RoomAccess WITH permits <- Permits, hears <- Hears

\* Nobody starts to hear of an organization, by its room or by the room of one
\* of its tickets, without a lookup for this very request that found a member.
ImplementsRoomAccess == Access!Spec

\* docs/architecture.md: "Leaving an organization also leaves its ticket
\* rooms", and a ticket join "requires the organization to have been joined
\* first".
TicketRoomsNeedTheirOrganization ==
  \A s \in Sockets : \A t \in ticketRooms[s] : TicketOrg[t] \in orgRooms[s]

===============================================================================
