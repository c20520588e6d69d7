------------------------------ MODULE TeamPage ------------------------------
(***************************************************************************)
(* The team page of one member, in one tab: MemberList, InvitationList and *)
(* InviteMemberDialog over the members and invitations of the API, which   *)
(* others change as well.                                                  *)
(*                                                                         *)
(* The page shows three things that grow old on their own: the query of    *)
(* the members, the query of the invitations, and the member's own role,   *)
(* which the server rendered into the page.  No event tells it of a        *)
(* change: it fetches again after its own changes, and only then.          *)
(*                                                                         *)
(* `members' and `invitations' keep every state the tables have had; what  *)
(* the page shows, or an answer carries, is a position in them, 0 for      *)
(* nothing.  An address has the latest of its invitations, which are all   *)
(* to become an AGENT.  Library code, modelled from its use: a query that  *)
(* is invalidated while it is being fetched is fetched anew, and           *)
(* router.refresh() calls are answered one after the other.                *)
(***************************************************************************)
EXTENDS Naturals, Sequences, FiniteSetsExt, SequencesExt

CONSTANTS
    People,        \* users, each with an email address
    Me,            \* the one the page belongs to
    Nobody,        \* no address
    Founding,      \* the roles at the beginning, "NONE" without a membership
    Offered,       \* the roles that are asked for
    Invites,       \* the invitations the page may send
    MaxMembers,    \* bound: the states of the memberships
    MaxInvitations,  \* bound: the states of the invitations
    MaxFaults      \* bound: requests that get no answer

Roles == {"OWNER", "ADMIN", "AGENT", "VIEWER"}
Managers == {"OWNER", "ADMIN"}
Queries == {"members", "invitations"}
Requests == {"role", "cancel"} \cup Invites

ASSUME TeamPageAssumption ==
    /\ Me \in People /\ Nobody \notin People /\ Offered \subseteq Roles
    /\ Founding \subseteq [People -> Roles \cup {"NONE"}]
    /\ MaxMembers \in Nat /\ MaxInvitations \in Nat /\ MaxFaults \in Nat
    /\ Invites \cap {"role", "cancel"} = {}

VARIABLES
    members,       \* the states of Membership.role, the last is the present
    invitations,   \* the states of each address's invitation
    query,         \* per query: what is shown, and the fetch under way
    rights,        \* the rendered role, and the refreshes under way
    request,       \* the page's mutations and where they are
    dialog,        \* InviteMemberDialog
    own,           \* the latest change of the page's own that it was told of
    faults

vars == <<members, invitations, query, rights, request, dialog, own, faults>>
server == <<members, invitations>>

Role(p) == Last(members)[p]
Invitation(p) == Last(invitations)[p]
RenderedRole == members[rights.shown][Me]

Unsent == [step |-> "unsent"]
Closed == [open |-> FALSE, link |-> Nobody, mine |-> "none"]
Unfetched == [shown |-> 0, failed |-> FALSE, stale |-> FALSE, fetch |-> "idle", at |-> 0]
Fetching == [Unfetched EXCEPT !.fetch = "sent"]

(* The page is rendered, and its queries are fetched for the first time.   *)
Render(i) ==
    [rights |-> [shown |-> i, refresh |-> "idle", at |-> 0, again |-> FALSE],
     query |-> [q \in Queries |->
                  IF q = "members" \/ members[i][Me] \in Managers
                  THEN Fetching ELSE Unfetched]]

Init ==
    /\ members \in {<<roles>> : roles \in Founding}
    /\ invitations = <<[p \in People |-> "NONE"]>>
    /\ rights = Render(1).rights /\ query = Render(1).query
    /\ request = [r \in Requests |-> Unsent]
    /\ dialog = Closed
    /\ own = [part \in Queries \cup {"rights"} |-> 0]
    /\ faults = 0

-----------------------------------------------------------------------------
(* The server.                                                             *)

(* assertRoleChangeAllowed.                                                *)
RoleChangeAllowed(actor, target, new) ==
    \/ actor = "OWNER"
    \/ actor = "ADMIN" /\ {target, new} \cap Managers = {}

LastOwner(p, new) ==
    /\ Role(p) = "OWNER" /\ new # "OWNER"
    /\ \A other \in People \ {p} : Role(other) # "OWNER"

Appoint(p, new) ==
    IF Role(p) = new THEN members
    ELSE Append(members, [Last(members) EXCEPT ![p] = new])

Invite(p, status) == Append(invitations, [Last(invitations) EXCEPT ![p] = status])

(* What is done by others, and by the clock.                               *)
RoleChangedElsewhere(p, new) ==
    /\ Role(p) \notin {"NONE", new} /\ ~ LastOwner(p, new)
    /\ Len(members) < MaxMembers
    /\ members' = Appoint(p, new)
    /\ UNCHANGED <<invitations, query, rights, request, dialog, own, faults>>

InvitationChangesElsewhere(p) ==
    /\ Len(invitations) < MaxInvitations
    /\ \/ /\ Role(p) = "NONE" /\ Invitation(p) # "PENDING"
          /\ invitations' = Invite(p, "PENDING")
          /\ UNCHANGED members
       \/ /\ Invitation(p) = "PENDING"
          /\ \E status \in {"CANCELED", "EXPIRED"} :
               invitations' = Invite(p, status)
          /\ UNCHANGED members
       \/ /\ Invitation(p) = "PENDING" /\ Len(members) < MaxMembers
          /\ invitations' = Invite(p, "ACCEPTED")
          /\ members' = Appoint(p, "AGENT")
    /\ UNCHANGED <<query, rights, request, dialog, own, faults>>

-----------------------------------------------------------------------------
(* The queries.                                                            *)

Answers(q, answer) ==
    /\ query[q].fetch = "sent"
    /\ query' = [query EXCEPT ![q] = answer]
    /\ UNCHANGED <<server, rights, request, dialog, own, faults>>

ReadMembers ==
    Answers("members", [query["members"] EXCEPT !.fetch = "read", !.at = Len(members)])

(* 403 for those who do not manage.                                        *)
ReadInvitations ==
    Answers("invitations",
      IF Role(Me) \in Managers
      THEN [query["invitations"] EXCEPT !.fetch = "read", !.at = Len(invitations)]
      ELSE [query["invitations"] EXCEPT !.fetch = "idle", !.failed = TRUE])

Arrive(q) ==
    /\ query[q].fetch = "read"
    /\ query' = [query EXCEPT ![q] =
         [Unfetched EXCEPT !.shown = query[q].at]]
    /\ UNCHANGED <<server, rights, request, dialog, own, faults>>

FetchFails(q) ==
    /\ query[q].fetch # "idle" /\ faults < MaxFaults
    /\ query' = [query EXCEPT ![q] =
         [@ EXCEPT !.failed = TRUE, !.fetch = "idle", !.at = 0]]
    /\ faults' = faults + 1
    /\ UNCHANGED <<server, rights, request, dialog, own>>

Active(q) == q = "members" \/ RenderedRole \in Managers


Invalidate(q) ==
    [query EXCEPT ![q] = IF Active(q) THEN [@ EXCEPT !.fetch = "sent", !.at = 0]
                         ELSE [@ EXCEPT !.stale = TRUE]]

-----------------------------------------------------------------------------
(* A mutation: sent, let pass by the guards with the role they found, made *)
(* or refused, answered.                                                   *)

Becomes(r, step) == request' = [request EXCEPT ![r].step = step]

Guard(r) ==
    /\ request[r].step = "sent"
    /\ request' = [request EXCEPT ![r] =
         IF Role(Me) \in Managers
         THEN [@ EXCEPT !.step = "guarded", !.as = Role(Me)]
         ELSE [@ EXCEPT !.step = "refused"]]
    /\ UNCHANGED <<server, query, rights, dialog, own, faults>>

Made(r, at) == request' = [request EXCEPT ![r].step = "made", ![r].at = at]

UpdateRole ==
    LET u == request["role"]
        after == Appoint(u.who, u.new)
        allowed == /\ RoleChangeAllowed(u.as, Role(u.who), u.new)
                   /\ ~ LastOwner(u.who, u.new)
    IN /\ u.step = "guarded" /\ Len(after) <= MaxMembers
       /\ IF allowed THEN members' = after /\ Made("role", Len(after))
          ELSE Becomes("role", "refused") /\ UNCHANGED members
       /\ UNCHANGED <<invitations, query, rights, dialog, own, faults>>

CreateInvitation(r) ==
    LET who == request[r].who
    IN /\ r \in Invites /\ request[r].step = "guarded"
       /\ Len(invitations) < MaxInvitations
       /\ IF Role(who) = "NONE" /\ Invitation(who) # "PENDING"
          THEN invitations' = Invite(who, "PENDING") /\ Made(r, Len(invitations) + 1)
          ELSE Becomes(r, "refused") /\ UNCHANGED invitations
       /\ UNCHANGED <<members, query, rights, dialog, own, faults>>

(* cancel reads the row, and updates it in a transaction of its own.  An   *)
(* accepted invitation stays ACCEPTED, whatever its canceledAt says.       *)
ReadInvitation ==
    LET c == request["cancel"]
    IN /\ c.step = "guarded"
       /\ \/ Invitation(c.who) = "ACCEPTED" /\ Becomes("cancel", "refused")
          \/ Invitation(c.who) = "CANCELED"
             /\ Made("cancel", Len(invitations))
          \/ Invitation(c.who) \in {"PENDING", "EXPIRED"}
             /\ Becomes("cancel", "checked")
       /\ UNCHANGED <<server, query, rights, dialog, own, faults>>

CancelInvitation ==
    LET c == request["cancel"]
    IN /\ c.step = "checked" /\ Len(invitations) < MaxInvitations
       /\ invitations' = Invite(c.who, IF Invitation(c.who) = "ACCEPTED"
                                       THEN "ACCEPTED" ELSE "CANCELED")
       /\ Made("cancel", Len(invitations) + 1)
       /\ UNCHANGED <<members, query, rights, dialog, own, faults>>

(* An error of another kind than a refusal, before or after the change.    *)
Lose(r) ==
    /\ request[r].step \in {"sent", "guarded", "checked", "made"}
    /\ faults < MaxFaults
    /\ Becomes(r, "refused")
    /\ faults' = faults + 1
    /\ UNCHANGED <<server, query, rights, dialog, own>>

-----------------------------------------------------------------------------
(* MemberList.                                                             *)

CanManage(mine, target) ==
    mine = "OWNER" \/ (mine = "ADMIN" /\ target \in {"AGENT", "VIEWER"})

AllowedRoles(mine) == IF mine = "OWNER" THEN Roles ELSE {"AGENT", "VIEWER"}

Shown(q) == query[q].shown > 0 /\ ~ query[q].failed

(* The select of p.  All are disabled while a change is pending.           *)
PickRole(p, new) ==
    /\ request["role"].step = "unsent" /\ Shown("members")
    /\ LET shown == members[query["members"].shown][p]
       IN /\ shown \notin {"NONE", new}
          /\ CanManage(RenderedRole, shown) /\ new \in AllowedRoles(RenderedRole)
    /\ request' = [request EXCEPT !["role"] =
         [step |-> "sent", who |-> p, new |-> new, as |-> "NONE", at |-> 0]]
    /\ UNCHANGED <<server, query, rights, dialog, own, faults>>

(* onSuccess: both queries over members are invalidated; when the refetch  *)
(* has ended, in success or failure, the page is refreshed.                *)
RoleChanged ==
    LET u == request["role"]
    IN /\ u.step = "made"
       /\ own' = [part \in DOMAIN own |->
                   IF part = "members" \/ (part = "rights" /\ u.who = Me)
                   THEN u.at ELSE own[part]]
       /\ query' = Invalidate("members")
       /\ Becomes("role", "settling")
       /\ UNCHANGED <<server, rights, dialog, faults>>

(* A plausible bug: the rendered permissions are not refreshed.            *)
RefreshNothing == UNCHANGED rights

Refresh ==
    rights' = IF rights.refresh = "idle" THEN [rights EXCEPT !.refresh = "sent"]
              ELSE [rights EXCEPT !.again = TRUE]

RoleSettles ==
    /\ request["role"].step = "settling" /\ query["members"].fetch = "idle"
    /\ request' = [request EXCEPT !["role"] = Unsent]
    /\ Refresh
    /\ UNCHANGED <<server, query, dialog, own, faults>>

ReadRights ==
    /\ rights.refresh = "sent"
    /\ rights' = [rights EXCEPT !.refresh = "read", !.at = Len(members)]
    /\ UNCHANGED <<server, query, request, dialog, own, faults>>

(* The dialog and the invitations are there for those who manage: they are *)
(* taken away, or mounted anew, with the role.                             *)
RefreshArrives ==
    LET new == members[rights.at][Me] \in Managers
        old == query["invitations"]
    IN /\ rights.refresh = "read"
       /\ rights' = [rights EXCEPT !.shown = rights.at, !.at = 0, !.again = FALSE,
                        !.refresh = IF rights.again THEN "sent" ELSE "idle"]
       /\ dialog' = IF new THEN dialog ELSE Closed
       /\ \E aged \in BOOLEAN :
            query' = IF /\ new /\ RenderedRole \notin Managers /\ old.fetch = "idle"
                        /\ aged \/ old.shown = 0 \/ old.stale \/ old.failed
                     THEN [query EXCEPT !["invitations"].fetch = "sent"]
                     ELSE query
       /\ UNCHANGED <<server, request, own, faults>>

-----------------------------------------------------------------------------
(* InvitationList.                                                         *)

Cancelable(p) ==
    /\ RenderedRole \in Managers /\ Shown("invitations")
    /\ invitations[query["invitations"].shown][p] = "PENDING"

(* Confirmed in a dialog; the buttons are disabled while one is pending.   *)
PressCancel(p) ==
    /\ Cancelable(p) /\ request["cancel"].step = "unsent"
    /\ request' = [request EXCEPT !["cancel"] =
         [step |-> "sent", who |-> p, as |-> "NONE", at |-> 0]]
    /\ UNCHANGED <<server, query, rights, dialog, own, faults>>

Canceled ==
    /\ request["cancel"].step = "made"
    /\ own' = [own EXCEPT !["invitations"] = Max({@, request["cancel"].at})]
    /\ query' = Invalidate("invitations")
    /\ Becomes("cancel", "settling")
    /\ UNCHANGED <<server, rights, dialog, faults>>

CancelSettles ==
    /\ request["cancel"].step = "settling"
    /\ query["invitations"].fetch = "idle" \/ ~ Active("invitations")
    /\ request' = [request EXCEPT !["cancel"] = Unsent]
    /\ UNCHANGED <<server, query, rights, dialog, own, faults>>

-----------------------------------------------------------------------------
(* InviteMemberDialog.  Closing it resets the mutation, whose request goes *)
(* on: its answer still finds the component.                               *)

OpenDialog ==
    /\ ~ dialog.open /\ RenderedRole \in Managers
    /\ dialog' = [dialog EXCEPT !.open = TRUE]
    /\ UNCHANGED <<server, query, rights, request, own, faults>>

CloseDialog ==
    /\ dialog.open
    /\ dialog' = Closed
    /\ UNCHANGED <<server, query, rights, request, own, faults>>

Submit(r, p) ==
    /\ dialog.open /\ dialog.link = Nobody
    /\ dialog.mine # "none" => request[dialog.mine].step = "done"
    /\ r \in Invites /\ request[r].step = "unsent"
    /\ dialog' = [dialog EXCEPT !.mine = r]
    /\ request' = [request EXCEPT ![r] =
         [step |-> "sent", who |-> p, as |-> "NONE", at |-> 0]]
    /\ UNCHANGED <<server, query, rights, own, faults>>

(* The acceptance token is returned this once.                             *)
Invited(r) ==
    /\ r \in Invites /\ request[r].step = "made"
    /\ own' = [own EXCEPT !["invitations"] = Max({@, request[r].at})]
    /\ dialog' = IF RenderedRole \in Managers
                 THEN [dialog EXCEPT !.link = request[r].who] ELSE dialog
    /\ query' = Invalidate("invitations")
    /\ Becomes(r, "done")
    /\ UNCHANGED <<server, rights, faults>>

(* onError: a toast, and nothing is fetched.                               *)
Refused(r) ==
    /\ request[r].step = "refused"
    /\ request' = [request EXCEPT ![r] =
         IF r \in Invites THEN [@ EXCEPT !.step = "done"] ELSE Unsent]
    /\ UNCHANGED <<server, query, rights, dialog, own, faults>>

Next ==
    \/ \E p \in People, new \in Offered : RoleChangedElsewhere(p, new) \/ PickRole(p, new)
    \/ \E p \in People : InvitationChangesElsewhere(p) \/ PressCancel(p)
    \/ ReadMembers \/ ReadInvitations
    \/ \E q \in Queries : Arrive(q) \/ FetchFails(q)
    \/ \E r \in Requests : Guard(r) \/ CreateInvitation(r) \/ Lose(r) \/ Refused(r)
    \/ UpdateRole \/ RoleChanged \/ RoleSettles
    \/ ReadRights \/ RefreshArrives
    \/ ReadInvitation \/ CancelInvitation \/ Canceled \/ CancelSettles
    \/ OpenDialog \/ CloseDialog
    \/ \E r \in Invites : Invited(r) \/ \E p \in People : Submit(r, p)

Spec == Init /\ [][Next]_vars

-----------------------------------------------------------------------------
(* What the page was told it changed is on the page: shown, or carried by  *)
(* an answer on its way, or in the reach of a fetch that is yet to read;   *)
(* or the fetch failed, and the page says so instead of showing the list.  *)
(* No older answer, no change of another request takes it back.            *)
OwnChangesAreShown ==
    \A q \in Queries :
      \/ ~ Active(q)
      \/ own[q] <= query[q].shown
      \/ query[q].fetch = "sent"
      \/ query[q].fetch = "read" /\ own[q] <= query[q].at
      \/ query[q].failed

(* A member that changed its own role is offered what the new role allows  *)
(* once its refetch has ended and the refresh has arrived, however many    *)
(* refreshes are under way.                                                *)
OwnRightsAreShown ==
    \/ own["rights"] <= rights.shown
    \/ request["role"].step = "settling"
    \/ rights.refresh = "sent" \/ rights.again
    \/ rights.refresh = "read" /\ own["rights"] <= rights.at

(* The link in the dialog is that of the address sent from it.  A dialog   *)
(* that is closed while its request is pending breaks this for the next.   *)
LinkOfThisDialog ==
    dialog.link # Nobody /\ dialog.mine # "none" =>
        dialog.link = request[dialog.mine].who
=============================================================================
