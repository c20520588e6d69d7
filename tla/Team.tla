-------------------------------- MODULE Team --------------------------------
(***************************************************************************)
(* The members of one organization, their roles, and the invitations that  *)
(* make more of them: OrganizationsService.createForUser,                  *)
(* InvitationsService and MembersService behind TenantMembershipGuard.     *)
(*                                                                         *)
(* A handler acts on the role the guard found, and its transaction decides *)
(* on what it reads first.  A Serializable transaction whose reads another *)
(* one has overwritten is aborted; the one of cancel is not Serializable.  *)
(***************************************************************************)

EXTENDS Naturals, FiniteSets

CONSTANTS
  Users,         (* users, each with one email address                     *)
  Invitations,   (* invitation ids                                         *)
  Requests,      (* concurrent HTTP requests                               *)
  Offered,       (* the roles that are asked for                           *)
  Nobody         (* the addressee of an invitation that is not created     *)

Roles == {"OWNER", "ADMIN", "AGENT", "VIEWER"}

ASSUME TeamAssumption ==
  /\ IsFiniteSet(Users)
  /\ Nobody \notin Users
  /\ Offered \subseteq Roles

VARIABLES
  role,          (* Membership.role, "NONE" without a membership           *)
  inv,           (* the Invitation rows                                    *)
  expired,       (* the invitations whose expiresAt has passed             *)
  audited,       (* fromRole and toRole of a member's latest audit entry   *)
  req            (* what each request has found out, and will do           *)

vars == <<role, inv, expired, audited, req>>

\* The roles that have members:manage and invitations:manage.
Managers == {"OWNER", "ADMIN"}

Owners == {u \in Users : role[u] = "OWNER"}

Issued(i) == inv[i].email # Nobody

\* getStatus of the row is PENDING.
Open(i) == /\ Issued(i)
           /\ ~ inv[i].accepted
           /\ ~ inv[i].canceled
           /\ i \notin expired

NotCreated == [email |-> Nobody, role |-> "VIEWER", accepted |-> FALSE, canceled |-> FALSE]

Idle == [step |-> "idle"]

Init ==
  /\ role    = [u \in Users |-> "NONE"]
  /\ inv     = [i \in Invitations |-> NotCreated]
  /\ expired = {}
  /\ audited = [u \in Users |-> [from |-> "NONE", to |-> "NONE"]]
  /\ req     = [r \in Requests |-> Idle]

Becomes(r, q) == req' = [req EXCEPT ![r] = q]

\* AuditService.record, in the transaction of the change.
Record(u, from, to) == audited' = [audited EXCEPT ![u] = [from |-> from, to |-> to]]

\* The role of u and the audit entry that says so.
Appoint(u, from, to) ==
  /\ role' = [role EXCEPT ![u] = to]
  /\ Record(u, from, to)

-----------------------------------------------------------------------------

CreateOrganization(u) ==
  /\ \A v \in Users : role[v] = "NONE"
  /\ Appoint(u, "NONE", "OWNER")
  /\ UNCHANGED <<inv, expired, req>>

\* TenantMembershipGuard and PermissionGuard: the request keeps the role.
Authorize(r, u) ==
  /\ req[r] = Idle
  /\ role[u] \in Managers
  /\ Becomes(r, [step |-> "authorized", as |-> role[u]])
  /\ UNCHANGED <<role, inv, expired, audited>>

-----------------------------------------------------------------------------
(* MembersService.updateRole                                                 *)

\* assertRoleChangeAllowed
RoleChangeAllowed(actor, target, new) ==
  actor = "OWNER" \/ (actor = "ADMIN" /\ {target, new} \cap Managers = {})

\* Mutant of UpdateReads: the count of the owners may be out of date.
UpdateReadsTargetOnly(u, to) == [role |-> role[u], owners |-> {}]

\* The owners are only counted when one is to be demoted.
UpdateReads(u, to) ==
  [role   |-> role[u],
   owners |-> IF role[u] = "OWNER" /\ to # "OWNER" THEN Owners ELSE {}]

ReadTarget(r, u, to) ==
  /\ req[r].step = "authorized"
  /\ role[u] # "NONE"
  /\ RoleChangeAllowed(req[r].as, role[u], to)
  /\ role[u] = "OWNER" /\ to # "OWNER" => Cardinality(Owners) > 1
  /\ Becomes(r, [step |-> "updating", user |-> u, to |-> to, seen |-> UpdateReads(u, to)])
  /\ UNCHANGED <<role, inv, expired, audited>>

\* Mutant of UpdateRole: the transaction has the default isolation level.
UpdateRoleDefaultIsolation(r) ==
  LET q == req[r] IN
  /\ q.step = "updating"
  /\ IF q.seen.role # q.to
     THEN Appoint(q.user, q.seen.role, q.to)
     ELSE UNCHANGED <<role, audited>>
  /\ Becomes(r, Idle)
  /\ UNCHANGED <<inv, expired>>

\* Only a change is audited.
UpdateRole(r) ==
  LET q == req[r] IN
  /\ q.step = "updating"
  /\ IF UpdateReads(q.user, q.to) = q.seen /\ q.seen.role # q.to
     THEN Appoint(q.user, q.seen.role, q.to)
     ELSE UNCHANGED <<role, audited>>
  /\ Becomes(r, Idle)
  /\ UNCHANGED <<inv, expired>>

-----------------------------------------------------------------------------
(* InvitationsService.create                                                 *)

\* assertRoleAllowed
InvitationAllowed(actor, new) == actor = "OWNER" \/ (actor = "ADMIN" /\ new \notin Managers)

\* Mutant of InviteReads: two requests may both find no pending invitation.
InviteReadsMemberOnly(e) == [role |-> role[e], rows |-> {}]

InviteReads(e) == [role |-> role[e], rows |-> {i \in Invitations : inv[i].email = e}]

ReadInvited(r, e, new) ==
  /\ req[r].step = "authorized"
  /\ InvitationAllowed(req[r].as, new)
  /\ role[e] = "NONE"
  /\ \A i \in Invitations : inv[i].email = e => ~ Open(i)
  /\ Becomes(r, [step |-> "inviting", user |-> e, to |-> new, seen |-> InviteReads(e)])
  /\ UNCHANGED <<role, inv, expired, audited>>

CreateInvitation(r) ==
  LET q == req[r] IN
  /\ q.step = "inviting"
  /\ IF InviteReads(q.user) = q.seen
     THEN \E i \in Invitations :
            /\ ~ Issued(i)
            /\ inv' = [inv EXCEPT ![i] = [email |-> q.user, role |-> q.to,
                                          accepted |-> FALSE, canceled |-> FALSE]]
     ELSE UNCHANGED inv
  /\ Becomes(r, Idle)
  /\ UNCHANGED <<role, expired, audited>>

-----------------------------------------------------------------------------
(* InvitationsService.cancel: the row is read before the transaction.        *)

\* Mutant of ReadCanceled: no 404 for an invitation that does not exist.
ReadCanceledAny(r, i) ==
  /\ req[r].step = "authorized"
  /\ InvitationAllowed(req[r].as, inv[i].role)
  /\ ~ inv[i].accepted /\ ~ inv[i].canceled
  /\ Becomes(r, [step |-> "canceling", invitation |-> i])
  /\ UNCHANGED <<role, inv, expired, audited>>

\* An accepted invitation is a 409, a canceled one is returned as it is.
ReadCanceled(r, i) ==
  /\ req[r].step = "authorized"
  /\ Issued(i)
  /\ InvitationAllowed(req[r].as, inv[i].role)
  /\ ~ inv[i].accepted /\ ~ inv[i].canceled
  /\ Becomes(r, [step |-> "canceling", invitation |-> i])
  /\ UNCHANGED <<role, inv, expired, audited>>

\* update by id
CancelInvitation(r) ==
  /\ req[r].step = "canceling"
  /\ inv' = [inv EXCEPT ![req[r].invitation].canceled = TRUE]
  /\ Becomes(r, Idle)
  /\ UNCHANGED <<role, expired, audited>>

-----------------------------------------------------------------------------
(* InvitationsService.accept, by the user whose email is the invitation's.   *)

\* Mutant of AcceptReads: the membership is upserted.
AcceptReadsRowOnly(i) == [role |-> "NONE", row |-> inv[i]]

AcceptReads(i) == [role |-> role[inv[i].email], row |-> inv[i]]

ReadInvitation(r, i) ==
  /\ req[r] = Idle
  /\ Open(i)
  /\ role[inv[i].email] = "NONE"
  /\ Becomes(r, [step |-> "accepting", invitation |-> i, seen |-> AcceptReads(i)])
  /\ UNCHANGED <<role, inv, expired, audited>>

\* Mutant of AcceptInvitation: the claim is an update by id, not Serializable.
AcceptInvitationById(r) ==
  LET i == req[r].invitation IN
  /\ req[r].step = "accepting"
  /\ inv' = [inv EXCEPT ![i].accepted = TRUE]
  /\ Appoint(inv[i].email, "NONE", inv[i].role)
  /\ Becomes(r, Idle)
  /\ UNCHANGED expired

\* The claim repeats the check of the row; the expiry it repeats is that of
\* the time the request began with.
AcceptInvitation(r) ==
  LET q == req[r]
      i == q.invitation
  IN
  /\ q.step = "accepting"
  /\ IF AcceptReads(i) = q.seen
     THEN /\ inv' = [inv EXCEPT ![i].accepted = TRUE]
          /\ Appoint(inv[i].email, "NONE", inv[i].role)
     ELSE UNCHANGED <<inv, role, audited>>
  /\ Becomes(r, Idle)
  /\ UNCHANGED expired

-----------------------------------------------------------------------------

\* INVITATION_LIFETIME_MS
ExpireInvitation(i) ==
  /\ Issued(i) /\ i \notin expired
  /\ expired' = expired \cup {i}
  /\ UNCHANGED <<role, inv, audited, req>>

\* A refusal, a lost connection or a crash before the transaction commits.
RequestEnds(r) ==
  /\ req[r] # Idle
  /\ Becomes(r, Idle)
  /\ UNCHANGED <<role, inv, expired, audited>>

RequestStep(r) ==
  \/ \E u \in Users : Authorize(r, u)
  \/ \E u \in Users, to \in Offered : ReadTarget(r, u, to) \/ ReadInvited(r, u, to)
  \/ \E i \in Invitations : ReadCanceled(r, i) \/ ReadInvitation(r, i)
  \/ UpdateRole(r)
  \/ CreateInvitation(r)
  \/ CancelInvitation(r)
  \/ AcceptInvitation(r)
  \/ RequestEnds(r)

Next ==
  \/ \E u \in Users : CreateOrganization(u)
  \/ \E r \in Requests : RequestStep(r)
  \/ \E i \in Invitations : ExpireInvitation(i)

Spec == Init /\ [][Next]_vars

-----------------------------------------------------------------------------
(* Properties.                                                               *)

Invitation ==
  [email : Users, role : Offered, accepted : BOOLEAN, canceled : BOOLEAN]

\* The row as a request to accept it must have found it.
Acceptable ==
  [email : Users, role : Offered, accepted : {FALSE}, canceled : {FALSE}]

Updating  == [step : {"updating"}, user : Users, to : Offered,
              seen : [role : Roles, owners : SUBSET Users]]
Inviting  == [step : {"inviting"}, user : Users, to : Offered,
              seen : [role : {"NONE"}, rows : SUBSET Invitations]]
Canceling == [step : {"canceling"}, invitation : Invitations]
Accepting == [step : {"accepting"}, invitation : Invitations,
              seen : [role : {"NONE"}, row : Acceptable]]

Request ==
  {Idle} \cup [step : {"authorized"}, as : Managers]
  \cup Updating \cup Inviting \cup Canceling \cup Accepting

TypeOK ==
  /\ role \in [Users -> Roles \cup {"NONE"}]
  /\ inv \in [Invitations -> Invitation \cup {NotCreated}]
  /\ expired \subseteq {i \in Invitations : Issued(i)}
  /\ audited \in [Users -> [from : Roles \cup {"NONE"}, to : Roles \cup {"NONE"}]]
  /\ req \in [Requests -> Request]
  /\ \A r \in Requests : req[r].step = "canceling" => Issued(req[r].invitation)

\* An organization that has members has an owner, whatever role changes run at
\* the same time and whatever the roles of those who asked for them are by now.
KeepsAnOwner == (\E u \in Users : role[u] # "NONE") => Owners # {}

\* However many requests invite the same address, at most one invitation of it
\* is pending.
OneOpenInvitation ==
  \A i, j \in Invitations : Open(i) /\ Open(j) /\ inv[i].email = inv[j].email => i = j

\* Every member but the founder accepted one invitation, and nobody accepted
\* two: requests to accept, cancel and invite never leave a member without the
\* row that explains it, nor such a row without its member.
MembersWereInvited ==
  LET Accepted == {i \in Invitations : inv[i].accepted}
      Invited  == {inv[i].email : i \in Accepted}
      Members  == {u \in Users : role[u] # "NONE"}
  IN
  /\ \A i, j \in Accepted : inv[i].email = inv[j].email => i = j
  /\ Invited \subseteq Members
  /\ \A u, v \in Members \ Invited : u = v

\* Once cancel has committed, the invitation makes no member, even by a request
\* that found it pending before.
CanceledMakesNoMember ==
  [][\A i \in Invitations : inv[i].canceled => inv'[i].accepted = inv[i].accepted]_vars

\* The audit trail has no gaps: every change of a role is recorded, with the
\* role that it replaced and not one a request had read earlier.
AuditTrailIsUnbroken ==
  [][\A u \in Users : <<role[u], audited[u]>>' # <<role[u], audited[u]>> =>
        audited'[u] = [from |-> role[u], to |-> role'[u]]]_vars

\* invitations.service.ts:287: "Accepted invitations cannot be canceled".
AcceptedIsNotCanceled ==
  \A i \in Invitations : ~ (inv[i].accepted /\ inv[i].canceled)

=============================================================================
