----------------------------- MODULE TeamProofs -----------------------------
(***************************************************************************)
(* Theorems about Team, for any number of users, invitations and requests. *)
(***************************************************************************)

EXTENDS Team, FiniteSetTheorems, TLAPS

-----------------------------------------------------------------------------
(* Types.                                                                    *)

LEMMA InitTypeOK == Init => TypeOK
  BY TeamAssumption DEF Init, TypeOK, Request, Idle, Issued, NotCreated

\* The step a request is at says what it carries.
LEMMA RequestTypes ==
  ASSUME TypeOK, NEW r \in Requests
  PROVE  /\ req[r].step = "updating"  => req[r] \in Updating
         /\ req[r].step = "inviting"  => req[r] \in Inviting
         /\ req[r].step = "canceling" => req[r] \in Canceling
         /\ req[r].step = "accepting" => req[r] \in Accepting
<1>1. req[r] \in Request
  BY DEF TypeOK
<1> QED BY <1>1 DEF Request, Idle, Updating, Inviting, Canceling, Accepting

\* A cancel request under way keeps its row, since rows are never deleted.
LEMMA CancelingKept ==
  ASSUME TypeOK, NEW r \in Requests, NEW q, Becomes(r, q), q.step # "canceling",
         \A j \in Invitations : Issued(j) => Issued(j)'
  PROVE  (\A s \in Requests : req[s].step = "canceling" => Issued(req[s].invitation))'
<1> SUFFICES ASSUME NEW s \in Requests, req'[s].step = "canceling"
             PROVE  Issued(req[s].invitation)'
  OBVIOUS
<1>1. req'[s] = req[s]
  BY DEF TypeOK, Becomes
<1>2. req[s].invitation \in Invitations
  BY <1>1, RequestTypes DEF Canceling
<1>3. Issued(req[s].invitation)
  BY <1>1 DEF TypeOK
<1>4. PICK j \in Invitations : j = req[s].invitation /\ j = req'[s].invitation
  BY <1>1, <1>2
<1>5. Issued(j)'
  BY <1>3, <1>4
<1> QED BY <1>4, <1>5 DEF Issued

\* Every step keeps the types; the step of each request is a case of its own.
LEMMA NextTypeOK ==
  ASSUME TypeOK, [Next]_vars
  PROVE  TypeOK'
<1> USE TeamAssumption DEF TypeOK, Idle, Becomes, Roles, Managers
<1>1. CASE \E u \in Users : CreateOrganization(u)
  BY <1>1 DEF CreateOrganization, Appoint, Record, Issued
<1>2. ASSUME NEW r \in Requests, NEW u \in Users, Authorize(r, u) PROVE TypeOK'
  <2>1. [step |-> "authorized", as |-> role[u]] \in Request
    BY <1>2 DEF Authorize, Request
  <2> QED BY <1>2, <2>1 DEF Authorize, Issued
<1>3. ASSUME NEW r \in Requests, NEW u \in Users, NEW to \in Offered, ReadTarget(r, u, to)
      PROVE  TypeOK'
  <2>1. UpdateReads(u, to) \in [role : Roles, owners : SUBSET Users]
    BY <1>3 DEF ReadTarget, UpdateReads, Owners
  <2>2. [step |-> "updating", user |-> u, to |-> to, seen |-> UpdateReads(u, to)] \in Request
    BY <2>1 DEF Request, Updating
  <2> QED BY <1>3, <2>2 DEF ReadTarget, Issued
<1>4. ASSUME NEW r \in Requests, NEW u \in Users, NEW to \in Offered, ReadInvited(r, u, to)
      PROVE  TypeOK'
  <2>1. InviteReads(u) \in [role : {"NONE"}, rows : SUBSET Invitations]
    BY <1>4 DEF ReadInvited, InviteReads
  <2>2. [step |-> "inviting", user |-> u, to |-> to, seen |-> InviteReads(u)] \in Request
    BY <2>1 DEF Request, Inviting
  <2> QED BY <1>4, <2>2 DEF ReadInvited, Issued
<1>5. ASSUME NEW r \in Requests, NEW i \in Invitations, ReadCanceled(r, i) PROVE TypeOK'
  <2>1. [step |-> "canceling", invitation |-> i] \in Request
    BY DEF Request, Canceling
  <2> QED BY <1>5, <2>1 DEF ReadCanceled, Issued
<1>6. ASSUME NEW r \in Requests, NEW i \in Invitations, ReadInvitation(r, i) PROVE TypeOK'
  <2>1. inv[i] \in Invitation
    BY <1>6 DEF ReadInvitation, Open, Issued, NotCreated
  <2>2. AcceptReads(i) \in [role : {"NONE"}, row : Acceptable]
    BY <1>6, <2>1 DEF ReadInvitation, AcceptReads, Open, Invitation, Acceptable
  <2>3. [step |-> "accepting", invitation |-> i, seen |-> AcceptReads(i)] \in Request
    BY <2>2 DEF Request, Accepting
  <2> QED BY <1>6, <2>3 DEF ReadInvitation, Issued
<1>7. ASSUME NEW r \in Requests, UpdateRole(r) PROVE TypeOK'
  <2>1. req[r] \in Updating
    BY <1>7, RequestTypes DEF UpdateRole
  <2>2. /\ req[r].user \in Users
        /\ req[r].to \in Roles
        /\ req[r].seen.role \in Roles
    BY <2>1 DEF Updating
  <2>3. role' \in [Users -> Roles \cup {"NONE"}]
    BY <1>7, <2>2 DEF UpdateRole, Appoint, Record
  <2>4. audited' \in [Users -> [from : Roles \cup {"NONE"}, to : Roles \cup {"NONE"}]]
    BY <1>7, <2>2 DEF UpdateRole, Appoint, Record
  <2>5. req' \in [Requests -> Request]
    BY <1>7 DEF UpdateRole, Request
  <2> QED BY <1>7, <2>3, <2>4, <2>5 DEF UpdateRole, Issued
<1>8. ASSUME NEW r \in Requests, CreateInvitation(r) PROVE TypeOK'
  <2>1. req[r].user \in Users /\ req[r].to \in Offered
    BY <1>8, RequestTypes DEF CreateInvitation, Inviting
  <2>2. [email |-> req[r].user, role |-> req[r].to, accepted |-> FALSE, canceled |-> FALSE]
           \in Invitation
    BY <2>1 DEF Invitation
  <2>3. inv' \in [Invitations -> Invitation \cup {NotCreated}]
    BY <1>8, <2>2 DEF CreateInvitation
  <2>4. \A i \in Invitations : Issued(i) => Issued(i)'
    BY <1>8 DEF CreateInvitation, Issued
  <2>5. req' \in [Requests -> Request]
    BY <1>8 DEF CreateInvitation, Request
  <2>6. expired' = expired /\ role' = role /\ audited' = audited
    BY <1>8 DEF CreateInvitation
  <2>7. (\A s \in Requests : req[s].step = "canceling" => Issued(req[s].invitation))'
    <3>1. Becomes(r, Idle) /\ Idle.step # "canceling"
      BY <1>8 DEF CreateInvitation
    <3> QED BY <2>4, <3>1, CancelingKept
  <2> QED BY <2>3, <2>4, <2>5, <2>6, <2>7
<1>9. ASSUME NEW r \in Requests, CancelInvitation(r) PROVE TypeOK'
  <2>1. PICK i \in Invitations : i = req[r].invitation
    BY <1>9, RequestTypes DEF CancelInvitation, Canceling
  <2>2. inv' = [inv EXCEPT ![i].canceled = TRUE]
    BY <1>9, <2>1 DEF CancelInvitation
  <2>3. inv[i] \in Invitation
    BY <1>9, <2>1 DEF CancelInvitation, Issued, NotCreated
  <2>4. inv' \in [Invitations -> Invitation \cup {NotCreated}]
    BY <2>2, <2>3 DEF Invitation
  <2>5. \A j \in Invitations : Issued(j)' = Issued(j)
    BY <2>2, <2>3 DEF Issued, Invitation
  <2>6. req' \in [Requests -> Request]
    BY <1>9 DEF CancelInvitation, Request
  <2>7. (\A s \in Requests : req[s].step = "canceling" => Issued(req[s].invitation))'
    <3>1. Becomes(r, Idle) /\ Idle.step # "canceling"
      BY <1>9 DEF CancelInvitation
    <3> QED BY <2>5, <3>1, CancelingKept
  <2> QED BY <1>9, <2>4, <2>5, <2>6, <2>7 DEF CancelInvitation
<1>10. ASSUME NEW r \in Requests, AcceptInvitation(r) PROVE TypeOK'
  <2>1. req[r] \in Accepting
    BY <1>10, RequestTypes DEF AcceptInvitation
  <2>2. PICK i \in Invitations : i = req[r].invitation
    BY <2>1 DEF Accepting
  <2>3. CASE AcceptReads(i) = req[r].seen
    <3>1. inv[i] \in Invitation
      <4>1. inv[i] \in Acceptable
        BY <2>1, <2>3 DEF AcceptReads, Accepting
      <4> QED BY <4>1 DEF Acceptable, Invitation
    <3>2. inv' = [inv EXCEPT ![i].accepted = TRUE] /\ Appoint(inv[i].email, "NONE", inv[i].role)
      BY <1>10, <2>2, <2>3 DEF AcceptInvitation
    <3>3. inv' \in [Invitations -> Invitation \cup {NotCreated}]
      BY <3>1, <3>2 DEF Invitation
    <3>4. \A j \in Invitations : Issued(j)' = Issued(j)
      BY <3>1, <3>2 DEF Issued, Invitation
    <3>5. /\ role' \in [Users -> Roles \cup {"NONE"}]
          /\ audited' \in [Users -> [from : Roles \cup {"NONE"}, to : Roles \cup {"NONE"}]]
      BY <3>1, <3>2 DEF Appoint, Record, Invitation
    <3>6. req' \in [Requests -> Request]
      BY <1>10 DEF AcceptInvitation, Request
    <3>7. (\A s \in Requests : req[s].step = "canceling" => Issued(req[s].invitation))'
      <4>1. Becomes(r, Idle) /\ Idle.step # "canceling"
        BY <1>10 DEF AcceptInvitation
      <4> QED BY <3>4, <4>1, CancelingKept
    <3> QED BY <1>10, <3>3, <3>4, <3>5, <3>6, <3>7 DEF AcceptInvitation
  <2>4. CASE AcceptReads(i) # req[r].seen
    <3>1. UNCHANGED <<inv, role, audited, expired>>
      BY <1>10, <2>2, <2>4 DEF AcceptInvitation
    <3>2. req' \in [Requests -> Request]
      BY <1>10 DEF AcceptInvitation, Request
    <3>3. (\A s \in Requests : req[s].step = "canceling" => Issued(req[s].invitation))'
      <4>1. Becomes(r, Idle) /\ Idle.step # "canceling"
        BY <1>10 DEF AcceptInvitation
      <4> QED BY <3>1, <4>1, CancelingKept DEF Issued
    <3> QED BY <3>1, <3>2, <3>3 DEF Issued
  <2> QED BY <2>3, <2>4
<1>11. ASSUME NEW i \in Invitations, ExpireInvitation(i) PROVE TypeOK'
  BY <1>11 DEF ExpireInvitation, Issued
<1>12. ASSUME NEW r \in Requests, RequestEnds(r) PROVE TypeOK'
  <2>1. (\A s \in Requests : req[s].step = "canceling" => Issued(req[s].invitation))'
    BY <1>12, CancelingKept DEF RequestEnds, Issued
  <2> QED BY <1>12, <2>1 DEF RequestEnds, Issued, Request
<1>13. CASE UNCHANGED vars
  BY <1>13 DEF vars, Issued
<1> QED
  BY <1>1, <1>2, <1>3, <1>4, <1>5, <1>6, <1>7, <1>8, <1>9, <1>10, <1>11, <1>12, <1>13
     DEF Next, RequestStep

THEOREM TypeCorrect == Spec => []TypeOK
  BY InitTypeOK, NextTypeOK, PTL DEF Spec

-----------------------------------------------------------------------------
(* The last owner.                                                           *)

\* A request that demotes an owner has seen more than one.
DemotionsLeaveAnOwner ==
  \A r \in Requests :
    /\ req[r].step = "updating"
    /\ req[r].seen.role = "OWNER"
    /\ req[r].to # "OWNER"
    => Cardinality(req[r].seen.owners) > 1

\* Nothing happens before there is an owner.
FoundedFirst ==
  \/ \E i \in Invitations : Issued(i)
  \/ \E r \in Requests : req[r] # Idle
  => Owners # {}

OwnerInv == KeepsAnOwner /\ FoundedFirst /\ DemotionsLeaveAnOwner

\* Counting the owners finds one besides the member to be demoted.
LEMMA AnotherOwner ==
  ASSUME NEW u, Cardinality(Owners) > 1
  PROVE  \E v \in Owners : v # u
<1> SUFFICES ASSUME Owners \subseteq {u}
             PROVE  FALSE
  OBVIOUS
<1>1. IsFiniteSet({u}) /\ Cardinality({u}) = 1
  BY FS_Singleton
<1>2. Cardinality(Owners) <= 1
  BY <1>1, FS_Subset
<1>3. Cardinality(Owners) \in Nat
  BY <1>1, FS_Subset, FS_CardinalityType
<1> QED BY <1>2, <1>3

LEMMA InitOwnerInv == Init => OwnerInv
  BY DEF Init, OwnerInv, KeepsAnOwner, FoundedFirst, DemotionsLeaveAnOwner, Idle, Issued,
     NotCreated

\* What a request has seen does not change until it ends.
LEMMA NextDemotions ==
  ASSUME TypeOK, DemotionsLeaveAnOwner, [Next]_vars
  PROVE  DemotionsLeaveAnOwner'
<1> SUFFICES ASSUME NEW s \in Requests,
                    /\ req'[s].step = "updating"
                    /\ req'[s].seen.role = "OWNER"
                    /\ req'[s].to # "OWNER"
             PROVE  Cardinality(req'[s].seen.owners) > 1
  BY DEF DemotionsLeaveAnOwner
<1>1. CASE req'[s] = req[s]
  BY <1>1 DEF DemotionsLeaveAnOwner
<1>2. ASSUME NEW u \in Users, NEW to \in Offered, ReadTarget(s, u, to)
      PROVE  Cardinality(req'[s].seen.owners) > 1
  <2>1. req'[s] = [step |-> "updating", user |-> u, to |-> to, seen |-> UpdateReads(u, to)]
    BY <1>2 DEF ReadTarget, Becomes, TypeOK
  <2>2. role[u] = "OWNER" /\ to # "OWNER"
    BY <2>1 DEF UpdateReads
  <2>3. req'[s].seen.owners = Owners
    BY <2>1, <2>2 DEF UpdateReads
  <2> QED BY <1>2, <2>2, <2>3 DEF ReadTarget
<1>3. ASSUME NEW r \in Requests, NEW q, Becomes(r, q), q.step # "updating"
      PROVE  req'[s] = req[s]
  BY <1>3 DEF Becomes, TypeOK
<1>4. ASSUME NEW r \in Requests, NEW u \in Users, NEW to \in Offered, ReadTarget(r, u, to)
      PROVE  r = s \/ req'[s] = req[s]
  BY <1>4 DEF ReadTarget, Becomes, TypeOK
<1>5. ASSUME NEW r \in Requests, RequestStep(r)
      PROVE  \/ \E u \in Users, to \in Offered : ReadTarget(r, u, to)
             \/ \E q : Becomes(r, q) /\ q.step # "updating"
  <2>1. CASE Becomes(r, Idle)
    BY <2>1 DEF Idle
  <2>2. ASSUME NEW u \in Users, Authorize(r, u)
        PROVE  \E q : Becomes(r, q) /\ q.step # "updating"
    BY <2>2 DEF Authorize
  <2>3. ASSUME NEW u \in Users, NEW to \in Offered, ReadInvited(r, u, to)
        PROVE  \E q : Becomes(r, q) /\ q.step # "updating"
    <3> DEFINE q == [step |-> "inviting", user |-> u, to |-> to, seen |-> InviteReads(u)]
    <3>1. Becomes(r, q) /\ q.step # "updating"
      BY <2>3 DEF ReadInvited
    <3> QED BY <3>1
  <2>4. ASSUME NEW i \in Invitations, ReadCanceled(r, i)
        PROVE  \E q : Becomes(r, q) /\ q.step # "updating"
    BY <2>4 DEF ReadCanceled
  <2>5. ASSUME NEW i \in Invitations, ReadInvitation(r, i)
        PROVE  \E q : Becomes(r, q) /\ q.step # "updating"
    <3> DEFINE q == [step |-> "accepting", invitation |-> i, seen |-> AcceptReads(i)]
    <3>1. Becomes(r, q) /\ q.step # "updating"
      BY <2>5 DEF ReadInvitation
    <3> QED BY <3>1
  <2> QED BY <1>5, <2>1, <2>2, <2>3, <2>4, <2>5 DEF RequestStep, UpdateRole,
             CreateInvitation, CancelInvitation, AcceptInvitation, RequestEnds
<1>6. ASSUME NEW r \in Requests, RequestStep(r)
      PROVE  Cardinality(req'[s].seen.owners) > 1
  BY <1>1, <1>2, <1>3, <1>4, <1>5, <1>6
<1> QED
  BY <1>1, <1>6 DEF Next, vars, CreateOrganization, ExpireInvitation

\* Once there is an owner there always is: updateRole counts, and an acceptance
\* gives a role to somebody who has none.
LEMMA OwnersStay ==
  ASSUME TypeOK, DemotionsLeaveAnOwner, [Next]_vars, Owners # {}
  PROVE  Owners' # {}
<1> PICK o \in Users : role[o] = "OWNER"
  BY DEF Owners
<1>1. CASE role'[o] = "OWNER"
  BY <1>1 DEF Owners
<1>2. ASSUME NEW r \in Requests, UpdateRole(r), role'[o] # "OWNER" PROVE Owners' # {}
  <2>1. PICK u \in Users, to \in Offered : u = req[r].user /\ to = req[r].to
    BY <1>2, RequestTypes DEF UpdateRole, Updating
  <2>2. UpdateReads(u, to) = req[r].seen /\ role' = [role EXCEPT ![u] = to]
    BY <1>2, <2>1 DEF UpdateRole, Appoint, Record
  <2>3. u = o /\ to # "OWNER"
    BY <1>2, <2>2 DEF TypeOK
  <2>4. req[r].seen.role = "OWNER" /\ req[r].seen.owners = Owners
    BY <2>2, <2>3 DEF UpdateReads
  <2>5. Cardinality(Owners) > 1
    BY <1>2, <2>1, <2>3, <2>4 DEF DemotionsLeaveAnOwner, UpdateRole
  <2>6. PICK v \in Owners : v # u
    BY <2>5, AnotherOwner
  <2> QED BY <2>2, <2>6 DEF Owners, TypeOK
<1>3. ASSUME NEW r \in Requests, AcceptInvitation(r), ~ UNCHANGED role
      PROVE  role'[o] = "OWNER"
  <2>1. PICK i \in Invitations : i = req[r].invitation
    BY <1>3, RequestTypes DEF AcceptInvitation, Accepting
  <2>2. /\ AcceptReads(i) = req[r].seen
        /\ role' = [role EXCEPT ![inv[i].email] = inv[i].role]
    BY <1>3, <2>1 DEF AcceptInvitation, Appoint, Record
  <2>3. role[inv[i].email] = "NONE"
    BY <1>3, <2>2, RequestTypes DEF AcceptInvitation, Accepting, AcceptReads
  <2> QED BY <2>2, <2>3 DEF TypeOK
<1>4. ASSUME NEW u \in Users, CreateOrganization(u) PROVE FALSE
  BY <1>4 DEF CreateOrganization
<1> QED
  BY <1>1, <1>2, <1>3, <1>4 DEF Next, RequestStep, vars,
     Authorize, ReadTarget, ReadInvited, ReadCanceled, ReadInvitation,
     CreateInvitation, CancelInvitation, ExpireInvitation, RequestEnds

\* Without an owner only the founding is possible.
LEMMA FirstStep ==
  ASSUME TypeOK, OwnerInv, [Next]_vars, Owners = {}
  PROVE  Owners' # {} \/ UNCHANGED <<role, inv, req>>
<1>1. /\ \A u \in Users : role[u] = "NONE"
      /\ \A i \in Invitations : ~ Issued(i)
      /\ \A r \in Requests : req[r] = Idle
  BY DEF OwnerInv, KeepsAnOwner, FoundedFirst
<1>2. ASSUME NEW u \in Users, CreateOrganization(u) PROVE Owners' # {}
  BY <1>2 DEF CreateOrganization, Appoint, Record, Owners, TypeOK
<1>3. ASSUME NEW r \in Requests PROVE ~ RequestStep(r)
  <2>1. req[r].step = "idle"
    BY <1>1 DEF Idle
  <2> QED BY <1>1, <2>1 DEF RequestStep, Authorize, Managers, ReadTarget, ReadInvited,
             ReadCanceled, ReadInvitation, Open, UpdateRole, CreateInvitation,
             CancelInvitation, AcceptInvitation, RequestEnds
<1> QED BY <1>1, <1>2, <1>3 DEF Next, vars, ExpireInvitation

\* Last-owner protection: with members there is an owner, however many role
\* changes run at the same time.
THEOREM LastOwnerStays == Spec => []KeepsAnOwner
<1>1. ASSUME TypeOK, OwnerInv, [Next]_vars PROVE OwnerInv'
  <2>1. DemotionsLeaveAnOwner'
    BY <1>1, NextDemotions DEF OwnerInv
  <2>2. Owners' # {} \/ (Owners = {} /\ UNCHANGED <<role, inv, req>>)
    BY <1>1, OwnersStay, FirstStep DEF OwnerInv
  <2>3. KeepsAnOwner' /\ FoundedFirst'
    BY <1>1, <2>2 DEF OwnerInv, KeepsAnOwner, FoundedFirst, Owners, Issued
  <2> QED BY <2>1, <2>3 DEF OwnerInv
<1> QED BY TypeCorrect, InitOwnerInv, <1>1, PTL DEF Spec, OwnerInv

-----------------------------------------------------------------------------
(* Acceptance and the audit trail.                                           *)

\* An acceptance that takes effect is of a row that nobody accepted or canceled
\* before, and of a user without membership.
LEMMA Acceptance ==
  ASSUME TypeOK, NEW r \in Requests, AcceptInvitation(r), ~ UNCHANGED <<inv, role, audited>>
  PROVE  \E i \in Invitations :
           /\ inv[i] \in Acceptable
           /\ role[inv[i].email] = "NONE"
           /\ inv' = [inv EXCEPT ![i].accepted = TRUE]
           /\ Appoint(inv[i].email, "NONE", inv[i].role)
<1>1. PICK i \in Invitations : i = req[r].invitation
  BY RequestTypes DEF AcceptInvitation, Accepting
<1>2. AcceptReads(i) = req[r].seen
  BY <1>1 DEF AcceptInvitation
<1>3. inv[i] \in Acceptable /\ role[inv[i].email] = "NONE"
  BY <1>2, RequestTypes DEF AcceptInvitation, Accepting, AcceptReads
<1> QED BY <1>1, <1>2, <1>3 DEF AcceptInvitation

\* A role change that takes effect is of the role the request has seen.
LEMMA RoleChange ==
  ASSUME TypeOK, NEW r \in Requests, UpdateRole(r), ~ UNCHANGED <<role, audited>>
  PROVE  \E u \in Users, to \in Offered : Appoint(u, role[u], to) /\ role[u] \in Roles
<1>1. PICK u \in Users, to \in Offered : u = req[r].user /\ to = req[r].to
  BY RequestTypes DEF UpdateRole, Updating
<1>2. UpdateReads(u, to) = req[r].seen
  BY <1>1 DEF UpdateRole
<1>3. role[u] = req[r].seen.role
  BY <1>2 DEF UpdateReads
<1> QED BY <1>1, <1>2, <1>3, RequestTypes DEF UpdateRole, Updating

\* A canceled invitation makes no member, even by a request under way.
THEOREM CancellationStands == Spec => CanceledMakesNoMember
<1>1. ASSUME TypeOK, [Next]_vars, NEW i \in Invitations, inv[i].canceled
      PROVE  inv'[i].accepted = inv[i].accepted
  <2>1. inv[i] \in Invitation
    BY <1>1 DEF TypeOK, NotCreated
  <2>2. CASE UNCHANGED inv
    BY <2>2
  <2>3. ASSUME NEW r \in Requests, CreateInvitation(r) PROVE inv'[i] = inv[i]
    <3>1. Issued(i)
      BY <2>1, TeamAssumption DEF Issued, Invitation
    <3>2. CASE UNCHANGED inv
      BY <3>2
    <3>3. CASE ~ UNCHANGED inv
      <4>1. PICK j \in Invitations :
              /\ ~ Issued(j)
              /\ inv' = [inv EXCEPT ![j] = [email |-> req[r].user, role |-> req[r].to,
                                           accepted |-> FALSE, canceled |-> FALSE]]
        BY <2>3, <3>3 DEF CreateInvitation
      <4> QED BY <1>1, <3>1, <4>1 DEF TypeOK
    <3> QED BY <3>2, <3>3
  <2>4. ASSUME NEW r \in Requests, CancelInvitation(r)
        PROVE  inv'[i].accepted = inv[i].accepted
    BY <2>1, <2>4 DEF CancelInvitation, Invitation, TypeOK
  <2>5. ASSUME NEW r \in Requests, AcceptInvitation(r), ~ UNCHANGED inv
        PROVE  inv'[i] = inv[i]
    <3>1. PICK j \in Invitations : /\ inv[j] \in Acceptable
                                   /\ inv' = [inv EXCEPT ![j].accepted = TRUE]
      BY <1>1, <2>5, Acceptance
    <3>2. i # j
      BY <1>1, <3>1 DEF Acceptable
    <3> QED BY <3>1, <3>2 DEF TypeOK
  <2> QED
    BY <1>1, <2>2, <2>3, <2>4, <2>5 DEF Next, RequestStep, vars, CreateOrganization,
       Authorize, ReadTarget, ReadInvited, ReadCanceled, ReadInvitation, UpdateRole,
       ExpireInvitation, RequestEnds
<1>2. TypeOK /\ [Next]_vars =>
        [\A i \in Invitations : inv[i].canceled => inv'[i].accepted = inv[i].accepted]_vars
  BY <1>1
<1> QED BY TypeCorrect, <1>2, PTL DEF Spec, CanceledMakesNoMember

\* Every change of a role is audited, with the role that it replaced.
THEOREM AuditTrail == Spec => AuditTrailIsUnbroken
<1>1. ASSUME TypeOK, [Next]_vars, NEW u \in Users,
             <<role[u], audited[u]>>' # <<role[u], audited[u]>>
      PROVE  audited'[u] = [from |-> role[u], to |-> role'[u]]
  <2>1. ASSUME NEW v, NEW to, Appoint(v, role[v], to)
        PROVE  audited'[u] = [from |-> role[u], to |-> role'[u]]
    BY <1>1, <2>1 DEF Appoint, Record, TypeOK
  <2>2. ASSUME NEW v \in Users, CreateOrganization(v)
        PROVE  Appoint(v, role[v], "OWNER")
    BY <2>2 DEF CreateOrganization
  <2>3. ASSUME NEW r \in Requests, UpdateRole(r)
        PROVE  \E v, to : Appoint(v, role[v], to)
    BY <1>1, <2>3, RoleChange
  <2>4. ASSUME NEW r \in Requests, AcceptInvitation(r)
        PROVE  \E v, to : Appoint(v, role[v], to)
    BY <1>1, <2>4, Acceptance
  <2> QED
    BY <1>1, <2>1, <2>2, <2>3, <2>4 DEF Next, RequestStep, vars,
       Authorize, ReadTarget, ReadInvited, ReadCanceled, ReadInvitation,
       CreateInvitation, CancelInvitation, ExpireInvitation, RequestEnds
<1>2. TypeOK /\ [Next]_vars =>
        [\A u \in Users : <<role[u], audited[u]>>' # <<role[u], audited[u]>> =>
            audited'[u] = [from |-> role[u], to |-> role'[u]]]_vars
  BY <1>1
<1> QED BY TypeCorrect, <1>2, PTL DEF Spec, AuditTrailIsUnbroken

-----------------------------------------------------------------------------
(* Pending invitations.                                                      *)

\* A request to invite has seen all rows of the address, and none is pending.
InvitersSawNoneOpen ==
  \A r \in Requests : req[r].step = "inviting" =>
    \A i \in req[r].seen.rows : Issued(i) /\ ~ Open(i)

\* A new row is one of an address that has no pending one.
LEMMA NewRow ==
  ASSUME TypeOK, InvitersSawNoneOpen, NEW r \in Requests, CreateInvitation(r), ~ UNCHANGED inv
  PROVE  \E j \in Invitations, e \in Users, to \in Offered :
           /\ ~ Issued(j)
           /\ \A i \in Invitations : inv[i].email = e => ~ Open(i)
           /\ inv' = [inv EXCEPT ![j] = [email |-> e, role |-> to,
                                        accepted |-> FALSE, canceled |-> FALSE]]
<1>1. PICK e \in Users, to \in Offered : e = req[r].user /\ to = req[r].to
  BY RequestTypes DEF CreateInvitation, Inviting
<1>2. InviteReads(e) = req[r].seen
  BY <1>1 DEF CreateInvitation
<1>3. \A i \in Invitations : inv[i].email = e => ~ Open(i)
  BY <1>2 DEF InviteReads, InvitersSawNoneOpen, CreateInvitation
<1> QED BY <1>1, <1>3 DEF CreateInvitation

\* Rows are never deleted or readdressed, and what is closed stays closed.
LEMMA RowsStay ==
  ASSUME TypeOK, [Next]_vars, NEW i \in Invitations, Issued(i)
  PROVE  /\ inv'[i].email = inv[i].email
         /\ Issued(i)'
         /\ Open(i)' => Open(i)
<1>1. inv[i] \in Invitation
  BY DEF TypeOK, Issued, NotCreated
<1>2. CASE UNCHANGED inv /\ expired \subseteq expired'
  BY <1>2 DEF Issued, Open
<1>3. ASSUME NEW r \in Requests, CreateInvitation(r)
      PROVE  inv'[i] = inv[i] /\ expired' = expired
  BY <1>3 DEF CreateInvitation, TypeOK
<1>4. ASSUME NEW r \in Requests, CancelInvitation(r) \/ AcceptInvitation(r)
      PROVE  /\ inv'[i].email = inv[i].email
             /\ inv[i].accepted => inv'[i].accepted
             /\ inv[i].canceled => inv'[i].canceled
             /\ expired' = expired
  BY <1>1, <1>4 DEF CancelInvitation, AcceptInvitation, TypeOK, Invitation
<1>5. \/ UNCHANGED inv /\ expired \subseteq expired'
      \/ \E r \in Requests :
           CreateInvitation(r) \/ CancelInvitation(r) \/ AcceptInvitation(r)
  BY DEF Next, RequestStep, vars, CreateOrganization, Authorize, ReadTarget, ReadInvited,
     ReadCanceled, ReadInvitation, UpdateRole, ExpireInvitation, RequestEnds
<1> QED BY <1>2, <1>3, <1>4, <1>5 DEF Issued, Open

LEMMA NextInviters ==
  ASSUME TypeOK, InvitersSawNoneOpen, [Next]_vars
  PROVE  InvitersSawNoneOpen'
<1> SUFFICES ASSUME NEW s \in Requests, req'[s].step = "inviting",
                    NEW i \in req'[s].seen.rows
             PROVE  Issued(i)' /\ ~ Open(i)'
  BY DEF InvitersSawNoneOpen
<1> SUFFICES i \in Invitations /\ Issued(i) /\ ~ Open(i)
  BY RowsStay
<1>1. CASE req'[s] = req[s]
  BY <1>1, RequestTypes DEF InvitersSawNoneOpen, Inviting
<1>2. ASSUME NEW e \in Users, NEW to \in Offered, ReadInvited(s, e, to)
      PROVE  i \in Invitations /\ Issued(i) /\ ~ Open(i)
  <2>1. req'[s].seen = InviteReads(e)
    BY <1>2 DEF ReadInvited, Becomes, TypeOK
  <2>2. i \in Invitations /\ inv[i].email = e
    BY <2>1 DEF InviteReads
  <2> QED BY <1>2, <2>2, TeamAssumption DEF ReadInvited, Issued
<1>3. ASSUME NEW r \in Requests, RequestStep(r), req'[s] # req[s]
      PROVE  \E e \in Users, to \in Offered : ReadInvited(s, e, to)
  BY <1>3 DEF RequestStep, Authorize, ReadTarget, ReadInvited, ReadCanceled, ReadInvitation,
     UpdateRole, CreateInvitation, CancelInvitation, AcceptInvitation, RequestEnds, Becomes,
     Idle, TypeOK
<1> QED BY <1>1, <1>2, <1>3 DEF Next, vars, CreateOrganization, ExpireInvitation

\* At most one invitation of an address is pending, however many requests
\* invite it at the same time.
THEOREM OnePending == Spec => []OneOpenInvitation
<1>1. Init => OneOpenInvitation /\ InvitersSawNoneOpen
  BY DEF Init, OneOpenInvitation, InvitersSawNoneOpen, Open, Issued, NotCreated, Idle
<1>2. ASSUME TypeOK, OneOpenInvitation, InvitersSawNoneOpen, [Next]_vars
      PROVE  OneOpenInvitation'
  <2>1. CASE \A i \in Invitations : Issued(i)' => Issued(i)
    BY <1>2, <2>1, RowsStay DEF OneOpenInvitation, Open
  <2>2. ASSUME NEW r \in Requests, CreateInvitation(r), ~ UNCHANGED inv
        PROVE  OneOpenInvitation'
    <3>1. PICK j \in Invitations, e \in Users, to \in Offered :
            /\ ~ Issued(j)
            /\ \A i \in Invitations : inv[i].email = e => ~ Open(i)
            /\ inv' = [inv EXCEPT ![j] = [email |-> e, role |-> to,
                                         accepted |-> FALSE, canceled |-> FALSE]]
      BY <1>2, <2>2, NewRow
    <3>2. inv'[j].email = e /\ \A i \in Invitations \ {j} : inv'[i] = inv[i]
      BY <1>2, <3>1 DEF TypeOK
    <3>3. \A i \in Invitations \ {j} : Open(i)' => Open(i) /\ inv[i].email # e
      BY <1>2, <3>1, <3>2, RowsStay DEF Open, Issued
    <3> QED BY <1>2, <3>2, <3>3 DEF OneOpenInvitation
  <2>3. \/ \A i \in Invitations : Issued(i)' => Issued(i)
        \/ \E r \in Requests : CreateInvitation(r) /\ ~ UNCHANGED inv
    <3>1. CASE UNCHANGED inv
      BY <3>1 DEF Issued
    <3>2. ASSUME NEW r \in Requests, CancelInvitation(r) \/ AcceptInvitation(r)
          PROVE  \A i \in Invitations : inv'[i].email = inv[i].email
      BY <1>2, <3>2 DEF CancelInvitation, AcceptInvitation, TypeOK, Invitation, NotCreated
    <3> QED
      BY <1>2, <3>1, <3>2 DEF Next, RequestStep, vars, CreateOrganization, Authorize,
         ReadTarget, ReadInvited, ReadCanceled, ReadInvitation, UpdateRole,
         ExpireInvitation, RequestEnds, Issued
  <2> QED BY <2>1, <2>2, <2>3
<1> QED BY TypeCorrect, NextInviters, <1>1, <1>2, PTL DEF Spec

-----------------------------------------------------------------------------
(* Members and accepted invitations.                                         *)

Member(u) == role[u] # "NONE"

Accepted(i, u) == inv[i].accepted /\ inv[i].email = u

\* MembersWereInvited member by member.
LEMMA Unfolded ==
  ASSUME TypeOK
  PROVE  MembersWereInvited <=>
           /\ \A i, j \in Invitations, u \in Users :
                Accepted(i, u) /\ Accepted(j, u) => i = j
           /\ \A i \in Invitations, u \in Users : Accepted(i, u) => Member(u)
           /\ \A u, v \in Users :
                /\ Member(u) /\ Member(v)
                /\ \A i \in Invitations : ~ Accepted(i, u) /\ ~ Accepted(i, v)
                => u = v
<1>1. \A i \in Invitations : inv[i].accepted => inv[i].email \in Users
  BY DEF TypeOK, Invitation, NotCreated
<1> QED BY <1>1 DEF MembersWereInvited, Member, Accepted

\* What a step does to members and accepted invitations: the founding ...
Founding(u) ==
  /\ \A v \in Users : ~ Member(v) /\ (Member(v)' <=> v = u)
  /\ \A i \in Invitations, v \in Users : Accepted(i, v)' = Accepted(i, v)

\* ... an acceptance ...
Joining(i, u) ==
  /\ ~ Member(u)
  /\ \A v \in Users : Member(v)' <=> Member(v) \/ v = u
  /\ \A j \in Invitations, v \in Users :
       Accepted(j, v)' <=> Accepted(j, v) \/ (j = i /\ v = u)

\* ... or nothing.
SameMembers ==
  /\ \A u \in Users : Member(u)' = Member(u)
  /\ \A i \in Invitations, u \in Users : Accepted(i, u)' = Accepted(i, u)

LEMMA MembersChange ==
  ASSUME TypeOK, [Next]_vars
  PROVE  \/ \E u \in Users : Founding(u)
         \/ \E i \in Invitations, u \in Users : Joining(i, u)
         \/ SameMembers
<1>1. ASSUME UNCHANGED <<role, inv>> PROVE SameMembers
  BY <1>1 DEF Member, Accepted, SameMembers
<1>2. ASSUME NEW u \in Users, CreateOrganization(u)
      PROVE  Founding(u)
  BY <1>2 DEF CreateOrganization, Appoint, Record, Member, Accepted, Founding, TypeOK
<1>3. ASSUME NEW r \in Requests, UpdateRole(r)
      PROVE  SameMembers
  <2> USE DEF SameMembers, Accepted
  <2>1. CASE UNCHANGED <<role, audited>>
    BY <1>3, <2>1 DEF UpdateRole, Member
  <2>2. CASE ~ UNCHANGED <<role, audited>>
    <3>1. PICK u \in Users, to \in Offered : Appoint(u, role[u], to) /\ role[u] \in Roles
      BY <1>3, <2>2, RoleChange
    <3> QED BY <1>3, <3>1, TeamAssumption DEF UpdateRole, Appoint, Record, Member, Roles, TypeOK
  <2> QED BY <2>1, <2>2
<1>4. ASSUME NEW r \in Requests, CreateInvitation(r) \/ CancelInvitation(r)
      PROVE  SameMembers
  <2>1. ASSUME CancelInvitation(r), NEW i \in Invitations
        PROVE  inv'[i].accepted = inv[i].accepted /\ inv'[i].email = inv[i].email
    BY <2>1 DEF CancelInvitation, TypeOK, Invitation, NotCreated
  <2>2. ASSUME CreateInvitation(r), NEW i \in Invitations
        PROVE  inv'[i] = inv[i] \/ (~ inv[i].accepted /\ ~ inv'[i].accepted)
    BY <2>2, TeamAssumption DEF CreateInvitation, TypeOK, Issued, Invitation, NotCreated
  <2> QED BY <1>4, <2>1, <2>2 DEF CreateInvitation, CancelInvitation, Member, Accepted, SameMembers
<1>5. ASSUME NEW r \in Requests, AcceptInvitation(r), ~ UNCHANGED <<role, inv>>
      PROVE  \E i \in Invitations, u \in Users : Joining(i, u)
  <2>1. PICK i \in Invitations :
           /\ inv[i] \in Acceptable
           /\ role[inv[i].email] = "NONE"
           /\ inv' = [inv EXCEPT ![i].accepted = TRUE]
           /\ Appoint(inv[i].email, "NONE", inv[i].role)
    BY <1>5, Acceptance
  <2>2. PICK u \in Users : u = inv[i].email
    BY <2>1 DEF Acceptable
  <2>3. \A v \in Users : Member(v)' <=> Member(v) \/ v = u
    BY <2>1, <2>2, TeamAssumption DEF Appoint, Record, Member, TypeOK, Acceptable, Roles
  <2>4. inv'[i].accepted /\ inv'[i].email = u /\ \A j \in Invitations \ {i} : inv'[j] = inv[j]
    BY <2>1, <2>2 DEF TypeOK, Acceptable
  <2>5. \A j \in Invitations, v \in Users :
          Accepted(j, v)' <=> Accepted(j, v) \/ (j = i /\ v = u)
    BY <2>1, <2>2, <2>4 DEF Accepted, Acceptable
  <2>6. ~ Member(u)
    BY <2>1, <2>2 DEF Member
  <2> QED BY <2>3, <2>5, <2>6 DEF Joining
<1> QED
  BY <1>1, <1>2, <1>3, <1>4, <1>5 DEF Next, RequestStep, vars, Authorize, ReadTarget,
     ReadInvited, ReadCanceled, ReadInvitation, ExpireInvitation, RequestEnds

\* Members and accepted invitations match, whatever requests are under way.
THEOREM MembersAndInvitations == Spec => []MembersWereInvited
<1>1. Init => MembersWereInvited
  BY DEF Init, MembersWereInvited, NotCreated
<1>2. ASSUME TypeOK, TypeOK', MembersWereInvited, [Next]_vars PROVE MembersWereInvited'
  <2> DEFINE P == /\ \A i, j \in Invitations, u \in Users :
                       Accepted(i, u)' /\ Accepted(j, u)' => i = j
                  /\ \A i \in Invitations, u \in Users : Accepted(i, u)' => Member(u)'
                  /\ \A u, v \in Users :
                       /\ Member(u)' /\ Member(v)'
                       /\ \A i \in Invitations : ~ Accepted(i, u)' /\ ~ Accepted(i, v)'
                       => u = v
  <2>1. /\ \A i, j \in Invitations, u \in Users :
             Accepted(i, u) /\ Accepted(j, u) => i = j
        /\ \A i \in Invitations, u \in Users : Accepted(i, u) => Member(u)
        /\ \A u, v \in Users :
             /\ Member(u) /\ Member(v)
             /\ \A i \in Invitations : ~ Accepted(i, u) /\ ~ Accepted(i, v)
             => u = v
    BY <1>2, Unfolded
  <2>2. ASSUME SameMembers PROVE P
    BY <2>1, <2>2 DEF SameMembers
  <2>3. ASSUME NEW w \in Users, Founding(w) PROVE P
    BY <2>1, <2>3 DEF Founding
  <2>4. ASSUME NEW k \in Invitations, NEW w \in Users, Joining(k, w) PROVE P
    BY <2>1, <2>4 DEF Joining
  <2>5. P
    BY <1>2, <2>2, <2>3, <2>4, MembersChange
  <2>6. \A i \in Invitations : inv'[i].accepted => inv'[i].email \in Users
    BY <1>2 DEF TypeOK, Invitation, NotCreated
  <2> QED BY <2>5, <2>6 DEF MembersWereInvited, Member, Accepted
<1> QED BY TypeCorrect, <1>1, <1>2, PTL DEF Spec

=============================================================================
