SPECIFICATION Spec

CONSTANTS
  Users       = {u1, u2}
  Invitations = {i1, i2}
  Requests    = {r1, r2}
  Offered     = {"OWNER", "ADMIN", "AGENT"}
  Nobody      = Nobody

SYMMETRY TeamSymmetry

INVARIANT TypeOK
INVARIANT KeepsAnOwner
INVARIANT OneOpenInvitation
INVARIANT MembersWereInvited
PROPERTY CanceledMakesNoMember
PROPERTY AuditTrailIsUnbroken
