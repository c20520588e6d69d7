SPECIFICATION Spec

CONSTANTS
  Requests = {r1, r2}
  Members  = {m1}
  Tags     = {t1}
  Nobody   = Nobody
  Emails   = {e1, e2}
  Webhooks = {h1, h2}

SYMMETRY TicketSymmetry

INVARIANT TypeOK
INVARIANT TimestampsMatchStatus
INVARIANT TagTrailAddsUp
INVARIANT EmailMakesOneMessage
PROPERTY StatusTrailIsTrue
PROPERTY LateChangesReplaceOpen
