SPECIFICATION Spec

CONSTANTS
  Requests = {r1, r2}
  Members  = {m1}
  Tags     = {}
  Nobody   = Nobody
  Emails   = {}
  Webhooks = {}

PROPERTY ClosedTicketsGetNoReply
