SPECIFICATION IndexSpec
CONSTANTS
  Owners = {o1}
  Clients = {k1}
  Convs = {c1}
  Works = {w1}
  Messages = {m1, m2}
  Requests = {r1, r2}
  Payloads = {p1, p2}
  Claims = {}
  FailureCodes = {"interrupted"}
  Reconcilers = {x1}
  None = None
SYMMETRY Symmetry
CHECK_DEADLOCK FALSE
INVARIANTS
  IndexShowsCanonical
PROPERTIES
  IndexIsIdempotent
