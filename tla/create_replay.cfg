SPECIFICATION Spec
CONSTANTS
  Owners = {o1}
  Clients = {k1}
  Convs = {c1, c2}
  Works = {w1}
  Messages = {m1}
  Requests = {r1, r2}
  Payloads = {p1}
  Claims = {}
  FailureCodes = {"interrupted"}
  Reconcilers = {}
  None = None
SYMMETRY Symmetry
CHECK_DEADLOCK FALSE
INVARIANTS
  IdenticalReplayReturnsWork
