SPECIFICATION Spec
CONSTANTS
  Owners = {o1}
  Clients = {k1}
  Convs = {c1}
  Works = {w1, w2}
  Messages = {m1, m2}
  Requests = {r1, r2}
  Payloads = {p1}
  Claims = {q1}
  FailureCodes = {"interrupted", "execution_failed"}
  Reconcilers = {x1, x2}
  None = None
SYMMETRY Symmetry
CHECK_DEADLOCK FALSE
INVARIANTS
  FailedLeavesNothing
  ReconcileIsPossible
  LocatorResolves
PROPERTIES
  TerminalIsFinal
