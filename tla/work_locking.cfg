SPECIFICATION LockSpec
CONSTANTS
  Owners = {o1}
  Clients = {}
  Convs = {1, 2}
  Works = {11, 12}
  Messages = {m1}
  Requests = {r1, r2}
  Payloads = {p1}
  Claims = {}
  FailureCodes = {"interrupted"}
  Reconcilers = {x1, x2}
  Procs = {x1, x2}
  Ops = {"create", "complete", "fail", "append", "supersede", "reconcile"}
  None = None
SYMMETRY Symmetry
CHECK_DEADLOCK FALSE
INVARIANTS
  CyclesReachElsewhere
PROPERTIES
  CommitsAreTransactions
