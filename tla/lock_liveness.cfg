SPECIFICATION FairLockSpec
CONSTANTS
  Owners = {o1}
  Clients = {}
  Convs = {1, 2}
  Works = {11, 12}
  Messages = {}
  Requests = {r1, r2}
  Payloads = {p1}
  Claims = {}
  FailureCodes = {"interrupted"}
  Reconcilers = {x1, x2}
  Procs = {x1, x2}
  Ops = {"create", "start", "fail", "supersede", "reconcile"}
  None = None
CHECK_DEADLOCK FALSE
PROPERTIES
  CallsEnd
