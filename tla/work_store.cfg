SPECIFICATION Spec
CONSTANTS
  Owners = {o1, o2}
  Clients = {k1}
  Convs = {c1, c2}
  Works = {w1, w2}
  Messages = {m1, m2}
  Requests = {r1, r2}
  Payloads = {p1}
  Claims = {}
  FailureCodes = {"interrupted"}
  Reconcilers = {}
  None = None
SYMMETRY Symmetry
CHECK_DEADLOCK FALSE
INVARIANTS
  CompletedIsReadable
  BindingsAreExact
  SupersessionEnds
PROPERTIES
  ContractSpec
