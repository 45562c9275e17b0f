SPECIFICATION IngestSpec
CONSTANTS
  Events = {e1, e2}
  Calls = {k1, k2}
  Convs = {1, 2}
  Messages = {m1, m2}
  None = None
INVARIANT OneMemoryPerEvent
