SPECIFICATION ClaimSpec
CONSTANTS
  s1 = s1
  u1 = u1
  q1 = q1
  q2 = q2
  c1 = c1
  c2 = c2
  Scopes = {s1}
  TraceNames = {q1, q2}
  Surfaces = {u1, u2}
  ClaimNames = {c1, c2}
  Documents <- MCDocuments
  Submissions <- MCSubmissions
  Recorders = {k1}
  MaxAnswers = 3
  Plain = {1, 2}
  Null = Null
CHECK_DEADLOCK FALSE
INVARIANTS
  OriginalRootsAreAccepted
