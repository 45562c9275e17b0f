SPECIFICATION MCSpec
CONSTANTS
  e1 = e1
  e2 = e2
  q1 = q1
  q2 = q2
  EpisodeKeys = {e1, e2}
  ExtractIds = {q1, q2}
  Extracts = {k1, k2}
  Accepted <- MCAccepted
  Refs = {l1}
  MaxEpisodes = 2
  MaxHistory = 3
  NoEpisode = NoEpisode
  Events = {e1, e2}
  Calls = {k1, k2}
  Convs = {1, 2}
  Messages = {m1, m2}
  None = None
  s1 = s1
  u1 = u1
  c1 = c1
  c2 = c2
  Scopes = {s1, s2}
  TraceNames = {q1, q2}
  Surfaces = {u1, u2}
  ClaimNames = {c1, c2}
  Documents <- MCDocuments
  Submissions <- MCSubmissions
  Recorders = {x1}
  MaxAnswers = 3
  Plain = {1, 2}
  Null = Null
SYMMETRY Symmetry
CONSTRAINT SmallInstance
CHECK_DEADLOCK FALSE
INVARIANTS
  OneActiveEpisode
  ExtractIsWhole
  HistoryTells
  AnswersNameTheMemory
  UndisturbedEventsHaveOneMemory
  LineagesEnd
  EvidenceStands
  HistoryIsAnswered
