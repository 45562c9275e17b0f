SPECIFICATION MCSpec
CONSTANTS
  Uploads = {a1}
  Files = {u1}
  DeriveCalls = {k1, k2}
  MaxChunks = 2
  MaxTexts = 4
  Binary = Binary
  Resized = Resized
  Opaque = Opaque
  Nil = Nil
  Replays = {k1, k2}
  RequestIds = {q1, q2}
  d1 = d1
  Outputs = {d1, d2}
  MaxDerived = 3
  Missing = Missing
  Refused = Refused
  NoRow = NoRow
  git1 = git1
  portfolio1 = portfolio1
  other1 = other1
  subject1 = subject1
  Logs = {git1, portfolio1, other1}
  Subjects = {subject1}
  SourceOf <- MCSource
  SubjectOf <- MCSubject
  RequestNames = {q1, q2}
  Evaluations = {k1, k2}
  OtherSurfaces = {}
  MaxDecisions = 2
  Absent = Absent
  Owners = {o1}
  Clients = {}
  Convs = {c1}
  Works = {w1}
  Messages = {1, 2, 3}
  Requests = {r1}
  Payloads = {p1}
  Claims = {}
  FailureCodes = {"interrupted"}
  Reconcilers = {}
  None = None
  ScanOwner = o1
  ScanConvs = {c1}
  ScanSince = 1
  BatchSize = 1
  MaxRows = 2
  older = older
  newer = newer
  edited = edited
  base1 = base1
  base2 = base2
  f1 = f1
  f2 = f2
  f3 = f3
  f3edited = f3edited
  Checkouts = {older, newer, edited}
  Runners = {k1, k2}
  MaxVersion = 3
  Checksums = {base1, base2, f1, f2, f3, f3edited}
  Managed <- MCManaged
  Baseline <- MCBaseline
  Compatible <- MCCompatible
  NoFile = NoFile
  NoRunner = NoRunner
SYMMETRY Symmetry
CONSTRAINT SmallInstance
CHECK_DEADLOCK FALSE
INVARIANTS
  CompletionIsWhole
  RetriesActivate
  ReplacedOnce
  OutcomeIsTold
  DecidedOnce
  CompletePassMissesNothing
  LedgerTellsTables
PROPERTIES
  PublishedOrFailed
  SubjectsAreLeftAlone
  MigrationsRunInOrder
