# A TLA+ development of basic-memory-store

basic-memory-store is a FastAPI service (`src/api`) that keeps conversations,
messages, durable work, memories, artifacts and the traces of retrieval in
PostgreSQL, bytes in an object store, and a semantic index in Qdrant. PostgreSQL is
authoritative; Qdrant is derived. This directory models the parts of it in which
ordering, concurrency and failure decide what is correct, checks them with TLC on
small instances and proves the main results with TLAPS for every instance.

Nearly every method of `PostgresStore` is one `async with pool.connection()` block:
one transaction at READ COMMITTED that commits at the end of the block and rolls back
on an exception. Handlers in `main.py` and the services string several such
transactions together with requests to Qdrant, to the object store and to the
embedding service. So the models have two grains: one action per transaction or
request (all modules but one), and one action per statement where the locks inside a
transaction matter (`WorkLocking`; `Episodes` also keeps the row lock of an update, and
`ArtifactDerivation` the count that an activation makes without a lock).

## 1. Inventory

| Component | State | Operations | Interacts with | What makes it correct | Model |
|---|---|---|---|---|---|
| Durable work (`postgres.py` 258-525) | `work_items`, `current_work` | create, start, complete, fail, reconcile interrupted, set current work | messages (result, provisional rows), conversations (must be open), claims (cascade) | exact answers, nothing left by failures, terminal is final, locators resolve, a reconciliation is never blocked by a bad row | `DurableWork`, `WorkContract` |
| Locks of the above | row locks, unique keys | every statement of the transactions | PostgreSQL's lock manager | a commit is a transaction, circles of waits only where a call reaches elsewhere, calls end | `WorkLocking` |
| Conversations and messages (`postgres.py` 526-1223) | `conversations`, `messages` | create, append, replay by id, lifecycle transition, canonical reads, resolve, list | work bindings, index tasks | canonical rows are kept, supersession ends | `DurableWork` |
| Message index (`main.py` 877-940, `qdrant.py`) | Qdrant points, pending tasks | read back, upsert, reindex | messages | shows canonical rows with their own content, idempotent | `MessageIndex` |
| Reindex tool (`tools/reindex.py`) | offset, total, page | page, upsert, stop | messages under change | a complete pass misses nothing | `ReindexPass` |
| Event ingestion (`main.py` 945-1052, `postgres.py` 1225-1302) | `event_ingest_log`, stream conversations | claim, find or create stream, append, finalize, index | messages, index | answers name a stored memory; idempotent | `EventIngest` |
| Memory items (`postgres.py` 3495-4222, `services/memory_*.py`) | `memory_items`, links, `memory_events` | promote, decide, reinforce, decay, transition | messages as evidence | links agree and stay, statuses are supported and audited, a replaced item never reads as current | `MemoryItems` |
| Artifacts and derived text (`services/ingestion.py`, `object_store.py`, `postgres.py` 2550-2906) | objects, `artifacts`, `derived_text`, points | upload, complete, ingest files, derive, retire, activate, invalidate | object store, Qdrant | an attempt becomes visible whole, or its call fails; a retry repairs what earlier attempts left | `ArtifactDerivation` |
| Derivation replay (`services/derivation_lifecycle.py`) | lifecycle metadata of derived texts and suggestions | inspect, rebuild, replace, invalidate, note the outcome | sources on disk, rows it replaces | a row is replaced once; a request is told what it did | `DerivedLifecycle`, `Episodes` |
| Proactive and initiative decisions (`services/proactive.py`, `postgres.py` 1303-2160) | preferences, events, decisions, suggestions, feedback | evaluate, decide, rate, answer, deliver | event log | one decision per request, cooldowns and dislikes respected | `Initiative` |
| Schema migrations (`tools/schema_migrations.py`) | tables, ledger, advisory lock | install, adopt, upgrade | all tables | the ledger tells what has run, in order, one runner at a time | `SchemaMigrations` |
| Episodes (`services/episode*.py`, `postgres.py` 4272-4815) | `episodes`, links, `episode_events` | extract, create, link, invalidate, replay | messages as evidence | one active episode per evidence, nothing left out, history is true | `Episodes` |
| Claims and traces (`services/claim_records.py`, `postgres.py` 4909-5348) | `claim_records`, traces | validate, insert, upsert trace | answers, evidence, works | a claim outlives neither its answer nor its evidence | `ClaimHistory` |
| Acquisition history (`services/acquisition_history.py`) | lineages of answers | append with a lineage, resolve (two versions) | claims, traces, answers | lineages end at a readable root; a read is always answered | `ClaimHistory` |
| Retrieval and recall (`services/retrieval.py`, `recall.py`) | none of its own | search, hydrate, check sources, read recent, annotate | index, messages, derived texts, memory items | recent messages always shown, policies kept on every path, omissions told | `Retrieval`, `RetrievalPolicy`, `Decisions` |
| Chunking (`services/chunking.py`) | none | split | - | chunks cover the text | not modelled |
| HTTP layer, models, settings, LLM client, prompts, smoke tools | none | validation, I/O, wording | all | - | not modelled |

What is hard here is not any one statement but what happens between them: a call
lost between two of a handler's transactions, a retry that overlaps its first
attempt, a row read without a lock and acted on later, several rows locked by one
call, and an index written after the row it shows may be gone. `PROJECT.json` lists
those places under "hazards", each with its line and the properties that watch it.

## 2. Modules

**The store and what is built on it.**

* `WorkContract` - the abstract specification: what a client of the work API sees.
  Works are admitted once, move forward only, end with one answer that becomes visible
  in the step that completes them, or with a failure that shows nothing; visible
  messages only grow.
* `DurableWork` - the tables and transactions behind it. `conv`, `work`, `msg`, `claim`,
  `current` are the tables (a function from id to row, `None` when absent); `pass` is what
  each running `reconcile_interrupted_work` has selected. A refused call rolls back and
  is a stutter. Conversations, works and messages are model values; a message's content
  and metadata are one `Payloads` value plus the request id the binding reads; every
  role but assistant is "user". Message ids are chosen by the caller and may come back
  after the row was deleted, as the API allows.
* `WorkLocking` extends it: each call takes its row locks and unique keys one statement
  at a time in the order of its `Plan`, reads committed rows, keeps its writes in
  `wrote` until `Commit`, and may be refused, disconnected or rolled back by the deadlock
  detector. A reconciliation keeps the candidates it has selected in `todo` and locks them
  by conversation and id (`Candidate`). Calls start from tables as earlier calls may
  have left them (`LockInit`), for any number of owners; one that names a conversation of
  another owner finds no row there, locks nothing and ends, and is left out (`OneOwner`).
  Claims and current work are not touched. It implements `DurableWork!Next` step by step.
* `MessageIndex` composes it with the index: each append or completion queues a task; the
  task reads the row back, then writes the vector; a write may fail silently; a crash
  loses tasks.
* `ReindexPass` composes it with one run of `tools/reindex.py`: `BeginPass`, `ReadPage`,
  `UpsertRow`, and three ways to end. Ids are naturals and stand for the order
  `created_at, id`, in which a row that commits late may come first.

**Histories.**

* `EventIngest` - the ingest handler as a process with a program counter, one step per
  transaction or request; `Abandon` loses a call at any of them. `disturbed` is a history:
  the events for which a call overlapped another or was lost between append and
  finalize.
* `Episodes` - extraction as a process: `FindEpisode` locks the active row of a key,
  `UpdateEpisode` or `InsertEpisode` commits it, `ConflictingInsert` meets the partial
  unique index; links, invalidations and the four transactions of an episode's replay run
  beside it. A row's `content` is the request whose evidence it carries; `history` are
  its `episode_events`. An invalidated episode's evidence, extracted again, makes a new row.
  An episode that is invalidated between the replay's inspection and its close keeps no
  terminal event, as in the code. `replace_episode` is called by nothing and left out.
* `ClaimHistory` - answers (canonical, provisional, deleted), traces that are rewritten
  whole, and claim records that one transaction validates and a later one inserts;
  lineages are checked when an answer is appended and followed when a history is read by
  either version of the resolver, in a request the store may fail at any of its reads
  (`down`). The reads of a request that do succeed see one snapshot, and a reason code
  leaves out the record kind it is prefixed with. `Plain` are the answers whose first
  paragraph fits a quotation; an answer's content never changes, so it is a constant, and
  `AnchorAssumption` says that the anchor of a claim, which fits too, is never the paragraph
  of another. A document's inner shape is reduced to the
  answers it names and to whether each group of checks passes.

**Derivations.**

* `ArtifactDerivation` - `POST /v1/artifacts/complete` and `ingest_files` chunk by chunk:
  rows, vectors and updates are separate steps, calls overlap and are lost between any
  two. Activation is two steps: the count (`CountAttempt`) locks nothing, the update
  (`Activate`) meets the rows as they are by then, and the rows it returns are counted when
  its transaction has committed, so that a call that activated fewer fails and what it has
  activated stays. A number is a text of so many chunks; the object may also be binary, of another
  size than announced, or of a type no text is derived of. A client puts an object
  again only when it is missing, binary or of the wrong size: the bytes of an object
  that was accepted do not change. `overlapped` is a history: the artifacts two calls
  have worked on at once, which may keep two active attempts.
* `DerivedLifecycle` - replay of derived texts and suggestions in five transactions;
  `derived` holds a row and its replacements, `events` the lifecycle that is kept in the
  row's metadata, `contended` the requests two calls have served at once. What the code
  does and one might not expect is kept: an identical replay of a superseded predecessor
  sets it active again; a replay does not touch Qdrant; a persisted replay of a chunk that
  was uploaded, not read from a file, invalidates it; and an evaluation of the same event
  overwrites a suggestion's lifecycle.
* `Initiative` - evaluation of an event in its separate reads and writes, with feedback,
  delivery and preferences beside it. A git threshold of 0 means the default, a reused
  request id overwrites the source it was noted with, and a call lost between suggestion
  and decision leaves a suggestion without a cooldown, as in the code. `crowded` is a
  history: the requests two calls have evaluated at once.
* `SchemaMigrations` - runners of several checkouts compete for the advisory lock;
  install, adopt, plan and each migration with its ledger row are transactions, and a
  runner is lost between or in any two of them. A script is its version and checksum.
  `status` and `check` read the ledger without the lock and change nothing.

**Answers.**

* `MemoryItems` - `Promote`, `PromoteAgain` (an active item for the sources exists) and
  `PromoteOver` (with a predecessor) are the three paths of `promote_memory_item`; `Decide` and
  `Decay` are the methods of the same purpose; `Move`, `Correct` and `Replace` are
  `transition_memory_item` to a status without, or with, a related item. `item` is the
  table reduced to owner, sources, status, promotion state and links; `told` is what
  the last status-telling event of each item says. `Freshness` is what readers make of a row.
* `Retrieval` - one request of any of the three retrieval endpoints, read by read, while
  messages are published, texts and items change, the index is away or the store fails.
  Ranking and limits are left out (the hits are those within the limits) and each text
  is of an artifact of its own.
* `RetrievalPolicy` - the one containment policy as the code writes it four times: the index
  filter, two SQL clauses and the check in Python.
* `Decisions` - the threshold rules of recall, episode callback and promotion, on scores in
  hundredths. A promotion's factors are what the candidate signals, unless the request gives
  a score for one; utility and future usefulness are given apart, and whether a short
  candidate is trivial is decided by the signals alone.

The theorems (section 5) are in modules of their own. `DurableWork_proofs`,
`WorkLocking_proofs`, `EventIngest_proofs` and `ArtifactDerivation_proofs` prove those of the
module they are named after; `MessageIndex_proofs` those of the index and of `ReindexPass`;
`Derivations_proofs` those of `DerivedLifecycle`, `Initiative` and `SchemaMigrations`;
`Histories_proofs` those of `Episodes` and `ClaimHistory`; `Answers_proofs` those of
`MemoryItems`, `Retrieval`, `RetrievalPolicy` and `Decisions`. The invariants the proofs rest on
(`StoreInv`, `LockInv`, `ArtInv` and so on) are defined at the end of the modules themselves.

The definitions headed "Faulty
variant" are used by no action: they are the plausible bugs each property is tested
against (`PROJECT.json`, "mutants").

`MCDerivations`, `MCHistories` and `MCAnswers` each join several modules that share no
variable. Their variable `part`, chosen in the initial state, says which of them moves,
so that TLC visits the union of their behaviours and not the product, and the calls of
different parts can have the same names. The other `MC*` modules add symmetry, or the
documents of `ClaimHistory`, to the module they extend.

## 3. Runs and bounds

`CHECK_DEADLOCK FALSE` appears where a bounded instance really stops: all ids used and
every work terminal, every call made, or a bound on rows reached.

| Run | Asks | Instance, and why it is enough |
|---|---|---|
| `work_store` | Do completed works keep one exact answer; are bindings exact; does supersession end; does the store implement `WorkContract`? | 2 owners, conversations, works and messages: two works can compete for a message, two messages for a work, one owner can name the other's rows, a conversation can replace the other, a deleted message's id can come back. |
| `work_failure` | Do failures and overlapping reconciliations remove exactly what is provisional; is terminal final; do locators resolve? | 1 conversation, 2 works, 2 messages, 1 claim, 2 reconciliations, so one reconciliation can act on what the other, or a worker, has settled since both selected it. |
| `message_index` | Can an index task show a row that is gone, hidden or replaced? | 2 messages, 2 payloads, 1 work and 1 reconciliation: an id is reused with another content while tasks for it are under way. |
| `work_locking` | Are the interleaved statements equivalent to the transactions? Where can calls wait in a circle? | 2 calls in flight over 2 conversations and 2 works, of every operation that takes more than one lock. Every circle of two is reached; for longer ones, which two calls cannot form, there is the theorem `CyclesAreKnown`. |
| `lock_liveness` | Does every call end? | The same without completions and appends, under fairness. |
| `derivations`, part artifacts | Is an attempt published whole, or does its call fail; does a retry repair what lost or overlapping attempts left? | 1 uploaded or 1 local artifact, texts of at most 2 chunks, 2 calls, 4 rows: an attempt can be lost after any of its steps and a second one, or both at once, work over what it left; a row can be retired or invalidated between the count and the update. |
| part lifecycle | Is a row replaced once; is a request told what it did? | 2 calls, 2 request ids, 2 possible outputs, a row and 2 replacements: retries, overlaps and lost calls of the same and of different requests. |
| part initiative | Is a request decided once; are cooldowns and dislikes respected? | 2 evaluations, 2 requests, one event of each kind about one subject, 2 decisions. |
| part reindex | Can OFFSET paging skip a canonical row? | 3 rows, pages of 1, `--max` 2, `--since` 1: rows enter before, at and after the offset while a work publishes or fails. |
| part migrations | Does the ledger stay true when runners compete and are killed? | 2 runners, 3 checkouts (an older one; a newer one with a version between two of its; one with an edited file), 3 versions. |
| `histories`, part episodes | Is there one active episode per evidence; is an answered extraction whole; is the history true? | 2 calls, 2 requests whose evidence overlaps, 2 rows, 1 link, 3 events of a row. |
| part events | Are answers sound and undisturbed events idempotent? | 2 calls, 2 events, 2 streams, 2 messages: enough for overlap, loss, retirement between lookup and append, and duplicate streams. |
| part claims | Do lineages end; does evidence stand; is every history read answered? | 3 answers, 2 requests, 2 claims, 3 trace documents, 5 claim bodies (both versions, presented and shadow), 2 scopes: a root can be provisional, foreign or itself derived, an answer too long to be quoted, and each read of a request can fail. |
| `answers`, part items | Can promotions, decay and transitions make links disagree, leave a status unsupported or unaudited, or show a replaced item as current? | 3 items, so two can compete to replace one and a replacement can be replaced; 2 sources; one owner, as rows of two owners never meet (`OwnItem`). |
| part retrieval | Are recent messages shown, policies kept and omissions told whatever fails? | 2 messages and 2 texts, one of each permitted, foreign to the domains or restricted. |
| part policy | Do the four forms of the policy agree? | Every policy and record over 2 domains, 1 class, 1 entity, 1 relationship, 2 scopes and all sensitivities. |
| part decisions | Can a better score make a decision worse? | All scores from {0, 0.40, 0.95}, which lie on both sides of most thresholds. |
| `create_replay`, `event_duplicates`, `event_rebuild`, `claim_roots` | Four statements of the repository that its code does not keep (section 6). | Counterexamples of a few steps. |

Named bounds in the modules are `MaxTexts`, `MaxChunks`, `MaxDerived`, `MaxDecisions`,
`MaxEpisodes`, `MaxHistory`, `MaxAnswers`, `MaxVersion` and, in `ReindexPass`, `BatchSize` and
`MaxRows`, which are the tool's own. `MCDerivations` and `MCHistories` further restrict their
instances with a `CONSTRAINT`, one conjunct per part: `OneArtifact` keeps the parts of the
artifact's state that no call reads from multiplying with those that matter (artifacts
share no row; a status set by a client is explored while no call has overlapped; of
overlapping attempts those whose rows have a living call). `OneGeneration`: a replacement
is not replayed in its turn. `OneEvent`: one event at a time, and one of rating,
answering and delivering it. `SmallInstance` in `MCHistories`: two episodes have four
events between them; one answer, never the first, is of the second conversation, which no
trace names: it can be taken for a root, and owns no record; the first answer is not of the
request that only the second trace names; and the last answer, of which nothing can be the
root, is stored as canonical and stays so (an earlier one is published and deleted).
Each leaves the interleavings of two calls on the same row complete.

`Position` and `Limit` in `ReindexPass` assume `BatchSize >= 1`: with `--batch-size 0` the
first page is empty and the tool reports completion without reading anything.

## 4. Fairness

Only `lock_liveness` assumes fairness: weak fairness of every call's `Statement`
(PostgreSQL runs a statement that waits for nobody; the pool's connection is held by
the call until it ends) and of `BreakDeadlock` (`deadlock_timeout` expires in every
circle of waits and one of its transactions is rolled back). No fairness is assumed of
clients: nobody has to call, and `Disconnect` is never forced. `CallsEnd` needs both
conjuncts: the two conversations that supersede each other, and a reconciliation
against an append that replays an id of another conversation, end only by the detector.
No liveness is claimed for works, events, derivations or replays: nothing in the code
retries them. What can be said without it, that a retry is not refused for what earlier
attempts left, is the invariant `RetriesActivate`.

## 5. Proofs

All are checked by TLAPS with no bound on owners, works, messages, rows or concurrent
calls. What is assumed of the constants is named in the modules, and TLC evaluates each
assumption on the instances of section 3:

* Values that stand for NULL or "no row" are none of the identifiers and rows
  (`NoneAssumption`, `IngestAssumption`, `ItemAssumption`, `NilAssumption`, `AbsentAssumption`,
  `NullAssumption`, and parts of `RowsAssumption`, `ManagedAssumption`, `ProcsAssumption`,
  `EpisodeBounds`); `"interrupted"` is a failure code.
* Ids that are ordered are naturals: conversations and works where they are locked in
  order (`OrderAssumption`), conversations of streams, messages of a pass.
* What is finite in any run is finite: the calls in flight (`ProcsAssumption`: the pool has
  so many connections), the messages of a reindex pass, the relationship scopes of a
  policy (`ScopesAssumption`: it is a JSON list).
* Bounds are naturals, `BatchSize`, `MaxChunks`, `MaxTexts` and `MaxDerived` at least 1; scores
  lie in 0..100; turns and texts are distinct records; the functions and sets that give
  constants their meaning (`Accepted`, `Managed`, `SourceOf`, `Documents`) have their types.

Every proof has the same shape: initial states satisfy the inductive invariant, each action
preserves it (one lemma per action, under it one step per conjunct it disturbs), and the
property follows. `LockInv` and the invariants of the modules behind `derivations` and
`histories` were checked by TLC, on the instances of those runs, before they were proved.

**Store.** `StoreInv` is the inductive invariant. `CompletedIsReadable`,
`FailedLeavesNothing`, `LocatorResolves` and `ReconcileIsPossible` are not inductive by
themselves: that a completed work stays readable depends on the row of its result
staying, which depends on deletions reaching only provisional rows, which depends on
`BindingsAreExact` (a bound message is the only one of its work and in its
conversation). `RowsAreConsistent` says for each work state what its columns and bound
messages are; `CandidatesExist` carries the unlocked selection of a reconciliation to
the moment it acts. Whoever fails a work refuses more than one bound message
(`Deletable`); that nobody ever meets two is `OnlyAnswerIsBound`. The proof has one lemma per transaction and, under it, one step
per conjunct the transaction disturbs. The action properties (`TerminalIsFinal`,
`CanonicalIsKept`) and the refinement `StoreImplementsContract` (each transaction maps to
one contract step or to a stutter, under the mapping at the end of `DurableWork`) follow
from the same invariant.

**Locking.** `LockInv` says, for each statement of each call, what the call has locked,
what it has checked and what it has written (`CreateHolds`, `TransitionHolds`, `AppendHolds`,
`SupersedeHolds`, `ReconcileHolds`). It is inductive because locking a conversation protects
all that is decided inside it. Every call writes only rows of conversations it has locked
(lemma `CommitRespects`), so a commit leaves what another call has checked under its own locks
as it was (`CallKeeps`); what is read outside them (a request not yet used, a message id
not yet taken) is asked for again under the unique key. At `commit` the
conditions of the transaction therefore still hold, and `CommitIsTransaction` derives
`DurableWork!Next` from them (`TransactionsAreAtomic`). `StatementsKeepTheStore` carries the
store's invariant and action properties over to the interleaved statements; it is a theorem
of its own because `LockInit` starts from tables in use and not from empty ones.
`CyclesAreKnown`: a call that holds a unique key is about to commit and waits for nobody
(`KeysAtCommit`); any other that does not reach elsewhere waits for a row that is above all
those it holds in the order conversation, then the conversation's row before its works,
then work (`WaitsUpward`); and no finite set of calls can each wait for one higher up
(`AscentEnds`). This covers circles of any length, of which the run sees those of two.

**Index.** `IndexInv` adds to `StoreInv` that what a task has read back, and what the index
holds, is the content of a message that is canonical. It is inductive because canonical
rows are kept (`CanonicalStep` of the store's proofs), so a failure that commits between
read and write can only concern a row the task did not read. `IndexIsIdempotent` follows:
two tasks about one message bring the same. `IndexedStoreIsAStore` lets every theorem
about the store hold beneath the index.

**Reindex.** Rows that are canonical never cease to be, so a row's position in the
ordered result only grows. `UnreadLieAhead` then says everything asked for and not
read lies at the offset or beyond; a page is a contiguous interval of positions, and an
empty page below the limit leaves nothing.

**Ingestion.** `IngestInv` accounts for every memory of an undisturbed event: it is
the log's, or that of the single call that has appended and not finalized.

**Artifacts.** `ArtInv` has two halves. `RowsHold`, `CallHolds` and `CallsApart` hold however calls
overlap: rows of one attempt are chunks of one text, each of another index, and no two
calls build the same attempt. `AloneHolds` and `CallAlone` speak of artifacts no two calls
have worked on: active rows are of one attempt, each is the one its point names, and a call
that builds has retired everything active before. The code compares counts, and the
theorems say that each chunk is there: rows of one attempt with distinct indices below
the announced number are all of them when there are as many (`OneToOneIsOnto`,
`UncoveredLacks`, `AttemptIsWhole`, `ReadyIsAll`). `RetriesAreActivated` is the converse: with its own rows
intact, an attempt's count agrees whatever earlier ones left. `DerivationsAppearOrFail` rests
on the first half only and holds for overlapping calls too: the rows that were counted are
all the chunks (`BuildingFacts`, `CountAttemptStep`), and until the update they can only be
retired by another call of the artifact or invalidated.

**Replays.** `LifeInv` joins `OutcomeIsTold` with `RowsAgree` (a replacement comes after the row it
names, that row names it back, and what is superseded has one) and `ReplayOK` (a call that
is to note a replacement finds an outcome noted; while a call without company has none,
nobody has noted one for its request). `ReplacedOnce` follows from `RowsAgree` alone, for
overlapping replays as well.

**Initiative.** `InitiativeInv` says what a call's reads are still worth: that its request has
no decision yet holds on as long as no second call serves it (`OneCallEach`), while what it
has read of cooldowns and dislikes is compared with what held when it began, which is
what `SubjectsAreLeftAlone` promises and no more.

**Memory items.** `ItemInv` joins typing (with the partial unique index), `LinksAgree`,
`StatusesAreSupported` and `EventsTellStatus`. The links need each other: that a
supersession may fill an empty end without looking at the row already linked to it
holds because a filled end always has its counterpart. A status is supported because
links are only ever added (`LinksAreFinal`). `ReplacedIsNeverCurrent` is a fact of
`Freshness` over typed rows: the link decides before the status does, so decaying a
superseded item, which overwrites its status, does not revive it.

**Migrations.** `LedgerTellsTables` and `MigrationsRunInOrder` become inductive with `Locked`
(whoever is past waiting holds the lock) and `HolderKnows`: a database the holder found
empty, or not enrolled, still is, and every file it has still to run comes after all that
have. The last is what the second analysis, made under the lock before anything is
applied, gives to each transaction after it.

**Retrieval.** `RetrievalInv` says, for each phase of a request, that what was gathered so
far is inside the policy and the domains (`Allowed`, `Inside`), that the recent messages
were read with the same policy (`Kept`), and that what is missing is already among
the reasons (`NothingIsLost`); the bundle a compare request sets aside to fall back on has
to satisfy the same.

**Policies and decisions.** `FiltersAgree` and `ScoresNeverHurt` are about single evaluations, so
their invariants (`PolicyInv`, `DecisionInv`) only carry the types of what was asked; the
content is in the lemmas: the four forms of a clause say the same of a record
(`FiltersSayTheSame`), and raising one score never lowers the verdict of a rule
(`RecallRises`, `CallbackRises`, `PromotionRises`). For a promotion the better score may be one the
request gives, which leaves the signals alone, or one the candidate signals, after which a
short candidate is no longer trivial (`Improved`).

**Claims.** `ClaimInv` adds to `LineagesEnd` and `EvidenceStands` what holds between validation
and insert (`RecordingStands`): the evidence of a body under way stays visible, because
canonical answers are kept and what is provisional is refused as evidence, while its answer
may be deleted, and then the insert's foreign key refuses it. `HistoriesAreAnswered` follows the
resolver of each version case by case (`DirectRecords`, `LineageIsFollowed`, `HistoryV2`,
`HistoryV1`); that a resolved history shows one record rests on the cardinality of what is
shown. A read that fails is compared with the same request without the failure
(`LineageFailureIsTold`, `FailureIsToldV1`, `FailureIsToldV2`).

**Episodes.** `EpisodeInv` joins the four properties with `CallFits`: the row a call has
locked is still the active one of its key, and what it has passed is recorded. The
first holds because every writer of a status respects the lock, the second because
histories only grow (`Grown`). `HistoryTells` is proved for one row and one more event at a
time (`CreatedTells`, `UpdatedTells`, `OtherTells`), and is itself needed by `ExtractIsWhole`: an
update that finds its content in place writes nothing, and the history must already
name the request.

**Only model-checked.** Of the properties the passing runs check, one is not proved:
`CallsEnd`, because liveness under fairness and `ENABLED` are beyond the prover; that calls
wait in a circle only where `CyclesReachElsewhere` says, which is the safety half of it, is
proved. The four statements of section 6 are refuted by their runs. Induction over data is
not available to the prover either, so no module that is proved about declares a recursive
operator.

## 6. Where the repository disagrees with itself

* `create_replay`: `docs/api.md` 612-613 and 636 say that an identical `create_work`
  returns the original work and that only new admission needs an open conversation.
  `create_work` (`postgres.py` 273) refuses a retired conversation before it looks
  for the request's work.
* `event_duplicates`: a retry after a call that was lost between append and finalize
  appends a second memory (`main.py` 1004), and so do two overlapping calls, while
  `test_events_ingest_api.py` 297 expects one memory after an incomplete claim.
  `UndisturbedEventsHaveOneMemory` is what does hold.
* `event_rebuild`: `README.md` 19 and `docs/api.md` 158 say the index can be rebuilt from
  PostgreSQL; the reindex query (`postgres.py` 2168) leaves out role `tool`, with which
  ingestion stores and indexes event memories.
* `claim_roots`: `docs/api.md` 121-123 says a lineage's root is accepted if it is an original
  answer of the same conversation that directly owns a valid record.
  `_validate_history_root_lineage_append` (`postgres.py` 871-876) counts the root's claims,
  shadow claims included, and refuses a root with two, though readers are shown the one
  that was presented and the resolver has just resolved it.

Some observations have no run of their own. Corrections may point at each other: after
A corrects B, a correction of A by B is accepted, each then replaces the other, and
both read as replaced; nothing in the repository rules that out, and `LinksAgree` holds
throughout. Decay looks at no status (`postgres.py` 3927): an item that was retracted
without a replacement and is then decayed without demotion reads as stale again, which
no document forbids either. The comment at `postgres.py` 451 orders the locks of one
reconciliation, which prevents circles among reconciliations; a circle with an append
or an admission that reaches another conversation's work remains, and the detector
ends it (`CyclesReachElsewhere`, `CallsEnd`). `add_message` looks up the work it binds to
(`postgres.py` 659) before it holds a lock that would keep a work from being admitted
meanwhile in another conversation; the model takes the lookup and the insert as one
transaction. `activate_derived_text_attempt` raises for a count that differs after the update
(`postgres.py` 2698) when the transaction has committed: a row invalidated or retired between
its two statements leaves a partial activation, of a call that reports failure, as
`docs/operations.md` 181 has it; `PublishedOrFailed` says no more than that. And two overlapping completions of an artifact may both activate their
attempt; `CompletionIsWhole` therefore speaks of artifacts no two calls have worked on.

## 7. What is not modelled, and why

Authentication, request validation, error wording, pagination of lists, titles,
embedding, ranking and token budgets have no state the properties tell apart, or are
pure I/O and text. Clock values are left out, so activity order (`updated_at`) and the
ages behind freshness are choices, and what the code orders by `created_at`, the start of the
writing transaction, the models order by its commit: two rows written by overlapping
transactions may be listed the other way round. Chunking is a pure function on characters; its
result is a number of chunks here. Reinforcement of memory items and notes on their
trail change data no property reads. A disabled object store, failing presigned URLs,
deletion of objects, and the replacement of an accepted object by one of the same size
are left out of `ArtifactDerivation`; presence permissions and texts out of `Initiative`; the
shape checks of a single trace document or claim body out of `ClaimHistory`; debug views,
scenario replays and smoke tools altogether. PostgreSQL itself is assumed: atomic
commit, row locks held to the end of the transaction, unique indexes that block on an
uncommitted key, foreign keys that cascade as the schema declares.
