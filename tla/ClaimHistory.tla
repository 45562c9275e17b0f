---------------------------- MODULE ClaimHistory ----------------------------
(* Claim records about assistant answers, the request traces they are        *)
(* checked against, and the history reads that find an answer's record,      *)
(* directly or through the root another answer names.  Answers of a durable  *)
(* work are provisional until the work completes and vanish if it fails;     *)
(* traces are rewritten whole; a claim is read for, then inserted.           *)
EXTENDS Integers, Sequences, FiniteSets

CONSTANTS Scopes,       \* an owner's conversation: the two are compared together
          TraceNames,   \* request_id
          Surfaces,
          ClaimNames,   \* claim_id; with it goes the digest of the claim's anchor
          Documents,    \* the trace documents callers put
          Submissions,  \* the claim bodies callers post
          Recorders,    \* concurrent calls of create_claim_record
          MaxAnswers,   \* bound on the assistant messages
          Plain,        \* the answers whose first paragraph readers can quote: it is
                        \* not empty and not over 500 characters
          Null          \* SQL NULL, a missing key, no row

VARIABLES answer,     \* assistant messages, in the order of created_at
          trace,      \* traces, by request
          record,     \* claim_records, by claim
          recording   \* the body each running call has validated

claimVars == <<answer, trace, record, recording>>

Answers == 1..MaxAnswers
RecordKinds == {"support", "acquisition"}
Lineage  == [root : Answers, kind : RecordKinds]
Answer   == [scope : Scopes, request : TraceNames \cup {Null},
             lineage : Lineage \cup {Null},
             state : {"canonical", "provisional", "deleted"}]

\* prompt.evidence_acquisition and prompt.general_evidence_reasoning: the answer
\* (its id and digest) a manifest is of, whether its plan and its sufficiency
\* admit a claim, whether it passes the privacy boundary; the claim reasoned
\* about, whether it was presented, whether the trace binds what was visible.
Manifest  == [of : Answers, ready : BOOLEAN, safe : BOOLEAN]
Reasoning == [claim : ClaimNames, presented : BOOLEAN, visible : BOOLEAN]
Document  == [scope : Scopes, surface : Surfaces, ok : BOOLEAN,
              manifest : Manifest \cup {Null}, reasoning : Reasoning \cup {Null},
              refs : SUBSET Answers]

\* "anchored": the claim's anchor is the answer's first paragraph.
Submission == [claim : ClaimNames, scope : Scopes, request : TraceNames,
               answer : Answers, surface : Surfaces, version : {"v1", "v2"},
               presented : BOOLEAN, anchored : BOOLEAN, linked : BOOLEAN,
               evidence : SUBSET Answers]

\* The reads of a history request.  Any may fail, and the request ends with that:
\* "down" is the read the store fails, or Null.
Reads == {"answers", "records", "root", "root records"}

ASSUME BodiesAssumption == /\ Documents \subseteq Document
                           /\ Submissions \subseteq Submission
                           /\ MaxAnswers \in Nat
\* A claim's anchor has at most 500 characters.
ASSUME AnchorAssumption == \A b \in Submissions : b.anchored => b.answer \in Plain
ASSUME NullAssumption == /\ Null \notin TraceNames /\ Null \notin Lineage
                         /\ Null \notin Document /\ Null \notin Submission
                         /\ Null \notin Answers /\ Null \notin Reads

ClaimInit ==
  /\ answer = <<>>
  /\ trace = [q \in TraceNames |-> Null]
  /\ record = [c \in ClaimNames |-> Null]
  /\ recording = [k \in Recorders |-> Null]

-----------------------------------------------------------------------------
(* Readers.                                                                 *)

\* Faulty variant: a provisional answer passes for a canonical one.
Existing(m, s) == /\ m \in DOMAIN answer /\ answer[m].scope = s
                  /\ answer[m].state # "deleted"

\* The messages ordinary reads see.
Visible(m, s) == /\ m \in DOMAIN answer /\ answer[m].scope = s
                 /\ answer[m].state = "canonical"

\* Recorded about m; a claim of v2 that was not presented is a shadow.
About(m) == {c \in ClaimNames : /\ record[c] # Null /\ record[c].answer = m
                                /\ record[c].scope = answer[m].scope
                                /\ record[c].request = answer[m].request}
Shown(m) == {c \in About(m) : record[c].version = "v1" \/ record[c].presented}

\* evaluate_support_records, of the rows listed.  A record of another surface is
\* invalid too, and some readers tell it apart.
SupportOf(m, rows, surface) ==
  LET shown == rows \cap Shown(m)
      t     == trace[answer[m].request]
      bound(c) == /\ record[c].version = "v2" /\ t # Null /\ t.reasoning # Null
                  /\ t.reasoning.claim = c
                  /\ t.reasoning.presented /\ t.reasoning.visible
  IN CASE shown = {} -> "no_record"
       [] Cardinality(shown) > 1 -> "ambiguous"
       [] OTHER -> IF \E c \in shown : record[c].surface # surface THEN "wrong_surface"
                   ELSE IF m \in Plain /\ \A c \in shown : record[c].anchored \/ bound(c)
                   THEN "resolved" ELSE "invalid"

\* evaluate_acquisition_candidate: the manifest its trace retains now
AcquisitionOf(m, surface) ==
  LET t == trace[answer[m].request]
  IN CASE t # Null /\ t.surface # surface -> "wrong_surface"
       [] m \notin Plain /\ (t = Null \/ t.surface = surface) -> "invalid"
       [] m \in Plain /\ t = Null -> "no_record"
       [] OTHER -> IF t.scope # answer[m].scope \/ ~t.ok THEN "invalid"
                   ELSE IF t.manifest = Null THEN "no_record"
                   ELSE IF t.manifest.of = m /\ t.manifest.safe THEN "resolved" ELSE "invalid"

DirectRecord(m, kind, surface) ==
  IF kind = "support" THEN SupportOf(m, About(m), surface) ELSE AcquisitionOf(m, surface)

\* list_assistant_trace_candidates, of which only the newest counts
Newest(s) == {m \in DOMAIN answer : /\ Visible(m, s)
                                    /\ \A n \in DOMAIN answer : Visible(n, s) => n <= m}

\* The answers of POST /v1/acquisition-history/resolve-immediate.  "reads" is
\* lineage_dereference_count, "matches" match_count, "root" the answer whose record
\* is returned.  A reason names the kind of record as well, which is the one asked for.
Unresolved(status, reason, reads) ==
  [status |-> status, source |-> "none", reads |-> reads, reason |-> reason,
   matches |-> IF status = "ambiguous" THEN 2 ELSE 0, root |-> Null]

Resolved(source, reads, reason, m) ==
  [status |-> "resolved", source |-> source, reads |-> reads, reason |-> reason,
   matches |-> 1, root |-> m]

Unavailable(reads) == Unresolved("unavailable", "history_store_unavailable", reads)

\* _load_support_evaluation; the manifest comes with the answer and is not read for.
Loaded(m, kind, surface, read, down) ==
  IF kind = "support" /\ down = read THEN "unavailable" ELSE DirectRecord(m, kind, surface)

Verdict(found) == IF found = "wrong_surface" THEN "invalid" ELSE found

\* _resolve_immediate_history_v1
ResolveV1(s, kind, surface, down) ==
  LET newest == Newest(s) IN
  IF down = "answers" THEN Unavailable(0)
  ELSE IF newest = {} THEN Unresolved("no_record", "immediate_response_not_found", 0)
  ELSE LET m == CHOOSE n \in newest : TRUE
           found == Verdict(Loaded(m, kind, surface, "records", down))
       IN CASE answer[m].request = Null ->
                 [Unresolved("invalid", "immediate_response_invalid", 0) EXCEPT !.matches = 1]
            [] answer[m].request # Null /\ found = "resolved" ->
                 Resolved("direct_record", 0, "record_resolved", m)
            [] answer[m].request # Null /\ found = "unavailable" -> Unavailable(0)
            [] OTHER -> [Unresolved(found, "record_not_resolved", 0) EXCEPT
                           !.matches = IF kind = "acquisition" \/ found = "invalid" THEN 1 ELSE @]

\* The lineage of the newest answer is followed only if that has no record itself,
\* and only one step.
FollowLineage(s, line, kind, surface, down) ==
  LET r == line.root
      refused(reason) == Unresolved("invalid", reason, 1)
      without(reason) == Unresolved("no_record", reason, 1)
      found == Loaded(r, kind, surface, "root records", down)
  IN IF line.kind # kind THEN Unresolved("invalid", "lineage_record_kind_mismatch", 0)
     ELSE IF down = "root" THEN Unavailable(1)
     ELSE IF ~\E z \in Scopes : Visible(r, z) THEN without("lineage_root_missing")
     ELSE IF ~Visible(r, s) THEN refused("lineage_conversation_mismatch")
     ELSE IF answer[r].lineage # Null THEN refused("lineage_root_recursive")
     ELSE IF answer[r].request = Null THEN without("lineage_root_unresolvable")
     ELSE CASE found = "resolved"      -> Resolved("root_lineage", 1, "root_lineage_record_resolved", r)
            [] found = "no_record"     -> without("lineage_root_not_direct_record_owner")
            [] found = "unavailable"   -> Unavailable(1)
            [] found = "wrong_surface" -> refused("lineage_surface_mismatch")
            [] OTHER                   -> refused("lineage_root_association_invalid")

\* _resolve_immediate_history_v2
ResolveV2(s, kind, surface, down) ==
  LET nothing == Unresolved("no_record", "direct_record_absent_lineage_absent", 0)
      newest == Newest(s)
  IN IF down = "answers" THEN Unavailable(0)
     ELSE IF newest = {} THEN nothing
     ELSE LET m == CHOOSE n \in newest : TRUE
              found == Verdict(Loaded(m, kind, surface, "records", down))
          IN CASE answer[m].request = Null ->
                    Unresolved("invalid", "direct_response_invalid", 0)
               [] answer[m].request # Null /\ found = "resolved" ->
                    Resolved("direct_record", 0, "direct_record_resolved", m)
               [] answer[m].request # Null /\ found = "ambiguous" ->
                    Unresolved(found, "direct_record_ambiguous", 0)
               [] answer[m].request # Null /\ found = "invalid" ->
                    Unresolved(found, "direct_record_invalid", 0)
               [] answer[m].request # Null /\ found = "unavailable" -> Unavailable(0)
               [] OTHER -> IF answer[m].lineage = Null THEN nothing
                           ELSE FollowLineage(s, answer[m].lineage, kind, surface, down)

\* ImmediateHistoryResolveResponseV1 and V2: what the response models accept.
AcceptedV1(a) == /\ a.matches \in 0..2
                 /\ a.status = "resolved" => a.root # Null /\ a.matches = 1
                 /\ a.status # "resolved" => a.root = Null
                 /\ a.status = "ambiguous" => a.matches = 2

AbsenceReasons == {"direct_record_absent_lineage_absent", "lineage_root_missing",
                   "lineage_root_unresolvable", "lineage_root_not_direct_record_owner"}
RefusalReasons ==
  {"direct_record_invalid", "direct_response_invalid", "lineage_record_kind_mismatch",
   "lineage_conversation_mismatch", "lineage_surface_mismatch", "lineage_root_recursive",
   "lineage_root_association_invalid"}
BeforeLookup ==
  {"direct_record_absent_lineage_absent", "direct_response_invalid",
   "direct_record_invalid", "lineage_record_kind_mismatch"}

AcceptedV2(a, kind) ==
  IF a.status = "resolved"
  THEN /\ a.root # Null /\ a.matches = 1
       /\ \/ a.source = "direct_record" /\ a.reads = 0 /\ a.reason = "direct_record_resolved"
          \/ a.source = "root_lineage" /\ a.reads = 1 /\ a.reason = "root_lineage_record_resolved"
  ELSE /\ a.source = "none" /\ a.root = Null
       /\ IF a.status = "ambiguous"
          THEN /\ kind = "support" /\ a.reason = "direct_record_ambiguous"
               /\ a.reads = 0 /\ a.matches = 2
          ELSE /\ a.matches = 0
               /\ a.reads = 0 \/ a.reason \notin BeforeLookup
               /\ a.reads = 1 \/ a.reason \in BeforeLookup \cup {"history_store_unavailable"}
       /\ a.status = "no_record" => a.reason \in AbsenceReasons
       /\ a.status = "invalid" => a.reason \in RefusalReasons
       /\ a.status = "unavailable" => a.reason = "history_store_unavailable"

-----------------------------------------------------------------------------
(* add_message of an assistant answer                                       *)

\* Faulty variant: any answer may be a root.
AnyAnswer(r) == r \in DOMAIN answer

Original(r) == answer[r].lineage = Null

\* _validate_history_root_lineage_append: the root is found, and owns a record
\* of the kind; a shadow beside the one presented counts as a second record.
LineageAccepted(s, line) ==
  LET r == line.root
      t == trace[answer[r].request]
  IN /\ Visible(r, s) /\ Original(r) /\ answer[r].request # Null
     /\ IF line.kind = "support"
        THEN \E c \in ClaimNames : /\ About(r) = {c}
                                   /\ SupportOf(r, {c}, record[c].surface) = "resolved"
        ELSE t # Null /\ AcquisitionOf(r, t.surface) = "resolved"

AppendAnswer(s, q, line, state) ==
  /\ Len(answer) < MaxAnswers
  /\ line # Null => q # Null /\ LineageAccepted(s, line)
  /\ answer' = Append(answer, [scope |-> s, request |-> q, lineage |-> line,
                               state |-> state])
  /\ UNCHANGED <<trace, record, recording>>

\* The work of a provisional answer completes, or fails and takes the answer
\* and the claims about it along.
PublishAnswer(m) ==
  /\ m \in DOMAIN answer /\ answer[m].state = "provisional"
  /\ answer' = [answer EXCEPT ![m].state = "canonical"]
  /\ UNCHANGED <<trace, record, recording>>

DeleteAnswer(m) ==
  /\ m \in DOMAIN answer /\ answer[m].state = "provisional"
  /\ answer' = [answer EXCEPT ![m].state = "deleted"]
  /\ record' = [c \in ClaimNames |->
       IF record[c] # Null /\ record[c].answer = m THEN Null ELSE record[c]]
  /\ UNCHANGED <<trace, recording>>

\* create_trace: one row per request, every column rewritten.
PutTrace(q, document) ==
  /\ trace' = [trace EXCEPT ![q] = document]
  /\ UNCHANGED <<answer, record, recording>>

-----------------------------------------------------------------------------
(* create_claim_record                                                      *)

\* The manifest the claim is linked with, if it is.
ManifestAccepted(b, t) ==
  b.linked => /\ t.manifest # Null /\ t.manifest.of = b.answer
              /\ b.version = "v1" => b.anchored /\ t.manifest.ready

\* The reasoning a claim of v2 comes from.
ReasoningAccepted(b, t) ==
  b.version = "v2" =>
    /\ t.reasoning # Null /\ t.reasoning.claim = b.claim
    /\ t.reasoning.presented = b.presented
    /\ b.presented => b.anchored \/ t.reasoning.visible

\* The answer itself may still be provisional, its evidence may not.
Associated(b) ==
  LET m == b.answer
      t == trace[b.request]
  IN /\ m \in DOMAIN answer /\ answer[m].state # "deleted"
     /\ answer[m].scope = b.scope /\ answer[m].request = b.request
     /\ t # Null /\ t.scope = b.scope /\ t.surface = b.surface /\ t.ok
     /\ ManifestAccepted(b, t) /\ ReasoningAccepted(b, t)
     /\ b.evidence \subseteq t.refs
     /\ \A e \in b.evidence : Visible(e, b.scope)

\* Under an advisory lock on the claim's id.  A claim that exists is answered
\* with, or with a conflict if the body differs: nothing is written.
ValidateClaim(k, b) ==
  /\ recording[k] = Null /\ record[b.claim] = Null
  /\ \A j \in Recorders : recording[j] # Null => recording[j].claim # b.claim
  /\ Associated(b)
  /\ recording' = [recording EXCEPT ![k] = b]
  /\ UNCHANGED <<answer, trace, record>>

\* The insert refuses an answer that is gone by now.
InsertClaim(k) ==
  /\ recording[k] # Null
  /\ answer[recording[k].answer].state # "deleted"
  /\ record' = [record EXCEPT ![recording[k].claim] = recording[k]]
  /\ recording' = [recording EXCEPT ![k] = Null]
  /\ UNCHANGED <<answer, trace>>

RollBackClaim(k) ==
  /\ recording[k] # Null
  /\ recording' = [recording EXCEPT ![k] = Null]
  /\ UNCHANGED <<answer, trace, record>>

ClaimNext ==
  \/ \E s \in Scopes, q \in TraceNames \cup {Null}, line \in Lineage \cup {Null},
        state \in {"canonical", "provisional"} : AppendAnswer(s, q, line, state)
  \/ \E m \in Answers : PublishAnswer(m) \/ DeleteAnswer(m)
  \/ \E q \in TraceNames, document \in Documents : PutTrace(q, document)
  \/ \E k \in Recorders : \/ \E b \in Submissions : ValidateClaim(k, b)
                          \/ InsertClaim(k) \/ RollBackClaim(k)

ClaimSpec == ClaimInit /\ [][ClaimNext]_claimVars

-----------------------------------------------------------------------------
(* Properties.                                                              *)

\* Rows hold what their columns allow.
ClaimTypeOK ==
  /\ answer \in Seq(Answer) /\ Len(answer) <= MaxAnswers
  /\ trace \in [TraceNames -> Document \cup {Null}]
  /\ record \in [ClaimNames -> Submission \cup {Null}]
  /\ recording \in [Recorders -> Submission \cup {Null}]

\* A lineage that was accepted stays good for one step: whatever is appended,
\* published or deleted after, its root is a readable answer of the same
\* conversation that names no root itself and can be told what it is about.
LineagesEnd ==
  \A m \in DOMAIN answer : answer[m].lineage # Null =>
    LET r == answer[m].lineage.root IN
    /\ r < m /\ Visible(r, answer[m].scope)
    /\ answer[r].lineage = Null /\ answer[r].request # Null

\* A claim outlives neither its answer nor its evidence: the answer exists, and
\* every message it names as evidence is one a reader can still be shown.
EvidenceStands ==
  \A c \in ClaimNames : record[c] # Null =>
    /\ record[c].answer \in DOMAIN answer /\ answer[record[c].answer].state # "deleted"
    /\ \A e \in record[c].evidence : Visible(e, record[c].scope)

\* docs/api.md:122-126: a root is good if it is an original answer of the same
\* conversation and directly owns a valid record.  So an original answer that
\* the resolver has just resolved can be named as the root of the next one.
OriginalRootsAreAccepted ==
  \A s \in Scopes, kind \in RecordKinds, surface \in Surfaces :
    LET a == ResolveV2(s, kind, surface, Null) IN
    a.status = "resolved" /\ answer[a.root].lineage = Null
      => LineageAccepted(s, [root |-> a.root, kind |-> kind])

\* The reads that a request for a record of this kind makes.
ReadsFor(kind) ==
  IF kind = "support" THEN Reads ELSE Reads \ {"records", "root records"}

\* The conversations that have answers; the others have no history to read.
Conversations == {answer[m].scope : m \in DOMAIN answer}

FailureIsTold(s, kind, surface, a, b) ==
  /\ \A down \in ReadsFor(kind) :
       LET x == ResolveV2(s, kind, surface, down) IN
       x = a \/ (x.status = "unavailable" /\ AcceptedV2(x, kind))
  /\ \A down \in ReadsFor(kind) \ {"root", "root records"} :
       LET x == ResolveV1(s, kind, surface, down) IN
       x = b \/ (x.status = "unavailable" /\ AcceptedV1(x))

\* A history read is always answered: with a response that its own model accepts,
\* and, when it resolves, with an answer of the conversation that readers see and
\* that owns the one record shown.  A lineage never leads to a root that is missing,
\* recursive or elsewhere.  A read that the store fails is told as such, or makes no
\* difference: it never shows as a record that is absent, invalid or another one.
HistoryIsAnswered ==
  \A s \in Conversations, kind \in RecordKinds, surface \in Surfaces :
    LET a == ResolveV2(s, kind, surface, Null)
        b == ResolveV1(s, kind, surface, Null)
    IN /\ AcceptedV1(b) /\ AcceptedV2(a, kind)
       /\ a.status = "resolved" => /\ Visible(a.root, s)
                                   /\ kind = "support" => Cardinality(Shown(a.root)) = 1
       /\ a.reason \notin {"lineage_root_missing", "lineage_conversation_mismatch",
                           "lineage_root_recursive", "lineage_root_unresolvable"}
       /\ FailureIsTold(s, kind, surface, a, b)

-----------------------------------------------------------------------------
(* What the proofs use besides.                                             *)

\* A body that is validated waits for its insert: its answer may be deleted in
\* the meantime, its evidence may not.
RecordingStands ==
  \A k \in Recorders : recording[k] # Null =>
    /\ recording[k].answer \in DOMAIN answer
    /\ \A e \in recording[k].evidence : Visible(e, recording[k].scope)

ClaimInv == /\ ClaimTypeOK /\ LineagesEnd /\ EvidenceStands /\ RecordingStands
            /\ IsFiniteSet({c \in ClaimNames : record[c] # Null})
=============================================================================
