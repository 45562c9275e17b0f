----------------------------- MODULE Retrieval -----------------------------
(* One retrieval request: a search of the vector index, rows read for its    *)
(* hits, sources of the derived texts looked up one at a time, the recent    *)
(* messages, and the lifecycle of what will be shown.  Each is a call or a   *)
(* transaction of its own: messages are published in between, texts and      *)
(* memory items change, the index can be away and the store can fail.        *)
(* Requests share nothing, so one is enough.                                 *)
(* Ranking and limits (k) are left out: the hits are the ones within the     *)
(* limits, and every text is of an artifact of its own, so that merging the  *)
(* chunks of one artifact drops nothing.                                     *)
EXTENDS FiniteSets

CONSTANTS Turns, Texts, \* the conversation's messages, the derived texts
          Permitted,    \* records a mandatory policy of the request allows
          Foreign,      \* tagged records outside the domains it asks for
          Timely,       \* records inside the request's time window
          Sourced,      \* texts all of whose sources exist
          Restricted    \* records whose latest memory item stays stale, demoted
                        \* or replaced

Records == Turns \cup Texts

ASSUME RecordsAssumption == /\ Turns \cap Texts = {}
                            /\ UNION {Permitted, Foreign, Timely, Restricted} \subseteq Records
                            /\ Sourced \subseteq Texts

VARIABLES published,  \* messages that are canonical
          request,    \* the request under way, and its answer
          before      \* history: what was canonical when it began

retrievalVars == <<published, request, before>>

Modes == {"raw", "augmented", "compare"}
Policies == {"none", "domains", "mandatory", "no_artifacts"}
Contained(policy) == policy \in {"mandatory", "no_artifacts"}

Bundle == [messages : SUBSET Turns, recent : SUBSET Turns, texts : SUBSET Texts,
           qualified : SUBSET Records]
EmptyBundle == [messages |-> {}, recent |-> {}, texts |-> {}, qualified |-> {}]

\* Reason codes of the diagnostics.
Reasons == {"vector_unavailable", "missing_canonical_source", "policy_omission",
            "artifact_retrieval_unavailable", "missing_derivative_source",
            "source_not_available", "artifact_policy_empty", "augmented_failed"}

\* "raw" is the bundle a compare request has set aside, with its reasons.
Request ==
  [pc : {"idle", "search", "hydrate", "search_texts", "hydrate_texts", "check",
         "recent", "freshness", "answered", "failed"},
   mode : Modes \cup {"tiered", "direct"}, policy : Policies, artifacts : BOOLEAN,
   hits : SUBSET Records, missed : BOOLEAN, pending : SUBSET Texts, bundle : Bundle,
   told : SUBSET Reasons, raw : {<<>>} \cup (Bundle \X SUBSET Reasons),
   lost : BOOLEAN]

Blank == [pc |-> "idle", mode |-> "raw", policy |-> "none", artifacts |-> FALSE,
          hits |-> {}, missed |-> FALSE, pending |-> {}, bundle |-> EmptyBundle,
          told |-> {}, raw |-> <<>>, lost |-> FALSE]

RetrievalInit ==
  /\ published \in SUBSET Turns
  /\ request = Blank
  /\ before = {}

-----------------------------------------------------------------------------
\* Faulty variants: the recent messages are read without the policy, an outage
\* is let through, an omission is not told.
AllRecent == published
NothingTold(cond, reason) == {}
Nowhere == FALSE

Admits(policy, S) == IF Contained(policy) THEN S \cap Permitted ELSE S
Displayed(b) == b.messages \cup b.recent \cup b.texts
Told(cond, reason) == IF cond THEN {reason} ELSE {}
V2 == request.mode \in Modes

\* The v1 handlers let an outage of the index through, v2 carries on without hits.
Survives == V2

\* get_recent_message_items: the policy is part of the query, nothing checks its
\* rows again.  The limit is above what the conversation holds here.
RecentRows == Admits(request.policy, published)

\* A compare request builds a raw bundle first, and then another one.
RawPhase == request.mode = "raw" \/ (request.mode = "compare" /\ request.raw = <<>>)
WantsTexts == V2 /\ ~RawPhase /\ request.artifacts

Going(pc) == [request EXCEPT !.pc = pc]
Unmoved == UNCHANGED <<published, before>>

-----------------------------------------------------------------------------
\* A message is appended, or its work completes.  Nothing unpublishes one.
Publish(m) ==
  /\ m \in Turns \ published
  /\ published' = published \cup {m}
  /\ UNCHANGED <<request, before>>

-----------------------------------------------------------------------------
(* The request                                                               *)

\* retrieve (direct), retrieve_tiered, retrieve_tiered_v2.
Ask(mode, policy, artifacts) ==
  /\ request.pc = "idle"
  /\ mode = "direct" => policy = "none"
  /\ mode = "tiered" => policy # "domains"
  /\ mode \in {"raw", "tiered", "direct"} => ~artifacts
  /\ request' = [Blank EXCEPT !.pc = "search", !.mode = mode, !.policy = policy,
                              !.artifacts = artifacts]
  /\ before' = published
  /\ UNCHANGED published

\* qdrant.search: the nearest points that the policy admits.  The index is a
\* store of its own: any of them, also ones whose rows are not readable.
SearchMessages ==
  /\ request.pc = "search"
  /\ \E hits \in SUBSET Admits(request.policy, Turns) :
       request' = [request EXCEPT !.pc = "hydrate", !.hits = hits]
  /\ Unmoved

MissIndex ==
  /\ request.pc = "search"
  /\ request' = IF Survives
                THEN [request EXCEPT !.pc = "hydrate", !.missed = TRUE,
                              !.told = @ \cup Told(TRUE, "vector_unavailable")]
                ELSE [Going("failed") EXCEPT !.missed = TRUE]
  /\ Unmoved

\* get_message_snippets_by_ids, then each row against window and policy.
HydrateMessages ==
  /\ request.pc = "hydrate"
  /\ LET rows == request.hits \cap published
         inTime == IF V2 THEN rows \cap Timely ELSE rows
         kept == Admits(request.policy, inTime)
     IN request' = [request EXCEPT
          !.pc = IF request.mode = "direct" THEN "answered"
                 ELSE IF ~WantsTexts THEN "recent" ELSE "search_texts",
          !.bundle.messages = kept,
          !.told = @ \cup Told(request.hits # rows, "missing_canonical_source")
                     \cup Told(kept # inTime, "policy_omission")]
  /\ Unmoved

\* search_artifact_chunks, unless the policy leaves no artifact to search for.
SearchTexts ==
  /\ request.pc = "search_texts" /\ request.policy # "no_artifacts"
  /\ \E hits \in SUBSET Admits(request.policy, Texts) :
       request' = [request EXCEPT !.pc = "hydrate_texts", !.hits = @ \cup hits]
  /\ Unmoved

SkipTexts ==
  /\ request.pc = "search_texts" /\ request.policy = "no_artifacts"
  /\ request' = [Going("hydrate_texts") EXCEPT
                   !.told = @ \cup Told(TRUE, "artifact_policy_empty")]
  /\ Unmoved

MissTexts ==
  /\ request.pc = "search_texts" /\ request.policy # "no_artifacts"
  /\ request' = [Going("hydrate_texts") EXCEPT !.missed = TRUE,
                   !.told = @ \cup Told(TRUE, "artifact_retrieval_unavailable")]
  /\ Unmoved

\* get_derived_text_snippets_by_ids: rows still active, of completed artifacts.
HydrateTexts ==
  /\ request.pc = "hydrate_texts"
  /\ LET hits == request.hits \cap Texts
     IN \E rows \in SUBSET hits :
          LET kept == Admits(request.policy, rows \cap Timely)
          IN request' = [Going("check") EXCEPT
               !.pending = kept,
               !.told = @ \cup Told(hits # rows, "missing_derivative_source")
                          \cup Told(kept # rows \cap Timely, "policy_omission")]
  /\ Unmoved

\* _validate_source_refs: a lookup that fails counts as a source that is away.
CheckSources(t) ==
  /\ request.pc = "check" /\ t \in request.pending
  /\ \E available \in {TRUE, FALSE} :
       /\ available => t \in Sourced
       /\ request' = [request EXCEPT
            !.pending = @ \ {t},
            !.bundle.texts = IF available THEN @ \cup {t} ELSE @,
            !.told = @ \cup Told(~available, "source_not_available")]
  /\ Unmoved

ReadRecent ==
  /\ request.pc \in {"check", "recent"} /\ request.pending = {}
  /\ request' = [request EXCEPT
       !.pc = IF V2 THEN "freshness" ELSE "answered",
       !.bundle.recent = RecentRows]
  /\ Unmoved

\* get_memory_items_for_source_refs, then the domains asked for.  A compare
\* request sets the raw bundle aside and builds the augmented one.
Within(policy, S) == IF policy = "domains" THEN S \ Foreign ELSE S

ReadFreshness ==
  /\ request.pc = "freshness"
  /\ \E marked \in SUBSET Records :
       /\ Restricted \subseteq marked
       /\ LET b == request.bundle
              whole == [messages |-> Within(request.policy, b.messages),
                        recent |-> Within(request.policy, b.recent),
                        texts |-> Within(request.policy, b.texts),
                        qualified |-> marked \cap Displayed(b)]
          IN request' = IF RawPhase /\ request.mode = "compare"
                        THEN [request EXCEPT !.pc = "search", !.bundle = EmptyBundle,
                                !.hits = {}, !.missed = FALSE, !.told = {},
                                !.raw = <<whole, request.told>>]
                        ELSE [request EXCEPT !.pc = "answered", !.bundle = whole]
  /\ Unmoved

\* A statement fails: the request does, unless a raw bundle is there to fall
\* back on.
LoseStore ==
  /\ request.pc \in {"hydrate", "hydrate_texts", "recent", "check", "freshness"}
  /\ request.pc = "hydrate" => request.hits # {}
  /\ request.pc = "hydrate_texts" => request.hits \cap Texts # {}
  /\ request.pc = "check" => request.pending = {}
  /\ request' = IF request.raw # <<>>
                THEN [request EXCEPT !.pc = "answered", !.pending = {},
                        !.bundle = request.raw[1],
                        !.told = request.raw[2] \cup {"augmented_failed"}, !.lost = TRUE]
                ELSE [Going("failed") EXCEPT !.lost = TRUE]
  /\ Unmoved

\* The answer is sent; its trace is part of ClaimHistory.
Reply ==
  /\ request.pc \in {"answered", "failed"}
  /\ request' = Blank
  /\ before' = {}
  /\ UNCHANGED published

RetrievalNext ==
  \/ \E m \in Turns : Publish(m)
  \/ \E t \in Texts : CheckSources(t)
  \/ \E mode \in Modes \cup {"tiered", "direct"}, policy \in Policies,
        artifacts \in BOOLEAN : Ask(mode, policy, artifacts)
  \/ SearchMessages \/ MissIndex \/ HydrateMessages
  \/ SearchTexts \/ SkipTexts \/ MissTexts \/ HydrateTexts
  \/ ReadRecent \/ ReadFreshness \/ LoseStore \/ Reply

RetrievalSpec == RetrievalInit /\ [][RetrievalNext]_retrievalVars

-----------------------------------------------------------------------------
RetrievalTypeOK == /\ published \in SUBSET Turns /\ before \in SUBSET Turns
                   /\ request \in Request

Answered == request.pc = "answered"

\* Whatever happens to index, artifacts and sources while a request is served,
\* an answer shows every message that was canonical when the request began and
\* that the request may see, and a request fails for the store alone.
RecentIsKept ==
  /\ (Answered /\ request.mode # "direct") =>
       Within(request.policy, Admits(request.policy, before))
         \subseteq request.bundle.recent
  /\ (request.pc = "failed" /\ V2) => request.lost

\* Under a mandatory policy no answer, fallbacks included, shows a record that
\* the policy does not allow, and none outside the domains asked for.
AnswersAreContained ==
  Answered => LET shown == Displayed(request.bundle)
              IN /\ Contained(request.policy) => shown \subseteq Permitted
                 /\ request.policy = "domains" => shown \cap Foreign = {}

\* An answer tells what it leaves out and what it shows all the same: the
\* diagnostics give a reason when the index was away or a hit inside the window
\* is missing, and a record whose memory item is stale, demoted or replaced
\* throughout is qualified.
AnswersTell ==
  (Answered /\ V2 /\ ~request.lost) =>
    /\ Restricted \cap Displayed(request.bundle) \subseteq request.bundle.qualified
    /\ \/ ~request.missed /\ Within(request.policy, request.hits \cap Timely)
                               \subseteq Displayed(request.bundle)
       \/ request.told # {}

\* The three are inductive with what is known before a request is answered: of
\* the bundle so far, and of the raw bundle set aside to fall back on.
Kept(b) == Within(request.policy, Admits(request.policy, before)) \subseteq b.recent
Allowed(S) == Contained(request.policy) => S \subseteq Permitted
Inside(b) == request.policy = "domains" => Displayed(b) \cap Foreign = {}

PhasesFit ==
  /\ request.pc # "idle" => before \subseteq published
  /\ request.mode = "direct" => request.policy = "none"
  /\ request.mode = "tiered" => request.policy # "domains"
  /\ request.pc \in {"search_texts", "hydrate_texts", "check", "freshness"} => V2
  /\ request.pc = "recent" => request.mode # "direct"
  /\ request.pc = "failed" => request.lost \/ ~V2

BundleIsSound ==
  /\ Allowed(Displayed(request.bundle)) /\ Allowed(request.pending)
  /\ request.pc \in {"freshness", "answered"} /\ request.mode # "direct"
       => Kept(request.bundle)
  /\ Answered => Inside(request.bundle)
  /\ request.raw # <<>> =>
       /\ request.mode = "compare"
       /\ Kept(request.raw[1]) /\ Inside(request.raw[1]) /\ Allowed(Displayed(request.raw[1]))

\* As long as nothing was told, every hit inside the window is still there.
NothingIsLost ==
  /\ V2 /\ request.missed => request.told # {}
  /\ request.pc \in {"search", "hydrate", "search_texts", "recent"} => request.hits \subseteq Turns
  /\ V2 /\ request.told = {} =>
       /\ request.pc \in {"search_texts", "hydrate_texts", "check", "recent", "freshness"} =>
            request.hits \cap Turns \cap Timely \subseteq request.bundle.messages
       /\ request.pc \in {"check", "freshness"} =>
            request.hits \cap Texts \cap Timely \subseteq request.pending \cup request.bundle.texts
  /\ request.pc = "freshness" => request.pending = {}

RetrievalInv == RetrievalTypeOK /\ PhasesFit /\ BundleIsSound /\ NothingIsLost /\ AnswersTell
=============================================================================
