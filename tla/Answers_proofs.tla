--------------------------- MODULE Answers_proofs ---------------------------
(* What answers hold and tell, for any messages, texts, tags and policies,   *)
(* what is decided on any scores, and the links, statuses and audit trail of *)
(* any memory items.                                                         *)
EXTENDS MemoryItems, Retrieval, RetrievalPolicy, Decisions, FiniteSetTheorems,
        TLAPS

(* Retrieval.                                                                *)

(* Small facts. *)

(* A policy admits some of the records, and fewer of fewer. *)
LEMMA AdmitsLess ==
  ASSUME NEW pol, NEW S, NEW T, S \subseteq T
  PROVE  /\ Admits(pol, S) \subseteq S /\ Admits(pol, S) \subseteq Admits(pol, T)
         /\ Contained(pol) => Admits(pol, S) \subseteq Permitted
         /\ Admits(pol, S) # S => Contained(pol)
  BY DEF Admits

(* Narrowing to the domains asked for keeps what lies inside them. *)
LEMMA WithinLess ==
  ASSUME NEW pol, NEW S, NEW T, S \subseteq T
  PROVE  /\ Within(pol, S) \subseteq S /\ Within(pol, S) \subseteq Within(pol, T)
         /\ pol = "domains" => Within(pol, S) \cap Foreign = {}
         /\ pol # "domains" => Within(pol, S) = S
  BY DEF Within

(* What is displayed of an empty bundle. *)
LEMMA NothingDisplayed == /\ Displayed(EmptyBundle) = {} /\ EmptyBundle \in Bundle
                          /\ Blank \in Request
  BY DEF Displayed, EmptyBundle, Bundle, Blank, Request, Modes, Policies

-----------------------------------------------------------------------------
(* The invariant. *)

LEMMA RetrievalInitInv == RetrievalInit => RetrievalInv
  BY NothingDisplayed
  DEF RetrievalInit, RetrievalInv, RetrievalTypeOK, PhasesFit, BundleIsSound, NothingIsLost,
      AnswersTell, Answered, Blank, Allowed, Inside, Kept, V2, Modes

LEMMA PublishInv ==
  ASSUME RetrievalInv, NEW m \in Turns, Publish(m)
  PROVE  RetrievalInv'
  <1> USE DEF RetrievalInv
  <1>1. /\ UNCHANGED <<request, before>> /\ published \subseteq published'
        /\ published' \in SUBSET Turns
    BY DEF Publish, RetrievalTypeOK
  <1>2. RetrievalTypeOK' /\ PhasesFit'
    BY <1>1 DEF RetrievalTypeOK, PhasesFit, V2
  <1>3. BundleIsSound'
    BY <1>1 DEF BundleIsSound, Answered, Allowed, Inside, Kept
  <1>4. NothingIsLost' /\ AnswersTell'
    BY <1>1 DEF NothingIsLost, AnswersTell, Answered, V2
  <1> QED BY <1>2, <1>3, <1>4

LEMMA AskInv ==
  ASSUME RetrievalInv, NEW mode \in Modes \cup {"tiered", "direct"}, NEW pol \in Policies,
         NEW artifacts \in BOOLEAN, Ask(mode, pol, artifacts)
  PROVE  RetrievalInv'
  <1>1. /\ request' \in Request /\ request'.pc = "search" /\ request'.mode = mode
        /\ request'.policy = pol /\ request'.hits = {} /\ request'.pending = {}
        /\ request'.bundle = EmptyBundle /\ request'.raw = <<>> /\ ~request'.missed
    BY NothingDisplayed DEF Ask, Blank, Request
  <1>2. published' = published /\ before' = published
    BY DEF Ask
  <1> QED BY <1>1, <1>2, NothingDisplayed
      DEF Ask, RetrievalInv, RetrievalTypeOK, PhasesFit, BundleIsSound, NothingIsLost,
          AnswersTell, Answered, Allowed, V2

(* Steps that leave bundle, raw bundle and history alone. *)
LEMMA SearchInv ==
  ASSUME RetrievalInv,
         SearchMessages \/ MissIndex \/ SearchTexts \/ SkipTexts \/ MissTexts
  PROVE  RetrievalInv'
  <1> USE DEF RetrievalInv, RetrievalTypeOK
  <1>1. CASE SearchMessages
    <2>1. PICK hits \in SUBSET Admits(request.policy, Turns) :
            request' = [request EXCEPT !.pc = "hydrate", !.hits = hits]
      BY <1>1 DEF SearchMessages
    <2>2. hits \subseteq Turns /\ request.pc = "search" /\ UNCHANGED <<published, before>>
      BY <1>1, AdmitsLess DEF SearchMessages, Unmoved
    <2>3. request' \in Request
      BY <2>1, <2>2 DEF Request, Records
    <2> QED BY <2>1, <2>2, <2>3
        DEF Request, PhasesFit, BundleIsSound, NothingIsLost, AnswersTell, Answered,
            Allowed, Inside, Kept, V2
  <1>2. CASE MissIndex
    <2>1. /\ request.pc = "search" /\ UNCHANGED <<published, before>>
          /\ \/ /\ V2
                /\ request' = [request EXCEPT !.pc = "hydrate", !.missed = TRUE,
                                              !.told = request.told \cup {"vector_unavailable"}]
             \/ /\ ~V2
                /\ request' = [request EXCEPT !.pc = "failed", !.missed = TRUE]
      BY <1>2 DEF MissIndex, Unmoved, Survives, Told, Going
    <2> DEFINE heard == request.told \cup {"vector_unavailable"}
    <2>2. heard \in SUBSET Reasons /\ heard # {}
      BY DEF Request, Reasons
    <2>3. \/ V2 /\ request' = [request EXCEPT !.pc = "hydrate", !.missed = TRUE, !.told = heard]
          \/ ~V2 /\ request' = [request EXCEPT !.pc = "failed", !.missed = TRUE]
      BY <2>1
    <2> HIDE DEF heard
    <2>4. request' \in Request
      <3>1. [request EXCEPT !.pc = "hydrate", !.missed = TRUE, !.told = heard] \in Request
        BY <2>2 DEF Request
      <3>2. [request EXCEPT !.pc = "failed", !.missed = TRUE] \in Request
        BY DEF Request
      <3> QED BY <2>3, <3>1, <3>2
    <2>5. /\ request'.hits = request.hits /\ request'.bundle = request.bundle
          /\ request'.mode = request.mode /\ request'.policy = request.policy
          /\ request'.raw = request.raw /\ request'.pending = request.pending
          /\ request'.lost = request.lost
          /\ request'.pc \in {"hydrate", "failed"} /\ (request'.pc = "failed" => ~V2)
          /\ V2 => request'.told = heard
      BY <2>3 DEF Request
    <2>6. PhasesFit'
      BY <2>1, <2>5 DEF PhasesFit, V2
    <2>7. BundleIsSound'
      BY <2>1, <2>5 DEF BundleIsSound, Answered, Allowed, Inside, Kept
    <2>8. NothingIsLost' /\ AnswersTell'
      BY <2>1, <2>2, <2>5 DEF NothingIsLost, AnswersTell, Answered, V2
    <2> QED BY <2>1, <2>4, <2>6, <2>7, <2>8
  <1>3. CASE SearchTexts
    <2>1. PICK hits \in SUBSET Admits(request.policy, Texts) :
            request' = [request EXCEPT !.pc = "hydrate_texts", !.hits = request.hits \cup hits]
      BY <1>3 DEF SearchTexts
    <2>2. hits \subseteq Texts /\ request.pc = "search_texts" /\ UNCHANGED <<published, before>>
      BY <1>3, AdmitsLess DEF SearchTexts, Unmoved
    <2>3. request' \in Request /\ hits \cap Turns = {}
      BY <2>1, <2>2, RecordsAssumption DEF Request, Records
    <2> QED BY <2>1, <2>2, <2>3
        DEF Request, PhasesFit, BundleIsSound, NothingIsLost, AnswersTell, Answered,
            Allowed, Inside, Kept, V2
  <1>4. CASE SkipTexts \/ MissTexts
    <2>1. PICK reason \in {"artifact_policy_empty", "artifact_retrieval_unavailable"} :
            \/ request' = [Going("hydrate_texts") EXCEPT
                             !.told = Going("hydrate_texts").told \cup Told(TRUE, reason)]
            \/ request' = [Going("hydrate_texts") EXCEPT !.missed = TRUE,
                             !.told = Going("hydrate_texts").told \cup Told(TRUE, reason)]
      BY <1>4 DEF SkipTexts, MissTexts
    <2> DEFINE heard == request.told \cup {reason}
    <2>2. heard \in SUBSET Reasons /\ heard # {}
      BY DEF Request, Reasons
    <2>3. Going("hydrate_texts").told = request.told /\ Told(TRUE, reason) = {reason}
      BY DEF Going, Request, Told
    <2>4. \/ request' = [Going("hydrate_texts") EXCEPT !.told = heard]
          \/ request' = [Going("hydrate_texts") EXCEPT !.missed = TRUE, !.told = heard]
      BY <2>1, <2>3
    <2>5. request.pc = "search_texts" /\ UNCHANGED <<published, before>>
      BY <1>4 DEF SkipTexts, MissTexts, Unmoved
    <2> HIDE DEF heard
    <2>6. request' \in Request
      <3>1. Going("hydrate_texts") \in Request
        BY DEF Request, Going
      <3>2. [Going("hydrate_texts") EXCEPT !.told = heard] \in Request
        BY <2>2, <3>1 DEF Request
      <3>3. [Going("hydrate_texts") EXCEPT !.missed = TRUE, !.told = heard] \in Request
        BY <2>2, <3>1 DEF Request
      <3> QED BY <2>4, <3>2, <3>3
    <2>7. /\ request'.hits = request.hits /\ request'.bundle = request.bundle
          /\ request'.mode = request.mode /\ request'.policy = request.policy
          /\ request'.raw = request.raw /\ request'.pending = request.pending
          /\ request'.lost = request.lost /\ request'.pc = "hydrate_texts"
          /\ request'.told = heard
      BY <2>4 DEF Request, Going
    <2>8. PhasesFit'
      BY <2>5, <2>7 DEF PhasesFit, V2
    <2>9. BundleIsSound'
      BY <2>5, <2>7 DEF BundleIsSound, Answered, Allowed, Inside, Kept
    <2>10. NothingIsLost' /\ AnswersTell'
      BY <2>2, <2>5, <2>7 DEF NothingIsLost, AnswersTell, Answered, V2
    <2> QED BY <2>5, <2>6, <2>8, <2>9, <2>10
  <1> QED BY <1>1, <1>2, <1>3, <1>4

LEMMA HydrateMessagesInv ==
  ASSUME RetrievalInv, HydrateMessages
  PROVE  RetrievalInv'
  <1> USE DEF RetrievalInv, RetrievalTypeOK
  <1> DEFINE rows == request.hits \cap published
             inTime == IF V2 THEN rows \cap Timely ELSE rows
             kept == Admits(request.policy, inTime)
             heard == request.told \cup Told(request.hits # rows, "missing_canonical_source")
                                  \cup Told(kept # inTime, "policy_omission")
             pc == IF request.mode = "direct" THEN "answered"
                   ELSE IF ~WantsTexts THEN "recent" ELSE "search_texts"
  <1>1. /\ request.pc = "hydrate" /\ UNCHANGED <<published, before>>
        /\ request' = [request EXCEPT !.pc = pc, !.bundle.messages = kept, !.told = heard]
    BY DEF HydrateMessages, Unmoved
  <1>2. /\ kept \subseteq published /\ kept \subseteq request.hits /\ kept \in SUBSET Turns
        /\ Contained(request.policy) => kept \subseteq Permitted
        /\ Contained(request.policy) \/ kept = inTime
    BY AdmitsLess
  <1>3. /\ heard \in SUBSET Reasons /\ request.told \subseteq heard
        /\ heard = {} => request.hits = rows /\ kept = inTime
    BY DEF Told, Request, Reasons
  <1>4. /\ pc \in {"answered", "recent", "search_texts"}
        /\ pc = "answered" <=> request.mode = "direct"
        /\ pc = "search_texts" => V2
    BY DEF WantsTexts
  <1> HIDE DEF kept, heard, pc
  <1>5. /\ request'.pc = pc /\ request'.told = heard /\ request'.hits = request.hits
        /\ request'.mode = request.mode /\ request'.policy = request.policy
        /\ request'.missed = request.missed /\ request'.pending = request.pending
        /\ request'.raw = request.raw /\ request'.lost = request.lost
        /\ request'.bundle = [request.bundle EXCEPT !.messages = kept]
        /\ request'.artifacts = request.artifacts
    BY <1>1 DEF Request
  <1>6. request' \in Request
    BY <1>1, <1>2, <1>3, <1>4 DEF Request, Bundle
  <1>7. /\ Displayed(request.bundle)' \subseteq Displayed(request.bundle) \cup kept
        /\ request'.bundle.messages = kept
    BY <1>5 DEF Displayed, Request, Bundle
  <1>8. PhasesFit'
    BY <1>1, <1>4, <1>5 DEF PhasesFit, V2
  <1>9. BundleIsSound'
    <2>1. Allowed(Displayed(request.bundle))' /\ Allowed(request.pending)'
      BY <1>2, <1>5, <1>7 DEF BundleIsSound, Allowed
    <2>2. Answered' => Inside(request.bundle)'
      BY <1>4, <1>5 DEF Answered, Inside, PhasesFit
    <2>3. request'.pc \in {"freshness", "answered"} => request'.mode = "direct"
      BY <1>4, <1>5
    <2>4. request'.raw # <<>> =>
            /\ request'.mode = "compare" /\ Kept(request.raw[1])'
            /\ Inside(request.raw[1])' /\ Allowed(Displayed(request.raw[1]))'
      BY <1>1, <1>5 DEF BundleIsSound, Kept, Inside, Allowed
    <2> QED BY <2>1, <2>2, <2>3, <2>4 DEF BundleIsSound
  <1>10. NothingIsLost'
    BY <1>1, <1>3, <1>4, <1>5, <1>7 DEF NothingIsLost, V2
  <1>11. AnswersTell'
    BY <1>4, <1>5 DEF AnswersTell, Answered, V2, Modes
  <1> QED BY <1>1, <1>6, <1>8, <1>9, <1>10, <1>11

LEMMA HydrateTextsInv ==
  ASSUME RetrievalInv, HydrateTexts
  PROVE  RetrievalInv'
  <1> USE DEF RetrievalInv, RetrievalTypeOK
  <1> DEFINE hits == request.hits \cap Texts
  <1>1. PICK rows \in SUBSET hits :
          LET kept == Admits(request.policy, rows \cap Timely)
          IN request' = [Going("check") EXCEPT
               !.pending = kept,
               !.told = Going("check").told
                          \cup Told(hits # rows, "missing_derivative_source")
                          \cup Told(kept # rows \cap Timely, "policy_omission")]
    BY DEF HydrateTexts
  <1> DEFINE kept == Admits(request.policy, rows \cap Timely)
             heard == request.told \cup Told(hits # rows, "missing_derivative_source")
                                  \cup Told(kept # rows \cap Timely, "policy_omission")
  <1>2. request.pc = "hydrate_texts" /\ UNCHANGED <<published, before>>
    BY DEF HydrateTexts, Unmoved
  <1>3. kept \in SUBSET Texts /\ (Contained(request.policy) => kept \subseteq Permitted)
    BY AdmitsLess
  <1>4. /\ heard \in SUBSET Reasons /\ request.told \subseteq heard
        /\ heard = {} => hits = rows /\ kept = rows \cap Timely
    BY DEF Told, Request, Reasons
  <1>5. request' = [request EXCEPT !.pc = "check", !.pending = kept, !.told = heard]
    <2>1. Going("check").told = request.told
      BY DEF Going, Request
    <2>2. request' = [Going("check") EXCEPT !.pending = kept, !.told = heard]
      BY <1>1, <2>1
    <2> HIDE DEF kept, heard
    <2> QED BY <2>2 DEF Going
  <1> HIDE DEF kept, heard
  <1>6. /\ request' \in Request /\ request'.pc = "check" /\ request'.pending = kept
        /\ request'.told = heard /\ request'.hits = request.hits
        /\ request'.mode = request.mode /\ request'.policy = request.policy
        /\ request'.missed = request.missed /\ request'.bundle = request.bundle
        /\ request'.raw = request.raw /\ request'.lost = request.lost
    BY <1>3, <1>4, <1>5 DEF Request
  <1>7. PhasesFit' /\ AnswersTell'
    BY <1>2, <1>6 DEF PhasesFit, AnswersTell, Answered, V2
  <1>8. BundleIsSound'
    <2>1. Allowed(Displayed(request.bundle))' /\ Allowed(request.pending)'
      BY <1>3, <1>6 DEF BundleIsSound, Allowed
    <2>2. request'.raw # <<>> =>
            /\ request'.mode = "compare" /\ Kept(request.raw[1])'
            /\ Inside(request.raw[1])' /\ Allowed(Displayed(request.raw[1]))'
      BY <1>2, <1>6 DEF BundleIsSound, Kept, Inside, Allowed
    <2> QED BY <1>6, <2>1, <2>2 DEF BundleIsSound, Answered
  <1>9. NothingIsLost'
    <2>1. heard = {} => request.hits \cap Texts \cap Timely \subseteq kept
      BY <1>4
    <2> QED BY <1>2, <1>4, <1>6, <2>1 DEF NothingIsLost, V2
  <1> QED BY <1>2, <1>6, <1>7, <1>8, <1>9

LEMMA CheckSourcesInv ==
  ASSUME RetrievalInv, NEW t \in Texts, CheckSources(t)
  PROVE  RetrievalInv'
  <1> USE DEF RetrievalInv, RetrievalTypeOK
  <1>1. PICK available \in {TRUE, FALSE} :
          request' = [request EXCEPT
            !.pending = request.pending \ {t},
            !.bundle.texts = IF available THEN request.bundle.texts \cup {t}
                             ELSE request.bundle.texts,
            !.told = request.told \cup Told(~available, "source_not_available")]
    BY DEF CheckSources
  <1> DEFINE texts == IF available THEN request.bundle.texts \cup {t} ELSE request.bundle.texts
             heard == request.told \cup Told(~available, "source_not_available")
  <1>2. request.pc = "check" /\ t \in request.pending /\ UNCHANGED <<published, before>>
    BY DEF CheckSources, Unmoved
  <1>3. /\ texts \in SUBSET Texts /\ texts \subseteq request.bundle.texts \cup {t}
        /\ request.bundle.texts \subseteq texts
        /\ heard \in SUBSET Reasons /\ request.told \subseteq heard
        /\ heard = {} => t \in texts
    BY DEF Told, Request, Bundle, Reasons
  <1>4. request' = [request EXCEPT !.pending = request.pending \ {t},
                                   !.bundle.texts = texts, !.told = heard]
    BY <1>1
  <1> HIDE DEF texts, heard
  <1>5. /\ request'.pc = "check" /\ request'.told = heard /\ request'.hits = request.hits
        /\ request'.mode = request.mode /\ request'.policy = request.policy
        /\ request'.missed = request.missed /\ request'.pending = request.pending \ {t}
        /\ request'.raw = request.raw /\ request'.lost = request.lost
        /\ request'.bundle = [request.bundle EXCEPT !.texts = texts]
    BY <1>2, <1>4 DEF Request
  <1>6. request' \in Request
    BY <1>3, <1>4 DEF Request, Bundle
  <1>7. /\ Displayed(request.bundle)' \subseteq Displayed(request.bundle) \cup request.pending
        /\ request'.bundle.texts = texts /\ request'.bundle.messages = request.bundle.messages
    BY <1>2, <1>3, <1>5 DEF Displayed, Request, Bundle
  <1>8. PhasesFit' /\ AnswersTell'
    BY <1>2, <1>5 DEF PhasesFit, AnswersTell, Answered, V2
  <1>9. BundleIsSound'
    BY <1>2, <1>5, <1>7 DEF BundleIsSound, Answered, Allowed, Kept, Inside
  <1>10. NothingIsLost'
    BY <1>2, <1>3, <1>5, <1>7 DEF NothingIsLost, V2
  <1> QED BY <1>2, <1>6, <1>8, <1>9, <1>10

LEMMA ReadRecentInv ==
  ASSUME RetrievalInv, ReadRecent
  PROVE  RetrievalInv'
  <1> USE DEF RetrievalInv, RetrievalTypeOK
  <1> DEFINE rows == Admits(request.policy, published)
             pc == IF V2 THEN "freshness" ELSE "answered"
  <1>1. /\ request.pc \in {"check", "recent"} /\ request.pending = {}
        /\ UNCHANGED <<published, before>>
        /\ request' = [request EXCEPT !.pc = pc, !.bundle.recent = rows]
    BY DEF ReadRecent, RecentRows, Unmoved
  <1>2. /\ rows \in SUBSET Turns
        /\ Contained(request.policy) => rows \subseteq Permitted
        /\ Admits(request.policy, before) \subseteq rows
    BY <1>1, AdmitsLess DEF PhasesFit
  <1>3. Within(request.policy, Admits(request.policy, before)) \subseteq rows
    BY <1>2, WithinLess
  <1>4. /\ pc \in {"freshness", "answered"} /\ (pc = "freshness" <=> V2)
    OBVIOUS
  <1> HIDE DEF rows, pc
  <1>5. /\ request'.pc = pc /\ request'.told = request.told /\ request'.hits = request.hits
        /\ request'.mode = request.mode /\ request'.policy = request.policy
        /\ request'.missed = request.missed /\ request'.pending = {}
        /\ request'.raw = request.raw /\ request'.lost = request.lost
        /\ request'.bundle = [request.bundle EXCEPT !.recent = rows]
    BY <1>1 DEF Request
  <1>6. request' \in Request
    <2>1. request.bundle \in Bundle /\ request'.bundle \in Bundle
      BY <1>2, <1>5 DEF Request, Bundle
    <2>2. request' = [request EXCEPT !.pc = pc, !.bundle = request'.bundle]
      BY <1>1, <1>5 DEF Request
    <2> QED BY <1>4, <2>1, <2>2 DEF Request
  <1>7. /\ Displayed(request.bundle)' \subseteq Displayed(request.bundle) \cup rows
        /\ request'.bundle.recent = rows /\ request'.bundle.messages = request.bundle.messages
        /\ request'.bundle.texts = request.bundle.texts
    BY <1>5 DEF Displayed, Request, Bundle
  <1>8. PhasesFit'
    BY <1>1, <1>4, <1>5 DEF PhasesFit, V2
  <1>9. BundleIsSound'
    <2>1. request.mode = "direct" \/ request.mode = "tiered" \/ V2
      BY DEF V2, Modes, Request
    <2>2. ~V2 => request.policy # "domains"
      BY <2>1 DEF PhasesFit
    <2>3. Answered' => Inside(request.bundle)'
      BY <1>4, <1>5, <2>2 DEF Answered, Inside
    <2>4. Kept(request.bundle)'
      BY <1>1, <1>3, <1>5, <1>7 DEF Kept
    <2>5. Allowed(Displayed(request.bundle))' /\ Allowed(request.pending)'
      BY <1>2, <1>5, <1>7 DEF BundleIsSound, Allowed
    <2>6. request'.raw # <<>> =>
            /\ request'.mode = "compare" /\ Kept(request.raw[1])'
            /\ Inside(request.raw[1])' /\ Allowed(Displayed(request.raw[1]))'
      BY <1>1, <1>5 DEF BundleIsSound, Kept, Inside, Allowed
    <2> QED BY <2>3, <2>4, <2>5, <2>6 DEF BundleIsSound
  <1>10. NothingIsLost'
    <2>1. request.told = {} /\ V2 => request.hits \cap Texts \cap Timely \subseteq request.bundle.texts
      BY <1>1, RecordsAssumption DEF NothingIsLost
    <2> QED BY <1>1, <1>4, <1>5, <1>7, <2>1 DEF NothingIsLost, V2
  <1>11. AnswersTell'
    BY <1>4, <1>5 DEF AnswersTell, Answered, V2
  <1> QED BY <1>1, <1>6, <1>8, <1>9, <1>10, <1>11

LEMMA ReadFreshnessInv ==
  ASSUME RetrievalInv, ReadFreshness
  PROVE  RetrievalInv'
  <1> USE DEF RetrievalInv, RetrievalTypeOK
  <1> DEFINE b == request.bundle
  <1>1. PICK marked \in SUBSET Records :
          /\ Restricted \subseteq marked
          /\ LET whole == [messages |-> Within(request.policy, b.messages),
                           recent |-> Within(request.policy, b.recent),
                           texts |-> Within(request.policy, b.texts),
                           qualified |-> marked \cap Displayed(b)]
             IN request' = IF RawPhase /\ request.mode = "compare"
                           THEN [request EXCEPT !.pc = "search", !.bundle = EmptyBundle,
                                   !.hits = {}, !.missed = FALSE, !.told = {},
                                   !.raw = <<whole, request.told>>]
                           ELSE [request EXCEPT !.pc = "answered", !.bundle = whole]
    BY DEF ReadFreshness
  <1> DEFINE whole == [messages |-> Within(request.policy, b.messages),
                       recent |-> Within(request.policy, b.recent),
                       texts |-> Within(request.policy, b.texts),
                       qualified |-> marked \cap Displayed(b)]
  <1>2. /\ request.pc = "freshness" /\ UNCHANGED <<published, before>> /\ V2
        /\ request.mode # "direct" /\ request.pending = {}
    BY DEF ReadFreshness, Unmoved, PhasesFit, V2, Modes, NothingIsLost
  <1>3. /\ whole \in Bundle /\ Displayed(whole) \subseteq Displayed(b)
        /\ whole.qualified = marked \cap Displayed(b)
        /\ Displayed(whole) = Within(request.policy, Displayed(b))
    BY WithinLess DEF Bundle, Request, Displayed, Within, Records
  <1>4. Allowed(Displayed(whole)) /\ Inside(whole)
    <2>1. Allowed(Displayed(b))
      BY DEF BundleIsSound
    <2>2. Allowed(Displayed(whole))
      BY <1>3, <2>1 DEF Allowed
    <2>3. Inside(whole)
      BY <1>3, WithinLess DEF Inside
    <2> QED BY <2>2, <2>3
  <1>5. Kept(whole)
    <2>1. Within(request.policy, Admits(request.policy, before)) \subseteq b.recent
      BY <1>2 DEF BundleIsSound, Kept
    <2> QED BY <2>1 DEF Kept, Within
  <1> HIDE DEF whole
  <1>6. CASE RawPhase /\ request.mode = "compare"
    <2>1. request' = [request EXCEPT !.pc = "search", !.bundle = EmptyBundle,
                        !.hits = {}, !.missed = FALSE, !.told = {},
                        !.raw = <<whole, request.told>>]
      BY <1>1, <1>6 DEF whole
    <2>2. /\ request'.pc = "search" /\ request'.bundle = EmptyBundle /\ request'.hits = {}
          /\ ~request'.missed /\ request'.raw = <<whole, request.told>>
          /\ request'.mode = "compare" /\ request'.policy = request.policy
          /\ request'.pending = {} /\ request'.lost = request.lost
      BY <1>2, <1>6, <2>1 DEF Request
    <2>3. request' \in Request
      BY <1>3, <2>1, NothingDisplayed DEF Request
    <2>4. PhasesFit' /\ AnswersTell' /\ NothingIsLost'
      BY <1>2, <2>2 DEF PhasesFit, AnswersTell, Answered, NothingIsLost, V2
    <2>5. BundleIsSound'
      <3>1. request'.raw[1] = whole
        BY <2>2
      <3> QED BY <1>2, <1>4, <1>5, <2>2, <3>1, NothingDisplayed
          DEF BundleIsSound, Answered, Allowed, Kept, Inside
    <2> QED BY <1>2, <2>3, <2>4, <2>5
  <1>7. CASE ~(RawPhase /\ request.mode = "compare")
    <2>1. request' = [request EXCEPT !.pc = "answered", !.bundle = whole]
      BY <1>1, <1>7 DEF whole
    <2>2. /\ request'.pc = "answered" /\ request'.bundle = whole
          /\ request'.hits = request.hits /\ request'.told = request.told
          /\ request'.missed = request.missed /\ request'.raw = request.raw
          /\ request'.mode = request.mode /\ request'.policy = request.policy
          /\ request'.pending = {} /\ request'.lost = request.lost
      BY <1>2, <2>1 DEF Request
    <2>3. request' \in Request
      BY <1>3, <2>1 DEF Request
    <2>4. PhasesFit' /\ NothingIsLost'
      BY <1>2, <2>2 DEF PhasesFit, NothingIsLost, V2
    <2>5. BundleIsSound'
      BY <1>2, <1>4, <1>5, <2>2 DEF BundleIsSound, Answered, Allowed, Kept, Inside
    <2>6. AnswersTell'
      <3>1. Restricted \cap Displayed(whole) \subseteq whole.qualified
        BY <1>1, <1>3
      <3>2. request.told = {} => request.hits \cap Timely \subseteq Displayed(b)
        <4>1. request.hits \subseteq Turns \cup Texts
          BY DEF Request, Records
        <4> QED BY <1>2, <4>1 DEF NothingIsLost, Displayed
      <3>3. request.told = {} =>
              Within(request.policy, request.hits \cap Timely) \subseteq Displayed(whole)
        BY <1>3, <3>2 DEF Within
      <3>4. request.missed => request.told # {}
        BY <1>2 DEF NothingIsLost
      <3> QED BY <2>2, <3>1, <3>3, <3>4 DEF AnswersTell
    <2> QED BY <1>2, <2>3, <2>4, <2>5, <2>6
  <1> QED BY <1>6, <1>7

LEMMA LoseStoreInv ==
  ASSUME RetrievalInv, LoseStore
  PROVE  RetrievalInv'
  <1> USE DEF RetrievalInv, RetrievalTypeOK
  <1>1. UNCHANGED <<published, before>> /\ request.pc # "idle"
    BY DEF LoseStore, Unmoved
  <1>2. CASE request.raw # <<>>
    <2>1. request.raw \in Bundle \X SUBSET Reasons
      BY <1>2 DEF Request
    <2>2. request' = [request EXCEPT !.pc = "answered", !.pending = {},
                        !.bundle = request.raw[1],
                        !.told = request.raw[2] \cup {"augmented_failed"}, !.lost = TRUE]
      BY <1>2 DEF LoseStore
    <2>3. /\ request'.pc = "answered" /\ request'.bundle = request.raw[1]
          /\ request'.told # {} /\ request'.raw = request.raw /\ request'.pending = {}
          /\ request'.mode = request.mode /\ request'.policy = request.policy
          /\ request'.lost = TRUE
      BY <2>2 DEF Request
    <2>4. request' \in Request
      BY <2>1, <2>2 DEF Request, Reasons
    <2>5. PhasesFit' /\ AnswersTell' /\ NothingIsLost'
      BY <1>1, <2>3 DEF PhasesFit, AnswersTell, NothingIsLost, V2
    <2>6. BundleIsSound'
      BY <1>1, <1>2, <2>3 DEF BundleIsSound, Answered, Allowed, Kept, Inside
    <2> QED BY <1>1, <2>4, <2>5, <2>6
  <1>3. CASE request.raw = <<>>
    <2>1. request' = [request EXCEPT !.pc = "failed", !.lost = TRUE]
      BY <1>3 DEF LoseStore, Going
    <2>2. /\ request'.pc = "failed" /\ request'.bundle = request.bundle
          /\ request'.told = request.told /\ request'.missed = request.missed
          /\ request'.raw = request.raw /\ request'.pending = request.pending
          /\ request'.mode = request.mode /\ request'.policy = request.policy
          /\ request'.lost = TRUE
      BY <2>1 DEF Request
    <2>3. request' \in Request
      BY <2>1 DEF Request
    <2>4. PhasesFit' /\ AnswersTell' /\ NothingIsLost'
      BY <1>1, <2>2 DEF PhasesFit, AnswersTell, NothingIsLost, V2
    <2>5. BundleIsSound'
      BY <1>1, <1>3, <2>2 DEF BundleIsSound, Answered, Allowed, Kept, Inside
    <2> QED BY <1>1, <2>3, <2>4, <2>5
  <1> QED BY <1>2, <1>3

LEMMA ReplyInv ==
  ASSUME RetrievalInv, Reply
  PROVE  RetrievalInv'
  <1>1. /\ request' = Blank /\ before' = {} /\ published' = published
    BY DEF Reply
  <1> QED BY <1>1, NothingDisplayed
      DEF RetrievalInv, RetrievalTypeOK, PhasesFit, BundleIsSound, NothingIsLost,
          AnswersTell, Answered, Blank, Allowed, V2, Modes

LEMMA RetrievalNextInv == RetrievalInv /\ [RetrievalNext]_retrievalVars => RetrievalInv'
  <1> SUFFICES ASSUME RetrievalInv, [RetrievalNext]_retrievalVars PROVE RetrievalInv'
    OBVIOUS
  <1>1. CASE UNCHANGED retrievalVars
    <2>1. UNCHANGED <<published, request, before>>
      BY <1>1 DEF retrievalVars
    <2>2. BundleIsSound'
      BY <2>1 DEF RetrievalInv, BundleIsSound, Answered, Allowed, Inside, Kept
    <2> QED BY <2>1, <2>2
        DEF RetrievalInv, RetrievalTypeOK, PhasesFit, NothingIsLost, AnswersTell, Answered, V2
  <1>2. CASE RetrievalNext
    BY <1>2, PublishInv, AskInv, SearchInv, HydrateMessagesInv, HydrateTextsInv,
       CheckSourcesInv, ReadRecentInv, ReadFreshnessInv, LoseStoreInv, ReplyInv
    DEF RetrievalNext
  <1> QED BY <1>1, <1>2

-----------------------------------------------------------------------------
(* The inductive invariant of a retrieval request. *)
THEOREM RetrievalInvariant == RetrievalSpec => []RetrievalInv
  BY RetrievalInitInv, RetrievalNextInv, PTL DEF RetrievalSpec

(* No answer shows a record that the request's policy does not allow, on     *)
(* whatever path it was found and whatever failed meanwhile.                 *)
THEOREM PoliciesAreKept == RetrievalSpec => []AnswersAreContained
  <1>1. RetrievalInv => AnswersAreContained
    BY DEF RetrievalInv, BundleIsSound, AnswersAreContained, Answered, Allowed, Inside
  <1> QED BY <1>1, RetrievalInvariant, PTL

(* Every answer shows the messages that were canonical when its request      *)
(* began, and only the store can make a request fail.                        *)
THEOREM RecentMessagesAreShown == RetrievalSpec => []RecentIsKept
  <1>1. RetrievalInv => RecentIsKept
    BY DEF RetrievalInv, BundleIsSound, PhasesFit, RecentIsKept, Answered, Kept
  <1> QED BY <1>1, RetrievalInvariant, PTL

(* What an answer lacks, or shows though it is doubtful, it says.            *)
THEOREM OmissionsAreTold == RetrievalSpec => []AnswersTell
  BY RetrievalInvariant, PTL DEF RetrievalInv

-----------------------------------------------------------------------------
(* RetrievalPolicy.                                                          *)

(* Every maximum admits low records, and none restricted ones.               *)
LEMMA ThroughBelow ==
  ASSUME NEW maximum \in SensitivitySet
  PROVE  /\ "low" \in SensitivitiesThrough(maximum)
         /\ "restricted" \notin SensitivitiesThrough(maximum)
  <1>1. /\ Sensitivities[1] = "low" /\ Sensitivities[2] = "medium"
        /\ Sensitivities[3] = "high" /\ Sensitivities[4] = "restricted"
    BY DEF Sensitivities
  <1>2. \E k \in 1..4 : Sensitivities[k] = maximum
    BY <1>1 DEF SensitivitySet
  <1>3. "low" \in SensitivitiesThrough(maximum)
    BY <1>1, <1>2 DEF SensitivitiesThrough
  <1>4. \A i \in 1..3 : Sensitivities[i] # "restricted"
    BY <1>1
  <1>5. "restricted" \notin SensitivitiesThrough(maximum)
    BY <1>4 DEF SensitivitiesThrough
  <1> QED BY <1>3, <1>5

(* No scope is asked for when there are none.                                *)
LEMMA UnscopedMeansEmpty ==
  ASSUME NEW S \in SUBSET RelationScopes
  PROVE  (Cardinality(S) = 0) = (S = {})
  <1>1. IsFiniteSet(S)
    BY ScopesAssumption, FS_Subset
  <1> QED BY <1>1, FS_EmptySet

(* The clauses, the payload filter and the check, one part of the policy at  *)
(* a time.                                                                   *)
LEMMA FiltersSayTheSame ==
  ASSUME NEW p \in ContainmentPolicies, NEW m \in Metadata
  PROVE  LET messages == FilterOf(p, FALSE)
             artifacts == FilterOf(p, TRUE)
             allowed == AllowedByFilter(m, messages, FALSE)
         IN  /\ SelectedBySql(m, messages) = allowed
             /\ FoundByIndex(PointOf(m), messages) = allowed
             /\ ~artifacts.empty =>
                  FoundByIndex(PointOf(m), artifacts) = AllowedByFilter(m, artifacts, TRUE)
  <1> DEFINE messages == FilterOf(p, FALSE)
             artifacts == FilterOf(p, TRUE)
  <1>1. /\ p.artifacts.maximum \in SensitivitySet
        /\ m.sensitivity \in SensitivitySet
        /\ m.scopes \in SUBSET RelationScopes
    BY DEF ContainmentPolicies, ArtifactRules, Metadata
  <1>2. /\ messages.allowed = p.allowed /\ messages.blocked = p.blocked
        /\ messages.classes = {} /\ messages.sensitivities = {"low", "medium", "high"}
        /\ messages.projection = p.projection
    BY DEF FilterOf
  <1>3. /\ artifacts.allowed = p.allowed \cap p.artifacts.domains
        /\ artifacts.blocked = p.blocked
        /\ artifacts.classes = p.artifacts.classes \cap p.artifacts.capabilities
        /\ artifacts.sensitivities = SensitivitiesThrough(p.artifacts.maximum)
        /\ artifacts.projection = p.projection
        /\ artifacts.empty = (artifacts.allowed = {} \/ artifacts.classes = {})
    BY DEF FilterOf
  <1>4. /\ PointOf(m).domains = m.domains /\ PointOf(m).sensitivity = m.sensitivity
        /\ PointOf(m).class = m.class /\ PointOf(m).entities = m.entities
        /\ PointOf(m).relationships = m.relationships /\ PointOf(m).scopes = m.scopes
    BY DEF PointOf
  <1>5. \A f : Overlap(m.domains, f.allowed) => f.allowed # {}
    BY DEF Overlap
  <1>6. /\ OrOpen(messages.sensitivities) = messages.sensitivities
        /\ OrOpen(artifacts.sensitivities) = artifacts.sensitivities
        /\ "restricted" \notin messages.sensitivities
        /\ "restricted" \notin artifacts.sensitivities
    BY <1>1, <1>2, <1>3, ThroughBelow DEF OrOpen
  <1>7. (Cardinality(m.scopes) = 0) = (m.scopes = {})
    BY <1>1, UnscopedMeansEmpty
  <1> DEFINE scoped(r) ==
        r.applied =>
          /\ Overlap(m.relationships, r.relationships) \/ Overlap(m.entities, r.entities)
          /\ r.scopes # {} => m.scopes = {} \/ Overlap(m.scopes, r.scopes)
  <1>8. \A r : InProjection(m, r) = scoped(r)
    BY DEF InProjection
  <1>9. SelectedBySql(m, messages)
          = /\ Overlap(m.domains, messages.allowed) /\ ~Overlap(m.domains, messages.blocked)
            /\ m.sensitivity \in messages.sensitivities
            /\ InProjection(m, messages.projection)
    <2> HIDE DEF messages
    <2> QED BY <1>5, <1>6, <1>7, <1>8 DEF SelectedBySql
  <1>10. FoundByIndex(PointOf(m), messages)
          = /\ Overlap(m.domains, messages.allowed) /\ ~Overlap(m.domains, messages.blocked)
            /\ m.sensitivity \in messages.sensitivities
            /\ InProjection(m, messages.projection)
    <2> HIDE DEF messages
    <2> QED BY <1>2, <1>4, <1>5, <1>6, <1>8 DEF FoundByIndex
  <1>11. AllowedByFilter(m, messages, FALSE)
          = /\ Overlap(m.domains, messages.allowed) /\ ~Overlap(m.domains, messages.blocked)
            /\ m.sensitivity \in messages.sensitivities
            /\ InProjection(m, messages.projection)
    <2> HIDE DEF messages
    <2> QED BY <1>6 DEF AllowedByFilter
  <1>12. ASSUME ~artifacts.empty
         PROVE  FoundByIndex(PointOf(m), artifacts) = AllowedByFilter(m, artifacts, TRUE)
    <2>1. artifacts.classes # {}
      BY <1>3, <1>12
    <2> HIDE DEF artifacts
    <2>2. FoundByIndex(PointOf(m), artifacts)
          = /\ Overlap(m.domains, artifacts.allowed) /\ ~Overlap(m.domains, artifacts.blocked)
            /\ m.sensitivity \in artifacts.sensitivities
            /\ m.class \in artifacts.classes
            /\ InProjection(m, artifacts.projection)
      BY <2>1, <1>4, <1>5, <1>6, <1>8 DEF FoundByIndex
    <2> QED BY <2>2, <1>6 DEF AllowedByFilter
  <1> QED BY <1>9, <1>10, <1>11, <1>12

(* A policy in force is one that the resolver can give.                      *)
THEOREM PolicyInvariant == PolicySpec => []PolicyInv
  <1>1. PolicyInit => PolicyInv
    BY DEF PolicyInit, PolicyInv
  <1>2. PolicyInv /\ [PolicyNext]_policy => PolicyInv'
    BY DEF PolicyInv, PolicyNext, Supply
  <1> QED BY <1>1, <1>2, PTL DEF PolicySpec

(* For every policy and record: the SQL clauses, the filter of the index and *)
(* the check on results admit the same records.                              *)
THEOREM EnforcementsAgree == PolicySpec => []FiltersAgree
  <1>1. PolicyInv => FiltersAgree
    BY FiltersSayTheSame DEF PolicyInv, FiltersAgree
  <1> QED BY <1>1, PolicyInvariant, PTL

-----------------------------------------------------------------------------
(* Decisions.                                                                *)

(* One score that is raised leaves the others, and lowers none.              *)
LEMMA OneScoreRises ==
  ASSUME NEW G, NEW r \in [G -> Scores], NEW f \in G, NEW s \in Scores, s > r[f],
         NEW p, p = [r EXCEPT ![f] = s]
  PROVE  /\ p \in [G -> Scores]
         /\ \A g \in G : p[g] \in Int /\ r[g] \in Int /\ p[g] >= r[g]
  <1>1. p \in [G -> Scores]
    OBVIOUS
  <1>2. \A g \in G : p[g] = IF g = f THEN s ELSE r[g]
    OBVIOUS
  <1>3. \A x \in Scores : x \in Int
    BY ScoresAssumption
  <1>4. \A g \in G : p[g] \in Int /\ r[g] \in Int /\ p[g] >= r[g]
    BY <1>1, <1>2, <1>3
  <1> QED BY <1>1, <1>4

(* A better score of one feature never lowers the verdict on a recall.       *)
LEMMA RecallRises ==
  ASSUME NEW q \in RecallQuestions, NEW p \in RecallQuestions,
         \A g \in RecallScores : p.scores[g] \in Int /\ q.scores[g] \in Int /\ p.scores[g] >= q.scores[g],
         p.sensitivity = q.sensitivity, p.urgent = q.urgent, p.blocked = q.blocked,
         p.sensitive = q.sensitive, p.callback = q.callback
  PROVE  Rank(Recall(p)) >= Rank(Recall(q))
  <1> DEFINE qr == q.scores["relevance"]  qs == q.scores["salience"]  qc == q.scores["recency"]
             pr == p.scores["relevance"]  ps == p.scores["salience"]  pc == p.scores["recency"]
             qv == Mentionability(q.scores)  pv == Mentionability(p.scores)
  <1>1. /\ qr \in Int /\ pr \in Int /\ pr >= qr
        /\ qs \in Int /\ ps \in Int /\ ps >= qs
        /\ qc \in Int /\ pc \in Int /\ pc >= qc
    BY DEF RecallScores
  <1>2. qv \in Int /\ pv \in Int /\ pv >= qv
    <2> HIDE DEF qr, qs, qc, pr, ps, pc
    <2>1. qv = 60 * qr + 25 * qs + 15 * qc /\ pv = 60 * pr + 25 * ps + 15 * pc
      BY DEF Mentionability, qr, qs, qc, pr, ps, pc
    <2> QED BY <1>1, <2>1
  <1> HIDE DEF qr, qs, qc, ps, pc, pr, qv, pv
  <1>3. q.urgent \in BOOLEAN /\ q.blocked \in BOOLEAN /\ q.sensitive \in BOOLEAN
        /\ q.callback \in BOOLEAN
    BY DEF RecallQuestions
  <1>4. Recall(q) = IF qr < 35 \/ q.blocked THEN "suppress"
      ELSE IF q.sensitivity = "high"
           THEN IF q.sensitive THEN "implicit_only" ELSE "suppress"
      ELSE IF q.sensitivity = "medium" \/ (q.urgent /\ qr < 90) THEN "implicit_only"
      ELSE IF qv >= 8200 /\ ~q.urgent /\ q.callback THEN "explicit_callback"
      ELSE IF qv >= 6000 THEN "light_callback"
      ELSE "implicit_only"
    BY DEF Recall, qr, qv
  <1>5. Recall(p) = IF pr < 35 \/ q.blocked THEN "suppress"
      ELSE IF q.sensitivity = "high"
           THEN IF q.sensitive THEN "implicit_only" ELSE "suppress"
      ELSE IF q.sensitivity = "medium" \/ (q.urgent /\ pr < 90) THEN "implicit_only"
      ELSE IF pv >= 8200 /\ ~q.urgent /\ q.callback THEN "explicit_callback"
      ELSE IF pv >= 6000 THEN "light_callback"
      ELSE "implicit_only"
    BY DEF Recall, pr, pv
  <1>6. QED BY <1>1, <1>2, <1>3, <1>4, <1>5 DEF Rank

(* The same of a callback, whose cap does not depend on the scores.          *)
LEMMA CallbackRises ==
  ASSUME NEW q \in CallbackQuestions, NEW p \in CallbackQuestions,
         \A g \in CallbackScores : p.scores[g] \in Int /\ q.scores[g] \in Int /\ p.scores[g] >= q.scores[g],
         p.unresolved = q.unresolved, p.elsewhere = q.elsewhere
  PROVE  Rank(Callback(p)) >= Rank(Callback(q))
  <1>1. \A g \in {"relevance", "confidence", "continuity", "recency", "ease"} :
           p.scores[g] \in Int /\ q.scores[g] \in Int /\ p.scores[g] >= q.scores[g]
    BY DEF CallbackScores
  <1>2. Barred(p.scores) => Barred(q.scores)
    BY <1>1 DEF Barred
  <1>3. Weak(p.scores, p.unresolved) => Weak(q.scores, q.unresolved)
    BY <1>1 DEF Weak
  <1>4. q.scores["relevance"] >= 55 => p.scores["relevance"] >= 55
    BY <1>1
  <1> QED BY <1>2, <1>3, <1>4 DEF Callback, Rank

(* The same of a promotion, also when it is a signal that raises the score:  *)
(* a candidate that signals something is not trivial.                        *)
LEMMA PromotionRises ==
  ASSUME NEW q \in PromotionQuestions, NEW p \in PromotionQuestions,
         \A g \in Factors : p.scores[g] \in Int /\ q.scores[g] \in Int /\ p.scores[g] >= q.scores[g],
         p.supported = q.supported, p.short = q.short, p.known = q.known,
         p.signal \in {q.signal, TRUE}
  PROVE  Rank(Promotion(p)) >= Rank(Promotion(q))
  <1>1. \A g \in {"recurrence", "utility", "usefulness", "project", "identity",
                  "procedural", "instruction", "correction"} :
           p.scores[g] \in Int /\ q.scores[g] \in Int /\ p.scores[g] >= q.scores[g]
    BY DEF Factors
  <1>2. PromotionScore(p.scores) \in Int /\ PromotionScore(q.scores) \in Int
        /\ PromotionScore(p.scores) >= PromotionScore(q.scores)
    BY <1>1 DEF PromotionScore
  <1>3. StrongSignal(q.scores) => StrongSignal(p.scores)
    BY <1>1 DEF StrongSignal
  <1>4. WorthKeeping(q.scores) => WorthKeeping(p.scores)
    BY <1>1, <1>2 DEF WorthKeeping
  <1>5. Trivial(p) => Trivial(q)
    BY DEF Trivial
  <1>6. PromotionScore(p.scores) < 3000 => PromotionScore(q.scores) < 3000
    BY <1>2
  <1> HIDE DEF PromotionScore
  <1> QED BY <1>3, <1>4, <1>5, <1>6 DEF Promotion, Rank

(* A decision that is answered is the verdict of its rule on the question.   *)
THEOREM DecisionInvariant == DecisionSpec => []DecisionInv
  <1>1. DecisionInit => DecisionInv
    BY DEF DecisionInit, DecisionInv
  <1>2. DecisionInv /\ [DecisionNext]_decisionVars => DecisionInv'
    <2> SUFFICES ASSUME DecisionInv, [DecisionNext]_decisionVars PROVE DecisionInv'
      OBVIOUS
    <2>1. CASE SelectRecall
      BY <2>1 DEF SelectRecall, Conclude, DecisionInv, Verdict, Questions
    <2>2. CASE EvaluateCallback
      BY <2>2 DEF EvaluateCallback, Conclude, DecisionInv, Verdict, Questions
    <2>3. CASE EvaluatePromotion
      BY <2>3 DEF EvaluatePromotion, Conclude, DecisionInv, Verdict, Questions
    <2>4. CASE UNCHANGED decisionVars
      BY <2>4 DEF decisionVars, DecisionInv
    <2> QED BY <2>1, <2>2, <2>3, <2>4 DEF DecisionNext
  <1> QED BY <1>1, <1>2, PTL DEF DecisionSpec

(* For every set of scores: a better score, all else equal, never makes the   *)
(* decision of the recall, callback or promotion rules worse; of a promotion, *)
(* whether the request gives the score or the candidate signals it.           *)
THEOREM ScoresHelp == DecisionSpec => []ScoresNeverHurt
  <1>1. DecisionInv => ScoresNeverHurt
    <2> SUFFICES ASSUME DecisionInv, question # Undecided,
                        NEW f \in DOMAIN question.asked.scores, NEW s \in Scores,
                        s > question.asked.scores[f],
                        NEW p \in Improved(question.rule, question.asked, f, s)
                 PROVE  Rank(Verdict(question.rule, p)) >= Rank(decision)
      BY DEF ScoresNeverHurt
    <2> DEFINE q == question.asked
    <2>1. /\ question.rule \in {"recall", "callback", "promotion"}
          /\ q \in Questions(question.rule)
          /\ decision = Verdict(question.rule, q)
      BY DEF DecisionInv
    <2>2. CASE question.rule = "recall"
      <3>1. q \in RecallQuestions BY <2>1, <2>2 DEF Questions
      <3>2. q.scores \in [RecallScores -> Scores] /\ f \in RecallScores
        BY <3>1 DEF RecallQuestions
      <3>3. p.scores = [q.scores EXCEPT ![f] = s]
        BY <2>2, <3>1 DEF Improved, WithScore, RecallQuestions
      <3>4. /\ p.scores \in [RecallScores -> Scores]
            /\ \A g \in RecallScores :
                 p.scores[g] \in Int /\ q.scores[g] \in Int /\ p.scores[g] >= q.scores[g]
        <4>1. s > q.scores[f] OBVIOUS
        <4> HIDE DEF q
        <4> QED BY <3>2, <3>3, <4>1, OneScoreRises
      <3>5. p \in RecallQuestions
        BY <2>2, <3>1, <3>4 DEF Improved, WithScore, RecallQuestions
      <3>6. /\ p.sensitivity = q.sensitivity /\ p.urgent = q.urgent /\ p.blocked = q.blocked
            /\ p.sensitive = q.sensitive /\ p.callback = q.callback
        BY <2>2, <3>1 DEF Improved, WithScore, RecallQuestions
      <3>7. Rank(Recall(p)) >= Rank(Recall(q))
        <4> HIDE DEF q
        <4> QED BY <3>1, <3>4, <3>5, <3>6, RecallRises
      <3>8. Verdict(question.rule, p) = Recall(p) /\ decision = Recall(q)
        <4> HIDE DEF q
        <4> QED BY <2>1, <2>2 DEF Verdict
      <3> QED BY <3>7, <3>8
    <2>3. CASE question.rule = "callback"
      <3>1. q \in CallbackQuestions BY <2>1, <2>3 DEF Questions
      <3>2. q.scores \in [CallbackScores -> Scores] /\ f \in CallbackScores
        BY <3>1 DEF CallbackQuestions
      <3>3. p.scores = [q.scores EXCEPT ![f] = s]
        BY <2>3, <3>1 DEF Improved, WithScore, CallbackQuestions
      <3>4. /\ p.scores \in [CallbackScores -> Scores]
            /\ \A g \in CallbackScores :
                 p.scores[g] \in Int /\ q.scores[g] \in Int /\ p.scores[g] >= q.scores[g]
        <4>1. s > q.scores[f] OBVIOUS
        <4> HIDE DEF q
        <4> QED BY <3>2, <3>3, <4>1, OneScoreRises
      <3>5. p \in CallbackQuestions
        BY <2>3, <3>1, <3>4 DEF Improved, WithScore, CallbackQuestions
      <3>6. p.unresolved = q.unresolved /\ p.elsewhere = q.elsewhere
        BY <2>3, <3>1 DEF Improved, WithScore, CallbackQuestions
      <3>7. Rank(Callback(p)) >= Rank(Callback(q))
        <4> HIDE DEF q
        <4> QED BY <3>1, <3>4, <3>5, <3>6, CallbackRises
      <3>8. Verdict(question.rule, p) = Callback(p) /\ decision = Callback(q)
        <4> HIDE DEF q
        <4> QED BY <2>1, <2>3 DEF Verdict
      <3> QED BY <3>7, <3>8
    <2>4. CASE question.rule = "promotion"
      <3>1. q \in PromotionQuestions BY <2>1, <2>4 DEF Questions
      <3>2. q.scores \in [Factors -> Scores] /\ f \in Factors
        BY <3>1 DEF PromotionQuestions
      <3>3. p.scores = [q.scores EXCEPT ![f] = s]
        BY <2>4, <3>1 DEF Improved, WithScore, PromotionQuestions
      <3>4. /\ p.scores \in [Factors -> Scores]
            /\ \A g \in Factors :
                 p.scores[g] \in Int /\ q.scores[g] \in Int /\ p.scores[g] >= q.scores[g]
        <4>1. s > q.scores[f] OBVIOUS
        <4> HIDE DEF q
        <4> QED BY <3>2, <3>3, <4>1, OneScoreRises
      <3>5. p \in PromotionQuestions
        BY <2>4, <3>1, <3>4 DEF Improved, WithScore, PromotionQuestions
      <3>6. /\ p.supported = q.supported /\ p.short = q.short /\ p.known = q.known
            /\ p.signal \in {q.signal, TRUE}
        BY <2>4, <3>1 DEF Improved, WithScore, PromotionQuestions
      <3>7. Rank(Promotion(p)) >= Rank(Promotion(q))
        <4> HIDE DEF q
        <4> QED BY <3>1, <3>4, <3>5, <3>6, PromotionRises
      <3>8. Verdict(question.rule, p) = Promotion(p) /\ decision = Promotion(q)
        <4> HIDE DEF q
        <4> QED BY <2>1, <2>4 DEF Verdict
      <3> QED BY <3>7, <3>8
    <2> QED BY <2>1, <2>2, <2>3, <2>4
  <1> QED BY <1>1, DecisionInvariant, PTL

-----------------------------------------------------------------------------
(* Memory items.                                                              *)

LEMMA ItemInitially == ItemInit => ItemInv
  BY ItemAssumption
  DEF ItemInit, ItemInv, ItemTypeOK, LinksAgree, StatusesAreSupported,
      EventsTellStatus, OwnItem

LEMMA RowTypes ==
  ASSUME NEW o \in Owners, NEW h \in Sources, NEW s \in Statuses,
         NEW p \in Promotions, NEW old \in Items \cup {None}
  PROVE  /\ NewRow(o, h, s, p, old) \in ItemRow
         /\ NewRow(o, h, s, p, old) # None
  BY ItemAssumption DEF NewRow, ItemRow

LEMMA PromoteKeeps ==
  ASSUME ItemInv, NEW m \in Items, NEW o \in Owners, NEW h \in Sources,
         Promote(m, o, h)
  PROVE  ItemInv'
  <1> USE ItemAssumption DEF ItemInv, Promote
  <1> DEFINE row == NewRow(o, h, "active", "promoted", None)
  <1>1. row \in ItemRow /\ row # None
    BY RowTypes DEF Statuses, Promotions
  <1>2. \A n \in Items : item'[n] = IF n = m THEN row ELSE item[n]
    BY DEF ItemTypeOK
  <1>3. ItemTypeOK'
    BY <1>1, <1>2 DEF ItemTypeOK, NoneActive, OwnItem, Statuses, NewRow
  <1>4. LinksAgree'
    BY <1>1, <1>2 DEF ItemTypeOK, LinksAgree, OwnItem, NewRow
  <1>5. StatusesAreSupported'
    BY <1>1, <1>2 DEF ItemTypeOK, StatusesAreSupported, NewRow
  <1>6. EventsTellStatus'
    BY <1>1, <1>2 DEF ItemTypeOK, EventsTellStatus, NewRow
  <1> QED BY <1>3, <1>4, <1>5, <1>6

LEMMA PromoteAgainKeeps ==
  ASSUME ItemInv, NEW m \in Items, PromoteAgain(m)
  PROVE  ItemInv'
  <1> USE ItemAssumption DEF ItemInv, PromoteAgain
  <1> DEFINE row == [item[m] EXCEPT !.promotion = "promoted"]
  <1>1. /\ row \in ItemRow /\ row # None
        /\ row.owner = item[m].owner /\ row.source = item[m].source
        /\ row.status = item[m].status /\ row.supersedes = item[m].supersedes
        /\ row.superseded_by = item[m].superseded_by
    BY DEF ItemTypeOK, ItemRow, Promotions
  <1>2. \A n \in Items : item'[n] = IF n = m THEN row ELSE item[n]
    BY DEF ItemTypeOK
  <1>3. ItemTypeOK'
    BY <1>1, <1>2 DEF ItemTypeOK, OwnItem
  <1>4. LinksAgree'
    BY <1>1, <1>2 DEF LinksAgree, OwnItem
  <1>5. StatusesAreSupported'
    BY <1>1, <1>2 DEF StatusesAreSupported
  <1>6. EventsTellStatus'
    BY <1>1, <1>2 DEF EventsTellStatus
  <1> QED BY <1>3, <1>4, <1>5, <1>6

LEMMA PromoteOverKeeps ==
  ASSUME ItemInv, NEW m \in Items, NEW old \in Items, NEW o \in Owners,
         NEW h \in Sources, PromoteOver(m, old, o, h)
  PROVE  ItemInv'
  <1> USE ItemAssumption DEF ItemInv, PromoteOver
  <1> DEFINE row == NewRow(o, h, "active", "promoted", old)
             prior == [item[old] EXCEPT !.status = "superseded",
                                        !.superseded_by = m]
  <1>1. row \in ItemRow /\ row # None
    BY RowTypes DEF Statuses, Promotions
  <1>2. /\ row.owner = o /\ row.source = h /\ row.status = "active"
        /\ row.supersedes = old /\ row.superseded_by = None
    BY DEF NewRow
  <1>3. /\ prior \in ItemRow /\ prior # None
        /\ prior.owner = o /\ prior.source = item[old].source
        /\ prior.status = "superseded" /\ prior.superseded_by = m
        /\ prior.supersedes = item[old].supersedes
    BY DEF ItemTypeOK, ItemRow, Statuses, OwnItem
  <1>4. m # old
    BY DEF OwnItem
  <1>5. \A n \in Items : item'[n] = IF n = m THEN row
                                    ELSE IF n = old THEN prior ELSE item[n]
    BY <1>4 DEF ItemTypeOK
  <1>a. /\ told' \in [Items -> Statuses \cup {None}]
        /\ \A n \in Items : told'[n] = IF n = m THEN "active" ELSE
             IF n = old THEN "superseded" ELSE told[n]
    BY <1>4 DEF ItemTypeOK, Statuses
  <1>b. item' \in [Items -> ItemRow \cup {None}]
    <2>1. item' = [n \in Items |-> item'[n]]
      BY DEF ItemTypeOK
    <2>2. item \in [Items -> ItemRow \cup {None}]
      BY DEF ItemTypeOK
    <2> HIDE DEF row, prior, PromoteOver, ItemInv
    <2> QED BY <2>1, <2>2, <1>1, <1>3, <1>5
  <1>c. /\ item[m] = None /\ item[old] # None /\ item[old].owner = o
        /\ item[old].superseded_by = None /\ NoneActive(o, h)
        /\ ItemTypeOK /\ LinksAgree /\ StatusesAreSupported
        /\ EventsTellStatus
    BY DEF OwnItem
  <1> HIDE DEF row, prior, PromoteOver, ItemInv
  <1>6. ItemTypeOK'
    <2>1. \A n, k \in Items :
            /\ item'[n] # None /\ item'[n].status = "active"
            /\ item'[k] # None /\ item'[k].owner = item'[n].owner
            /\ item'[k].source = item'[n].source /\ item'[k].status = "active"
            => n = k
      BY <1>c, <1>2, <1>3, <1>4, <1>5 DEF ItemTypeOK, NoneActive, OwnItem
    <2> QED BY <1>a, <1>b, <2>1 DEF ItemTypeOK, OwnItem
  <1>7. LinksAgree'
    <2> SUFFICES ASSUME NEW n \in Items, NEW k \in Items
                 PROVE  /\ item'[n] # None /\ item'[n].supersedes = k =>
                             /\ item'[k] # None
                             /\ item'[k].owner = item'[n].owner
                             /\ item'[k].superseded_by = n /\ n # k
                        /\ item'[n] # None /\ item'[n].superseded_by = k =>
                             /\ item'[k] # None
                             /\ item'[k].owner = item'[n].owner
                             /\ item'[k].supersedes = n /\ n # k
      BY DEF LinksAgree, OwnItem
    <2>1. CASE n = m
      BY <2>1, <1>c, <1>1, <1>2, <1>3, <1>4, <1>5 DEF LinksAgree, OwnItem
    <2>2. CASE n = old
      BY <2>2, <1>c, <1>1, <1>2, <1>3, <1>4, <1>5 DEF LinksAgree, OwnItem
    <2>3. CASE n # m /\ n # old
      BY <2>3, <1>c, <1>1, <1>2, <1>3, <1>4, <1>5 DEF LinksAgree, OwnItem
    <2> QED BY <2>1, <2>2, <2>3
  <1>8. StatusesAreSupported'
    BY <1>c, <1>1, <1>2, <1>3, <1>4, <1>5 DEF StatusesAreSupported
  <1>9. EventsTellStatus'
    BY <1>a, <1>c, <1>1, <1>2, <1>3, <1>4, <1>5 DEF EventsTellStatus
  <1> QED BY <1>6, <1>7, <1>8, <1>9 DEF ItemInv

LEMMA DecideKeeps ==
  ASSUME ItemInv, NEW m \in Items, NEW o \in Owners, NEW h \in Sources,
         NEW s \in Statuses, NEW p \in Promotions, Decide(m, o, h, s, p)
  PROVE  ItemInv'
  <1> USE ItemAssumption DEF ItemInv, Decide
  <1> DEFINE row == NewRow(o, h, s, p, None)
  <1>1. row \in ItemRow /\ row # None
    BY RowTypes
  <1>2. /\ row.owner = o /\ row.source = h /\ row.status = s
        /\ row.supersedes = None /\ row.superseded_by = None
        /\ s \in {"forgotten_or_demoted", "parked"}
    BY DEF NewRow
  <1>3. \A n \in Items : item'[n] = IF n = m THEN row ELSE item[n]
    BY DEF ItemTypeOK
  <1>4. ItemTypeOK'
    BY <1>1, <1>2, <1>3 DEF ItemTypeOK, OwnItem
  <1>5. LinksAgree'
    BY <1>1, <1>2, <1>3 DEF LinksAgree, OwnItem
  <1>6. StatusesAreSupported'
    BY <1>1, <1>2, <1>3 DEF StatusesAreSupported
  <1>7. EventsTellStatus'
    BY <1>1, <1>2, <1>3 DEF ItemTypeOK, EventsTellStatus
  <1> QED BY <1>4, <1>5, <1>6, <1>7

LEMMA DecayKeeps ==
  ASSUME ItemInv, NEW m \in Items, NEW demote \in BOOLEAN,
         NEW faint \in BOOLEAN, Decay(m, demote, faint)
  PROVE  ItemInv'
  <1> USE ItemAssumption DEF ItemInv, Decay
  <1> DEFINE s == IF demote THEN "forgotten_or_demoted" ELSE "stale"
             row == [item[m] EXCEPT !.status = s,
                       !.promotion = IF demote \/ faint THEN "decayed" ELSE @]
  <1>1. /\ row \in ItemRow /\ row # None
        /\ row.owner = item[m].owner /\ row.source = item[m].source
        /\ row.status = s /\ row.supersedes = item[m].supersedes
        /\ row.superseded_by = item[m].superseded_by
    BY DEF ItemTypeOK, ItemRow, Promotions, Statuses
  <1>2. s \in Statuses /\ s \notin {"active", "superseded", "corrected"}
    BY DEF Statuses
  <1>3. \A n \in Items : item'[n] = IF n = m THEN row ELSE item[n]
    BY DEF ItemTypeOK
  <1> HIDE DEF row, s
  <1>4. ItemTypeOK'
    BY <1>1, <1>2, <1>3 DEF ItemTypeOK, OwnItem, s
  <1>a. item[m] # None /\ LinksAgree
    OBVIOUS
  <1>5. LinksAgree'
    <2> HIDE DEF Decay, ItemInv
    <2> QED BY <1>a, <1>1, <1>3 DEF LinksAgree, OwnItem
  <1>6. StatusesAreSupported'
    BY <1>1, <1>2, <1>3 DEF StatusesAreSupported
  <1>7. EventsTellStatus'
    BY <1>1, <1>2, <1>3 DEF ItemTypeOK, EventsTellStatus, s
  <1> QED BY <1>4, <1>5, <1>6, <1>7

LEMMA MoveKeeps ==
  ASSUME ItemInv, NEW m \in Items, NEW s \in Asked, Move(m, s)
  PROVE  ItemInv'
  <1> USE ItemAssumption DEF ItemInv, Move
  <1> DEFINE row == [item[m] EXCEPT !.status = s]
  <1>1. /\ row \in ItemRow /\ row # None
        /\ row.owner = item[m].owner /\ row.source = item[m].source
        /\ row.status = s /\ row.supersedes = item[m].supersedes
        /\ row.superseded_by = item[m].superseded_by
    BY DEF ItemTypeOK, ItemRow
  <1>2. \A n \in Items : item'[n] = IF n = m THEN row ELSE item[n]
    BY DEF ItemTypeOK
  <1>3. ItemTypeOK'
    BY <1>1, <1>2 DEF ItemTypeOK, OwnItem, NoneActive
  <1>4. LinksAgree'
    BY <1>1, <1>2 DEF LinksAgree, OwnItem
  <1>5. StatusesAreSupported'
    BY <1>1, <1>2 DEF StatusesAreSupported, NeedsRelated
  <1>6. EventsTellStatus'
    BY <1>1, <1>2 DEF ItemTypeOK, EventsTellStatus
  <1> QED BY <1>3, <1>4, <1>5, <1>6

LEMMA CorrectKeeps ==
  ASSUME ItemInv, NEW m \in Items, NEW r \in Items, Correct(m, r)
  PROVE  ItemInv'
  <1> USE ItemAssumption DEF ItemInv, Correct
  <1> DEFINE row == [item[m] EXCEPT !.status = "corrected", !.supersedes = r]
             prior == [item[r] EXCEPT !.status = "superseded",
                                      !.superseded_by = m]
  <1>1. /\ row \in ItemRow /\ row # None
        /\ row.owner = item[m].owner /\ row.source = item[m].source
        /\ row.status = "corrected" /\ row.supersedes = r
        /\ row.superseded_by = item[m].superseded_by
    BY DEF ItemTypeOK, ItemRow, Statuses
  <1>2. /\ prior \in ItemRow /\ prior # None
        /\ prior.owner = item[m].owner /\ prior.source = item[r].source
        /\ prior.status = "superseded" /\ prior.superseded_by = m
        /\ prior.supersedes = item[r].supersedes
    <2>1. item[r] \in ItemRow /\ item[r].owner = item[m].owner
      BY DEF ItemTypeOK, OwnItem
    <2> HIDE DEF Correct, ItemInv
    <2> QED BY <2>1 DEF ItemRow, Statuses
  <1>3. \A n \in Items : item'[n] = IF n = m THEN row
                                    ELSE IF n = r THEN prior ELSE item[n]
    BY DEF ItemTypeOK
  <1>4. item[m].supersedes \in {None, r} /\ item[r].superseded_by \in {None, m}
    BY DEF Linkable
  <1>a. /\ told' \in [Items -> Statuses \cup {None}]
        /\ \A n \in Items : told'[n] = IF n = m THEN "corrected" ELSE
             IF n = r THEN RelatedTold(r) ELSE told[n]
    BY DEF ItemTypeOK, Statuses, RelatedTold
  <1>b. item' \in [Items -> ItemRow \cup {None}]
    BY <1>1, <1>2 DEF ItemTypeOK
  <1>c. /\ item[m] # None /\ item[r] # None /\ item[r].owner = item[m].owner
        /\ m # r /\ ItemTypeOK /\ LinksAgree /\ StatusesAreSupported
        /\ EventsTellStatus
    BY DEF OwnItem
  <1> HIDE DEF row, prior, Correct, ItemInv
  <1>5. ItemTypeOK'
    BY <1>a, <1>b, <1>c, <1>1, <1>2, <1>3 DEF ItemTypeOK, OwnItem
  <1>6. LinksAgree'
    <2> SUFFICES ASSUME NEW n \in Items, NEW k \in Items
                 PROVE  /\ item'[n] # None /\ item'[n].supersedes = k =>
                             /\ item'[k] # None
                             /\ item'[k].owner = item'[n].owner
                             /\ item'[k].superseded_by = n /\ n # k
                        /\ item'[n] # None /\ item'[n].superseded_by = k =>
                             /\ item'[k] # None
                             /\ item'[k].owner = item'[n].owner
                             /\ item'[k].supersedes = n /\ n # k
      BY DEF LinksAgree, OwnItem
    <2>1. CASE n = m
      BY <2>1, <1>c, <1>1, <1>2, <1>3, <1>4 DEF LinksAgree, OwnItem
    <2>2. CASE n = r
      BY <2>2, <1>c, <1>1, <1>2, <1>3, <1>4 DEF LinksAgree, OwnItem
    <2>3. CASE n # m /\ n # r
      BY <2>3, <1>c, <1>1, <1>2, <1>3, <1>4 DEF LinksAgree, OwnItem
    <2> QED BY <2>1, <2>2, <2>3
  <1>7. StatusesAreSupported'
    BY <1>c, <1>1, <1>2, <1>3 DEF StatusesAreSupported
  <1>8. EventsTellStatus'
    BY <1>a, <1>c, <1>1, <1>2, <1>3 DEF EventsTellStatus, RelatedTold
  <1> QED BY <1>5, <1>6, <1>7, <1>8 DEF ItemInv

LEMMA ReplaceKeeps ==
  ASSUME ItemInv, NEW m \in Items, NEW r \in Items, NEW s \in Asked,
         Replace(m, s, r)
  PROVE  ItemInv'
  <1> USE ItemAssumption DEF ItemInv, Replace
  <1> DEFINE row == [item[m] EXCEPT !.status = s, !.superseded_by = r]
             next == [item[r] EXCEPT !.supersedes = m]
  <1>1. /\ row \in ItemRow /\ row # None
        /\ row.owner = item[m].owner /\ row.source = item[m].source
        /\ row.status = s /\ row.superseded_by = r
        /\ row.supersedes = item[m].supersedes
    BY DEF ItemTypeOK, ItemRow
  <1>2. /\ next \in ItemRow /\ next # None
        /\ next.owner = item[m].owner /\ next.source = item[r].source
        /\ next.status = item[r].status /\ next.supersedes = m
        /\ next.superseded_by = item[r].superseded_by
    BY DEF ItemTypeOK, ItemRow, OwnItem
  <1>3. \A n \in Items : item'[n] = IF n = m THEN row
                                    ELSE IF n = r THEN next ELSE item[n]
    BY DEF ItemTypeOK
  <1>4. item[m].superseded_by \in {None, r} /\ item[r].supersedes \in {None, m}
    BY DEF Linkable
  <1>5. s # "active" /\ s # "corrected"
    OBVIOUS
  <1>a. /\ told' \in [Items -> Statuses \cup {None}]
        /\ \A n \in Items : told'[n] = IF n = m THEN s ELSE told[n]
    BY DEF ItemTypeOK
  <1>b. item' \in [Items -> ItemRow \cup {None}]
    BY <1>1, <1>2 DEF ItemTypeOK
  <1>c. /\ item[m] # None /\ item[r] # None /\ item[r].owner = item[m].owner
        /\ m # r /\ ItemTypeOK /\ LinksAgree /\ StatusesAreSupported
        /\ EventsTellStatus
    BY DEF OwnItem
  <1> HIDE DEF row, next, Replace, ItemInv
  <1>6. ItemTypeOK'
    BY <1>a, <1>b, <1>c, <1>1, <1>2, <1>3, <1>5 DEF ItemTypeOK, OwnItem
  <1>7. LinksAgree'
    <2> SUFFICES ASSUME NEW n \in Items, NEW k \in Items
                 PROVE  /\ item'[n] # None /\ item'[n].supersedes = k =>
                             /\ item'[k] # None
                             /\ item'[k].owner = item'[n].owner
                             /\ item'[k].superseded_by = n /\ n # k
                        /\ item'[n] # None /\ item'[n].superseded_by = k =>
                             /\ item'[k] # None
                             /\ item'[k].owner = item'[n].owner
                             /\ item'[k].supersedes = n /\ n # k
      BY DEF LinksAgree, OwnItem
    <2>1. CASE n = m
      BY <2>1, <1>c, <1>1, <1>2, <1>3, <1>4 DEF LinksAgree, OwnItem
    <2>2. CASE n = r
      BY <2>2, <1>c, <1>1, <1>2, <1>3, <1>4 DEF LinksAgree, OwnItem
    <2>3. CASE n # m /\ n # r
      BY <2>3, <1>c, <1>1, <1>2, <1>3, <1>4 DEF LinksAgree, OwnItem
    <2> QED BY <2>1, <2>2, <2>3
  <1>8. StatusesAreSupported'
    BY <1>c, <1>1, <1>2, <1>3, <1>5, <1>4 DEF StatusesAreSupported, LinksAgree
  <1>9. EventsTellStatus'
    BY <1>a, <1>c, <1>1, <1>2, <1>3 DEF EventsTellStatus
  <1> QED BY <1>6, <1>7, <1>8, <1>9 DEF ItemInv

LEMMA ItemsStay == ItemInv /\ UNCHANGED itemVars => ItemInv'
  BY DEF ItemInv, ItemTypeOK, LinksAgree, StatusesAreSupported,
         EventsTellStatus, OwnItem, itemVars

-----------------------------------------------------------------------------
(* The inductive invariant of memory items: typed rows, one active item per  *)
(* sources, links that agree, supported statuses and a truthful audit trail. *)
THEOREM ItemInvariant == ItemSpec => []ItemInv
  <1>1. ItemInv /\ [ItemNext]_itemVars => ItemInv'
    <2> SUFFICES ASSUME ItemInv, ItemNext PROVE ItemInv'
      BY ItemsStay
    <2> QED BY PromoteKeeps, PromoteAgainKeeps, PromoteOverKeeps, DecideKeeps,
               DecayKeeps, MoveKeeps, CorrectKeeps, ReplaceKeeps DEF ItemNext
  <1> QED BY ItemInitially, <1>1, PTL DEF ItemSpec

(* Every reachable table of memory items is well typed, and its index holds. *)
THEOREM ItemsAreTyped == ItemSpec => []ItemTypeOK
  <1>1. ItemInv => ItemTypeOK
    BY DEF ItemInv
  <1> QED BY <1>1, ItemInvariant, PTL

(* Correction and supersession links always agree at their two ends.         *)
THEOREM LinksAlwaysAgree == ItemSpec => []LinksAgree
  <1>1. ItemInv => LinksAgree
    BY DEF ItemInv
  <1> QED BY <1>1, ItemInvariant, PTL

(* Superseded items name their replacement, correcting ones what they        *)
(* correct.                                                                  *)
THEOREM StatusesAreExplained == ItemSpec => []StatusesAreSupported
  <1>1. ItemInv => StatusesAreSupported
    BY DEF ItemInv
  <1> QED BY <1>1, ItemInvariant, PTL

(* The audit trail tells every item's status.                                *)
THEOREM AuditTrailsTell == ItemSpec => []EventsTellStatus
  <1>1. ItemInv => EventsTellStatus
    BY DEF ItemInv
  <1> QED BY <1>1, ItemInvariant, PTL

(* An item that was replaced never reads as active, parked or stale again.   *)
THEOREM ReplacedItemsAreNotCurrent == ItemSpec => []ReplacedIsNeverCurrent
  <1>1. ItemInv => ReplacedIsNeverCurrent
    <2> SUFFICES ASSUME ItemInv, NEW m \in Items, item[m] # None,
                        item[m].superseded_by # None
                 PROVE  Freshness(item[m]) \notin {"active", "parked", "stale"}
      BY DEF ReplacedIsNeverCurrent
    <2>1. CASE item[m].promotion = "decayed"
      BY <2>1 DEF Freshness
    <2>2. CASE item[m].promotion # "decayed" /\ item[m].status = "contradicted"
      BY <2>2 DEF Freshness
    <2>3. CASE item[m].promotion # "decayed" /\ item[m].status # "contradicted"
      BY <2>3 DEF Freshness
    <2> QED BY <2>1, <2>2, <2>3
  <1> QED BY <1>1, ItemInvariant, PTL

(* No transaction removes an item or changes a link once it is set.          *)
THEOREM LinksAreKept == ItemSpec => LinksAreFinal
  <1> DEFINE Stays == \A m \in Items : item[m] # None =>
               /\ item'[m] # None
               /\ item[m].supersedes # None =>
                    item'[m].supersedes = item[m].supersedes
               /\ item[m].superseded_by # None =>
                    item'[m].superseded_by = item[m].superseded_by
  <1>1. ASSUME ItemInv, ItemNext PROVE Stays
    <2> USE ItemAssumption, <1>1 DEF ItemInv
    <2>1. ASSUME NEW m \in Items, NEW o \in Owners, NEW h \in Sources,
                 Promote(m, o, h)
          PROVE  Stays
      <3>1. NewRow(o, h, "active", "promoted", None) # None
        BY RowTypes DEF Statuses, Promotions
      <3> QED BY <2>1, <3>1 DEF Promote, ItemTypeOK
    <2>2. ASSUME NEW m \in Items, PromoteAgain(m) PROVE Stays
      BY <2>2 DEF PromoteAgain, ItemTypeOK, ItemRow, Promotions
    <2>3. ASSUME NEW m \in Items, NEW old \in Items, NEW o \in Owners,
                 NEW h \in Sources, PromoteOver(m, old, o, h)
          PROVE  Stays
      BY <2>3 DEF PromoteOver, ItemTypeOK, ItemRow, Statuses, OwnItem
    <2>4. ASSUME NEW m \in Items, NEW o \in Owners, NEW h \in Sources,
                 NEW s \in Statuses, NEW p \in Promotions,
                 Decide(m, o, h, s, p)
          PROVE  Stays
      BY <2>4 DEF Decide, ItemTypeOK
    <2>5. ASSUME NEW m \in Items, NEW demote \in BOOLEAN,
                 NEW faint \in BOOLEAN, Decay(m, demote, faint)
          PROVE  Stays
      BY <2>5 DEF Decay, ItemTypeOK, ItemRow, Statuses, Promotions
    <2>6. ASSUME NEW m \in Items, NEW s \in Asked, Move(m, s) PROVE Stays
      BY <2>6 DEF Move, ItemTypeOK, ItemRow
    <2>7. ASSUME NEW m \in Items, NEW r \in Items, Correct(m, r) PROVE Stays
      BY <2>7 DEF Correct, Linkable, ItemTypeOK, ItemRow, Statuses, OwnItem
    <2>8. ASSUME NEW m \in Items, NEW r \in Items, NEW s \in Asked,
                 Replace(m, s, r)
          PROVE  Stays
      BY <2>8 DEF Replace, Linkable, ItemTypeOK, ItemRow, OwnItem
    <2> QED BY <2>1, <2>2, <2>3, <2>4, <2>5, <2>6, <2>7, <2>8, <1>1
            DEF ItemNext
  <1>2. ItemInv /\ [ItemNext]_itemVars => [Stays]_itemVars
    BY <1>1
  <1> QED BY <1>2, ItemInvariant, PTL DEF ItemSpec, LinksAreFinal

=============================================================================
