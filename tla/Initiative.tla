----------------------------- MODULE Initiative -----------------------------
(* Evaluation of ingested events against the initiative rules, the feedback  *)
(* on its decisions, and the suggestions it makes.  An evaluation notes its  *)
(* request, looks for decisions it has already made, reads preferences,      *)
(* scores, asks the cooldown and the negative feedback of the subject, makes *)
(* a suggestion and records a decision: each in a transaction of its own,    *)
(* beside other evaluations, retries, feedback and the passing of time.      *)
EXTENDS Integers, Sequences, FiniteSets

CONSTANTS Logs,          \* entries of event_ingest_log of one owner
          SourceOf,      \* [Logs -> EventSources]: source_type, which names the rule
          SubjectOf,     \* [Logs -> Subjects]: the normalized subject
          Subjects,
          RequestNames,  \* request_id
          Evaluations,   \* concurrent calls of evaluate_event
          OtherSurfaces, \* delivery surfaces besides telegram
          MaxDecisions,  \* bound on the rows of initiative_decisions
          Absent         \* NULL, and no row

EventSources == {"git", "portfolio", "other"}
Surfaces     == {"telegram"} \cup OtherSurfaces

ASSUME LogsAssumption == /\ SourceOf \in [Logs -> EventSources]
                         /\ SubjectOf \in [Logs -> Subjects]
                         /\ MaxDecisions \in Nat

VARIABLES prefs,       \* allowed surfaces; Absent: no row, or not enabled
          initiative,  \* initiative_events: the log each request was made for
          decision,    \* initiative_decisions, in the order of insertion
          suggestion,  \* proactive_suggestions: one of a log, its rule's
          disliked,    \* cooldown keys with recent negative feedback
          rating,      \* feedback whose second transaction is outstanding
          evaluation,  \* the evaluations under way
          crowded      \* history: requests two calls have evaluated at once

initVars == <<prefs, initiative, decision, suggestion, disliked, rating,
              evaluation, crowded>>

FeedbackTypes == {"dismissed", "useful", "not_useful", "accepted"}
Key       == [source : EventSources, surface : Surfaces, subject : Subjects]
Decision  == [request : RequestNames, status : {"created", "suppressed", "no_op"},
              key : Key \cup {Absent}, log : Logs \cup {Absent}, recent : BOOLEAN]
Suggested == [status : {"pending", "dismissed", "accepted"}, surface : Surfaces,
              delivery : {"not_attempted", "delivered", "failed"}]

ASSUME AbsentAssumption == Absent \notin Suggested

NoEvaluation == [pc |-> "idle", request |-> Absent, log |-> Absent,
                 surface |-> Absent, status |-> Absent,
                 cooling |-> {}, disliked |-> {}]

\* "source_type" stands for the rule as well: each rule has one.
CooldownKey(e, s) == [source |-> SourceOf[e], surface |-> s, subject |-> SubjectOf[e]]

InitiativeInit ==
  /\ prefs \in {Absent} \cup SUBSET Surfaces
  /\ initiative = [q \in RequestNames |-> Absent]
  /\ decision = <<>> /\ suggestion = [e \in Logs |-> Absent]
  /\ disliked = {} /\ rating = {} /\ crowded = {}
  /\ evaluation = [k \in Evaluations |-> NoEvaluation]

-----------------------------------------------------------------------------
(* Readers.                                                                 *)

RecentKeys == {decision[i].key : i \in {j \in DOMAIN decision :
                 decision[j].status = "created" /\ decision[j].recent}}

\* Faulty variants: a retry does not look for the decisions it made; the
\* cooldown asks for decisions that were suppressed.
NoDecisions(q) == {}
CoolingSuppressed(key) == \E i \in DOMAIN decision :
  decision[i].key = key /\ decision[i].status = "suppressed" /\ decision[i].recent

DecisionsOf(q) == {i \in DOMAIN decision : decision[i].request = q}
Cooling(key)   == key \in RecentKeys

\* The surface asked for if it is allowed, else telegram if that is.
DeliverySurface(asked, allowed) ==
  CASE asked \in allowed      -> asked
    [] "telegram" \in allowed -> "telegram"
    [] OTHER                  -> Absent

-----------------------------------------------------------------------------
(* evaluate_event.  A log of another owner, or none, is answered with an    *)
(* empty result before anything is written.                                 *)

NoteRequest(k, q, e, asked) ==
  /\ evaluation[k] = NoEvaluation
  /\ initiative' = [initiative EXCEPT ![q] = e]
  /\ evaluation' = [evaluation EXCEPT ![k] =
       [NoEvaluation EXCEPT !.pc = "list", !.request = q, !.log = e,
          !.surface = asked, !.cooling = RecentKeys, !.disliked = disliked]]
  /\ crowded' = crowded \cup
       {r \in {q} : \E l \in Evaluations : evaluation[l].request = r}
  /\ UNCHANGED <<prefs, decision, suggestion, disliked, rating>>

\* The call goes on at "to"; evaluating writes no table.
Step(k, to, surface, status) ==
  /\ evaluation' = [evaluation EXCEPT ![k].pc = to, ![k].surface = surface,
                                      ![k].status = status]
  /\ UNCHANGED <<prefs, initiative, decision, suggestion, disliked, rating, crowded>>

AnswerAgain(k) ==
  /\ evaluation[k].pc = "list" /\ DecisionsOf(evaluation[k].request) # {}
  /\ evaluation' = [evaluation EXCEPT ![k] = NoEvaluation]
  /\ UNCHANGED <<prefs, initiative, decision, suggestion, disliked, rating, crowded>>

FindNoDecision(k) ==
  /\ evaluation[k].pc = "list" /\ DecisionsOf(evaluation[k].request) = {}
  /\ Step(k, "prefs", evaluation[k].surface, Absent)

ReadPrefs(k) ==
  LET c == evaluation[k]
      s == DeliverySurface(c.surface, prefs)
  IN /\ c.pc = "prefs"
     /\ \/ prefs = Absent /\ Step(k, "record", Absent, "suppressed")
        \/ prefs # Absent /\ s = Absent /\ Step(k, "record", Absent, "suppressed")
        \/ /\ prefs # Absent /\ s # Absent
           /\ IF SourceOf[c.log] = "other" THEN Step(k, "record", Absent, "no_op")
              ELSE Step(k, "score", s, Absent)

\* git: what retrieval finds, against min_score; portfolio: the payload's drift
\* against the preferences' or the profile's threshold.  Any outcome may be.
ScoreGit(k) ==
  LET c == evaluation[k] IN
  /\ c.pc = "score" /\ SourceOf[c.log] = "git"
  /\ Step(k, "record", c.surface, "suppressed") \/ Step(k, "cooldown", c.surface, Absent)

ScorePortfolio(k) ==
  LET c == evaluation[k] IN
  /\ c.pc = "score" /\ SourceOf[c.log] = "portfolio"
  /\ Step(k, "record", c.surface, "suppressed") \/ Step(k, "cooldown", c.surface, Absent)

ReadCooldown(k) ==
  LET c == evaluation[k] IN
  /\ c.pc = "cooldown"
  /\ IF Cooling(CooldownKey(c.log, c.surface))
     THEN Step(k, "record", c.surface, "suppressed")
     ELSE Step(k, "feedback", c.surface, Absent)

ReadFeedback(k) ==
  LET c == evaluation[k] IN
  /\ c.pc = "feedback"
  /\ IF CooldownKey(c.log, c.surface) \in disliked
     THEN Step(k, "record", c.surface, "suppressed")
     ELSE Step(k, "suggest", c.surface, Absent)

\* create_proactive_suggestion: an existing row keeps its status and delivery.
Upserted(e, s) ==
  IF suggestion[e] = Absent
  THEN [status |-> "pending", surface |-> s, delivery |-> "not_attempted"]
  ELSE [suggestion[e] EXCEPT !.surface = s]

Suggest(k) ==
  LET c == evaluation[k] IN
  /\ c.pc = "suggest"
  /\ suggestion' = [suggestion EXCEPT ![c.log] = Upserted(c.log, c.surface)]
  /\ evaluation' = [evaluation EXCEPT ![k].pc = "record", ![k].status = "created"]
  /\ UNCHANGED <<prefs, initiative, decision, disliked, rating, crowded>>

\* _record_decision.  A decision for which no rule was asked has no key.
RecordDecision(k) ==
  LET c == evaluation[k] IN
  /\ c.pc = "record" /\ Len(decision) < MaxDecisions
  /\ decision' = Append(decision,
       [request |-> c.request, status |-> c.status, recent |-> TRUE,
        key |-> IF c.surface = Absent THEN Absent ELSE CooldownKey(c.log, c.surface),
        log |-> IF c.status = "created" THEN c.log ELSE Absent])
  /\ evaluation' = [evaluation EXCEPT ![k] = NoEvaluation]
  /\ UNCHANGED <<prefs, initiative, suggestion, disliked, rating, crowded>>

LoseEvaluation(k) ==
  /\ evaluation[k] # NoEvaluation
  /\ evaluation' = [evaluation EXCEPT ![k] = NoEvaluation]
  /\ UNCHANGED <<prefs, initiative, decision, suggestion, disliked, rating, crowded>>

-----------------------------------------------------------------------------
(* Feedback, delivery, preferences and time.                                *)

\* record_proactive_feedback
Answered(e, t) ==
  [suggestion EXCEPT ![e].status = IF t \in {"dismissed", "accepted"} THEN t ELSE @]

AnswerSuggestion(e, t) ==
  /\ suggestion[e] # Absent
  /\ suggestion' = Answered(e, t)
  /\ UNCHANGED <<prefs, initiative, decision, disliked, rating, evaluation, crowded>>

\* POST /v1/initiative/feedback: the suggestion's answer first, then the
\* decision's feedback, in two transactions.
RateDecision(i, t) ==
  /\ i \in DOMAIN decision
  /\ suggestion' = IF decision[i].log = Absent THEN suggestion
                   ELSE Answered(decision[i].log, t)
  /\ rating' = rating \cup {<<i, t>>}
  /\ UNCHANGED <<prefs, initiative, decision, disliked, evaluation, crowded>>

RecordRating(i, t) ==
  /\ <<i, t>> \in rating
  /\ rating' = rating \ {<<i, t>>}
  /\ disliked' = IF t \in {"dismissed", "not_useful"} /\ decision[i].key # Absent
                 THEN disliked \cup {decision[i].key} ELSE disliked
  /\ UNCHANGED <<prefs, initiative, decision, suggestion, evaluation, crowded>>

LoseRating(i, t) ==
  /\ <<i, t>> \in rating
  /\ rating' = rating \ {<<i, t>>}
  /\ UNCHANGED <<prefs, initiative, decision, suggestion, disliked, evaluation, crowded>>

AttemptDelivery(e, result) ==
  /\ suggestion[e] # Absent
  /\ suggestion' = [suggestion EXCEPT ![e].delivery = result]
  /\ UNCHANGED <<prefs, initiative, decision, disliked, rating, evaluation, crowded>>

PutPreferences(p) ==
  /\ prefs' = p
  /\ UNCHANGED <<initiative, decision, suggestion, disliked, rating, evaluation, crowded>>

\* The cooldown of a key's decisions, or the lookback of its feedback, is over.
CooldownEnds(key) ==
  /\ Cooling(key)
  /\ decision' = [i \in DOMAIN decision |->
       [decision[i] EXCEPT !.recent = @ /\ decision[i].key # key]]
  /\ evaluation' = [k \in Evaluations |-> [evaluation[k] EXCEPT !.cooling = @ \ {key}]]
  /\ UNCHANGED <<prefs, initiative, suggestion, disliked, rating, crowded>>

LookbackEnds(key) ==
  /\ key \in disliked
  /\ disliked' = disliked \ {key}
  /\ evaluation' = [k \in Evaluations |-> [evaluation[k] EXCEPT !.disliked = @ \ {key}]]
  /\ UNCHANGED <<prefs, initiative, decision, suggestion, rating, crowded>>

InitiativeNext ==
  \/ \E k \in Evaluations :
       \/ \E q \in RequestNames, e \in Logs, s \in Surfaces \cup {Absent} :
            NoteRequest(k, q, e, s)
       \/ AnswerAgain(k) \/ FindNoDecision(k) \/ ReadPrefs(k)
       \/ ScoreGit(k) \/ ScorePortfolio(k) \/ ReadCooldown(k) \/ ReadFeedback(k)
       \/ Suggest(k) \/ RecordDecision(k) \/ LoseEvaluation(k)
  \/ \E e \in Logs, t \in FeedbackTypes : AnswerSuggestion(e, t)
  \/ \E i \in 1..MaxDecisions, t \in FeedbackTypes :
       RateDecision(i, t) \/ RecordRating(i, t) \/ LoseRating(i, t)
  \/ \E e \in Logs, d \in {"delivered", "failed"} : AttemptDelivery(e, d)
  \/ \E p \in {Absent} \cup SUBSET Surfaces : PutPreferences(p)
  \/ \E key \in Key : CooldownEnds(key) \/ LookbackEnds(key)

InitiativeSpec == InitiativeInit /\ [][InitiativeNext]_initVars

-----------------------------------------------------------------------------
(* Properties.                                                              *)

\* Rows hold what their columns allow, and a decision's suggestion exists.
InitiativeTypeOK ==
  /\ decision \in Seq(Decision)
  /\ suggestion \in [Logs -> Suggested \cup {Absent}]
  /\ \A i \in DOMAIN decision :
       decision[i].log # Absent => suggestion[decision[i].log] # Absent
  /\ disliked \subseteq Key /\ crowded \subseteq RequestNames

\* A request that is retried, after an answer or after a call lost anywhere,
\* is decided once: what two calls evaluate at the same time is excepted.
DecidedOnce ==
  \A i, j \in DOMAIN decision :
    decision[i].request = decision[j].request /\ i # j
      => decision[i].request \in crowded

\* A suggestion is decided on only if, when its evaluation began, its subject
\* was neither in the cooldown of an earlier one nor disliked, unless that
\* time is over: only evaluations and feedback that overlap escape each other.
Created(k) == decision' # decision /\ evaluation[k].pc = "record"
              /\ evaluation'[k] = NoEvaluation /\ evaluation[k].status = "created"

SubjectsAreLeftAlone ==
  [][\A k \in Evaluations : Created(k) =>
       LET c == evaluation[k] IN
       CooldownKey(c.log, c.surface) \notin c.cooling \cup c.disliked]_initVars

-----------------------------------------------------------------------------
(* What a call under way relies on; the proofs use it.                      *)

Evaluation == [pc : {"idle", "list", "prefs", "score", "cooldown", "feedback",
                     "suggest", "record"},
               request : RequestNames \cup {Absent}, log : Logs \cup {Absent},
               surface : Surfaces \cup {Absent},
               status : {"created", "suppressed", "no_op", Absent},
               cooling : SUBSET (Key \cup {Absent}), disliked : SUBSET Key]

\* A call that has found its decision to be "created", or may yet.
MayCreate(c) == c.pc \in {"feedback", "suggest"} \/ (c.pc = "record" /\ c.status = "created")

\* Past its first step a call has a log and a request, for which there is no
\* decision if no other call serves it; it has a surface while rules are asked;
\* a key it has found clear was clear when the call began; and its suggestion
\* is there before its decision.
CallOK(c) ==
  /\ c.pc # "idle" => c.request \in RequestNames /\ c.log \in Logs
  /\ c.pc = "record" => c.status \in {"created", "suppressed", "no_op"}
  /\ c.pc \notin {"idle", "list"} => DecisionsOf(c.request) = {} \/ c.request \in crowded
  /\ c.pc \in {"score", "cooldown"} \/ MayCreate(c) => c.surface \in Surfaces \ {Absent}
  /\ c.cooling \subseteq RecentKeys /\ c.disliked \subseteq disliked
  /\ MayCreate(c) => CooldownKey(c.log, c.surface) \notin c.cooling
  /\ MayCreate(c) /\ c.pc # "feedback" => CooldownKey(c.log, c.surface) \notin c.disliked
  /\ MayCreate(c) /\ c.pc = "record" => suggestion[c.log] # Absent

OneCallEach ==
  \A k, l \in Evaluations :
    evaluation[k].pc # "idle" /\ evaluation[l].pc # "idle"
      /\ evaluation[k].request = evaluation[l].request /\ k # l
        => evaluation[k].request \in crowded

InitiativeInv ==
  /\ InitiativeTypeOK /\ prefs \in {Absent} \cup SUBSET Surfaces
  /\ evaluation \in [Evaluations -> Evaluation]
  /\ \A r \in rating : r[1] \in DOMAIN decision
  /\ OneCallEach /\ \A k \in Evaluations : CallOK(evaluation[k])
  /\ DecidedOnce
=============================================================================
