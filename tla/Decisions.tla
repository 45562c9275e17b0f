----------------------------- MODULE Decisions -----------------------------
(* What the rules decide from scores: whether a memory may be mentioned,     *)
(* whether an episode is called back, whether a candidate is promoted.       *)
(* Scores are clamped to [0, 1] before they are read; they are hundredths    *)
(* here, and the weights of the sums are integers.                           *)
EXTENDS Integers, FiniteSets

CONSTANTS Scores,     \* the scores that are tried
          Undecided

ASSUME ScoresAssumption == Scores \subseteq 0..100

VARIABLES question, decision

decisionVars == <<question, decision>>

-----------------------------------------------------------------------------
(* recall                                                                    *)

RecallScores == {"relevance", "salience", "recency"}
RecallQuestions ==
  [scores : [RecallScores -> Scores], sensitivity : {"low", "medium", "high"},
   urgent : BOOLEAN, blocked : BOOLEAN,  \* the surface is among the blocked ones
   sensitive : BOOLEAN,                  \* allow_sensitive_mention
   callback : BOOLEAN]                   \* explicit_callback_allowed

Mentionability(s) == 60 * s["relevance"] + 25 * s["salience"] + 15 * s["recency"]

\* select_recall_decision
Recall(q) ==
  LET relevance == q.scores["relevance"]
      value == Mentionability(q.scores)
  IN  IF relevance < 35 \/ q.blocked THEN "suppress"
      ELSE IF q.sensitivity = "high"
           THEN IF q.sensitive THEN "implicit_only" ELSE "suppress"
      ELSE IF q.sensitivity = "medium" \/ (q.urgent /\ relevance < 90) THEN "implicit_only"
      ELSE IF value >= 8200 /\ ~q.urgent /\ q.callback THEN "explicit_callback"
      ELSE IF value >= 6000 THEN "light_callback"
      ELSE "implicit_only"

-----------------------------------------------------------------------------
(* episode callbacks                                                         *)

CallbackScores == {"relevance", "confidence", "continuity", "recency", "ease"}
\* "ease" is what awkwardness_score lacks to be 1.
CallbackQuestions ==
  [scores : [CallbackScores -> Scores], unresolved : BOOLEAN, elsewhere : BOOLEAN]

\* Faulty variant: a stale episode is deferred, whatever was decided before.
BarredUnlessStale(s) ==
  s["recency"] >= 20 /\ (s["confidence"] < 45 \/ s["relevance"] < 35 \/ s["ease"] <= 35)

Barred(s) == s["confidence"] < 45 \/ s["relevance"] < 35 \/ s["ease"] <= 35
Weak(s, unresolved) == \/ s["relevance"] < 50 \/ (s["recency"] < 20 /\ ~unresolved)
                       \/ s["continuity"] < 35 /\ ~unresolved

\* evaluate_episode_callback: a later rule never lifts what an earlier one said.
\* An unresolved episode has a continuity of 0.68 at least.
Callback(q) ==
  IF Barred(q.scores) \/ q.elsewhere THEN "suppress"
  ELSE IF Weak(q.scores, q.unresolved) THEN "defer"
  ELSE IF q.unresolved /\ q.scores["relevance"] >= 55 THEN "explicit_callback"
  ELSE "light_callback"

-----------------------------------------------------------------------------
(* memory promotion                                                          *)

Factors == {"recurrence", "utility", "usefulness", "project", "identity", "procedural",
            "instruction", "correction"}
\* A factor is what the candidate's flags and text signal, unless the request
\* gives a score for it: each may be given, whatever is signalled.
\* "supported" is evidence that is not denied; "short" a text of under 28 letters;
\* "signal" says that flags or text signal something.
PromotionQuestions ==
  [scores : [Factors -> Scores], supported : BOOLEAN, short : BOOLEAN, signal : BOOLEAN,
   known : BOOLEAN]

\* "usefulness" is future_usefulness; where no score is given, it is the utility too.
PromotionScore(s) ==
  14 * s["recurrence"] + 18 * s["utility"] + 18 * s["usefulness"] + 11 * s["project"]
    + 10 * s["identity"] + 13 * s["procedural"] + 10 * s["instruction"] + 6 * s["correction"]

\* The scores that the request gives do not save a short candidate.
Trivial(q) == q.short /\ ~q.signal
StrongSignal(s) == \/ s["recurrence"] >= 75 \/ s["procedural"] >= 60
                   \/ s["instruction"] >= 90 \/ s["correction"] >= 75
WorthKeeping(s) ==
  \/ s["instruction"] >= 90 \/ PromotionScore(s) >= 5800 \/ s["correction"] >= 75
  \/ s["recurrence"] >= 75 /\ s["usefulness"] >= 60
  \/ s["procedural"] >= 60

\* evaluate_promotion_candidate
Promotion(q) ==
  IF \/ ~q.supported \/ Trivial(q)
     \/ PromotionScore(q.scores) < 3000 /\ ~StrongSignal(q.scores)
  THEN "suppress"
  ELSE IF ~WorthKeeping(q.scores) THEN "defer"
  ELSE IF q.known THEN "update" ELSE "promote"

-----------------------------------------------------------------------------
DecisionInit == question = Undecided /\ decision = Undecided

Conclude(rule, q, answer) ==
  question' = [rule |-> rule, asked |-> q] /\ decision' = answer

SelectRecall ==
  question = Undecided /\ \E q \in RecallQuestions : Conclude("recall", q, Recall(q))
EvaluateCallback ==
  question = Undecided /\ \E q \in CallbackQuestions : Conclude("callback", q, Callback(q))
EvaluatePromotion ==
  question = Undecided /\ \E q \in PromotionQuestions : Conclude("promotion", q, Promotion(q))

DecisionNext == SelectRecall \/ EvaluateCallback \/ EvaluatePromotion

DecisionSpec == DecisionInit /\ [][DecisionNext]_decisionVars

-----------------------------------------------------------------------------
Rank(d) == IF d = "suppress" THEN 0
           ELSE IF d \in {"implicit_only", "defer"} THEN 1
           ELSE IF d = "explicit_callback" THEN 3 ELSE 2

Verdict(rule, q) == IF rule = "recall" THEN Recall(q)
                   ELSE IF rule = "callback" THEN Callback(q) ELSE Promotion(q)

\* A question with a better score; a promotion's score may also be better because
\* the candidate signals something.
WithScore(q, f, s) == [q EXCEPT !.scores[f] = s]
Improved(rule, q, f, s) ==
  {WithScore(q, f, s)} \cup
    IF rule = "promotion" THEN {[WithScore(q, f, s) EXCEPT !.signal = TRUE]} ELSE {}

\* However thresholds, caps and exceptions combine: a better score, given or
\* signalled, all else equal, never makes a decision worse.
ScoresNeverHurt ==
  question # Undecided =>
    \A f \in DOMAIN question.asked.scores, s \in Scores :
      s > question.asked.scores[f] =>
        \A p \in Improved(question.rule, question.asked, f, s) :
          Rank(Verdict(question.rule, p)) >= Rank(decision)

-----------------------------------------------------------------------------
\* What ScoresNeverHurt stands on: a decision is the verdict on its question.
Questions(rule) == IF rule = "recall" THEN RecallQuestions
                   ELSE IF rule = "callback" THEN CallbackQuestions
                   ELSE PromotionQuestions

DecisionInv ==
  question # Undecided =>
    /\ question.rule \in {"recall", "callback", "promotion"}
    /\ question.asked \in Questions(question.rule)
    /\ decision = Verdict(question.rule, question.asked)
=============================================================================
