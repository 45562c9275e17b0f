----------------------------- MODULE MCAnswers -----------------------------
(* Small instances of what answers are made from: memory items, retrieval,   *)
(* its policy filters and the rules that score.  They share no variable:     *)
(* "part" says which one moves, so that TLC visits the union of their        *)
(* behaviours and not the product.                                           *)
EXTENDS MemoryItems, Retrieval, RetrievalPolicy, Decisions, TLC

VARIABLES part

MCVars == <<part, itemVars, retrievalVars, policy, decisionVars>>

\* The parts that do not move start from one of their initial states.
MCInit == /\ part \in {"items", "retrieval", "policy", "decisions"}
          /\ ItemInit /\ RetrievalInit /\ PolicyInit /\ DecisionInit
          /\ part # "retrieval" => published = {}

MCNext ==
  /\ UNCHANGED part
  /\ \/ part = "items"     /\ ItemNext      /\ UNCHANGED <<retrievalVars, policy, decisionVars>>
     \/ part = "retrieval" /\ RetrievalNext /\ UNCHANGED <<itemVars, policy, decisionVars>>
     \/ part = "policy"    /\ PolicyNext    /\ UNCHANGED <<itemVars, retrievalVars, decisionVars>>
     \/ part = "decisions" /\ DecisionNext  /\ UNCHANGED <<itemVars, retrievalVars, policy>>

MCSpec == MCInit /\ [][MCNext]_MCVars

Symmetry == Permutations(Items) \cup Permutations(Sources)
=============================================================================
