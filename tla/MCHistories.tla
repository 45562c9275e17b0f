---------------------------- MODULE MCHistories ----------------------------
(* Small instances of the histories the store keeps: episodes, events and    *)
(* claims.  They share no variable: "part" says which one moves, so that TLC *)
(* visits the union of their behaviours and not the product.                 *)
EXTENDS Episodes, EventIngest, MCClaimHistory

VARIABLES part

MCVars == <<part, episodeVars, ingestVars, claimVars>>

MCInit == /\ part \in {"episodes", "events", "claims"}
          /\ EpisodeInit /\ IngestInit /\ ClaimInit

MCNext ==
  /\ UNCHANGED part
  /\ \/ part = "episodes" /\ EpisodeNext /\ UNCHANGED <<ingestVars, claimVars>>
     \/ part = "events"   /\ IngestNext  /\ UNCHANGED <<episodeVars, claimVars>>
     \/ part = "claims"   /\ ClaimNext   /\ UNCHANGED <<episodeVars, ingestVars>>

MCSpec == MCInit /\ [][MCNext]_MCVars

-----------------------------------------------------------------------------
\* Two requests over overlapping evidence.
CONSTANTS e1, e2

MCAccepted == (q1 :> <<e1, e2>>) @@ (q2 :> <<e2>>)

\* The calls of two parts have the same names.
Symmetry == Permutations(Calls)

ASSUME SharedNames == Extracts = Calls

\* Two episodes have at most four events between them.  One answer, not the first,
\* is of the other conversation, of which no trace is: it can be named, and own no
\* record.  The first answer is not of the second request, which no claim about it
\* names; the last, which none can name, is stored as canonical and stays so.
SmallInstance ==
  /\ Len(episode) = 2 => Len(history[1]) + Len(history[2]) <= 4
  /\ Cardinality({m \in DOMAIN answer : answer[m].scope # s1}) <= 1
  /\ answer # <<>> => answer[1].scope = s1 /\ answer[1].request # q2
  /\ Len(answer) = MaxAnswers => answer[MaxAnswers].state = "canonical"
=============================================================================
