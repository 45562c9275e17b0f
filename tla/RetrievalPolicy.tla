-------------------------- MODULE RetrievalPolicy --------------------------
(* A mandatory policy is enforced four times over: by the filter on points   *)
(* of the index, by two WHERE clauses on rows, and by a check in Python of    *)
(* what the index led to.  Labels are normalised by the models before any of *)
(* them sees a record or a policy, so they are values here.                  *)
EXTENDS Integers, FiniteSets

CONSTANTS Domains, Classes, Entities, Relationships, RelationScopes, Unset

ASSUME ScopesAssumption == IsFiniteSet(RelationScopes)

VARIABLES policy  \* the policy of the request being served

-----------------------------------------------------------------------------
(* What the request models accept                                            *)

Sensitivities == <<"low", "medium", "high", "restricted">>
SensitivitySet == {"low", "medium", "high", "restricted"}

\* RetrievalRecordPolicyMetadata: the columns of messages and artifacts.
Metadata ==
  [domains : SUBSET Domains \ {{}}, sensitivity : SensitivitySet,
   class : Classes \cup {Unset}, entities : SUBSET Entities,
   relationships : SUBSET Relationships, scopes : SUBSET RelationScopes]

\* ArtifactAccessPolicyInput
ArtifactRules ==
  [domains : SUBSET Domains, classes : SUBSET Classes, capabilities : SUBSET Classes,
   maximum : SensitivitySet]

\* RelationshipRetrievalScopeProjectionInput: applied, it names something; not
\* applied, what it names is ignored.
Projections ==
  {p \in [applied : BOOLEAN, entities : SUBSET Entities,
          relationships : SUBSET Relationships, scopes : SUBSET RelationScopes] :
     /\ p.applied => p.entities \cup p.relationships # {}
     /\ ~p.applied => p.entities \cup p.relationships \cup p.scopes = {}}

\* RetrievalContainmentPolicy
ContainmentPolicies ==
  [allowed : SUBSET Domains, blocked : SUBSET Domains, artifacts : ArtifactRules,
   projection : Projections]

-----------------------------------------------------------------------------
\* _sensitivity_values_through
SensitivitiesThrough(maximum) ==
  {Sensitivities[i] : i \in {j \in 1..3 : \E k \in j..4 : Sensitivities[k] = maximum}}

\* _containment_filter
FilterOf(p, artifact) ==
  LET allowed == IF artifact THEN p.allowed \cap p.artifacts.domains ELSE p.allowed
      classes == IF artifact THEN p.artifacts.classes \cap p.artifacts.capabilities ELSE {}
  IN  [allowed |-> allowed, blocked |-> p.blocked, classes |-> classes,
       sensitivities |-> IF artifact THEN SensitivitiesThrough(p.artifacts.maximum)
                                     ELSE {"low", "medium", "high"},
       projection |-> p.projection,
       empty |-> artifact /\ (allowed = {} \/ classes = {})]

Overlap(S, T) == S \cap T # {}

\* The relationship part, the same in Python: an unscoped record passes any scope.
InProjection(m, r) ==
  r.applied => /\ Overlap(m.relationships, r.relationships) \/ Overlap(m.entities, r.entities)
               /\ \/ r.scopes = {} \/ m.scopes = {}
                  \/ Overlap(m.scopes, r.scopes)

\* _record_allowed_by_filter
AllowedByFilter(m, f, artifact) ==
  /\ Overlap(m.domains, f.allowed) /\ ~Overlap(m.domains, f.blocked)
  /\ m.sensitivity # "restricted" /\ m.sensitivity \in f.sensitivities
  /\ artifact => m.class \in f.classes
  /\ InProjection(m, f.projection)

\* An empty list of sensitivities is not one: it stands for the three below
\* restricted, in the two SQL clauses and in the filter of the index.
OrOpen(S) == IF S = {} THEN {"low", "medium", "high"} ELSE S

\* _append_json_policy_where, and the same clauses in get_recent_message_items.
SelectedBySql(m, f) ==
  /\ f.allowed # {} /\ Overlap(m.domains, f.allowed)
  /\ ~Overlap(m.domains, f.blocked)
  /\ m.sensitivity \in OrOpen(f.sensitivities)
  /\ f.projection.applied =>
       /\ Overlap(m.relationships, f.projection.relationships)
            \/ Overlap(m.entities, f.projection.entities)
       /\ f.projection.scopes # {} =>
            Cardinality(m.scopes) = 0 \/ Overlap(m.scopes, f.projection.scopes)

\* Faulty variant: the point leaves the scopes out.
UnscopedPointOf(m) ==
  [domains |-> m.domains, sensitivity |-> m.sensitivity, class |-> m.class,
   entities |-> m.entities, relationships |-> m.relationships, scopes |-> {}]

\* _policy_payload: what a point carries of its record's metadata.
PointOf(m) ==
  [domains |-> m.domains, sensitivity |-> m.sensitivity, class |-> m.class,
   entities |-> m.entities, relationships |-> m.relationships, scopes |-> m.scopes]

\* _append_policy_filter
FoundByIndex(point, f) ==
  /\ f.allowed # {} /\ Overlap(point.domains, f.allowed)
  /\ ~Overlap(point.domains, f.blocked)
  /\ point.sensitivity \in OrOpen(f.sensitivities)
  /\ f.classes # {} => point.class \in f.classes
  /\ f.projection.applied =>
       /\ Overlap(point.relationships, f.projection.relationships)
            \/ Overlap(point.entities, f.projection.entities)
       /\ f.projection.scopes # {} =>
            point.scopes = {} \/ Overlap(point.scopes, f.projection.scopes)

-----------------------------------------------------------------------------
\* A request brings a policy; the filters are made from it.
PolicyInit == policy = Unset

Supply == policy = Unset /\ policy' \in ContainmentPolicies

PolicyNext == Supply

PolicySpec == PolicyInit /\ [][PolicyNext]_policy

\* Whatever the policy and the record, the clauses, the index and the check say
\* the same: no enforcement shows what another hides, and none that narrows a
\* search before the check loses a record the check would have let through.
FiltersAgree ==
  policy # Unset =>
    LET messages == FilterOf(policy, FALSE)
        artifacts == FilterOf(policy, TRUE)
    IN \A m \in Metadata :
         LET allowed == AllowedByFilter(m, messages, FALSE)
         IN /\ SelectedBySql(m, messages) = allowed
            /\ FoundByIndex(PointOf(m), messages) = allowed
            /\ ~artifacts.empty =>
                 FoundByIndex(PointOf(m), artifacts) = AllowedByFilter(m, artifacts, TRUE)

\* What FiltersAgree stands on.
PolicyInv == policy # Unset => policy \in ContainmentPolicies
=============================================================================
