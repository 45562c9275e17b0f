--------------------------- MODULE MCDerivations ----------------------------
(* Small instances of what the store derives, artifacts' chunks, replays of  *)
(* derived rows and suggestions, and of the two operational tools.  They     *)
(* share no variable: "part" says which one moves, so that TLC visits the    *)
(* union of their behaviours and not the product.                            *)
EXTENDS ArtifactDerivation, DerivedLifecycle, Initiative, ReindexPass, SchemaMigrations

CONSTANT d1   \* what the first derived row says

VARIABLES part

MCVars == <<part, artVars, lifeVars, initVars, passVars, migrationVars>>

\* The parts that do not move start from one of their initial states.
MCInit ==
  /\ part \in {"artifacts", "lifecycle", "initiative", "reindex", "migrations"}
  /\ ArtInit /\ LifeInit /\ InitiativeInit /\ PassInit /\ MigrationInit
  /\ part # "artifacts"  => \A f \in Files : object[f] = Opaque
  /\ part # "lifecycle"  => derived[1] = FirstRow("derived_text", d1)
  /\ part # "initiative" => prefs = Absent
  /\ part # "migrations" => tables = {}

MCNext ==
  /\ UNCHANGED part
  /\ \/ /\ part = "artifacts" /\ ArtNext
        /\ UNCHANGED <<lifeVars, initVars, passVars, migrationVars>>
     \/ /\ part = "lifecycle" /\ LifeNext
        /\ UNCHANGED <<artVars, initVars, passVars, migrationVars>>
     \/ /\ part = "initiative" /\ InitiativeNext
        /\ UNCHANGED <<artVars, lifeVars, passVars, migrationVars>>
     \/ /\ part = "reindex" /\ PassNext
        /\ UNCHANGED <<artVars, lifeVars, initVars, migrationVars>>
     \/ /\ part = "migrations" /\ MigrationNext
        /\ UNCHANGED <<artVars, lifeVars, initVars, passVars>>

MCSpec == MCInit /\ [][MCNext]_MCVars

-----------------------------------------------------------------------------
\* One event of each kind, about one subject.
CONSTANTS git1, portfolio1, other1, subject1

MCSource  == (git1 :> "git") @@ (portfolio1 :> "portfolio") @@ (other1 :> "other")
MCSubject == (git1 :> subject1) @@ (portfolio1 :> subject1) @@ (other1 :> subject1)

\* Migrations: an older checkout, a newer one that has a version between two of
\* its, and one whose last file was edited after it was released.
CONSTANTS older, newer, edited, base1, base2, f1, f2, f3, f3edited

MCManaged == (older :> (1 :> f1 @@ 2 :> NoFile @@ 3 :> f3))
          @@ (newer :> (1 :> f1 @@ 2 :> f2 @@ 3 :> f3))
          @@ (edited :> (1 :> f1 @@ 2 :> NoFile @@ 3 :> f3edited))
MCBaseline == (older :> base1) @@ (newer :> base2) @@ (edited :> base2)
MCCompatible == (older :> {}) @@ (newer :> {base1}) @@ (edited :> {base1})

\* The callers and the requests of the parts have the same names: the fewer the
\* permutations, the faster every state.
Symmetry == Permutations(DeriveCalls) \cup Permutations(RequestIds)

ASSUME SharedNames ==
  /\ Replays = DeriveCalls /\ Evaluations = DeriveCalls /\ Runners = DeriveCalls
  /\ RequestNames = RequestIds

-----------------------------------------------------------------------------
\* Artifacts share no row and no point: one at a time is enough.  No step of
\* a call reads the artifact's status, so it is explored only where a property
\* does: a status the client sets before there are rows, a completion while no
\* calls have overlapped (a call lost before Complete stands for one after it).
\* One chunk at most is invalidated, and none of overlapped calls; calls that
\* overlap write at most three rows, none left half built by a lost call.
OneArtifact ==
  /\ Cardinality({a \in Artifacts : artifact[a] # Nil}) <= 1
  /\ \A a \in Artifacts : artifact[a] = "failed" => text = <<>>
  /\ \A a \in overlapped : artifact[a] = "pending"
  /\ Cardinality({t \in DOMAIN text : text[t].status = "invalidated"})
       <= IF overlapped = {} THEN 1 ELSE 0
  /\ overlapped # {} =>
       /\ Len(text) <= 3
       /\ \A t \in DOMAIN text :
            text[t].status = "building" => \E k \in DeriveCalls : t \in Range(call[k].built)

\* Replacements are not replayed in their turn.
OneGeneration ==
  \A d \in DOMAIN derived : d > 1 =>
    derived[d].events = {} /\ \A k \in Replays : replaying[k].row # d

\* The rules of two kinds meet only through what an owner has decided of one
\* subject: one event at a time, and of what follows on a decision (ratings,
\* answers, delivery) one thing at a time.  Preferences are put off and on until
\* there is a decision.
Named == {initiative[q] : q \in RequestNames} \cup {decision[i].log : i \in DOMAIN decision}
           \cup {evaluation[k].log : k \in Evaluations}
           \cup {e \in Logs : suggestion[e] # Absent}

OneEvent ==
  /\ decision # <<>> => prefs = Surfaces
  /\ Cardinality(Named \ {Absent}) <= 1
  /\ portfolio1 \in Named => Len(decision) <= 1 /\ crowded = {}
  /\ Cardinality(rating) <= 1
  /\ rating # {} => \E k \in Evaluations : evaluation[k] = NoEvaluation
  /\ \A r \in rating : r[2] \in {"accepted", "not_useful"}
  /\ \A e \in Logs : suggestion[e] # Absent =>
       /\ suggestion[e].status # "accepted"
       /\ suggestion[e].delivery # "not_attempted" =>
            /\ Len(decision) <= 1 /\ rating = {} /\ disliked = {}
            /\ suggestion[e].status = "pending"
  /\ \A k \in Evaluations :
       evaluation[k].pc \in {"list", "prefs"} => evaluation[k].surface = Absent

SmallInstance == OneArtifact /\ OneGeneration /\ OneEvent
=============================================================================
