------------------------- MODULE ArtifactDerivation -------------------------
(* Artifacts, the bytes behind them, and the chunks of text derived from     *)
(* them.  A completion call reads the object, then builds its chunks row by  *)
(* row: each row, each vector and each update is its own transaction or      *)
(* request, calls overlap, and a call can be lost between any two of them.   *)
EXTENDS Integers, FiniteSets, SequencesExt

CONSTANTS Uploads,       \* artifacts whose bytes a client uploads
          Files,         \* artifacts of ingested local files
          DeriveCalls,   \* concurrent calls of a handler
          MaxChunks,     \* bound: chunks of a text
          MaxTexts,      \* bound: rows of derived_text
          Binary,        \* an object: text in no valid encoding
          Resized,       \* an object: not of the size that was announced
          Opaque,        \* an object: too large, or of no type text is derived of
          Nil            \* no row, no object, no artifact

Artifacts == Uploads \cup Files

VARIABLES object,    \* what the object store, or the disk, holds
          artifact,  \* artifacts: the status column
          text,      \* derived_text, in the order its rows were inserted
          point,     \* Qdrant: the point of each chunk of each artifact
          call,      \* the completion or ingestion calls under way
          overlapped \* history: artifacts two calls have worked on at once

artVars == <<object, artifact, text, point, call, overlapped>>

\* A number is a text of so many chunks.
Objects == {Binary, Resized, Opaque} \cup 0..MaxChunks

TextRow == [artifact : Artifacts, index : 1..MaxChunks, attempt : 1..MaxTexts,
            status : {"building", "active", "failed", "superseded", "invalidated"},
            indexing : {"pending", "indexed", "incomplete"},
            expected : 1..MaxChunks]

Idle == [pc |-> "idle", artifact |-> Nil, chunks |-> 0, stale |-> <<>>,
         built |-> <<>>, published |-> 0]

\* What Qdrant holds of a chunk: the row it shows, and the status of its payload.
Point == [row : 1..MaxTexts, status : {"building", "active", "failed", "superseded"}]

ASSUME BoundsAssumption == MaxChunks \in Nat \ {0} /\ MaxTexts \in Nat \ {0}

ASSUME NilAssumption ==
  /\ Nil \notin Artifacts /\ Nil \notin {"pending", "completed", "failed"}
  /\ Nil \notin Point
  /\ {Nil, Binary, Resized, Opaque} \cap (0..MaxChunks) = {}

ArtInit ==
  /\ object \in [Artifacts -> {Nil} \cup Objects]
  /\ \A a \in Artifacts : (object[a] = Nil) = (a \in Uploads)
  /\ artifact = [a \in Artifacts |-> Nil]
  /\ text = <<>>
  /\ point = [p \in Artifacts \X (1..MaxChunks) |-> Nil]
  /\ call = [k \in DeriveCalls |-> Idle]
  /\ overlapped = {}

-----------------------------------------------------------------------------
(* What the statements read.                                                *)

At(k, pc)      == call[k].pc = pc
Goto(k, c)     == call' = [call EXCEPT ![k] = c]
Moved(k, pc)   == [call[k] EXCEPT !.pc = pc]

\* get_derived_text_for_artifact_version, by chunk index, then by insertion.
\* All derivations of one artifact have the same version.
RowsOf(a)      == {t \in DOMAIN text : text[t].artifact = a}
Precedes(t, u) == \/ text[t].index < text[u].index
                  \/ text[t].index = text[u].index /\ t < u
Existing(a)    == CHOOSE s \in [1..Cardinality(RowsOf(a)) -> RowsOf(a)] :
                    \A i, j \in DOMAIN s : i < j => Precedes(s[i], s[j])
IsCompleted(r, n) == r.status = "active" /\ r.indexing = "indexed" /\ r.index \in 1..n
Covered(a, n)  ==
  LET done == {t \in RowsOf(a) : IsCompleted(text[t], n)}
  IN  {text[t].index : t \in done} = 1..n /\ Cardinality(done) = n

AttemptRows(g) == {t \in DOMAIN text : text[t].attempt = g}
Attempt(k)     == Head(call[k].built)
PointOf(t)     == <<text[t].artifact, text[t].index>>

\* Faulty variants: a new attempt leaves the rows it replaces alone, or an
\* update forgets that the vector is written.
NothingStale(a, n) == <<>>
ForgetIndexed(k) ==
  /\ At(k, "index")
  /\ Goto(k, Moved(k, "retire"))
  /\ UNCHANGED <<object, artifact, text, point, overlapped>>

-----------------------------------------------------------------------------
(* Clients.                                                                 *)

\* create_artifact: every row has an identity of its own.
CreateArtifact(a, s) ==
  /\ artifact[a] = Nil
  /\ artifact' = [artifact EXCEPT ![a] = s]

\* POST /v1/artifacts/init: the row is stored before the upload is signed.
InitUpload(a) ==
  /\ a \in Uploads /\ CreateArtifact(a, "pending")
  /\ UNCHANGED <<object, text, point, call, overlapped>>

\* The client puts the bytes, and may put them again when they were refused.
PutObject(a, v) ==
  /\ artifact[a] # Nil /\ a \in Uploads
  /\ object[a] \in {Nil, Binary, Resized}
  /\ object' = [object EXCEPT ![a] = v]
  /\ UNCHANGED <<artifact, text, point, call, overlapped>>

\* POST /v1/artifacts/complete with another status than completed.
SetStatus(a, s) ==
  /\ a \in Uploads /\ artifact[a] # Nil
  /\ artifact' = [artifact EXCEPT ![a] = s]
  /\ UNCHANGED <<object, text, point, call, overlapped>>

\* An invalidation of one derived text (DerivedLifecycle has the events).
InvalidateText(t) ==
  /\ t \in DOMAIN text /\ text[t].status \notin {"superseded", "invalidated"}
  /\ text' = [text EXCEPT ![t].status = "invalidated"]
  /\ UNCHANGED <<object, artifact, point, call, overlapped>>

-----------------------------------------------------------------------------
(* A call of POST /v1/artifacts/complete or of ingest_files.                *)

\* head_object finds the announced size; read_object_bytes and UTF-8 decide
\* about text, and what is no text completes without any.
BeginComplete(k, a) ==
  /\ At(k, "idle") /\ a \in Uploads /\ artifact[a] # Nil
  /\ \/ /\ object[a] \in 0..MaxChunks
        /\ Goto(k, [Idle EXCEPT !.pc = "examine", !.artifact = a,
                               !.chunks = object[a]])
     \/ /\ object[a] = Opaque
        /\ Goto(k, [Idle EXCEPT !.pc = "complete", !.artifact = a])
  /\ overlapped' = overlapped \cup {b \in {a} : \E l \in DeriveCalls : call[l].artifact = a}
  /\ UNCHANGED <<object, artifact, text, point>>

\* A file that is not blank becomes an artifact that is completed from the
\* start; every ingestion of a file makes an artifact of its own.
BeginIngest(k, a) ==
  /\ At(k, "idle") /\ a \in Files /\ object[a] \in 1..MaxChunks
  /\ CreateArtifact(a, "completed")
  /\ Goto(k, [Idle EXCEPT !.pc = "examine", !.artifact = a, !.chunks = object[a]])
  /\ UNCHANGED <<object, text, point, overlapped>>

Finished(k) == IF call[k].artifact \in Files THEN Idle ELSE Moved(k, "complete")

\* The rows to retire are kept as they read now: <<row, was it complete>>.
Stale(a, n) == [i \in 1..Len(Existing(a)) |->
                 <<Existing(a)[i], IsCompleted(text[Existing(a)[i]], n)>>]

Examine(k) ==
  LET a == call[k].artifact
      n == call[k].chunks
  IN /\ At(k, "examine")
     /\ IF Covered(a, n)
          THEN Goto(k, Finished(k))
          ELSE Goto(k, [Moved(k, "retire") EXCEPT !.stale = Stale(a, n)])
     /\ UNCHANGED <<object, artifact, text, point, overlapped>>

\* mark_derived_text_vector_inactive, whichever row the point names by now.
RetireVector(k) ==
  /\ At(k, "retire") /\ call[k].stale # <<>>
  /\ LET t == Head(call[k].stale)[1]
         s == IF Head(call[k].stale)[2] THEN "superseded" ELSE "failed"
     IN  point' = IF point[PointOf(t)] = Nil THEN point
                  ELSE [point EXCEPT ![PointOf(t)].status = s]
  /\ Goto(k, Moved(k, "retire_row"))
  /\ UNCHANGED <<object, artifact, text, overlapped>>

\* The row's parameters are written back as they were read, but for these two.
RetireRow(k) ==
  /\ At(k, "retire_row")
  /\ LET t    == Head(call[k].stale)[1]
         done == Head(call[k].stale)[2]
     IN text' = [text EXCEPT
          ![t].status   = IF done THEN "superseded" ELSE "failed",
          ![t].indexing = IF done THEN "indexed" ELSE "incomplete"]
  /\ Goto(k, [Moved(k, "retire") EXCEPT !.stale = Tail(@)])
  /\ UNCHANGED <<object, artifact, point, overlapped>>

\* create_derived_text.  An attempt is named by its first row.
CreateText(k) ==
  LET c == call[k]
      t == Len(text) + 1
  IN /\ At(k, "retire") /\ c.stale = <<>> /\ Len(c.built) < c.chunks
     /\ Len(text) < MaxTexts
     /\ text' = Append(text,
          [artifact |-> c.artifact, index |-> Len(c.built) + 1,
           attempt |-> IF c.built = <<>> THEN t ELSE Attempt(k),
           status |-> "building", indexing |-> "pending", expected |-> c.chunks])
     /\ Goto(k, [Moved(k, "vector") EXCEPT !.built = Append(@, t)])
     /\ UNCHANGED <<object, artifact, point, overlapped>>

UpsertVector(k) ==
  /\ At(k, "vector")
  /\ LET t == Last(call[k].built)
     IN  point' = [point EXCEPT ![PointOf(t)] = [row |-> t, status |-> "building"]]
  /\ Goto(k, Moved(k, "index"))
  /\ UNCHANGED <<object, artifact, text, overlapped>>

\* create_embedding_ref, which nothing reads, and update_derived_text_params
\* with the status the row was inserted with.
MarkIndexed(k) ==
  /\ At(k, "index")
  /\ LET t == Last(call[k].built)
     IN  text' = [text EXCEPT ![t].status = "building", ![t].indexing = "indexed"]
  /\ Goto(k, Moved(k, "retire"))
  /\ UNCHANGED <<object, artifact, point, overlapped>>

Published(k) ==
  LET t == call[k].built[call[k].published + 1]
  IN  [point EXCEPT ![PointOf(t)] = [row |-> t, status |-> "active"]]

PublishVector(k) ==
  /\ At(k, "retire") /\ call[k].stale = <<>>
  /\ call[k].chunks > 0 /\ Len(call[k].built) = call[k].chunks
  /\ call[k].published < call[k].chunks
  /\ point' = Published(k)
  /\ Goto(k, [call[k] EXCEPT !.published = @ + 1])
  /\ UNCHANGED <<object, artifact, text, overlapped>>

\* activate_derived_text_attempt counts the rows, locking none; a count that
\* differs ends the call (AbandonCall).
Ready(k) ==
  Cardinality({t \in AttemptRows(Attempt(k)) :
     text[t].status = "building" /\ text[t].indexing = "indexed"}) = call[k].chunks

CountAttempt(k) ==
  /\ At(k, "retire") /\ call[k].chunks > 0
  /\ call[k].published = call[k].chunks
  /\ Ready(k)
  /\ Goto(k, Moved(k, "activate"))
  /\ UNCHANGED <<object, artifact, text, point, overlapped>>

\* Its update finds what is still being built by then.  The transaction has
\* committed when the rows it returns are counted: a call that has activated
\* fewer fails, and what it has activated stays.
Building(k) == {t \in AttemptRows(Attempt(k)) : text[t].status = "building"}

\* Faulty variant: the rows the update returns are not counted.
Uncounted(k) == Finished(k)

Activated(k) == IF Cardinality(Building(k)) = call[k].chunks THEN Finished(k) ELSE Idle

Activate(k) ==
  /\ At(k, "activate")
  /\ text' = [t \in DOMAIN text |->
       IF t \in Building(k) THEN [text[t] EXCEPT !.status = "active"] ELSE text[t]]
  /\ Goto(k, Activated(k))
  /\ UNCHANGED <<object, artifact, point, overlapped>>

Complete(k) ==
  /\ At(k, "complete")
  /\ artifact' = [artifact EXCEPT ![call[k].artifact] = "completed"]
  /\ Goto(k, Idle)
  /\ UNCHANGED <<object, text, point, overlapped>>

\* A dependency fails, a count differs, or the process stops.
AbandonCall(k) ==
  /\ call[k] # Idle
  /\ Goto(k, Idle)
  /\ UNCHANGED <<object, artifact, text, point, overlapped>>

CallStep(k) ==
  \/ Examine(k) \/ RetireVector(k) \/ RetireRow(k) \/ CreateText(k)
  \/ UpsertVector(k) \/ MarkIndexed(k) \/ PublishVector(k)
  \/ CountAttempt(k) \/ Activate(k) \/ Complete(k)

ArtNext ==
  \/ \E a \in Uploads : InitUpload(a)
  \/ \E a \in Uploads, v \in Objects : PutObject(a, v)
  \/ \E a \in Uploads, s \in {"pending", "failed"} : SetStatus(a, s)
  \/ \E t \in 1..MaxTexts : InvalidateText(t)
  \/ \E k \in DeriveCalls : \/ \E a \in Uploads : BeginComplete(k, a)
                            \/ \E a \in Files : BeginIngest(k, a)
                            \/ CallStep(k) \/ AbandonCall(k)

ArtSpec == ArtInit /\ [][ArtNext]_artVars

-----------------------------------------------------------------------------
(* Properties.                                                              *)

\* The tables, the points and the calls hold what their columns allow.
ArtTypeOK ==
  /\ object \in [Artifacts -> {Nil} \cup Objects]
  /\ artifact \in [Artifacts -> {Nil, "pending", "completed", "failed"}]
  /\ text \in Seq(TextRow)
  /\ \A p \in DOMAIN point : point[p] # Nil => point[p].row \in DOMAIN text
  /\ \A k \in DeriveCalls : Range(call[k].built) \subseteq DOMAIN text
  /\ overlapped \subseteq Artifacts

\* A derivation becomes visible as a whole or its call fails.  In the step that
\* makes chunks of an attempt active, every chunk the attempt announced exists;
\* one that does not become active, indexed, with them was invalidated, or, of
\* calls that overlap, retired by another one after the count; and then the call
\* ends without reporting a completion.
Retired == {"failed", "superseded"}

PublishedOrFailed ==
  [][\A t \in DOMAIN text' :
       text'[t].status = "active" /\ (t \notin DOMAIN text \/ text[t].status # "active")
         => LET rows == {u \in DOMAIN text' : text'[u].attempt = text'[t].attempt}
                kept == {u \in rows : text'[u].status = "active"}
            IN  /\ Cardinality(rows) = text'[t].expected
                /\ \A u \in kept : text'[u].indexing = "indexed"
                /\ \A u \in rows \ kept :
                     \/ text'[u].status = "invalidated"
                     \/ text'[u].status \in Retired /\ text'[u].artifact \in overlapped
                /\ rows # kept => \A k \in DeriveCalls :
                                    call'[k] # call[k] => call'[k] = Idle]_artVars

\* When a completion that no other call of its artifact has overlapped is about
\* to report success, each chunk's point names one row of that chunk and shows
\* it, and no other row of the artifact is active: whatever earlier calls left
\* half built is repaired, without duplicates.
CompletionIsWhole ==
  \A k \in DeriveCalls :
    LET a == call[k].artifact IN
    (At(k, "complete") /\ a \in Uploads \ overlapped) =>
      /\ \A i \in 1..call[k].chunks :
           /\ point[<<a, i>>] # Nil /\ point[<<a, i>>].status = "active"
           /\ LET t == point[<<a, i>>].row
              IN  PointOf(t) = <<a, i>> /\ text[t].status \in {"active", "invalidated"}
      /\ \A t \in RowsOf(a) : text[t].status = "active" => point[PointOf(t)].row = t

\* A retry is never refused for what earlier attempts left behind: unless it
\* is overlapped, or one of its own rows is invalidated, the count before its
\* activation agrees.
RetriesActivate ==
  \A k \in DeriveCalls :
    (/\ At(k, "retire") /\ call[k].chunks > 0 /\ call[k].published = call[k].chunks
     /\ call[k].artifact \notin overlapped
     /\ \A t \in AttemptRows(Attempt(k)) : text[t].status # "invalidated")
       => Ready(k)

-----------------------------------------------------------------------------
(* The inductive invariant.                                                 *)

\* Rows of one attempt are chunks of one text, each of another; what a row
\* announces is the length of the text, and an active row was indexed.
RowsHold ==
  /\ text \in Seq(TextRow) /\ Len(text) <= MaxTexts
  /\ \A t \in DOMAIN text :
       /\ text[t].attempt <= t /\ text[t].index <= text[t].expected
       /\ text[t].expected = object[text[t].artifact]
       /\ text[t].status = "active" => text[t].indexing = "indexed"
  /\ \A t, u \in DOMAIN text : text[u].attempt = text[t].attempt =>
       /\ text[u].artifact = text[t].artifact
       /\ text[u].index = text[t].index => u = t

Deriving == {"retire", "retire_row", "vector", "index", "activate"}

Call == [pc : {"idle", "examine", "complete"} \cup Deriving, artifact : Artifacts \cup {Nil},
         chunks : 0..MaxChunks, stale : Seq((1..MaxTexts) \X BOOLEAN),
         built : Seq(1..MaxTexts), published : 0..MaxChunks]

\* A call retires rows of its artifact before it builds, and what it has built
\* is its attempt.
CallHolds(k) ==
  LET c == call[k] IN
  /\ c \in Call
  /\ c.artifact = Nil => c = Idle
  /\ c.artifact # Nil => c.pc # "idle" /\ artifact[c.artifact] # Nil
  /\ c.chunks # 0 => c.chunks = object[c.artifact]
  /\ c.pc \in Deriving => c.chunks # 0
  /\ Len(c.built) <= c.chunks
  /\ c.published > 0 => Len(c.built) = c.chunks
  /\ c.pc = "examine" => c.built = <<>>
  /\ c.stale # <<>> => c.pc \in {"retire", "retire_row"} /\ c.built = <<>>
  /\ c.pc = "retire_row" => c.stale # <<>>
  /\ c.pc \in {"vector", "index"} => c.built # <<>> /\ c.published = 0
  /\ c.pc = "activate" =>
       /\ c.published = c.chunks
       /\ \A i \in DOMAIN c.built :
            text[c.built[i]].status = "building" => text[c.built[i]].indexing = "indexed"
  /\ \A i \in DOMAIN c.stale : c.stale[i][1] \in RowsOf(c.artifact)
  /\ \A i \in DOMAIN c.built :
       /\ c.built[i] \in RowsOf(c.artifact)
       /\ text[c.built[i]].index = i /\ text[c.built[i]].attempt = c.built[1]
  /\ c.built # <<>> => \A t \in AttemptRows(c.built[1]) : text[t].index <= Len(c.built)

CallsApart ==
  \A k, l \in DeriveCalls : k # l =>
    /\ (call[k].built # <<>> /\ call[l].built # <<>>) => call[k].built[1] # call[l].built[1]
    /\ call[k].artifact = call[l].artifact => call[k].artifact \in overlapped \cup {Nil}

ActiveRows(a) == {t \in RowsOf(a) : text[t].status = "active"}
Lacking(a, n) == \E i \in 1..n : \A t \in ActiveRows(a) : text[t].index # i

\* Of an artifact that calls do not overlap on, the active rows are of one
\* attempt, each is the one its point names, and all are shown as active as
\* long as none is missing.
AloneHolds(a) ==
  \A t \in ActiveRows(a) :
    /\ \A u \in ActiveRows(a) : text[u].attempt = text[t].attempt
    /\ point[PointOf(t)] # Nil /\ point[PointOf(t)].row = t
    /\ point[PointOf(t)].status = "active" \/ Lacking(a, text[t].expected)

\* A call that is alone derives only when something is missing; what is still
\* active when it begins to build is nothing; what it has built is built until
\* it is all made active, except for what is invalidated.
CallAlone(k) ==
  LET c == call[k] IN
  /\ c.pc \in Deriving =>
       /\ Lacking(c.artifact, c.chunks)
       /\ \A t \in ActiveRows(c.artifact) : \E i \in DOMAIN c.stale : c.stale[i][1] = t
       /\ \A i \in DOMAIN c.built :
            /\ text[c.built[i]].status \in {"building", "invalidated"}
            /\ i < Len(c.built) \/ c.pc \in {"retire", "activate"} =>
                 text[c.built[i]].indexing = "indexed"
  /\ \A i \in 1..c.published : point[<<c.artifact, i>>] = [row |-> c.built[i], status |-> "active"]
  /\ c.pc = "complete" => \A i \in 1..c.chunks :
       /\ point[<<c.artifact, i>>] # Nil /\ point[<<c.artifact, i>>].status = "active"
       /\ LET t == point[<<c.artifact, i>>].row
          IN  /\ t \in RowsOf(c.artifact) /\ text[t].index = i
              /\ text[t].status \in {"active", "invalidated"}

ArtInv ==
  /\ object \in [Artifacts -> {Nil} \cup Objects]
  /\ artifact \in [Artifacts -> {Nil, "pending", "completed", "failed"}]
  /\ overlapped \subseteq Artifacts
  /\ point \in [Artifacts \X (1..MaxChunks) -> {Nil} \cup Point]
  /\ \A p \in DOMAIN point : point[p] # Nil => point[p].row \in DOMAIN text
  /\ call \in [DeriveCalls -> Call]
  /\ RowsHold
  /\ \A k \in DeriveCalls : CallHolds(k)
  /\ CallsApart
  /\ \A a \in Artifacts \ overlapped : AloneHolds(a)
  /\ \A k \in DeriveCalls : call[k].artifact \notin overlapped => CallAlone(k)
=============================================================================
