--------------------- MODULE ArtifactDerivation_proofs ----------------------
(* Artifacts and their derived text, for any number of artifacts, calls,     *)
(* chunks and rows.                                                          *)
EXTENDS ArtifactDerivation, SequenceTheorems, FiniteSetTheorems, TLAPS

(* A step keeps the rows: it may add some, and change the status of others,  *)
(* but a row that is indexed does not wait for its vector again.             *)
RowsKept ==
  /\ DOMAIN text \subseteq DOMAIN text'
  /\ \A t \in DOMAIN text :
       /\ text'[t].artifact = text[t].artifact /\ text'[t].index = text[t].index
       /\ text'[t].attempt = text[t].attempt /\ text'[t].expected = text[t].expected
       /\ text'[t].status = "building" /\ text'[t].indexing # "indexed" =>
            text[t].status = "building" /\ text[t].indexing # "indexed"

(* What the tables and the calls are made of. *)
LEMMA TextFacts ==
  ASSUME RowsHold
  PROVE  /\ Len(text) \in Nat /\ Len(text) <= MaxTexts
         /\ DOMAIN text = 1 .. Len(text)
         /\ \A t \in DOMAIN text : text[t] \in TextRow /\ t \in 1..MaxTexts
  <1>1. /\ Len(text) \in Nat /\ DOMAIN text = 1 .. Len(text)
        /\ \A t \in DOMAIN text : text[t] \in TextRow
    BY LenProperties, ElementOfSeq DEF RowsHold
  <1> QED BY <1>1, BoundsAssumption DEF RowsHold

(* What the fields of a call are.                                            *)
LEMMA CallFacts ==
  ASSUME NEW c \in Call
  PROVE  /\ Len(c.built) \in Nat /\ DOMAIN c.built = 1 .. Len(c.built)
         /\ \A i \in DOMAIN c.built : c.built[i] \in 1..MaxTexts
         /\ Len(c.stale) \in Nat /\ DOMAIN c.stale = 1 .. Len(c.stale)
         /\ \A i \in DOMAIN c.stale : /\ c.stale[i][1] \in 1..MaxTexts
                                      /\ c.stale[i][2] \in BOOLEAN
         /\ c.chunks \in Nat /\ c.published \in Nat /\ c.chunks <= MaxChunks
         /\ c.built # <<>> => 1 \in DOMAIN c.built
         /\ c.built = <<>> => Len(c.built) = 0
  <1>1. c.built \in Seq(1..MaxTexts) /\ c.stale \in Seq((1..MaxTexts) \X BOOLEAN)
    BY DEF Call
  <1>2. c.chunks \in 0..MaxChunks /\ c.published \in 0..MaxChunks
    BY DEF Call
  <1>3. \A i \in DOMAIN c.stale : c.stale[i] \in (1..MaxTexts) \X BOOLEAN
    BY <1>1, LenProperties, ElementOfSeq
  <1>4. /\ Len(c.built) \in Nat /\ DOMAIN c.built = 1 .. Len(c.built)
        /\ Len(c.stale) \in Nat /\ DOMAIN c.stale = 1 .. Len(c.stale)
    BY <1>1, LenProperties
  <1>5. \A i \in DOMAIN c.built : c.built[i] \in 1..MaxTexts
    BY <1>1, LenProperties, ElementOfSeq
  <1>6. (c.built = <<>>) <=> (Len(c.built) = 0)
    BY <1>1, EmptySeq
  <1> QED BY <1>2, <1>3, <1>4, <1>5, <1>6, BoundsAssumption

(* A call that a step leaves alone holds, as long as no row joins its        *)
(* attempt.                                                                  *)
LEMMA CallStays ==
  ASSUME ArtInv, NEW k \in DeriveCalls, RowsKept, call'[k] = call[k],
         \A a \in Artifacts : artifact[a] # Nil => artifact'[a] # Nil,
         \A a \in Artifacts : object[a] \in 1..MaxChunks => object'[a] = object[a],
         \A t \in DOMAIN text' \ DOMAIN text :
           call[k].built # <<>> => text'[t].attempt # call[k].built[1]
  PROVE  CallHolds(k)'
  <1> DEFINE c == call[k]
  <1>1. c \in Call /\ CallHolds(k)
    BY DEF ArtInv
  <1>2. /\ c.artifact \in Artifacts \cup {Nil}
        /\ c.chunks # 0 => c.chunks \in 1..MaxChunks
    BY <1>1, BoundsAssumption DEF Call
  <1>3. c.chunks # 0 => c.artifact \in Artifacts
    BY <1>1, <1>2 DEF CallHolds, Idle
  <1>4. c.chunks # 0 => c.chunks = object'[c.artifact]
    BY <1>1, <1>2, <1>3 DEF CallHolds
  <1>5. c.artifact # Nil => artifact'[c.artifact] # Nil
    BY <1>1, <1>2 DEF CallHolds
  <1>6. \A t \in RowsOf(c.artifact) : t \in DOMAIN text' /\ text'[t].artifact = c.artifact
    BY DEF RowsOf, RowsKept
  <1>7. \A i \in DOMAIN c.built :
          /\ c.built[i] \in DOMAIN text' /\ text'[c.built[i]].artifact = c.artifact
          /\ text'[c.built[i]].index = i /\ text'[c.built[i]].attempt = c.built[1]
    <2> SUFFICES ASSUME NEW i \in DOMAIN c.built
                 PROVE  /\ c.built[i] \in DOMAIN text' /\ text'[c.built[i]].artifact = c.artifact
                        /\ text'[c.built[i]].index = i /\ text'[c.built[i]].attempt = c.built[1]
      OBVIOUS
    <2>1. c.built[i] \in RowsOf(c.artifact) /\ text[c.built[i]].index = i
          /\ text[c.built[i]].attempt = c.built[1]
      BY <1>1 DEF CallHolds
    <2> QED BY <2>1, <1>6 DEF RowsKept, RowsOf
  <1>8. c.built # <<>> =>
          \A t \in DOMAIN text' : text'[t].attempt = c.built[1] => text'[t].index <= Len(c.built)
    <2> SUFFICES ASSUME c.built # <<>>, NEW t \in DOMAIN text', text'[t].attempt = c.built[1]
                 PROVE  text'[t].index <= Len(c.built)
      OBVIOUS
    <2>1. t \in DOMAIN text
      OBVIOUS
    <2>2. t \in AttemptRows(c.built[1]) /\ text'[t].index = text[t].index
      BY <2>1 DEF AttemptRows, RowsKept
    <2> QED BY <1>1, <2>2 DEF CallHolds
  <1>9. \A i \in DOMAIN c.stale : c.stale[i][1] \in DOMAIN text'
                                  /\ text'[c.stale[i][1]].artifact = c.artifact
    BY <1>1, <1>6 DEF CallHolds
  <1>10. /\ c.artifact = Nil => c = Idle
         /\ c.artifact # Nil => c.pc # "idle"
         /\ c.pc \in Deriving => c.chunks # 0
         /\ Len(c.built) <= c.chunks
         /\ c.published > 0 => Len(c.built) = c.chunks
         /\ c.pc = "examine" => c.built = <<>>
         /\ c.stale # <<>> => c.pc \in {"retire", "retire_row"} /\ c.built = <<>>
         /\ c.pc = "retire_row" => c.stale # <<>>
         /\ c.pc \in {"vector", "index"} => c.built # <<>> /\ c.published = 0
         /\ c.pc = "activate" => c.published = c.chunks
    BY <1>1 DEF CallHolds
  <1>11. call'[k] = c
    OBVIOUS
  <1>12. c.pc = "activate" =>
           \A i \in DOMAIN c.built : text'[c.built[i]].status = "building" =>
                                     text'[c.built[i]].indexing = "indexed"
    <2> SUFFICES ASSUME c.pc = "activate", NEW i \in DOMAIN c.built
                 PROVE  text'[c.built[i]].status = "building" =>
                          text'[c.built[i]].indexing = "indexed"
      OBVIOUS
    <2>1. c.built[i] \in DOMAIN text
      BY <1>1 DEF CallHolds, RowsOf
    <2>2. text[c.built[i]].status = "building" => text[c.built[i]].indexing = "indexed"
      BY <1>1 DEF CallHolds
    <2> QED BY <2>1, <2>2 DEF RowsKept
  <1> HIDE DEF c
  <1> QED BY <1>1, <1>4, <1>5, <1>7, <1>8, <1>9, <1>10, <1>11, <1>12 DEF CallHolds, RowsOf, AttemptRows, Deriving, Call

(* What a step on one artifact leaves alone of the others. *)
LEMMA OthersStay ==
  ASSUME ArtInv, NEW a, NEW b \in Artifacts, b # a, RowsKept,
         \A t \in DOMAIN text : text[t].artifact # a => text'[t] = text[t],
         \A t \in DOMAIN text' \ DOMAIN text : text'[t].artifact = a,
         \A i \in 1..MaxChunks : point'[<<b, i>>] = point[<<b, i>>]
  PROVE  /\ RowsOf(b)' = RowsOf(b)
         /\ \A t \in RowsOf(b) : text'[t] = text[t] /\ PointOf(t)' = PointOf(t)
         /\ ActiveRows(b)' = ActiveRows(b)
         /\ AloneHolds(b) => AloneHolds(b)'
  <1>1. RowsOf(b)' = RowsOf(b)
    <2>1. \A t \in DOMAIN text' : text'[t].artifact = b =>
            t \in DOMAIN text /\ text[t].artifact = b
      BY DEF RowsKept
    <2>2. \A t \in DOMAIN text : text[t].artifact = b =>
            t \in DOMAIN text' /\ text'[t].artifact = b
      BY DEF RowsKept
    <2> QED BY <2>1, <2>2 DEF RowsOf
  <1>2. \A t \in RowsOf(b) : text'[t] = text[t] /\ t \in DOMAIN text
    BY DEF RowsOf
  <1>3. \A t \in RowsOf(b) : /\ PointOf(t)' = PointOf(t)
                             /\ PointOf(t) = <<b, text[t].index>>
    BY <1>2 DEF PointOf, RowsOf
  <1>4. ActiveRows(b)' = ActiveRows(b)
    BY <1>1, <1>2 DEF ActiveRows
  <1>5. \A t \in RowsOf(b) : point'[PointOf(t)] = point[PointOf(t)]
    <2> SUFFICES ASSUME NEW t \in RowsOf(b) PROVE point'[PointOf(t)] = point[PointOf(t)]
      OBVIOUS
    <2>1. text[t] \in TextRow
      BY <1>2, TextFacts DEF ArtInv
    <2>2. text[t].index \in 1..MaxChunks
      BY <2>1 DEF TextRow
    <2> QED BY <1>3, <2>2
  <1>6. ASSUME AloneHolds(b) PROVE AloneHolds(b)'
    <2> SUFFICES ASSUME NEW t \in ActiveRows(b)
                 PROVE  /\ \A u \in ActiveRows(b) : text'[u].attempt = text'[t].attempt
                        /\ point'[PointOf(t)'] # Nil /\ point'[PointOf(t)'].row = t
                        /\ \/ point'[PointOf(t)'].status = "active"
                           \/ \E i \in 1..text'[t].expected :
                                \A u \in ActiveRows(b) : text'[u].index # i
      BY <1>4 DEF AloneHolds, Lacking
    <2>1. \A u \in ActiveRows(b) : u \in RowsOf(b)
      BY DEF ActiveRows
    <2>2. /\ \A u \in ActiveRows(b) : text[u].attempt = text[t].attempt
          /\ point[PointOf(t)] # Nil /\ point[PointOf(t)].row = t
          /\ \/ point[PointOf(t)].status = "active"
             \/ \E i \in 1..text[t].expected :
                  \A u \in ActiveRows(b) : text[u].index # i
      BY <1>6 DEF AloneHolds, Lacking
    <2> QED BY <1>2, <1>3, <1>5, <2>1, <2>2
  <1> QED BY <1>1, <1>2, <1>3, <1>4, <1>6

(* The same of the calls that work on other artifacts.                       *)
LEMMA OtherCallsStay ==
  ASSUME ArtInv, NEW a, NEW l \in DeriveCalls, call[l].artifact # a, RowsKept,
         CallAlone(l), call'[l] = call[l],
         \A t \in DOMAIN text : text[t].artifact # a => text'[t] = text[t],
         \A t \in DOMAIN text' \ DOMAIN text : text'[t].artifact = a,
         \A b \in Artifacts : b # a => \A i \in 1..MaxChunks : point'[<<b, i>>] = point[<<b, i>>]
  PROVE  CallAlone(l)'
  <1>1. PICK c : c = call[l]
    OBVIOUS
  <1>2. PICK b : b = c.artifact
    OBVIOUS
  <1>3. c \in Call /\ CallHolds(l)
    BY <1>1 DEF ArtInv
  <1>4. b \in Artifacts \cup {Nil} /\ c.artifact = b
    BY <1>2, <1>3 DEF Call
  <1>5. CASE b = Nil
    <2>1. c = Idle
      BY <1>1, <1>3, <1>4, <1>5 DEF CallHolds
    <2>2. c.pc = "idle" /\ c.published = 0
      BY <2>1 DEF Idle
    <2>3. call'[l].pc \notin Deriving /\ call'[l].pc # "complete" /\ 1..call'[l].published = {}
      BY <1>1, <2>2 DEF Deriving
    <2> QED BY <2>3 DEF CallAlone
  <1>6. CASE b # Nil
    <2>1. b \in Artifacts /\ b # a
      BY <1>1, <1>4, <1>6
    <2>2. /\ RowsOf(b)' = RowsOf(b)
          /\ \A t \in RowsOf(b) : text'[t] = text[t]
          /\ ActiveRows(b)' = ActiveRows(b)
      BY <2>1, OthersStay
    <2>3. \A t \in ActiveRows(b) : t \in RowsOf(b)
      BY DEF ActiveRows
    <2>4. \A i \in 1..MaxChunks : point'[<<b, i>>] = point[<<b, i>>]
      BY <2>1
    <2>5. c.pc \in Deriving =>
            /\ \E i \in 1..c.chunks : \A t \in ActiveRows(b) : text[t].index # i
            /\ \A t \in ActiveRows(b) : \E i \in DOMAIN c.stale : c.stale[i][1] = t
            /\ \A i \in DOMAIN c.built :
                 /\ text[c.built[i]].status \in {"building", "invalidated"}
                 /\ i < Len(c.built) \/ c.pc \in {"retire", "activate"} =>
                      text[c.built[i]].indexing = "indexed"
      BY <1>1, <1>4 DEF CallAlone, Lacking
    <2>6. \A i \in DOMAIN c.built : c.built[i] \in RowsOf(b)
      BY <1>1, <1>3, <1>4 DEF CallHolds
    <2>7. c.pc \in Deriving =>
            /\ \E i \in 1..c.chunks : \A t \in ActiveRows(b) : text'[t].index # i
            /\ \A i \in DOMAIN c.built :
                 /\ text'[c.built[i]].status \in {"building", "invalidated"}
                 /\ i < Len(c.built) \/ c.pc \in {"retire", "activate"} =>
                      text'[c.built[i]].indexing = "indexed"
      <3>1. \A t \in ActiveRows(b) : text'[t].index = text[t].index
        BY <2>2, <2>3
      <3>2. \A i \in DOMAIN c.built : text'[c.built[i]] = text[c.built[i]]
        BY <2>2, <2>6
      <3> QED BY <2>5, <3>1, <3>2
    <2>8. \A i \in 1..c.published : i \in 1..MaxChunks
      <3>1. c.published \in 0..MaxChunks
        BY <1>3 DEF Call
      <3> QED BY <3>1, BoundsAssumption
    <2>9. \A i \in 1..c.chunks : i \in 1..MaxChunks
      <3>1. c.chunks \in 0..MaxChunks
        BY <1>3 DEF Call
      <3> QED BY <3>1, BoundsAssumption
    <2>10. \A i \in 1..c.published : point'[<<b, i>>] = [row |-> c.built[i], status |-> "active"]
      BY <1>1, <1>4, <2>4, <2>8 DEF CallAlone
    <2>11. c.pc = "complete" => \A i \in 1..c.chunks :
             /\ point'[<<b, i>>] # Nil /\ point'[<<b, i>>].status = "active"
             /\ point'[<<b, i>>].row \in RowsOf(b) /\ text'[point'[<<b, i>>].row].index = i
             /\ text'[point'[<<b, i>>].row].status \in {"active", "invalidated"}
      <3> SUFFICES ASSUME c.pc = "complete", NEW i \in 1..c.chunks
                   PROVE  /\ point'[<<b, i>>] # Nil /\ point'[<<b, i>>].status = "active"
                          /\ point'[<<b, i>>].row \in RowsOf(b) /\ text'[point'[<<b, i>>].row].index = i
                          /\ text'[point'[<<b, i>>].row].status \in {"active", "invalidated"}
        OBVIOUS
      <3>1. /\ point[<<b, i>>] # Nil /\ point[<<b, i>>].status = "active"
            /\ point[<<b, i>>].row \in RowsOf(b) /\ text[point[<<b, i>>].row].index = i
            /\ text[point[<<b, i>>].row].status \in {"active", "invalidated"}
        BY <1>1, <1>4 DEF CallAlone
      <3> QED BY <2>2, <2>4, <2>9, <3>1
    <2>12. call'[l] = c
      BY <1>1
    <2> QED BY <1>4, <2>2, <2>5, <2>7, <2>10, <2>11, <2>12 DEF CallAlone, Lacking
  <1> QED BY <1>5, <1>6

(* A step of one call, on one artifact: what has to be shown of it. *)
LEMMA StepOfCall ==
  ASSUME ArtInv, NEW k \in DeriveCalls, NEW c \in Call, NEW a \in Artifacts,
         call' = [call EXCEPT ![k] = c], object' = object,
         artifact' \in [Artifacts -> {Nil, "pending", "completed", "failed"}],
         \A b \in Artifacts : artifact[b] # Nil => artifact'[b] # Nil,
         overlapped \subseteq overlapped', overlapped' \subseteq Artifacts,
         point' \in [Artifacts \X (1..MaxChunks) -> {Nil} \cup Point],
         \A p \in DOMAIN point' : point'[p] # Nil => point'[p].row \in DOMAIN text',
         \A b \in Artifacts : b # a => \A i \in 1..MaxChunks : point'[<<b, i>>] = point[<<b, i>>],
         RowsHold', RowsKept,
         \A t \in DOMAIN text : text[t].artifact # a => text'[t] = text[t],
         \A t \in DOMAIN text' \ DOMAIN text :
           /\ text'[t].artifact = a
           /\ \A l \in DeriveCalls :
                l # k /\ call[l].built # <<>> => text'[t].attempt # call[l].built[1],
         call[k].artifact = a \/ c.artifact = a,
         \A l \in DeriveCalls : l # k =>
           /\ (c.built # <<>> /\ call[l].built # <<>>) => c.built[1] # call[l].built[1]
           /\ c.artifact = call[l].artifact => c.artifact \in overlapped' \cup {Nil},
         CallHolds(k)',
         a \notin overlapped' => AloneHolds(a)',
         c.artifact \notin overlapped' => CallAlone(k)'
  PROVE  ArtInv'
  <1>1. /\ call'[k] = c
        /\ \A l \in DeriveCalls : l # k => call'[l] = call[l]
        /\ call' \in [DeriveCalls -> Call]
    BY DEF ArtInv
  <1>2. \A l \in DeriveCalls : CallHolds(l)'
    <2> SUFFICES ASSUME NEW l \in DeriveCalls, l # k PROVE CallHolds(l)'
      OBVIOUS
    <2>1. call'[l] = call[l]
      BY <1>1
    <2>2. \A b \in Artifacts : object[b] \in 1..MaxChunks => object'[b] = object[b]
      OBVIOUS
    <2>3. \A t \in DOMAIN text' \ DOMAIN text :
            call[l].built # <<>> => text'[t].attempt # call[l].built[1]
      OBVIOUS
    <2> QED BY <2>1, <2>2, <2>3, CallStays
  <1>3. CallsApart'
    <2> SUFFICES ASSUME NEW m \in DeriveCalls, NEW l \in DeriveCalls, m # l
                 PROVE  /\ (call'[m].built # <<>> /\ call'[l].built # <<>>) =>
                             call'[m].built[1] # call'[l].built[1]
                        /\ call'[m].artifact = call'[l].artifact =>
                             call'[m].artifact \in overlapped' \cup {Nil}
      BY DEF CallsApart
    <2>1. CASE m = k
      BY <1>1, <2>1
    <2>2. CASE l = k
      BY <1>1, <2>2
    <2>3. CASE m # k /\ l # k
      <3>1. /\ (call[m].built # <<>> /\ call[l].built # <<>>) =>
                  call[m].built[1] # call[l].built[1]
            /\ call[m].artifact = call[l].artifact =>
                  call[m].artifact \in overlapped \cup {Nil}
        BY DEF ArtInv, CallsApart
      <3> QED BY <1>1, <2>3, <3>1
    <2> QED BY <2>1, <2>2, <2>3
  <1>4. \A b \in Artifacts \ overlapped' : AloneHolds(b)'
    <2> SUFFICES ASSUME NEW b \in Artifacts \ overlapped', b # a PROVE AloneHolds(b)'
      OBVIOUS
    <2>1. AloneHolds(b)
      BY DEF ArtInv
    <2>2. \A i \in 1..MaxChunks : point'[<<b, i>>] = point[<<b, i>>]
      OBVIOUS
    <2>3. \A t \in DOMAIN text' \ DOMAIN text : text'[t].artifact = a
      OBVIOUS
    <2> QED BY <2>1, <2>2, <2>3, OthersStay
  <1>5. \A l \in DeriveCalls : call'[l].artifact \notin overlapped' => CallAlone(l)'
    <2> SUFFICES ASSUME NEW l \in DeriveCalls, l # k, call'[l].artifact \notin overlapped'
                 PROVE  CallAlone(l)'
      BY <1>1
    <2>1. call'[l] = call[l] /\ call[l].artifact \notin overlapped
      BY <1>1
    <2>2. call[l].artifact # a
      <3> SUFFICES ASSUME call[l].artifact = a PROVE FALSE
        OBVIOUS
      <3>1. CASE c.artifact = a
        BY <2>1, <3>1, NilAssumption
      <3>2. CASE call[k].artifact = a
        <4>1. call[k].artifact \in overlapped \cup {Nil}
          BY <3>2 DEF ArtInv, CallsApart
        <4> QED BY <2>1, <3>2, <4>1, NilAssumption
      <3> QED BY <3>1, <3>2
    <2>3. CallAlone(l)
      BY <2>1 DEF ArtInv
    <2>4. \A t \in DOMAIN text' \ DOMAIN text : text'[t].artifact = a
      OBVIOUS
    <2>5. call'[l] = call[l]
      BY <2>1
    <2>6. \A b \in Artifacts : b # a => \A i \in 1..MaxChunks : point'[<<b, i>>] = point[<<b, i>>]
      OBVIOUS
    <2>7. \A t \in DOMAIN text : text[t].artifact # a => text'[t] = text[t]
      OBVIOUS
    <2> QED BY ONLY ArtInv, RowsKept, l \in DeriveCalls, <2>2, <2>3, <2>4, <2>5, <2>6, <2>7,
                    OtherCallsStay
  <1>6. object' \in [Artifacts -> {Nil} \cup Objects]
    BY DEF ArtInv
  <1> QED BY <1>1, <1>2, <1>3, <1>4, <1>5, <1>6 DEF ArtInv

(* A row changes its status, or what is known of its vector. *)
LEMMA RowUpdate ==
  ASSUME RowsHold, object' = object, NEW t \in DOMAIN text, NEW r \in TextRow,
         r.artifact = text[t].artifact, r.index = text[t].index,
         r.attempt = text[t].attempt, r.expected = text[t].expected,
         r.status \in {"active", "building"} => r.indexing = "indexed",
         text' = [text EXCEPT ![t] = r]
  PROVE  /\ RowsHold' /\ RowsKept /\ DOMAIN text' = DOMAIN text
         /\ text'[t] = r /\ \A u \in DOMAIN text : u # t => text'[u] = text[u]
  <1>1. /\ Len(text) \in Nat /\ Len(text) <= MaxTexts
        /\ DOMAIN text = 1 .. Len(text)
    BY TextFacts
  <1>2. text \in Seq(TextRow)
    BY DEF RowsHold
  <1>3. text' \in Seq(TextRow) /\ Len(text') = Len(text) /\ DOMAIN text' = DOMAIN text
    BY <1>1, <1>2, ExceptSeq, LenProperties
  <1>4. text'[t] = r /\ \A u \in DOMAIN text : u # t => text'[u] = text[u]
    OBVIOUS
  <1>5. RowsKept
    BY <1>3, <1>4 DEF RowsKept
  <1>6. \A u \in DOMAIN text : text'[u].status = "active" => text'[u].indexing = "indexed"
    BY <1>4 DEF RowsHold
  <1>7. \A u \in DOMAIN text :
          /\ text'[u].attempt <= u /\ text'[u].index <= text'[u].expected
          /\ text'[u].expected = object'[text'[u].artifact]
    BY <1>5 DEF RowsKept, RowsHold
  <1>8. \A u, v \in DOMAIN text : text'[v].attempt = text'[u].attempt =>
          /\ text'[v].artifact = text'[u].artifact
          /\ text'[v].index = text'[u].index => v = u
    BY <1>5 DEF RowsKept, RowsHold
  <1> QED BY <1>1, <1>3, <1>4, <1>5, <1>6, <1>7, <1>8 DEF RowsHold

(* Nothing is derived at first.                                              *)
LEMMA ArtInitially == ArtInit => ArtInv
  <1> SUFFICES ASSUME ArtInit PROVE ArtInv
    OBVIOUS
  <1>1. object \in [Artifacts -> {Nil} \cup Objects]
    BY DEF ArtInit
  <1>2. /\ artifact \in [Artifacts -> {Nil, "pending", "completed", "failed"}]
        /\ overlapped = {}
        /\ point \in [Artifacts \X (1..MaxChunks) -> {Nil} \cup Point]
        /\ \A p \in DOMAIN point : point[p] = Nil
    BY DEF ArtInit
  <1>3. /\ text = <<>> /\ text \in Seq(TextRow) /\ Len(text) = 0 /\ DOMAIN text = {}
    BY DEF ArtInit
  <1>4. RowsHold
    BY <1>3, BoundsAssumption DEF RowsHold
  <1>5. /\ <<>> \in Seq(1..MaxTexts) /\ <<>> \in Seq((1..MaxTexts) \X BOOLEAN)
        /\ Len(<<>>) = 0 /\ DOMAIN <<>> = {}
    OBVIOUS
  <1>6. Idle \in Call
    BY <1>5, BoundsAssumption DEF Idle, Call
  <1>7. \A k \in DeriveCalls : call[k] = Idle
    BY DEF ArtInit
  <1>8. call \in [DeriveCalls -> Call]
    BY <1>6 DEF ArtInit
  <1>9. /\ Idle.pc = "idle" /\ Idle.artifact = Nil /\ Idle.chunks = 0 /\ Idle.published = 0
        /\ Idle.built = <<>> /\ Idle.stale = <<>>
    BY DEF Idle
  <1>10. \A k \in DeriveCalls : CallHolds(k)
    BY <1>5, <1>6, <1>7, <1>9 DEF CallHolds, Deriving
  <1>11. CallsApart
    BY <1>7, <1>9 DEF CallsApart
  <1>12. \A a \in Artifacts : AloneHolds(a)
    BY <1>3 DEF AloneHolds, ActiveRows, RowsOf
  <1>13. \A k \in DeriveCalls : CallAlone(k)
    BY <1>7, <1>9 DEF CallAlone, Deriving
  <1> QED BY <1>1, <1>2, <1>4, <1>8, <1>10, <1>11, <1>12, <1>13 DEF ArtInv

(* Clients change objects that no row was cut from, and statuses. *)
LEMMA QuietStep ==
  ASSUME ArtInv, UNCHANGED <<text, point, call, overlapped>>,
         object' \in [Artifacts -> {Nil} \cup Objects],
         artifact' \in [Artifacts -> {Nil, "pending", "completed", "failed"}],
         \A a \in Artifacts : artifact[a] # Nil => artifact'[a] # Nil,
         \A a \in Artifacts : object[a] \in 1..MaxChunks => object'[a] = object[a]
  PROVE  ArtInv'
  <1>1. RowsKept
    BY DEF RowsKept
  <1>2. \A k \in DeriveCalls : CallHolds(k)'
    <2> SUFFICES ASSUME NEW k \in DeriveCalls PROVE CallHolds(k)'
      OBVIOUS
    <2>1. \A t \in DOMAIN text' \ DOMAIN text :
            call[k].built # <<>> => text'[t].attempt # call[k].built[1]
      OBVIOUS
    <2>2. call'[k] = call[k]
      OBVIOUS
    <2> QED BY <1>1, <2>1, <2>2, CallStays
  <1>3. RowsHold'
    <2>1. \A t \in DOMAIN text : text[t].expected = object'[text[t].artifact]
      <3> SUFFICES ASSUME NEW t \in DOMAIN text
                   PROVE  text[t].expected = object'[text[t].artifact]
        OBVIOUS
      <3>1. text[t] \in TextRow
        BY TextFacts DEF ArtInv
      <3>2. text[t].expected \in 1..MaxChunks /\ text[t].artifact \in Artifacts
        BY <3>1 DEF TextRow
      <3> QED BY <3>2 DEF ArtInv, RowsHold
    <2>2. RowsHold
      BY DEF ArtInv
    <2> QED BY <2>1, <2>2 DEF RowsHold
  <1>4. \A a \in Artifacts \ overlapped : AloneHolds(a)'
    <2> SUFFICES ASSUME NEW a \in Artifacts \ overlapped PROVE AloneHolds(a)'
      OBVIOUS
    <2>1. AloneHolds(a)
      BY DEF ArtInv
    <2> QED BY <2>1 DEF AloneHolds, ActiveRows, RowsOf, PointOf, Lacking
  <1>5. CallsApart'
    BY DEF ArtInv, CallsApart
  <1>6. \A k \in DeriveCalls : call[k].artifact \notin overlapped => CallAlone(k)'
    <2> SUFFICES ASSUME NEW k \in DeriveCalls, call[k].artifact \notin overlapped
                 PROVE CallAlone(k)'
      OBVIOUS
    <2>1. CallAlone(k)
      BY DEF ArtInv
    <2>2. CallAlone(k)' = CallAlone(k)
      BY DEF CallAlone, Lacking, ActiveRows, RowsOf
    <2> QED BY <2>1, <2>2
  <1> QED BY <1>2, <1>3, <1>4, <1>5, <1>6 DEF ArtInv

(* Fewer active rows: what held of them holds. *)
LEMMA LessActive ==
  ASSUME ArtInv, NEW a \in Artifacts, RowsKept, DOMAIN text' = DOMAIN text,
         \A t \in DOMAIN text : text'[t].status = "active" => text[t].status = "active"
  PROVE  /\ RowsOf(a)' = RowsOf(a)
         /\ ActiveRows(a)' \subseteq ActiveRows(a)
         /\ \A n \in Nat : Lacking(a, n) => Lacking(a, n)'
         /\ AloneHolds(a) /\ point' = point => AloneHolds(a)'
  <1>1. RowsOf(a)' = RowsOf(a)
    BY DEF RowsOf, RowsKept
  <1>2. ActiveRows(a)' \subseteq ActiveRows(a)
    BY <1>1 DEF ActiveRows, RowsOf
  <1>3. \A t \in ActiveRows(a) : t \in DOMAIN text
    BY DEF ActiveRows, RowsOf
  <1>4. \A t \in ActiveRows(a)' : /\ t \in ActiveRows(a)
                                  /\ text'[t].index = text[t].index
                                  /\ text'[t].attempt = text[t].attempt
                                  /\ text'[t].expected = text[t].expected
                                  /\ PointOf(t)' = PointOf(t)
    BY <1>2, <1>3 DEF RowsKept, PointOf
  <1>5. \A n \in Nat : Lacking(a, n) => Lacking(a, n)'
    BY <1>4 DEF Lacking
  <1>6. ASSUME AloneHolds(a), point' = point PROVE AloneHolds(a)'
    <2> SUFFICES ASSUME NEW t \in ActiveRows(a)'
                 PROVE  /\ \A u \in ActiveRows(a)' : text'[u].attempt = text'[t].attempt
                        /\ point[PointOf(t)'] # Nil /\ point[PointOf(t)'].row = t
                        /\ \/ point[PointOf(t)'].status = "active"
                           \/ \E i \in 1..text'[t].expected :
                                \A u \in ActiveRows(a)' : text'[u].index # i
      BY <1>6 DEF AloneHolds, Lacking
    <2>1. /\ \A u \in ActiveRows(a) : text[u].attempt = text[t].attempt
          /\ point[PointOf(t)] # Nil /\ point[PointOf(t)].row = t
          /\ \/ point[PointOf(t)].status = "active"
             \/ \E i \in 1..text[t].expected : \A u \in ActiveRows(a) : text[u].index # i
      BY <1>4, <1>6 DEF AloneHolds, Lacking
    <2> QED BY <1>4, <2>1
  <1> QED BY <1>1, <1>2, <1>5, <1>6

(* A row is invalidated under calls that go on. *)
LEMMA InvalidateTextStep ==
  ASSUME ArtInv, NEW t \in 1..MaxTexts, InvalidateText(t)
  PROVE  ArtInv'
  <1> DEFINE r == [text[t] EXCEPT !.status = "invalidated"]
  <1>1. /\ t \in DOMAIN text /\ text' = [text EXCEPT ![t].status = "invalidated"]
        /\ UNCHANGED <<object, artifact, point, call, overlapped>>
        /\ text[t].status \notin {"superseded", "invalidated"}
    BY DEF InvalidateText
  <1>2. RowsHold /\ text[t] \in TextRow
    BY <1>1, TextFacts DEF ArtInv
  <1>3. /\ r \in TextRow /\ r.artifact = text[t].artifact /\ r.index = text[t].index
        /\ r.attempt = text[t].attempt /\ r.expected = text[t].expected
        /\ r.status = "invalidated" /\ r.indexing = text[t].indexing
    BY <1>2 DEF TextRow
  <1>4. text' = [text EXCEPT ![t] = r]
    BY <1>1
  <1> HIDE DEF r
  <1>5. /\ RowsHold' /\ RowsKept /\ DOMAIN text' = DOMAIN text
        /\ text'[t] = r /\ \A u \in DOMAIN text : u # t => text'[u] = text[u]
    <2>1. object' = object /\ (r.status = "active" => r.indexing = "indexed")
      BY <1>1, <1>3
    <2> QED BY <1>1, <1>2, <1>3, <1>4, <2>1, RowUpdate
  <1>6. \A u \in DOMAIN text : text'[u].status = "active" => text[u].status = "active"
    BY <1>3, <1>5
  <1>7. \A k \in DeriveCalls : CallHolds(k)'
    <2> SUFFICES ASSUME NEW k \in DeriveCalls PROVE CallHolds(k)'
      OBVIOUS
    <2>1. \A u \in DOMAIN text' \ DOMAIN text :
            call[k].built # <<>> => text'[u].attempt # call[k].built[1]
      BY <1>5
    <2>2. call'[k] = call[k]
      BY <1>1
    <2>3. /\ \A a \in Artifacts : artifact[a] # Nil => artifact'[a] # Nil
          /\ \A a \in Artifacts : object[a] \in 1..MaxChunks => object'[a] = object[a]
      BY <1>1
    <2> QED BY <1>5, <2>1, <2>2, <2>3, CallStays
  <1>8. CallsApart'
    BY <1>1 DEF ArtInv, CallsApart
  <1>9. \A a \in Artifacts \ overlapped : AloneHolds(a)'
    <2> SUFFICES ASSUME NEW a \in Artifacts \ overlapped PROVE AloneHolds(a)'
      OBVIOUS
    <2>1. AloneHolds(a) /\ point' = point
      BY <1>1 DEF ArtInv
    <2> QED BY <1>5, <1>6, <2>1, LessActive
  <1>10. \A k \in DeriveCalls : call[k].artifact \notin overlapped => CallAlone(k)'
    <2> SUFFICES ASSUME NEW k \in DeriveCalls, call[k].artifact \notin overlapped
                 PROVE CallAlone(k)'
      OBVIOUS
    <2>1. PICK c : c = call[k]
      OBVIOUS
    <2>2. PICK a : a = c.artifact
      OBVIOUS
    <2>3. c \in Call /\ CallHolds(k) /\ CallAlone(k)
      BY <2>1 DEF ArtInv
    <2>4. call'[k] = c /\ point' = point
      BY <1>1, <2>1
    <2>5. c.chunks \in Nat /\ DOMAIN c.built = 1..Len(c.built)
      BY <2>3, CallFacts
    <2>6. c.pc \in Deriving =>
           /\ Lacking(a, c.chunks)
           /\ \A u \in ActiveRows(a) : \E i \in DOMAIN c.stale : c.stale[i][1] = u
           /\ \A i \in DOMAIN c.built :
                /\ text[c.built[i]].status \in {"building", "invalidated"}
                /\ i < Len(c.built) \/ c.pc \in {"retire", "activate"} =>
                     text[c.built[i]].indexing = "indexed"
      BY <2>1, <2>2, <2>3 DEF CallAlone
    <2>7. c.pc \in Deriving => a \in Artifacts
      <3>1. c.artifact \in Artifacts \cup {Nil}
        BY <2>3 DEF Call
      <3>2. c.artifact = Nil => c.pc = "idle"
        BY <2>1, <2>3 DEF CallHolds, Idle
      <3> QED BY <2>2, <3>1, <3>2 DEF Deriving
    <2>8. c.pc \in Deriving =>
            /\ Lacking(a, c.chunks)'
            /\ \A u \in ActiveRows(a)' : \E i \in DOMAIN c.stale : c.stale[i][1] = u
      BY <1>5, <1>6, <2>5, <2>6, <2>7, LessActive
    <2>9. \A i \in DOMAIN c.built : c.built[i] \in DOMAIN text
      BY <2>1, <2>3 DEF CallHolds, RowsOf
    <2>10. c.pc \in Deriving => \A i \in DOMAIN c.built :
                /\ text'[c.built[i]].status \in {"building", "invalidated"}
                /\ i < Len(c.built) \/ c.pc \in {"retire", "activate"} =>
                     text'[c.built[i]].indexing = "indexed"
      BY <1>3, <1>5, <2>6, <2>9
    <2>11. \A i \in 1..c.published : point[<<a, i>>] = [row |-> c.built[i], status |-> "active"]
      BY <2>1, <2>2, <2>3 DEF CallAlone
    <2>12. c.pc = "complete" => \A i \in 1..c.chunks :
             /\ point[<<a, i>>] # Nil /\ point[<<a, i>>].status = "active"
             /\ point[<<a, i>>].row \in RowsOf(a)' /\ text'[point[<<a, i>>].row].index = i
             /\ text'[point[<<a, i>>].row].status \in {"active", "invalidated"}
      <3> SUFFICES ASSUME c.pc = "complete", NEW i \in 1..c.chunks
                   PROVE  /\ point[<<a, i>>] # Nil /\ point[<<a, i>>].status = "active"
                          /\ point[<<a, i>>].row \in RowsOf(a)' /\ text'[point[<<a, i>>].row].index = i
                          /\ text'[point[<<a, i>>].row].status \in {"active", "invalidated"}
        OBVIOUS
      <3>1. PICK u : u = point[<<a, i>>].row
        OBVIOUS
      <3>2. /\ point[<<a, i>>] # Nil /\ point[<<a, i>>].status = "active"
            /\ u \in RowsOf(a) /\ text[u].index = i
            /\ text[u].status \in {"active", "invalidated"}
        BY <2>1, <2>2, <2>3, <3>1 DEF CallAlone
      <3>3. u \in DOMAIN text /\ text[u].artifact = a
        BY <3>2 DEF RowsOf
      <3>4. u \in RowsOf(a)' /\ text'[u].index = i
        BY <1>5, <3>2, <3>3 DEF RowsOf, RowsKept
      <3>5. text'[u].status \in {"active", "invalidated"}
        BY <1>3, <1>5, <3>2, <3>3
      <3> QED BY <3>1, <3>2, <3>4, <3>5
    <2> QED BY <2>2, <2>4, <2>8, <2>10, <2>11, <2>12 DEF CallAlone
  <1> QED BY <1>1, <1>5, <1>7, <1>8, <1>9, <1>10 DEF ArtInv

(* A call that is not under way holds nothing.                               *)
LEMMA IdleFacts ==
  /\ Idle \in Call /\ Idle.pc = "idle" /\ Idle.artifact = Nil /\ Idle.chunks = 0
  /\ Idle.published = 0 /\ Idle.built = <<>> /\ Idle.stale = <<>>
  <1>1. <<>> \in Seq(1..MaxTexts) /\ <<>> \in Seq((1..MaxTexts) \X BOOLEAN)
    OBVIOUS
  <1> QED BY <1>1, BoundsAssumption DEF Idle, Call

(* It relies on nothing.                                                     *)
LEMMA CallGoesIdle ==
  ASSUME ArtInv, NEW k \in DeriveCalls, call' = [call EXCEPT ![k] = Idle]
  PROVE  CallHolds(k)' /\ CallAlone(k)'
  <1>1. call'[k] = Idle
    BY DEF ArtInv
  <1>2. DOMAIN <<>> = {} /\ Len(<<>>) = 0
    OBVIOUS
  <1>3. CallHolds(k)'
    BY <1>1, <1>2, IdleFacts DEF CallHolds, Deriving
  <1>4. CallAlone(k)'
    BY <1>1, IdleFacts DEF CallAlone, Deriving
  <1> QED BY <1>3, <1>4

(* A step that touches neither rows nor points. *)
LEMMA CallOnly ==
  ASSUME ArtInv, NEW k \in DeriveCalls, NEW c \in Call, NEW a \in Artifacts,
         UNCHANGED <<object, text, point>>, call' = [call EXCEPT ![k] = c],
         artifact' \in [Artifacts -> {Nil, "pending", "completed", "failed"}],
         \A b \in Artifacts : artifact[b] # Nil => artifact'[b] # Nil,
         overlapped \subseteq overlapped', overlapped' \subseteq Artifacts,
         call[k].artifact = a \/ c.artifact = a,
         c.built = <<>> \/ c.built = call[k].built,
         \A l \in DeriveCalls : l # k =>
           (c.artifact = call[l].artifact => c.artifact \in overlapped' \cup {Nil}),
         CallHolds(k)',
         c.artifact \notin overlapped' => CallAlone(k)'
  PROVE  ArtInv'
  <1>1. RowsKept /\ RowsHold'
    BY DEF RowsKept, RowsHold, ArtInv
  <1>2. /\ point' \in [Artifacts \X (1..MaxChunks) -> {Nil} \cup Point]
        /\ \A p \in DOMAIN point' : point'[p] # Nil => point'[p].row \in DOMAIN text'
    BY DEF ArtInv
  <1>3. \A l \in DeriveCalls : l # k =>
          ((c.built # <<>> /\ call[l].built # <<>>) => c.built[1] # call[l].built[1])
    BY DEF ArtInv, CallsApart
  <1>4. a \notin overlapped' => AloneHolds(a)'
    <2> SUFFICES ASSUME a \notin overlapped' PROVE AloneHolds(a)'
      OBVIOUS
    <2>1. AloneHolds(a)
      BY DEF ArtInv
    <2> QED BY <2>1 DEF AloneHolds, ActiveRows, RowsOf, PointOf, Lacking
  <1>5. \A t \in DOMAIN text' \ DOMAIN text :
           /\ text'[t].artifact = a
           /\ \A l \in DeriveCalls :
                l # k /\ call[l].built # <<>> => text'[t].attempt # call[l].built[1]
    OBVIOUS
  <1>6. \A b \in Artifacts : b # a => \A i \in 1..MaxChunks : point'[<<b, i>>] = point[<<b, i>>]
    OBVIOUS
  <1>7. \A t \in DOMAIN text : text[t].artifact # a => text'[t] = text[t]
    OBVIOUS
  <1>8. \A l \in DeriveCalls : l # k =>
           /\ (c.built # <<>> /\ call[l].built # <<>>) => c.built[1] # call[l].built[1]
           /\ c.artifact = call[l].artifact => c.artifact \in overlapped' \cup {Nil}
    BY <1>3
  <1>9. object' = object
    OBVIOUS
  <1> QED BY <1>1, <1>2, <1>4, <1>5, <1>6, <1>7, <1>8, <1>9, StepOfCall

(* A call is lost between two of its requests.                               *)
LEMMA AbandonCallStep ==
  ASSUME ArtInv, NEW k \in DeriveCalls, AbandonCall(k)
  PROVE  ArtInv'
  <1>1. /\ call[k] # Idle /\ call' = [call EXCEPT ![k] = Idle]
        /\ UNCHANGED <<object, artifact, text, point, overlapped>>
    BY DEF AbandonCall, Goto
  <1>2. PICK a : a = call[k].artifact
    OBVIOUS
  <1>3. a \in Artifacts
    <2>1. call[k] \in Call /\ CallHolds(k)
      BY DEF ArtInv
    <2> QED BY <1>1, <1>2, <2>1 DEF CallHolds, Call
  <1>4. /\ artifact' \in [Artifacts -> {Nil, "pending", "completed", "failed"}]
        /\ overlapped' \subseteq Artifacts /\ overlapped \subseteq overlapped'
        /\ \A b \in Artifacts : artifact[b] # Nil => artifact'[b] # Nil
    BY <1>1 DEF ArtInv
  <1>5. CallHolds(k)' /\ CallAlone(k)'
    BY <1>1, CallGoesIdle
  <1>6. UNCHANGED <<object, text, point>>
    BY <1>1
  <1>7. Idle.built = <<>> /\ Idle \in Call
        /\ \A l \in DeriveCalls : l # k =>
             (Idle.artifact = call[l].artifact => Idle.artifact \in overlapped' \cup {Nil})
    BY IdleFacts
  <1> QED BY <1>1, <1>2, <1>3, <1>4, <1>5, <1>6, <1>7, CallOnly

(* The status is written last.                                               *)
LEMMA CompleteCallStep ==
  ASSUME ArtInv, NEW k \in DeriveCalls, Complete(k)
  PROVE  ArtInv'
  <1>1. PICK a : a = call[k].artifact
    OBVIOUS
  <1>2. /\ call[k].pc = "complete" /\ call' = [call EXCEPT ![k] = Idle]
        /\ artifact' = [artifact EXCEPT ![a] = "completed"]
        /\ UNCHANGED <<object, text, point, overlapped>>
    BY <1>1 DEF Complete, Goto, At
  <1>3. a \in Artifacts
    <2>1. call[k] \in Call /\ CallHolds(k)
      BY DEF ArtInv
    <2>2. call[k] # Idle
      BY <1>2, IdleFacts
    <2> QED BY <1>1, <2>1, <2>2 DEF CallHolds, Call
  <1>4. /\ artifact' \in [Artifacts -> {Nil, "pending", "completed", "failed"}]
        /\ overlapped' \subseteq Artifacts /\ overlapped \subseteq overlapped'
        /\ \A b \in Artifacts : artifact[b] # Nil => artifact'[b] # Nil
    BY <1>2, NilAssumption DEF ArtInv
  <1>5. CallHolds(k)' /\ CallAlone(k)'
    BY <1>2, CallGoesIdle
  <1>6. UNCHANGED <<object, text, point>>
    BY <1>2
  <1>7. Idle.built = <<>> /\ Idle \in Call
        /\ \A l \in DeriveCalls : l # k =>
             (Idle.artifact = call[l].artifact => Idle.artifact \in overlapped' \cup {Nil})
    BY IdleFacts
  <1> QED BY <1>1, <1>2, <1>3, <1>4, <1>5, <1>6, <1>7, CallOnly

(* A call that begins has built nothing and retires nothing. *)
LEMMA CallBegins ==
  ASSUME ArtInv, NEW k \in DeriveCalls, NEW c \in Call, c.artifact \in Artifacts,
         c.pc \in {"examine", "complete"}, c.stale = <<>>, c.built = <<>>, c.published = 0,
         c.pc = "complete" => c.chunks = 0,
         c.chunks # 0 => c.chunks = object[c.artifact],
         call' = [call EXCEPT ![k] = c], UNCHANGED <<object, text, point>>,
         artifact' \in [Artifacts -> {Nil, "pending", "completed", "failed"}],
         \A b \in Artifacts : artifact[b] # Nil => artifact'[b] # Nil,
         artifact'[c.artifact] # Nil,
         overlapped \subseteq overlapped', overlapped' \subseteq Artifacts,
         \A l \in DeriveCalls :
           l # k /\ call[l].artifact = c.artifact => c.artifact \in overlapped'
  PROVE  ArtInv'
  <1>1. call'[k] = c
    BY DEF ArtInv
  <1>2. DOMAIN <<>> = {} /\ Len(<<>>) = 0
    OBVIOUS
  <1>3. c.artifact # Nil /\ c.chunks >= 0 /\ c.pc \notin Deriving
    BY NilAssumption, BoundsAssumption, CallFacts DEF Deriving
  <1>4. CallHolds(k)'
    <2>1. c.chunks # 0 => c.chunks = object'[c.artifact]
      OBVIOUS
    <2>2. c.artifact # Nil /\ c.pc # "idle" /\ artifact'[c.artifact] # Nil
      BY <1>3
    <2>3. Len(c.built) <= c.chunks /\ ~(c.published > 0)
      BY <1>2, <1>3
    <2>4. c.pc \notin {"retire_row", "vector", "index"} /\ c.pc \notin Deriving
      BY <1>3
    <2>5. DOMAIN c.built = {} /\ DOMAIN c.stale = {}
      BY <1>2
    <2> QED BY <1>1, <2>1, <2>2, <2>3, <2>4, <2>5 DEF CallHolds
  <1>5. CallAlone(k)'
    <2>1. 1..0 = {}
      OBVIOUS
    <2> QED BY <1>1, <1>3, <2>1 DEF CallAlone
  <1>6. \A l \in DeriveCalls : l # k =>
           (c.artifact = call[l].artifact => c.artifact \in overlapped' \cup {Nil})
    OBVIOUS
  <1>7. PICK a \in Artifacts : a = c.artifact
    OBVIOUS
  <1> QED BY <1>4, <1>5, <1>6, <1>7, CallOnly

(* POST /v1/artifacts/complete, up to the examination.                       *)
LEMMA BeginCompleteStep ==
  ASSUME ArtInv, NEW k \in DeriveCalls, NEW a \in Uploads, BeginComplete(k, a)
  PROVE  ArtInv'
  <1>1. a \in Artifacts
    BY DEF Artifacts
  <1>2. /\ artifact[a] # Nil /\ UNCHANGED <<object, artifact, text, point>>
        /\ overlapped' = overlapped \cup {b \in {a} : \E l \in DeriveCalls : call[l].artifact = a}
    BY DEF BeginComplete
  <1>3. /\ artifact' \in [Artifacts -> {Nil, "pending", "completed", "failed"}]
        /\ artifact'[a] # Nil
        /\ overlapped' \subseteq Artifacts /\ overlapped \subseteq overlapped'
        /\ \A b \in Artifacts : artifact[b] # Nil => artifact'[b] # Nil
    BY <1>1, <1>2 DEF ArtInv
  <1>4. \A l \in DeriveCalls : l # k /\ call[l].artifact = a => a \in overlapped'
    BY <1>2
  <1>5. PICK c \in Call :
          /\ c.pc \in {"examine", "complete"} /\ c.artifact = a /\ c.stale = <<>>
          /\ c.built = <<>> /\ c.published = 0
          /\ c.pc = "complete" => c.chunks = 0
          /\ c.chunks # 0 => c.chunks = object[a]
          /\ call' = [call EXCEPT ![k] = c]
    <2>1. CASE /\ object[a] \in 0..MaxChunks
               /\ Goto(k, [Idle EXCEPT !.pc = "examine", !.artifact = a, !.chunks = object[a]])
      <3>1. PICK c : c = [Idle EXCEPT !.pc = "examine", !.artifact = a, !.chunks = object[a]]
        OBVIOUS
      <3>2. /\ c.pc = "examine" /\ c.artifact = a /\ c.stale = <<>> /\ c.built = <<>>
            /\ c.published = 0 /\ c.chunks = object[a] /\ c \in Call
        BY <1>1, <2>1, <3>1, IdleFacts DEF Call
      <3>3. call' = [call EXCEPT ![k] = c]
        BY <2>1, <3>1 DEF Goto
      <3> QED BY <3>2, <3>3
    <2>2. CASE Goto(k, [Idle EXCEPT !.pc = "complete", !.artifact = a])
      <3>1. PICK c : c = [Idle EXCEPT !.pc = "complete", !.artifact = a]
        OBVIOUS
      <3>2. /\ c.pc = "complete" /\ c.artifact = a /\ c.stale = <<>> /\ c.built = <<>>
            /\ c.published = 0 /\ c.chunks = 0 /\ c \in Call
        BY <1>1, <3>1, IdleFacts DEF Call
      <3>3. call' = [call EXCEPT ![k] = c]
        BY <2>2, <3>1 DEF Goto
      <3> QED BY <3>2, <3>3
    <2> QED BY <2>1, <2>2 DEF BeginComplete
  <1>6. UNCHANGED <<object, text, point>>
    BY <1>2
  <1>7. c.pc = "complete" => c.chunks = 0
    BY <1>5
  <1>8. c.chunks # 0 => c.chunks = object[a]
    BY <1>5
  <1>9. /\ c.pc \in {"examine", "complete"} /\ c.artifact = a /\ c.stale = <<>>
        /\ c.built = <<>> /\ c.published = 0 /\ call' = [call EXCEPT ![k] = c]
    BY <1>5
  <1>10. /\ c.artifact \in Artifacts /\ artifact'[c.artifact] # Nil
         /\ c.chunks # 0 => c.chunks = object[c.artifact]
    BY <1>1, <1>3, <1>8, <1>9
  <1>11. \A l \in DeriveCalls :
           l # k /\ call[l].artifact = c.artifact => c.artifact \in overlapped'
    BY <1>4, <1>9
  <1> QED BY ONLY ArtInv, k \in DeriveCalls, c \in Call, <1>3, <1>6, <1>7, <1>9, <1>10, <1>11,
                  CallBegins

(* ingest_files, up to the examination.                                      *)
LEMMA BeginIngestStep ==
  ASSUME ArtInv, NEW k \in DeriveCalls, NEW a \in Files, BeginIngest(k, a)
  PROVE  ArtInv'
  <1>1. a \in Artifacts
    BY DEF Artifacts
  <1>2. PICK n : n = object[a]
    OBVIOUS
  <1>3. PICK c : c = [Idle EXCEPT !.pc = "examine", !.artifact = a, !.chunks = n]
    OBVIOUS
  <1>4. /\ artifact[a] = Nil /\ artifact' = [artifact EXCEPT ![a] = "completed"]
        /\ UNCHANGED <<object, text, point, overlapped>>
        /\ n \in 1..MaxChunks /\ call' = [call EXCEPT ![k] = c]
    BY <1>2, <1>3 DEF BeginIngest, CreateArtifact, Goto
  <1>5. /\ artifact' \in [Artifacts -> {Nil, "pending", "completed", "failed"}]
        /\ artifact'[a] # Nil
        /\ overlapped' \subseteq Artifacts /\ overlapped \subseteq overlapped'
        /\ \A b \in Artifacts : artifact[b] # Nil => artifact'[b] # Nil
    BY <1>1, <1>4, NilAssumption DEF ArtInv
  <1>6. \A l \in DeriveCalls : l # k /\ call[l].artifact = a => a \in overlapped'
    <2> SUFFICES ASSUME NEW l \in DeriveCalls, call[l].artifact = a PROVE FALSE
      OBVIOUS
    <2>1. CallHolds(l)
      BY DEF ArtInv
    <2> QED BY <1>1, <1>4, <2>1, NilAssumption DEF CallHolds
  <1>7. /\ c.pc = "examine" /\ c.artifact = a /\ c.stale = <<>> /\ c.built = <<>>
        /\ c.published = 0 /\ c.chunks = object[a] /\ c \in Call
    <2>1. n \in 0..MaxChunks
      BY <1>4, BoundsAssumption
    <2> QED BY <1>1, <1>2, <1>3, <2>1, IdleFacts DEF Call
  <1>8. call' = [call EXCEPT ![k] = c] /\ UNCHANGED <<object, text, point>>
    BY <1>4
  <1>9. c.pc = "complete" => c.chunks = 0
    BY <1>7
  <1>10. c.chunks # 0 => c.chunks = object[a]
    BY <1>7
  <1>11. /\ c.artifact \in Artifacts /\ artifact'[c.artifact] # Nil
         /\ c.chunks # 0 => c.chunks = object[c.artifact]
    BY <1>1, <1>5, <1>7, <1>10
  <1>12. \A l \in DeriveCalls :
           l # k /\ call[l].artifact = c.artifact => c.artifact \in overlapped'
    BY <1>6, <1>7
  <1>13. c.pc \in {"examine", "complete"}
    BY <1>7
  <1> QED BY ONLY ArtInv, k \in DeriveCalls, <1>5, <1>7, <1>8, <1>9, <1>11, <1>12, <1>13,
                  CallBegins

(* What a call under way stands on. *)
LEMMA StepFacts ==
  ASSUME ArtInv, NEW k \in DeriveCalls, call[k].pc # "idle"
  PROVE  /\ call[k] \in Call /\ CallHolds(k)
         /\ call[k].artifact \in Artifacts /\ call[k].artifact # Nil
         /\ call[k].artifact \notin overlapped => CallAlone(k)
         /\ call[k].pc \in Deriving =>
              /\ call[k].chunks \in 1..MaxChunks
              /\ call[k].chunks = object[call[k].artifact]
         /\ \A l \in DeriveCalls : l # k =>
              /\ (call[k].built # <<>> /\ call[l].built # <<>>) =>
                    call[k].built[1] # call[l].built[1]
              /\ call[k].artifact = call[l].artifact => call[k].artifact \in overlapped \cup {Nil}
  <1>1. call[k] \in Call /\ CallHolds(k)
    BY DEF ArtInv
  <1>2. call[k].artifact # Nil
    BY <1>1, IdleFacts DEF CallHolds
  <1>3. call[k].artifact \in Artifacts
    BY <1>1, <1>2 DEF Call
  <1>4. call[k].pc \in Deriving =>
              /\ call[k].chunks \in 1..MaxChunks
              /\ call[k].chunks = object[call[k].artifact]
    <2>1. call[k].chunks \in 0..MaxChunks
      BY <1>1 DEF Call
    <2>2. call[k].pc \in Deriving => call[k].chunks # 0
      BY <1>1 DEF CallHolds
    <2>3. call[k].chunks # 0 => call[k].chunks = object[call[k].artifact]
      BY <1>1 DEF CallHolds
    <2> QED BY <2>1, <2>2, <2>3, BoundsAssumption
  <1>5. call[k].artifact \notin overlapped => CallAlone(k)
    BY DEF ArtInv
  <1>6. \A l \in DeriveCalls : l # k =>
              /\ (call[k].built # <<>> /\ call[l].built # <<>>) =>
                    call[k].built[1] # call[l].built[1]
              /\ call[k].artifact = call[l].artifact => call[k].artifact \in overlapped \cup {Nil}
    BY DEF ArtInv, CallsApart
  <1> QED BY <1>1, <1>2, <1>3, <1>4, <1>5, <1>6

(* A step that writes one point. *)
LEMMA PointStep ==
  ASSUME ArtInv, NEW k \in DeriveCalls, NEW c \in Call, call[k].pc # "idle",
         NEW a, a = call[k].artifact, c.artifact = a, c.built = call[k].built,
         call' = [call EXCEPT ![k] = c], UNCHANGED <<object, artifact, text, overlapped>>,
         NEW i \in 1..MaxChunks, NEW q \in {Nil} \cup Point,
         point' = [point EXCEPT ![<<a, i>>] = q],
         q # Nil => q.row \in DOMAIN text,
         CallHolds(k)',
         a \notin overlapped => AloneHolds(a)' /\ CallAlone(k)'
  PROVE  ArtInv'
  <1>1. a \in Artifacts
    BY StepFacts
  <1>2. RowsKept /\ RowsHold'
    BY DEF RowsKept, RowsHold, ArtInv
  <1>3. /\ artifact' \in [Artifacts -> {Nil, "pending", "completed", "failed"}]
        /\ overlapped' \subseteq Artifacts /\ overlapped \subseteq overlapped'
        /\ \A b \in Artifacts : artifact[b] # Nil => artifact'[b] # Nil
        /\ object' = object
    BY DEF ArtInv
  <1>4. <<a, i>> \in Artifacts \X (1..MaxChunks)
    BY <1>1
  <1>5. point' \in [Artifacts \X (1..MaxChunks) -> {Nil} \cup Point]
    BY <1>1, <1>4 DEF ArtInv
  <1>6. \A p \in DOMAIN point' : point'[p] # Nil => point'[p].row \in DOMAIN text'
    BY <1>1, <1>4 DEF ArtInv
  <1>7. \A b \in Artifacts : b # a => \A j \in 1..MaxChunks : point'[<<b, j>>] = point[<<b, j>>]
    BY <1>1 DEF ArtInv
  <1>8. \A t \in DOMAIN text' \ DOMAIN text :
           /\ text'[t].artifact = a
           /\ \A l \in DeriveCalls :
                l # k /\ call[l].built # <<>> => text'[t].attempt # call[l].built[1]
    OBVIOUS
  <1>9. \A t \in DOMAIN text : text[t].artifact # a => text'[t] = text[t]
    OBVIOUS
  <1>10. \A l \in DeriveCalls : l # k =>
           /\ (c.built # <<>> /\ call[l].built # <<>>) => c.built[1] # call[l].built[1]
           /\ c.artifact = call[l].artifact => c.artifact \in overlapped' \cup {Nil}
    BY StepFacts
  <1>11. call[k].artifact = a \/ c.artifact = a
    OBVIOUS
  <1>12. a \notin overlapped' => AloneHolds(a)'
    OBVIOUS
  <1>13. c.artifact \notin overlapped' => CallAlone(k)'
    OBVIOUS
  <1>14. call' = [call EXCEPT ![k] = c] /\ CallHolds(k)'
    OBVIOUS
  <1> QED BY ONLY ArtInv, k \in DeriveCalls, c \in Call, <1>1, <1>2, <1>3, <1>5, <1>6, <1>7,
                  <1>8, <1>9, <1>10, <1>11, <1>12, <1>13, <1>14, StepOfCall

(* A step that changes rows of the call's artifact. *)
LEMMA TextStep ==
  ASSUME ArtInv, NEW k \in DeriveCalls, NEW c \in Call, call[k].pc # "idle",
         NEW a, a = call[k].artifact,
         c.artifact \in {Nil, a}, c.built \in {<<>>, call[k].built},
         call' = [call EXCEPT ![k] = c], UNCHANGED <<object, artifact, point, overlapped>>,
         RowsKept, RowsHold', DOMAIN text' = DOMAIN text,
         \A t \in DOMAIN text : text[t].artifact # a => text'[t] = text[t],
         CallHolds(k)',
         a \notin overlapped => AloneHolds(a)' /\ CallAlone(k)'
  PROVE  ArtInv'
  <1>1. a \in Artifacts
    BY StepFacts
  <1>2. /\ artifact' \in [Artifacts -> {Nil, "pending", "completed", "failed"}]
        /\ overlapped' \subseteq Artifacts /\ overlapped \subseteq overlapped'
        /\ \A b \in Artifacts : artifact[b] # Nil => artifact'[b] # Nil
        /\ object' = object
    BY DEF ArtInv
  <1>3. /\ point' \in [Artifacts \X (1..MaxChunks) -> {Nil} \cup Point]
        /\ \A p \in DOMAIN point' : point'[p] # Nil => point'[p].row \in DOMAIN text'
    BY DEF ArtInv
  <1>4. \A b \in Artifacts : b # a => \A j \in 1..MaxChunks : point'[<<b, j>>] = point[<<b, j>>]
    OBVIOUS
  <1>5. \A t \in DOMAIN text' \ DOMAIN text :
           /\ text'[t].artifact = a
           /\ \A l \in DeriveCalls :
                l # k /\ call[l].built # <<>> => text'[t].attempt # call[l].built[1]
    OBVIOUS
  <1>6. \A l \in DeriveCalls : l # k =>
           /\ (c.built # <<>> /\ call[l].built # <<>>) => c.built[1] # call[l].built[1]
           /\ c.artifact = call[l].artifact => c.artifact \in overlapped' \cup {Nil}
    <2> SUFFICES ASSUME NEW l \in DeriveCalls, l # k
                 PROVE  /\ (c.built # <<>> /\ call[l].built # <<>>) => c.built[1] # call[l].built[1]
                        /\ c.artifact = call[l].artifact => c.artifact \in overlapped' \cup {Nil}
      OBVIOUS
    <2>1. (call[k].built # <<>> /\ call[l].built # <<>>) => call[k].built[1] # call[l].built[1]
      BY StepFacts
    <2>2. a = call[l].artifact => a \in overlapped \cup {Nil}
      BY StepFacts
    <2> QED BY <2>1, <2>2
  <1>7. call[k].artifact = a \/ c.artifact = a
    OBVIOUS
  <1>8. a \notin overlapped' => AloneHolds(a)'
    OBVIOUS
  <1>9. c.artifact \notin overlapped' => CallAlone(k)'
    <2>1. CASE c.artifact = a
      BY <2>1
    <2>2. CASE c.artifact = Nil
      <3>1. CallHolds(k)' /\ call'[k] = c
        BY DEF ArtInv
      <3>2. call'[k] = Idle
        BY <2>2, <3>1 DEF CallHolds
      <3> QED BY <3>2, IdleFacts DEF CallAlone, Deriving
    <2> QED BY <2>1, <2>2
  <1> QED BY <1>1, <1>2, <1>3, <1>4, <1>5, <1>6, <1>7, <1>8, <1>9, StepOfCall

(* A call that goes on, with what it has built. *)
LEMMA DerivationGoesOn ==
  ASSUME ArtInv, NEW k \in DeriveCalls, call[k].pc # "idle", NEW d \in Call,
         call' = [call EXCEPT ![k] = d],
         d.artifact = call[k].artifact, d.chunks = call[k].chunks, d.built = call[k].built,
         d.pc \in {"complete"} \cup (Deriving \ {"activate"}), d.chunks # 0,
         d.published > 0 => Len(d.built) = d.chunks,
         d.stale # <<>> => d.pc \in {"retire", "retire_row"} /\ d.built = <<>>,
         d.pc = "retire_row" => d.stale # <<>>,
         d.pc \in {"vector", "index"} => d.built # <<>> /\ d.published = 0,
         \A i \in DOMAIN d.stale : d.stale[i][1] \in RowsOf(d.artifact),
         RowsKept, DOMAIN text' = DOMAIN text, UNCHANGED <<object, artifact>>
  PROVE  CallHolds(k)'
  <1> DEFINE c == call[k]
  <1>1. c \in Call /\ CallHolds(k) /\ d.artifact \in Artifacts /\ d.artifact # Nil
    BY StepFacts
  <1>2. call'[k] = d
    BY DEF ArtInv
  <1>3. \A t \in RowsOf(d.artifact) : t \in RowsOf(d.artifact)'
    <2>1. d.artifact' = d.artifact
      OBVIOUS
    <2> QED BY DEF RowsOf, RowsKept
  <1>4. \A i \in DOMAIN d.built :
          /\ d.built[i] \in DOMAIN text' /\ text'[d.built[i]].artifact = d.artifact
          /\ text'[d.built[i]].index = i /\ text'[d.built[i]].attempt = d.built[1]
    <2> SUFFICES ASSUME NEW i \in DOMAIN d.built
                 PROVE  /\ d.built[i] \in DOMAIN text' /\ text'[d.built[i]].artifact = d.artifact
                        /\ text'[d.built[i]].index = i /\ text'[d.built[i]].attempt = d.built[1]
      OBVIOUS
    <2>1. c.built[i] \in RowsOf(c.artifact) /\ text[c.built[i]].index = i
          /\ text[c.built[i]].attempt = c.built[1]
      BY <1>1 DEF CallHolds
    <2> QED BY <2>1 DEF RowsKept, RowsOf
  <1>5. d.built # <<>> =>
          \A t \in DOMAIN text' : text'[t].attempt = d.built[1] => text'[t].index <= Len(d.built)
    <2> SUFFICES ASSUME d.built # <<>>, NEW t \in DOMAIN text', text'[t].attempt = d.built[1]
                 PROVE  text'[t].index <= Len(d.built)
      OBVIOUS
    <2>1. t \in AttemptRows(c.built[1]) /\ text'[t].index = text[t].index
      BY DEF AttemptRows, RowsKept
    <2> QED BY <1>1, <2>1 DEF CallHolds
  <1>6. \A i \in DOMAIN d.stale : /\ d.stale[i][1] \in DOMAIN text'
                                  /\ text'[d.stale[i][1]].artifact = d.artifact
    BY DEF RowsOf, RowsKept
  <1>7. /\ d.pc # "idle" /\ d.pc # "examine" /\ artifact'[d.artifact] # Nil
        /\ d.chunks = object'[d.artifact] /\ Len(d.built) <= d.chunks
    BY <1>1 DEF CallHolds, Deriving
  <1> HIDE DEF c
  <1> QED BY <1>1, <1>2, <1>4, <1>5, <1>6, <1>7 DEF CallHolds, RowsOf, AttemptRows

(* A stale row's point is no longer shown as active.                         *)
LEMMA RetireVectorStep ==
  ASSUME ArtInv, NEW k \in DeriveCalls, RetireVector(k)
  PROVE  ArtInv'
  <1>1. PICK c : c = call[k]
    OBVIOUS
  <1>2. PICK a : a = c.artifact
    OBVIOUS
  <1>3. PICK t : t = Head(c.stale)[1]
    OBVIOUS
  <1>4. PICK s \in {"superseded", "failed"} :
          /\ c.pc = "retire" /\ c.stale # <<>>
          /\ point' = IF point[PointOf(t)] = Nil THEN point
                      ELSE [point EXCEPT ![PointOf(t)].status = s]
          /\ call' = [call EXCEPT ![k] = [c EXCEPT !.pc = "retire_row"]]
          /\ UNCHANGED <<object, artifact, text, overlapped>>
    BY <1>1, <1>3 DEF RetireVector, At, Goto, Moved
  <1>5. /\ c \in Call /\ CallHolds(k) /\ a \in Artifacts /\ a # Nil
        /\ a \notin overlapped => CallAlone(k)
        /\ c.chunks \in 1..MaxChunks /\ c.chunks = object[a]
    BY <1>1, <1>2, <1>4, StepFacts DEF Deriving
  <1>6. PICK d : d = [c EXCEPT !.pc = "retire_row"]
    OBVIOUS
  <1>7. /\ d \in Call /\ d.pc = "retire_row" /\ d.artifact = a /\ d.chunks = c.chunks
        /\ d.stale = c.stale /\ d.built = c.built /\ d.published = c.published
    BY <1>2, <1>5, <1>6 DEF Call, Deriving
  <1>8. c.built = <<>> /\ c.published = 0
    <2>1. c.built = <<>> /\ (c.published > 0 => Len(c.built) = c.chunks)
      BY <1>1, <1>4, <1>5 DEF CallHolds
    <2> QED BY <1>5, <2>1, CallFacts
  <1>9. t \in RowsOf(a) /\ \A i \in DOMAIN c.stale : c.stale[i][1] \in RowsOf(a)
    <2>1. \A i \in DOMAIN c.stale : c.stale[i][1] \in RowsOf(a)
      BY <1>1, <1>2, <1>5 DEF CallHolds
    <2>2. 1 \in DOMAIN c.stale
      <3>1. c.stale \in Seq((1..MaxTexts) \X BOOLEAN)
        BY <1>5 DEF Call
      <3> QED BY <1>4, <3>1, EmptySeq, LenProperties
    <2>3. Head(c.stale) = c.stale[1]
      OBVIOUS
    <2> QED BY <1>3, <2>1, <2>2, <2>3
  <1>10. PICK i : i = text[t].index
    OBVIOUS
  <1>11. t \in DOMAIN text /\ text[t] \in TextRow /\ PointOf(t) = <<a, i>> /\ i \in 1..MaxChunks
    <2>1. t \in DOMAIN text /\ text[t].artifact = a
      BY <1>9 DEF RowsOf
    <2>2. text[t] \in TextRow
      BY <2>1, TextFacts DEF ArtInv
    <2> QED BY <1>10, <2>1, <2>2 DEF TextRow, PointOf
  <1>12. PICK q : q = IF point[<<a, i>>] = Nil THEN Nil
                      ELSE [point[<<a, i>>] EXCEPT !.status = s]
    OBVIOUS
  <1>13. <<a, i>> \in Artifacts \X (1..MaxChunks) /\ point[<<a, i>>] \in {Nil} \cup Point
    BY <1>5, <1>11 DEF ArtInv
  <1>14. /\ q \in {Nil} \cup Point /\ (q # Nil => q.row \in DOMAIN text)
         /\ point[<<a, i>>] # Nil => q # Nil /\ q.row = point[<<a, i>>].row
    <2>1. CASE point[<<a, i>>] = Nil
      BY <1>12, <2>1
    <2>2. CASE point[<<a, i>>] # Nil
      <3>1. q \in Point /\ q.row = point[<<a, i>>].row
        BY <1>12, <1>13, <2>2 DEF Point
      <3>2. point[<<a, i>>].row \in DOMAIN text
        BY <1>13, <2>2 DEF ArtInv
      <3> QED BY <3>1, <3>2, NilAssumption
    <2> QED BY <2>1, <2>2
  <1>15. point' = [point EXCEPT ![<<a, i>>] = q]
    BY <1>4, <1>11, <1>12, <1>13 DEF ArtInv
  <1>16. CallHolds(k)'
    <2>1. RowsKept /\ DOMAIN text' = DOMAIN text
      BY <1>4 DEF RowsKept
    <2>2. d.pc \in {"complete"} \cup Deriving /\ d.chunks # 0 /\ call[k].pc # "idle"
      BY <1>1, <1>4, <1>5, <1>7 DEF Deriving
    <2>3. ~(d.published > 0) /\ d.stale # <<>> /\ d.pc = "retire_row" /\ d.built = <<>>
      BY <1>4, <1>7, <1>8
    <2>4. \A j \in DOMAIN d.stale : d.stale[j][1] \in RowsOf(d.artifact)
      BY <1>7, <1>9
    <2>5. d.artifact = call[k].artifact /\ d.chunks = call[k].chunks /\ d.built = call[k].built
      BY <1>1, <1>2, <1>7
    <2>6. call' = [call EXCEPT ![k] = d] /\ UNCHANGED <<object, artifact>>
      BY <1>4, <1>6
    <2> QED BY <1>7, <2>1, <2>2, <2>3, <2>4, <2>5, <2>6, DerivationGoesOn
  <1>17. ASSUME a \notin overlapped PROVE AloneHolds(a)' /\ CallAlone(k)'
    <2>1. /\ Lacking(a, c.chunks)
          /\ \A u \in ActiveRows(a) : \E j \in DOMAIN c.stale : c.stale[j][1] = u
      BY <1>1, <1>2, <1>4, <1>5, <1>17 DEF CallAlone, Deriving
    <2>2. AloneHolds(a)
      BY <1>5, <1>17 DEF ArtInv
    <2>3. \A u \in ActiveRows(a) : /\ u \in DOMAIN text /\ text[u] \in TextRow
                                   /\ text[u].expected = c.chunks
                                   /\ PointOf(u) = <<a, text[u].index>>
                                   /\ text[u].index \in 1..MaxChunks
      <3> SUFFICES ASSUME NEW u \in ActiveRows(a)
                   PROVE  /\ u \in DOMAIN text /\ text[u] \in TextRow
                          /\ text[u].expected = c.chunks
                          /\ PointOf(u) = <<a, text[u].index>>
                          /\ text[u].index \in 1..MaxChunks
        OBVIOUS
      <3>1. u \in DOMAIN text /\ text[u].artifact = a
        BY DEF ActiveRows, RowsOf
      <3>2. text[u] \in TextRow /\ text[u].expected = object[a]
        BY <3>1, TextFacts DEF ArtInv, RowsHold
      <3> QED BY <1>5, <3>1, <3>2 DEF TextRow, PointOf
    <2>4. \A u \in ActiveRows(a) : point'[PointOf(u)] # Nil /\ point'[PointOf(u)].row = u
      <3> SUFFICES ASSUME NEW u \in ActiveRows(a)
                   PROVE  point'[PointOf(u)] # Nil /\ point'[PointOf(u)].row = u
        OBVIOUS
      <3>1. point[PointOf(u)] # Nil /\ point[PointOf(u)].row = u
        BY <2>2 DEF AloneHolds
      <3>2. PointOf(u) \in Artifacts \X (1..MaxChunks)
        BY <1>5, <2>3
      <3>3. point'[PointOf(u)] = IF PointOf(u) = <<a, i>> THEN q ELSE point[PointOf(u)]
        BY <1>15, <3>2 DEF ArtInv
      <3> QED BY <1>14, <3>1, <3>3
    <2>5. AloneHolds(a)'
      <3>1. ActiveRows(a)' = ActiveRows(a) /\ text' = text
        BY <1>4 DEF ActiveRows, RowsOf
      <3>2. \A u \in ActiveRows(a) : PointOf(u)' = PointOf(u) /\ Lacking(a, text[u].expected)'
        BY <2>1, <2>3, <3>1 DEF PointOf, Lacking
      <3>3. \A u \in ActiveRows(a) : \A v \in ActiveRows(a) : text[v].attempt = text[u].attempt
        BY <2>2 DEF AloneHolds
      <3> QED BY <2>4, <3>1, <3>2, <3>3 DEF AloneHolds
    <2>6. CallAlone(k)'
      <3>1. call'[k] = d
        BY <1>4, <1>6 DEF ArtInv
      <3>2. Lacking(a, d.chunks)' /\ ActiveRows(a)' = ActiveRows(a)
        BY <1>4, <1>7, <2>1 DEF Lacking, ActiveRows, RowsOf
      <3>3. DOMAIN d.built = {} /\ 1..d.published = {} /\ d.pc # "complete"
        BY <1>7, <1>8
      <3> QED BY <1>7, <2>1, <3>1, <3>2, <3>3 DEF CallAlone
    <2> QED BY <2>5, <2>6
  <1>18. /\ call[k].pc # "idle" /\ a = call[k].artifact /\ d.artifact = a
         /\ d.built = call[k].built /\ call' = [call EXCEPT ![k] = d]
         /\ UNCHANGED <<object, artifact, text, overlapped>>
    BY <1>1, <1>2, <1>4, <1>6, <1>7
  <1> QED BY ONLY ArtInv, k \in DeriveCalls, <1>7, <1>11, <1>14, <1>15, <1>16, <1>17, <1>18, PointStep

(* Rows of an artifact: their point, and what they announce. *)
LEMMA RowFacts ==
  ASSUME ArtInv, NEW a \in Artifacts, NEW t \in RowsOf(a)
  PROVE  /\ t \in DOMAIN text /\ t \in 1..MaxTexts /\ text[t] \in TextRow
         /\ text[t].artifact = a /\ text[t].expected = object[a]
         /\ PointOf(t) = <<a, text[t].index>>
         /\ text[t].index \in 1..MaxChunks /\ text[t].index <= text[t].expected
  <1>1. t \in DOMAIN text /\ text[t].artifact = a
    BY DEF RowsOf
  <1>2. /\ t \in 1..MaxTexts /\ text[t] \in TextRow /\ text[t].expected = object[a]
        /\ text[t].index <= text[t].expected
    BY <1>1, TextFacts DEF ArtInv, RowsHold
  <1> QED BY <1>1, <1>2 DEF TextRow, PointOf

(* When a call that is alone has retired the rows it found, none is active.  *)
LEMMA NothingActive ==
  ASSUME ArtInv, NEW k \in DeriveCalls, call[k].pc \in Deriving, call[k].stale = <<>>,
         call[k].artifact \notin overlapped
  PROVE  ActiveRows(call[k].artifact) = {}
  <1>1. call[k].pc # "idle"
    BY DEF Deriving
  <1>2. CallAlone(k)
    BY <1>1, StepFacts
  <1>3. \A t \in ActiveRows(call[k].artifact) : \E i \in DOMAIN call[k].stale : call[k].stale[i][1] = t
    BY <1>2 DEF CallAlone
  <1>4. DOMAIN call[k].stale = {}
    OBVIOUS
  <1> QED BY <1>3, <1>4

(* The new row's vector replaces the point of its chunk.                     *)
LEMMA UpsertVectorStep ==
  ASSUME ArtInv, NEW k \in DeriveCalls, UpsertVector(k)
  PROVE  ArtInv'
  <1>1. PICK c : c = call[k]
    OBVIOUS
  <1>2. PICK a : a = c.artifact
    OBVIOUS
  <1>3. PICK t : t = Last(c.built)
    OBVIOUS
  <1>4. PICK d : d = [c EXCEPT !.pc = "index"]
    OBVIOUS
  <1>5. /\ c.pc = "vector"
        /\ point' = [point EXCEPT ![PointOf(t)] = [row |-> t, status |-> "building"]]
        /\ call' = [call EXCEPT ![k] = d]
        /\ UNCHANGED <<object, artifact, text, overlapped>>
    BY <1>1, <1>3, <1>4 DEF UpsertVector, At, Goto, Moved
  <1>6. /\ c \in Call /\ CallHolds(k) /\ a \in Artifacts /\ a # Nil
        /\ a \notin overlapped => CallAlone(k)
        /\ c.chunks \in 1..MaxChunks /\ c.chunks = object[a]
    BY <1>1, <1>2, <1>5, StepFacts DEF Deriving
  <1>7. /\ d \in Call /\ d.pc = "index" /\ d.artifact = a /\ d.chunks = c.chunks
        /\ d.stale = c.stale /\ d.built = c.built /\ d.published = c.published
    BY <1>2, <1>4, <1>6 DEF Call, Deriving
  <1>8. c.built # <<>> /\ c.published = 0 /\ c.stale = <<>>
    BY <1>1, <1>5, <1>6 DEF CallHolds
  <1>9. PICK n : n = Len(c.built)
    OBVIOUS
  <1>10. n \in DOMAIN c.built /\ DOMAIN c.built = 1..n /\ n \in Nat /\ t = c.built[n]
    <2>1. n \in Nat /\ DOMAIN c.built = 1..n /\ 1 \in DOMAIN c.built
      BY <1>6, <1>8, <1>9, CallFacts
    <2> QED BY <1>3, <1>9, <2>1 DEF Last
  <1>11. t \in RowsOf(a) /\ text[t].index = n
    BY <1>1, <1>2, <1>6, <1>10 DEF CallHolds
  <1>12. /\ t \in DOMAIN text /\ t \in 1..MaxTexts /\ PointOf(t) = <<a, n>> /\ n \in 1..MaxChunks
    BY <1>6, <1>11, RowFacts
  <1>13. PICK q : q = [row |-> t, status |-> "building"]
    OBVIOUS
  <1>14. q \in {Nil} \cup Point /\ (q # Nil => q.row \in DOMAIN text)
    BY <1>12, <1>13 DEF Point
  <1>15. point' = [point EXCEPT ![<<a, n>>] = q]
    BY <1>5, <1>12, <1>13
  <1>16. CallHolds(k)'
    <2>1. RowsKept /\ DOMAIN text' = DOMAIN text
      BY <1>5 DEF RowsKept
    <2>2. d.pc \in {"complete"} \cup Deriving /\ d.chunks # 0 /\ call[k].pc # "idle"
      BY <1>1, <1>5, <1>6, <1>7 DEF Deriving
    <2>3. ~(d.published > 0) /\ d.stale = <<>> /\ d.pc = "index" /\ d.built # <<>> /\ d.published = 0
      BY <1>7, <1>8
    <2>4. \A j \in DOMAIN d.stale : d.stale[j][1] \in RowsOf(d.artifact)
      BY <2>3
    <2>5. d.artifact = call[k].artifact /\ d.chunks = call[k].chunks /\ d.built = call[k].built
      BY <1>1, <1>2, <1>7
    <2>6. call' = [call EXCEPT ![k] = d] /\ UNCHANGED <<object, artifact>>
      BY <1>5
    <2> QED BY <1>7, <2>1, <2>2, <2>3, <2>4, <2>5, <2>6, DerivationGoesOn
  <1>17. ASSUME a \notin overlapped PROVE AloneHolds(a)' /\ CallAlone(k)'
    <2>1. /\ Lacking(a, c.chunks)
          /\ \A i \in DOMAIN c.built :
               /\ text[c.built[i]].status \in {"building", "invalidated"}
               /\ i < Len(c.built) => text[c.built[i]].indexing = "indexed"
      BY <1>1, <1>2, <1>5, <1>6, <1>17 DEF CallAlone, Deriving
    <2>2. ActiveRows(a) = {}
      BY <1>1, <1>2, <1>5, <1>8, <1>17, NothingActive DEF Deriving
    <2>3. ActiveRows(a)' = {} /\ Lacking(a, c.chunks)'
      BY <1>5, <2>1, <2>2 DEF ActiveRows, RowsOf, Lacking
    <2>4. AloneHolds(a)'
      BY <2>3 DEF AloneHolds
    <2>5. CallAlone(k)'
      <3>1. call'[k] = d
        BY <1>5 DEF ArtInv
      <3>2. 1..d.published = {} /\ d.pc # "complete" /\ d.pc # "retire"
        BY <1>7, <1>8
      <3>3. \A i \in DOMAIN c.built :
               /\ text'[c.built[i]].status \in {"building", "invalidated"}
               /\ i < Len(c.built) => text'[c.built[i]].indexing = "indexed"
        BY <1>5, <2>1
      <3> QED BY <1>7, <2>3, <3>1, <3>2, <3>3 DEF CallAlone
    <2> QED BY <2>4, <2>5
  <1>18. /\ call[k].pc # "idle" /\ a = call[k].artifact /\ d.artifact = a
         /\ d.built = call[k].built /\ call' = [call EXCEPT ![k] = d]
         /\ UNCHANGED <<object, artifact, text, overlapped>>
    BY <1>1, <1>2, <1>5, <1>7
  <1> QED BY ONLY ArtInv, k \in DeriveCalls, <1>7, <1>12, <1>14, <1>15, <1>16, <1>17, <1>18, PointStep

(* A point is shown as active, ahead of its row.                             *)
LEMMA PublishVectorStep ==
  ASSUME ArtInv, NEW k \in DeriveCalls, PublishVector(k)
  PROVE  ArtInv'
  <1>1. PICK c : c = call[k]
    OBVIOUS
  <1>2. PICK a : a = c.artifact
    OBVIOUS
  <1>3. PICK n : n = c.published + 1
    OBVIOUS
  <1>4. PICK t : t = c.built[n]
    OBVIOUS
  <1>5. PICK d : d = [c EXCEPT !.published = n]
    OBVIOUS
  <1>6. /\ c.pc = "retire" /\ c.stale = <<>> /\ c.chunks > 0 /\ Len(c.built) = c.chunks
        /\ c.published < c.chunks
        /\ UNCHANGED <<object, artifact, text, overlapped>>
    BY <1>1 DEF PublishVector, At
  <1>7. call' = [call EXCEPT ![k] = d]
    BY <1>1, <1>3, <1>5 DEF PublishVector, Goto
  <1>8. point' = [point EXCEPT ![PointOf(t)] = [row |-> t, status |-> "active"]]
    BY <1>1, <1>3, <1>4 DEF PublishVector, Published
  <1>9. /\ c \in Call /\ CallHolds(k) /\ a \in Artifacts /\ a # Nil
        /\ a \notin overlapped => CallAlone(k)
        /\ c.chunks \in 1..MaxChunks /\ c.chunks = object[a]
    BY <1>1, <1>2, <1>6, StepFacts DEF Deriving
  <1>10. n \in DOMAIN c.built /\ n \in 1..MaxChunks /\ n \in 0..MaxChunks /\ c.published \in Nat
    <2>1. c.published \in Nat /\ DOMAIN c.built = 1..Len(c.built) /\ c.chunks <= MaxChunks
          /\ c.chunks \in Nat
      BY <1>9, CallFacts
    <2> QED BY <1>3, <1>6, <2>1, BoundsAssumption
  <1>11. /\ d \in Call /\ d.pc = "retire" /\ d.artifact = a /\ d.chunks = c.chunks
         /\ d.stale = c.stale /\ d.built = c.built /\ d.published = n
    BY <1>2, <1>5, <1>6, <1>9, <1>10 DEF Call, Deriving
  <1>12. t \in RowsOf(a) /\ text[t].index = n
    BY <1>1, <1>2, <1>4, <1>9, <1>10 DEF CallHolds
  <1>13. /\ t \in DOMAIN text /\ t \in 1..MaxTexts /\ PointOf(t) = <<a, n>>
    BY <1>9, <1>12, RowFacts
  <1>14. PICK q : q = [row |-> t, status |-> "active"]
    OBVIOUS
  <1>15. q \in {Nil} \cup Point /\ (q # Nil => q.row \in DOMAIN text)
    BY <1>13, <1>14 DEF Point
  <1>16. point' = [point EXCEPT ![<<a, n>>] = q]
    BY <1>8, <1>13, <1>14
  <1>17. CallHolds(k)'
    <2>1. RowsKept /\ DOMAIN text' = DOMAIN text
      BY <1>6 DEF RowsKept
    <2>2. d.pc \in {"complete"} \cup Deriving /\ d.chunks # 0 /\ call[k].pc # "idle"
      BY <1>1, <1>6, <1>9, <1>11 DEF Deriving
    <2>3. Len(d.built) = d.chunks /\ d.stale = <<>> /\ d.pc = "retire"
      BY <1>6, <1>11
    <2>4. \A j \in DOMAIN d.stale : d.stale[j][1] \in RowsOf(d.artifact)
      BY <2>3
    <2>5. d.artifact = call[k].artifact /\ d.chunks = call[k].chunks /\ d.built = call[k].built
      BY <1>1, <1>2, <1>11
    <2>6. call' = [call EXCEPT ![k] = d] /\ UNCHANGED <<object, artifact>>
      BY <1>6, <1>7
    <2> QED BY <1>11, <2>1, <2>2, <2>3, <2>4, <2>5, <2>6, DerivationGoesOn
  <1>18. ASSUME a \notin overlapped PROVE AloneHolds(a)' /\ CallAlone(k)'
    <2>1. /\ Lacking(a, c.chunks)
          /\ \A i \in DOMAIN c.built :
               /\ text[c.built[i]].status \in {"building", "invalidated"}
               /\ text[c.built[i]].indexing = "indexed"
          /\ \A i \in 1..c.published : point[<<a, i>>] = [row |-> c.built[i], status |-> "active"]
      BY <1>1, <1>2, <1>6, <1>9, <1>18 DEF CallAlone, Deriving
    <2>2. ActiveRows(a) = {}
      BY <1>1, <1>2, <1>6, <1>18, NothingActive DEF Deriving
    <2>3. ActiveRows(a)' = {} /\ Lacking(a, c.chunks)'
      BY <1>6, <2>1, <2>2 DEF ActiveRows, RowsOf, Lacking
    <2>4. AloneHolds(a)'
      BY <2>3 DEF AloneHolds
    <2>5. \A i \in 1..n : point'[<<a, i>>] = [row |-> c.built[i], status |-> "active"]
      <3> SUFFICES ASSUME NEW i \in 1..n
                   PROVE  point'[<<a, i>>] = [row |-> c.built[i], status |-> "active"]
        OBVIOUS
      <3>1. i \in 1..MaxChunks /\ i \in Nat
        BY <1>10, BoundsAssumption
      <3>2. point'[<<a, i>>] = IF i = n THEN q ELSE point[<<a, i>>]
        BY <1>9, <1>16, <3>1 DEF ArtInv
      <3>3. CASE i = n
        BY <1>4, <1>14, <3>2, <3>3
      <3>4. CASE i # n
        <4>1. i \in 1..c.published
          BY <1>3, <1>10, <3>1, <3>4
        <4> QED BY <2>1, <3>2, <3>4, <4>1
      <3> QED BY <3>3, <3>4
    <2>6. CallAlone(k)'
      <3>1. call'[k] = d
        BY <1>7 DEF ArtInv
      <3>2. d.pc # "complete"
        BY <1>11
      <3>3. \A i \in DOMAIN c.built :
               /\ text'[c.built[i]].status \in {"building", "invalidated"}
               /\ text'[c.built[i]].indexing = "indexed"
        BY <1>6, <2>1
      <3> QED BY <1>11, <2>3, <2>5, <3>1, <3>2, <3>3 DEF CallAlone
    <2> QED BY <2>4, <2>6
  <1>19. /\ call[k].pc # "idle" /\ a = call[k].artifact /\ d.artifact = a
         /\ d.built = call[k].built /\ call' = [call EXCEPT ![k] = d]
         /\ UNCHANGED <<object, artifact, text, overlapped>>
    BY <1>1, <1>2, <1>6, <1>7, <1>11
  <1> QED BY ONLY ArtInv, k \in DeriveCalls, <1>10, <1>11, <1>15, <1>16, <1>17, <1>18, <1>19, PointStep

(* The stale row is retired.                                                 *)
LEMMA RetireRowStep ==
  ASSUME ArtInv, NEW k \in DeriveCalls, RetireRow(k)
  PROVE  ArtInv'
  <1>1. PICK c : c = call[k]
    OBVIOUS
  <1>2. PICK a : a = c.artifact
    OBVIOUS
  <1>3. PICK t : t = Head(c.stale)[1]
    OBVIOUS
  <1>4. PICK d : d = [c EXCEPT !.pc = "retire", !.stale = Tail(@)]
    OBVIOUS
  <1>5. PICK s \in {"superseded", "failed"}, x \in {"indexed", "incomplete"} :
          text' = [text EXCEPT ![t].status = s, ![t].indexing = x]
    <2>1. PICK done : done = Head(c.stale)[2]
      OBVIOUS
    <2>2. text' = [text EXCEPT ![t].status   = IF done THEN "superseded" ELSE "failed",
                               ![t].indexing = IF done THEN "indexed" ELSE "incomplete"]
      BY <1>1, <1>3, <2>1 DEF RetireRow
    <2>3. PICK s : s = IF done THEN "superseded" ELSE "failed"
      OBVIOUS
    <2>4. PICK x : x = IF done THEN "indexed" ELSE "incomplete"
      OBVIOUS
    <2>5. text' = [text EXCEPT ![t].status = s, ![t].indexing = x]
      BY <2>2, <2>3, <2>4
    <2>6. s \in {"superseded", "failed"} /\ x \in {"indexed", "incomplete"}
      BY <2>3, <2>4
    <2> QED BY <2>5, <2>6
  <1>6. c.pc = "retire_row" /\ UNCHANGED <<object, artifact, point, overlapped>>
    BY <1>1 DEF RetireRow, At
  <1>7. call' = [call EXCEPT ![k] = d]
    <2>1. d = [Moved(k, "retire") EXCEPT !.stale = Tail(@)]
      BY <1>1, <1>4 DEF Moved
    <2> QED BY <2>1 DEF RetireRow, Goto
  <1>8. /\ c \in Call /\ CallHolds(k) /\ a \in Artifacts /\ a # Nil
        /\ a \notin overlapped => CallAlone(k)
        /\ c.chunks \in 1..MaxChunks /\ c.chunks = object[a]
    BY <1>1, <1>2, <1>6, StepFacts DEF Deriving
  <1>9. c.stale # <<>> /\ c.built = <<>> /\ c.published = 0
    <2>1. /\ c.stale # <<>> /\ c.built = <<>>
          /\ c.published > 0 => Len(c.built) = c.chunks
      BY <1>1, <1>6, <1>8 DEF CallHolds
    <2> QED BY <1>8, <2>1, CallFacts
  <1>10. /\ Head(c.stale) = c.stale[1] /\ 1 \in DOMAIN c.stale
         /\ Tail(c.stale) \in Seq((1..MaxTexts) \X BOOLEAN)
         /\ Len(c.stale) \in Nat /\ DOMAIN c.stale = 1..Len(c.stale)
         /\ Len(Tail(c.stale)) = Len(c.stale) - 1
         /\ DOMAIN Tail(c.stale) = 1..Len(Tail(c.stale))
         /\ \A i \in 1..Len(Tail(c.stale)) : Tail(c.stale)[i] = c.stale[i + 1]
    <2>1. c.stale \in Seq((1..MaxTexts) \X BOOLEAN)
      BY <1>8 DEF Call
    <2>2. /\ Tail(c.stale) \in Seq((1..MaxTexts) \X BOOLEAN)
          /\ Len(Tail(c.stale)) = Len(c.stale) - 1
          /\ \A i \in 1..Len(Tail(c.stale)) : Tail(c.stale)[i] = c.stale[i + 1]
      BY <1>9, <2>1, HeadTailProperties
    <2>3. Len(c.stale) \in Nat \ {0} /\ DOMAIN c.stale = 1..Len(c.stale)
      BY <1>9, <2>1, EmptySeq, LenProperties
    <2>4. DOMAIN Tail(c.stale) = 1..Len(Tail(c.stale))
      BY <2>2, LenProperties
    <2> QED BY <2>1, <2>2, <2>3, <2>4
  <1>11. /\ d \in Call /\ d.pc = "retire" /\ d.artifact = a /\ d.chunks = c.chunks
         /\ d.stale = Tail(c.stale) /\ d.built = c.built /\ d.published = c.published
    BY <1>2, <1>4, <1>8, <1>10 DEF Call, Deriving
  <1>12. t \in RowsOf(a) /\ \A i \in DOMAIN c.stale : c.stale[i][1] \in RowsOf(a)
    <2>1. \A i \in DOMAIN c.stale : c.stale[i][1] \in RowsOf(a)
      BY <1>1, <1>2, <1>8 DEF CallHolds
    <2> QED BY <1>3, <1>10, <2>1
  <1>13. t \in DOMAIN text /\ text[t] \in TextRow /\ text[t].artifact = a
    BY <1>8, <1>12, RowFacts
  <1>14. PICK r : r = [text[t] EXCEPT !.status = s, !.indexing = x]
    OBVIOUS
  <1>15. /\ r \in TextRow /\ r.artifact = text[t].artifact /\ r.index = text[t].index
         /\ r.attempt = text[t].attempt /\ r.expected = text[t].expected
         /\ r.status = s /\ r.indexing = x
    BY <1>13, <1>14 DEF TextRow
  <1>16. text' = [text EXCEPT ![t] = r]
    BY <1>5, <1>13, <1>14
  <1>17. /\ RowsHold' /\ RowsKept /\ DOMAIN text' = DOMAIN text
         /\ text'[t] = r /\ \A u \in DOMAIN text : u # t => text'[u] = text[u]
    <2>1. object' = object /\ (r.status = "active" => r.indexing = "indexed") /\ RowsHold
      BY <1>6, <1>15 DEF ArtInv
    <2> QED BY <1>13, <1>15, <1>16, <2>1, RowUpdate
  <1>18. \A u \in DOMAIN text : text'[u].status = "active" => text[u].status = "active" /\ u # t
    BY <1>15, <1>17
  <1>19. CallHolds(k)'
    <2>1. d.pc \in {"complete"} \cup Deriving /\ d.chunks # 0 /\ call[k].pc # "idle"
      BY <1>1, <1>6, <1>8, <1>11 DEF Deriving
    <2>2. ~(d.published > 0) /\ d.pc = "retire" /\ d.built = <<>>
      BY <1>9, <1>11
    <2>3. \A j \in DOMAIN d.stale : d.stale[j][1] \in RowsOf(d.artifact)
      <3> SUFFICES ASSUME NEW j \in DOMAIN d.stale PROVE d.stale[j][1] \in RowsOf(d.artifact)
        OBVIOUS
      <3>1. d.stale[j] = c.stale[j + 1] /\ j + 1 \in DOMAIN c.stale
        BY <1>10, <1>11
      <3> QED BY <1>11, <1>12, <3>1
    <2>4. d.artifact = call[k].artifact /\ d.chunks = call[k].chunks /\ d.built = call[k].built
      BY <1>1, <1>2, <1>11
    <2>5. call' = [call EXCEPT ![k] = d] /\ UNCHANGED <<object, artifact>>
      BY <1>6, <1>7
    <2> QED BY <1>11, <1>17, <2>1, <2>2, <2>3, <2>4, <2>5, DerivationGoesOn
  <1>20. ASSUME a \notin overlapped PROVE AloneHolds(a)' /\ CallAlone(k)'
    <2>1. /\ Lacking(a, c.chunks)
          /\ \A u \in ActiveRows(a) : \E j \in DOMAIN c.stale : c.stale[j][1] = u
      BY <1>1, <1>2, <1>6, <1>8, <1>20 DEF CallAlone, Deriving
    <2>2. AloneHolds(a) /\ point' = point /\ c.chunks \in Nat
      BY <1>6, <1>8, <1>20 DEF ArtInv
    <2>3. \A u \in DOMAIN text : text'[u].status = "active" => text[u].status = "active"
      BY <1>18
    <2>4. /\ AloneHolds(a)' /\ Lacking(a, c.chunks)'
          /\ RowsOf(a)' = RowsOf(a) /\ ActiveRows(a)' \subseteq ActiveRows(a)
      BY <1>8, <1>17, <2>1, <2>2, <2>3, LessActive
    <2>5. \A u \in ActiveRows(a)' : \E j \in DOMAIN d.stale : d.stale[j][1] = u
      <3> SUFFICES ASSUME NEW u \in ActiveRows(a)'
                   PROVE  \E j \in DOMAIN d.stale : d.stale[j][1] = u
        OBVIOUS
      <3>1. u \in DOMAIN text /\ text'[u].status = "active" /\ u \in ActiveRows(a)
        BY <1>17, <2>4 DEF ActiveRows, RowsOf
      <3>2. PICK j \in DOMAIN c.stale : c.stale[j][1] = u
        BY <2>1, <3>1
      <3>3. j # 1
        BY <1>3, <1>10, <1>18, <3>1, <3>2
      <3>4. j - 1 \in 1..Len(Tail(c.stale)) /\ (j - 1) + 1 = j
        BY <1>10, <3>2, <3>3
      <3>5. j - 1 \in DOMAIN d.stale /\ d.stale[j - 1] = c.stale[j]
        BY <1>10, <1>11, <3>4
      <3> QED BY <3>2, <3>5
    <2>6. CallAlone(k)'
      <3>1. call'[k] = d
        BY <1>7 DEF ArtInv
      <3>2. DOMAIN d.built = {} /\ 1..d.published = {} /\ d.pc # "complete"
        BY <1>9, <1>11
      <3> QED BY <1>11, <2>4, <2>5, <3>1, <3>2 DEF CallAlone
    <2> QED BY <2>4, <2>6
  <1>21. /\ call[k].pc # "idle" /\ a = call[k].artifact /\ d.artifact \in {Nil, a}
         /\ d.built \in {<<>>, call[k].built} /\ call' = [call EXCEPT ![k] = d]
         /\ UNCHANGED <<object, artifact, point, overlapped>>
    BY <1>1, <1>2, <1>6, <1>7, <1>11
  <1>22. \A u \in DOMAIN text : text[u].artifact # a => text'[u] = text[u]
    BY <1>13, <1>17
  <1>23. d \in Call
    BY <1>11
  <1>24. RowsHold' /\ RowsKept /\ DOMAIN text' = DOMAIN text
    BY <1>17
  <1> QED BY ONLY ArtInv, k \in DeriveCalls, <1>19, <1>20, <1>21, <1>22, <1>23, <1>24, TextStep

(* The new row is noted to be indexed.                                       *)
LEMMA MarkIndexedStep ==
  ASSUME ArtInv, NEW k \in DeriveCalls, MarkIndexed(k)
  PROVE  ArtInv'
  <1>1. PICK c : c = call[k]
    OBVIOUS
  <1>2. PICK a : a = c.artifact
    OBVIOUS
  <1>3. PICK t : t = Last(c.built)
    OBVIOUS
  <1>4. PICK d : d = [c EXCEPT !.pc = "retire"]
    OBVIOUS
  <1>5. /\ c.pc = "index"
        /\ text' = [text EXCEPT ![t].status = "building", ![t].indexing = "indexed"]
        /\ call' = [call EXCEPT ![k] = d]
        /\ UNCHANGED <<object, artifact, point, overlapped>>
    BY <1>1, <1>3, <1>4 DEF MarkIndexed, At, Goto, Moved
  <1>6. /\ c \in Call /\ CallHolds(k) /\ a \in Artifacts /\ a # Nil
        /\ a \notin overlapped => CallAlone(k)
        /\ c.chunks \in 1..MaxChunks /\ c.chunks = object[a]
    BY <1>1, <1>2, <1>5, StepFacts DEF Deriving
  <1>7. /\ d \in Call /\ d.pc = "retire" /\ d.artifact = a /\ d.chunks = c.chunks
        /\ d.stale = c.stale /\ d.built = c.built /\ d.published = c.published
    BY <1>2, <1>4, <1>6 DEF Call, Deriving
  <1>8. c.built # <<>> /\ c.published = 0 /\ c.stale = <<>>
    BY <1>1, <1>5, <1>6 DEF CallHolds
  <1>9. PICK n : n = Len(c.built)
    OBVIOUS
  <1>10. n \in DOMAIN c.built /\ DOMAIN c.built = 1..n /\ n \in Nat /\ t = c.built[n]
    <2>1. n \in Nat /\ DOMAIN c.built = 1..n /\ 1 \in DOMAIN c.built
      BY <1>6, <1>8, <1>9, CallFacts
    <2> QED BY <1>3, <1>9, <2>1 DEF Last
  <1>11. \A i \in DOMAIN c.built : c.built[i] \in RowsOf(a) /\ text[c.built[i]].index = i
    BY <1>1, <1>2, <1>6 DEF CallHolds
  <1>12. t \in DOMAIN text /\ text[t] \in TextRow /\ text[t].artifact = a
    BY <1>6, <1>10, <1>11, RowFacts
  <1>13. PICK r : r = [text[t] EXCEPT !.status = "building", !.indexing = "indexed"]
    OBVIOUS
  <1>14. /\ r \in TextRow /\ r.artifact = text[t].artifact /\ r.index = text[t].index
         /\ r.attempt = text[t].attempt /\ r.expected = text[t].expected
         /\ r.status = "building" /\ r.indexing = "indexed"
    BY <1>12, <1>13 DEF TextRow
  <1>15. text' = [text EXCEPT ![t] = r]
    BY <1>5, <1>12, <1>13
  <1>16. /\ RowsHold' /\ RowsKept /\ DOMAIN text' = DOMAIN text
         /\ text'[t] = r /\ \A u \in DOMAIN text : u # t => text'[u] = text[u]
    <2>1. object' = object /\ (r.status = "active" => r.indexing = "indexed") /\ RowsHold
      BY <1>5, <1>14 DEF ArtInv
    <2> QED BY <1>12, <1>14, <1>15, <2>1, RowUpdate
  <1>17. \A u \in DOMAIN text : text'[u].status = "active" => text[u].status = "active"
    BY <1>14, <1>16
  <1>18. CallHolds(k)'
    <2>1. d.pc \in {"complete"} \cup Deriving /\ d.chunks # 0 /\ call[k].pc # "idle"
      BY <1>1, <1>5, <1>6, <1>7 DEF Deriving
    <2>2. ~(d.published > 0) /\ d.stale = <<>> /\ d.pc = "retire"
      BY <1>7, <1>8
    <2>3. \A j \in DOMAIN d.stale : d.stale[j][1] \in RowsOf(d.artifact)
      BY <2>2
    <2>4. d.artifact = call[k].artifact /\ d.chunks = call[k].chunks /\ d.built = call[k].built
      BY <1>1, <1>2, <1>7
    <2>5. call' = [call EXCEPT ![k] = d] /\ UNCHANGED <<object, artifact>>
      BY <1>5
    <2> QED BY <1>7, <1>16, <2>1, <2>2, <2>3, <2>4, <2>5, DerivationGoesOn
  <1>19. ASSUME a \notin overlapped PROVE AloneHolds(a)' /\ CallAlone(k)'
    <2>1. /\ Lacking(a, c.chunks)
          /\ \A i \in DOMAIN c.built :
               /\ text[c.built[i]].status \in {"building", "invalidated"}
               /\ i < Len(c.built) => text[c.built[i]].indexing = "indexed"
      BY <1>1, <1>2, <1>5, <1>6, <1>19 DEF CallAlone, Deriving
    <2>2. ActiveRows(a) = {}
      BY <1>1, <1>2, <1>5, <1>8, <1>19, NothingActive DEF Deriving
    <2>3. c.chunks \in Nat
      BY <1>6
    <2>4. ActiveRows(a)' = {} /\ Lacking(a, c.chunks)'
      BY <1>6, <1>16, <1>17, <2>1, <2>2, <2>3, LessActive
    <2>5. AloneHolds(a)'
      BY <2>4 DEF AloneHolds
    <2>6. \A i \in DOMAIN c.built :
               /\ text'[c.built[i]].status \in {"building", "invalidated"}
               /\ text'[c.built[i]].indexing = "indexed"
      <3> SUFFICES ASSUME NEW i \in DOMAIN c.built
                   PROVE  /\ text'[c.built[i]].status \in {"building", "invalidated"}
                          /\ text'[c.built[i]].indexing = "indexed"
        OBVIOUS
      <3>1. CASE c.built[i] = t
        BY <1>14, <1>16, <3>1
      <3>2. CASE c.built[i] # t
        <4>1. i < Len(c.built)
          BY <1>9, <1>10, <3>2
        <4>2. c.built[i] \in DOMAIN text
          BY <1>11 DEF RowsOf
        <4> QED BY <1>16, <2>1, <3>2, <4>1, <4>2
      <3> QED BY <3>1, <3>2
    <2>7. CallAlone(k)'
      <3>1. call'[k] = d
        BY <1>5 DEF ArtInv
      <3>2. 1..d.published = {} /\ d.pc # "complete"
        BY <1>7, <1>8
      <3> QED BY <1>7, <2>4, <2>6, <3>1, <3>2 DEF CallAlone
    <2> QED BY <2>5, <2>7
  <1>20. /\ call[k].pc # "idle" /\ a = call[k].artifact /\ d.artifact \in {Nil, a}
         /\ d.built \in {<<>>, call[k].built} /\ call' = [call EXCEPT ![k] = d]
         /\ UNCHANGED <<object, artifact, point, overlapped>>
    BY <1>1, <1>2, <1>5, <1>7
  <1>21. \A u \in DOMAIN text : text[u].artifact # a => text'[u] = text[u]
    BY <1>12, <1>16
  <1>22. d \in Call
    BY <1>7
  <1>23. RowsHold' /\ RowsKept /\ DOMAIN text' = DOMAIN text
    BY <1>16
  <1> QED BY ONLY ArtInv, k \in DeriveCalls, <1>18, <1>19, <1>20, <1>21, <1>22, <1>23, TextStep

(* A row joins the attempt, as the next chunk.                               *)
LEMMA CreateTextStep ==
  ASSUME ArtInv, NEW k \in DeriveCalls, CreateText(k)
  PROVE  ArtInv'
  <1>1. PICK c : c = call[k]
    OBVIOUS
  <1>2. PICK a : a = c.artifact
    OBVIOUS
  <1>3. PICK t : t = Len(text) + 1
    OBVIOUS
  <1>4. PICK n : n = Len(c.built) + 1
    OBVIOUS
  <1>5. PICK g : g = IF c.built = <<>> THEN t ELSE c.built[1]
    OBVIOUS
  <1>6. PICK r : r = [artifact |-> a, index |-> n, attempt |-> g, status |-> "building",
                      indexing |-> "pending", expected |-> c.chunks]
    OBVIOUS
  <1>7. PICK d : d = [c EXCEPT !.pc = "vector", !.built = Append(@, t)]
    OBVIOUS
  <1>8. /\ c.pc = "retire" /\ c.stale = <<>> /\ Len(c.built) < c.chunks
        /\ Len(text) < MaxTexts
        /\ UNCHANGED <<object, artifact, point, overlapped>>
    BY <1>1 DEF CreateText, At
  <1>9. /\ c \in Call /\ CallHolds(k) /\ a \in Artifacts /\ a # Nil
        /\ a \notin overlapped => CallAlone(k)
        /\ c.chunks \in 1..MaxChunks /\ c.chunks = object[a]
    BY <1>1, <1>2, <1>8, StepFacts DEF Deriving
  <1>10. /\ Len(c.built) \in Nat /\ DOMAIN c.built = 1..Len(c.built)
         /\ c.published \in Nat
         /\ c.built # <<>> => 1 \in DOMAIN c.built
         /\ c.built = <<>> => Len(c.built) = 0
    BY <1>9, CallFacts
  <1>11. /\ Len(text) \in Nat /\ DOMAIN text = 1..Len(text)
         /\ text \in Seq(TextRow) /\ RowsHold
    BY TextFacts DEF ArtInv, RowsHold
  <1>12. c.built # <<>> => c.built[1] = Attempt(k)
    BY <1>1 DEF Attempt
  <1>13. text' = Append(text, r)
    <2>1. [artifact |-> c.artifact, index |-> Len(c.built) + 1,
           attempt |-> IF c.built = <<>> THEN Len(text) + 1 ELSE Attempt(k),
           status |-> "building", indexing |-> "pending", expected |-> c.chunks] = r
      BY <1>2, <1>3, <1>4, <1>5, <1>6, <1>12
    <2> QED BY <1>1, <2>1 DEF CreateText
  <1>14. call' = [call EXCEPT ![k] = d]
    <2>1. [Moved(k, "vector") EXCEPT !.built = Append(@, t)] = d
      BY <1>1, <1>7 DEF Moved
    <2> QED BY <1>3, <2>1 DEF CreateText, Goto
  <1>15. /\ t \in 1..MaxTexts /\ n \in 1..MaxChunks /\ n <= c.chunks
         /\ t \notin DOMAIN text
    BY <1>3, <1>4, <1>8, <1>9, <1>10, <1>11, BoundsAssumption
  <1>16. \A i \in DOMAIN c.built :
           /\ c.built[i] \in DOMAIN text /\ text[c.built[i]].artifact = a
           /\ text[c.built[i]].index = i /\ text[c.built[i]].attempt = c.built[1]
    BY <1>1, <1>2, <1>9 DEF CallHolds, RowsOf
  <1>17. g \in 1..MaxTexts /\ g <= t
    <2>1. CASE c.built = <<>>
      BY <1>5, <1>15, <2>1
    <2>2. CASE c.built # <<>>
      <3>1. g = c.built[1] /\ c.built[1] \in DOMAIN text
        BY <1>5, <1>10, <1>16, <2>2
      <3> QED BY <1>3, <1>8, <1>11, <3>1, BoundsAssumption
    <2> QED BY <2>1, <2>2
  <1>18. /\ r \in TextRow /\ r.artifact = a /\ r.index = n /\ r.attempt = g
         /\ r.status = "building" /\ r.expected = c.chunks
    BY <1>6, <1>9, <1>15, <1>17 DEF TextRow
  <1>19. /\ text' \in Seq(TextRow) /\ Len(text') = t /\ DOMAIN text' = 1..t
         /\ \A u \in DOMAIN text : u \in DOMAIN text' /\ text'[u] = text[u]
         /\ text'[t] = r
         /\ \A u \in DOMAIN text' : u \in DOMAIN text \/ u = t
    <2>1. /\ text' \in Seq(TextRow) /\ Len(text') = t
          /\ \A u \in 1..Len(text) : text'[u] = text[u]
          /\ text'[t] = r
      BY <1>3, <1>11, <1>13, <1>18, AppendProperties
    <2>2. DOMAIN text' = 1..t
      BY <2>1, LenProperties
    <2> QED BY <1>3, <1>11, <2>1, <2>2
  <1>20. \A u \in DOMAIN text : text[u].attempt = g =>
           /\ text[u].artifact = a /\ text[u].index <= Len(c.built)
           /\ c.built # <<>>
    <2> SUFFICES ASSUME NEW u \in DOMAIN text, text[u].attempt = g
                 PROVE  /\ text[u].artifact = a /\ text[u].index <= Len(c.built)
                        /\ c.built # <<>>
      OBVIOUS
    <2>1. c.built # <<>>
      <3> SUFFICES ASSUME c.built = <<>> PROVE FALSE
        OBVIOUS
      <3>1. text[u].attempt <= u /\ text[u].attempt = t
        BY <1>5, <1>11 DEF RowsHold
      <3> QED BY <1>3, <1>11, <3>1
    <2>2. g = c.built[1] /\ 1 \in DOMAIN c.built
      BY <1>5, <1>10, <2>1
    <2>3. text[u].index <= Len(c.built)
      BY <1>1, <1>9, <2>1, <2>2 DEF CallHolds, AttemptRows
    <2>4. text[u].artifact = a
      <3>1. c.built[1] \in DOMAIN text /\ text[c.built[1]].artifact = a
            /\ text[c.built[1]].attempt = text[u].attempt
        BY <1>16, <2>2
      <3> QED BY <1>11, <3>1 DEF RowsHold
    <2> QED BY <2>1, <2>3, <2>4
  <1>21. RowsHold'
    <2>1. \A u \in DOMAIN text' :
            /\ text'[u].attempt <= u /\ text'[u].index <= text'[u].expected
            /\ text'[u].expected = object'[text'[u].artifact]
            /\ text'[u].status = "active" => text'[u].indexing = "indexed"
      <3> SUFFICES ASSUME NEW u \in DOMAIN text'
                   PROVE  /\ text'[u].attempt <= u /\ text'[u].index <= text'[u].expected
                          /\ text'[u].expected = object'[text'[u].artifact]
                          /\ text'[u].status = "active" => text'[u].indexing = "indexed"
        OBVIOUS
      <3>1. CASE u \in DOMAIN text
        BY <1>8, <1>11, <1>19, <3>1 DEF RowsHold
      <3>2. CASE u = t
        BY <1>8, <1>9, <1>15, <1>17, <1>18, <1>19, <3>2
      <3> QED BY <1>19, <3>1, <3>2
    <2>2. \A u, v \in DOMAIN text' : text'[v].attempt = text'[u].attempt =>
            /\ text'[v].artifact = text'[u].artifact
            /\ text'[v].index = text'[u].index => v = u
      <3> SUFFICES ASSUME NEW u \in DOMAIN text', NEW v \in DOMAIN text',
                          text'[v].attempt = text'[u].attempt
                   PROVE  /\ text'[v].artifact = text'[u].artifact
                          /\ text'[v].index = text'[u].index => v = u
        OBVIOUS
      <3>1. CASE u \in DOMAIN text /\ v \in DOMAIN text
        BY <1>11, <1>19, <3>1 DEF RowsHold
      <3>2. CASE u = t /\ v = t
        BY <3>2
      <3>3. CASE u = t /\ v \in DOMAIN text
        <4>1. text[v].artifact = a /\ text[v].index <= Len(c.built) /\ text'[v] = text[v]
          BY <1>18, <1>19, <1>20, <3>3
        <4>2. text'[u].artifact = a /\ text'[u].index = Len(c.built) + 1
          BY <1>4, <1>18, <1>19, <3>3
        <4>3. text[v].index \in Int
          BY <3>3, TextFacts, <1>11 DEF TextRow
        <4> QED BY <1>10, <4>1, <4>2, <4>3
      <3>4. CASE v = t /\ u \in DOMAIN text
        <4>1. text[u].artifact = a /\ text[u].index <= Len(c.built) /\ text'[u] = text[u]
          BY <1>18, <1>19, <1>20, <3>4
        <4>2. text'[v].artifact = a /\ text'[v].index = Len(c.built) + 1
          BY <1>4, <1>18, <1>19, <3>4
        <4>3. text[u].index \in Int
          BY <3>4, TextFacts, <1>11 DEF TextRow
        <4> QED BY <1>10, <4>1, <4>2, <4>3
      <3> QED BY <1>19, <3>1, <3>2, <3>3, <3>4
    <2>3. Len(text') <= MaxTexts
      BY <1>15, <1>19, BoundsAssumption
    <2> QED BY <1>19, <2>1, <2>2, <2>3 DEF RowsHold
  <1>22. RowsKept
    BY <1>19 DEF RowsKept
  <1>23. /\ d \in Call /\ d.pc = "vector" /\ d.artifact = a /\ d.chunks = c.chunks
         /\ d.stale = c.stale /\ d.published = c.published /\ d.built = Append(c.built, t)
         /\ Len(d.built) = n /\ DOMAIN d.built = 1..n /\ d.built # <<>>
         /\ d.built[n] = t /\ \A i \in DOMAIN c.built : d.built[i] = c.built[i]
    <2>1. c.built \in Seq(1..MaxTexts)
      BY <1>9 DEF Call
    <2>2. PICK b : b = Append(c.built, t)
      OBVIOUS
    <2>3. /\ b \in Seq(1..MaxTexts) /\ b # <<>> /\ Len(b) = n
          /\ \A i \in 1..Len(c.built) : b[i] = c.built[i]
          /\ b[n] = t
      BY <1>4, <1>15, <2>1, <2>2, AppendProperties
    <2>4. DOMAIN b = 1..n
      BY <2>3, LenProperties
    <2>5. /\ d \in Call /\ d.pc = "vector" /\ d.artifact = a /\ d.chunks = c.chunks
          /\ d.stale = c.stale /\ d.published = c.published /\ d.built = b
      BY <1>2, <1>7, <1>9, <2>2, <2>3 DEF Call, Deriving
    <2> QED BY <1>10, <2>2, <2>3, <2>4, <2>5
  <1>24. d.built[1] = g
    <2>1. CASE c.built = <<>>
      BY <1>4, <1>5, <1>10, <1>23, <2>1
    <2>2. CASE c.built # <<>>
      BY <1>5, <1>10, <1>23, <2>2
    <2> QED BY <2>1, <2>2
  <1>25. \A i \in DOMAIN d.built : i \in DOMAIN c.built \/ i = n
    BY <1>4, <1>10, <1>23
  <1>26. c.published = 0
    <2>1. c.published > 0 => Len(c.built) = c.chunks
      BY <1>1, <1>9 DEF CallHolds
    <2> QED BY <1>8, <1>9, <1>10, <2>1
  <1>27. call'[k] = d
    BY <1>14 DEF ArtInv
  <1>28. CallHolds(k)'
    <2>1. \A i \in DOMAIN d.built :
            /\ d.built[i] \in DOMAIN text' /\ text'[d.built[i]].artifact = a
            /\ text'[d.built[i]].index = i /\ text'[d.built[i]].attempt = d.built[1]
      <3> SUFFICES ASSUME NEW i \in DOMAIN d.built
                   PROVE  /\ d.built[i] \in DOMAIN text' /\ text'[d.built[i]].artifact = a
                          /\ text'[d.built[i]].index = i /\ text'[d.built[i]].attempt = d.built[1]
        OBVIOUS
      <3>1. CASE i \in DOMAIN c.built
        <4>1. c.built # <<>>
          BY <1>10, <3>1
        <4>2. g = c.built[1]
          BY <1>5, <4>1
        <4> QED BY <1>16, <1>19, <1>23, <1>24, <3>1, <4>2
      <3>2. CASE i = n
        BY <1>15, <1>18, <1>19, <1>23, <1>24, <3>2
      <3> QED BY <1>25, <3>1, <3>2
    <2>2. \A u \in DOMAIN text' : text'[u].attempt = d.built[1] => text'[u].index <= Len(d.built)
      <3> SUFFICES ASSUME NEW u \in DOMAIN text', text'[u].attempt = g
                   PROVE  text'[u].index <= n
        BY <1>23, <1>24
      <3>1. CASE u \in DOMAIN text
        <4>1. text[u].index <= Len(c.built) /\ text'[u] = text[u] /\ text[u].index \in Int
          BY <1>11, <1>19, <1>20, <3>1, TextFacts DEF TextRow
        <4> QED BY <1>4, <1>10, <4>1
      <3>2. CASE u = t
        BY <1>15, <1>18, <1>19, <3>2
      <3> QED BY <1>19, <3>1, <3>2
    <2>3. /\ d.artifact # Nil /\ d.pc # "idle" /\ artifact'[d.artifact] # Nil
          /\ d.chunks # 0 /\ d.chunks = object'[d.artifact] /\ Len(d.built) <= d.chunks
          /\ ~(d.published > 0) /\ d.published = 0 /\ d.pc # "examine" /\ d.stale = <<>>
          /\ d.pc # "retire_row" /\ d.built # <<>>
      <3>1. artifact[a] # Nil
        BY <1>1, <1>2, <1>9 DEF CallHolds
      <3> QED BY <1>8, <1>9, <1>15, <1>23, <1>26, <3>1
    <2>4. DOMAIN d.stale = {}
      BY <2>3
    <2> QED BY <1>23, <1>27, <2>1, <2>2, <2>3, <2>4 DEF CallHolds, RowsOf, AttemptRows
  <1>29. \A l \in DeriveCalls : l # k /\ call[l].built # <<>> => g # call[l].built[1]
    <2> SUFFICES ASSUME NEW l \in DeriveCalls, l # k, call[l].built # <<>>
                 PROVE  g # call[l].built[1]
      OBVIOUS
    <2>1. CASE c.built = <<>>
      <3>1. call[l] \in Call /\ CallHolds(l)
        BY DEF ArtInv
      <3>2. 1 \in DOMAIN call[l].built
        BY <3>1, CallFacts
      <3>3. call[l].built[1] \in DOMAIN text
        BY <3>1, <3>2 DEF CallHolds, RowsOf
      <3> QED BY <1>5, <1>15, <2>1, <3>3
    <2>2. CASE c.built # <<>>
      BY <1>1, <1>5, <2>2 DEF ArtInv, CallsApart
    <2> QED BY <2>1, <2>2
  <1>30. ASSUME a \notin overlapped PROVE AloneHolds(a)' /\ CallAlone(k)'
    <2>1. \A i \in DOMAIN c.built :
               /\ text[c.built[i]].status \in {"building", "invalidated"}
               /\ text[c.built[i]].indexing = "indexed"
      BY <1>1, <1>2, <1>8, <1>9, <1>30 DEF CallAlone, Deriving
    <2>2. ActiveRows(a) = {}
      BY <1>1, <1>2, <1>8, <1>30, NothingActive DEF Deriving
    <2>3. ActiveRows(a)' = {}
      <3>1. \A u \in DOMAIN text' : text'[u].artifact = a => text'[u].status # "active"
        BY <1>18, <1>19, <2>2 DEF ActiveRows, RowsOf
      <3> QED BY <3>1 DEF ActiveRows, RowsOf
    <2>4. Lacking(a, c.chunks)'
      <3>1. 1 \in 1..c.chunks
        BY <1>9
      <3> QED BY <2>3, <3>1 DEF Lacking
    <2>5. AloneHolds(a)'
      BY <2>3 DEF AloneHolds
    <2>6. \A i \in DOMAIN d.built :
               /\ text'[d.built[i]].status \in {"building", "invalidated"}
               /\ i < Len(d.built) => text'[d.built[i]].indexing = "indexed"
      <3> SUFFICES ASSUME NEW i \in DOMAIN d.built
                   PROVE  /\ text'[d.built[i]].status \in {"building", "invalidated"}
                          /\ i < Len(d.built) => text'[d.built[i]].indexing = "indexed"
        OBVIOUS
      <3>1. CASE i \in DOMAIN c.built
        BY <1>16, <1>19, <1>23, <2>1, <3>1
      <3>2. CASE i = n
        BY <1>15, <1>18, <1>19, <1>23, <3>2
      <3> QED BY <1>25, <3>1, <3>2
    <2>7. CallAlone(k)'
      <3>1. 1..d.published = {} /\ d.pc # "complete" /\ d.pc # "retire"
        BY <1>23, <1>26
      <3> QED BY <1>23, <1>27, <2>3, <2>4, <2>6, <3>1 DEF CallAlone
    <2> QED BY <2>5, <2>7
  <1>31. /\ artifact' \in [Artifacts -> {Nil, "pending", "completed", "failed"}]
         /\ overlapped' \subseteq Artifacts /\ overlapped \subseteq overlapped'
         /\ \A b \in Artifacts : artifact[b] # Nil => artifact'[b] # Nil
         /\ object' = object
    BY <1>8 DEF ArtInv
  <1>32. /\ point' \in [Artifacts \X (1..MaxChunks) -> {Nil} \cup Point]
         /\ \A p \in DOMAIN point' : point'[p] # Nil => point'[p].row \in DOMAIN text'
    BY <1>8, <1>19 DEF ArtInv
  <1>33. \A b \in Artifacts : b # a => \A j \in 1..MaxChunks : point'[<<b, j>>] = point[<<b, j>>]
    BY <1>8
  <1>34. \A u \in DOMAIN text : text[u].artifact # a => text'[u] = text[u]
    BY <1>19
  <1>35. \A u \in DOMAIN text' \ DOMAIN text :
           /\ text'[u].artifact = a
           /\ \A l \in DeriveCalls :
                l # k /\ call[l].built # <<>> => text'[u].attempt # call[l].built[1]
    BY <1>18, <1>19, <1>29
  <1>36. \A l \in DeriveCalls : l # k =>
           /\ (d.built # <<>> /\ call[l].built # <<>>) => d.built[1] # call[l].built[1]
           /\ d.artifact = call[l].artifact => d.artifact \in overlapped' \cup {Nil}
    <2> SUFFICES ASSUME NEW l \in DeriveCalls, l # k
                 PROVE  /\ (d.built # <<>> /\ call[l].built # <<>>) => d.built[1] # call[l].built[1]
                        /\ d.artifact = call[l].artifact => d.artifact \in overlapped' \cup {Nil}
      OBVIOUS
    <2>1. a = call[l].artifact => a \in overlapped \cup {Nil}
      BY <1>1, <1>2 DEF ArtInv, CallsApart
    <2> QED BY <1>8, <1>23, <1>24, <1>29, <2>1
  <1>37. call[k].artifact = a \/ d.artifact = a
    BY <1>23
  <1>38. (a \notin overlapped' => AloneHolds(a)') /\ (d.artifact \notin overlapped' => CallAlone(k)')
    BY <1>8, <1>23, <1>30
  <1>39. d \in Call /\ a \in Artifacts
    BY <1>9, <1>23
  <1> QED BY ONLY ArtInv, k \in DeriveCalls, <1>14, <1>21, <1>22, <1>28, <1>31, <1>32, <1>33, <1>34,
                  <1>35, <1>36, <1>37, <1>38, <1>39, StepOfCall

(* Sets of one size: what is one-to-one leaves nothing out. *)
LEMMA OneToOneIsOnto ==
  ASSUME NEW S, NEW T, IsFiniteSet(S), IsFiniteSet(T), Cardinality(S) = Cardinality(T),
         NEW f \in [S -> T], \A x, y \in S : f[x] = f[y] => x = y
  PROVE  \A z \in T : \E x \in S : f[x] = z
  <1>1. f \in Injection(S, T)
    BY DEF Injection, IsInjective
  <1>2. f \in Surjection(S, T)
    BY <1>1, FS_Injection
  <1> QED BY <1>2 DEF Surjection

(* What is one-to-one and onto counts.                                       *)
LEMMA OneToOneAndOnto ==
  ASSUME NEW S, NEW n \in Nat, NEW f \in [S -> 1..n],
         \A x, y \in S : f[x] = f[y] => x = y,
         \A z \in 1..n : \E x \in S : f[x] = z
  PROVE  IsFiniteSet(S) /\ Cardinality(S) = n
  <1>1. f \in Injection(S, 1..n) /\ f \in Surjection(S, 1..n)
    BY DEF Injection, Surjection, IsInjective
  <1>2. IsFiniteSet(1..n) /\ Cardinality(1..n) = n
    BY FS_Interval
  <1>3. IsFiniteSet(S) /\ Cardinality(S) = Cardinality(1..n)
    BY <1>1, <1>2, FS_Injection
  <1> QED BY <1>2, <1>3

(* The rows of an artifact can be put in the order of the statement, and the *)
(* result holds each of them: a row's place is the number of rows that do    *)
(* not follow it.                                                            *)
LEMMA ExistingIsAll ==
  ASSUME RowsHold, NEW a
  PROVE  /\ Existing(a) \in Seq(RowsOf(a))
         /\ DOMAIN Existing(a) = 1..Len(Existing(a)) /\ Len(Existing(a)) \in Nat
         /\ \A t \in RowsOf(a) : \E i \in DOMAIN Existing(a) : Existing(a)[i] = t
  <1> DEFINE S == RowsOf(a)
             n == Cardinality(S)
             D(t) == {u \in S : ~Precedes(t, u)}
             R == [t \in S |-> Cardinality(D(t))]
             Sorted(s) == \A i, j \in DOMAIN s : i < j => Precedes(s[i], s[j])
  <1>1. \A t \in S : t \in DOMAIN text /\ t \in Int /\ text[t].index \in Int
    BY TextFacts DEF RowsOf, TextRow
  <1>2. IsFiniteSet(S) /\ n \in Nat
    <2>1. S \subseteq DOMAIN text
      BY DEF RowsOf
    <2>2. IsFiniteSet(DOMAIN text)
      BY TextFacts, FS_Interval
    <2>3. IsFiniteSet(S)
      BY <2>1, <2>2, FS_Subset
    <2> QED BY <2>3, FS_CardinalityType
  <1>3. /\ \A t \in S : ~Precedes(t, t)
        /\ \A t, u \in S : Precedes(t, u) => ~Precedes(u, t)
        /\ \A t, u \in S : t # u => Precedes(t, u) \/ Precedes(u, t)
        /\ \A t, u, v \in S : Precedes(t, u) /\ Precedes(u, v) => Precedes(t, v)
    BY <1>1 DEF Precedes
  <1>4. \A t \in S : IsFiniteSet(D(t)) /\ R[t] \in 1..n /\ R[t] \in Int
    <2> SUFFICES ASSUME NEW t \in S PROVE IsFiniteSet(D(t)) /\ R[t] \in 1..n /\ R[t] \in Int
      OBVIOUS
    <2>1. D(t) \in SUBSET S /\ t \in D(t)
      BY <1>3
    <2>2. PICK E \in SUBSET S : E = D(t)
      BY <2>1
    <2>3. IsFiniteSet(E) /\ Cardinality(E) <= Cardinality(S)
      BY ONLY <1>2, FS_Subset
    <2>4. Cardinality(E) \in Nat /\ Cardinality(E) # 0
      BY <2>1, <2>2, <2>3, FS_CardinalityType, FS_EmptySet
    <2>5. R[t] = Cardinality(E)
      BY <2>2
    <2> HIDE DEF R, S
    <2> QED BY <1>2, <2>2, <2>3, <2>4, <2>5
  <1>5. \A t, u \in S : Precedes(t, u) => R[t] < R[u]
    <2> SUFFICES ASSUME NEW t \in S, NEW u \in S, Precedes(t, u) PROVE R[t] < R[u]
      OBVIOUS
    <2>1. D(t) \subseteq D(u)
      <3> SUFFICES ASSUME NEW v \in S, ~Precedes(t, v) PROVE ~Precedes(u, v)
        OBVIOUS
      <3> QED BY <1>3
    <2>2. u \in D(u) /\ u \notin D(t)
      BY <1>3
    <2>3. /\ Cardinality(D(t)) <= Cardinality(D(u))
          /\ Cardinality(D(u)) = Cardinality(D(t)) => D(u) = D(t)
      BY <1>4, <2>1, FS_Subset
    <2>4. R[t] = Cardinality(D(t)) /\ R[u] = Cardinality(D(u))
      OBVIOUS
    <2>5. R[t] \in Int /\ R[u] \in Int
      <3> HIDE DEF R
      <3> QED BY <1>4
    <2>6. Cardinality(D(u)) # Cardinality(D(t))
      BY <2>2, <2>3
    <2>7. Cardinality(D(t)) <= Cardinality(D(u))
      BY <2>3
    <2> HIDE DEF R, D
    <2> QED BY <2>4, <2>5, <2>6, <2>7
  <1>6. \A t, u \in S : R[t] = R[u] => t = u
    <2> SUFFICES ASSUME NEW t \in S, NEW u \in S, R[t] = R[u], t # u PROVE FALSE
      OBVIOUS
    <2>1. Precedes(t, u) \/ Precedes(u, t)
      BY <1>3
    <2>2. R[t] \in Int /\ R[u] \in Int
      BY <1>4
    <2>3. ~(R[t] < R[u]) /\ ~(R[u] < R[t])
      BY <2>2
    <2> QED BY <1>5, <2>1, <2>3
  <1>7. IsFiniteSet(1..n) /\ Cardinality(1..n) = n
    BY <1>2, FS_Interval
  <1>8. \A i \in 1..n : \E t \in S : R[t] = i
    <2>1. PICK T : T = 1..n
      OBVIOUS
    <2>2. R \in [S -> T]
      BY <1>4, <2>1
    <2>3. Cardinality(S) = Cardinality(T) /\ IsFiniteSet(T)
      BY <1>7, <2>1
    <2>4. \A x, y \in S : R[x] = R[y] => x = y
      BY <1>6
    <2> HIDE DEF S, n, R
    <2>5. \A z \in T : \E x \in S : R[x] = z
      BY ONLY <1>2, <2>2, <2>3, <2>4, OneToOneIsOnto
    <2> QED BY <2>1, <2>5
  <1> HIDE DEF R, D
  <1>9. PICK s \in [1..n -> S] : Sorted(s)
    <2> DEFINE s == [i \in 1..n |-> CHOOSE t \in S : R[t] = i]
    <2>1. \A i \in 1..n : s[i] \in S /\ R[s[i]] = i
      BY <1>8
    <2>2. s \in [1..n -> S]
      BY <2>1
    <2>3. \A i, j \in 1..n : i < j => Precedes(s[i], s[j])
      <3> SUFFICES ASSUME NEW i \in 1..n, NEW j \in 1..n, i < j PROVE Precedes(s[i], s[j])
        OBVIOUS
      <3>1. R[s[i]] = i /\ R[s[j]] = j /\ s[i] \in S /\ s[j] \in S
        BY <2>1
      <3>2. s[i] # s[j] /\ ~(R[s[j]] < R[s[i]])
        BY <3>1, <1>2
      <3> HIDE DEF s
      <3> QED BY <1>3, <1>5, <3>1, <3>2
    <2>4. Sorted(s)
      BY <2>2, <2>3
    <2> QED BY <2>2, <2>4
  <1>10. Existing(a) \in [1..n -> S] /\ Sorted(Existing(a))
    BY <1>9 DEF Existing
  <1> DEFINE e == Existing(a)
  <1> HIDE DEF S, n
  <1>11. \A i, j \in 1..n : e[i] = e[j] => i = j
    <2> SUFFICES ASSUME NEW i \in 1..n, NEW j \in 1..n, e[i] = e[j], i # j PROVE FALSE
      OBVIOUS
    <2>1. DOMAIN e = 1..n /\ e[i] \in S /\ e[j] \in S /\ (i < j \/ j < i)
      BY <1>2, <1>10
    <2>2. Precedes(e[i], e[j]) \/ Precedes(e[j], e[i])
      BY <1>10, <2>1
    <2> QED BY <1>3, <2>1, <2>2
  <1>12. \A t \in S : \E i \in 1..n : e[i] = t
    <2>1. Cardinality(1..n) = Cardinality(S)
      BY <1>7 DEF n
    <2>2. e \in [1..n -> S]
      BY <1>10
    <2> HIDE DEF e
    <2> QED BY ONLY <1>2, <1>7, <1>11, <2>1, <2>2, OneToOneIsOnto
  <1>13. e \in Seq(S) /\ DOMAIN e = 1..n
    BY <1>2, <1>10, SeqDef
  <1>14. Len(e) \in Nat /\ DOMAIN e = 1..Len(e)
    BY <1>13, LenProperties
  <1> QED BY <1>12, <1>13, <1>14 DEF S

(* The count of the examination and the unique rows behind it.  A text is    *)
(* covered when it has an active row for every chunk, unless calls           *)
(* overlapped.                                                               *)
LEMMA CoveredHasEach ==
  ASSUME NEW a, NEW n, Covered(a, n)
  PROVE  \A i \in 1..n : \E t \in ActiveRows(a) : text[t].index = i
  <1> DEFINE done == {t \in RowsOf(a) : IsCompleted(text[t], n)}
  <1>1. {text[t].index : t \in done} = 1..n
    BY DEF Covered
  <1>2. done \subseteq ActiveRows(a)
    BY DEF IsCompleted, ActiveRows
  <1> HIDE DEF done
  <1> QED BY <1>1, <1>2

(* A text of no chunks is covered.                                           *)
LEMMA NothingIsCovered ==
  ASSUME NEW a
  PROVE  Covered(a, 0)
  <1> DEFINE done == {t \in RowsOf(a) : IsCompleted(text[t], 0)}
  <1>1. 1..0 = {}
    OBVIOUS
  <1>2. done = {}
    BY <1>1 DEF IsCompleted
  <1>3. Cardinality(done) = 0 /\ {text[t].index : t \in done} = 1..0
    BY <1>1, <1>2, FS_EmptySet
  <1> QED BY <1>3 DEF Covered

(* A text that is not covered lacks a chunk: the rows that are counted are   *)
(* of one attempt, so that none of them is counted twice.                    *)
LEMMA UncoveredLacks ==
  ASSUME ArtInv, NEW a \in Artifacts \ overlapped, NEW n \in 1..MaxChunks, n = object[a],
         ~Covered(a, n)
  PROVE  Lacking(a, n)
  <1> DEFINE done == {t \in RowsOf(a) : IsCompleted(text[t], n)}
             f    == [t \in done |-> text[t].index]
  <1> SUFFICES ASSUME ~Lacking(a, n) PROVE FALSE
    OBVIOUS
  <1>1. n \in Nat
    BY BoundsAssumption
  <1>2. \A t \in RowsOf(a) : /\ text[t].index \in 1..n /\ text[t].expected = n
                             /\ text[t].status = "active" => text[t].indexing = "indexed"
    <2> SUFFICES ASSUME NEW t \in RowsOf(a)
                 PROVE  /\ text[t].index \in 1..n /\ text[t].expected = n
                        /\ text[t].status = "active" => text[t].indexing = "indexed"
      OBVIOUS
    <2>1. /\ t \in DOMAIN text /\ text[t].expected = object[a]
          /\ text[t].index \in 1..MaxChunks /\ text[t].index <= text[t].expected
      BY RowFacts
    <2> QED BY <1>1, <2>1, BoundsAssumption DEF ArtInv, RowsHold
  <1>3. done = ActiveRows(a)
    BY <1>2 DEF ActiveRows, IsCompleted
  <1>4. \A t, u \in done : text[t].index = text[u].index => t = u
    <2> SUFFICES ASSUME NEW t \in done, NEW u \in done, text[t].index = text[u].index
                 PROVE  t = u
      OBVIOUS
    <2>1. t \in ActiveRows(a) /\ u \in ActiveRows(a)
      BY <1>3
    <2>2. text[u].attempt = text[t].attempt
      BY <2>1 DEF ArtInv, AloneHolds
    <2>3. t \in DOMAIN text /\ u \in DOMAIN text
      BY <2>1 DEF ActiveRows, RowsOf
    <2> QED BY <2>2, <2>3 DEF ArtInv, RowsHold
  <1>5. \A i \in 1..n : \E t \in done : text[t].index = i
    BY <1>3 DEF Lacking
  <1>6. f \in [done -> 1..n]
    BY <1>2
  <1>7. Cardinality(done) = n
    <2>1. \A x, y \in done : f[x] = f[y] => x = y
      BY <1>4
    <2>2. \A z \in 1..n : \E x \in done : f[x] = z
      BY <1>5
    <2> HIDE DEF done, f
    <2> QED BY ONLY <1>1, <1>6, <2>1, <2>2, OneToOneAndOnto
  <1>8. {text[t].index : t \in done} = 1..n
    BY <1>2, <1>5
  <1> QED BY <1>7, <1>8 DEF Covered

(* A text that is covered ends the derivation, another one is derived anew.  *)
LEMMA ExamineStep ==
  ASSUME ArtInv, NEW k \in DeriveCalls, Examine(k)
  PROVE  ArtInv'
  <1>1. PICK c : c = call[k]
    OBVIOUS
  <1>2. PICK a : a = c.artifact
    OBVIOUS
  <1>3. PICK n : n = c.chunks
    OBVIOUS
  <1>4. /\ c.pc = "examine" /\ UNCHANGED <<object, artifact, text, point, overlapped>>
        /\ IF Covered(a, n) THEN Goto(k, Finished(k))
           ELSE Goto(k, [Moved(k, "retire") EXCEPT !.stale = Stale(a, n)])
    BY <1>1, <1>2, <1>3 DEF Examine, At
  <1>5. /\ c \in Call /\ CallHolds(k) /\ a \in Artifacts /\ a # Nil /\ call[k].pc # "idle"
        /\ \A l \in DeriveCalls : l # k =>
             (a = call[l].artifact => a \in overlapped \cup {Nil})
    <2>1. call[k].pc # "idle"
      BY <1>1, <1>4
    <2> QED BY ONLY <2>1, <1>1, <1>2, StepFacts, ArtInv, k \in DeriveCalls
  <1>6. /\ c.built = <<>> /\ c.stale = <<>> /\ c.chunks = n /\ c.artifact = a
        /\ n \in 0..MaxChunks
        /\ n # 0 => n = object[a] /\ n \in 1..MaxChunks
        /\ n # 0 => c.published = 0
    <2>1. c.built = <<>> /\ c.stale = <<>> /\ (c.published > 0 => Len(c.built) = n)
          /\ (n # 0 => n = object[a])
      BY <1>1, <1>2, <1>3, <1>4, <1>5 DEF CallHolds
    <2>2. Len(c.built) = 0 /\ c.published \in Nat /\ n \in 0..MaxChunks
      BY <1>3, <1>5, <2>1, CallFacts DEF Call
    <2>3. n # 0 => n \in 1..MaxChunks
      BY <2>2, BoundsAssumption
    <2> QED BY <1>2, <1>3, <2>1, <2>2, <2>3
  <1>7. CASE Covered(a, n) /\ a \in Files
    <2>1. call' = [call EXCEPT ![k] = Idle]
      BY <1>1, <1>2, <1>4, <1>7 DEF Goto, Finished
    <2>2. AbandonCall(k)
      BY <1>1, <1>4, <2>1, IdleFacts DEF AbandonCall, Goto
    <2> QED BY <2>2, AbandonCallStep
  <1>8. /\ \A b \in Artifacts : artifact[b] # Nil => artifact'[b] # Nil
        /\ artifact' \in [Artifacts -> {Nil, "pending", "completed", "failed"}]
        /\ overlapped \subseteq overlapped' /\ overlapped' \subseteq Artifacts
        /\ UNCHANGED <<object, text, point>>
    BY <1>4 DEF ArtInv
  <1>9. RowsKept
    BY <1>8 DEF RowsKept
  <1>10. CASE Covered(a, n) /\ a \notin Files
    <2>1. PICK d : d = [c EXCEPT !.pc = "complete"]
      OBVIOUS
    <2>2. call' = [call EXCEPT ![k] = d]
      BY <1>1, <1>2, <1>4, <1>10, <2>1 DEF Goto, Finished, Moved
    <2>3. /\ d \in Call /\ d.pc = "complete" /\ d.artifact = a /\ d.chunks = n
          /\ d.built = <<>> /\ d.stale = <<>> /\ d.published = c.published
      BY <1>5, <1>6, <2>1 DEF Call
    <2>4. call'[k] = d
      BY <2>2 DEF ArtInv
    <2>5. CallHolds(k)'
      <3>1. artifact'[a] # Nil /\ object' = object /\ text' = text
        BY <1>1, <1>4, <1>5, <1>6 DEF CallHolds
      <3>2. (c.published > 0 => Len(c.built) = n) /\ Len(c.built) <= n
        BY <1>1, <1>5, <1>6 DEF CallHolds
      <3>3. DOMAIN d.built = {} /\ DOMAIN d.stale = {}
        BY <2>3
      <3> QED BY <1>5, <1>6, <2>3, <2>4, <3>1, <3>2, <3>3 DEF CallHolds, Deriving
    <2>6. a \notin overlapped => CallAlone(k)'
      <3> SUFFICES ASSUME a \notin overlapped PROVE CallAlone(k)'
        OBVIOUS
      <3>1. \A i \in 1..c.published : point[<<a, i>>] = [row |-> c.built[i], status |-> "active"]
        <4>1. CallAlone(k)
          BY <1>1, <1>2 DEF ArtInv
        <4> QED BY <1>1, <1>2, <4>1 DEF CallAlone
      <3>2. \A i \in 1..n :
              /\ point[<<a, i>>] # Nil /\ point[<<a, i>>].status = "active"
              /\ point[<<a, i>>].row \in RowsOf(a) /\ text[point[<<a, i>>].row].index = i
              /\ text[point[<<a, i>>].row].status \in {"active", "invalidated"}
        <4> SUFFICES ASSUME NEW i \in 1..n
                     PROVE  /\ point[<<a, i>>] # Nil /\ point[<<a, i>>].status = "active"
                            /\ point[<<a, i>>].row \in RowsOf(a)
                            /\ text[point[<<a, i>>].row].index = i
                            /\ text[point[<<a, i>>].row].status \in {"active", "invalidated"}
          OBVIOUS
        <4>1. PICK t \in ActiveRows(a) : text[t].index = i
          BY <1>10, CoveredHasEach
        <4>2. t \in RowsOf(a) /\ text[t].status = "active"
          BY DEF ActiveRows
        <4>3. PointOf(t) = <<a, i>> /\ text[t].expected = object[a]
          BY <1>5, <4>1, <4>2, RowFacts
        <4>4. n # 0 /\ n = object[a]
          BY <1>6, BoundsAssumption
        <4>5. ~Lacking(a, n)
          BY <1>10, CoveredHasEach DEF Lacking
        <4>6. AloneHolds(a)
          BY <1>5 DEF ArtInv
        <4>7. /\ point[<<a, i>>] # Nil /\ point[<<a, i>>].row = t
              /\ point[<<a, i>>].status = "active"
          BY <4>1, <4>3, <4>4, <4>5, <4>6 DEF AloneHolds
        <4> QED BY <4>1, <4>2, <4>7
      <3>3. d.pc \notin Deriving /\ point' = point /\ text' = text /\ RowsOf(a)' = RowsOf(a)
        BY <1>8, <2>3 DEF Deriving, RowsOf
      <3>4. d.built = c.built
        BY <1>6, <2>3
      <3> QED BY <2>3, <2>4, <3>1, <3>2, <3>3, <3>4 DEF CallAlone
    <2>7. \A l \in DeriveCalls : l # k =>
            (d.artifact = call[l].artifact => d.artifact \in overlapped' \cup {Nil})
      BY <1>4, <1>5, <2>3
    <2>8. call[k].artifact = a
      BY <1>1, <1>2
    <2>9. d.artifact \notin overlapped' => CallAlone(k)'
      BY <1>4, <2>3, <2>6
    <2> QED BY ONLY ArtInv, k \in DeriveCalls, <1>5, <1>8, <2>2, <2>3, <2>5, <2>7, <2>8, <2>9, CallOnly
  <1>11. CASE ~Covered(a, n)
    <2>1. PICK st : st = Stale(a, n)
      OBVIOUS
    <2>2. PICK d : d = [c EXCEPT !.pc = "retire", !.stale = st]
      OBVIOUS
    <2>3. call' = [call EXCEPT ![k] = d]
      BY <1>1, <1>4, <1>11, <2>1, <2>2 DEF Goto, Moved
    <2>4. n # 0
      BY <1>11, NothingIsCovered
    <2>5. /\ DOMAIN st = DOMAIN Existing(a)
          /\ \A i \in DOMAIN st : st[i][1] = Existing(a)[i] /\ st[i][1] \in RowsOf(a)
          /\ st \in Seq((1..MaxTexts) \X BOOLEAN)
      <3>1. /\ Existing(a) \in Seq(RowsOf(a)) /\ DOMAIN Existing(a) = 1..Len(Existing(a))
            /\ Len(Existing(a)) \in Nat
        BY ExistingIsAll DEF ArtInv
      <3>2. PICK e : e = Existing(a)
        OBVIOUS
      <3>3. PICK m \in Nat : m = Len(e)
        BY <3>1, <3>2
      <3>4. \A i \in 1..m : e[i] \in RowsOf(a)
        BY <3>1, <3>2, <3>3, ElementOfSeq
      <3>5. st = [i \in 1..m |-> <<e[i], IsCompleted(text[e[i]], n)>>]
        BY <2>1, <3>2, <3>3 DEF Stale
      <3>6. \A i \in 1..m : e[i] \in 1..MaxTexts
        BY <1>5, <3>4, RowFacts
      <3>7. \A i \in 1..m : IsCompleted(text[e[i]], n) \in BOOLEAN
        BY DEF IsCompleted
      <3>8. st \in [1..m -> (1..MaxTexts) \X BOOLEAN]
        BY <3>5, <3>6, <3>7
      <3>9. st \in Seq((1..MaxTexts) \X BOOLEAN)
        BY <3>8, SeqDef
      <3> QED BY <3>1, <3>2, <3>3, <3>4, <3>5, <3>9
    <2>6. /\ d \in Call /\ d.pc = "retire" /\ d.artifact = a /\ d.chunks = n
          /\ d.built = <<>> /\ d.stale = st /\ d.published = 0
      <3>1. "retire" \in {"idle", "examine", "complete"} \cup Deriving
        BY DEF Deriving
      <3>2. d \in Call /\ d.pc = "retire" /\ d.stale = st
        BY <1>5, <2>2, <2>5, <3>1 DEF Call
      <3>3. d.artifact = c.artifact /\ d.chunks = c.chunks /\ d.built = c.built
            /\ d.published = c.published
        BY <1>5, <2>2 DEF Call
      <3> QED BY <1>6, <2>4, <3>2, <3>3
    <2>7. call'[k] = d
      BY <2>3 DEF ArtInv
    <2>8. /\ call[k].pc # "idle" /\ d.artifact = call[k].artifact /\ d.chunks = call[k].chunks
          /\ d.built = call[k].built /\ d.pc \in {"complete"} \cup (Deriving \ {"activate"}) /\ d.chunks # 0
          /\ d.published > 0 => Len(d.built) = d.chunks
          /\ d.stale # <<>> => d.pc \in {"retire", "retire_row"} /\ d.built = <<>>
          /\ d.pc = "retire_row" => d.stale # <<>>
          /\ d.pc \in {"vector", "index"} => d.built # <<>> /\ d.published = 0
          /\ \A i \in DOMAIN d.stale : d.stale[i][1] \in RowsOf(d.artifact)
          /\ DOMAIN text' = DOMAIN text /\ UNCHANGED <<object, artifact>>
      BY <1>1, <1>2, <1>4, <1>6, <2>4, <2>5, <2>6 DEF Deriving
    <2>9. CallHolds(k)'
      BY ONLY ArtInv, k \in DeriveCalls, <1>9, <2>3, <2>6, <2>8, DerivationGoesOn
    <2>10. a \notin overlapped => CallAlone(k)'
      <3> SUFFICES ASSUME a \notin overlapped PROVE CallAlone(k)'
        OBVIOUS
      <3>1. a \in Artifacts \ overlapped /\ n \in 1..MaxChunks /\ n = object[a]
        BY <1>5, <1>6, <2>4
      <3>2. Lacking(a, n)
        BY <1>11, <3>1, UncoveredLacks
      <3>3. \A t \in ActiveRows(a) : \E i \in DOMAIN st : st[i][1] = t
        <4>1. \A t \in RowsOf(a) : \E i \in DOMAIN Existing(a) : Existing(a)[i] = t
          BY ExistingIsAll DEF ArtInv
        <4> QED BY <2>5, <4>1 DEF ActiveRows
      <3>4. DOMAIN d.built = {} /\ 1..d.published = {} /\ d.pc # "complete"
        BY <2>6
      <3>5. Lacking(a, n)' /\ ActiveRows(a)' = ActiveRows(a)
        BY <1>8, <3>2 DEF Lacking, ActiveRows, RowsOf
      <3> QED BY <2>6, <2>7, <3>3, <3>4, <3>5 DEF CallAlone
    <2>11. \A l \in DeriveCalls : l # k =>
            (d.artifact = call[l].artifact => d.artifact \in overlapped' \cup {Nil})
      BY <1>4, <1>5, <2>6
    <2>12. call[k].artifact = a
      BY <1>1, <1>2
    <2>13. d.artifact \notin overlapped' => CallAlone(k)'
      BY <1>4, <2>6, <2>10
    <2>14. d.built = <<>>
      BY <2>6
    <2> QED BY ONLY ArtInv, k \in DeriveCalls, <1>5, <1>8, <2>3, <2>6, <2>9, <2>11, <2>12,
                    <2>13, <2>14, CallOnly
  <1> QED BY <1>7, <1>10, <1>11
(* What a call has built is all of its attempt: the rows are told apart by   *)
(* their chunks, and there is one for each chunk so far.                     *)
LEMMA AttemptIsWhole ==
  ASSUME ArtInv, NEW k \in DeriveCalls, NEW s, s = call[k].built, s # <<>>
  PROVE  /\ IsFiniteSet(AttemptRows(s[1])) /\ Cardinality(AttemptRows(s[1])) = Len(s)
         /\ \A i \in 1..Len(s) : s[i] \in AttemptRows(s[1]) /\ text[s[i]].index = i
         /\ \A t \in AttemptRows(s[1]) : \E i \in 1..Len(s) : s[i] = t
  <1> DEFINE R == AttemptRows(s[1])
             f == [t \in R |-> text[t].index]
  <1>1. PICK n \in Nat : n = Len(s)
    BY CallFacts DEF ArtInv
  <1>2. DOMAIN s = 1..n /\ 1 \in 1..n
    BY <1>1, CallFacts DEF ArtInv
  <1>3. PICK a : a = call[k].artifact
    OBVIOUS
  <1>4. CallHolds(k)
    BY DEF ArtInv
  <1>5. \A i \in 1..n : s[i] \in RowsOf(a) /\ text[s[i]].index = i /\ text[s[i]].attempt = s[1]
    BY <1>2, <1>3, <1>4 DEF CallHolds
  <1>6. \A i \in 1..n : s[i] \in R
    BY <1>5 DEF AttemptRows, RowsOf
  <1>7. \A t \in R : text[t].index <= n
    BY <1>1, <1>4 DEF CallHolds
  <1>8. \A t \in R : t \in DOMAIN text /\ text[t].attempt = s[1] /\ text[t].index \in 1..MaxChunks
    <2> SUFFICES ASSUME NEW t \in R
                 PROVE  t \in DOMAIN text /\ text[t].attempt = s[1]
                        /\ text[t].index \in 1..MaxChunks
      OBVIOUS
    <2>1. t \in DOMAIN text /\ text[t].attempt = s[1]
      BY DEF AttemptRows
    <2>2. text[t] \in TextRow
      BY <2>1, TextFacts DEF ArtInv
    <2> QED BY <2>1, <2>2 DEF TextRow
  <1>9. \A t, u \in R : text[t].index = text[u].index => t = u
    BY <1>8 DEF ArtInv, RowsHold
  <1> HIDE DEF R
  <1>10. f \in [R -> 1..n]
    BY <1>7, <1>8, BoundsAssumption
  <1>11. \A x, y \in R : f[x] = f[y] => x = y
    BY <1>9
  <1>12. \A z \in 1..n : \E x \in R : f[x] = z
    BY <1>5, <1>6
  <1>13. IsFiniteSet(R) /\ Cardinality(R) = n
    <2>1. n \in Nat
      OBVIOUS
    <2> HIDE DEF f
    <2> QED BY ONLY <2>1, <1>10, <1>11, <1>12, OneToOneAndOnto
  <1>14. \A t \in R : \E i \in 1..n : s[i] = t
    <2> SUFFICES ASSUME NEW t \in R PROVE \E i \in 1..n : s[i] = t
      OBVIOUS
    <2>1. PICK i \in 1..n : i = text[t].index
      BY <1>10
    <2>2. s[i] \in R /\ text[s[i]].index = i
      BY <1>5, <1>6
    <2> QED BY <1>9, <2>1, <2>2
  <1> QED BY <1>1, <1>5, <1>6, <1>13, <1>14 DEF R

(* The count before the activation says that every row of it is ready. *)
LEMMA ReadyIsAll ==
  ASSUME ArtInv, NEW k \in DeriveCalls, NEW s, s = call[k].built, s # <<>>,
         Len(s) = call[k].chunks
  PROVE  /\ Attempt(k) = s[1]
         /\ Ready(k) <=> \A t \in AttemptRows(s[1]) :
                           text[t].status = "building" /\ text[t].indexing = "indexed"
  <1> DEFINE R == AttemptRows(s[1])
             Q == {t \in R : text[t].status = "building" /\ text[t].indexing = "indexed"}
  <1>1. Attempt(k) = s[1]
    BY DEF Attempt
  <1>2. IsFiniteSet(R) /\ Cardinality(R) = call[k].chunks
    BY AttemptIsWhole
  <1>3. Q \in SUBSET R
    OBVIOUS
  <1>4. Ready(k) <=> Cardinality(Q) = Cardinality(R)
    BY <1>1, <1>2 DEF Ready
  <1>5. Cardinality(R) = Cardinality(Q) => R = Q
    <2> HIDE DEF R, Q
    <2> QED BY ONLY <1>2, <1>3, FS_Subset
  <1>6. Ready(k) <=> R = Q
    BY <1>4, <1>5
  <1> QED BY <1>1, <1>6

(* A row the update makes active was counted as indexed; when it makes as    *)
(* many active as the attempt has, it makes all of them active.              *)
LEMMA BuildingFacts ==
  ASSUME ArtInv, NEW k \in DeriveCalls, NEW s, s = call[k].built, call[k].pc = "activate"
  PROVE  /\ s # <<>> /\ Len(s) = call[k].chunks /\ Attempt(k) = s[1]
         /\ Building(k) \subseteq AttemptRows(s[1])
         /\ \A t \in DOMAIN text : t \in Building(k) =>
              text[t].status = "building" /\ text[t].indexing = "indexed"
         /\ Cardinality(Building(k)) = call[k].chunks => Building(k) = AttemptRows(s[1])
  <1> DEFINE R == AttemptRows(s[1])
             B == Building(k)
  <1>1. call[k] \in Call /\ CallHolds(k)
    BY DEF ArtInv
  <1>2. s # <<>> /\ Len(s) = call[k].chunks
    <2>1. call[k].published = call[k].chunks /\ call[k].chunks # 0
      BY <1>1 DEF CallHolds, Deriving
    <2>2. call[k].chunks \in Nat /\ (s = <<>> => Len(s) = 0)
      BY <1>1, CallFacts
    <2>3. Len(s) = call[k].chunks
      BY <1>1, <2>1, <2>2 DEF CallHolds
    <2> QED BY <2>1, <2>2, <2>3
  <1>3. Attempt(k) = s[1]
    BY DEF Attempt
  <1>4. B \subseteq R /\ \A t \in B : text[t].status = "building"
    BY <1>3 DEF Building
  <1>5. IsFiniteSet(R) /\ Cardinality(R) = Len(s) /\ \A t \in R : \E i \in 1..Len(s) : s[i] = t
    BY <1>2, AttemptIsWhole
  <1>6. \A t \in B : text[t].indexing = "indexed"
    <2> SUFFICES ASSUME NEW t \in B PROVE text[t].indexing = "indexed"
      OBVIOUS
    <2>1. PICK i \in 1..Len(s) : s[i] = t
      BY <1>4, <1>5
    <2>2. i \in DOMAIN s
      BY <1>1, CallFacts
    <2> QED BY <1>1, <1>4, <2>1, <2>2 DEF CallHolds
  <1>7. Cardinality(B) = Cardinality(R) => B = R
    <2> HIDE DEF B, R
    <2> QED BY ONLY <1>4, <1>5, FS_Subset
  <1> QED BY <1>2, <1>3, <1>4, <1>5, <1>6, <1>7

(* The count of activate_derived_text_attempt changes nothing; it found each *)
(* row of the attempt indexed.                                               *)
LEMMA CountAttemptStep ==
  ASSUME ArtInv, NEW k \in DeriveCalls, CountAttempt(k)
  PROVE  ArtInv'
  <1>1. PICK c : c = call[k]
    OBVIOUS
  <1>2. PICK a : a = c.artifact
    OBVIOUS
  <1>3. PICK d : d = [c EXCEPT !.pc = "activate"]
    OBVIOUS
  <1>4. /\ c.pc = "retire" /\ c.chunks > 0 /\ c.published = c.chunks /\ Ready(k)
        /\ call' = [call EXCEPT ![k] = d]
        /\ UNCHANGED <<object, artifact, text, point, overlapped>>
    BY <1>1, <1>3 DEF CountAttempt, At, Goto, Moved
  <1>5. /\ c \in Call /\ CallHolds(k) /\ a \in Artifacts /\ a # Nil /\ call[k].pc # "idle"
        /\ a \notin overlapped => CallAlone(k)
        /\ \A l \in DeriveCalls : l # k =>
             (a = call[l].artifact => a \in overlapped \cup {Nil})
    <2>1. call[k].pc # "idle"
      BY <1>1, <1>4
    <2> QED BY ONLY <2>1, <1>1, <1>2, StepFacts, ArtInv, k \in DeriveCalls
  <1>6. /\ Len(c.built) = c.chunks /\ c.built # <<>> /\ c.stale = <<>> /\ c.chunks \in Nat
        /\ c.chunks # 0 /\ DOMAIN c.built = 1..c.chunks
    <2>1. c.chunks \in Nat /\ DOMAIN c.built = 1..Len(c.built)
      BY <1>5, CallFacts
    <2>2. Len(c.built) = c.chunks /\ (c.stale # <<>> => c.built = <<>>)
      BY <1>1, <1>4, <1>5 DEF CallHolds
    <2>3. c.built # <<>>
      BY <1>4, <2>1, <2>2
    <2> QED BY <1>4, <2>1, <2>2, <2>3
  <1>7. \A i \in DOMAIN c.built : text[c.built[i]].indexing = "indexed"
    <2>1. PICK s : s = c.built
      OBVIOUS
    <2>2. s = call[k].built /\ s # <<>> /\ Len(s) = call[k].chunks
      BY <1>1, <1>6, <2>1
    <2>3. /\ \A t \in AttemptRows(s[1]) : text[t].indexing = "indexed"
          /\ \A i \in 1..Len(s) : s[i] \in AttemptRows(s[1])
      BY <1>4, <2>2, AttemptIsWhole, ReadyIsAll
    <2> QED BY <1>6, <2>1, <2>3
  <1>8. /\ d \in Call /\ d.pc = "activate" /\ d.artifact = a /\ d.chunks = c.chunks
        /\ d.built = c.built /\ d.stale = <<>> /\ d.published = c.chunks
    <2>1. "activate" \in {"idle", "examine", "complete"} \cup Deriving
      BY DEF Deriving
    <2> QED BY <1>2, <1>3, <1>4, <1>5, <1>6, <2>1 DEF Call
  <1>9. call'[k] = d /\ "activate" \in Deriving /\ c.pc \in Deriving
    BY <1>4 DEF ArtInv, Deriving
  <1>10. CallHolds(k)'
    <2>1. c.chunks = object[a] /\ artifact[a] # Nil
      BY <1>1, <1>2, <1>5, <1>6 DEF CallHolds
    <2>2. /\ \A i \in DOMAIN c.built :
               /\ c.built[i] \in RowsOf(a)
               /\ text[c.built[i]].index = i /\ text[c.built[i]].attempt = c.built[1]
          /\ \A t \in AttemptRows(c.built[1]) : text[t].index <= Len(c.built)
      BY <1>1, <1>2, <1>5, <1>6 DEF CallHolds
    <2>3. RowsOf(a)' = RowsOf(a) /\ AttemptRows(c.built[1])' = AttemptRows(c.built[1])
      BY <1>4 DEF RowsOf, AttemptRows
    <2>4. DOMAIN d.stale = {} /\ d.artifact # Nil /\ Len(d.built) <= d.chunks
      BY <1>5, <1>6, <1>8
    <2>5. d.published > 0 => Len(d.built) = d.chunks
      BY <1>6, <1>8
    <2> QED BY <1>4, <1>6, <1>7, <1>8, <1>9, <2>1, <2>2, <2>3, <2>4, <2>5 DEF CallHolds
  <1>11. a \notin overlapped => CallAlone(k)'
    <2> SUFFICES ASSUME a \notin overlapped PROVE CallAlone(k)'
      OBVIOUS
    <2>1. /\ Lacking(a, c.chunks)
          /\ \A t \in ActiveRows(a) : \E i \in DOMAIN c.stale : c.stale[i][1] = t
          /\ \A i \in DOMAIN c.built : text[c.built[i]].status \in {"building", "invalidated"}
          /\ \A i \in 1..c.published : point[<<a, i>>] = [row |-> c.built[i], status |-> "active"]
      BY <1>1, <1>2, <1>5, <1>9 DEF CallAlone
    <2>2. Lacking(a, c.chunks)' /\ ActiveRows(a)' = ActiveRows(a)
      BY <1>4, <2>1 DEF Lacking, ActiveRows, RowsOf
    <2> QED BY <1>4, <1>6, <1>7, <1>8, <1>9, <2>1, <2>2 DEF CallAlone
  <1>12. /\ artifact' \in [Artifacts -> {Nil, "pending", "completed", "failed"}]
         /\ \A b \in Artifacts : artifact[b] # Nil => artifact'[b] # Nil
         /\ overlapped \subseteq overlapped' /\ overlapped' \subseteq Artifacts
         /\ UNCHANGED <<object, text, point>>
    BY <1>4 DEF ArtInv
  <1>13. /\ call[k].artifact = a /\ (d.built = <<>> \/ d.built = call[k].built)
         /\ \A l \in DeriveCalls : l # k =>
              (d.artifact = call[l].artifact => d.artifact \in overlapped' \cup {Nil})
         /\ d.artifact \notin overlapped' => CallAlone(k)'
    BY <1>1, <1>2, <1>4, <1>5, <1>8, <1>11
  <1> QED BY ONLY ArtInv, k \in DeriveCalls, <1>4, <1>5, <1>8, <1>10, <1>12, <1>13, CallOnly

(* The update of activate_derived_text_attempt makes active what is being    *)
(* built; the call goes on when that is all of its attempt.                  *)
LEMMA ActivateStep ==
  ASSUME ArtInv, NEW k \in DeriveCalls, Activate(k)
  PROVE  ArtInv'
  <1>1. PICK c : c = call[k]
    OBVIOUS
  <1>2. PICK a : a = c.artifact
    OBVIOUS
  <1>3. PICK g, B : g = c.built[1] /\ B = Building(k)
    OBVIOUS
  <1>4. /\ c.pc = "activate"
        /\ text' = [t \in DOMAIN text |->
             IF t \in B THEN [text[t] EXCEPT !.status = "active"] ELSE text[t]]
        /\ Goto(k, Activated(k)) /\ UNCHANGED <<object, artifact, point, overlapped>>
    BY <1>1, <1>3 DEF Activate, At
  <1>5. /\ c \in Call /\ CallHolds(k) /\ a \in Artifacts /\ a # Nil /\ call[k].pc # "idle"
        /\ a \notin overlapped => CallAlone(k)
    <2>1. call[k].pc # "idle"
      BY <1>1, <1>4
    <2> QED BY ONLY <2>1, <1>1, <1>2, StepFacts, ArtInv, k \in DeriveCalls
  <1>6. /\ Len(c.built) = c.chunks /\ c.built # <<>> /\ c.stale = <<>> /\ c.chunks \in Nat
        /\ c.chunks # 0 /\ DOMAIN c.built = 1..c.chunks /\ 1 \in 1..c.chunks
    <2>1. c.chunks \in Nat /\ DOMAIN c.built = 1..Len(c.built)
      BY <1>5, CallFacts
    <2>2. c.built # <<>> /\ Len(c.built) = c.chunks
      BY <1>1, <1>4, BuildingFacts
    <2>3. c.stale = <<>> /\ c.chunks # 0
      BY <1>1, <1>4, <1>5, <2>2 DEF CallHolds, Deriving
    <2> QED BY <2>1, <2>2, <2>3
  <1>7. /\ B \subseteq AttemptRows(g)
        /\ \A t \in DOMAIN text : t \in B =>
             text[t].status = "building" /\ text[t].indexing = "indexed"
        /\ Cardinality(B) = c.chunks => B = AttemptRows(g)
        /\ \A i \in 1..c.chunks : c.built[i] \in AttemptRows(g) /\ text[c.built[i]].index = i
        /\ \A t \in AttemptRows(g) : \E i \in 1..c.chunks : c.built[i] = t
    BY <1>1, <1>3, <1>4, <1>6, AttemptIsWhole, BuildingFacts
  <1>8. \A t \in DOMAIN text :
          /\ t \in B => text'[t] = [text[t] EXCEPT !.status = "active"]
          /\ t \notin B => text'[t] = text[t]
    BY <1>4
  <1>9. \A t \in DOMAIN text : text[t] \in TextRow /\ t \in 1..MaxTexts
    BY TextFacts DEF ArtInv
  <1>10. \A t \in DOMAIN text :
           /\ text'[t] \in TextRow
           /\ text'[t].artifact = text[t].artifact /\ text'[t].index = text[t].index
           /\ text'[t].attempt = text[t].attempt /\ text'[t].expected = text[t].expected
           /\ text'[t].indexing = text[t].indexing
           /\ t \in B => text'[t].status = "active"
    <2> SUFFICES ASSUME NEW t \in DOMAIN text
                 PROVE  /\ text'[t] \in TextRow
                        /\ text'[t].artifact = text[t].artifact /\ text'[t].index = text[t].index
                        /\ text'[t].attempt = text[t].attempt /\ text'[t].expected = text[t].expected
                        /\ text'[t].indexing = text[t].indexing
                        /\ t \in B => text'[t].status = "active"
      OBVIOUS
    <2>1. text[t] \in TextRow
      BY <1>9
    <2>2. CASE t \in B
      <3>1. text'[t] = [text[t] EXCEPT !.status = "active"]
        BY <1>8, <2>2
      <3> QED BY <2>1, <3>1 DEF TextRow
    <2>3. CASE t \notin B
      BY <1>8, <2>1, <2>3
    <2> QED BY <2>2, <2>3
  <1>11. DOMAIN text' = DOMAIN text
    BY <1>4
  <1>12. RowsKept
    <2>1. \A t \in DOMAIN text : text'[t].status = "active" \/ text'[t] = text[t]
      BY <1>8, <1>10
    <2> QED BY <1>10, <1>11, <2>1 DEF RowsKept
  <1>13. RowsHold'
    <2>1. PICK m \in Nat : m = Len(text) /\ DOMAIN text = 1..m /\ m <= MaxTexts
      BY TextFacts DEF ArtInv
    <2>2. text' \in [1..m -> TextRow]
      <3>1. text' = [t \in DOMAIN text |-> text'[t]]
        BY <1>4
      <3> QED BY <1>10, <2>1, <3>1
    <2>3. text' \in Seq(TextRow)
      BY <2>2, SeqDef
    <2>4. Len(text') = m
      <3>1. Len(text') \in Nat /\ DOMAIN text' = 1..Len(text')
        BY <2>3, LenProperties
      <3> QED BY <1>11, <2>1, <3>1
    <2>5. \A t \in DOMAIN text' :
            /\ text'[t].attempt <= t /\ text'[t].index <= text'[t].expected
            /\ text'[t].expected = object[text'[t].artifact]
            /\ text'[t].status = "active" => text'[t].indexing = "indexed"
      <3> SUFFICES ASSUME NEW t \in DOMAIN text
                   PROVE  /\ text'[t].attempt <= t /\ text'[t].index <= text'[t].expected
                          /\ text'[t].expected = object[text'[t].artifact]
                          /\ text'[t].status = "active" => text'[t].indexing = "indexed"
        BY <1>11
      <3>1. /\ text[t].attempt <= t /\ text[t].index <= text[t].expected
            /\ text[t].expected = object[text[t].artifact]
            /\ text[t].status = "active" => text[t].indexing = "indexed"
        BY DEF ArtInv, RowsHold
      <3>2. t \notin B => text'[t].status = text[t].status
        BY <1>8
      <3> QED BY <1>7, <1>10, <3>1, <3>2
    <2>6. \A t, u \in DOMAIN text' : text'[u].attempt = text'[t].attempt =>
            /\ text'[u].artifact = text'[t].artifact
            /\ text'[u].index = text'[t].index => u = t
      <3>1. \A t, u \in DOMAIN text : text[u].attempt = text[t].attempt =>
              /\ text[u].artifact = text[t].artifact
              /\ text[u].index = text[t].index => u = t
        BY DEF ArtInv, RowsHold
      <3> QED BY <1>10, <1>11, <3>1
    <2>7. object' = object
      BY <1>4
    <2> QED BY <2>1, <2>3, <2>4, <2>5, <2>6, <2>7 DEF RowsHold
  <1>14. \A i \in 1..c.chunks : c.built[i] \in RowsOf(a)
    BY <1>1, <1>2, <1>5, <1>6 DEF CallHolds
  <1>15. \A t \in AttemptRows(g) : t \in RowsOf(a) /\ t \in DOMAIN text
    BY <1>7, <1>14 DEF AttemptRows
  <1>16. \A t \in DOMAIN text : text[t].artifact # a => text'[t] = text[t]
    BY <1>7, <1>8, <1>15 DEF RowsOf
  <1>17. RowsOf(a)' = RowsOf(a)
    BY <1>10, <1>11 DEF RowsOf
  <1>18. a \notin overlapped =>
           /\ \A t \in ActiveRows(a)' : t \in B
           /\ \A i \in 1..c.chunks : point[<<a, i>>] = [row |-> c.built[i], status |-> "active"]
    <2> SUFFICES ASSUME a \notin overlapped
                 PROVE  /\ \A t \in ActiveRows(a)' : t \in B
                        /\ \A i \in 1..c.chunks :
                             point[<<a, i>>] = [row |-> c.built[i], status |-> "active"]
      OBVIOUS
    <2>1. ActiveRows(a) = {}
      <3>1. call[k].pc \in Deriving /\ call[k].stale = <<>> /\ call[k].artifact \notin overlapped
        BY <1>1, <1>2, <1>4, <1>6 DEF Deriving
      <3>2. ActiveRows(call[k].artifact) = {}
        BY ONLY <3>1, NothingActive, ArtInv, k \in DeriveCalls
      <3> QED BY <1>1, <1>2, <3>2
    <2>2. \A t \in ActiveRows(a)' : t \in B
      <3> SUFFICES ASSUME NEW t \in RowsOf(a), text'[t].status = "active"
                   PROVE  t \in B
        BY <1>17 DEF ActiveRows
      <3>1. t \in DOMAIN text /\ text[t].status # "active"
        BY <2>1 DEF ActiveRows, RowsOf
      <3> QED BY <1>8, <3>1
    <2>3. \A i \in 1..c.chunks : point[<<a, i>>] = [row |-> c.built[i], status |-> "active"]
      <3>1. c.published = c.chunks
        BY <1>1, <1>4, <1>5 DEF CallHolds
      <3> QED BY <1>1, <1>2, <1>5, <3>1 DEF CallAlone
    <2> QED BY <2>2, <2>3
  <1>19. a \notin overlapped => AloneHolds(a)'
    <2> SUFFICES ASSUME a \notin overlapped, NEW t \in ActiveRows(a)'
                 PROVE  /\ \A u \in ActiveRows(a)' : text'[u].attempt = text'[t].attempt
                        /\ point'[PointOf(t)'] # Nil /\ point'[PointOf(t)'].row = t
                        /\ point'[PointOf(t)'].status = "active"
      BY DEF AloneHolds
    <2>1. \A u \in ActiveRows(a)' : text'[u].attempt = g
      <3> SUFFICES ASSUME NEW u \in ActiveRows(a)' PROVE text'[u].attempt = g
        OBVIOUS
      <3>1. u \in AttemptRows(g)
        BY <1>7, <1>18
      <3> QED BY <1>10, <3>1 DEF AttemptRows
    <2>2. t \in AttemptRows(g)
      BY <1>7, <1>18
    <2>3. PICK i \in 1..c.chunks : c.built[i] = t
      BY <1>7, <2>2
    <2>4. PointOf(t)' = <<a, i>>
      <3>1. text[t].artifact = a /\ text[t].index = i /\ t \in DOMAIN text
        BY <1>7, <1>15, <2>2, <2>3 DEF RowsOf
      <3>2. text'[t].artifact = a /\ text'[t].index = i
        BY <1>10, <3>1
      <3> QED BY <3>2 DEF PointOf
    <2>5. point'[<<a, i>>] = [row |-> t, status |-> "active"]
      BY <1>4, <1>18, <2>3
    <2>6. point'[<<a, i>>].row = t /\ point'[<<a, i>>].status = "active"
      BY <2>5
    <2>7. point'[<<a, i>>] # Nil
      <3>1. point[<<a, i>>] = Nil => FALSE
        <4>1. [row |-> t, status |-> "active"] \in Point
          BY <1>9, <1>15, <2>2 DEF Point
        <4> QED BY <1>4, <2>5, <4>1, NilAssumption
      <3> QED BY <1>4, <3>1
    <2> QED BY <2>1, <2>4, <2>6, <2>7
  <1>20. RowsHold' /\ RowsKept /\ DOMAIN text' = DOMAIN text
         /\ UNCHANGED <<object, artifact, point, overlapped>>
    BY <1>4, <1>11, <1>12, <1>13
  <1>21. a = call[k].artifact
    BY <1>1, <1>2
  <1>22. CASE a \in Files \/ Cardinality(B) # c.chunks
    <2>1. call' = [call EXCEPT ![k] = Idle]
      BY <1>1, <1>2, <1>3, <1>4, <1>22 DEF Goto, Activated, Finished
    <2>2. CallHolds(k)' /\ CallAlone(k)'
      BY <2>1, CallGoesIdle
    <2>3. Idle \in Call /\ Idle.artifact \in {Nil, a} /\ Idle.built \in {<<>>, call[k].built}
      BY IdleFacts
    <2>4. a \notin overlapped => AloneHolds(a)' /\ CallAlone(k)'
      BY <1>19, <2>2
    <2> QED BY ONLY ArtInv, k \in DeriveCalls, <1>5, <1>16, <1>20, <1>21, <2>1, <2>2, <2>3, <2>4,
                    TextStep
  <1>23. CASE a \notin Files /\ Cardinality(B) = c.chunks
    <2>1. PICK d : d = [c EXCEPT !.pc = "complete"]
      OBVIOUS
    <2>2. call' = [call EXCEPT ![k] = d]
      BY <1>1, <1>2, <1>3, <1>4, <1>23, <2>1 DEF Goto, Activated, Finished, Moved
    <2>3. /\ d \in Call /\ d.pc = "complete" /\ d.artifact = a /\ d.chunks = c.chunks
          /\ d.built = c.built /\ d.stale = <<>> /\ d.published = c.chunks
      <3>1. c.published = c.chunks
        BY <1>1, <1>4, <1>5 DEF CallHolds
      <3> QED BY <1>2, <1>5, <1>6, <2>1, <3>1 DEF Call
    <2>4. call'[k] = d
      BY <2>2 DEF ArtInv
    <2>5. /\ d.artifact = call[k].artifact /\ d.chunks = call[k].chunks
          /\ d.built = call[k].built /\ d.pc \in {"complete"} \cup (Deriving \ {"activate"}) /\ d.chunks # 0
          /\ d.published > 0 => Len(d.built) = d.chunks
          /\ d.stale # <<>> => d.pc \in {"retire", "retire_row"} /\ d.built = <<>>
          /\ d.pc = "retire_row" => d.stale # <<>>
          /\ d.pc \in {"vector", "index"} => d.built # <<>> /\ d.published = 0
          /\ \A i \in DOMAIN d.stale : d.stale[i][1] \in RowsOf(d.artifact)
      BY <1>1, <1>6, <1>21, <2>3
    <2>6. CallHolds(k)'
      BY ONLY ArtInv, k \in DeriveCalls, <1>5, <1>20, <2>2, <2>3, <2>5, DerivationGoesOn
    <2>7. a \notin overlapped => CallAlone(k)'
      <3> SUFFICES ASSUME a \notin overlapped PROVE CallAlone(k)'
        OBVIOUS
      <3>1. \A i \in 1..d.published :
              point'[<<a, i>>] = [row |-> d.built[i], status |-> "active"]
        BY <1>4, <1>18, <2>3
      <3>2. \A i \in 1..d.chunks :
              /\ point'[<<a, i>>] # Nil /\ point'[<<a, i>>].status = "active"
              /\ point'[<<a, i>>].row \in RowsOf(a)
              /\ text'[point'[<<a, i>>].row].index = i
              /\ text'[point'[<<a, i>>].row].status \in {"active", "invalidated"}
        <4> SUFFICES ASSUME NEW i \in 1..c.chunks
                     PROVE  /\ point'[<<a, i>>] # Nil /\ point'[<<a, i>>].status = "active"
                            /\ point'[<<a, i>>].row \in RowsOf(a)
                            /\ text'[point'[<<a, i>>].row].index = i
                            /\ text'[point'[<<a, i>>].row].status \in {"active", "invalidated"}
          BY <2>3
        <4>1. PICK t \in B : c.built[i] = t /\ text[t].index = i
          BY <1>7, <1>23
        <4>2. t \in DOMAIN text /\ t \in RowsOf(a)
          BY <1>7, <1>15
        <4>3. point'[<<a, i>>] = [row |-> t, status |-> "active"]
          BY <1>4, <1>18, <4>1
        <4>4. [row |-> t, status |-> "active"] \in Point
          BY <1>9, <4>2 DEF Point
        <4>5. point'[<<a, i>>] # Nil
          BY <4>3, <4>4, NilAssumption
        <4> QED BY <1>10, <4>1, <4>2, <4>3, <4>5
      <3>3. d.pc \notin Deriving
        BY <2>3 DEF Deriving
      <3> QED BY <1>17, <2>3, <2>4, <3>1, <3>2, <3>3 DEF CallAlone
    <2>8. d.artifact \in {Nil, a} /\ d.built \in {<<>>, call[k].built}
      BY <2>3, <2>5
    <2>9. a \notin overlapped => AloneHolds(a)' /\ CallAlone(k)'
      BY <1>19, <2>7
    <2> QED BY ONLY ArtInv, k \in DeriveCalls, <1>5, <1>16, <1>20, <1>21, <2>2, <2>3, <2>6, <2>8,
                    <2>9, TextStep
  <1> QED BY <1>22, <1>23

(* Clients' steps leave the derivations alone: bytes are put again only      *)
(* where no chunk was derived of the old ones.                               *)
LEMMA ClientStep ==
  ASSUME ArtInv,
         \/ \E a \in Uploads : InitUpload(a)
         \/ \E a \in Uploads, v \in Objects : PutObject(a, v)
         \/ \E a \in Uploads, s \in {"pending", "failed"} : SetStatus(a, s)
  PROVE  ArtInv'
  <1>1. ASSUME NEW a \in Uploads, NEW s \in {"pending", "failed"},
               artifact' = [artifact EXCEPT ![a] = s],
               UNCHANGED <<object, text, point, call, overlapped>>
        PROVE  ArtInv'
    <2>1. artifact' \in [Artifacts -> {Nil, "pending", "completed", "failed"}]
      BY <1>1 DEF ArtInv
    <2>2. \A b \in Artifacts : artifact[b] # Nil => artifact'[b] # Nil
      BY <1>1, NilAssumption DEF ArtInv
    <2>3. object' \in [Artifacts -> {Nil} \cup Objects]
          /\ \A b \in Artifacts : object[b] \in 1..MaxChunks => object'[b] = object[b]
      BY <1>1 DEF ArtInv
    <2> QED BY <1>1, <2>1, <2>2, <2>3, QuietStep
  <1>2. ASSUME NEW a \in Uploads, InitUpload(a) PROVE ArtInv'
    BY <1>1, <1>2 DEF InitUpload, CreateArtifact
  <1>3. ASSUME NEW a \in Uploads, NEW s \in {"pending", "failed"}, SetStatus(a, s)
        PROVE  ArtInv'
    BY <1>1, <1>3 DEF SetStatus
  <1>4. ASSUME NEW a \in Uploads, NEW v \in Objects, PutObject(a, v) PROVE ArtInv'
    <2>1. /\ object[a] \in {Nil, Binary, Resized} /\ object' = [object EXCEPT ![a] = v]
          /\ UNCHANGED <<artifact, text, point, call, overlapped>>
      BY <1>4 DEF PutObject
    <2>2. object' \in [Artifacts -> {Nil} \cup Objects]
      BY <2>1 DEF ArtInv
    <2>3. \A b \in Artifacts : object[b] \in 1..MaxChunks => object'[b] = object[b]
      BY <2>1, NilAssumption, BoundsAssumption DEF ArtInv
    <2>4. artifact' \in [Artifacts -> {Nil, "pending", "completed", "failed"}]
          /\ \A b \in Artifacts : artifact[b] # Nil => artifact'[b] # Nil
      BY <2>1 DEF ArtInv
    <2> QED BY <2>1, <2>2, <2>3, <2>4, QuietStep
  <1> QED BY <1>2, <1>3, <1>4

(* Every request of a call keeps the invariant.                              *)
LEMMA CallStepKeeps ==
  ASSUME ArtInv, NEW k \in DeriveCalls, CallStep(k)
  PROVE  ArtInv'
  <1>1. CASE Examine(k)
    BY <1>1, ExamineStep
  <1>2. CASE RetireVector(k)
    BY <1>2, RetireVectorStep
  <1>3. CASE RetireRow(k)
    BY <1>3, RetireRowStep
  <1>4. CASE CreateText(k)
    BY <1>4, CreateTextStep
  <1>5. CASE UpsertVector(k)
    BY <1>5, UpsertVectorStep
  <1>6. CASE MarkIndexed(k)
    BY <1>6, MarkIndexedStep
  <1>7. CASE PublishVector(k)
    BY <1>7, PublishVectorStep
  <1>8. CASE CountAttempt(k)
    BY <1>8, CountAttemptStep
  <1>9. CASE Activate(k)
    BY <1>9, ActivateStep
  <1>10. CASE Complete(k)
    BY <1>10, CompleteCallStep
  <1> QED BY <1>1, <1>2, <1>3, <1>4, <1>5, <1>6, <1>7, <1>8, <1>9, <1>10 DEF CallStep

(* Whatever the order of the calls' requests, and wherever a call is lost,   *)
(* complete_artifact and ingest_files keep what the invariant says of rows,  *)
(* points and calls.                                                         *)
THEOREM ArtInvariant == ArtSpec => []ArtInv
  <1>1. ArtInit => ArtInv
    BY ArtInitially
  <1>2. ArtInv /\ [ArtNext]_artVars => ArtInv'
    <2> SUFFICES ASSUME ArtInv, [ArtNext]_artVars PROVE ArtInv'
      OBVIOUS
    <2>1. CASE UNCHANGED artVars
      <3>1. /\ object' \in [Artifacts -> {Nil} \cup Objects]
            /\ artifact' \in [Artifacts -> {Nil, "pending", "completed", "failed"}]
        BY <2>1 DEF ArtInv, artVars
      <3> QED BY <2>1, <3>1, QuietStep DEF artVars
    <2>2. CASE \/ \E a \in Uploads : InitUpload(a)
               \/ \E a \in Uploads, v \in Objects : PutObject(a, v)
               \/ \E a \in Uploads, s \in {"pending", "failed"} : SetStatus(a, s)
      BY <2>2, ClientStep
    <2>3. CASE \E t \in 1..MaxTexts : InvalidateText(t)
      BY <2>3, InvalidateTextStep
    <2>4. ASSUME NEW k \in DeriveCalls,
                 \/ \E a \in Uploads : BeginComplete(k, a)
                 \/ \E a \in Files : BeginIngest(k, a)
                 \/ CallStep(k) \/ AbandonCall(k)
          PROVE  ArtInv'
      BY <2>4, BeginCompleteStep, BeginIngestStep, CallStepKeeps, AbandonCallStep
    <2> QED BY <2>1, <2>2, <2>3, <2>4 DEF ArtNext
  <1> QED BY <1>1, <1>2, PTL DEF ArtSpec

(* The tables, points and calls of the derivation code always hold what      *)
(* their columns and fields allow.                                           *)
THEOREM ArtTypes == ArtSpec => []ArtTypeOK
  <1>1. ArtInv => ArtTypeOK
    <2> SUFFICES ASSUME ArtInv PROVE ArtTypeOK
      OBVIOUS
    <2>1. \A k \in DeriveCalls : Range(call[k].built) \subseteq DOMAIN text
      <3> SUFFICES ASSUME NEW k \in DeriveCalls, NEW i \in DOMAIN call[k].built
                   PROVE  call[k].built[i] \in DOMAIN text
        BY DEF Range
      <3>1. call[k].built[i] \in RowsOf(call[k].artifact)
        BY DEF ArtInv, CallHolds
      <3> QED BY <3>1 DEF RowsOf
    <2> QED BY <2>1 DEF ArtInv, ArtTypeOK, RowsHold
  <1> QED BY <1>1, ArtInvariant, PTL

(* An uninterrupted completion of an upload reports success only over a text *)
(* that is whole: complete_artifact repairs what lost calls left half built  *)
(* and leaves no second active row behind.                                   *)
THEOREM CompletionsAreWhole == ArtSpec => []CompletionIsWhole
  <1>1. ArtInv => CompletionIsWhole
    <2> SUFFICES ASSUME ArtInv, NEW k \in DeriveCalls, NEW a, a = call[k].artifact,
                        At(k, "complete"), a \in Uploads \ overlapped
                 PROVE  /\ \A i \in 1..call[k].chunks :
                             /\ point[<<a, i>>] # Nil /\ point[<<a, i>>].status = "active"
                             /\ PointOf(point[<<a, i>>].row) = <<a, i>>
                             /\ text[point[<<a, i>>].row].status \in {"active", "invalidated"}
                        /\ \A t \in RowsOf(a) :
                             text[t].status = "active" => point[PointOf(t)].row = t
      BY DEF CompletionIsWhole
    <2>1. CallAlone(k)
      BY DEF ArtInv
    <2>2. \A i \in 1..call[k].chunks :
            /\ point[<<a, i>>] # Nil /\ point[<<a, i>>].status = "active"
            /\ point[<<a, i>>].row \in RowsOf(a) /\ text[point[<<a, i>>].row].index = i
            /\ text[point[<<a, i>>].row].status \in {"active", "invalidated"}
      BY <2>1 DEF CallAlone, At
    <2>3. \A t \in RowsOf(a) : PointOf(t) = <<a, text[t].index>>
      BY DEF PointOf, RowsOf
    <2>4. \A t \in RowsOf(a) : text[t].status = "active" => point[PointOf(t)].row = t
      <3>1. AloneHolds(a)
        BY DEF ArtInv, Artifacts
      <3> QED BY <3>1 DEF AloneHolds, ActiveRows
    <2> QED BY <2>2, <2>3, <2>4
  <1> QED BY <1>1, ArtInvariant, PTL

(* What earlier attempts left behind never fails a retry's count: the rows   *)
(* of an attempt are those of its own call, so activate_derived_text_attempt *)
(* finds as many as it expects.                                              *)
THEOREM RetriesAreActivated == ArtSpec => []RetriesActivate
  <1>1. ArtInv => RetriesActivate
    <2> SUFFICES ASSUME ArtInv, NEW k \in DeriveCalls, At(k, "retire"), call[k].chunks > 0,
                        call[k].published = call[k].chunks, call[k].artifact \notin overlapped,
                        \A t \in AttemptRows(Attempt(k)) : text[t].status # "invalidated"
                 PROVE  Ready(k)
      BY DEF RetriesActivate
    <2>1. PICK s : s = call[k].built
      OBVIOUS
    <2>2. CallHolds(k) /\ CallAlone(k) /\ call[k] \in Call /\ call[k].chunks \in Nat
      BY CallFacts DEF ArtInv
    <2>3. Len(s) = call[k].chunks /\ s # <<>> /\ DOMAIN s = 1..Len(s)
      <3>1. Len(s) = call[k].chunks
        BY <2>1, <2>2 DEF CallHolds
      <3> QED BY <2>1, <2>2, <3>1, CallFacts
    <2>4. /\ Attempt(k) = s[1]
          /\ Ready(k) <=> \A t \in AttemptRows(s[1]) :
                            text[t].status = "building" /\ text[t].indexing = "indexed"
      BY <2>1, <2>3, ReadyIsAll
    <2>5. \A t \in AttemptRows(s[1]) : \E i \in 1..Len(s) : s[i] = t
      BY <2>1, <2>3, AttemptIsWhole
    <2>6. \A i \in DOMAIN s : /\ text[s[i]].status \in {"building", "invalidated"}
                              /\ text[s[i]].indexing = "indexed"
      BY <2>1, <2>2 DEF CallAlone, At, Deriving
    <2>7. \A t \in AttemptRows(s[1]) :
            text[t].status = "building" /\ text[t].indexing = "indexed"
      <3> SUFFICES ASSUME NEW t \in AttemptRows(s[1])
                   PROVE  text[t].status = "building" /\ text[t].indexing = "indexed"
        OBVIOUS
      <3>1. PICK i \in 1..Len(s) : s[i] = t
        BY <2>5
      <3>2. text[t].status # "invalidated"
        BY <2>4
      <3> QED BY <2>3, <2>6, <3>1, <3>2
    <2> QED BY <2>4, <2>7
  <1> QED BY <1>1, ArtInvariant, PTL

(* What PublishedOrFailed says of one step. *)
WholeOrFailed ==
  \A t \in DOMAIN text' :
    text'[t].status = "active" /\ (t \notin DOMAIN text \/ text[t].status # "active")
      => LET rows == {u \in DOMAIN text' : text'[u].attempt = text'[t].attempt}
             kept == {u \in rows : text'[u].status = "active"}
         IN  /\ Cardinality(rows) = text'[t].expected
             /\ \A u \in kept : text'[u].indexing = "indexed"
             /\ \A u \in rows \ kept :
                  \/ text'[u].status = "invalidated"
                  \/ text'[u].status \in Retired /\ text'[u].artifact \in overlapped
             /\ rows # kept => \A k \in DeriveCalls : call'[k] # call[k] => call'[k] = Idle

\* The rows that are made active are of one attempt, which has as many as it
\* announced; when they are not all of it, the update returns fewer.
LEMMA ActivateIsWhole ==
  ASSUME ArtInv, NEW k \in DeriveCalls, Activate(k)
  PROVE  WholeOrFailed
  <1>1. PICK c, s, g, B : c = call[k] /\ s = c.built /\ g = s[1] /\ B = Building(k)
    OBVIOUS
  <1>2. /\ c.pc = "activate"
        /\ text' = [t \in DOMAIN text |->
             IF t \in B THEN [text[t] EXCEPT !.status = "active"] ELSE text[t]]
        /\ call' = [call EXCEPT ![k] = Activated(k)]
    BY <1>1 DEF Activate, At, Goto
  <1>3. /\ s # <<>> /\ Len(s) = c.chunks /\ B \subseteq AttemptRows(g)
        /\ B = {t \in AttemptRows(g) : text[t].status = "building"}
        /\ Cardinality(B) = c.chunks => B = AttemptRows(g)
    BY <1>1, <1>2, BuildingFacts DEF Building
  <1>4. /\ c.chunks = object[c.artifact]
        /\ \A i \in 1..Len(s) : s[i] \in RowsOf(c.artifact)
        /\ c.artifact \notin overlapped =>
             \A i \in 1..Len(s) : text[s[i]].status \in {"building", "invalidated"}
    <2>1. c \in Call /\ CallHolds(k)
      BY <1>1 DEF ArtInv
    <2>2. DOMAIN s = 1..Len(s) /\ c.chunks # 0 /\ c.pc \in Deriving
      BY <1>1, <1>2, <2>1, CallFacts DEF CallHolds, Deriving
    <2>3. c.artifact \notin overlapped => CallAlone(k)
      BY <1>1 DEF ArtInv
    <2> QED BY <1>1, <2>1, <2>2, <2>3 DEF CallHolds, CallAlone
  <1>5. /\ Cardinality(AttemptRows(g)) = c.chunks
        /\ \A t \in AttemptRows(g) : \E i \in 1..Len(s) : s[i] = t
    <2>1. s = call[k].built /\ s # <<>> /\ g = s[1] /\ Len(s) = c.chunks
      BY <1>1, <1>3
    <2>2. /\ Cardinality(AttemptRows(s[1])) = Len(s)
          /\ \A t \in AttemptRows(s[1]) : \E i \in 1..Len(s) : s[i] = t
      BY ONLY ArtInv, k \in DeriveCalls, <2>1, AttemptIsWhole
    <2> QED BY <2>1, <2>2
  <1>6. ArtInv'
    BY ActivateStep
  <1>7. \A t \in DOMAIN text : text[t] \in TextRow
    BY TextFacts DEF ArtInv
  <1>8. /\ DOMAIN text' = DOMAIN text
        /\ \A t \in DOMAIN text :
             /\ text'[t].attempt = text[t].attempt /\ text'[t].expected = text[t].expected
             /\ text'[t].artifact = text[t].artifact
             /\ t \in B => text'[t].status = "active"
             /\ t \notin B => text'[t] = text[t]
    <2>1. DOMAIN text' = DOMAIN text
      BY <1>2
    <2> SUFFICES ASSUME NEW t \in DOMAIN text
                 PROVE  /\ text'[t].attempt = text[t].attempt /\ text'[t].expected = text[t].expected
                        /\ text'[t].artifact = text[t].artifact
                        /\ t \in B => text'[t].status = "active"
                        /\ t \notin B => text'[t] = text[t]
      BY <2>1
    <2> QED BY <1>2, <1>7 DEF TextRow
  <1>9. \A t \in AttemptRows(g) :
          t \in DOMAIN text /\ text[t].artifact = c.artifact /\ text[t].expected = c.chunks
    <2> SUFFICES ASSUME NEW t \in AttemptRows(g)
                 PROVE  t \in DOMAIN text /\ text[t].artifact = c.artifact
                        /\ text[t].expected = c.chunks
      OBVIOUS
    <2>1. t \in DOMAIN text /\ text[t].artifact = c.artifact
      BY <1>4, <1>5 DEF RowsOf
    <2> QED BY <1>4, <2>1 DEF ArtInv, RowsHold
  <1> DEFINE Rows(t) == {u \in DOMAIN text' : text'[u].attempt = text'[t].attempt}
             Kept(t) == {u \in Rows(t) : text'[u].status = "active"}
  <1> SUFFICES ASSUME NEW t \in DOMAIN text', text'[t].status = "active",
                      t \notin DOMAIN text \/ text[t].status # "active"
               PROVE  /\ Cardinality(Rows(t)) = text'[t].expected
                      /\ \A u \in Kept(t) : text'[u].indexing = "indexed"
                      /\ \A u \in Rows(t) \ Kept(t) :
                           \/ text'[u].status = "invalidated"
                           \/ text'[u].status \in Retired /\ text'[u].artifact \in overlapped
                      /\ Rows(t) # Kept(t) =>
                           \A l \in DeriveCalls : call'[l] # call[l] => call'[l] = Idle
    BY Zenon DEF WholeOrFailed
  <1> DEFINE rows == Rows(t)
             kept == Kept(t)
  <1>10. t \in AttemptRows(g) /\ t \in DOMAIN text
    BY <1>3, <1>8
  <1>11. rows = AttemptRows(g)
    <2>1. text'[t].attempt = g
      BY <1>8, <1>10 DEF AttemptRows
    <2> QED BY <1>8, <2>1 DEF AttemptRows
  <1>12. Cardinality(rows) = text'[t].expected
    BY <1>5, <1>8, <1>9, <1>10, <1>11
  <1>13. \A u \in kept : text'[u].indexing = "indexed"
    BY <1>6, <1>8, <1>9, <1>11 DEF ArtInv, RowsHold
  <1>14. \A u \in rows \ kept :
           \/ text'[u].status = "invalidated"
           \/ text'[u].status \in Retired /\ text'[u].artifact \in overlapped
    <2> SUFFICES ASSUME NEW u \in rows, text'[u].status # "active"
                 PROVE  \/ text'[u].status = "invalidated"
                        \/ text'[u].status \in Retired /\ text'[u].artifact \in overlapped
      OBVIOUS
    <2>1. u \in DOMAIN text /\ text[u].artifact = c.artifact /\ text[u] \in TextRow
      BY <1>7, <1>9, <1>11
    <2>2. u \notin B /\ text'[u] = text[u] /\ text[u].status # "building"
      BY <1>3, <1>8, <1>11, <2>1
    <2>3. text[u].status \in {"failed", "superseded", "invalidated"}
      BY <2>1, <2>2 DEF TextRow
    <2>4. CASE c.artifact \in overlapped
      BY <2>1, <2>2, <2>3, <2>4 DEF Retired
    <2>5. CASE c.artifact \notin overlapped
      <3>1. PICK i \in 1..Len(s) : s[i] = u
        BY <1>5, <1>11
      <3> QED BY <1>4, <2>2, <2>5, <3>1
    <2> QED BY <2>4, <2>5
  <1>15. rows # kept => \A l \in DeriveCalls : call'[l] # call[l] => call'[l] = Idle
    <2> SUFFICES ASSUME rows # kept, NEW l \in DeriveCalls, call'[l] # call[l]
                 PROVE  call'[l] = Idle
      OBVIOUS
    <2>1. Cardinality(B) # c.chunks
      BY <1>3, <1>8, <1>9, <1>11
    <2>2. Activated(k) = Idle
      BY <1>1, <2>1 DEF Activated
    <2> QED BY <1>2, <2>2 DEF ArtInv
  <1> QED BY <1>12, <1>13, <1>14, <1>15

\* No other step makes a row active.
LEMMA OthersPublishNothing ==
  ASSUME ArtInv, ArtNext \/ UNCHANGED artVars, \A k \in DeriveCalls : ~Activate(k)
  PROVE  \A t \in DOMAIN text' : text'[t].status = "active" =>
           t \in DOMAIN text /\ text[t].status = "active"
  <1> DEFINE Nothing == \A t \in DOMAIN text' : text'[t].status = "active" =>
                          t \in DOMAIN text /\ text[t].status = "active"
  <1>1. /\ DOMAIN text = 1..Len(text) /\ Len(text) \in Nat
        /\ \A t \in DOMAIN text : text[t] \in TextRow
    BY TextFacts DEF ArtInv
  <1>2. ASSUME UNCHANGED text PROVE Nothing
    BY <1>2
  <1>3. ASSUME NEW t, NEW s, NEW i, s # "active",
               text' = [text EXCEPT ![t].status = s, ![t].indexing = i]
        PROVE  Nothing
    <2> SUFFICES ASSUME NEW u \in DOMAIN text', text'[u].status = "active"
                 PROVE  u \in DOMAIN text /\ text[u].status = "active"
      OBVIOUS
    <2>1. u \in DOMAIN text /\ text[u] \in TextRow
      BY <1>1, <1>3
    <2>2. CASE u = t
      BY <1>3, <2>1, <2>2 DEF TextRow
    <2>3. CASE u # t
      BY <1>3, <2>1, <2>3
    <2> QED BY <2>2, <2>3
  <1>4. ASSUME NEW t, InvalidateText(t) PROVE Nothing
    <2> SUFFICES ASSUME NEW u \in DOMAIN text', text'[u].status = "active"
                 PROVE  u \in DOMAIN text /\ text[u].status = "active"
      OBVIOUS
    <2>1. text' = [text EXCEPT ![t].status = "invalidated"]
      BY <1>4 DEF InvalidateText
    <2>2. u \in DOMAIN text /\ text[u] \in TextRow
      BY <1>1, <2>1
    <2> QED BY <2>1, <2>2 DEF TextRow
  <1>5. ASSUME NEW k \in DeriveCalls, RetireRow(k) PROVE Nothing
    <2>1. PICK t : t = Head(call[k].stale)[1]
      OBVIOUS
    <2>2. PICK s : s = IF Head(call[k].stale)[2] THEN "superseded" ELSE "failed"
      OBVIOUS
    <2>3. PICK i : i = IF Head(call[k].stale)[2] THEN "indexed" ELSE "incomplete"
      OBVIOUS
    <2>4. s # "active" /\ text' = [text EXCEPT ![t].status = s, ![t].indexing = i]
      BY <1>5, <2>1, <2>2, <2>3 DEF RetireRow
    <2> QED BY <1>3, <2>4
  <1>6. ASSUME NEW k \in DeriveCalls, MarkIndexed(k) PROVE Nothing
    <2>1. PICK t, s, i : s # "active" /\ text' = [text EXCEPT ![t].status = s, ![t].indexing = i]
      BY <1>6 DEF MarkIndexed
    <2> QED BY <1>3, <2>1
  <1>7. ASSUME NEW k \in DeriveCalls, CreateText(k) PROVE Nothing
    <2>1. PICK r : text' = Append(text, r) /\ r.status = "building"
      BY <1>7 DEF CreateText
    <2>2. text \in Seq(TextRow)
      BY DEF ArtInv, RowsHold
    <2>3. /\ DOMAIN text' = 1..(Len(text) + 1)
          /\ text'[Len(text) + 1] = r
          /\ \A i \in 1..Len(text) : text'[i] = text[i]
      BY <2>1, <2>2
    <2> QED BY <1>1, <2>1, <2>3
  <1>8. ASSUME NEW k \in DeriveCalls, CallStep(k) PROVE Nothing
    <2>1. CASE UNCHANGED text
      BY <1>2, <2>1
    <2>2. CASE RetireRow(k) \/ MarkIndexed(k) \/ CreateText(k)
      BY <1>5, <1>6, <1>7, <2>2
    <2>3. UNCHANGED text \/ RetireRow(k) \/ MarkIndexed(k) \/ CreateText(k)
      BY <1>8 DEF CallStep, Examine, RetireVector, UpsertVector, PublishVector, CountAttempt, Complete
    <2> QED BY <2>1, <2>2, <2>3
  <1>9. CASE ArtNext
    <2>1. \/ UNCHANGED text \/ \E t \in 1..MaxTexts : InvalidateText(t)
          \/ \E k \in DeriveCalls : CallStep(k)
      BY <1>9 DEF ArtNext, InitUpload, PutObject, SetStatus, BeginComplete, BeginIngest, AbandonCall
    <2> QED BY <1>2, <1>4, <1>8, <2>1
  <1>10. CASE UNCHANGED artVars
    BY <1>2, <1>10 DEF artVars
  <1> QED BY <1>9, <1>10

(* Readers see a derivation as a whole, or as much of it as an invalidation  *)
(* or an overlapping call has left, and then the call that made it visible   *)
(* fails: activate_derived_text_attempt counts an attempt, makes active what *)
(* is left of it in another statement, and counts again.                     *)
THEOREM DerivationsAppearOrFail == ArtSpec => PublishedOrFailed
  <1>1. ArtInv /\ [ArtNext]_artVars => WholeOrFailed
    <2> SUFFICES ASSUME ArtInv, [ArtNext]_artVars PROVE WholeOrFailed
      OBVIOUS
    <2>1. ASSUME NEW k \in DeriveCalls, Activate(k) PROVE WholeOrFailed
      BY <2>1, ActivateIsWhole
    <2>2. CASE \A k \in DeriveCalls : ~Activate(k)
      BY <2>2, OthersPublishNothing DEF WholeOrFailed
    <2> QED BY <2>1, <2>2
  <1>2. ArtInv /\ [ArtNext]_artVars =>
          [\A t \in DOMAIN text' :
             text'[t].status = "active" /\ (t \notin DOMAIN text \/ text[t].status # "active")
               => LET rows == {u \in DOMAIN text' : text'[u].attempt = text'[t].attempt}
                      kept == {u \in rows : text'[u].status = "active"}
                  IN  /\ Cardinality(rows) = text'[t].expected
                      /\ \A u \in kept : text'[u].indexing = "indexed"
                      /\ \A u \in rows \ kept :
                           \/ text'[u].status = "invalidated"
                           \/ text'[u].status \in Retired /\ text'[u].artifact \in overlapped
                      /\ rows # kept => \A k \in DeriveCalls :
                                          call'[k] # call[k] => call'[k] = Idle]_artVars
    BY <1>1 DEF WholeOrFailed
  <1> QED BY <1>2, ArtInvariant, PTL DEF ArtSpec, PublishedOrFailed
=============================================================================
