-------------------------- MODULE Histories_proofs --------------------------
(* Episodes and the histories of claims, for any number of calls, requests,  *)
(* rows, answers and claims.                                                 *)
EXTENDS Episodes, ClaimHistory, FiniteSetTheorems, SequenceTheorems, TLAPS

(* Episodes.                                                                 *)

(* What one more event makes of a row's tale. *)

(* An event at the end of a history. *)
LEMMA OneMoreEvent ==
  ASSUME NEW h \in Seq(EpisodeEvent), NEW ev \in EpisodeEvent
  PROVE  LET g == Append(h, ev)
             n == Len(h) + 1
         IN /\ g \in Seq(EpisodeEvent) /\ Len(g) = n /\ g[n] = ev
            /\ \A i \in DOMAIN h : i \in DOMAIN g /\ g[i] = h[i] /\ i < n /\ i \in Nat
            /\ DOMAIN g = DOMAIN h \cup {n} /\ n \in Nat
  <1>1. /\ Append(h, ev) \in Seq(EpisodeEvent) /\ Len(h) \in Nat
        /\ Len(Append(h, ev)) = Len(h) + 1 /\ DOMAIN h = 1..Len(h)
        /\ \A i \in 1..Len(h) : Append(h, ev)[i] = h[i]
        /\ Append(h, ev)[Len(h) + 1] = ev
    BY AppendProperties, LenProperties
  <1>2. DOMAIN Append(h, ev) = 1..(Len(h) + 1)
    BY <1>1, LenProperties
  <1> QED BY <1>1, <1>2

(* Each link is told of once more only by the event that brings it. *)
LEMMA LinksOfOneMore ==
  ASSUME NEW row \in EpisodeRow, NEW h \in Seq(EpisodeEvent), RowTells(row, h),
         NEW ev \in EpisodeEvent, ev.links \cap row.links = {}, NEW l \in Refs
  PROVE  Cardinality({i \in DOMAIN Append(h, ev) : l \in Append(h, ev)[i].links})
           = IF l \in row.links \cup ev.links THEN 1 ELSE 0
  <1> DEFINE g == Append(h, ev)
             S == {i \in DOMAIN h : l \in h[i].links}
             T == {i \in DOMAIN g : l \in g[i].links}
             n == Len(h) + 1
  <1>1. T = IF l \in ev.links THEN S \cup {n} ELSE S
    BY OneMoreEvent
  <1>2. CASE l \notin ev.links
    BY <1>1, <1>2 DEF RowTells
  <1>3. CASE l \in ev.links
    <2>1. Cardinality(S) = 0
      BY <1>3 DEF RowTells
    <2>2. IsFiniteSet(S)
      <3>1. DOMAIN h = 1..Len(h) /\ Len(h) \in Nat
        BY LenProperties
      <3>2. IsFiniteSet(DOMAIN h)
        BY <3>1, FS_Interval
      <3> QED BY <3>2, FS_Subset
    <2>3. T = {n}
      BY <1>1, <1>3, <2>1, <2>2, FS_EmptySet
    <2> QED BY <1>3, <2>3, FS_Singleton
  <1> QED BY <1>2, <1>3

(* A row that is created. *)
LEMMA CreatedTells ==
  ASSUME NEW key \in EpisodeKeys, NEW q \in ExtractIds
  PROVE  LET row == [key |-> key, content |-> q, status |-> "active", links |-> {}]
             h == <<EpisodeEventOf("created", q, {})>>
         IN row \in EpisodeRow /\ h \in Seq(EpisodeEvent) /\ RowTells(row, h)
  <1> DEFINE row == [key |-> key, content |-> q, status |-> "active", links |-> {}]
             ev == EpisodeEventOf("created", q, {})
             h == <<ev>>
  <1>1. row \in EpisodeRow /\ ev \in EpisodeEvent
    BY DEF EpisodeRow, EpisodeEvent, EpisodeEventOf
  <1>2. h \in Seq(EpisodeEvent) /\ DOMAIN h = {1} /\ h[1] = ev
    BY <1>1
  <1>3. Writes(h) = {1} /\ Closes(h) = {}
    BY <1>2 DEF Writes, Closes, EpisodeEventOf
  <1>4. ASSUME NEW l \in Refs
        PROVE  Cardinality({i \in DOMAIN h : l \in h[i].links}) = 0
    <2>1. {i \in DOMAIN h : l \in h[i].links} = {}
      BY <1>2 DEF EpisodeEventOf
    <2> QED BY <2>1, FS_EmptySet
  <1>5. h[1].request = row.content
    BY <1>2 DEF EpisodeEventOf
  <1> QED BY <1>1, <1>2, <1>3, <1>4, <1>5 DEF RowTells

(* A row that a request writes again. *)
LEMMA UpdatedTells ==
  ASSUME NEW row \in EpisodeRow, NEW h \in Seq(EpisodeEvent), RowTells(row, h),
         row.status = "active", NEW q \in ExtractIds
  PROVE  RowTells([row EXCEPT !.content = q], Append(h, EpisodeEventOf("updated", q, {})))
  <1> DEFINE ev == EpisodeEventOf("updated", q, {})
             g == Append(h, ev)
             n == Len(h) + 1
             new == [row EXCEPT !.content = q]
  <1>1. /\ ev \in EpisodeEvent /\ ev.type = "updated" /\ ev.request = q /\ ev.links = {}
        /\ new.content = q /\ new.status = "active" /\ new.links = row.links
    BY DEF EpisodeEvent, EpisodeEventOf, EpisodeRow
  <1> HIDE DEF ev
  <1>2. Closes(h) = {}
    BY DEF RowTells
  <1>3. Writes(g) = Writes(h) \cup {n} /\ Closes(g) = Closes(h)
    BY <1>1, OneMoreEvent DEF Writes, Closes
  <1>4. g[n].request = new.content /\ \A j \in Writes(g) : j <= n
    BY <1>1, <1>3, OneMoreEvent DEF Writes
  <1>5. \A l \in Refs : Cardinality({i \in DOMAIN g : l \in g[i].links})
                          = IF l \in new.links THEN 1 ELSE 0
    BY <1>1, LinksOfOneMore
  <1>6. new.status # "invalidated"
    BY <1>1
  <1> QED BY <1>2, <1>3, <1>4, <1>5, <1>6 DEF RowTells, ev

(* An event that writes nothing: the row becomes what it says. *)
LEMMA OtherTells ==
  ASSUME NEW row \in EpisodeRow, NEW h \in Seq(EpisodeEvent), RowTells(row, h),
         NEW type \in {"linked", "invalidated", "rebuilding", "terminal"},
         NEW q \in ExtractIds, NEW links \in SUBSET Refs, links \cap row.links = {},
         NEW new \in EpisodeRow, new.content = row.content,
         new.links = row.links \cup links,
         IF type \in {"invalidated", "terminal"} THEN new.status = "invalidated"
         ELSE new.status = row.status
  PROVE  RowTells(new, Append(h, EpisodeEventOf(type, q, links)))
  <1> DEFINE ev == EpisodeEventOf(type, q, links)
             g == Append(h, ev)
             n == Len(h) + 1
  <1>1. ev \in EpisodeEvent /\ ev.type = type /\ ev.links = links
    BY DEF EpisodeEvent, EpisodeEventOf
  <1> HIDE DEF ev
  <1>2. /\ Writes(g) = Writes(h)
        /\ Closes(g) = IF type \in {"invalidated", "terminal"} THEN Closes(h) \cup {n}
                       ELSE Closes(h)
    BY <1>1, OneMoreEvent DEF Writes, Closes
  <1>3. \A i \in Writes(h) : i \in DOMAIN h /\ i < n /\ g[i] = h[i]
    BY <1>1, OneMoreEvent DEF Writes
  <1>4. \E i \in Writes(g) : /\ \A j \in Writes(g) : j <= i
                             /\ g[i].request = new.content
    BY <1>2, <1>3 DEF RowTells
  <1>5. \A i \in Writes(g), j \in Closes(g) : i < j
    BY <1>2, <1>3 DEF RowTells
  <1>6. (new.status = "invalidated") = (Closes(g) # {})
    BY <1>2 DEF RowTells
  <1>7. \A l \in Refs : Cardinality({i \in DOMAIN g : l \in g[i].links})
                          = IF l \in new.links THEN 1 ELSE 0
    BY <1>1, LinksOfOneMore
  <1> QED BY <1>4, <1>5, <1>6, <1>7 DEF RowTells, ev

-----------------------------------------------------------------------------
(* What a step leaves to the calls that do not take it. *)

(* Rows stay, with their keys and their histories; a retired one stays so,   *)
(* and one that a call has locked keeps its status.                          *)
Grown ==
  /\ DOMAIN episode \subseteq DOMAIN episode'
  /\ \A e \in DOMAIN episode :
       /\ episode'[e].key = episode[e].key
       /\ episode[e].status = "invalidated" => episode'[e].status = "invalidated"
       /\ LockedEpisode(e) => episode'[e].status = episode[e].status
       /\ \A i \in DOMAIN history[e] : i \in DOMAIN history'[e] /\ history'[e][i] = history[e][i]

LEMMA RecordedStays ==
  ASSUME Grown, NEW q, NEW key, Recorded(q, key)
  PROVE  Recorded(q, key)'
  <1>1. PICK e \in DOMAIN episode : /\ episode[e].key = key
                                    /\ NotedOf(e, "created", q) \/ NotedOf(e, "updated", q)
    BY DEF Recorded
  <1>2. e \in DOMAIN episode' /\ episode'[e].key = key
    BY <1>1 DEF Grown
  <1>3. NotedOf(e, "created", q)' \/ NotedOf(e, "updated", q)'
    BY <1>1 DEF Grown, NotedOf
  <1> QED BY <1>2, <1>3 DEF Recorded

LEMMA CallStillFits ==
  ASSUME EpisodeInv, Grown, NEW k \in Extracts, extract'[k] = extract[k]
  PROVE  CallFits(k)'
  <1> SUFFICES ASSUME extract[k] # NoExtract PROVE CallFits(k)'
    BY DEF CallFits
  <1> DEFINE c == extract[k]
  <1>1. CallFits(k)
    BY DEF EpisodeInv
  <1>2. c.pc = "update" => LockedEpisode(c.row)
    BY DEF LockedEpisode
  <1>3. /\ c.pc \in {"update", "insert"} => c.at <= Len(Accepted[c.request])
        /\ c.pc \in {"update", "start", "inspect", "close", "note"} => c.row \in DOMAIN episode'
        /\ c.pc = "update" => episode'[c.row].status = "active" /\ episode'[c.row].key = KeyOf(c)
        /\ c.pc = "note" => episode'[c.row].status = "invalidated"
    BY <1>1, <1>2 DEF CallFits, Grown
  <1>4. c.pc \in {"find", "update", "insert"} =>
          \A i \in DOMAIN Accepted[c.request] : i < c.at =>
            Recorded(c.request, Accepted[c.request][i])'
    BY <1>1, RecordedStays DEF CallFits
  <1> QED BY <1>3, <1>4 DEF CallFits, KeyOf

(* The other conjuncts, once every row is known to tell the truth.           *)
LEMMA AnsweredStays ==
  ASSUME EpisodeInv, Grown, extracted' = extracted
  PROVE  ExtractIsWhole'
  BY RecordedStays DEF EpisodeInv, ExtractIsWhole

(* A call's variables are what its type allows.                              *)
LEMMA CallType ==
  ASSUME EpisodeTypeOK, NEW k \in Extracts, extract[k] # NoExtract
  PROVE  /\ extract[k] \in ExtractCall /\ extract[k].request \in ExtractIds
         /\ extract[k].at \in Nat \ {0}
         /\ Accepted[extract[k].request] \in Seq(EpisodeKeys)
         /\ DOMAIN Accepted[extract[k].request] = 1..Len(Accepted[extract[k].request])
         /\ Len(Accepted[extract[k].request]) \in Nat
  <1>1. extract[k] \in ExtractCall
    BY DEF EpisodeTypeOK
  <1>2. extract[k].request \in ExtractIds /\ extract[k].at \in Nat \ {0}
    BY <1>1 DEF ExtractCall
  <1> QED BY <1>1, <1>2, AcceptedAssumption, LenProperties

LEMMA RowType ==
  ASSUME EpisodeTypeOK, NEW e \in DOMAIN episode
  PROVE  /\ episode[e] \in EpisodeRow /\ history[e] \in Seq(EpisodeEvent)
         /\ e \in 1..Len(episode) /\ e \in 1..Len(history) /\ e \in EpisodeIds
         /\ DOMAIN history = DOMAIN episode
  <1>1. /\ episode \in Seq(EpisodeRow) /\ history \in Seq(Seq(EpisodeEvent))
        /\ Len(history) = Len(episode) /\ Len(episode) <= MaxEpisodes
    BY DEF EpisodeTypeOK
  <1>2. DOMAIN episode = 1..Len(episode) /\ DOMAIN history = 1..Len(history)
        /\ Len(episode) \in Nat
    BY <1>1, LenProperties
  <1>3. episode[e] \in EpisodeRow /\ history[e] \in Seq(EpisodeEvent)
    BY <1>1, <1>2, ElementOfSeq
  <1> QED BY <1>1, <1>2, <1>3, EpisodeBounds DEF EpisodeIds

-----------------------------------------------------------------------------
(* Steps that write no row.                                                  *)

LEMMA QuietGrown == ASSUME UNCHANGED <<episode, history>> PROVE Grown
  BY DEF Grown

LEMMA QuietInv ==
  ASSUME EpisodeInv, UNCHANGED <<episode, history>>, NEW k \in Extracts,
         extract' \in [Extracts -> ExtractCall \cup {NoExtract}],
         \A j \in Extracts : j # k => extract'[j] = extract[j],
         CallFits(k)', ExtractIsWhole', extracted' \subseteq ExtractIds
  PROVE  EpisodeInv'
  <1>1. EpisodeTypeOK'
    BY DEF EpisodeInv, EpisodeTypeOK
  <1>2. OneActiveEpisode' /\ HistoryTells'
    BY DEF EpisodeInv, OneActiveEpisode, HistoryTells
  <1>3. \A j \in Extracts : CallFits(j)'
    BY QuietGrown, CallStillFits
  <1> QED BY <1>1, <1>2, <1>3 DEF EpisodeInv

LEMMA QuietSteps ==
  ASSUME EpisodeInv, NEW k \in Extracts,
         \/ \E q \in ExtractIds : \/ BeginExtract(k, q)
                                  \/ \E e \in EpisodeIds : ReplayEpisode(k, e, q)
         \/ FindEpisode(k) \/ ConflictingInsert(k) \/ AnswerExtract(k)
         \/ AbandonExtract(k) \/ InspectEpisode(k)
  PROVE  EpisodeInv'
  <1> DEFINE c == extract[k]
  <1>1. /\ EpisodeTypeOK /\ CallFits(k) /\ UNCHANGED <<episode, history>>
        /\ extract \in [Extracts -> ExtractCall \cup {NoExtract}]
    BY DEF EpisodeInv, EpisodeTypeOK, BeginExtract, ReplayEpisode, FindEpisode,
       ConflictingInsert, AnswerExtract, AbandonExtract, InspectEpisode, FailExtract
  <1>2. Grown
    BY <1>1, QuietGrown
  <1>3. ASSUME NEW d \in ExtractCall \cup {NoExtract}, extract' = [extract EXCEPT ![k] = d]
        PROVE  /\ extract' \in [Extracts -> ExtractCall \cup {NoExtract}] /\ extract'[k] = d
               /\ \A j \in Extracts : j # k => extract'[j] = extract[j]
    BY <1>1, <1>3
  <1>4. CASE \E q \in ExtractIds : BeginExtract(k, q)
    <2>1. PICK q \in ExtractIds : BeginExtract(k, q)
      BY <1>4
    <2> DEFINE d == [pc |-> "find", request |-> q, at |-> 1, row |-> NoEpisode]
    <2>2. d \in ExtractCall /\ extract' = [extract EXCEPT ![k] = d] /\ extracted' = extracted
      BY <2>1 DEF BeginExtract, ExtractCall
    <2>3. CallFits(k)'
      <3>1. \A i \in DOMAIN Accepted[q] : ~(i < 1)
        <4>1. Accepted[q] \in Seq(EpisodeKeys)
          BY AcceptedAssumption
        <4> QED BY <4>1, LenProperties
      <3>2. extract'[k] = d
        BY <1>3, <2>2
      <3>3. d.pc = "find" /\ d.at = 1 /\ d.request = q
        OBVIOUS
      <3> HIDE DEF d
      <3> QED BY <3>1, <3>2, <3>3 DEF CallFits
    <2> QED BY <1>1, <1>2, <1>3, <2>2, <2>3, QuietInv, AnsweredStays
        DEF EpisodeInv, EpisodeTypeOK
  <1>5. CASE \E q \in ExtractIds, e \in EpisodeIds : ReplayEpisode(k, e, q)
    <2>1. PICK q \in ExtractIds, e \in EpisodeIds : ReplayEpisode(k, e, q)
      BY <1>5
    <2> DEFINE d == [pc |-> "start", request |-> q, at |-> 1, row |-> e]
    <2>2. /\ d \in ExtractCall /\ extract' = [extract EXCEPT ![k] = d]
          /\ extracted' = extracted /\ e \in DOMAIN episode
      BY <2>1 DEF ReplayEpisode, ExtractCall
    <2>3. CallFits(k)'
      BY <1>1, <1>3, <2>2 DEF CallFits
    <2> QED BY <1>1, <1>2, <1>3, <2>2, <2>3, QuietInv, AnsweredStays
        DEF EpisodeInv, EpisodeTypeOK
  <1>6. CASE FindEpisode(k)
    <2>1. /\ c # NoExtract /\ c.pc = "find" /\ c.at <= Len(Accepted[c.request])
          /\ extracted' = extracted
          /\ extract' = [extract EXCEPT ![k] =
               IF ActiveOf(KeyOf(c)) = {} THEN [c EXCEPT !.pc = "insert"]
               ELSE [c EXCEPT !.pc = "update",
                              !.row = CHOOSE e \in ActiveOf(KeyOf(c)) : TRUE]]
      BY <1>6 DEF FindEpisode
    <2>2. c \in ExtractCall
      BY <1>1, <2>1, CallType
    <2>3. PICK d \in ExtractCall : /\ extract' = [extract EXCEPT ![k] = d]
                                   /\ d.request = c.request /\ d.at = c.at
                                   /\ d.pc \in {"insert", "update"}
                                   /\ d.pc = "update" => d.row \in ActiveOf(KeyOf(c))
      <3>1. CASE ActiveOf(KeyOf(c)) = {}
        <4>1. [c EXCEPT !.pc = "insert"] \in ExtractCall
          BY <2>2 DEF ExtractCall
        <4> QED BY <2>1, <2>2, <3>1, <4>1 DEF ExtractCall
      <3>2. CASE ActiveOf(KeyOf(c)) # {}
        <4> DEFINE r == CHOOSE e \in ActiveOf(KeyOf(c)) : TRUE
                   d == [c EXCEPT !.pc = "update", !.row = r]
        <4>1. r \in ActiveOf(KeyOf(c))
          BY <3>2
        <4>2. r \in EpisodeIds
          BY <1>1, <4>1, RowType DEF ActiveOf
        <4> HIDE DEF r
        <4>3. d \in ExtractCall /\ d.request = c.request /\ d.at = c.at
              /\ d.pc = "update" /\ d.row = r
          BY <2>2, <4>2 DEF ExtractCall
        <4>4. extract' = [extract EXCEPT ![k] = d]
          BY <2>1, <3>2 DEF r
        <4> QED BY <4>1, <4>3, <4>4
      <3> QED BY <3>1, <3>2
    <2>4. extract'[k] = d
      BY <1>3, <2>3
    <2>5. \A i \in DOMAIN Accepted[c.request] : i < c.at =>
            Recorded(c.request, Accepted[c.request][i])'
      BY <1>1, <1>2, <2>1, RecordedStays DEF CallFits
    <2>6. CallFits(k)'
      BY <1>1, <2>1, <2>3, <2>4, <2>5 DEF CallFits, ActiveOf, KeyOf
    <2> QED BY <1>1, <1>2, <1>3, <2>1, <2>3, <2>6, QuietInv, AnsweredStays
        DEF EpisodeInv, EpisodeTypeOK
  <1>7. CASE ConflictingInsert(k) \/ AbandonExtract(k)
    <2>1. extract' = [extract EXCEPT ![k] = NoExtract] /\ extracted' = extracted
      BY <1>7 DEF ConflictingInsert, AbandonExtract, FailExtract
    <2>2. CallFits(k)'
      BY <1>3, <2>1 DEF CallFits
    <2> QED BY <1>1, <1>2, <1>3, <2>1, <2>2, QuietInv, AnsweredStays
        DEF EpisodeInv, EpisodeTypeOK
  <1>8. CASE AnswerExtract(k)
    <2>1. /\ c # NoExtract /\ c.pc = "find" /\ c.at > Len(Accepted[c.request])
          /\ extracted' = extracted \cup {c.request}
          /\ extract' = [extract EXCEPT ![k] = NoExtract]
      BY <1>8 DEF AnswerExtract
    <2>2. CallFits(k)'
      BY <1>3, <2>1 DEF CallFits
    <2>3. \A i \in DOMAIN Accepted[c.request] : Recorded(c.request, Accepted[c.request][i])
      BY <1>1, <2>1, CallType DEF CallFits
    <2>4. ExtractIsWhole'
      <3>1. \A q \in extracted : \A i \in DOMAIN Accepted[q] : Recorded(q, Accepted[q][i])
        BY DEF EpisodeInv, ExtractIsWhole
      <3> QED BY <1>2, <2>1, <2>3, <3>1, RecordedStays DEF ExtractIsWhole
    <2>5. extracted' \subseteq ExtractIds
      BY <1>1, <2>1, CallType DEF EpisodeTypeOK
    <2> QED BY <1>1, <1>3, <2>1, <2>2, <2>4, <2>5, QuietInv
  <1>9. CASE InspectEpisode(k)
    <2>1. /\ c # NoExtract /\ c.pc = "inspect" /\ extracted' = extracted
          /\ extract' = [extract EXCEPT ![k].pc =
                           IF episode[c.row].status = "active" THEN "close" ELSE "note"]
      BY <1>9 DEF InspectEpisode
    <2>2. c \in ExtractCall /\ c.row \in DOMAIN episode
      BY <1>1, <2>1, CallType DEF CallFits
    <2>3. episode[c.row].status \in {"active", "invalidated"}
      BY <1>1, <2>2, RowType DEF EpisodeRow
    <2>4. PICK pc \in {"close", "note"} : /\ extract' = [extract EXCEPT ![k] = [c EXCEPT !.pc = pc]]
                                          /\ pc = "note" => episode[c.row].status = "invalidated"
      BY <1>1, <2>1, <2>3
    <2>5. [c EXCEPT !.pc = pc] \in ExtractCall /\ [c EXCEPT !.pc = pc].row = c.row
          /\ [c EXCEPT !.pc = pc].pc = pc
      BY <2>2 DEF ExtractCall
    <2>6. CallFits(k)'
      BY <1>1, <1>3, <2>2, <2>4, <2>5 DEF CallFits
    <2> QED BY <1>1, <1>2, <1>3, <2>1, <2>4, <2>5, <2>6, QuietInv, AnsweredStays
        DEF EpisodeInv, EpisodeTypeOK
  <1> QED BY <1>4, <1>5, <1>6, <1>7, <1>8, <1>9

-----------------------------------------------------------------------------
(* Steps that write a row or its history.                                    *)

Columns == /\ episode \in Seq(EpisodeRow) /\ Len(episode) <= MaxEpisodes
           /\ history \in Seq(Seq(EpisodeEvent)) /\ Len(history) = Len(episode)

Truthful == Columns /\ OneActiveEpisode /\ HistoryTells

(* A row that is written over, with one event more.                          *)
LEMMA RowWritten ==
  ASSUME EpisodeInv, NEW e \in DOMAIN episode, NEW row \in EpisodeRow, NEW ev \in EpisodeEvent,
         episode' = [episode EXCEPT ![e] = row],
         history' = [history EXCEPT ![e] = Append(@, ev)],
         row.key = episode[e].key,
         episode[e].status = "invalidated" => row.status = "invalidated",
         LockedEpisode(e) => row.status = episode[e].status,
         RowTells(row, Append(history[e], ev))
  PROVE  Grown /\ Truthful' /\ NotedOf(e, ev.type, ev.request)'
  <1> DEFINE g == Append(history[e], ev)
  <1>1. /\ EpisodeTypeOK /\ episode \in Seq(EpisodeRow) /\ Len(episode) <= MaxEpisodes
        /\ history \in Seq(Seq(EpisodeEvent)) /\ Len(history) = Len(episode)
    BY DEF EpisodeInv, EpisodeTypeOK
  <1>2. /\ episode[e] \in EpisodeRow /\ history[e] \in Seq(EpisodeEvent)
        /\ e \in 1..Len(episode) /\ e \in 1..Len(history)
        /\ DOMAIN history = DOMAIN episode
    BY <1>1, RowType
  <1>3. /\ g \in Seq(EpisodeEvent)
        /\ \A i \in DOMAIN history[e] : i \in DOMAIN g /\ g[i] = history[e][i]
        /\ Len(history[e]) + 1 \in DOMAIN g /\ g[Len(history[e]) + 1] = ev
    BY <1>2, OneMoreEvent
  <1> HIDE DEF g
  <1>4. /\ history' = [history EXCEPT ![e] = g] /\ RowTells(row, g)
        /\ DOMAIN episode' = DOMAIN episode /\ DOMAIN history' = DOMAIN history
        /\ episode'[e] = row /\ history'[e] = g
        /\ \A d \in DOMAIN episode : d # e => episode'[d] = episode[d] /\ history'[d] = history[d]
    BY <1>2 DEF g
  <1>5. Columns'
    <2>1. episode' \in Seq(EpisodeRow) /\ Len(episode') = Len(episode)
      BY <1>1, <1>2, ExceptSeq
    <2>2. history' \in Seq(Seq(EpisodeEvent)) /\ Len(history') = Len(history)
      BY <1>1, <1>2, <1>3, <1>4, ExceptSeq
    <2> QED BY <1>1, <2>1, <2>2 DEF Columns
  <1>6. Grown
    BY <1>3, <1>4 DEF Grown
  <1>7. row.status = "active" => episode[e].status = "active"
    BY <1>2 DEF EpisodeRow
  <1>8. OneActiveEpisode'
    BY <1>4, <1>7 DEF EpisodeInv, OneActiveEpisode
  <1>9. HistoryTells'
    BY <1>4 DEF EpisodeInv, HistoryTells
  <1>10. NotedOf(e, ev.type, ev.request)'
    BY <1>3, <1>4 DEF NotedOf
  <1> QED BY <1>5, <1>6, <1>8, <1>9, <1>10 DEF Truthful

LEMMA QuietTruth ==
  ASSUME EpisodeInv, UNCHANGED <<episode, history>>
  PROVE  Grown /\ Truthful'
  BY QuietGrown DEF EpisodeInv, EpisodeTypeOK, Truthful, Columns, OneActiveEpisode, HistoryTells

(* What the calls have left to show once the rows are in order.              *)
LEMMA WriteInv ==
  ASSUME EpisodeInv, Grown, Truthful', extracted' = extracted,
         extract' \in [Extracts -> ExtractCall \cup {NoExtract}],
         \A j \in Extracts : extract'[j] = extract[j] \/ CallFits(j)'
  PROVE  EpisodeInv'
  <1>1. EpisodeTypeOK' /\ OneActiveEpisode' /\ HistoryTells'
    BY DEF EpisodeInv, EpisodeTypeOK, Truthful, Columns
  <1>2. ExtractIsWhole'
    BY AnsweredStays
  <1>3. \A j \in Extracts : CallFits(j)'
    BY CallStillFits
  <1> QED BY <1>1, <1>2, <1>3 DEF EpisodeInv

LEMMA OwnerWrites ==
  ASSUME EpisodeInv, Grown, Truthful', extract' = extract, extracted' = extracted
  PROVE  EpisodeInv'
  <1>1. extract' \in [Extracts -> ExtractCall \cup {NoExtract}]
    BY DEF EpisodeInv, EpisodeTypeOK
  <1> QED BY <1>1, WriteInv

LEMMA CallWrites ==
  ASSUME EpisodeInv, Grown, Truthful', extracted' = extracted, NEW k \in Extracts,
         NEW d \in ExtractCall \cup {NoExtract}, extract' = [extract EXCEPT ![k] = d],
         extract'[k] = d => CallFits(k)'
  PROVE  EpisodeInv'
  <1>1. extract \in [Extracts -> ExtractCall \cup {NoExtract}]
    BY DEF EpisodeInv, EpisodeTypeOK
  <1>2. /\ extract' \in [Extracts -> ExtractCall \cup {NoExtract}]
        /\ \A j \in Extracts : extract'[j] = extract[j] \/ CallFits(j)'
    BY <1>1
  <1> QED BY <1>2, WriteInv

(* A call that has dealt with one piece of evidence goes on to the next.     *)
LEMMA CallAdvances ==
  ASSUME EpisodeInv, Grown, Truthful', extracted' = extracted, NEW k \in Extracts,
         NEW c, c = extract[k], c # NoExtract, c.pc \in {"update", "insert"},
         extract' = [extract EXCEPT ![k] = Advanced(c)],
         Recorded(c.request, KeyOf(c))'
  PROVE  EpisodeInv'
  <1> DEFINE d == Advanced(c)
  <1>1. EpisodeTypeOK /\ CallFits(k)
    BY DEF EpisodeInv
  <1>2. c \in ExtractCall /\ c.at \in Nat \ {0} /\ c.request \in ExtractIds
        /\ Len(Accepted[c.request]) \in Nat
        /\ DOMAIN Accepted[c.request] = 1..Len(Accepted[c.request])
    BY <1>1, CallType
  <1>3. d \in ExtractCall /\ d.pc = "find" /\ d.at = c.at + 1 /\ d.request = c.request
    <2>1. c.at + 1 \in Nat \ {0}
      BY <1>2
    <2> QED BY <1>2, <2>1 DEF Advanced, ExtractCall
  <1>4. extract' = [extract EXCEPT ![k] = d]
    OBVIOUS
  <1> HIDE DEF d
  <1>5. ASSUME NEW i \in DOMAIN Accepted[c.request], i < c.at + 1
        PROVE  Recorded(c.request, Accepted[c.request][i])'
    <2>1. CASE i = c.at
      BY <2>1 DEF KeyOf
    <2>2. CASE i # c.at
      <3>1. i < c.at
        BY <1>2, <1>5, <2>2
      <3>2. Recorded(c.request, Accepted[c.request][i])
        BY <1>1, <3>1 DEF CallFits
      <3> QED BY <3>2, RecordedStays
    <2> QED BY <2>1, <2>2
  <1>6. extract'[k] = d => CallFits(k)'
    BY <1>3, <1>5 DEF CallFits
  <1> QED BY <1>3, <1>4, <1>6, CallWrites

(* UpdateEpisode: the row it has locked is the active one of the key.        *)
LEMMA UpdateStep ==
  ASSUME EpisodeInv, NEW k \in Extracts, UpdateEpisode(k)
  PROVE  EpisodeInv'
  <1>1. PICK c : c = extract[k]
    OBVIOUS
  <1>2. PICK e : e = c.row
    OBVIOUS
  <1>3. /\ c # NoExtract /\ c.pc = "update" /\ extracted' = extracted
        /\ extract' = [extract EXCEPT ![k] = Advanced(c)]
        /\ EpisodeTypeOK /\ CallFits(k) /\ HistoryTells
    BY <1>1 DEF UpdateEpisode, EpisodeInv
  <1>4. /\ c.request \in ExtractIds /\ e \in DOMAIN episode
        /\ episode[e].status = "active" /\ episode[e].key = KeyOf(c)
    BY <1>1, <1>2, <1>3, CallType DEF CallFits
  <1>5. /\ episode[e] \in EpisodeRow /\ history[e] \in Seq(EpisodeEvent)
        /\ RowTells(episode[e], history[e])
    BY <1>3, <1>4, RowType DEF HistoryTells
  <1>6. CASE episode[e].content = c.request
    <2>1. UNCHANGED <<episode, history>>
      BY <1>1, <1>2, <1>6 DEF UpdateEpisode
    <2>2. NotedOf(e, "created", c.request) \/ NotedOf(e, "updated", c.request)
      BY <1>5, <1>6 DEF RowTells, Writes, NotedOf
    <2>3. Recorded(c.request, KeyOf(c))
      BY <1>4, <2>2 DEF Recorded
    <2>4. Recorded(c.request, KeyOf(c))'
      BY <2>1, <2>3, QuietGrown, RecordedStays
    <2> QED BY <1>1, <1>3, <2>1, <2>4, QuietTruth, CallAdvances
  <1>7. CASE episode[e].content # c.request
    <2> DEFINE row == [episode[e] EXCEPT !.content = c.request]
               ev == EpisodeEventOf("updated", c.request, {})
    <2>1. episode' = [episode EXCEPT ![e] = row] /\ history' = [history EXCEPT ![e] = Append(@, ev)]
      BY <1>1, <1>2, <1>7 DEF UpdateEpisode, Note
    <2>2. /\ row \in EpisodeRow /\ row.key = episode[e].key /\ row.status = episode[e].status
          /\ ev \in EpisodeEvent /\ ev.type = "updated" /\ ev.request = c.request
      BY <1>4, <1>5 DEF EpisodeRow, EpisodeEvent, EpisodeEventOf
    <2>3. RowTells(row, Append(history[e], ev))
      BY <1>4, <1>5, UpdatedTells
    <2>4. PICK newRow, newEvent : newRow = row /\ newEvent = ev
      OBVIOUS
    <2> HIDE DEF row, ev
    <2>5. Grown /\ Truthful' /\ NotedOf(e, newEvent.type, newEvent.request)'
      BY <1>4, <2>1, <2>2, <2>3, <2>4, RowWritten
    <2>6. newEvent.type = "updated" /\ newEvent.request = c.request
      BY <2>2, <2>4
    <2>7. Recorded(c.request, KeyOf(c))'
      BY <1>4, <2>5, <2>6 DEF Recorded, Grown
    <2> QED BY <1>1, <1>3, <2>5, <2>7, CallAdvances
  <1> QED BY <1>6, <1>7

(* InsertEpisode: nobody has the key, and the new row is the only one of it. *)
LEMMA InsertStep ==
  ASSUME EpisodeInv, NEW k \in Extracts, InsertEpisode(k)
  PROVE  EpisodeInv'
  <1>1. PICK c : c = extract[k]
    OBVIOUS
  <1> DEFINE row == [key |-> KeyOf(c), content |-> c.request, status |-> "active", links |-> {}]
             h == <<EpisodeEventOf("created", c.request, {})>>
             n == Len(episode) + 1
  <1>2. /\ c # NoExtract /\ c.pc = "insert" /\ ActiveOf(KeyOf(c)) = {}
        /\ Len(episode) < MaxEpisodes /\ extracted' = extracted
        /\ extract' = [extract EXCEPT ![k] = Advanced(c)]
        /\ episode' = Append(episode, row) /\ history' = Append(history, h)
    BY <1>1 DEF InsertEpisode, Conflicting
  <1>3. /\ EpisodeTypeOK /\ CallFits(k) /\ OneActiveEpisode /\ HistoryTells
        /\ episode \in Seq(EpisodeRow) /\ history \in Seq(Seq(EpisodeEvent))
        /\ Len(history) = Len(episode) /\ Len(episode) \in Nat
        /\ DOMAIN episode = 1..Len(episode) /\ DOMAIN history = 1..Len(history)
    BY LenProperties DEF EpisodeInv, EpisodeTypeOK
  <1>4. KeyOf(c) \in EpisodeKeys /\ c.request \in ExtractIds
    <2>1. /\ c.request \in ExtractIds /\ c.at \in Nat \ {0} /\ c.at <= Len(Accepted[c.request])
          /\ Accepted[c.request] \in Seq(EpisodeKeys)
          /\ DOMAIN Accepted[c.request] = 1..Len(Accepted[c.request])
          /\ Len(Accepted[c.request]) \in Nat
      BY <1>1, <1>2, <1>3, CallType DEF CallFits
    <2>2. c.at \in DOMAIN Accepted[c.request]
      BY <2>1
    <2> QED BY <2>1, <2>2, ElementOfSeq DEF KeyOf
  <1>5. row \in EpisodeRow /\ h \in Seq(EpisodeEvent) /\ RowTells(row, h)
    BY <1>4, CreatedTells
  <1>6. row.key = KeyOf(c)
    OBVIOUS
  <1>7. 1 \in DOMAIN h /\ h[1].type = "created" /\ h[1].request = c.request
    BY DEF EpisodeEventOf
  <1> HIDE DEF row, h
  <1>8. /\ episode' \in Seq(EpisodeRow) /\ Len(episode') = n /\ episode'[n] = row
        /\ \A e \in 1..Len(episode) : episode'[e] = episode[e]
    BY <1>2, <1>3, <1>5, AppendProperties
  <1>9. /\ history' \in Seq(Seq(EpisodeEvent)) /\ Len(history') = n /\ history'[n] = h
        /\ \A e \in 1..Len(episode) : history'[e] = history[e]
    BY <1>2, <1>3, <1>5, AppendProperties
  <1>10. DOMAIN episode' = DOMAIN episode \cup {n} /\ n \notin DOMAIN episode
    <2>1. DOMAIN episode' = 1..n
      BY <1>8, LenProperties
    <2> QED BY <1>3, <2>1
  <1>11. Grown
    BY <1>3, <1>8, <1>9, <1>10 DEF Grown
  <1>12. Columns'
    BY <1>2, <1>3, <1>8, <1>9, EpisodeBounds DEF Columns
  <1>13. OneActiveEpisode'
    BY <1>2, <1>3, <1>6, <1>8, <1>10 DEF OneActiveEpisode, ActiveOf
  <1>14. HistoryTells'
    BY <1>3, <1>5, <1>8, <1>9, <1>10 DEF HistoryTells
  <1>15. Recorded(c.request, KeyOf(c))'
    <2>1. PICK m : m = n
      OBVIOUS
    <2>2. PICK g : g = h
      OBVIOUS
    <2>3. 1 \in DOMAIN g /\ g[1].type = "created" /\ g[1].request = c.request /\ history'[m] = g
      BY <1>7, <1>9, <2>1, <2>2
    <2>4. NotedOf(m, "created", c.request)'
      BY <2>3 DEF NotedOf
    <2>5. m \in DOMAIN episode' /\ episode'[m].key = KeyOf(c)
      BY <1>6, <1>8, <1>10, <2>1
    <2> QED BY <2>4, <2>5 DEF Recorded
  <1> QED BY <1>1, <1>2, <1>11, <1>12, <1>13, <1>14, <1>15, CallAdvances DEF Truthful

(* An event that is no writing of evidence, and what it makes of the row.    *)
LEMMA EventNoted ==
  ASSUME EpisodeInv, NEW e \in DOMAIN episode, NEW q \in ExtractIds, NEW links \in SUBSET Refs,
         NEW type \in {"linked", "invalidated", "rebuilding", "terminal"},
         NEW row \in EpisodeRow, row.key = episode[e].key, row.content = episode[e].content,
         row.links = episode[e].links \cup links, links \cap episode[e].links = {},
         IF type \in {"invalidated", "terminal"} THEN row.status = "invalidated"
         ELSE row.status = episode[e].status,
         LockedEpisode(e) => row.status = episode[e].status,
         episode' = [episode EXCEPT ![e] = row], Note(e, type, q, links)
  PROVE  Grown /\ Truthful'
  <1> DEFINE ev == EpisodeEventOf(type, q, links)
  <1>1. EpisodeTypeOK /\ HistoryTells
    BY DEF EpisodeInv
  <1>2. /\ episode[e] \in EpisodeRow /\ history[e] \in Seq(EpisodeEvent)
        /\ RowTells(episode[e], history[e])
    BY <1>1, RowType DEF HistoryTells
  <1>3. ev \in EpisodeEvent /\ history' = [history EXCEPT ![e] = Append(@, ev)]
    BY DEF EpisodeEvent, EpisodeEventOf, Note
  <1>4. RowTells(row, Append(history[e], ev))
    BY <1>2, OtherTells
  <1> HIDE DEF ev
  <1>5. episode[e].status = "invalidated" => row.status = "invalidated"
    OBVIOUS
  <1> QED BY <1>3, <1>4, <1>5, RowWritten

(* The same row, but for its status or its links.                            *)
LEMMA SameRow ==
  ASSUME EpisodeTypeOK, NEW e \in DOMAIN episode
  PROVE  /\ episode = [episode EXCEPT ![e] = episode[e]]
         /\ episode[e] \in EpisodeRow /\ episode[e].links \in SUBSET Refs
         /\ episode[e].status \in {"active", "invalidated"}
  <1>1. episode[e] \in EpisodeRow /\ episode \in Seq(EpisodeRow)
    BY RowType DEF EpisodeTypeOK
  <1>2. episode = [i \in DOMAIN episode |-> episode[i]]
    BY <1>1
  <1> QED BY <1>1, <1>2 DEF EpisodeRow

LEMMA OwnerSteps ==
  ASSUME EpisodeInv, NEW e \in EpisodeIds, NEW q \in ExtractIds,
         InvalidateEpisode(e, q) \/ \E links \in SUBSET Refs : LinkEpisode(e, q, links)
  PROVE  EpisodeInv'
  <1>1. EpisodeTypeOK /\ e \in DOMAIN episode /\ ~LockedEpisode(e)
        /\ extract' = extract /\ extracted' = extracted
    BY DEF EpisodeInv, InvalidateEpisode, LinkEpisode
  <1>2. /\ episode[e] \in EpisodeRow /\ episode[e].links \in SUBSET Refs
    BY <1>1, SameRow
  <1>3. CASE InvalidateEpisode(e, q)
    <2> DEFINE row == [episode[e] EXCEPT !.status = "invalidated"]
    <2>1. /\ row \in EpisodeRow /\ row.status = "invalidated" /\ row.key = episode[e].key
          /\ row.content = episode[e].content /\ row.links = episode[e].links \cup {}
      BY <1>2 DEF EpisodeRow
    <2>2. episode' = [episode EXCEPT ![e] = row] /\ Note(e, "invalidated", q, {})
      BY <1>3 DEF InvalidateEpisode
    <2> HIDE DEF row
    <2>3. Grown /\ Truthful'
      BY <1>1, <1>2, <2>1, <2>2, EventNoted
    <2> QED BY <1>1, <2>3, OwnerWrites
  <1>4. CASE \E links \in SUBSET Refs : LinkEpisode(e, q, links)
    <2>1. PICK links \in SUBSET Refs : LinkEpisode(e, q, links)
      BY <1>4
    <2> DEFINE row == [episode[e] EXCEPT !.links = @ \cup links]
               new == links \ episode[e].links
    <2>2. /\ row \in EpisodeRow /\ row.status = episode[e].status /\ row.key = episode[e].key
          /\ row.content = episode[e].content /\ row.links = episode[e].links \cup new
          /\ new \in SUBSET Refs /\ new \cap episode[e].links = {}
      BY <1>2 DEF EpisodeRow
    <2>3. episode' = [episode EXCEPT ![e] = row] /\ Note(e, "linked", q, new)
      BY <2>1 DEF LinkEpisode, NewRefs
    <2> HIDE DEF row, new
    <2>4. Grown /\ Truthful'
      BY <1>1, <2>2, <2>3, EventNoted
    <2> QED BY <1>1, <2>4, OwnerWrites
  <1> QED BY <1>3, <1>4

LEMMA ReplaySteps ==
  ASSUME EpisodeInv, NEW k \in Extracts,
         StartEpisodeReplay(k) \/ CloseEpisode(k) \/ NoteTerminal(k)
  PROVE  EpisodeInv'
  <1>1. PICK c : c = extract[k]
    OBVIOUS
  <1>2. PICK e : e = c.row
    OBVIOUS
  <1>3. /\ c # NoExtract /\ c.pc \in {"start", "close", "note"} /\ ~LockedEpisode(e)
        /\ extracted' = extracted /\ EpisodeTypeOK /\ CallFits(k)
        /\ extract \in [Extracts -> ExtractCall \cup {NoExtract}]
    BY <1>1, <1>2 DEF StartEpisodeReplay, CloseEpisode, NoteTerminal, EpisodeInv, EpisodeTypeOK
  <1>4. /\ c \in ExtractCall /\ c.request \in ExtractIds /\ e \in DOMAIN episode
        /\ c.pc = "note" => episode[e].status = "invalidated"
    BY <1>1, <1>2, <1>3, CallType DEF CallFits
  <1>5. /\ episode = [episode EXCEPT ![e] = episode[e]]
        /\ episode[e] \in EpisodeRow /\ episode[e].links \in SUBSET Refs
        /\ episode[e].status \in {"active", "invalidated"}
        /\ episode[e].links = episode[e].links \cup {}
    BY <1>3, <1>4, SameRow
  <1>6. CASE StartEpisodeReplay(k)
    <2> DEFINE d == [c EXCEPT !.pc = "inspect"]
    <2>1. /\ extract' = [extract EXCEPT ![k] = d] /\ episode' = episode
          /\ history' = history \/ Note(e, "rebuilding", c.request, {})
      BY <1>1, <1>2, <1>3, <1>6 DEF StartEpisodeReplay
    <2>2. d \in ExtractCall /\ d.pc = "inspect" /\ d.row = e
      BY <1>2, <1>4 DEF ExtractCall
    <2> HIDE DEF d
    <2>3. Grown /\ Truthful'
      <3>1. CASE Note(e, "rebuilding", c.request, {})
        BY <1>3, <1>4, <1>5, <2>1, <3>1, EventNoted
      <3> QED BY <2>1, <3>1, QuietTruth
    <2>4. extract'[k] = d => CallFits(k)'
      BY <1>4, <2>2, <2>3 DEF CallFits, Grown
    <2> QED BY <1>3, <2>1, <2>2, <2>3, <2>4, CallWrites
  <1>7. CASE CloseEpisode(k) \/ NoteTerminal(k)
    <2>1. extract' = [extract EXCEPT ![k] = NoExtract]
      BY <1>7 DEF CloseEpisode, NoteTerminal
    <2>2. Grown /\ Truthful'
      <3>1. CASE UNCHANGED <<episode, history>>
        BY <3>1, QuietTruth
      <3>2. CASE NoteTerminal(k) /\ Note(e, "terminal", c.request, {})
        <4>1. episode[e].status = "invalidated" /\ episode' = episode
          BY <1>1, <1>4, <3>2 DEF NoteTerminal
        <4> QED BY <1>3, <1>4, <1>5, <3>2, <4>1, EventNoted
      <3>3. CASE /\ episode' = [episode EXCEPT ![e].status = "invalidated"]
                 /\ Note(e, "terminal", c.request, {})
        <4> DEFINE row == [episode[e] EXCEPT !.status = "invalidated"]
        <4>1. /\ row \in EpisodeRow /\ row.status = "invalidated" /\ row.key = episode[e].key
              /\ row.content = episode[e].content /\ row.links = episode[e].links \cup {}
          BY <1>5 DEF EpisodeRow
        <4>2. episode' = [episode EXCEPT ![e] = row]
          BY <3>3
        <4> HIDE DEF row
        <4> QED BY <1>3, <1>4, <1>5, <3>3, <4>1, <4>2, EventNoted
      <3> QED BY <1>1, <1>2, <1>7, <3>1, <3>2, <3>3 DEF CloseEpisode, NoteTerminal
    <2>3. extract'[k] = NoExtract => CallFits(k)'
      BY DEF CallFits
    <2> QED BY <1>3, <2>1, <2>2, <2>3, CallWrites
  <1> QED BY <1>6, <1>7

-----------------------------------------------------------------------------
(* The invariant. *)

LEMMA EpisodesInit == EpisodeInit => EpisodeInv
  <1> SUFFICES ASSUME EpisodeInit PROVE EpisodeInv
    OBVIOUS
  <1>1. /\ episode = <<>> /\ history = <<>> /\ extracted = {}
        /\ extract = [k \in Extracts |-> NoExtract]
    BY DEF EpisodeInit
  <1>2. DOMAIN episode = {} /\ Len(episode) = 0 /\ Len(history) = 0
    BY <1>1
  <1>3. EpisodeTypeOK
    BY <1>1, <1>2, EpisodeBounds, EmptySeq DEF EpisodeTypeOK
  <1>4. OneActiveEpisode /\ HistoryTells /\ ExtractIsWhole
    BY <1>1, <1>2 DEF OneActiveEpisode, HistoryTells, ExtractIsWhole
  <1>5. \A k \in Extracts : CallFits(k)
    BY <1>1 DEF CallFits
  <1> QED BY <1>3, <1>4, <1>5 DEF EpisodeInv

LEMMA EpisodesNext == EpisodeInv /\ [EpisodeNext]_episodeVars => EpisodeInv'
  <1> SUFFICES ASSUME EpisodeInv, [EpisodeNext]_episodeVars PROVE EpisodeInv'
    OBVIOUS
  <1>1. CASE UNCHANGED episodeVars
    <2>1. extract' = extract /\ extracted' = extracted /\ UNCHANGED <<episode, history>>
      BY <1>1 DEF episodeVars
    <2> QED BY <2>1, QuietTruth, OwnerWrites
  <1>2. ASSUME NEW k \in Extracts,
               \/ \E q \in ExtractIds : \/ BeginExtract(k, q)
                                        \/ \E e \in EpisodeIds : ReplayEpisode(k, e, q)
               \/ FindEpisode(k) \/ ConflictingInsert(k) \/ AnswerExtract(k)
               \/ AbandonExtract(k) \/ InspectEpisode(k)
        PROVE  EpisodeInv'
    BY <1>2, QuietSteps
  <1>3. ASSUME NEW k \in Extracts, UpdateEpisode(k) PROVE EpisodeInv'
    BY <1>3, UpdateStep
  <1>4. ASSUME NEW k \in Extracts, InsertEpisode(k) PROVE EpisodeInv'
    BY <1>4, InsertStep
  <1>5. ASSUME NEW k \in Extracts,
               StartEpisodeReplay(k) \/ CloseEpisode(k) \/ NoteTerminal(k)
        PROVE  EpisodeInv'
    BY <1>5, ReplaySteps
  <1>6. ASSUME NEW e \in EpisodeIds, NEW q \in ExtractIds,
               InvalidateEpisode(e, q) \/ \E links \in SUBSET Refs : LinkEpisode(e, q, links)
        PROVE  EpisodeInv'
    BY <1>6, OwnerSteps
  <1> QED BY <1>1, <1>2, <1>3, <1>4, <1>5, <1>6 DEF EpisodeNext

\* However extractions, replays, invalidations and links overlap, fail or are
\* repeated, the rows, their histories and what each call in flight relies on
\* stay as EpisodeInv says.
THEOREM EpisodeInvariant == EpisodeSpec => []EpisodeInv
  BY EpisodesInit, EpisodesNext, PTL DEF EpisodeSpec

\* No two active episodes tell of the same evidence: the look-up, the row lock
\* and the unique index together leave no way to a second one.
THEOREM EpisodesAreUnique == EpisodeSpec => []OneActiveEpisode
  <1>1. EpisodeInv => OneActiveEpisode
    BY DEF EpisodeInv
  <1> QED BY <1>1, EpisodeInvariant, PTL

\* An extraction that was answered has recorded every piece it accepted.
THEOREM ExtractionsAreWhole == EpisodeSpec => []ExtractIsWhole
  <1>1. EpisodeInv => ExtractIsWhole
    BY DEF EpisodeInv
  <1> QED BY <1>1, EpisodeInvariant, PTL

\* A row is at any time what the events of its history add up to.
THEOREM HistoriesTell == EpisodeSpec => []HistoryTells
  <1>1. EpisodeInv => HistoryTells
    BY DEF EpisodeInv
  <1> QED BY <1>1, EpisodeInvariant, PTL

-----------------------------------------------------------------------------
(* ClaimHistory.                                                             *)

(* What the rows are. *)
LEMMA AnswerFacts ==
  ASSUME ClaimTypeOK
  PROVE  /\ Len(answer) \in Nat /\ DOMAIN answer = 1 .. Len(answer)
         /\ DOMAIN answer \subseteq Answers /\ Null \notin DOMAIN answer
         /\ \A m \in DOMAIN answer : answer[m] \in Answer
  <1>1. /\ Len(answer) \in Nat /\ DOMAIN answer = 1 .. Len(answer)
        /\ \A m \in DOMAIN answer : answer[m] \in Answer
    BY LenProperties, ElementOfSeq DEF ClaimTypeOK
  <1> QED BY <1>1, NullAssumption, BodiesAssumption DEF ClaimTypeOK, Answers

(* Answers that readers see go on being seen: appended to or published, and  *)
(* deleted only while they are provisional.                                  *)
LEMMA AppendAnswerKeeps ==
  ASSUME ClaimInv, NEW s \in Scopes, NEW q \in TraceNames \cup {Null},
         NEW line \in Lineage \cup {Null}, NEW state \in {"canonical", "provisional"},
         AppendAnswer(s, q, line, state)
  PROVE  ClaimInv'
  <1>1. PICK a : a = [scope |-> s, request |-> q, lineage |-> line, state |-> state]
    OBVIOUS
  <1>2. /\ a \in Answer /\ a.lineage = line /\ a.scope = s
    BY <1>1 DEF Answer
  <1>3. /\ answer' = Append(answer, a) /\ Len(answer) < MaxAnswers
        /\ line # Null => LineageAccepted(s, line)
        /\ UNCHANGED <<trace, record, recording>>
    BY <1>1 DEF AppendAnswer
  <1>4. ClaimTypeOK
    BY DEF ClaimInv
  <1>5. /\ answer' \in Seq(Answer) /\ Len(answer') = Len(answer) + 1
        /\ DOMAIN answer' = 1 .. Len(answer) + 1
        /\ \A m \in DOMAIN answer : m \in DOMAIN answer' /\ answer'[m] = answer[m]
        /\ answer'[Len(answer) + 1] = a
    BY <1>2, <1>3, <1>4, AppendProperties, LenProperties, AnswerFacts DEF ClaimTypeOK
  <1>6. \A m \in DOMAIN answer' : m \in DOMAIN answer \/ (m = Len(answer) + 1 /\ answer'[m] = a)
    BY <1>4, <1>5, AnswerFacts
  <1>8. ClaimTypeOK'
    BY <1>3, <1>4, <1>5, AnswerFacts, BodiesAssumption DEF ClaimTypeOK
  <1>9. LineagesEnd'
    <2>1. ASSUME NEW m \in DOMAIN answer', answer'[m].lineage # Null,
                 NEW r, r = answer'[m].lineage.root
          PROVE  /\ r < m /\ r \in DOMAIN answer' /\ answer'[r].scope = answer'[m].scope
                 /\ answer'[r].state = "canonical"
                 /\ answer'[r].lineage = Null /\ answer'[r].request # Null
      <3>1. CASE m \in DOMAIN answer
        <4>1. /\ answer'[m] = answer[m] /\ r < m /\ Visible(r, answer[m].scope)
              /\ answer[r].lineage = Null /\ answer[r].request # Null
          BY <1>5, <2>1, <3>1 DEF ClaimInv, LineagesEnd
        <4> QED BY <1>5, <4>1 DEF Visible
      <3>2. CASE m = Len(answer) + 1 /\ answer'[m] = a
        <4>1. line # Null /\ r = line.root
          BY <1>2, <2>1, <3>2
        <4>2. Visible(r, s) /\ answer[r].lineage = Null /\ answer[r].request # Null
          BY <1>3, <4>1 DEF LineageAccepted, Original
        <4>3. r \in DOMAIN answer /\ r < m
          BY <1>4, <3>2, <4>2, AnswerFacts DEF Visible
        <4> QED BY <1>2, <1>5, <3>2, <4>2, <4>3 DEF Visible
      <3> QED BY <1>6, <2>1, <3>1, <3>2
    <2> QED BY <2>1 DEF LineagesEnd, Visible
  <1>10. EvidenceStands' /\ RecordingStands'
    BY <1>3, <1>5 DEF ClaimInv, EvidenceStands, RecordingStands, Visible
  <1> QED BY <1>3, <1>8, <1>9, <1>10 DEF ClaimInv

(* An answer whose work ends: the others do not change, and what readers saw *)
(* was no provisional answer.                                                *)
LEMMA WorkEnds ==
  ASSUME ClaimInv, NEW m \in DOMAIN answer, answer[m].state = "provisional",
         NEW state \in {"canonical", "deleted"},
         answer' = [answer EXCEPT ![m].state = state]
  PROVE  /\ answer' \in Seq(Answer) /\ Len(answer') = Len(answer)
         /\ DOMAIN answer' = DOMAIN answer /\ answer'[m].state = state
         /\ \A n \in DOMAIN answer :
              /\ answer'[n].scope = answer[n].scope /\ answer'[n].lineage = answer[n].lineage
              /\ answer'[n].request = answer[n].request
              /\ n # m => answer'[n] = answer[n]
         /\ \A n \in DOMAIN answer : \A z : Visible(n, z) => Visible(n, z)'
  <1>1. PICK a : a = [answer[m] EXCEPT !.state = state]
    OBVIOUS
  <1>2. answer[m] \in Answer /\ answer \in Seq(Answer) /\ DOMAIN answer = 1 .. Len(answer)
    BY AnswerFacts DEF ClaimInv, ClaimTypeOK
  <1>3. /\ a \in Answer /\ a.scope = answer[m].scope /\ a.lineage = answer[m].lineage
        /\ a.request = answer[m].request /\ a.state = state
    BY <1>1, <1>2 DEF Answer
  <1>4. answer' = [answer EXCEPT ![m] = a]
    BY <1>1, <1>2
  <1>5. /\ answer' \in Seq(Answer) /\ Len(answer') = Len(answer)
        /\ \A n \in DOMAIN answer : answer'[n] = IF n = m THEN a ELSE answer[n]
    BY <1>2, <1>3, <1>4, ExceptSeq
  <1>6. DOMAIN answer' = DOMAIN answer
    BY <1>2, <1>5, LenProperties
  <1> QED BY <1>3, <1>5, <1>6 DEF Visible

(* An ended work's answer is no root and no evidence; a lineage and evidence *)
(* stand.                                                                    *)
LEMMA WorkEndsKeeps ==
  ASSUME ClaimInv, NEW m \in DOMAIN answer, answer[m].state = "provisional",
         NEW state \in {"canonical", "deleted"},
         answer' = [answer EXCEPT ![m].state = state],
         record' \in [ClaimNames -> Submission \cup {Null}],
         \A c \in ClaimNames : record'[c] # Null =>
           /\ record'[c] = record[c]
           /\ state = "deleted" => record[c].answer # m,
         UNCHANGED <<trace, recording>>
  PROVE  ClaimInv'
  <1>1. /\ answer' \in Seq(Answer) /\ Len(answer') = Len(answer)
        /\ DOMAIN answer' = DOMAIN answer /\ answer'[m].state = state
        /\ \A n \in DOMAIN answer :
             /\ answer'[n].scope = answer[n].scope /\ answer'[n].lineage = answer[n].lineage
             /\ answer'[n].request = answer[n].request
             /\ n # m => answer'[n] = answer[n]
    BY WorkEnds
  <1>2. ClaimTypeOK'
    BY <1>1 DEF ClaimInv, ClaimTypeOK
  <1>3. \A n \in DOMAIN answer : answer[n].state = "canonical" => answer'[n].state = "canonical"
    BY <1>1
  <1>4. LineagesEnd'
    BY <1>1, <1>3 DEF ClaimInv, LineagesEnd, Visible
  <1>5. EvidenceStands'
    BY <1>1, <1>3 DEF ClaimInv, EvidenceStands, Visible
  <1>6. RecordingStands'
    BY <1>1, <1>3 DEF ClaimInv, RecordingStands, Visible
  <1>7. IsFiniteSet({c \in ClaimNames : record[c] # Null})'
    <2>1. {c \in ClaimNames : record'[c] # Null} \subseteq {c \in ClaimNames : record[c] # Null}
      OBVIOUS
    <2> QED BY <2>1, FS_Subset DEF ClaimInv
  <1> QED BY <1>2, <1>4, <1>5, <1>6, <1>7 DEF ClaimInv

(* A provisional answer becomes canonical.                                   *)
LEMMA PublishAnswerKeeps ==
  ASSUME ClaimInv, NEW m, PublishAnswer(m)
  PROVE  ClaimInv'
  <1>1. record \in [ClaimNames -> Submission \cup {Null}]
    BY DEF ClaimInv, ClaimTypeOK
  <1> QED BY <1>1, WorkEndsKeeps DEF PublishAnswer

(* A message, and the claims about it, are deleted.                          *)
LEMMA DeleteAnswerKeeps ==
  ASSUME ClaimInv, NEW m, DeleteAnswer(m)
  PROVE  ClaimInv'
  <1>1. /\ m \in DOMAIN answer /\ answer[m].state = "provisional"
        /\ answer' = [answer EXCEPT ![m].state = "deleted"]
        /\ UNCHANGED <<trace, recording>>
    BY DEF DeleteAnswer
  <1>2. record' \in [ClaimNames -> Submission \cup {Null}]
    BY DEF DeleteAnswer, ClaimInv, ClaimTypeOK
  <1>3. \A c \in ClaimNames : record'[c] # Null =>
          record'[c] = record[c] /\ record[c].answer # m
    BY DEF DeleteAnswer
  <1> QED BY <1>1, <1>2, <1>3, WorkEndsKeeps

(* Traces are read, and nothing the invariant speaks of depends on them. *)
LEMMA PutTraceKeeps ==
  ASSUME ClaimInv, NEW q \in TraceNames, NEW document \in Documents, PutTrace(q, document)
  PROVE  ClaimInv'
  <1>1. /\ trace' \in [TraceNames -> Document \cup {Null}]
        /\ UNCHANGED <<answer, record, recording>>
    BY BodiesAssumption DEF PutTrace, ClaimInv, ClaimTypeOK
  <1> QED BY <1>1 DEF ClaimInv, ClaimTypeOK, LineagesEnd, EvidenceStands, RecordingStands, Visible

(* A claim's body is validated against what readers see.                     *)
LEMMA ValidateClaimKeeps ==
  ASSUME ClaimInv, NEW k \in Recorders, NEW b \in Submissions, ValidateClaim(k, b)
  PROVE  ClaimInv'
  <1>1. /\ b.answer \in DOMAIN answer /\ \A e \in b.evidence : Visible(e, b.scope)
    BY DEF ValidateClaim, Associated
  <1>2. /\ recording' = [recording EXCEPT ![k] = b] /\ b \in Submission
        /\ UNCHANGED <<answer, trace, record>>
    BY BodiesAssumption DEF ValidateClaim
  <1>3. ClaimTypeOK'
    BY <1>2 DEF ClaimInv, ClaimTypeOK
  <1>4. \A j \in Recorders : recording'[j] = IF j = k THEN b ELSE recording[j]
    BY <1>2 DEF ClaimInv, ClaimTypeOK
  <1>5. RecordingStands'
    BY <1>1, <1>2, <1>4 DEF ClaimInv, RecordingStands, Visible
  <1> QED BY <1>2, <1>3, <1>5 DEF ClaimInv, LineagesEnd, EvidenceStands, Visible

(* What is inserted was validated, and its answer is still there. *)
LEMMA InsertClaimKeeps ==
  ASSUME ClaimInv, NEW k \in Recorders, InsertClaim(k)
  PROVE  ClaimInv'
  <1>1. PICK b : b = recording[k]
    OBVIOUS
  <1>2. /\ b \in Submission /\ b.claim \in ClaimNames
        /\ b.answer \in DOMAIN answer /\ answer[b.answer].state # "deleted"
        /\ \A e \in b.evidence : Visible(e, b.scope)
    BY <1>1 DEF InsertClaim, ClaimInv, ClaimTypeOK, RecordingStands, Submission
  <1>3. /\ record' = [record EXCEPT ![b.claim] = b]
        /\ recording' = [recording EXCEPT ![k] = Null]
        /\ UNCHANGED <<answer, trace>>
    BY <1>1 DEF InsertClaim
  <1>4. ClaimTypeOK'
    BY <1>2, <1>3 DEF ClaimInv, ClaimTypeOK
  <1>5. /\ \A c \in ClaimNames : record'[c] = IF c = b.claim THEN b ELSE record[c]
        /\ \A j \in Recorders : recording'[j] = Null \/ recording'[j] = recording[j]
    BY <1>3 DEF ClaimInv, ClaimTypeOK
  <1>6. EvidenceStands'
    BY <1>2, <1>3, <1>5 DEF ClaimInv, EvidenceStands, Visible
  <1>7. RecordingStands'
    BY <1>3, <1>5 DEF ClaimInv, RecordingStands, Visible
  <1>8. IsFiniteSet({c \in ClaimNames : record[c] # Null})'
    <2>1. {c \in ClaimNames : record'[c] # Null}
            \subseteq {c \in ClaimNames : record[c] # Null} \cup {b.claim}
      BY <1>5
    <2>2. IsFiniteSet({c \in ClaimNames : record[c] # Null} \cup {b.claim})
      BY FS_AddElement DEF ClaimInv
    <2> QED BY <2>1, <2>2, FS_Subset
  <1> QED BY <1>3, <1>4, <1>6, <1>7, <1>8 DEF ClaimInv, LineagesEnd, Visible

(* Every step of the store keeps the invariant.                              *)
LEMMA ClaimStep ==
  ASSUME ClaimInv, [ClaimNext]_claimVars
  PROVE  ClaimInv'
  <1>1. CASE UNCHANGED claimVars
    BY <1>1 DEF claimVars, ClaimInv, ClaimTypeOK, LineagesEnd, EvidenceStands,
       RecordingStands, Visible
  <1>2. ASSUME NEW k \in Recorders, RollBackClaim(k)
        PROVE  ClaimInv'
    <2>1. /\ recording' \in [Recorders -> Submission \cup {Null}]
          /\ \A j \in Recorders : recording'[j] = Null \/ recording'[j] = recording[j]
          /\ UNCHANGED <<answer, trace, record>>
      BY <1>2 DEF RollBackClaim, ClaimInv, ClaimTypeOK
    <2>2. RecordingStands'
      BY <2>1 DEF ClaimInv, RecordingStands, Visible
    <2> QED BY <2>1, <2>2 DEF ClaimInv, ClaimTypeOK, LineagesEnd, EvidenceStands, Visible
  <1> QED
    BY <1>1, <1>2, AppendAnswerKeeps, PublishAnswerKeeps, DeleteAnswerKeeps, PutTraceKeeps,
       ValidateClaimKeeps, InsertClaimKeeps DEF ClaimNext

(* Lineages, claims and the claims still being recorded stand on messages    *)
(* that are there, whatever is appended, published or deleted meanwhile.     *)
THEOREM ClaimInvariant == ClaimSpec => []ClaimInv
  <1>1. ClaimInit => ClaimInv
    <2> SUFFICES ASSUME ClaimInit
                 PROVE  ClaimInv
      OBVIOUS
    <2>1. /\ answer \in Seq(Answer) /\ Len(answer) = 0 /\ DOMAIN answer = {}
      BY EmptySeq, LenProperties DEF ClaimInit
    <2>2. {c \in ClaimNames : record[c] # Null} = {}
      BY DEF ClaimInit
    <2> QED BY <2>1, <2>2, FS_EmptySet, BodiesAssumption
            DEF ClaimInit, ClaimInv, ClaimTypeOK, LineagesEnd, EvidenceStands, RecordingStands
  <1> QED BY <1>1, ClaimStep, PTL DEF ClaimSpec

(* A lineage that add_message accepted names an original answer of its own   *)
(* conversation, and goes on doing so.                                       *)
THEOREM LineagesEndAtOnce == ClaimSpec => []LineagesEnd
  BY ClaimInvariant, PTL DEF ClaimInv

(* A claim's answer and evidence can be shown as long as the claim is there: *)
(* deletions take the claims with them.                                      *)
THEOREM EvidenceAlwaysStands == ClaimSpec => []EvidenceStands
  BY ClaimInvariant, PTL DEF ClaimInv

-----------------------------------------------------------------------------
(* The answers of the history reads. *)

(* How a record is found, and when it is. *)
LEMMA DirectRecords ==
  ASSUME ClaimInv, NEW m \in DOMAIN answer, NEW kind \in RecordKinds, NEW surface
  PROVE  /\ DirectRecord(m, kind, surface)
               \in {"no_record", "ambiguous", "wrong_surface", "resolved", "invalid"}
         /\ kind = "acquisition" => DirectRecord(m, kind, surface) # "ambiguous"
         /\ kind = "support" /\ DirectRecord(m, kind, surface) = "resolved"
              => Cardinality(Shown(m)) = 1
  <1>1. AcquisitionOf(m, surface) \in {"no_record", "wrong_surface", "resolved", "invalid"}
    BY DEF AcquisitionOf
  <1>2. SupportOf(m, About(m), surface)
          \in {"no_record", "ambiguous", "wrong_surface", "resolved", "invalid"}
    BY DEF SupportOf
  <1>3. About(m) \cap Shown(m) = Shown(m)
    BY DEF Shown
  <1>4. SupportOf(m, About(m), surface) = "resolved" =>
          Shown(m) # {} /\ ~(Cardinality(Shown(m)) > 1)
    BY <1>3 DEF SupportOf
  <1>5. IsFiniteSet(Shown(m))
    <2>1. Shown(m) \subseteq {c \in ClaimNames : record[c] # Null}
      BY DEF Shown, About
    <2> QED BY <2>1, FS_Subset DEF ClaimInv
  <1>6. Cardinality(Shown(m)) \in Nat /\ (Cardinality(Shown(m)) = 0 => Shown(m) = {})
    BY <1>5, FS_CardinalityType, FS_EmptySet
  <1>7. SupportOf(m, About(m), surface) = "resolved" => Cardinality(Shown(m)) = 1
    BY <1>4, <1>6
  <1>8. kind \in {"support", "acquisition"}
    BY DEF RecordKinds
  <1>9. CASE kind = "support"
    BY <1>2, <1>7, <1>9 DEF DirectRecord
  <1>10. CASE kind = "acquisition"
    BY <1>1, <1>10 DEF DirectRecord
  <1> QED BY <1>8, <1>9, <1>10

(* A read that failed. *)
LEMMA UnavailableSays ==
  ASSUME NEW kind, NEW reads \in {0, 1}
  PROVE  LET a == Unavailable(reads) IN
         /\ a.status = "unavailable" /\ a.reason = "history_store_unavailable"
         /\ AcceptedV1(a) /\ AcceptedV2(a, kind)
  BY DEF Unavailable, Unresolved, AcceptedV1, AcceptedV2, BeforeLookup

LEMMA NothingFails == Null \notin {"answers", "records", "root", "root records"}
  BY NullAssumption DEF Reads

(* The same of a record that is read for, when no read fails.                *)
LEMMA RecordsAreFound ==
  ASSUME ClaimInv, NEW m \in DOMAIN answer, NEW kind \in RecordKinds, NEW surface,
         NEW read \in Reads, NEW found, found = Loaded(m, kind, surface, read, Null)
  PROVE  /\ found \in {"no_record", "ambiguous", "wrong_surface", "resolved", "invalid"}
         /\ kind = "acquisition" => found # "ambiguous"
         /\ kind = "support" /\ found = "resolved" => Cardinality(Shown(m)) = 1
  <1>1. found = DirectRecord(m, kind, surface)
    BY NullAssumption DEF Loaded
  <1> QED BY <1>1, DirectRecords

(* What an answer without a record says. *)
LEMMA UnresolvedSays ==
  ASSUME NEW status, NEW reason, NEW reads
  PROVE  LET a == Unresolved(status, reason, reads) IN
         /\ a.status = status /\ a.reason = reason /\ a.reads = reads
         /\ a.source = "none" /\ a.root = Null
         /\ a.matches = IF status = "ambiguous" THEN 2 ELSE 0
  BY DEF Unresolved

(* The lineage of an answer that readers see leads to its record, or the     *)
(* answer says why it does not: never because the root is missing or unfit.  *)
LEMMA LineageIsFollowed ==
  ASSUME ClaimInv, NEW s \in Scopes, NEW m \in Newest(s), NEW line,
         line = answer[m].lineage, line # Null,
         NEW kind \in RecordKinds, NEW surface,
         NEW a, a = FollowLineage(s, line, kind, surface, Null)
  PROVE  /\ AcceptedV2(a, kind)
         /\ a.status = "resolved" => /\ Visible(a.root, s)
                                     /\ kind = "support" => Cardinality(Shown(a.root)) = 1
         /\ a.reason \notin {"lineage_root_missing", "lineage_conversation_mismatch",
                             "lineage_root_recursive", "lineage_root_unresolvable"}
  <1>1. PICK r : r = line.root
    OBVIOUS
  <1>2. m \in DOMAIN answer /\ answer[m].scope = s
    BY DEF Newest, Visible
  <1>3. /\ Visible(r, s) /\ answer[r].lineage = Null /\ answer[r].request # Null
        /\ r \in DOMAIN answer
    BY <1>1, <1>2 DEF ClaimInv, LineagesEnd, Visible
  <1>4. r # Null
    BY <1>3, AnswerFacts DEF ClaimInv
  <1>5. PICK found : found = Loaded(r, kind, surface, "root records", Null)
    OBVIOUS
  <1>6. /\ found \in {"no_record", "ambiguous", "wrong_surface", "resolved", "invalid"}
        /\ kind = "support" /\ found = "resolved" => Cardinality(Shown(r)) = 1
    <2>1. "root records" \in Reads
      BY DEF Reads
    <2> QED BY <1>3, <1>5, <2>1, RecordsAreFound
  <1>7. CASE line.kind # kind
    <2>1. a = Unresolved("invalid", "lineage_record_kind_mismatch", 0)
      BY <1>7 DEF FollowLineage
    <2> QED BY <2>1, UnresolvedSays DEF AcceptedV2, RefusalReasons, BeforeLookup
  <1>8. CASE line.kind = kind /\ found = "resolved"
    <2>1. a = Resolved("root_lineage", 1, "root_lineage_record_resolved", r)
      BY <1>1, <1>3, <1>5, <1>8, NothingFails DEF FollowLineage
    <2>2. /\ a.status = "resolved" /\ a.source = "root_lineage" /\ a.reads = 1
          /\ a.reason = "root_lineage_record_resolved" /\ a.matches = 1 /\ a.root = r
      BY <2>1 DEF Resolved
    <2> QED BY <1>3, <1>4, <1>6, <1>8, <2>2 DEF AcceptedV2
  <1>9. CASE line.kind = kind /\ found # "resolved"
    <2>1. \/ a = Unresolved("no_record", "lineage_root_not_direct_record_owner", 1)
          \/ a = Unresolved("invalid", "lineage_surface_mismatch", 1)
          \/ a = Unresolved("invalid", "lineage_root_association_invalid", 1)
      BY <1>1, <1>3, <1>5, <1>6, <1>9, NothingFails DEF FollowLineage
    <2> QED
      BY <2>1, UnresolvedSays DEF AcceptedV2, AbsenceReasons, RefusalReasons, BeforeLookup
  <1> QED BY <1>7, <1>8, <1>9

(* Each branch of the second version's resolver gives an answer that its     *)
(* response model accepts.                                                   *)
LEMMA HistoryV2 ==
  ASSUME ClaimInv, NEW s \in Scopes, NEW kind \in RecordKinds, NEW surface,
         NEW a, a = ResolveV2(s, kind, surface, Null)
  PROVE  /\ AcceptedV2(a, kind)
         /\ a.status = "resolved" => /\ Visible(a.root, s)
                                     /\ kind = "support" => Cardinality(Shown(a.root)) = 1
         /\ a.reason \notin {"lineage_root_missing", "lineage_conversation_mismatch",
                             "lineage_root_recursive", "lineage_root_unresolvable"}
  <1>1. CASE a = Unresolved("no_record", "direct_record_absent_lineage_absent", 0)
    BY <1>1, UnresolvedSays DEF AcceptedV2, AbsenceReasons, BeforeLookup
  <1>2. CASE Newest(s) = {}
    BY <1>1, <1>2, NothingFails DEF ResolveV2
  <1>3. CASE Newest(s) # {}
    <2>1. PICK m : m = CHOOSE n \in Newest(s) : TRUE
      OBVIOUS
    <2>2. m \in Newest(s)
      BY <1>3, <2>1
    <2>3. m \in DOMAIN answer /\ Visible(m, s) /\ m # Null
      BY <2>2, AnswerFacts DEF ClaimInv, Newest, Visible
    <2>4. PICK direct, found : /\ direct = Loaded(m, kind, surface, "records", Null)
                               /\ found = Verdict(direct)
      OBVIOUS
    <2>5. /\ direct \in {"no_record", "ambiguous", "wrong_surface", "resolved", "invalid"}
          /\ kind = "acquisition" => direct # "ambiguous"
          /\ kind = "support" /\ direct = "resolved" => Cardinality(Shown(m)) = 1
      <3>1. "records" \in Reads
        BY DEF Reads
      <3> QED BY <2>3, <2>4, <3>1, RecordsAreFound
    <2>6. /\ found \in {"no_record", "ambiguous", "resolved", "invalid"}
          /\ found = "ambiguous" => kind = "support"
          /\ found = "resolved" => direct = "resolved"
      BY <2>4, <2>5 DEF Verdict, RecordKinds
    <2>7. CASE answer[m].request = Null
      <3>1. a = Unresolved("invalid", "direct_response_invalid", 0)
        BY <1>3, <2>1, <2>7, NothingFails DEF ResolveV2
      <3> QED BY <3>1, UnresolvedSays DEF AcceptedV2, RefusalReasons, BeforeLookup
    <2>8. CASE answer[m].request # Null /\ found = "resolved"
      <3>1. a = Resolved("direct_record", 0, "direct_record_resolved", m)
        BY <1>3, <2>1, <2>4, <2>8, NothingFails DEF ResolveV2
      <3>2. /\ a.status = "resolved" /\ a.source = "direct_record" /\ a.reads = 0
            /\ a.reason = "direct_record_resolved" /\ a.matches = 1 /\ a.root = m
        BY <3>1 DEF Resolved
      <3> QED BY <2>3, <2>5, <2>6, <2>8, <3>2 DEF AcceptedV2
    <2>9. CASE answer[m].request # Null /\ found = "ambiguous"
      <3>1. a = Unresolved("ambiguous", "direct_record_ambiguous", 0)
        BY <1>3, <2>1, <2>4, <2>9, NothingFails DEF ResolveV2
      <3> QED BY <2>6, <2>9, <3>1, UnresolvedSays DEF AcceptedV2
    <2>10. CASE answer[m].request # Null /\ found = "invalid"
      <3>1. a = Unresolved("invalid", "direct_record_invalid", 0)
        BY <1>3, <2>1, <2>4, <2>10, NothingFails DEF ResolveV2
      <3> QED BY <3>1, UnresolvedSays DEF AcceptedV2, RefusalReasons, BeforeLookup
    <2>11. CASE answer[m].request # Null /\ found = "no_record"
      <3>1. \/ a = Unresolved("no_record", "direct_record_absent_lineage_absent", 0)
            \/ /\ answer[m].lineage # Null
               /\ a = FollowLineage(s, answer[m].lineage, kind, surface, Null)
        BY <1>3, <2>1, <2>4, <2>11, NothingFails DEF ResolveV2
      <3> QED BY <1>1, <2>2, <3>1, LineageIsFollowed
    <2> QED BY <2>6, <2>7, <2>8, <2>9, <2>10, <2>11
  <1> QED BY <1>2, <1>3

(* Each branch of the first version's resolver does so too.                  *)
LEMMA HistoryV1 ==
  ASSUME ClaimInv, NEW s \in Scopes, NEW kind \in RecordKinds, NEW surface,
         NEW a, a = ResolveV1(s, kind, surface, Null)
  PROVE  AcceptedV1(a)
  <1>1. CASE Newest(s) = {}
    <2>1. a = Unresolved("no_record", "immediate_response_not_found", 0)
      BY <1>1, NothingFails DEF ResolveV1
    <2> QED BY <2>1, UnresolvedSays DEF AcceptedV1
  <1>2. CASE Newest(s) # {}
    <2>1. PICK m : m = CHOOSE n \in Newest(s) : TRUE
      OBVIOUS
    <2>2. m \in DOMAIN answer /\ m # Null
      BY <1>2, <2>1, AnswerFacts DEF ClaimInv, Newest, Visible
    <2>3. PICK direct, found : /\ direct = Loaded(m, kind, surface, "records", Null)
                               /\ found = Verdict(direct)
      OBVIOUS
    <2>4. /\ direct \in {"no_record", "ambiguous", "wrong_surface", "resolved", "invalid"}
          /\ kind = "acquisition" => direct # "ambiguous"
      <3>1. "records" \in Reads
        BY DEF Reads
      <3> QED BY <2>2, <2>3, <3>1, RecordsAreFound
    <2>5. /\ found \in {"no_record", "ambiguous", "resolved", "invalid"}
          /\ found = "ambiguous" => kind # "acquisition"
      BY <2>3, <2>4 DEF Verdict
    <2>6. CASE answer[m].request = Null
      <3>1. PICK u : u = Unresolved("invalid", "immediate_response_invalid", 0)
        OBVIOUS
      <3>2. a = [u EXCEPT !.matches = 1]
        BY <1>2, <2>1, <2>6, <3>1, NothingFails DEF ResolveV1
      <3>3. a.status = "invalid" /\ a.root = Null /\ a.matches = 1
        BY <3>1, <3>2 DEF Unresolved
      <3> QED BY <3>3 DEF AcceptedV1
    <2>7. CASE answer[m].request # Null /\ found = "resolved"
      <3>1. a = Resolved("direct_record", 0, "record_resolved", m)
        BY <1>2, <2>1, <2>3, <2>7, NothingFails DEF ResolveV1
      <3>2. a.status = "resolved" /\ a.root = m /\ a.matches = 1
        BY <3>1 DEF Resolved
      <3> QED BY <2>2, <3>2 DEF AcceptedV1
    <2>8. CASE answer[m].request # Null /\ found # "resolved"
      <3>1. PICK u : u = Unresolved(found, "record_not_resolved", 0)
        OBVIOUS
      <3>2. a = [u EXCEPT !.matches =
                   IF kind = "acquisition" \/ found = "invalid" THEN 1 ELSE @]
        BY <1>2, <2>1, <2>3, <2>5, <2>8, <3>1, NothingFails DEF ResolveV1
      <3>3. /\ a.status = found /\ a.root = Null
            /\ a.matches = IF kind = "acquisition" \/ found = "invalid" THEN 1
                           ELSE IF found = "ambiguous" THEN 2 ELSE 0
        BY <3>1, <3>2 DEF Unresolved
      <3> QED BY <2>5, <2>8, <3>3 DEF AcceptedV1
    <2> QED BY <2>6, <2>7, <2>8
  <1> QED BY <1>1, <1>2

(* A read that fails ends the request with that answer, or makes no          *)
(* difference: what is compared is the same request without the failure.     *)
LEMMA LineageFailureIsTold ==
  ASSUME ClaimInv, NEW s \in Scopes, NEW r \in DOMAIN answer, NEW line, line.root = r,
         NEW kind \in RecordKinds, NEW surface, NEW down \in Reads,
         NEW x, x = FollowLineage(s, line, kind, surface, down),
         NEW a, a = FollowLineage(s, line, kind, surface, Null)
  PROVE  x = a \/ x = Unavailable(1)
  <1>1. PICK f, g : /\ f = Loaded(r, kind, surface, "root records", down)
                    /\ g = Loaded(r, kind, surface, "root records", Null)
    OBVIOUS
  <1>2. f = "unavailable" \/ f = g
    BY <1>1, NothingFails DEF Loaded
  <1>3. CASE down = "root"
    BY <1>3, NothingFails DEF FollowLineage
  <1>4. CASE down # "root" /\ f = "unavailable"
    BY <1>1, <1>4, NothingFails DEF FollowLineage
  <1>5. CASE down # "root" /\ f = g
    BY <1>1, <1>5, NothingFails DEF FollowLineage
  <1> QED BY <1>2, <1>3, <1>4, <1>5

LEMMA FailureIsToldV2 ==
  ASSUME ClaimInv, NEW s \in Scopes, NEW kind \in RecordKinds, NEW surface,
         NEW down \in Reads,
         NEW x, x = ResolveV2(s, kind, surface, down),
         NEW a, a = ResolveV2(s, kind, surface, Null)
  PROVE  x = a \/ x = Unavailable(0) \/ x = Unavailable(1)
  <1>1. CASE down = "answers"
    BY <1>1 DEF ResolveV2
  <1>2. CASE down # "answers" /\ Newest(s) = {}
    BY <1>2, NothingFails DEF ResolveV2
  <1>3. CASE down # "answers" /\ Newest(s) # {}
    <2>1. PICK m : m = CHOOSE n \in Newest(s) : TRUE
      OBVIOUS
    <2>2. m \in Newest(s) /\ m \in DOMAIN answer /\ answer[m].scope = s
      BY <1>3, <2>1 DEF Newest, Visible
    <2>3. PICK f, g : /\ f = Loaded(m, kind, surface, "records", down)
                      /\ g = Loaded(m, kind, surface, "records", Null)
      OBVIOUS
    <2>4. f = "unavailable" \/ f = g
      BY <2>3, NothingFails DEF Loaded
    <2>5. CASE answer[m].request = Null
      BY <1>3, <2>1, <2>5, NothingFails DEF ResolveV2
    <2>6. CASE answer[m].request # Null /\ f = "unavailable"
      <3>1. Verdict(f) = "unavailable"
        BY <2>6 DEF Verdict
      <3> QED BY <1>3, <2>1, <2>3, <2>6, <3>1 DEF ResolveV2
    <2>7. CASE answer[m].request # Null /\ f = g
      <3>1. PICK F, G : /\ F = FollowLineage(s, answer[m].lineage, kind, surface, down)
                        /\ G = FollowLineage(s, answer[m].lineage, kind, surface, Null)
        OBVIOUS
      <3>2. answer[m].lineage # Null => F = G \/ F = Unavailable(1)
        <4>1. ASSUME answer[m].lineage # Null
              PROVE  answer[m].lineage.root \in DOMAIN answer
          BY <2>2, <4>1 DEF ClaimInv, LineagesEnd, Visible
        <4> QED BY <3>1, <4>1, LineageFailureIsTold
      <3>3. PICK v : v = Verdict(f)
        OBVIOUS
      <3>4. CASE v \in {"resolved", "ambiguous", "invalid", "unavailable"}
        BY <1>3, <2>1, <2>3, <2>7, <3>3, <3>4, NothingFails DEF ResolveV2
      <3>5. CASE v \notin {"resolved", "ambiguous", "invalid", "unavailable"}
        <4>1. /\ x = IF answer[m].lineage = Null
                     THEN Unresolved("no_record", "direct_record_absent_lineage_absent", 0)
                     ELSE F
              /\ a = IF answer[m].lineage = Null
                     THEN Unresolved("no_record", "direct_record_absent_lineage_absent", 0)
                     ELSE G
          BY <1>3, <2>1, <2>3, <2>7, <3>1, <3>3, <3>5, NothingFails DEF ResolveV2
        <4> QED BY <3>2, <4>1
      <3> QED BY <3>4, <3>5
    <2> QED BY <2>4, <2>5, <2>6, <2>7
  <1> QED BY <1>1, <1>2, <1>3

LEMMA FailureIsToldV1 ==
  ASSUME ClaimInv, NEW s \in Scopes, NEW kind \in RecordKinds, NEW surface,
         NEW down \in Reads,
         NEW x, x = ResolveV1(s, kind, surface, down),
         NEW a, a = ResolveV1(s, kind, surface, Null)
  PROVE  x = a \/ x = Unavailable(0)
  <1>1. CASE down = "answers"
    BY <1>1 DEF ResolveV1
  <1>2. CASE down # "answers" /\ Newest(s) = {}
    BY <1>2, NothingFails DEF ResolveV1
  <1>3. CASE down # "answers" /\ Newest(s) # {}
    <2>1. PICK m : m = CHOOSE n \in Newest(s) : TRUE
      OBVIOUS
    <2>2. m \in DOMAIN answer
      BY <1>3, <2>1 DEF Newest, Visible
    <2>3. PICK f, g : /\ f = Loaded(m, kind, surface, "records", down)
                      /\ g = Loaded(m, kind, surface, "records", Null)
      OBVIOUS
    <2>4. f = "unavailable" \/ f = g
      BY <2>3, NothingFails DEF Loaded
    <2>5. CASE answer[m].request = Null
      BY <1>3, <2>1, <2>5, NothingFails DEF ResolveV1
    <2>6. CASE answer[m].request # Null /\ f = "unavailable"
      <3>1. Verdict(f) = "unavailable"
        BY <2>6 DEF Verdict
      <3> QED BY <1>3, <2>1, <2>3, <2>6, <3>1 DEF ResolveV1
    <2>7. CASE answer[m].request # Null /\ f = g
      BY <1>3, <2>1, <2>3, <2>7, NothingFails DEF ResolveV1
    <2> QED BY <2>4, <2>5, <2>6, <2>7
  <1> QED BY <1>1, <1>2, <1>3

(* No history read fails in its own response model, a resolved one shows an  *)
(* answer of the conversation with its one record, and a read that the store *)
(* fails is told as such or makes no difference.                             *)
THEOREM HistoriesAreAnswered == ClaimSpec => []HistoryIsAnswered
  <1>1. ClaimInv => HistoryIsAnswered
    <2>1. ASSUME ClaimInv, NEW s \in Scopes, NEW kind \in RecordKinds,
                 NEW surface \in Surfaces
          PROVE  FailureIsTold(s, kind, surface, ResolveV2(s, kind, surface, Null),
                               ResolveV1(s, kind, surface, Null))
      <3>1. \A down \in ReadsFor(kind) : down \in Reads
        BY DEF ReadsFor
      <3>2. ASSUME NEW down \in ReadsFor(kind),
                   NEW x, x = ResolveV2(s, kind, surface, down)
            PROVE  \/ x = ResolveV2(s, kind, surface, Null)
                   \/ x.status = "unavailable" /\ AcceptedV2(x, kind)
        <4>1. \/ x = ResolveV2(s, kind, surface, Null)
              \/ x = Unavailable(0)
              \/ x = Unavailable(1)
          BY <2>1, <3>1, <3>2, FailureIsToldV2
        <4> QED BY <4>1, UnavailableSays
      <3>3. ASSUME NEW down \in ReadsFor(kind),
                   NEW x, x = ResolveV1(s, kind, surface, down)
            PROVE  \/ x = ResolveV1(s, kind, surface, Null)
                   \/ x.status = "unavailable" /\ AcceptedV1(x)
        <4>1. x = ResolveV1(s, kind, surface, Null) \/ x = Unavailable(0)
          BY <2>1, <3>1, <3>3, FailureIsToldV1
        <4> QED BY <4>1, UnavailableSays
      <3> QED BY <3>2, <3>3 DEF FailureIsTold
    <2>2. ClaimInv => Conversations \subseteq Scopes
      BY AnswerFacts DEF ClaimInv, Conversations, Answer
    <2> QED BY <2>1, <2>2, HistoryV1, HistoryV2 DEF HistoryIsAnswered
  <1> QED BY <1>1, ClaimInvariant, PTL
=============================================================================
