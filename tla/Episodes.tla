------------------------------ MODULE Episodes ------------------------------
(* Episodes: what extraction finds in evidence, kept as one active row for   *)
(* each piece of it, with links and a history.  An extraction writes its     *)
(* rows one transaction at a time and may be lost, retried or overlap with   *)
(* another; rows are invalidated and replayed meanwhile.  One owner: every   *)
(* statement is restricted to one.                                           *)
EXTENDS Integers, Sequences, FiniteSets

CONSTANTS EpisodeKeys,   \* episode_key: type, sources, trigger and time window
          Extracts,      \* concurrent calls that extract, create or replay
          ExtractIds,    \* request_id
          Accepted,      \* the keys of what a request's evidence is accepted for
          Refs,          \* what an episode is linked to
          MaxEpisodes, MaxHistory, \* bounds on the rows and on the events of one
          NoEpisode

ASSUME AcceptedAssumption == Accepted \in [ExtractIds -> Seq(EpisodeKeys)]
ASSUME EpisodeBounds == MaxEpisodes \in Nat /\ MaxHistory \in Nat /\ NoEpisode \notin Nat

VARIABLES episode,     \* rows, in the order they are created
          history,     \* the episode_events of each row
          extract,     \* the calls under way
          extracted    \* history: the requests an answer was given to

episodeVars == <<episode, history, extract, extracted>>

EpisodeIds == 1..MaxEpisodes
\* "content" is the request whose evidence and trace the row now carries.
EpisodeRow == [key : EpisodeKeys, content : ExtractIds,
               status : {"active", "invalidated"}, links : SUBSET Refs]
EpisodeEvent == [type : {"created", "updated", "linked", "invalidated",
                         "rebuilding", "terminal"},
                 request : ExtractIds, links : SUBSET Refs]
ExtractCall == [pc : {"find", "update", "insert", "start", "inspect", "close", "note"},
                request : ExtractIds, at : Nat \ {0}, row : EpisodeIds \cup {NoEpisode}]

NoExtract == [pc |-> "idle"]

EpisodeInit ==
  /\ episode = <<>> /\ history = <<>>
  /\ extract = [k \in Extracts |-> NoExtract]
  /\ extracted = {}

-----------------------------------------------------------------------------
EpisodeEventOf(type, q, links) == [type |-> type, request |-> q, links |-> links]

Room(e) == Len(history[e]) < MaxHistory
Note(e, type, q, links) ==
  history' = [history EXCEPT ![e] = Append(@, EpisodeEventOf(type, q, links))]

\* append_episode_lifecycle_event: the same event is noted once.
NotedOf(e, type, q) == \E i \in DOMAIN history[e] :
                         history[e][i].type = type /\ history[e][i].request = q

ActiveOf(key) == {e \in DOMAIN episode : episode[e].key = key /\ episode[e].status = "active"}

\* Faulty variant: rows are written without being locked.
NeverLocked(e) == FALSE

\* SELECT ... FOR UPDATE, until the transaction ends
LockedEpisode(e) ==
  \E k \in Extracts : extract[k] # NoExtract /\ extract[k].pc = "update" /\ extract[k].row = e

KeyOf(c) == Accepted[c.request][c.at]
Advanced(c) == [c EXCEPT !.pc = "find", !.at = @ + 1, !.row = NoEpisode]

\* Faulty variants: no unique index, a conflict passed over.
NobodyOf(key) == {}
SkipConflict(k) == extract' = [extract EXCEPT ![k] = Advanced(@)]

-----------------------------------------------------------------------------
(* extract_episodes, create_episode and create_or_update_episode            *)

BeginExtract(k, q) ==
  /\ extract[k] = NoExtract
  /\ extract' = [extract EXCEPT ![k] =
                   [pc |-> "find", request |-> q, at |-> 1, row |-> NoEpisode]]
  /\ UNCHANGED <<episode, history, extracted>>

\* The active row of the key is locked, if there is one.
FindEpisode(k) ==
  LET c == extract[k] IN
  /\ c # NoExtract /\ c.pc = "find" /\ c.at <= Len(Accepted[c.request])
  /\ \A e \in ActiveOf(KeyOf(c)) : ~LockedEpisode(e)
  /\ extract' = [extract EXCEPT ![k] =
       IF ActiveOf(KeyOf(c)) = {} THEN [c EXCEPT !.pc = "insert"]
       ELSE [c EXCEPT !.pc = "update", !.row = CHOOSE e \in ActiveOf(KeyOf(c)) : TRUE]]
  /\ UNCHANGED <<episode, history, extracted>>

\* A row that already carries what the request brings is left alone.
UpdateEpisode(k) ==
  LET c == extract[k]
      e == c.row
  IN /\ c # NoExtract /\ c.pc = "update"
     /\ IF episode[e].content = c.request THEN UNCHANGED <<episode, history>>
        ELSE /\ Room(e) /\ Note(e, "updated", c.request, {})
             /\ episode' = [episode EXCEPT ![e].content = c.request]
     /\ extract' = [extract EXCEPT ![k] = Advanced(c)]
     /\ UNCHANGED extracted

\* idx_episodes_owner_episode_key_active
Conflicting(key) == ActiveOf(key)

InsertEpisode(k) ==
  LET c == extract[k] IN
  /\ c # NoExtract /\ c.pc = "insert"
  /\ Conflicting(KeyOf(c)) = {} /\ Len(episode) < MaxEpisodes
  /\ episode' = Append(episode, [key |-> KeyOf(c), content |-> c.request,
                                 status |-> "active", links |-> {}])
  /\ history' = Append(history, <<EpisodeEventOf("created", c.request, {})>>)
  /\ extract' = [extract EXCEPT ![k] = Advanced(c)]
  /\ UNCHANGED extracted

\* Another call has inserted the key since: the request fails with what it
\* has committed so far.
FailExtract(k) == extract' = [extract EXCEPT ![k] = NoExtract]

ConflictingInsert(k) ==
  LET c == extract[k] IN
  /\ c # NoExtract /\ c.pc = "insert" /\ Conflicting(KeyOf(c)) # {}
  /\ FailExtract(k)
  /\ UNCHANGED <<episode, history, extracted>>

AnswerExtract(k) ==
  LET c == extract[k] IN
  /\ c # NoExtract /\ c.pc = "find" /\ c.at > Len(Accepted[c.request])
  /\ extracted' = extracted \cup {c.request}
  /\ extract' = [extract EXCEPT ![k] = NoExtract]
  /\ UNCHANGED <<episode, history>>

\* The process ends, or the connection: what is not committed is rolled back.
AbandonExtract(k) ==
  /\ extract[k] # NoExtract
  /\ extract' = [extract EXCEPT ![k] = NoExtract]
  /\ UNCHANGED <<episode, history, extracted>>

-----------------------------------------------------------------------------
(* create_episode_links, invalidate_derived, replay_derived                 *)

NewRefs(e, links) == links \ episode[e].links

LinkEpisode(e, q, links) ==
  /\ e \in DOMAIN episode /\ ~LockedEpisode(e) /\ Room(e)
  /\ NewRefs(e, links) # {}
  /\ episode' = [episode EXCEPT ![e].links = @ \cup links]
  /\ Note(e, "linked", q, NewRefs(e, links))
  /\ UNCHANGED <<extract, extracted>>

\* transition_episode_status; an episode invalidated before is left alone.
InvalidateEpisode(e, q) ==
  /\ e \in DOMAIN episode /\ ~LockedEpisode(e) /\ Room(e)
  /\ episode[e].status = "active"
  /\ episode' = [episode EXCEPT ![e].status = "invalidated"]
  /\ Note(e, "invalidated", q, {})
  /\ UNCHANGED <<extract, extracted>>

\* replay_derived of an episode that has no recipe to rebuild it with: the
\* attempt is noted, found unsupported, and the episode invalidated.
ReplayEpisode(k, e, q) ==
  /\ extract[k] = NoExtract /\ e \in DOMAIN episode /\ ~NotedOf(e, "terminal", q)
  /\ extract' = [extract EXCEPT ![k] = [pc |-> "start", request |-> q, at |-> 1, row |-> e]]
  /\ UNCHANGED <<episode, history, extracted>>

StartEpisodeReplay(k) ==
  LET c == extract[k] IN
  /\ c # NoExtract /\ c.pc = "start" /\ ~LockedEpisode(c.row) /\ Room(c.row)
  /\ IF NotedOf(c.row, "rebuilding", c.request) THEN UNCHANGED history
     ELSE Note(c.row, "rebuilding", c.request, {})
  /\ extract' = [extract EXCEPT ![k].pc = "inspect"]
  /\ UNCHANGED <<episode, extracted>>

\* append_replay_lifecycle reads the status in a transaction of its own.
InspectEpisode(k) ==
  LET c == extract[k] IN
  /\ c # NoExtract /\ c.pc = "inspect"
  /\ extract' = [extract EXCEPT ![k].pc =
                   IF episode[c.row].status = "active" THEN "close" ELSE "note"]
  /\ UNCHANGED <<episode, history, extracted>>

\* An episode invalidated since it was inspected keeps no trace of the outcome.
CloseEpisode(k) ==
  LET c == extract[k]
      e == c.row
  IN /\ c # NoExtract /\ c.pc = "close" /\ ~LockedEpisode(e) /\ Room(e)
     /\ IF episode[e].status # "active" THEN UNCHANGED <<episode, history>>
        ELSE /\ episode' = [episode EXCEPT ![e].status = "invalidated"]
             /\ Note(e, "terminal", c.request, {})
     /\ extract' = [extract EXCEPT ![k] = NoExtract]
     /\ UNCHANGED extracted

NoteTerminal(k) ==
  LET c == extract[k] IN
  /\ c # NoExtract /\ c.pc = "note" /\ ~LockedEpisode(c.row) /\ Room(c.row)
  /\ IF NotedOf(c.row, "terminal", c.request) THEN UNCHANGED history
     ELSE Note(c.row, "terminal", c.request, {})
  /\ extract' = [extract EXCEPT ![k] = NoExtract]
  /\ UNCHANGED <<episode, extracted>>

EpisodeNext ==
  \/ \E k \in Extracts :
       \/ \E q \in ExtractIds : \/ BeginExtract(k, q)
                                \/ \E e \in EpisodeIds : ReplayEpisode(k, e, q)
       \/ FindEpisode(k) \/ UpdateEpisode(k) \/ InsertEpisode(k)
       \/ ConflictingInsert(k) \/ AnswerExtract(k) \/ AbandonExtract(k)
       \/ StartEpisodeReplay(k) \/ InspectEpisode(k) \/ CloseEpisode(k) \/ NoteTerminal(k)
  \/ \E e \in EpisodeIds, q \in ExtractIds :
       \/ InvalidateEpisode(e, q)
       \/ \E links \in SUBSET Refs : LinkEpisode(e, q, links)

EpisodeSpec == EpisodeInit /\ [][EpisodeNext]_episodeVars

-----------------------------------------------------------------------------
(* Properties.                                                              *)

\* Rows, events and calls hold what their columns allow.
EpisodeTypeOK ==
  /\ episode \in Seq(EpisodeRow) /\ Len(episode) <= MaxEpisodes
  /\ history \in Seq(Seq(EpisodeEvent)) /\ Len(history) = Len(episode)
  /\ extract \in [Extracts -> ExtractCall \cup {NoExtract}]
  /\ extracted \subseteq ExtractIds

\* However extractions of the same evidence overlap, fail or are repeated, at
\* most one active episode tells of it.
OneActiveEpisode == \A d, e \in DOMAIN episode :
  (/\ episode[d].key = episode[e].key
   /\ episode[d].status = "active" /\ episode[e].status = "active") => d = e

\* The evidence of this key is told of, and why.
Recorded(q, key) ==
  \E e \in DOMAIN episode : /\ episode[e].key = key
                            /\ NotedOf(e, "created", q) \/ NotedOf(e, "updated", q)

\* An extraction that was answered has left nothing out, though it wrote one
\* transaction at a time and may have failed half-way before: each piece of
\* evidence it accepted has an episode whose history names the request.
ExtractIsWhole == \A q \in extracted : \A i \in DOMAIN Accepted[q] : Recorded(q, Accepted[q][i])

Writes(h) == {i \in DOMAIN h : h[i].type \in {"created", "updated"}}
Closes(h) == {i \in DOMAIN h : h[i].type \in {"invalidated", "terminal"}}

RowTells(row, h) ==
  /\ \E i \in Writes(h) : /\ \A j \in Writes(h) : j <= i
                          /\ h[i].request = row.content
  /\ \A i \in Writes(h), j \in Closes(h) : i < j
  /\ (row.status = "invalidated") = (Closes(h) # {})
  /\ \A l \in Refs : Cardinality({i \in DOMAIN h : l \in h[i].links})
                       = IF l \in row.links THEN 1 ELSE 0

\* An episode is what its history tells: it carries what the last request
\* that wrote it brought, nothing is written once it is invalidated, it is
\* invalidated exactly if an event says so, and each link is told of once.
HistoryTells == \A e \in DOMAIN episode : RowTells(episode[e], history[e])

\* What a call relies on between its transactions: the row it has locked is
\* still the active one of its key, and what it has passed is recorded.
CallFits(k) ==
  LET c == extract[k] IN
  c # NoExtract =>
    /\ c.pc \in {"update", "insert"} => c.at <= Len(Accepted[c.request])
    /\ c.pc \in {"update", "start", "inspect", "close", "note"} => c.row \in DOMAIN episode
    /\ c.pc = "update" => episode[c.row].status = "active" /\ episode[c.row].key = KeyOf(c)
    /\ c.pc = "note" => episode[c.row].status = "invalidated"
    /\ c.pc \in {"find", "update", "insert"} =>
         \A i \in DOMAIN Accepted[c.request] : i < c.at => Recorded(c.request, Accepted[c.request][i])

EpisodeInv == /\ EpisodeTypeOK /\ OneActiveEpisode /\ HistoryTells /\ ExtractIsWhole
              /\ \A k \in Extracts : CallFits(k)
=============================================================================
