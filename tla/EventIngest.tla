---------------------------- MODULE EventIngest ----------------------------
(* POST /v1/events/ingest for the events of one owner and source.  The       *)
(* handler runs claim, stream lookup, append, finalize and indexing one after *)
(* the other, each in a transaction or request of its own: concurrent calls   *)
(* interleave between them, and a call may be lost between any two.           *)
EXTENDS Naturals

CONSTANTS Events,    \* source_event_id
          Calls,     \* concurrent calls of the endpoint
          Convs,     \* conversations.id of the stream, ordered by created_at
          Messages,  \* messages.id
          None       \* SQL NULL, or no such row

ASSUME IngestAssumption ==
  /\ Convs \subseteq Nat
  /\ None \notin Events \cup Convs \cup Messages
  /\ None \notin [conv : Convs, role : {"tool", "user"},
                  event : Events \cup {None}]
  /\ None \notin [conv : Convs \cup {None}, message : Messages \cup {None}]

VARIABLES stream,    \* conversations: "absent", "open" or "closed"
          msg,       \* messages of those conversations
          log,       \* event_ingest_log
          call,      \* where each call is, and its local variables
          index,     \* messages the Qdrant collection holds
          disturbed  \* events a call overlapped or abandoned (a history)

ingestVars == <<stream, msg, log, call, index, disturbed>>

Steps == {"idle", "claimed", "creating", "appending", "finalizing",
          "indexing", "answered"}

CallState == [at : Steps, event : Events \cup {None},
              conv : Convs \cup {None}, message : Messages \cup {None}]

MemoryRow == [conv : Convs, role : {"tool", "user"}, event : Events \cup {None}]
LogRow == [conv : Convs \cup {None}, message : Messages \cup {None}]

Idle == [at |-> "idle", event |-> None, conv |-> None, message |-> None]

OpenStreams == {c \in Convs : stream[c] = "open"}

Memories(e) == {m \in Messages : msg[m] # None /\ msg[m].event = e}

\* The calls that have claimed an event and not yet finalized it.
Underway(e) ==
  {k \in Calls : /\ call[k].event = e
                 /\ call[k].at \in {"claimed", "creating", "appending",
                                    "finalizing"}}

\* Some call has finalized the event.
Settled(e) == log[e] # None /\ log[e].message # None

-----------------------------------------------------------------------------
(* Faulty variants of helpers defined below, used by no action.              *)

\* A call that finds the event claimed goes on whatever the row says.
AlwaysIngest(e) == FALSE

\* finalize looks the stream up again instead of using the append's.
Restreamed(k) ==
  [conv |-> CHOOSE c \in OpenStreams \cup {None} :
              OpenStreams # {} => c \in OpenStreams,
   message |-> call[k].message]

-----------------------------------------------------------------------------
IngestInit ==
  /\ stream = [c \in Convs |-> "absent"]
  /\ msg = [m \in Messages |-> None]
  /\ log = [e \in Events |-> None]
  /\ call = [k \in Calls |-> Idle]
  /\ index = {}
  /\ disturbed = {}

\* The event already has its memory: the call answers from the log.
AnsweredByLog(e) == log[e] # None /\ log[e].message # None

\* claim_event_ingest: INSERT ... ON CONFLICT DO NOTHING, else the row there is.
Claim(k, e) ==
  /\ call[k].at = "idle"
  /\ IF AnsweredByLog(e)
     THEN /\ call' = [call EXCEPT ![k] = [at |-> "answered", event |-> e,
                        conv |-> log[e].conv, message |-> log[e].message]]
          /\ UNCHANGED <<log, disturbed>>
     ELSE /\ call' = [call EXCEPT ![k] = [Idle EXCEPT !.at = "claimed",
                                                      !.event = e]]
          /\ log' = IF log[e] = None
                    THEN [log EXCEPT ![e] = [conv |-> None, message |-> None]]
                    ELSE log
          /\ disturbed' = IF Underway(e) = {} THEN disturbed
                                              ELSE disturbed \cup {e}
  /\ UNCHANGED <<stream, msg, index>>

\* get_conversation_by_owner_client: the oldest open conversation, if any.
FindStream(k) ==
  /\ call[k].at = "claimed"
  /\ IF OpenStreams = {}
     THEN call' = [call EXCEPT ![k].at = "creating"]
     ELSE \E c \in OpenStreams :
            /\ \A d \in OpenStreams : c <= d
            /\ call' = [call EXCEPT ![k].at = "appending", ![k].conv = c]
  /\ UNCHANGED <<stream, msg, log, index, disturbed>>

CreateStream(k, c) ==
  /\ call[k].at = "creating"
  /\ stream[c] = "absent"
  /\ stream' = [stream EXCEPT ![c] = "open"]
  /\ call' = [call EXCEPT ![k].at = "appending", ![k].conv = c]
  /\ UNCHANGED <<msg, log, index, disturbed>>

\* add_message stores the event memory with role tool.
AppendMemory(k, m) ==
  /\ call[k].at = "appending"
  /\ stream[call[k].conv] = "open"
  /\ msg[m] = None
  /\ msg' = [msg EXCEPT ![m] = [conv |-> call[k].conv, role |-> "tool",
                                event |-> call[k].event]]
  /\ call' = [call EXCEPT ![k].at = "finalizing", ![k].message = m]
  /\ UNCHANGED <<stream, log, index, disturbed>>

\* The stream was retired since the lookup: the call fails.
RefuseAppend(k) ==
  /\ call[k].at = "appending"
  /\ stream[call[k].conv] = "closed"
  /\ call' = [call EXCEPT ![k] = Idle]
  /\ UNCHANGED <<stream, msg, log, index, disturbed>>

Finalized(k) == [conv |-> call[k].conv, message |-> call[k].message]

\* finalize_event_ingest overwrites whatever the row holds.
Finalize(k) ==
  /\ call[k].at = "finalizing"
  /\ log' = [log EXCEPT ![call[k].event] = Finalized(k)]
  /\ call' = [call EXCEPT ![k].at = "indexing"]
  /\ UNCHANGED <<stream, msg, index, disturbed>>

\* A failing upsert is logged and does not fail the call.
IndexMemory(k) ==
  /\ call[k].at = "indexing"
  /\ index' \in {index, index \cup {call[k].message}}
  /\ call' = [call EXCEPT ![k].at = "answered"]
  /\ UNCHANGED <<stream, msg, log, disturbed>>

Return(k) ==
  /\ call[k].at = "answered"
  /\ call' = [call EXCEPT ![k] = Idle]
  /\ UNCHANGED <<stream, msg, log, index, disturbed>>

\* The server stops, or a statement fails: the steps taken so far stay.
Abandon(k) ==
  /\ call[k].at \in Steps \ {"idle", "answered"}
  /\ call' = [call EXCEPT ![k] = Idle]
  /\ disturbed' = IF call[k].at = "finalizing"
                  THEN disturbed \cup {call[k].event} ELSE disturbed
  /\ UNCHANGED <<stream, msg, log, index>>

\* The conversation API retires and reopens streams like any conversation.
RetireStream(c) ==
  /\ stream[c] = "open"
  /\ stream' = [stream EXCEPT ![c] = "closed"]
  /\ UNCHANGED <<msg, log, call, index, disturbed>>

ReopenStream(c) ==
  /\ stream[c] = "closed"
  /\ stream' = [stream EXCEPT ![c] = "open"]
  /\ UNCHANGED <<msg, log, call, index, disturbed>>

\* An ordinary message in a stream conversation, indexed or not.
AppendOrdinary(m, c) ==
  /\ stream[c] = "open"
  /\ msg[m] = None
  /\ msg' = [msg EXCEPT ![m] = [conv |-> c, role |-> "user", event |-> None]]
  /\ index' \in {index, index \cup {m}}
  /\ UNCHANGED <<stream, log, call, disturbed>>

\* get_messages_for_reindex: role IN ('user', 'assistant').
Reindexed == {m \in Messages : msg[m] # None /\ msg[m].role = "user"}

\* The collection is rebuilt with tools/reindex.py and every upsert succeeds.
Rebuild ==
  /\ index' = Reindexed
  /\ UNCHANGED <<stream, msg, log, call, disturbed>>

IngestNext ==
  \/ \E k \in Calls :
       \/ \E e \in Events : Claim(k, e)
       \/ FindStream(k)
       \/ \E c \in Convs : CreateStream(k, c)
       \/ \E m \in Messages : AppendMemory(k, m)
       \/ RefuseAppend(k) \/ Finalize(k) \/ IndexMemory(k) \/ Return(k)
       \/ Abandon(k)
  \/ \E c \in Convs : RetireStream(c) \/ ReopenStream(c)
  \/ \E m \in Messages, c \in Convs : AppendOrdinary(m, c)
  \/ Rebuild

IngestSpec == IngestInit /\ [][IngestNext]_ingestVars

-----------------------------------------------------------------------------
(* Type invariant of the ingest endpoint and the rows it touches. *)
IngestTypeOK ==
  /\ stream \in [Convs -> {"absent", "open", "closed"}]
  /\ msg \in [Messages -> MemoryRow \cup {None}]
  /\ log \in [Events -> LogRow \cup {None}]
  /\ call \in [Calls -> CallState]
  /\ index \subseteq Messages /\ disturbed \subseteq Events

LogAnswers(e) ==
  Settled(e) => /\ log[e].message \in Memories(e)
                /\ msg[log[e].message].conv = log[e].conv

CallAnswers(k) ==
  call[k].at = "answered" => /\ call[k].message \in Memories(call[k].event)
                             /\ msg[call[k].message].conv = call[k].conv

(* What a call answers, now or on a later replay from the log, is a stored    *)
(* memory of its own event in the conversation it names, although streams are *)
(* retired and created and competing calls finalize in between.               *)
AnswersNameTheMemory ==
  /\ \A e \in Events : LogAnswers(e)
  /\ \A k \in Calls : CallAnswers(k)

(* An event whose calls neither overlapped nor got lost after their append    *)
(* has one memory, however often it is sent again and whatever else failed.   *)
UndisturbedEventsHaveOneMemory ==
  \A e \in Events \ disturbed : \A m, n \in Memories(e) : m = n

(* Once an event is finalized and no earlier call for it is under way, it is *)
(* settled for good: no later call takes it up again, and neither its        *)
(* memories nor what the log answers ever change.                            *)
SettledEventsStay ==
  [][\A e \in Events : Settled(e) /\ Underway(e) = {} =>
       /\ Underway(e)' = {}
       /\ Memories(e)' = Memories(e)
       /\ log'[e] = log[e]]_ingestVars

(* The incomplete-claim test expects one memory of an event after a claim     *)
(* that never finished is picked up by a retry; the code appends another.     *)
OneMemoryPerEvent ==
  \A e \in Events : Underway(e) = {} => \A m, n \in Memories(e) : m = n

(* README.md and docs/api.md say the Qdrant index can be rebuilt from         *)
(* PostgreSQL; the reindex query leaves event memories, role tool, out.       *)
RebuildRestoresTheIndex == index \subseteq Reindexed

-----------------------------------------------------------------------------
\* The inductive part: what a call holds at each of its steps.
CallIsConsistent(k) ==
  /\ call[k].at # "idle" => call[k].event \in Events
  /\ call[k].at \in {"claimed", "creating", "appending", "finalizing",
                     "indexing"} => log[call[k].event] # None
  /\ call[k].at \in {"appending", "finalizing"} => call[k].conv \in Convs
  /\ call[k].at \in {"finalizing", "indexing"} =>
       /\ call[k].message \in Memories(call[k].event)
       /\ msg[call[k].message].conv = call[k].conv

\* While nothing disturbed an event, one call at most is under way, and its
\* memory is the call's or the log's.
MemoryIsAccounted(e) ==
  /\ \A j, k \in Underway(e) : j = k
  /\ Settled(e) => Underway(e) = {}
  /\ \A m \in Memories(e) :
       \/ Settled(e) /\ log[e].message = m
       \/ \E k \in Underway(e) : call[k].at = "finalizing" /\ call[k].message = m

IngestInv ==
  /\ IngestTypeOK
  /\ AnswersNameTheMemory
  /\ \A k \in Calls : CallIsConsistent(k)
  /\ \A e \in Events \ disturbed : MemoryIsAccounted(e)
=============================================================================
