------------------------ MODULE EventIngest_proofs ------------------------
(* Theorems of EventIngest for every set of events, calls, conversations and *)
(* messages.                                                                 *)
EXTENDS EventIngest, TLAPS

LEMMA InitIngestInv == IngestInit => IngestInv
  <1> SUFFICES ASSUME IngestInit PROVE IngestInv
    OBVIOUS
  <1> USE DEF IngestInit, Idle
  <1>1. IngestTypeOK
    BY DEF IngestTypeOK, Steps, CallState
  <1>2. \A e \in Events : ~Settled(e) /\ Memories(e) = {} /\ Underway(e) = {}
    BY DEF Settled, Memories, Underway
  <1>3. AnswersNameTheMemory
    BY <1>2 DEF AnswersNameTheMemory, LogAnswers, CallAnswers
  <1>4. \A k \in Calls : CallIsConsistent(k)
    BY DEF CallIsConsistent
  <1>5. \A e \in Events : MemoryIsAccounted(e)
    BY <1>2 DEF MemoryIsAccounted
  <1> QED BY <1>1, <1>3, <1>4, <1>5 DEF IngestInv

(* Every step keeps the types. *)
LEMMA IngestTypeStep ==
  ASSUME IngestTypeOK, \A k \in Calls : CallIsConsistent(k),
         IngestNext
  PROVE  IngestTypeOK'
  <1> USE DEF IngestTypeOK
  <1>1. ASSUME NEW k \in Calls, NEW e \in Events, Claim(k, e)
        PROVE  IngestTypeOK'
    <2>1. stream' = stream /\ msg' = msg /\ index' = index
          /\ disturbed' \subseteq Events
      BY <1>1 DEF Claim
    <2>2. call' \in [Calls -> CallState]
      <3>1. CASE AnsweredByLog(e)
        BY <1>1, <3>1 DEF Claim, AnsweredByLog, LogRow, CallState, Steps
      <3>2. CASE ~AnsweredByLog(e)
        <4>1. [Idle EXCEPT !.at = "claimed", !.event = e] \in CallState
          BY DEF Idle, CallState, Steps
        <4> QED BY <1>1, <3>2, <4>1 DEF Claim
      <3> QED BY <3>1, <3>2
    <2>3. log' \in [Events -> LogRow \cup {None}]
      BY <1>1 DEF Claim, LogRow
    <2> QED BY <2>1, <2>2, <2>3
  <1>2. ASSUME NEW k \in Calls,
               FindStream(k) \/ RefuseAppend(k) \/ IndexMemory(k)
                 \/ Return(k) \/ Abandon(k)
        PROVE  IngestTypeOK'
    <2>1. call' \in [Calls -> CallState]
      <3>1. CASE FindStream(k)
        BY <3>1 DEF FindStream, CallState, Steps, OpenStreams
      <3>2. CASE RefuseAppend(k) \/ Return(k) \/ Abandon(k)
        BY <3>2 DEF RefuseAppend, Return, Abandon, CallState, Steps, Idle
      <3>3. CASE IndexMemory(k)
        BY <3>3 DEF IndexMemory, CallState, Steps
      <3> QED BY <1>2, <3>1, <3>2, <3>3
    <2>2. stream' = stream /\ msg' = msg /\ log' = log
      BY <1>2 DEF FindStream, RefuseAppend, IndexMemory, Return, Abandon
    <2>3. index' \subseteq Messages
      <3>1. CASE IndexMemory(k)
        BY <3>1 DEF IndexMemory, CallIsConsistent, Memories
      <3>2. CASE ~IndexMemory(k)
        BY <1>2, <3>2 DEF FindStream, RefuseAppend, Return, Abandon
      <3> QED BY <3>1, <3>2
    <2>4. disturbed' \subseteq Events
      <3>1. CASE Abandon(k)
        BY <3>1 DEF Abandon, CallIsConsistent
      <3>2. CASE ~Abandon(k)
        BY <1>2, <3>2 DEF FindStream, RefuseAppend, Return, IndexMemory
      <3> QED BY <3>1, <3>2
    <2> QED BY <2>1, <2>2, <2>3, <2>4
  <1>3. ASSUME NEW k \in Calls, NEW c \in Convs, CreateStream(k, c)
        PROVE  IngestTypeOK'
    BY <1>3 DEF CreateStream, CallState, Steps
  <1>4. ASSUME NEW k \in Calls, NEW m \in Messages, AppendMemory(k, m)
        PROVE  IngestTypeOK'
    <2>1. call[k].conv \in Convs /\ call[k].event \in Events
      BY <1>4 DEF AppendMemory, CallIsConsistent
    <2>2. msg' \in [Messages -> MemoryRow \cup {None}]
      BY <1>4, <2>1 DEF AppendMemory, MemoryRow
    <2>3. call' \in [Calls -> CallState]
      <3> DEFINE moved == [call[k] EXCEPT !.at = "finalizing", !.message = m]
      <3>1. moved \in CallState
        BY DEF CallState, Steps
      <3>2. call' = [call EXCEPT ![k] = moved]
        BY <1>4 DEF AppendMemory
      <3> HIDE DEF moved
      <3> QED BY <3>1, <3>2
    <2> QED BY <1>4, <2>2, <2>3 DEF AppendMemory
  <1>5. ASSUME NEW k \in Calls, Finalize(k)
        PROVE  IngestTypeOK'
    <2>1. call' \in [Calls -> CallState]
      BY <1>5 DEF Finalize, CallState, Steps
    <2>2. Finalized(k) \in LogRow
      BY DEF Finalized, LogRow, CallState
    <2>3. log' \in [Events -> LogRow \cup {None}]
      BY <1>5, <2>2 DEF Finalize
    <2> QED BY <1>5, <2>1, <2>3 DEF Finalize
  <1>6. ASSUME NEW c \in Convs, RetireStream(c) \/ ReopenStream(c)
        PROVE  IngestTypeOK'
    BY <1>6 DEF RetireStream, ReopenStream
  <1>7. ASSUME NEW m \in Messages, NEW c \in Convs, AppendOrdinary(m, c)
        PROVE  IngestTypeOK'
    BY <1>7 DEF AppendOrdinary, MemoryRow
  <1>8. ASSUME Rebuild
        PROVE  IngestTypeOK'
    BY <1>8 DEF Rebuild, Reindexed
  <1> QED BY <1>1, <1>2, <1>3, <1>4, <1>5, <1>6, <1>7, <1>8 DEF IngestNext

(* A memory of an event stays one, in its conversation: rows are only added. *)
LEMMA MemoriesStay ==
  ASSUME IngestTypeOK, IngestNext, NEW e, NEW m \in Memories(e)
  PROVE  m \in Memories(e)' /\ msg'[m] = msg[m]
  <1>1. m \in Messages /\ msg[m] # None /\ msg[m].event = e
    BY DEF Memories
  <1>2. msg' = msg \/ \E n \in Messages : msg[n] = None /\
          \E row : msg' = [msg EXCEPT ![n] = row]
    BY DEF IngestNext, Claim, FindStream, CreateStream, AppendMemory,
           RefuseAppend, Finalize, IndexMemory, Return, Abandon, RetireStream,
           ReopenStream, AppendOrdinary, Rebuild
  <1>3. msg'[m] = msg[m]
    BY <1>1, <1>2 DEF IngestTypeOK
  <1> QED BY <1>1, <1>3 DEF Memories

(* A claimed event keeps its row, and a finalized one its answer unless a     *)
(* second call finalizes it.                                                  *)
LEMMA LogRowsStay ==
  ASSUME IngestInv, IngestNext, NEW e \in Events
  PROVE  /\ log[e] # None => log'[e] # None
         /\ \/ log'[e] = log[e]
            \/ log[e] = None /\ ~Settled(e)'
            \/ \E k \in Calls : Finalize(k) /\ call[k].event = e
  <1> USE DEF IngestInv, IngestTypeOK
  <1>1. ASSUME NEW k \in Calls, NEW f \in Events, Claim(k, f)
        PROVE  \/ log' = log
               \/ /\ log[f] = None
                  /\ log' = [log EXCEPT ![f] = [conv |-> None, message |-> None]]
    BY <1>1 DEF Claim
  <1>2. ASSUME NEW k \in Calls, Finalize(k)
        PROVE  /\ log' = [log EXCEPT ![call[k].event] = Finalized(k)]
               /\ Finalized(k) # None
    <2>1. Finalized(k) \in LogRow
      BY DEF Finalized, LogRow, CallState
    <2> QED BY <1>2, <2>1, IngestAssumption DEF Finalize, LogRow
  <1>3. CASE \E k \in Calls, f \in Events : Claim(k, f)
    <2>1. [conv |-> None, message |-> None] # None
      BY IngestAssumption
    <2> QED BY <1>1, <1>3, <2>1 DEF Settled
  <1>4. CASE \E k \in Calls : Finalize(k)
    BY <1>2, <1>4
  <1>5. CASE log' = log
    BY <1>5
  <1> QED BY <1>3, <1>4, <1>5 DEF IngestNext, FindStream, CreateStream,
            AppendMemory, RefuseAppend, IndexMemory, Return, Abandon,
            RetireStream, ReopenStream, AppendOrdinary, Rebuild

(* A call that does not move keeps what it holds. *)
LEMMA CallKept ==
  ASSUME IngestInv, IngestNext, NEW k \in Calls, call'[k] = call[k]
  PROVE  CallIsConsistent(k)' /\ CallAnswers(k)'
  <1>1. CallIsConsistent(k)
    BY DEF IngestInv
  <1>2. call[k].at # "idle" => call[k].event \in Events
    BY <1>1 DEF CallIsConsistent
  <1>3. call[k].at # "idle" /\ log[call[k].event] # None
          => log'[call[k].event] # None
    BY <1>2, LogRowsStay
  <1>4. ASSUME call[k].message \in Memories(call[k].event)
        PROVE  /\ (call[k].message \in Memories(call[k].event))'
               /\ msg'[call[k].message] = msg[call[k].message]
    <2> DEFINE e == call[k].event
    <2> DEFINE m == call[k].message
    <2>1. m \in Messages /\ msg[m] # None /\ msg[m].event = e
      BY <1>4 DEF Memories
    <2>2. msg'[m] = msg[m]
      BY <1>4, MemoriesStay DEF IngestInv
    <2> QED BY <2>1, <2>2 DEF Memories
  <1>5. CallIsConsistent(k)'
    BY <1>1, <1>2, <1>3, <1>4 DEF CallIsConsistent
  <1>6. CallAnswers(k)
    BY DEF IngestInv, AnswersNameTheMemory
  <1>7. CallAnswers(k)'
    BY <1>4, <1>6 DEF CallAnswers
  <1> QED BY <1>5, <1>7

(* A log row that does not change answers what it did. *)
LEMMA AnswerKept ==
  ASSUME IngestInv, IngestNext, NEW e \in Events,
         log'[e] = log[e] \/ ~Settled(e)'
  PROVE  LogAnswers(e)'
  BY MemoriesStay DEF IngestInv, AnswersNameTheMemory, LogAnswers, Settled

(* An event keeps its account while its memories, its row and the calls that *)
(* are about to finalize it stay as they are.                                *)
LEMMA AccountKept ==
  ASSUME NEW e \in Events, MemoryIsAccounted(e),
         Memories(e)' = Memories(e), log'[e] = log[e],
         Underway(e)' \subseteq Underway(e),
         \A k \in Underway(e) : call[k].at = "finalizing" =>
           /\ k \in Underway(e)'
           /\ call'[k].at = "finalizing" /\ call'[k].message = call[k].message
  PROVE  MemoryIsAccounted(e)'
  BY DEF MemoryIsAccounted, Settled

(* Every step keeps what calls hold and what they and the log answer. *)
LEMMA AnswersStep == IngestInv /\ IngestNext
    => AnswersNameTheMemory' /\ \A k \in Calls : CallIsConsistent(k)'
  <1> SUFFICES ASSUME IngestInv, IngestNext
               PROVE  /\ AnswersNameTheMemory'
                      /\ \A k \in Calls : CallIsConsistent(k)'
    OBVIOUS
  <1> USE DEF IngestInv, IngestTypeOK
  <1>1. ASSUME NEW e \in Events, ~\E k \in Calls : Finalize(k)
        PROVE  LogAnswers(e)'
    BY <1>1, LogRowsStay, AnswerKept
  <1>2. ASSUME NEW e \in Events, NEW k \in Calls, Finalize(k)
        PROVE  LogAnswers(e)'
    <2>1. CASE call[k].event = e
      <3>1. /\ call[k].message \in Memories(e)
            /\ msg[call[k].message].conv = call[k].conv
        BY <1>2, <2>1 DEF CallIsConsistent, Finalize
      <3>2. log'[e] = Finalized(k) /\ msg' = msg
        BY <1>2, <2>1 DEF Finalize
      <3> QED BY <3>1, <3>2 DEF LogAnswers, Finalized, Memories
    <2>2. CASE call[k].event # e
      <3>1. log'[e] = log[e]
        BY <1>2, <2>2 DEF Finalize
      <3> QED BY <3>1, AnswerKept
    <2> QED BY <2>1, <2>2
  <1>3. ASSUME NEW k \in Calls, call'[k] # call[k]
        PROVE  CallIsConsistent(k)' /\ CallAnswers(k)'
    <2>1. CASE \E e \in Events : Claim(k, e)
      <3> PICK e \in Events : Claim(k, e)
        BY <2>1
      <3>1. CASE AnsweredByLog(e)
        <4>1. Settled(e) /\ LogAnswers(e)
          BY <3>1 DEF AnsweredByLog, Settled, AnswersNameTheMemory
        <4>2. /\ call'[k] = [at |-> "answered", event |-> e,
                              conv |-> log[e].conv, message |-> log[e].message]
              /\ msg' = msg
          BY <3>1 DEF Claim
        <4>3. CallIsConsistent(k)'
          BY <4>2 DEF CallIsConsistent
        <4>4. CallAnswers(k)'
          BY <4>1, <4>2 DEF CallAnswers, LogAnswers, Memories
        <4> QED BY <4>3, <4>4
      <3>2. CASE ~AnsweredByLog(e)
        <4>1. call'[k].at = "claimed" /\ call'[k].event = e
          BY <3>2 DEF Claim, Idle
        <4>2. log'[e] # None
          BY <3>2, IngestAssumption DEF Claim
        <4> QED BY <4>1, <4>2 DEF CallIsConsistent, CallAnswers
      <3> QED BY <3>1, <3>2
    <2>2. CASE \/ FindStream(k) \/ Finalize(k) \/ IndexMemory(k)
               \/ \E c \in Convs : CreateStream(k, c)
      <3>1. CallIsConsistent(k)
        OBVIOUS
      <3>2. log[call[k].event] # None /\ call[k].event \in Events
        BY <2>2, <3>1 DEF CallIsConsistent, FindStream, Finalize, IndexMemory,
           CreateStream
      <3>3. log'[call[k].event] # None
        BY <3>2, LogRowsStay
      <3>4. msg' = msg /\ call'[k].event = call[k].event
            /\ call'[k].message = call[k].message
        BY <2>2 DEF FindStream, Finalize, IndexMemory, CreateStream, CallState
      <3>5. CASE FindStream(k) \/ \E c \in Convs : CreateStream(k, c)
        <4>1. /\ call'[k].at \in {"creating", "appending"}
              /\ call'[k].at = "appending" => call'[k].conv \in Convs
          BY <3>5 DEF FindStream, CreateStream, OpenStreams, CallState
        <4> QED BY <3>2, <3>3, <3>4, <4>1 DEF CallIsConsistent, CallAnswers
      <3>6. CASE Finalize(k) \/ IndexMemory(k)
        <4>1. /\ call[k].at \in {"finalizing", "indexing"}
              /\ call'[k].at \in {"indexing", "answered"}
              /\ call'[k].conv = call[k].conv
          BY <3>6 DEF Finalize, IndexMemory, CallState
        <4> QED BY <3>1, <3>2, <3>3, <3>4, <4>1
                DEF CallIsConsistent, CallAnswers, Memories
      <3> QED BY <2>2, <3>5, <3>6
    <2>3. CASE \E m \in Messages : AppendMemory(k, m)
      <3> PICK m \in Messages : AppendMemory(k, m)
        BY <2>3
      <3>1. /\ call[k].event \in Events /\ log[call[k].event] # None
            /\ call[k].conv \in Convs
        BY DEF AppendMemory, CallIsConsistent
      <3>2. /\ call'[k].at = "finalizing" /\ call'[k].event = call[k].event
            /\ call'[k].conv = call[k].conv /\ call'[k].message = m
        BY DEF AppendMemory, CallState
      <3>3. msg'[m] = [conv |-> call[k].conv, role |-> "tool",
                       event |-> call[k].event] /\ log' = log
        BY DEF AppendMemory
      <3>4. msg'[m] # None
        BY <3>1, <3>3, IngestAssumption
      <3> QED BY <3>1, <3>2, <3>3, <3>4 DEF CallIsConsistent, CallAnswers, Memories
    <2>4. CASE RefuseAppend(k) \/ Return(k) \/ Abandon(k)
      <3>1. call'[k].at = "idle"
        BY <2>4 DEF RefuseAppend, Return, Abandon, Idle
      <3> QED BY <3>1 DEF CallIsConsistent, CallAnswers
    <2>5. \/ \E e \in Events : Claim(k, e)
          \/ FindStream(k) \/ Finalize(k) \/ IndexMemory(k)
          \/ \E c \in Convs : CreateStream(k, c)
          \/ \E m \in Messages : AppendMemory(k, m)
          \/ RefuseAppend(k) \/ Return(k) \/ Abandon(k)
      <3>1. CASE call' = call
        BY <1>3, <3>1
      <3>2. CASE call' # call
        <4>1. PICK j \in Calls :
                \/ \E e \in Events : Claim(j, e)
                \/ FindStream(j) \/ Finalize(j) \/ IndexMemory(j)
                \/ \E c \in Convs : CreateStream(j, c)
                \/ \E m \in Messages : AppendMemory(j, m)
                \/ RefuseAppend(j) \/ Return(j) \/ Abandon(j)
          BY <3>2 DEF IngestNext, RetireStream, ReopenStream, AppendOrdinary,
             Rebuild
        <4>2. \E row : call' = [call EXCEPT ![j] = row]
          BY <4>1 DEF Claim, FindStream, Finalize, IndexMemory, CreateStream,
             AppendMemory, RefuseAppend, Return, Abandon
        <4>3. j = k
          BY <1>3, <4>2
        <4> QED BY <4>1, <4>3
      <3> QED BY <3>1, <3>2
    <2> QED BY <2>1, <2>2, <2>3, <2>4, <2>5
  <1>4. ASSUME NEW k \in Calls
        PROVE  CallIsConsistent(k)' /\ CallAnswers(k)'
    BY <1>3, CallKept
  <1>5. AnswersNameTheMemory'
    BY <1>1, <1>2, <1>4 DEF AnswersNameTheMemory
  <1> QED BY <1>4, <1>5

(* Every step keeps the account of each event it leaves undisturbed. *)
LEMMA AccountStep ==
  ASSUME IngestInv, IngestNext, NEW e \in Events \ disturbed'
  PROVE  MemoryIsAccounted(e)'
  <1> USE DEF IngestInv, IngestTypeOK
  <1>1. disturbed \subseteq disturbed' /\ MemoryIsAccounted(e)
    BY DEF IngestNext, Claim, FindStream, CreateStream, AppendMemory,
       RefuseAppend, Finalize, IndexMemory, Return, Abandon, RetireStream,
       ReopenStream, AppendOrdinary, Rebuild
  <1>2. ASSUME NEW k \in Calls, NEW f \in Events, Claim(k, f)
        PROVE  MemoryIsAccounted(e)'
    <2>1. call[k].at = "idle" /\ k \notin Underway(e)
          /\ Memories(e)' = Memories(e)
      BY <1>2 DEF Claim, Underway, Memories
    <2>2. \A j \in Calls \ {k} : call'[j] = call[j]
      BY <1>2 DEF Claim
    <2>3. CASE AnsweredByLog(f) \/ f # e
      <3>1. call'[k].at = "answered" \/ call'[k].event # e
        <4>1. CASE AnsweredByLog(f)
          BY <1>2, <4>1 DEF Claim
        <4>2. CASE ~AnsweredByLog(f)
          BY <1>2, <2>3, <4>2 DEF Claim, Idle
        <4> QED BY <4>1, <4>2
      <3>2. Underway(e)' = Underway(e) /\ log'[e] = log[e]
        BY <1>2, <2>1, <2>2, <2>3, <3>1 DEF Claim, Underway
      <3>3. \A j \in Underway(e) : call'[j] = call[j]
        BY <2>1, <2>2 DEF Underway
      <3> QED BY <1>1, <2>1, <3>2, <3>3, AccountKept
    <2>4. CASE ~AnsweredByLog(f) /\ f = e
      <3>1. Underway(e) = {} /\ ~Settled(e)
        BY <1>2, <2>4 DEF Claim, AnsweredByLog, Settled
      <3>2. Memories(e) = {}
        BY <1>1, <3>1 DEF MemoryIsAccounted
      <3>3. Underway(e)' \subseteq {k}
        BY <2>2, <3>1 DEF Underway
      <3>4. ~Settled(e)'
        BY <1>2, <2>4, <3>1 DEF Claim, Settled
      <3> QED BY <2>1, <3>2, <3>3, <3>4 DEF MemoryIsAccounted
    <2> QED BY <2>3, <2>4
  <1>3. ASSUME NEW k \in Calls,
               \/ FindStream(k) \/ IndexMemory(k) \/ Return(k)
               \/ RefuseAppend(k) \/ Abandon(k)
               \/ \E c \in Convs : CreateStream(k, c)
        PROVE  MemoryIsAccounted(e)'
    <2>1. msg' = msg /\ log' = log /\ \A j \in Calls \ {k} : call'[j] = call[j]
      BY <1>3 DEF FindStream, IndexMemory, Return, RefuseAppend, Abandon,
         CreateStream
    <2>2. call[k].at # "finalizing" \/ call[k].event # e
      BY <1>3 DEF FindStream, IndexMemory, Return, RefuseAppend, Abandon,
         CreateStream
    <2>3. call'[k].event \in {call[k].event, None}
      BY <1>3 DEF FindStream, IndexMemory, Return, RefuseAppend, Abandon,
         CreateStream, CallState, Idle
    <2>4. k \in Underway(e)' => k \in Underway(e)
      <3>1. call[k].at \notin {"claimed", "creating", "appending", "finalizing"}
              => call'[k].at \in {"answered", "idle"}
        BY <1>3 DEF FindStream, IndexMemory, Return, RefuseAppend, Abandon,
           CreateStream, CallState, Idle
      <3> QED BY <2>3, <3>1, IngestAssumption DEF Underway
    <2>5. Underway(e)' \subseteq Underway(e) /\ Memories(e)' = Memories(e)
      BY <2>1, <2>4 DEF Underway, Memories
    <2>6. \A j \in Underway(e) : call[j].at = "finalizing" =>
            j \in Underway(e)' /\ call'[j] = call[j]
      BY <2>1, <2>2 DEF Underway
    <2> QED BY <1>1, <2>1, <2>5, <2>6, AccountKept
  <1>4. ASSUME NEW k \in Calls, NEW m \in Messages, AppendMemory(k, m)
        PROVE  MemoryIsAccounted(e)'
    <2>1. /\ call'[k].at = "finalizing" /\ call'[k].message = m
          /\ call'[k].event = call[k].event /\ log' = log
          /\ \A j \in Calls \ {k} : call'[j] = call[j]
      BY <1>4 DEF AppendMemory, CallState
    <2>2. /\ msg[m] = None /\ call[k].event \in Events
          /\ msg'[m].event = call[k].event
          /\ \A n \in Messages \ {m} : msg'[n] = msg[n]
      BY <1>4 DEF AppendMemory, CallIsConsistent
    <2>3. Underway(e)' = Underway(e)
      BY <1>4, <2>1 DEF Underway, AppendMemory
    <2>4. CASE call[k].event = e
      <3>1. Underway(e) = {k} /\ ~Settled(e) /\ Memories(e) = {}
        BY <1>1, <1>4, <2>4 DEF MemoryIsAccounted, AppendMemory, Underway
      <3>2. Memories(e)' \subseteq {m}
        BY <2>2, <3>1 DEF Memories
      <3> QED BY <2>1, <2>3, <3>1, <3>2 DEF MemoryIsAccounted, Settled
    <2>5. CASE call[k].event # e
      <3>1. Memories(e)' = Memories(e)
        BY <2>2, <2>5 DEF Memories
      <3>2. \A j \in Underway(e) : call'[j] = call[j]
        BY <2>1, <2>5 DEF Underway
      <3> QED BY <1>1, <2>1, <2>3, <3>1, <3>2, AccountKept
    <2> QED BY <2>4, <2>5
  <1>5. ASSUME NEW k \in Calls, Finalize(k)
        PROVE  MemoryIsAccounted(e)'
    <2>1. /\ call'[k].at = "indexing" /\ call'[k].event = call[k].event
          /\ \A j \in Calls \ {k} : call'[j] = call[j]
      BY <1>5 DEF Finalize, CallState
    <2>2. Memories(e)' = Memories(e)
      BY <1>5 DEF Finalize, Memories
    <2>3. CASE call[k].event = e
      <3>1. k \in Underway(e)
        BY <1>5, <2>3 DEF Finalize, Underway
      <3>2. Underway(e) = {k} /\ ~Settled(e)
        BY <1>1, <3>1 DEF MemoryIsAccounted
      <3>3. Memories(e) \subseteq {call[k].message}
        BY <1>1, <3>2 DEF MemoryIsAccounted
      <3>4. Underway(e)' = {}
        BY <2>1, <3>2 DEF Underway
      <3>5. log'[e] = Finalized(k)
        BY <1>5, <2>3 DEF Finalize
      <3>6. Finalized(k) # None /\ call[k].message # None
        <4>1. Finalized(k) \in LogRow
          BY DEF Finalized, LogRow, CallState
        <4>2. call[k].message \in Messages
          BY <1>5 DEF Finalize, CallIsConsistent, Memories
        <4> QED BY <4>1, <4>2, IngestAssumption DEF LogRow
      <3>7. Settled(e)' /\ log'[e].message = call[k].message
        BY <3>5, <3>6 DEF Settled, Finalized
      <3> QED BY <2>2, <3>3, <3>4, <3>7 DEF MemoryIsAccounted
    <2>4. CASE call[k].event # e
      <3>1. Underway(e)' = Underway(e) /\ log'[e] = log[e]
        BY <1>5, <2>1, <2>4 DEF Underway, Finalize
      <3>2. \A j \in Underway(e) : call'[j] = call[j]
        BY <2>1, <2>4 DEF Underway
      <3> QED BY <1>1, <2>2, <3>1, <3>2, AccountKept
    <2> QED BY <2>3, <2>4
  <1>6. ASSUME \/ \E c \in Convs : RetireStream(c) \/ ReopenStream(c)
               \/ \E m \in Messages, c \in Convs : AppendOrdinary(m, c)
               \/ Rebuild
        PROVE  MemoryIsAccounted(e)'
    <2>1. log' = log /\ call' = call
      BY <1>6 DEF RetireStream, ReopenStream, AppendOrdinary, Rebuild
    <2>2. Memories(e)' = Memories(e)
      <3>1. CASE msg' = msg
        BY <3>1 DEF Memories
      <3>2. CASE \E m \in Messages, c \in Convs : AppendOrdinary(m, c)
        <4> PICK m \in Messages, c \in Convs : AppendOrdinary(m, c)
          BY <3>2
        <4>1. /\ msg[m] = None /\ msg'[m].event = None
              /\ \A n \in Messages \ {m} : msg'[n] = msg[n]
          BY DEF AppendOrdinary
        <4> QED BY <4>1, IngestAssumption DEF Memories
      <3> QED BY <1>6, <3>1, <3>2 DEF RetireStream, ReopenStream, Rebuild
    <2>3. Underway(e)' = Underway(e)
      BY <2>1 DEF Underway
    <2> QED BY <1>1, <2>1, <2>2, <2>3, AccountKept DEF Underway
  <1> QED BY <1>2, <1>3, <1>4, <1>5, <1>6 DEF IngestNext

LEMMA IngestStep == IngestInv /\ [IngestNext]_ingestVars => IngestInv'
  <1> SUFFICES ASSUME IngestInv, [IngestNext]_ingestVars
               PROVE  IngestInv'
    OBVIOUS
  <1>1. CASE IngestNext
    BY <1>1, IngestTypeStep, AnswersStep, AccountStep DEF IngestInv
  <1>2. CASE UNCHANGED ingestVars
    BY <1>2 DEF ingestVars, IngestInv, IngestTypeOK, AnswersNameTheMemory,
       LogAnswers, CallAnswers, CallIsConsistent, MemoryIsAccounted, Settled,
       Memories, Underway
  <1> QED BY <1>1, <1>2

LEMMA IngestInvariant == IngestSpec => []IngestInv
  <1>1. IngestInit => IngestInv
    BY InitIngestInv
  <1>2. IngestInv /\ [IngestNext]_ingestVars => IngestInv'
    BY IngestStep
  <1> QED BY <1>1, <1>2, PTL DEF IngestSpec

(* Whatever calls overlap, fail or are lost, every answer names a stored      *)
(* memory of its event.                                                       *)
THEOREM IngestAnswersAreSound == IngestSpec => []AnswersNameTheMemory
  <1>1. IngestInv => AnswersNameTheMemory
    BY DEF IngestInv
  <1> QED BY <1>1, IngestInvariant, PTL

(* Sending an event again adds no memory unless its calls overlapped or one   *)
(* was lost between its append and its finalize.                              *)
THEOREM IngestIsIdempotent == IngestSpec => []UndisturbedEventsHaveOneMemory
  <1>1. IngestInv => UndisturbedEventsHaveOneMemory
    <2> SUFFICES ASSUME IngestInv, NEW e \in Events \ disturbed,
                        NEW m \in Memories(e), NEW n \in Memories(e)
                 PROVE  m = n
      BY DEF UndisturbedEventsHaveOneMemory
    <2>1. MemoryIsAccounted(e)
      BY DEF IngestInv
    <2> QED BY <2>1 DEF MemoryIsAccounted
  <1> QED BY <1>1, IngestInvariant, PTL

(* A finalized event with no call under way is settled for good. *)
THEOREM SettledEventsAreFinal == IngestSpec => SettledEventsStay
  <1>1. IngestInv /\ [IngestNext]_ingestVars =>
          [\A e \in Events : Settled(e) /\ Underway(e) = {} =>
             /\ Underway(e)' = {}
             /\ Memories(e)' = Memories(e)
             /\ log'[e] = log[e]]_ingestVars
    <2> SUFFICES ASSUME IngestInv, IngestNext, NEW e \in Events, Settled(e),
                        Underway(e) = {}
                 PROVE  /\ Underway(e)' = {}
                        /\ Memories(e)' = Memories(e)
                        /\ log'[e] = log[e]
      OBVIOUS
    <2> USE DEF IngestInv, IngestTypeOK
    <2>1. log'[e] = log[e]
      <3>1. ASSUME NEW k \in Calls, Finalize(k)
            PROVE  call[k].event # e
        BY <3>1 DEF Finalize, Underway
      <3> QED BY <3>1, LogRowsStay DEF Settled
    <2>2. Memories(e) \subseteq Memories(e)'
      BY MemoriesStay
    <2>3. Memories(e)' \subseteq Memories(e)
      <3>1. ASSUME NEW k \in Calls, NEW m \in Messages, AppendMemory(k, m)
            PROVE  call[k].event # e /\ msg'[m].event = call[k].event
        BY <3>1 DEF AppendMemory, Underway
      <3>2. ASSUME NEW k \in Calls, NEW m \in Messages, AppendMemory(k, m)
            PROVE  \A n \in Memories(e)' : n # m /\ msg'[n] = msg[n]
        BY <3>1, <3>2 DEF AppendMemory, Memories
      <3>3. ASSUME NEW m \in Messages, NEW c \in Convs, AppendOrdinary(m, c)
            PROVE  \A n \in Memories(e)' : n # m /\ msg'[n] = msg[n]
        BY <3>3, IngestAssumption DEF AppendOrdinary, Memories
      <3> QED BY <3>2, <3>3 DEF Memories, IngestNext, Claim, FindStream,
              CreateStream, RefuseAppend, Finalize, IndexMemory, Return,
              Abandon, RetireStream, ReopenStream, Rebuild
    <2>4. Underway(e)' = {}
      <3>1. ASSUME NEW j \in Calls, NEW f \in Events, Claim(j, f)
            PROVE  Underway(e)' = {}
        <4>1. call'[j].event = f /\ (f = e => call'[j].at = "answered")
          <5>1. f = e => AnsweredByLog(f)
            BY DEF AnsweredByLog, Settled
          <5>2. CASE AnsweredByLog(f)
            BY <3>1, <5>2 DEF Claim
          <5>3. CASE ~AnsweredByLog(f)
            <6>1. call' = [call EXCEPT ![j] = [Idle EXCEPT !.at = "claimed",
                                                          !.event = f]]
              BY <3>1, <5>3 DEF Claim
            <6>2. call'[j].event = f
              BY <6>1 DEF Idle
            <6> QED BY <5>1, <5>3, <6>2
          <5> QED BY <5>2, <5>3
        <4>2. \A k \in Calls : k # j => call'[k] = call[k]
          BY <3>1 DEF Claim, CallState
        <4> QED BY <4>1, <4>2 DEF Underway
      <3>2. ASSUME NEW k \in Calls, call'[k].event = e,
                   call'[k].at \in {"claimed", "creating", "appending", "finalizing"},
                   \A j \in Calls, f \in Events : ~Claim(j, f)
            PROVE  k \in Underway(e)
        <4> DEFINE Same == call'[k].event = call[k].event /\ call[k].at \in
                     {"claimed", "creating", "appending", "finalizing"}
        <4>1. ASSUME NEW j \in Calls,
                     \/ FindStream(j) \/ \E c \in Convs : CreateStream(j, c)
                     \/ \E m \in Messages : AppendMemory(j, m)
                     \/ RefuseAppend(j) \/ Finalize(j) \/ IndexMemory(j)
                     \/ Return(j) \/ Abandon(j)
              PROVE  Same
          <5>1. k # j => call'[k] = call[k]
            BY <4>1 DEF CallState, FindStream, CreateStream, AppendMemory,
               RefuseAppend, Finalize, IndexMemory, Return, Abandon
          <5>2. CASE FindStream(j)
            BY <3>2, <5>1, <5>2 DEF FindStream, CallState
          <5>3. CASE \E c \in Convs : CreateStream(j, c)
            BY <3>2, <5>1, <5>3 DEF CreateStream, CallState
          <5>4. CASE \E m \in Messages : AppendMemory(j, m)
            BY <3>2, <5>1, <5>4 DEF AppendMemory, CallState
          <5>5. CASE RefuseAppend(j) \/ Return(j) \/ Abandon(j)
            BY <3>2, <5>1, <5>5 DEF RefuseAppend, Return, Abandon, Idle
          <5>6. CASE Finalize(j) \/ IndexMemory(j)
            BY <3>2, <5>1, <5>6 DEF Finalize, IndexMemory, CallState
          <5> QED BY <4>1, <5>2, <5>3, <5>4, <5>5, <5>6
        <4>2. UNCHANGED call => Same
          BY <3>2
        <4>3. Same
          BY <3>2, <4>1, <4>2 DEF IngestNext, RetireStream, ReopenStream,
             AppendOrdinary, Rebuild
        <4> QED BY <3>2, <4>3 DEF Underway
      <3> QED BY <3>1, <3>2 DEF Underway
    <2> QED BY <2>1, <2>2, <2>3, <2>4
  <1> QED BY <1>1, IngestInvariant, PTL DEF IngestSpec, SettledEventsStay
=============================================================================
