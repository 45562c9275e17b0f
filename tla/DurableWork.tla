----------------------------- MODULE DurableWork -----------------------------
(* The PostgreSQL core of the store: conversations, durable work items, the  *)
(* messages bound to them, claim records and the current-work locator.  Each *)
(* action is one committed transaction of PostgresStore.  A refused call     *)
(* rolls back and changes nothing, so it is a stuttering step.               *)

CONSTANTS Owners,       \* owner_id
          Clients,      \* client_id (and surface, which is compared with it)
          Convs,        \* conversations.id
          Works,        \* work_items.work_id
          Messages,     \* messages.id
          Requests,     \* request_id
          Payloads,     \* content, client and policy metadata of a message
          Claims,       \* claim_records.claim_id
          FailureCodes, \* work_items.failure_code
          Reconcilers,  \* concurrent calls of reconcile_interrupted_work
          None          \* SQL NULL, or no such row

VARIABLES conv,     \* conversations
          work,     \* work_items
          msg,      \* messages
          claim,    \* claim_records: the assistant message each claim is about
          current,  \* current_work: the work each owner's client resumes
          pass      \* the candidates each running reconciliation has selected

vars == <<conv, work, msg, claim, current, pass>>

ConvStates == {"open", "closed", "superseded"}
WorkStates == {"pending", "running", "completed", "failed"}
Live       == {"pending", "running"}
Terminal   == {"completed", "failed"}
Roles      == {"user", "assistant"}   \* "user" is every role but assistant

ConvRow == [owner : Owners, state : ConvStates, sup : Convs \cup {None}]

WorkRow == [owner : Owners, conv : Convs, request : Requests,
            client : Clients \cup {None}, state : WorkStates,
            started : BOOLEAN, result : Messages \cup {None},
            failure : FailureCodes \cup {None}]

MsgRow == [owner : Owners, conv : Convs, role : Roles,
           request : Requests \cup {None}, payload : Payloads,
           work : Works \cup {None}]

\* NULL is no identifier and no row.
ASSUME NoneAssumption ==
  /\ None \notin Convs \cup Works \cup Messages \cup Requests \cup Clients
  /\ None \notin FailureCodes
  /\ None \notin ConvRow
  /\ None \notin WorkRow
  /\ None \notin MsgRow
  /\ \A S \in SUBSET Works : S # None

ASSUME InterruptedAssumption == "interrupted" \in FailureCodes

-----------------------------------------------------------------------------
(* What the statements read.                                                *)

OwnConv(c, o) == conv[c] # None /\ conv[c].owner = o

\* A row lock by (id, owner, conversation) finds the work and its conversation.
Addressable(w) == work[w] # None /\ OwnConv(work[w].conv, work[w].owner)

BoundTo(w) == {m \in Messages : msg[m] # None /\ msg[m].work = w}

\* The publication rule every ordinary read filters messages by.
Canonical(m) ==
  /\ msg[m] # None
  /\ msg[m].work # None =>
       /\ work[msg[m].work] # None
       /\ work[msg[m].work].owner = msg[m].owner
       /\ work[msg[m].work].conv = msg[m].conv
       /\ work[msg[m].work].state = "completed"
       /\ work[msg[m].work].result = m

\* An assistant message of the work's owner and conversation, bound to no
\* other work.
Associated(w, m) ==
  /\ msg[m] # None
  /\ msg[m].owner = work[w].owner
  /\ msg[m].conv = work[w].conv
  /\ msg[m].role = "assistant"
  /\ msg[m].work \in {None, w}

\* _read_work returns the row.
ReadableWork(w) ==
  /\ Addressable(w)
  /\ work[w].result # None => Associated(w, work[w].result)

\* get_work_result finds the exact answer of a completed work.
ReadableResult(w) ==
  /\ Addressable(w)
  /\ work[w].result # None
  /\ Associated(w, work[w].result)
  /\ Canonical(work[w].result)

\* The work (or none) an assistant message with this request is bound to.  The
\* lookup is by owner and request; a work found in another conversation refuses
\* the call, but one created there after the lookup goes unnoticed.
Binding(o, c, role, r) ==
  LET named == {w \in Works : /\ role = "assistant"
                              /\ work[w] # None
                              /\ work[w].owner = o
                              /\ work[w].request = r
                              /\ work[w].conv = c}
  IN  IF named = {} THEN {None} ELSE named

-----------------------------------------------------------------------------
(* Faulty variants of helpers defined below.  No action uses them: each is a *)
(* bug this code could have, put in a helper's place to see a property fail. *)

SupersededByRetired(c, r) == r \in Convs \ {c} /\ OwnConv(r, conv[c].owner)

UnpublishingTransitions ==
  {<<"pending", "running">>, <<"pending", "failed">>, <<"running", "completed">>,
   <<"running", "failed">>, <<"completed", "failed">>}

UntimedStart(row) == [row EXCEPT !.state = "running"]

CompetingResultAccepted(w, m) == Associated(w, m)

KeptProvisional(S) == {}

EveryCandidate(S) == S

RepeatedBinding(b) == b # None => work[b].state \in Live

OtherClientLocator(o, k, w) == ReadableWork(w) /\ work[w].owner = o

-----------------------------------------------------------------------------
Init ==
  /\ conv = [c \in Convs |-> None]
  /\ work = [w \in Works |-> None]
  /\ msg = [m \in Messages |-> None]
  /\ claim = [q \in Claims |-> None]
  /\ current = [o \in Owners |-> [k \in Clients |-> None]]
  /\ pass = [p \in Reconcilers |-> None]

CreateConversation(c, o) ==
  /\ conv[c] = None
  /\ conv' = [conv EXCEPT ![c] = [owner |-> o, state |-> "open", sup |-> None]]
  /\ UNCHANGED <<work, msg, claim, current, pass>>

ReplacementAccepted(c, r) ==
  r \in Convs \ {c} /\ OwnConv(r, conv[c].owner) /\ conv[r].state = "open"

TransitionConversation(c, s, r) ==
  /\ conv[c] # None
  /\ <<conv[c].state, conv[c].sup>> # <<s, r>>
  /\ conv[c].state # "superseded"
  /\ IF s = "superseded" THEN ReplacementAccepted(c, r) ELSE r = None
  /\ conv' = [conv EXCEPT ![c].state = s, ![c].sup = r]
  /\ UNCHANGED <<work, msg, claim, current, pass>>

\* What create_work answers: the conversation is looked at before the request.
CreateWorkOutcome(o, c, r, k) ==
  LET named == {w \in Works : /\ work[w] # None
                              /\ work[w].owner = o
                              /\ work[w].request = r}
  IN  CASE ~OwnConv(c, o) -> "work_not_found"
        [] OwnConv(c, o) /\ conv[c].state # "open" -> "work_conversation_not_open"
        [] OwnConv(c, o) /\ conv[c].state = "open" ->
             IF named = {} THEN "created"
             ELSE IF \A w \in named : work[w].conv = c /\ work[w].client = k
                  THEN "returned"
                  ELSE "work_conflict"

CreateWork(w, o, c, r, k) ==
  /\ work[w] = None
  /\ CreateWorkOutcome(o, c, r, k) = "created"
  /\ work' = [work EXCEPT ![w] =
       [owner |-> o, conv |-> c, request |-> r, client |-> k,
        state |-> "pending", started |-> FALSE, result |-> None,
        failure |-> None]]
  /\ UNCHANGED <<conv, msg, claim, current, pass>>

AllowedTransitions == {<<"pending", "running">>, <<"pending", "failed">>,
  <<"running", "completed">>, <<"running", "failed">>}

Started(row) == [row EXCEPT !.state = "running", !.started = TRUE]

StartWork(w) ==
  /\ Addressable(w)
  /\ <<work[w].state, "running">> \in AllowedTransitions
  /\ work' = [work EXCEPT ![w] = Started(@)]
  /\ UNCHANGED <<conv, msg, claim, current, pass>>

ResultAccepted(w, m) == Associated(w, m) /\ BoundTo(w) \subseteq {m}

\* work_items.assistant_message_id is UNIQUE.
UnusedResult(m) == \A v \in Works : work[v] # None => work[v].result # m

CompleteWork(w, m) ==
  /\ Addressable(w)
  /\ <<work[w].state, "completed">> \in AllowedTransitions
  /\ ResultAccepted(w, m)
  /\ UnusedResult(m)
  /\ work' = [work EXCEPT ![w].state = "completed", ![w].result = m]
  /\ UNCHANGED <<conv, msg, claim, current, pass>>

\* _delete_provisional_work_message: the rows bound to the works that fail.
Provisional(S) == {m \in Messages : msg[m] # None /\ msg[m].work \in S}

\* claim_records.assistant_message_id is ON DELETE CASCADE.
ClaimsWithout(gone) ==
  [q \in Claims |-> IF claim[q] \in gone THEN None ELSE claim[q]]

\* Every work of S fails and its provisional message and claims go with it.
FailWorks(S, f) ==
  /\ \A v \in Works : work[v] # None => work[v].result \notin Provisional(S)
  /\ work' = [w \in Works |-> IF w \in S
                THEN [work[w] EXCEPT !.state = "failed", !.result = None,
                                     !.failure = f]
                ELSE work[w]]
  /\ msg' = [m \in Messages |-> IF m \in Provisional(S) THEN None ELSE msg[m]]
  /\ claim' = ClaimsWithout(Provisional(S))

\* It refuses rows other than the one answer of the work.
Deletable(w) ==
  /\ \A m \in BoundTo(w) : Associated(w, m)
  /\ \A m, n \in BoundTo(w) : m = n

FailWork(w, f) ==
  /\ Addressable(w)
  /\ <<work[w].state, "failed">> \in AllowedTransitions
  /\ Deletable(w)
  /\ FailWorks({w}, f)
  /\ UNCHANGED <<conv, current, pass>>

\* reconcile_interrupted_work selects its candidates without locking them ...
BeginReconcile(p) ==
  /\ pass[p] = None
  /\ pass' = [pass EXCEPT ![p] =
       {w \in Works : work[w] # None /\ work[w].state \in Live}]
  /\ UNCHANGED <<conv, work, msg, claim, current>>

\* ... and refuses the whole pass over one inconsistent row.
ConsistentCandidate(w) ==
  /\ Addressable(w)
  /\ work[w].state \in Live =>
       /\ (work[w].state = "running") = work[w].started
       /\ work[w].result = None
       /\ work[w].failure = None
       /\ Deletable(w)

StillLive(S) == {w \in S : work[w].state \in Live}

\* Its locks are held to the end: the works still live when locked fail
\* together, in one commit.
FinishReconcile(p) ==
  /\ pass[p] # None
  /\ \A w \in pass[p] : ConsistentCandidate(w)
  /\ FailWorks(StillLive(pass[p]), "interrupted")
  /\ pass' = [pass EXCEPT ![p] = None]
  /\ UNCHANGED <<conv, current>>

\* A crash, a lost connection or an inconsistent row rolls the pass back.
AbortReconcile(p) ==
  /\ pass[p] # None
  /\ pass' = [pass EXCEPT ![p] = None]
  /\ UNCHANGED <<conv, work, msg, claim, current>>

\* A work takes a message while it is live, and one at most.
BindingAccepted(b) == b # None => work[b].state \in Live /\ BoundTo(b) = {}

AppendMessage(m, o, c, role, r, p) ==
  /\ OwnConv(c, o)
  /\ msg[m] = None
  /\ \E b \in Binding(o, c, role, r) :
       /\ BindingAccepted(b)
       /\ msg' = [msg EXCEPT ![m] =
            [owner |-> o, conv |-> c, role |-> role, request |-> r,
             payload |-> p, work |-> b]]
  /\ conv[c].state = "open"
  /\ UNCHANGED <<conv, work, claim, current, pass>>

\* create_claim_record, for a request whose trace the caller has stored.
RecordClaim(q, m) ==
  /\ claim[q] = None
  /\ msg[m] # None
  /\ msg[m].role = "assistant"
  /\ msg[m].request # None
  /\ OwnConv(msg[m].conv, msg[m].owner)
  /\ claim' = [claim EXCEPT ![q] = m]
  /\ UNCHANGED <<conv, work, msg, current, pass>>

LocatorAccepted(o, k, w) ==
  ReadableWork(w) /\ work[w].owner = o /\ work[w].client = k

SetCurrentWork(o, k, w) ==
  /\ LocatorAccepted(o, k, w)
  /\ current' = [current EXCEPT ![o][k] = w]
  /\ UNCHANGED <<conv, work, msg, claim, pass>>

Next ==
  \/ \E c \in Convs, o \in Owners : CreateConversation(c, o)
  \/ \E c \in Convs, s \in ConvStates, r \in Convs \cup {None} :
       TransitionConversation(c, s, r)
  \/ \E w \in Works, o \in Owners, c \in Convs, r \in Requests,
        k \in Clients \cup {None} : CreateWork(w, o, c, r, k)
  \/ \E w \in Works : StartWork(w)
  \/ \E w \in Works, m \in Messages : CompleteWork(w, m)
  \/ \E w \in Works, f \in FailureCodes : FailWork(w, f)
  \/ \E p \in Reconcilers : BeginReconcile(p) \/ FinishReconcile(p)
                              \/ AbortReconcile(p)
  \/ \E m \in Messages, o \in Owners, c \in Convs, role \in Roles,
        r \in Requests \cup {None}, p \in Payloads :
       AppendMessage(m, o, c, role, r, p)
  \/ \E q \in Claims, m \in Messages : RecordClaim(q, m)
  \/ \E o \in Owners, k \in Clients, w \in Works : SetCurrentWork(o, k, w)

Spec == Init /\ [][Next]_vars
-----------------------------------------------------------------------------
(* Type invariant: every table holds well-formed rows. *)
TypeOK ==
  /\ conv \in [Convs -> ConvRow \cup {None}]
  /\ work \in [Works -> WorkRow \cup {None}]
  /\ msg \in [Messages -> MsgRow \cup {None}]
  /\ claim \in [Claims -> Messages \cup {None}]
  /\ current \in [Owners -> [Clients -> Works \cup {None}]]
  /\ pass \in [Reconcilers -> (SUBSET Works) \cup {None}]

(* A completed work always has its exact answer: get_work_result never has   *)
(* to answer work_unavailable, and no second message stays bound to it.      *)
CompletedIsReadable ==
  \A w \in Works : work[w] # None /\ work[w].state = "completed" =>
    /\ ReadableResult(w)
    /\ BoundTo(w) \subseteq {work[w].result}

(* A failed work leaves nothing behind: its provisional message is gone from *)
(* every later read and can never surface again.                             *)
FailedLeavesNothing ==
  \A w \in Works : work[w] # None /\ work[w].state = "failed" =>
    BoundTo(w) = {} /\ work[w].result = None /\ work[w].failure # None

(* One canonical assistant message answers at most one work, even when two   *)
(* works of the conversation finish with the same unbound message.           *)
ResultsAreDistinct ==
  \A v, w \in Works :
    /\ work[v] # None /\ work[w] # None
    /\ work[v].result # None /\ work[v].result = work[w].result
    => v = w

(* A bound message belongs to the work its own request names, in the work's  *)
(* conversation, and is the only one, whatever appends, retries, message-id  *)
(* reuse and failures came before.                                           *)
BindingsAreExact ==
  \A m \in Messages : msg[m] # None /\ msg[m].work # None =>
    LET w == msg[m].work
    IN  /\ work[w] # None
        /\ Associated(w, m)
        /\ msg[m].request = work[w].request
        /\ BoundTo(w) = {m}

(* No claim outlives the assistant message it is about. *)
ClaimsAreAnchored ==
  \A q \in Claims : claim[q] # None =>
    msg[claim[q]] # None /\ msg[claim[q]].role = "assistant"

(* A stored current-work association always resolves: the work is readable   *)
(* for the owner and started from that client.                               *)
LocatorResolves ==
  \A o \in Owners, k \in Clients : current[o][k] # None =>
    /\ ReadableWork(current[o][k])
    /\ work[current[o][k]].owner = o
    /\ work[current[o][k]].client = k

(* Following superseded_by_conversation_id from any conversation ends: no    *)
(* set of conversations is closed under being superseded inside the set.     *)
SupersessionEnds ==
  \A S \in SUBSET Convs : S # {} =>
    \E c \in S : conv[c] = None \/ conv[c].sup \notin S

(* No reachable row makes a reconciliation refuse its whole pass. *)
ReconcileIsPossible ==
  \A p \in Reconcilers : pass[p] # None =>
    /\ \A w \in pass[p] : ConsistentCandidate(w)
    /\ \A v \in Works : work[v] # None =>
         work[v].result \notin Provisional(StillLive(pass[p]))

(* A terminal work is never changed again, by a late worker, a second        *)
(* finalizer or a reconciliation that selected it while it was live.         *)
TerminalIsFinal ==
  [][\A w \in Works : work[w] # None /\ work[w].state \in Terminal =>
       work'[w] = work[w]]_vars

(* What ordinary reads have shown they keep showing, unchanged, with every   *)
(* claim recorded about it: failures delete provisional rows only.           *)
CanonicalIsKept ==
  [][\A m \in Messages : Canonical(m) =>
       /\ Canonical(m)'
       /\ msg'[m] = msg[m]
       /\ \A q \in Claims : claim[q] = m => claim'[q] = m]_vars

(* The parts of the inductive invariant that are not properties themselves. *)

\* A work row agrees with its conversation, its messages and its state.
LiveRow(w) ==
  /\ (work[w].state = "running") = work[w].started
  /\ work[w].result = None
  /\ work[w].failure = None

CompletedRow(w) ==
  /\ work[w].result # None
  /\ Associated(w, work[w].result)
  /\ BoundTo(w) \subseteq {work[w].result}

FailedRow(w) ==
  /\ work[w].result = None
  /\ work[w].failure # None
  /\ BoundTo(w) = {}

RowsAreConsistent ==
  \A w \in Works : work[w] # None =>
    /\ Addressable(w)
    /\ work[w].state \in Live => LiveRow(w)
    /\ work[w].state = "completed" => CompletedRow(w)
    /\ work[w].state = "failed" => FailedRow(w)

\* A locator names a work of its owner and client.
LocatorsAreOwned ==
  \A o \in Owners, k \in Clients : current[o][k] # None =>
    /\ work[current[o][k]] # None
    /\ work[current[o][k]].owner = o
    /\ work[current[o][k]].client = k

\* Candidates of a pass stay in the table.
CandidatesExist ==
  \A p \in Reconcilers : pass[p] # None => \A w \in pass[p] : work[w] # None

\* Only a superseded conversation names a replacement, and never itself.
OnlySupersededReplaced ==
  \A c \in Convs : conv[c] # None /\ conv[c].state # "superseded" =>
    conv[c].sup = None

(* The inductive invariant: what every transaction preserves. *)
StoreInv ==
  /\ TypeOK
  /\ RowsAreConsistent
  /\ ResultsAreDistinct
  /\ BindingsAreExact
  /\ ClaimsAreAnchored
  /\ LocatorsAreOwned
  /\ CandidatesExist
  /\ OnlySupersededReplaced
  /\ SupersessionEnds

(* docs/api.md promises that an identical create_work returns the original   *)
(* work with its current state; the code asks first whether the conversation *)
(* is still open.                                                            *)
IdenticalReplayReturnsWork ==
  \A w \in Works : work[w] # None =>
    CreateWorkOutcome(work[w].owner, work[w].conv, work[w].request,
                      work[w].client) = "returned"

-----------------------------------------------------------------------------
\* What a client of the work API sees of these tables.
Status == [w \in Works |-> IF work[w] = None THEN "absent" ELSE work[w].state]
Answer == [w \in Works |-> IF work[w] = None THEN None ELSE work[w].result]
Visible == {m \in Messages : Canonical(m)}

Contract == INSTANCE WorkContract
              WITH status <- Status, answer <- Answer, visible <- Visible

(* The tables implement the contract: one answer per work, published in the  *)
(* step that completes it; what is visible only grows.                       *)
ContractSpec == Contract!Spec
=============================================================================
