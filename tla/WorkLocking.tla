----------------------------- MODULE WorkLocking -----------------------------
(* The transactions of DurableWork statement by statement: every call takes  *)
(* its row locks one at a time, reads committed rows (READ COMMITTED), keeps *)
(* its writes to itself and applies them when it commits.  PostgreSQL breaks *)
(* a cycle of waits by rolling one of its transactions back.                 *)
EXTENDS DurableWork, Naturals, Sequences, FiniteSets

CONSTANTS Procs,  \* calls in flight; each makes one call
          Ops     \* the operations they may be

\* Rows are locked in id order by the one call that locks several.
ASSUME OrderAssumption == Convs \cup Works \subseteq Nat /\ Reconcilers = Procs

VARIABLES call,   \* what each process asked for
          pc,     \* the statement it executes next
          bound,  \* append: the work its message will be bound to, or None
          todo,   \* reconcile: the candidates it has not locked yet
          lock,   \* the process holding each row or uncommitted unique key
          wrote   \* rows written and not yet committed

locking == <<call, pc, bound, todo, lock, wrote>>
lockVars == <<vars, locking>>

\* What a transaction locks: rows, and unique keys it has inserted.
Rows == ({"conversation"} \X Convs) \cup ({"work"} \X Works) \cup
        ({"message"} \X Messages) \cup ({"request"} \X Owners \X Requests)

\* The pool has a fixed number of connections; NULL is neither one nor a row.
ASSUME ProcsAssumption == IsFiniteSet(Procs) /\ None \notin Procs \cup Rows

\* Rows written and not committed, by table.
NoRows == [x \in {} |-> None]
NoWrites == [conv |-> NoRows, work |-> NoRows, msg |-> NoRows]

OneRow(x, row) == [y \in {x} |-> row]

\* The rows of a table once those written are in it.
Over(written, table) ==
  [x \in DOMAIN written \cup DOMAIN table |->
     IF x \in DOMAIN written THEN written[x] ELSE table[x]]

Calls ==
  [op : {"create"}, owner : Owners, conv : Convs, work : Works,
   request : Requests] \cup
  [op : {"fail"}, conv : Convs, work : Works] \cup
  [op : {"start"}, conv : Convs, work : Works] \cup
  [op : {"complete"}, conv : Convs, work : Works, msg : Messages] \cup
  [op : {"append"}, owner : Owners, conv : Convs, msg : Messages,
   request : Requests] \cup
  [op : {"supersede"}, conv : Convs, by : Convs] \cup
  [op : {"reconcile"}]

Named(p) == {w \in Works : work[w] # None /\
               work[w].owner = call[p].owner /\ work[w].request = call[p].request}

-----------------------------------------------------------------------------
(* Locks and waits. *)

\* A faulty variant of Plan: the record is locked before its conversation.
RecordFirstPlan(op) ==
  CASE op = "create" -> <<"conversation", "key", "commit">>
    [] op \in {"start", "fail"} -> <<"record", "conversation", "update", "commit">>
    [] op = "complete" ->
         <<"record", "conversation", "result", "update", "commit">>
    [] op = "append" ->
         <<"record", "conversation", "existing", "insert", "commit">>
    [] op = "supersede" -> <<"conversation", "replacement", "commit">>
    [] op = "reconcile" -> <<"select", "conversation", "record", "commit">>

\* The statements of each operation, in order.
Plan(op) ==
  CASE op = "create" -> <<"conversation", "key", "commit">>
    [] op \in {"start", "fail"} -> <<"conversation", "record", "update", "commit">>
    [] op = "complete" ->
         <<"conversation", "record", "result", "update", "commit">>
    [] op = "append" ->
         <<"conversation", "record", "existing", "insert", "commit">>
    [] op = "supersede" -> <<"conversation", "replacement", "commit">>
    [] op = "reconcile" -> <<"select", "conversation", "record", "commit">>

\* The statement after the one p is at.
After(p) ==
  LET plan == Plan(call[p].op)
      i == CHOOSE i \in DOMAIN plan : plan[i] = pc[p]
  IN  plan[i + 1]

\* Candidates are locked in the order of their conversations and ids.
Before(v, w) ==
  \/ work[v].conv < work[w].conv
  \/ work[v].conv = work[w].conv /\ v < w

Candidate(p) ==
  CHOOSE w \in todo[p] : \A v \in todo[p] \ {w} : Before(w, v)

\* The work whose row the next statement of p locks, or None.
Record(p) ==
  CASE call[p].op = "reconcile" -> Candidate(p)
    [] call[p].op \in {"create", "append"} ->
         IF Named(p) = {} THEN None ELSE CHOOSE w \in Named(p) : TRUE
    [] OTHER -> LET w == call[p].work
                IN  IF work[w] # None /\ work[w].conv = call[p].conv
                    THEN w ELSE None

LockedConv(p) ==
  IF call[p].op = "reconcile" THEN work[Candidate(p)].conv ELSE call[p].conv

\* What the next statement of p has to lock, or None.
Wants(p) ==
  CASE pc[p] = "conversation" -> <<"conversation", LockedConv(p)>>
    [] pc[p] = "record" /\ Record(p) # None -> <<"work", Record(p)>>
    [] pc[p] = "replacement" -> <<"conversation", call[p].by>>
    [] pc[p] = "key" -> <<"request", call[p].owner, call[p].request>>
    [] pc[p] = "insert" -> <<"message", call[p].msg>>
    [] OTHER -> None

Blocked(p) == Wants(p) # None /\ lock[Wants(p)] \notin {None, p}

\* The deadlock detector: p waits in a set of calls that wait for each other.
Deadlocked(p) ==
  \E S \in SUBSET Procs : p \in S /\ \A q \in S : Blocked(q) /\ lock[Wants(q)] \in S

Active(p) == pc[p] \notin {"idle", "done"}

\* The statement takes its lock and goes on with the next one.
Locks(p, next) ==
  /\ ~Blocked(p)
  /\ lock' = IF Wants(p) = None THEN lock ELSE [lock EXCEPT ![Wants(p)] = p]
  /\ pc' = [pc EXCEPT ![p] = next]

\* A faulty variant of LocksWithout: a rolled-back call keeps its locks.
LocksKept(p) == lock

\* The end of a transaction gives every lock back.
LocksWithout(p) == [x \in Rows |-> IF lock[x] = p THEN None ELSE lock[x]]

Releases(p) ==
  /\ lock' = LocksWithout(p)
  /\ pc' = [pc EXCEPT ![p] = "done"]
  /\ wrote' = [wrote EXCEPT ![p] = NoWrites]
  /\ todo' = [todo EXCEPT ![p] = {}]
  /\ pass' = [pass EXCEPT ![p] = None]
  /\ UNCHANGED <<call, bound, claim, current>>

-----------------------------------------------------------------------------
\* work_items is UNIQUE (owner_id, request_id).
RequestsAreDistinct ==
  \A v, w \in Works :
    /\ work[v] # None /\ work[w] # None
    /\ work[v].owner = work[w].owner /\ work[v].request = work[w].request
    => v = w

\* Tables as earlier calls may have left them: conversations open, works live
\* or absent, messages absent, unbound or bound to a live work.
LockInit ==
  /\ conv \in [Convs -> [owner : Owners, state : {"open"}, sup : {None}]]
  /\ work \in [Works -> {None} \cup
       [owner : Owners, conv : Convs, request : Requests, client : {None},
        state : Live, started : BOOLEAN, result : {None}, failure : {None}]]
  /\ msg \in [Messages -> {None} \cup
       [owner : Owners, conv : Convs, role : {"assistant"}, request : Requests,
        payload : Payloads, work : Works \cup {None}]]
  /\ \A w \in Works : work[w] # None =>
       /\ Addressable(w)
       /\ (work[w].state = "running") = work[w].started
  /\ RequestsAreDistinct
  /\ BindingsAreExact
  /\ claim = [q \in Claims |-> None]
  /\ current = [o \in Owners |-> [k \in Clients |-> None]]
  /\ pass = [p \in Reconcilers |-> None]
  /\ call = [p \in Procs |-> None]
  /\ pc = [p \in Procs |-> "idle"]
  /\ bound = [p \in Procs |-> None]
  /\ todo = [p \in Procs |-> {}]
  /\ lock = [x \in Rows |-> None]
  /\ wrote = [p \in Procs |-> NoWrites]

\* The conversations a call names are of one owner: a statement that looks for
\* the conversation of another finds no row, locks nothing and ends the call.
OneOwner(a) ==
  /\ a.op \in {"create", "append"} => OwnConv(a.conv, a.owner)
  /\ a.op = "supersede" => OwnConv(a.by, conv[a.conv].owner)

\* A call arrives.  The id of a new work is generated, so it is fresh.
Begin(p) ==
  /\ pc[p] = "idle"
  /\ \E a \in Calls :
       /\ a.op \in Ops
       /\ OneOwner(a)
       /\ a.op = "create" => /\ work[a.work] = None
                             /\ \A q \in Procs : pc[q] # "idle" =>
                                  ~(call[q].op = "create" /\ call[q].work = a.work)
       /\ call' = [call EXCEPT ![p] = a]
       /\ pc' = [pc EXCEPT ![p] = Head(Plan(a.op))]
  /\ UNCHANGED <<vars, bound, todo, lock, wrote>>

\* SELECT ... FROM conversations ... FOR UPDATE, and the checks that follow it.
LocksConversation(p, next) == Locks(p, next)

LockConversation(p) ==
  /\ pc[p] = "conversation"
  /\ LET c == LockedConv(p)
         refused == \/ call[p].op = "create" /\ conv[c].state # "open"
                    \/ call[p].op = "supersede" /\
                         (conv[c].state = "superseded" \/ call[p].by = c)
     IN  LocksConversation(p, IF refused THEN "refused" ELSE After(p))
  /\ UNCHANGED <<vars, call, bound, todo, wrote>>

Admitted(p) ==
  [owner |-> call[p].owner, conv |-> call[p].conv, request |-> call[p].request,
   client |-> None, state |-> "pending", started |-> FALSE, result |-> None,
   failure |-> None]

\* create_work: INSERT ... ON CONFLICT (owner_id, request_id) DO NOTHING waits
\* for an uncommitted insertion of the same key.
InsertWork(p) ==
  /\ pc[p] = "key"
  /\ IF Named(p) = {}
     THEN /\ Locks(p, After(p))
          /\ wrote' = [wrote EXCEPT ![p].work = OneRow(call[p].work, Admitted(p))]
     ELSE /\ ~Blocked(p)
          /\ pc' = [pc EXCEPT ![p] = "record"]
          /\ UNCHANGED <<lock, wrote>>
  /\ UNCHANGED <<vars, call, bound, todo>>

\* The state a transition asks for.
Target(p) == CASE call[p].op = "start" -> "running"
               [] call[p].op = "complete" -> "completed"
               [] call[p].op = "fail" -> "failed"

\* SELECT ... FROM work_items ... FOR UPDATE, and the checks that follow it.
LockRecord(p) ==
  /\ pc[p] = "record"
  /\ call[p].op # "reconcile"
  /\ LET w == Record(p)
         found == w # None /\ work[w].conv = call[p].conv
         refused == CASE call[p].op = "create" -> TRUE
                      [] call[p].op = "append" -> w # None /\ ~found
                      [] OTHER -> ~found \/
                           <<work[w].state, Target(p)>> \notin AllowedTransitions
     IN  /\ Locks(p, IF refused THEN "refused" ELSE After(p))
         /\ bound' = [bound EXCEPT ![p] = w]
  /\ UNCHANGED <<vars, call, todo, wrote>>

\* transition_work: the completing message is looked up ...
CheckResult(p) ==
  /\ pc[p] = "result"
  /\ pc' = [pc EXCEPT ![p] = IF ResultAccepted(call[p].work, call[p].msg)
                             THEN After(p) ELSE "refused"]
  /\ UNCHANGED <<vars, call, bound, todo, lock, wrote>>

\* A faulty variant of DeletesAndFails: the messages it was bound to stay.
FailsOnly(p, w, f) ==
  [wrote[p] EXCEPT !.work =
     Over(OneRow(w, [work[w] EXCEPT !.state = "failed", !.failure = f]), @)]

\* ... the rows a failing work gives up are deleted, and the work is updated.
DeletesAndFails(p, w, f) ==
  [wrote[p] EXCEPT
     !.msg = Over([m \in BoundTo(w) |-> None], @),
     !.work = Over(OneRow(w, [work[w] EXCEPT !.state = "failed", !.failure = f]), @)]

UpdateWork(p) ==
  /\ pc[p] = "update"
  /\ LET w == call[p].work
     IN  CASE call[p].op = "start" ->
                /\ wrote' = [wrote EXCEPT ![p].work = OneRow(w, Started(work[w]))]
                /\ pc' = [pc EXCEPT ![p] = After(p)]
           [] call[p].op = "fail" ->
                /\ \E f \in FailureCodes :
                     wrote' = [wrote EXCEPT ![p] = DeletesAndFails(p, w, f)]
                /\ pc' = [pc EXCEPT ![p] = After(p)]
           [] call[p].op = "complete" ->
                IF UnusedResult(call[p].msg)
                THEN /\ wrote' = [wrote EXCEPT ![p].work = OneRow(w,
                          [work[w] EXCEPT !.state = "completed",
                                          !.result = call[p].msg])]
                     /\ pc' = [pc EXCEPT ![p] = After(p)]
                ELSE /\ pc' = [pc EXCEPT ![p] = "refused"]
                     /\ UNCHANGED wrote
  /\ UNCHANGED <<vars, call, bound, todo, lock>>

\* add_message: an append replay ends here, as does a message the work or the
\* conversation no longer accepts ...
CheckAppend(p) ==
  /\ pc[p] = "existing"
  /\ pc' = [pc EXCEPT ![p] =
       IF /\ msg[call[p].msg] = None
          /\ BindingAccepted(bound[p])
          /\ conv[call[p].conv].state = "open"
       THEN After(p) ELSE "refused"]
  /\ UNCHANGED <<vars, call, bound, todo, lock, wrote>>

Appended(p, t) ==
  [owner |-> call[p].owner, conv |-> call[p].conv, role |-> "assistant",
   request |-> call[p].request, payload |-> t, work |-> bound[p]]

\* ... and the insertion waits for an uncommitted one with the same id.
InsertMessage(p) ==
  /\ pc[p] = "insert"
  /\ IF msg[call[p].msg] = None
     THEN /\ Locks(p, After(p))
          /\ \E t \in Payloads :
               wrote' = [wrote EXCEPT ![p].msg = OneRow(call[p].msg, Appended(p, t))]
     ELSE /\ ~Blocked(p)
          /\ pc' = [pc EXCEPT ![p] = "refused"]
          /\ UNCHANGED <<lock, wrote>>
  /\ UNCHANGED <<vars, call, bound, todo>>

\* transition_conversation_lifecycle: the replacement is locked second.
LockReplacement(p) ==
  /\ pc[p] = "replacement"
  /\ LET c == call[p].conv
     IN  IF ReplacementAccepted(c, call[p].by)
         THEN /\ Locks(p, After(p))
              /\ wrote' = [wrote EXCEPT ![p].conv = OneRow(c,
                   [conv[c] EXCEPT !.state = "superseded", !.sup = call[p].by])]
         ELSE Locks(p, "refused") /\ UNCHANGED wrote
  /\ UNCHANGED <<vars, call, bound, todo>>

\* reconcile_interrupted_work: the unlocked SELECT of its candidates ...
SelectCandidates(p) ==
  /\ pc[p] = "select"
  /\ LET S == {w \in Works : work[w] # None /\ work[w].state \in Live}
     IN  /\ pass' = [pass EXCEPT ![p] = S]
         /\ todo' = [todo EXCEPT ![p] = S]
         /\ pc' = [pc EXCEPT ![p] = IF S = {} THEN "commit" ELSE After(p)]
  /\ UNCHANGED <<conv, work, msg, claim, current, call, bound, lock, wrote>>

\* ... each then locked in turn and failed unless it has ended meanwhile.
ReconcileRecord(p) ==
  /\ pc[p] = "record"
  /\ call[p].op = "reconcile"
  /\ LET w == Candidate(p)
     IN  /\ wrote' = IF work[w].state \in Live
                     THEN [wrote EXCEPT ![p] = DeletesAndFails(p, w, "interrupted")]
                     ELSE wrote
         /\ Locks(p, IF todo[p] = {w} THEN After(p) ELSE "conversation")
         /\ todo' = [todo EXCEPT ![p] = @ \ {w}]
  /\ UNCHANGED <<vars, call, bound>>

Commit(p) ==
  /\ pc[p] = "commit"
  /\ conv' = Over(wrote[p].conv, conv)
  /\ work' = Over(wrote[p].work, work)
  /\ msg' = Over(wrote[p].msg, msg)
  /\ Releases(p)

\* A refusal, a lost connection or the deadlock detector rolls the call back.
Rollback(p) ==
  /\ Releases(p)
  /\ UNCHANGED <<conv, work, msg>>

Refuse(p) == pc[p] = "refused" /\ Rollback(p)
Disconnect(p) == Active(p) /\ Rollback(p)
BreakDeadlock(p) == Deadlocked(p) /\ Rollback(p)

Statement(p) ==
  \/ LockConversation(p) \/ InsertWork(p) \/ LockRecord(p)
  \/ CheckResult(p) \/ UpdateWork(p)
  \/ CheckAppend(p) \/ InsertMessage(p)
  \/ LockReplacement(p)
  \/ SelectCandidates(p) \/ ReconcileRecord(p)
  \/ Commit(p) \/ Refuse(p)

LockNext == \E p \in Procs :
  Begin(p) \/ Statement(p) \/ Disconnect(p) \/ BreakDeadlock(p)

LockSpec == LockInit /\ [][LockNext]_lockVars

\* The server runs every statement that is not blocked, and deadlock_timeout
\* expires.
FairLockSpec ==
  /\ LockSpec
  /\ \A p \in Procs : WF_lockVars(Statement(p)) /\ WF_lockVars(BreakDeadlock(p))

-----------------------------------------------------------------------------
(* The inductive invariant: what each call holds, and what it has checked    *)
(* and written, at each of its statements.                                   *)

\* A conversation's lock keeps its works and messages from everybody else.
Locked(p, c) == lock[<<"conversation", c>>] = p

HoldsNothing(p) == \A x \in Rows : lock[x] # p

HoldsOneConversation(p) ==
  \A x \in Rows : lock[x] = p => x = <<"conversation", call[p].conv>>

\* What is written to fail the works of S.
Failing(S, f) ==
  [conv |-> NoRows,
   work |-> [w \in S |-> [work[w] EXCEPT !.state = "failed", !.failure = f]],
   msg |-> [m \in Provisional(S) |-> None]]

CreateHolds(p) ==
  /\ pc[p] \in {"conversation", "key", "record", "commit", "refused", "done"}
  /\ pc[p] # "done" => work[call[p].work] = None
  /\ pc[p] \in {"key", "record"} => HoldsOneConversation(p)
  /\ pc[p] \in {"key", "commit"} => /\ Locked(p, call[p].conv)
                                    /\ conv[call[p].conv].state = "open"
  /\ pc[p] = "commit" =>
       /\ lock[<<"request", call[p].owner, call[p].request>>] = p
       /\ Named(p) = {}
       /\ wrote[p] = [NoWrites EXCEPT !.work = OneRow(call[p].work, Admitted(p))]

TransitionHolds(p) ==
  LET w == call[p].work
  IN  /\ pc[p] \in {"conversation", "record", "result", "update", "commit",
                    "refused", "done"}
      /\ pc[p] = "result" => call[p].op = "complete"
      /\ pc[p] = "record" => HoldsOneConversation(p)
      /\ pc[p] \in {"record", "result", "update", "commit"} =>
           Locked(p, call[p].conv)
      /\ pc[p] \in {"result", "update", "commit"} =>
           /\ work[w] # None /\ work[w].conv = call[p].conv
           /\ <<work[w].state, Target(p)>> \in AllowedTransitions
      /\ pc[p] \in {"update", "commit"} /\ call[p].op = "complete" =>
           ResultAccepted(w, call[p].msg)
      /\ pc[p] = "commit" =>
           CASE call[p].op = "start" ->
                  wrote[p] = [NoWrites EXCEPT !.work = OneRow(w, Started(work[w]))]
             [] call[p].op = "fail" ->
                  \E f \in FailureCodes : wrote[p] = Failing({w}, f)
             [] call[p].op = "complete" ->
                  /\ UnusedResult(call[p].msg)
                  /\ wrote[p] = [NoWrites EXCEPT !.work = OneRow(w,
                       [work[w] EXCEPT !.state = "completed",
                                       !.result = call[p].msg])]

AppendHolds(p) ==
  LET a == call[p]
  IN  /\ pc[p] \in {"conversation", "record", "existing", "insert", "commit",
                    "refused", "done"}
      /\ pc[p] \in {"record", "existing", "insert", "commit"} => Locked(p, a.conv)
      /\ pc[p] = "record" => HoldsOneConversation(p)
      /\ pc[p] \in {"existing", "insert"} => \A x \in Rows : lock[x] = p =>
           x \in {<<"conversation", a.conv>>, <<"work", bound[p]>>}
      /\ pc[p] \in {"existing", "insert", "commit"} =>
           bound[p] \in Binding(a.owner, a.conv, "assistant", a.request)
      /\ pc[p] \in {"insert", "commit"} =>
           BindingAccepted(bound[p]) /\ conv[a.conv].state = "open"
      /\ pc[p] = "commit" =>
           /\ lock[<<"message", a.msg>>] = p
           /\ msg[a.msg] = None
           /\ \E t \in Payloads :
                wrote[p] = [NoWrites EXCEPT !.msg = OneRow(a.msg, Appended(p, t))]

SupersedeHolds(p) ==
  LET c == call[p].conv
      r == call[p].by
  IN  /\ pc[p] \in {"conversation", "replacement", "commit", "refused", "done"}
      /\ pc[p] = "replacement" => HoldsOneConversation(p)
      /\ pc[p] \in {"replacement", "commit"} =>
           Locked(p, c) /\ conv[c].state # "superseded" /\ r # c
      /\ pc[p] = "commit" =>
           /\ Locked(p, r)
           /\ ReplacementAccepted(c, r)
           /\ wrote[p] = [NoWrites EXCEPT !.conv =
                OneRow(c, [conv[c] EXCEPT !.state = "superseded", !.sup = r])]

\* The candidates a reconciliation has dealt with.
Settled(p) == pass[p] \ todo[p]

ReconcileHolds(p) ==
  /\ pc[p] \in {"select", "conversation", "record", "commit", "refused", "done"}
  /\ pc[p] = "select" => pass[p] = None /\ HoldsNothing(p)
  /\ pc[p] \in {"conversation", "record", "commit"} =>
       /\ pass[p] # None /\ todo[p] \subseteq pass[p]
       /\ \A w \in Settled(p) : Locked(p, work[w].conv)
       /\ \A v \in Settled(p), w \in todo[p] : Before(v, w)
       /\ wrote[p] = Failing(StillLive(Settled(p)), "interrupted")
  /\ pc[p] \in {"conversation", "record"} => todo[p] # {}
  /\ pc[p] = "conversation" => \A x \in Rows : lock[x] = p =>
       \E w \in Settled(p) : x \in {<<"conversation", work[w].conv>>, <<"work", w>>}
  /\ pc[p] = "record" =>
       /\ Locked(p, work[Candidate(p)].conv)
       /\ \A x \in Rows : lock[x] = p =>
            \E w \in Settled(p) \cup {Candidate(p)} :
              \/ x = <<"conversation", work[w].conv>>
              \/ x = <<"work", w>> /\ w # Candidate(p)
  /\ pc[p] = "commit" => todo[p] = {}

CallHolds(p) ==
  /\ pc[p] = "idle" => call[p] = None
  /\ pc[p] # "idle" => call[p] \in Calls /\ OneOwner(call[p])
  /\ pc[p] \in {"idle", "done"} => HoldsNothing(p)
  /\ pass[p] # None => pc[p] # "idle" /\ call[p].op = "reconcile"
  /\ pc[p] = "conversation" /\ call[p].op # "reconcile" => HoldsNothing(p)
  /\ pc[p] \notin {"commit", "refused"} =>
       \/ wrote[p] = NoWrites
       \/ pc[p] \notin {"idle", "select"} /\ call[p].op = "reconcile"
  /\ pc[p] # "idle" =>
       CASE call[p].op = "create" -> CreateHolds(p)
         [] call[p].op \in {"start", "fail", "complete"} -> TransitionHolds(p)
         [] call[p].op = "append" -> AppendHolds(p)
         [] call[p].op = "supersede" -> SupersedeHolds(p)
         [] call[p].op = "reconcile" -> ReconcileHolds(p)

\* A key is inserted by a call's last statement but one: nobody who holds one
\* waits any more.
KeysAtCommit ==
  \A p \in Procs :
    /\ \A m \in Messages : lock[<<"message", m>>] = p => pc[p] = "commit"
    /\ \A o \in Owners, r \in Requests :
         lock[<<"request", o, r>>] = p => pc[p] = "commit"

IdsAreFresh ==
  \A p, q \in Procs :
    /\ p # q /\ pc[p] # "idle" /\ pc[q] # "idle"
    /\ call[p].op = "create" /\ call[q].op = "create"
    => call[p].work # call[q].work

LockTypes ==
  /\ call \in [Procs -> Calls \cup {None}]
  /\ pc \in [Procs -> {"idle", "select", "conversation", "key", "record", "result",
                       "update", "existing", "insert", "replacement", "commit",
                       "refused", "done"}]
  /\ bound \in [Procs -> Works \cup {None}]
  /\ todo \in [Procs -> SUBSET Works]
  /\ lock \in [Rows -> Procs \cup {None}]
  /\ DOMAIN wrote = Procs

LockInv ==
  /\ StoreInv
  /\ LockTypes
  /\ \A c \in Convs : conv[c] # None
  /\ \A q \in Claims : claim[q] = None
  /\ RequestsAreDistinct
  /\ KeysAtCommit
  /\ IdsAreFresh
  /\ \A p \in Procs : CallHolds(p)

-----------------------------------------------------------------------------
(* Every commit is one transaction of DurableWork and nothing else changes   *)
(* the tables: what a call checked under its locks still holds when its      *)
(* writes land, whatever committed between its statements.                   *)
CommitsAreTransactions == [][Next]_vars

\* What p waits for lies in another conversation than the one it locked first:
\* the replacement of a superseded conversation, or the work an admission or an
\* append has found by its request.  Reconciliations lock several conversations,
\* but in one order.
ReachesElsewhere(p) ==
  \/ pc[p] = "replacement"
  \/ /\ pc[p] = "record" /\ call[p].op \in {"create", "append"}
     /\ Record(p) # None /\ work[Record(p)].conv # call[p].conv

(* Conversations are locked before records, and by reconciliations in id      *)
(* order: calls wait for each other in a circle only where one of them waits *)
(* outside the conversation it has locked.                                   *)
CyclesReachElsewhere ==
  \A S \in SUBSET Procs : S # {} /\ (\A p \in S : Blocked(p) /\ lock[Wants(p)] \in S)
    => \E p \in S : ReachesElsewhere(p)

(* Every call that has begun ends, even when it meets a lock cycle. *)
CallsEnd == \A p \in Procs : Active(p) ~> ~Active(p)
=============================================================================
