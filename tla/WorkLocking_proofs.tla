------------------------- MODULE WorkLocking_proofs -------------------------
(* The statements of the work store's transactions, for any number of calls, *)
(* conversations, works and messages.                                        *)
EXTENDS WorkLocking, DurableWork_proofs, FiniteSetTheorems, WellFoundedInduction,
        TLAPS

(* Small facts. *)

(* The least of some naturals. *)
LEMMA LeastNatural ==
  ASSUME NEW T, T \subseteq Nat, T # {}
  PROVE  \E n \in T : \A k \in T : n <= k
  <1>1. IsWellFoundedOn(OpToRel(<, Nat), Nat)
    BY NatLessThanWellFounded
  <1>2. PICK n \in T : \A k \in T : ~(<<k, n>> \in OpToRel(<, Nat))
    <2> HIDE DEF OpToRel
    <2> QED BY <1>1, WFMin
  <1>3. \A k \in T : ~(k < n)
    BY <1>2 DEF OpToRel
  <1> QED BY <1>3

(* A table with nothing or one row written to it. *)
LEMMA OverNothing ==
  ASSUME NEW S, NEW T, NEW f \in [S -> T]
  PROVE  Over(NoRows, f) = f
  BY DEF Over, NoRows

(* The rows of each kind. *)
LEMMA RowKinds ==
  /\ \A c \in Convs : <<"conversation", c>> \in Rows
  /\ \A w \in Works : <<"work", w>> \in Rows
  /\ \A m \in Messages : <<"message", m>> \in Rows
  /\ \A o \in Owners, r \in Requests : <<"request", o, r>> \in Rows
  BY DEF Rows

(* The statement that follows each. *)
LEMMA NextStatements ==
  ASSUME NEW p \in Procs
  PROVE  /\ call[p].op = "create" =>
              /\ pc[p] = "conversation" => After(p) = "key"
              /\ pc[p] = "key" => After(p) = "commit"
         /\ call[p].op \in {"start", "fail"} =>
              /\ pc[p] = "conversation" => After(p) = "record"
              /\ pc[p] = "record" => After(p) = "update"
              /\ pc[p] = "update" => After(p) = "commit"
         /\ call[p].op = "complete" =>
              /\ pc[p] = "conversation" => After(p) = "record"
              /\ pc[p] = "record" => After(p) = "result"
              /\ pc[p] = "result" => After(p) = "update"
              /\ pc[p] = "update" => After(p) = "commit"
         /\ call[p].op = "append" =>
              /\ pc[p] = "conversation" => After(p) = "record"
              /\ pc[p] = "record" => After(p) = "existing"
              /\ pc[p] = "existing" => After(p) = "insert"
              /\ pc[p] = "insert" => After(p) = "commit"
         /\ call[p].op = "supersede" =>
              /\ pc[p] = "conversation" => After(p) = "replacement"
              /\ pc[p] = "replacement" => After(p) = "commit"
         /\ call[p].op = "reconcile" =>
              /\ pc[p] = "select" => After(p) = "conversation"
              /\ pc[p] = "conversation" => After(p) = "record"
              /\ pc[p] = "record" => After(p) = "commit"
  <1>1. ASSUME NEW plan, plan = Plan(call[p].op), NEW i \in DOMAIN plan,
               plan[i] = pc[p], \A j \in DOMAIN plan : plan[j] = pc[p] => j = i
        PROVE  After(p) = plan[i + 1]
    BY <1>1 DEF After
  <1>2. CASE call[p].op = "create"
    <2> DEFINE plan == <<"conversation", "key", "commit">>
    <2>1. plan = Plan(call[p].op) /\ DOMAIN plan = 1..3
      BY <1>2 DEF Plan
    <2>2. plan[1] = "conversation" /\ plan[2] = "key" /\ plan[3] = "commit"
      OBVIOUS
    <2> HIDE DEF plan
    <2> QED BY <1>1, <1>2, <2>1, <2>2
  <1>3. CASE call[p].op \in {"start", "fail"}
    <2> DEFINE plan == <<"conversation", "record", "update", "commit">>
    <2>1. plan = Plan(call[p].op) /\ DOMAIN plan = 1..4
      BY <1>3 DEF Plan
    <2>2. /\ plan[1] = "conversation" /\ plan[2] = "record"
          /\ plan[3] = "update" /\ plan[4] = "commit"
      OBVIOUS
    <2> HIDE DEF plan
    <2> QED BY <1>1, <1>3, <2>1, <2>2
  <1>4. CASE call[p].op = "complete"
    <2> DEFINE plan == <<"conversation", "record", "result", "update", "commit">>
    <2>1. plan = Plan(call[p].op) /\ DOMAIN plan = 1..5
      BY <1>4 DEF Plan
    <2>2. /\ plan[1] = "conversation" /\ plan[2] = "record" /\ plan[3] = "result"
          /\ plan[4] = "update" /\ plan[5] = "commit"
      OBVIOUS
    <2> HIDE DEF plan
    <2> QED BY <1>1, <1>4, <2>1, <2>2
  <1>5. CASE call[p].op = "append"
    <2> DEFINE plan == <<"conversation", "record", "existing", "insert", "commit">>
    <2>1. plan = Plan(call[p].op) /\ DOMAIN plan = 1..5
      BY <1>5 DEF Plan
    <2>2. /\ plan[1] = "conversation" /\ plan[2] = "record" /\ plan[3] = "existing"
          /\ plan[4] = "insert" /\ plan[5] = "commit"
      OBVIOUS
    <2> HIDE DEF plan
    <2> QED BY <1>1, <1>5, <2>1, <2>2
  <1>6. CASE call[p].op = "supersede"
    <2> DEFINE plan == <<"conversation", "replacement", "commit">>
    <2>1. plan = Plan(call[p].op) /\ DOMAIN plan = 1..3
      BY <1>6 DEF Plan
    <2>2. plan[1] = "conversation" /\ plan[2] = "replacement" /\ plan[3] = "commit"
      OBVIOUS
    <2> HIDE DEF plan
    <2> QED BY <1>1, <1>6, <2>1, <2>2
  <1>7. CASE call[p].op = "reconcile"
    <2> DEFINE plan == <<"select", "conversation", "record", "commit">>
    <2>1. plan = Plan(call[p].op) /\ DOMAIN plan = 1..4
      BY <1>7 DEF Plan
    <2>2. /\ plan[1] = "select" /\ plan[2] = "conversation"
          /\ plan[3] = "record" /\ plan[4] = "commit"
      OBVIOUS
    <2> HIDE DEF plan
    <2> QED BY <1>1, <1>7, <2>1, <2>2
  <1> QED BY <1>2, <1>3, <1>4, <1>5, <1>6, <1>7

-----------------------------------------------------------------------------
(* Every commit is a transaction of DurableWork. *)

(* A call at its commit is one of the operations. *)
LEMMA CallKinds ==
  ASSUME LockInv, NEW p \in Procs, pc[p] # "idle"
  PROVE  /\ call[p] \in Calls /\ OneOwner(call[p])
         /\ call[p].op \in {"create", "start", "fail", "complete", "append",
                            "supersede", "reconcile"}
         /\ call[p].op = "create" =>
              /\ call[p].owner \in Owners /\ call[p].conv \in Convs
              /\ call[p].work \in Works /\ call[p].request \in Requests
              /\ OwnConv(call[p].conv, call[p].owner)
              /\ CreateHolds(p)
         /\ call[p].op \in {"start", "fail", "complete"} =>
              /\ call[p].conv \in Convs /\ call[p].work \in Works
              /\ TransitionHolds(p)
         /\ call[p].op = "complete" => call[p].msg \in Messages
         /\ call[p].op = "append" =>
              /\ call[p].owner \in Owners /\ call[p].conv \in Convs
              /\ call[p].msg \in Messages /\ call[p].request \in Requests
              /\ OwnConv(call[p].conv, call[p].owner)
              /\ AppendHolds(p)
         /\ call[p].op = "supersede" =>
              /\ call[p].conv \in Convs /\ call[p].by \in Convs
              /\ OwnConv(call[p].by, conv[call[p].conv].owner)
              /\ SupersedeHolds(p)
         /\ call[p].op = "reconcile" => ReconcileHolds(p)
  <1>1. CallHolds(p)
    BY DEF LockInv
  <1>2. call[p] \in Calls /\ OneOwner(call[p])
    BY <1>1 DEF CallHolds
  <1>3. call[p].op \in {"create", "start", "fail", "complete", "append",
                        "supersede", "reconcile"}
    BY <1>2 DEF Calls
  <1>4. CASE call[p].op = "create"
    BY <1>1, <1>2, <1>4 DEF CallHolds, Calls, OneOwner
  <1>5. CASE call[p].op \in {"start", "fail", "complete"}
    BY <1>1, <1>2, <1>5 DEF CallHolds, Calls
  <1>6. CASE call[p].op = "append"
    BY <1>1, <1>2, <1>6 DEF CallHolds, Calls, OneOwner
  <1>7. CASE call[p].op = "supersede"
    BY <1>1, <1>2, <1>7 DEF CallHolds, Calls, OneOwner
  <1>8. CASE call[p].op = "reconcile"
    BY <1>1, <1>2, <1>8 DEF CallHolds
  <1> QED BY <1>2, <1>3, <1>4, <1>5, <1>6, <1>7, <1>8

(* What every commit leaves alone. *)
LEMMA CommitFrame ==
  ASSUME LockInv, NEW p \in Procs, Commit(p)
  PROVE  /\ pc[p] = "commit"
         /\ conv' = Over(wrote[p].conv, conv)
         /\ work' = Over(wrote[p].work, work)
         /\ msg' = Over(wrote[p].msg, msg)
         /\ claim' = claim /\ current' = current
         /\ pass' = [pass EXCEPT ![p] = None]
         /\ call[p].op # "reconcile" => pass' = pass
         /\ conv \in [Convs -> ConvRow \cup {None}]
         /\ work \in [Works -> WorkRow \cup {None}]
         /\ msg \in [Messages -> MsgRow \cup {None}]
  <1>1. TypeOK /\ CallHolds(p) /\ Procs = Reconcilers
    BY OrderAssumption DEF LockInv, StoreInv
  <1>2. pass' = [pass EXCEPT ![p] = None]
    BY DEF Commit, Releases
  <1>3. call[p].op # "reconcile" => pass[p] = None
    BY <1>1 DEF CallHolds
  <1>4. call[p].op # "reconcile" => pass' = pass
    BY <1>1, <1>2, <1>3 DEF TypeOK
  <1> QED BY <1>1, <1>2, <1>4 DEF Commit, Releases, TypeOK

(* One row written to each table. *)
LEMMA OneRowWritten ==
  ASSUME LockInv, NEW row
  PROVE  /\ \A c \in Convs : Over(OneRow(c, row), conv) = [conv EXCEPT ![c] = row]
         /\ \A w \in Works : Over(OneRow(w, row), work) = [work EXCEPT ![w] = row]
         /\ \A m \in Messages : Over(OneRow(m, row), msg) = [msg EXCEPT ![m] = row]
  <1>1. TypeOK
    BY DEF LockInv, StoreInv
  <1>2. ASSUME NEW c \in Convs
        PROVE  Over(OneRow(c, row), conv) = [conv EXCEPT ![c] = row]
    <2>1. conv \in [Convs -> ConvRow \cup {None}]
      BY <1>1 DEF TypeOK
    <2>2. DOMAIN OneRow(c, row) = {c} /\ OneRow(c, row)[c] = row
      BY DEF OneRow
    <2> QED BY <2>1, <2>2 DEF Over
  <1>3. ASSUME NEW w \in Works
        PROVE  Over(OneRow(w, row), work) = [work EXCEPT ![w] = row]
    <2>1. work \in [Works -> WorkRow \cup {None}]
      BY <1>1 DEF TypeOK
    <2>2. DOMAIN OneRow(w, row) = {w} /\ OneRow(w, row)[w] = row
      BY DEF OneRow
    <2> QED BY <2>1, <2>2 DEF Over
  <1>4. ASSUME NEW m \in Messages
        PROVE  Over(OneRow(m, row), msg) = [msg EXCEPT ![m] = row]
    <2>1. msg \in [Messages -> MsgRow \cup {None}]
      BY <1>1 DEF TypeOK
    <2>2. DOMAIN OneRow(m, row) = {m} /\ OneRow(m, row)[m] = row
      BY DEF OneRow
    <2> QED BY <2>1, <2>2 DEF Over
  <1> QED BY <1>2, <1>3, <1>4

(* The commit of each operation is its transaction. *)
LEMMA CreateCommits ==
  ASSUME LockInv, NEW p \in Procs, Commit(p), call[p].op = "create"
  PROVE  CreateWork(call[p].work, call[p].owner, call[p].conv, call[p].request, None)
  <1> DEFINE a == call[p]
  <1>1. /\ CreateHolds(p) /\ pc[p] = "commit"
        /\ a.owner \in Owners /\ a.conv \in Convs /\ a.work \in Works
        /\ OwnConv(a.conv, a.owner)
    BY CallKinds, CommitFrame
  <1>2. /\ conv[a.conv].state = "open" /\ Named(p) = {} /\ work[a.work] = None
        /\ wrote[p] = [NoWrites EXCEPT !.work = OneRow(a.work, Admitted(p))]
    BY <1>1 DEF CreateHolds
  <1>3. /\ wrote[p].conv = NoRows /\ wrote[p].msg = NoRows
        /\ wrote[p].work = OneRow(a.work, Admitted(p))
    BY <1>2 DEF NoWrites
  <1>4. conv' = conv /\ msg' = msg /\ UNCHANGED <<claim, current, pass>>
    BY <1>3, CommitFrame, OverNothing
  <1>5. work' = [work EXCEPT ![a.work] = Admitted(p)]
    BY <1>1, <1>3, CommitFrame, OneRowWritten
  <1>6. CreateWorkOutcome(a.owner, a.conv, a.request, None) = "created"
    BY <1>1, <1>2 DEF CreateWorkOutcome, Named
  <1> QED BY <1>2, <1>4, <1>5, <1>6 DEF CreateWork, Admitted

(* start_work. *)
LEMMA StartCommits ==
  ASSUME LockInv, NEW p \in Procs, Commit(p), call[p].op = "start"
  PROVE  StartWork(call[p].work)
  <1> DEFINE w == call[p].work
  <1>1. TransitionHolds(p) /\ pc[p] = "commit" /\ w \in Works
    BY CallKinds, CommitFrame
  <1>2. /\ work[w] # None /\ <<work[w].state, "running">> \in AllowedTransitions
        /\ wrote[p] = [NoWrites EXCEPT !.work = OneRow(w, Started(work[w]))]
    BY <1>1 DEF TransitionHolds, Target
  <1>3. /\ wrote[p].conv = NoRows /\ wrote[p].msg = NoRows
        /\ wrote[p].work = OneRow(w, Started(work[w]))
    BY <1>2 DEF NoWrites
  <1>4. conv' = conv /\ msg' = msg /\ UNCHANGED <<claim, current, pass>>
    BY <1>3, CommitFrame, OverNothing
  <1>5. work' = [work EXCEPT ![w] = Started(work[w])]
    BY <1>1, <1>3, CommitFrame, OneRowWritten
  <1>6. Addressable(w)
    BY <1>1, <1>2 DEF LockInv, StoreInv, RowsAreConsistent
  <1> QED BY <1>2, <1>4, <1>5, <1>6 DEF StartWork

(* complete_work. *)
LEMMA CompleteCommits ==
  ASSUME LockInv, NEW p \in Procs, Commit(p), call[p].op = "complete"
  PROVE  CompleteWork(call[p].work, call[p].msg)
  <1> DEFINE w == call[p].work
             m == call[p].msg
  <1>1. TransitionHolds(p) /\ pc[p] = "commit" /\ w \in Works
    BY CallKinds, CommitFrame
  <1>2. /\ work[w] # None /\ <<work[w].state, "completed">> \in AllowedTransitions
        /\ ResultAccepted(w, m) /\ UnusedResult(m)
        /\ wrote[p] = [NoWrites EXCEPT !.work =
             OneRow(w, [work[w] EXCEPT !.state = "completed", !.result = m])]
    BY <1>1 DEF TransitionHolds, Target
  <1>3. /\ wrote[p].conv = NoRows /\ wrote[p].msg = NoRows
        /\ wrote[p].work =
             OneRow(w, [work[w] EXCEPT !.state = "completed", !.result = m])
    BY <1>2 DEF NoWrites
  <1>4. conv' = conv /\ msg' = msg /\ UNCHANGED <<claim, current, pass>>
    BY <1>3, CommitFrame, OverNothing
  <1>5. work' = [work EXCEPT ![w] =
                   [work[w] EXCEPT !.state = "completed", !.result = m]]
    <2>1. PICK row : row = [work[w] EXCEPT !.state = "completed", !.result = m]
      OBVIOUS
    <2>2. wrote[p].work = OneRow(w, row)
      BY <1>3, <2>1, Zenon
    <2>3. work' = [work EXCEPT ![w] = row]
      BY <1>1, <2>2, CommitFrame, OneRowWritten
    <2> QED BY <2>1, <2>3
  <1>6. Addressable(w)
    BY <1>1, <1>2 DEF LockInv, StoreInv, RowsAreConsistent
  <1>7. work' = [work EXCEPT ![w].state = "completed", ![w].result = m]
    BY <1>5, CommitFrame
  <1> QED BY <1>2, <1>4, <1>6, <1>7 DEF CompleteWork

(* add_message. *)
LEMMA AppendCommits ==
  ASSUME LockInv, NEW p \in Procs, Commit(p), call[p].op = "append"
  PROVE  \E t \in Payloads :
           AppendMessage(call[p].msg, call[p].owner, call[p].conv, "assistant",
                         call[p].request, t)
  <1> DEFINE a == call[p]
  <1>1. /\ AppendHolds(p) /\ pc[p] = "commit" /\ a.msg \in Messages
        /\ OwnConv(a.conv, a.owner)
    BY CallKinds, CommitFrame
  <1>2. PICK t \in Payloads :
          wrote[p] = [NoWrites EXCEPT !.msg = OneRow(a.msg, Appended(p, t))]
    BY <1>1 DEF AppendHolds
  <1>3. /\ bound[p] \in Binding(a.owner, a.conv, "assistant", a.request)
        /\ BindingAccepted(bound[p]) /\ conv[a.conv].state = "open"
        /\ msg[a.msg] = None
    BY <1>1 DEF AppendHolds
  <1>4. /\ wrote[p].conv = NoRows /\ wrote[p].work = NoRows
        /\ wrote[p].msg = OneRow(a.msg, Appended(p, t))
    BY <1>2 DEF NoWrites
  <1>5. conv' = conv /\ work' = work /\ UNCHANGED <<claim, current, pass>>
    BY <1>4, CommitFrame, OverNothing
  <1>6. msg' = [msg EXCEPT ![a.msg] = Appended(p, t)]
    BY <1>1, <1>4, CommitFrame, OneRowWritten
  <1>7. AppendMessage(a.msg, a.owner, a.conv, "assistant", a.request, t)
    BY <1>1, <1>3, <1>5, <1>6 DEF AppendMessage, Appended
  <1> QED BY <1>7

(* transition_conversation_lifecycle. *)
LEMMA SupersedeCommits ==
  ASSUME LockInv, NEW p \in Procs, Commit(p), call[p].op = "supersede"
  PROVE  TransitionConversation(call[p].conv, "superseded", call[p].by)
  <1> DEFINE c == call[p].conv
             r == call[p].by
  <1>1. SupersedeHolds(p) /\ pc[p] = "commit" /\ c \in Convs
    BY CallKinds, CommitFrame
  <1>2. /\ conv[c].state # "superseded" /\ ReplacementAccepted(c, r)
        /\ wrote[p] = [NoWrites EXCEPT !.conv =
             OneRow(c, [conv[c] EXCEPT !.state = "superseded", !.sup = r])]
    BY <1>1 DEF SupersedeHolds
  <1>3. /\ wrote[p].work = NoRows /\ wrote[p].msg = NoRows
        /\ wrote[p].conv =
             OneRow(c, [conv[c] EXCEPT !.state = "superseded", !.sup = r])
    BY <1>2 DEF NoWrites
  <1>4. work' = work /\ msg' = msg /\ UNCHANGED <<claim, current, pass>>
    BY <1>3, CommitFrame, OverNothing
  <1>5. conv' = [conv EXCEPT ![c] = [conv[c] EXCEPT !.state = "superseded", !.sup = r]]
    <2>1. PICK row : row = [conv[c] EXCEPT !.state = "superseded", !.sup = r]
      OBVIOUS
    <2>2. wrote[p].conv = OneRow(c, row)
      BY <1>3, <2>1, Zenon
    <2>3. conv' = [conv EXCEPT ![c] = row]
      BY <1>1, <2>2, CommitFrame, OneRowWritten
    <2> QED BY <2>1, <2>3
  <1>6. conv' = [conv EXCEPT ![c].state = "superseded", ![c].sup = r]
    BY <1>5, CommitFrame
  <1>7. conv[c] # None
    BY <1>1 DEF LockInv
  <1> QED BY <1>2, <1>4, <1>6, <1>7 DEF TransitionConversation

(* A live row that fails has no result to give up. *)
LEMMA LiveRowFails ==
  ASSUME NEW row \in WorkRow, row.result = None, NEW f
  PROVE  [row EXCEPT !.state = "failed", !.failure = f] =
           [row EXCEPT !.state = "failed", !.result = None, !.failure = f]
  BY DEF WorkRow

(* The writes that fail a set of live works, as one transaction. *)
LEMMA FailingCommits ==
  ASSUME LockInv, NEW p \in Procs, Commit(p), NEW S \in SUBSET Works,
         NEW f \in FailureCodes, wrote[p] = Failing(S, f),
         \A w \in S : work[w] # None /\ work[w].state \in Live
  PROVE  FailWorks(S, f) /\ conv' = conv
  <1>1. \A w \in S : work[w] \in WorkRow /\ work[w].result = None
    BY CommitFrame DEF LockInv, StoreInv, RowsAreConsistent, LiveRow
  <1>2. /\ wrote[p].conv = NoRows
        /\ DOMAIN wrote[p].work = S
        /\ \A w \in S : wrote[p].work[w] =
             [work[w] EXCEPT !.state = "failed", !.failure = f]
        /\ DOMAIN wrote[p].msg = Provisional(S)
        /\ \A m \in Provisional(S) : wrote[p].msg[m] = None
    <2>1. PICK g : g = [w \in S |-> [work[w] EXCEPT !.state = "failed", !.failure = f]]
      OBVIOUS
    <2>2. PICK h : h = [m \in Provisional(S) |-> None]
      OBVIOUS
    <2>3. wrote[p] = [conv |-> NoRows, work |-> g, msg |-> h]
      BY <2>1, <2>2, Zenon DEF Failing
    <2>4. wrote[p].conv = NoRows /\ wrote[p].work = g /\ wrote[p].msg = h
      BY <2>3
    <2>5. /\ DOMAIN g = S
          /\ \A w \in S : g[w] = [work[w] EXCEPT !.state = "failed", !.failure = f]
      BY <2>1, Zenon
    <2>6. DOMAIN h = Provisional(S) /\ \A m \in Provisional(S) : h[m] = None
      BY <2>2
    <2> QED BY <2>4, <2>5, <2>6, Zenon
  <1>3. Provisional(S) \subseteq Messages
    BY DEF Provisional
  <1>4. conv' = conv
    BY <1>2, CommitFrame, OverNothing
  <1>5. work' = [w \in Works |-> IF w \in S THEN wrote[p].work[w] ELSE work[w]]
    <2>1. PICK g : g = wrote[p].work
      OBVIOUS
    <2>2. work' = Over(g, work) /\ DOMAIN g = S /\ DOMAIN work = Works
      BY <1>2, <2>1, CommitFrame
    <2>3. work' = [w \in Works |-> IF w \in S THEN g[w] ELSE work[w]]
      BY <2>2 DEF Over
    <2> QED BY <2>1, <2>3, Zenon
  <1>6. \A w \in S : wrote[p].work[w] =
          [work[w] EXCEPT !.state = "failed", !.result = None, !.failure = f]
    <2> TAKE w \in S
    <2>1. PICK row : row = work[w]
      OBVIOUS
    <2>2. row \in WorkRow /\ row.result = None
      BY <1>1, <2>1
    <2>3. [row EXCEPT !.state = "failed", !.failure = f] =
            [row EXCEPT !.state = "failed", !.result = None, !.failure = f]
      BY <2>2, LiveRowFails
    <2> QED BY <1>2, <2>1, <2>3, Zenon
  <1>7. work' = [w \in Works |-> IF w \in S
                   THEN [work[w] EXCEPT !.state = "failed", !.result = None,
                                        !.failure = f]
                   ELSE work[w]]
    BY <1>5, <1>6
  <1>8. msg' = [m \in Messages |-> IF m \in Provisional(S) THEN None ELSE msg[m]]
    <2>1. PICK g : g = wrote[p].msg
      OBVIOUS
    <2>2. /\ msg' = Over(g, msg) /\ DOMAIN g = Provisional(S) /\ DOMAIN msg = Messages
          /\ \A m \in Provisional(S) : g[m] = None
      BY <1>2, <2>1, CommitFrame
    <2> QED BY <1>3, <2>2 DEF Over
  <1>9. claim' = ClaimsWithout(Provisional(S))
    <2>1. \A q \in Claims : claim[q] = None
      BY DEF LockInv
    <2>2. claim \in [Claims -> Messages \cup {None}]
      BY DEF LockInv, StoreInv, TypeOK
    <2> QED BY <2>1, <2>2, CommitFrame DEF ClaimsWithout
  <1>10. \A v \in Works : work[v] # None => work[v].result \notin Provisional(S)
    <2> SUFFICES ASSUME NEW v \in Works, work[v] # None,
                        work[v].result \in Provisional(S)
                 PROVE  FALSE
      OBVIOUS
    <2> DEFINE m == work[v].result
    <2>1. m \in Messages /\ msg[m] # None /\ msg[m].work \in S /\ m # None
      BY NoneAssumption DEF Provisional
    <2>2. BindingsAreExact /\ RowsAreConsistent
      BY DEF LockInv, StoreInv
    <2>3. work[v].state = "completed"
      <3>1. work[v] \in WorkRow
        BY CommitFrame
      <3>2. work[v].state \in Live \cup {"completed", "failed"}
        BY <3>1 DEF WorkRow, WorkStates, Live
      <3> QED BY <2>1, <2>2, <3>2 DEF RowsAreConsistent, LiveRow, FailedRow
    <2>4. msg[m].work \in {None, v}
      BY <2>2, <2>3 DEF RowsAreConsistent, CompletedRow, Associated
    <2>5. msg[m].work = v
      BY <2>1, <2>4, NoneAssumption
    <2> QED BY <2>1, <2>3, <2>5 DEF Live
  <1> QED BY <1>4, <1>7, <1>8, <1>9, <1>10 DEF FailWorks

(* fail_work. *)
LEMMA FailCommits ==
  ASSUME LockInv, NEW p \in Procs, Commit(p), call[p].op = "fail"
  PROVE  \E f \in FailureCodes : FailWork(call[p].work, f)
  <1> DEFINE w == call[p].work
  <1>1. TransitionHolds(p) /\ pc[p] = "commit" /\ w \in Works
    BY CallKinds, CommitFrame
  <1>2. /\ work[w] # None /\ <<work[w].state, "failed">> \in AllowedTransitions
        /\ \E f \in FailureCodes : wrote[p] = Failing({w}, f)
    BY <1>1 DEF TransitionHolds, Target
  <1>3. PICK f \in FailureCodes : wrote[p] = Failing({w}, f)
    BY <1>2
  <1>4. work[w].state \in Live
    BY <1>2 DEF AllowedTransitions, Live
  <1>5. FailWorks({w}, f) /\ conv' = conv
    BY <1>1, <1>2, <1>3, <1>4, FailingCommits
  <1>6. UNCHANGED <<conv, current, pass>>
    BY <1>5, CommitFrame
  <1>7. Addressable(w)
    BY <1>1, <1>2 DEF LockInv, StoreInv, RowsAreConsistent
  <1>8. Deletable(w)
    BY <1>1, OnlyAnswerIsBound DEF LockInv, StoreInv
  <1> QED BY <1>2, <1>5, <1>6, <1>7, <1>8 DEF FailWork

(* reconcile_interrupted_work. *)
LEMMA ReconcileCommits ==
  ASSUME LockInv, NEW p \in Procs, Commit(p), call[p].op = "reconcile"
  PROVE  FinishReconcile(p)
  <1>1. ReconcileHolds(p) /\ pc[p] = "commit"
    BY CallKinds, CommitFrame
  <1>2. /\ pass[p] # None /\ todo[p] = {}
        /\ wrote[p] = Failing(StillLive(Settled(p)), "interrupted")
    BY <1>1 DEF ReconcileHolds
  <1>3. Settled(p) = pass[p]
    BY <1>2 DEF Settled
  <1>4. pass[p] \in SUBSET Works
    BY <1>2, OrderAssumption DEF LockInv, StoreInv, TypeOK
  <1>5. \A w \in pass[p] : work[w] # None
    BY <1>2, OrderAssumption DEF LockInv, StoreInv, CandidatesExist
  <1>6. FailWorks(StillLive(pass[p]), "interrupted") /\ conv' = conv
    <2>1. StillLive(pass[p]) \in SUBSET Works
      BY <1>4 DEF StillLive
    <2>2. \A w \in StillLive(pass[p]) : work[w] # None /\ work[w].state \in Live
      BY <1>5 DEF StillLive
    <2>3. wrote[p] = Failing(StillLive(pass[p]), "interrupted")
      BY <1>2, <1>3
    <2> QED BY <2>1, <2>2, <2>3, InterruptedAssumption, FailingCommits
  <1>7. \A w \in pass[p] : ConsistentCandidate(w)
    <2> TAKE w \in pass[p]
    <2>1. /\ w \in Works /\ work[w] # None
          /\ RowsAreConsistent /\ BindingsAreExact
      BY <1>4, <1>5 DEF LockInv, StoreInv
    <2>2. Deletable(w)
      BY <2>1, OnlyAnswerIsBound
    <2> QED BY <2>1, <2>2 DEF ConsistentCandidate, RowsAreConsistent, LiveRow
  <1>8. pass' = [pass EXCEPT ![p] = None] /\ UNCHANGED <<conv, current>>
    BY <1>6, CommitFrame
  <1> QED BY <1>2, <1>6, <1>7, <1>8 DEF FinishReconcile

(* What a call checked under its locks still holds when its writes land. *)
LEMMA CommitIsTransaction ==
  ASSUME LockInv, NEW p \in Procs, Commit(p)
  PROVE  Next
  <1>1. pc[p] # "idle" /\ p \in Reconcilers
    BY CommitFrame, OrderAssumption
  <1>2. CASE call[p].op = "create"
    BY <1>1, <1>2, CallKinds, CreateCommits DEF Next
  <1>3. CASE call[p].op = "start"
    BY <1>1, <1>3, CallKinds, StartCommits DEF Next
  <1>4. CASE call[p].op = "complete"
    BY <1>1, <1>4, CallKinds, CompleteCommits DEF Next
  <1>5. CASE call[p].op = "fail"
    BY <1>1, <1>5, CallKinds, FailCommits DEF Next
  <1>6. CASE call[p].op = "append"
    BY <1>1, <1>6, CallKinds, AppendCommits DEF Next, Roles
  <1>7. CASE call[p].op = "supersede"
    BY <1>1, <1>7, CallKinds, SupersedeCommits DEF Next, ConvStates
  <1>8. CASE call[p].op = "reconcile"
    BY <1>1, <1>8, ReconcileCommits DEF Next
  <1> QED BY <1>1, <1>2, <1>3, <1>4, <1>5, <1>6, <1>7, <1>8, CallKinds

-----------------------------------------------------------------------------
(* What a commit changes lies in conversations its call has locked. *)

Respects(p) ==
  /\ \A c \in Convs : /\ conv'[c] # None
                      /\ conv'[c].owner = conv[c].owner
                      /\ conv'[c] # conv[c] => Locked(p, c)
  /\ \A w \in Works : work[w] # None =>
       /\ work'[w] # None
       /\ work'[w].conv = work[w].conv
       /\ work'[w].owner = work[w].owner
       /\ work'[w].request = work[w].request
       /\ work'[w] # work[w] => Locked(p, work[w].conv)
  /\ \A w \in Works : work[w] = None /\ work'[w] # None =>
       /\ call[p].op = "create" /\ w = call[p].work
       /\ Locked(p, work'[w].conv)
       /\ lock[<<"request", work'[w].owner, work'[w].request>>] = p
  /\ \A m \in Messages : msg[m] # None /\ msg'[m] # msg[m] =>
       msg'[m] = None /\ Locked(p, msg[m].conv)
  /\ \A m \in Messages : msg[m] = None /\ msg'[m] # None =>
       Locked(p, msg'[m].conv) /\ lock[<<"message", m>>] = p

(* A new work is inserted into the conversation its call has locked. *)
LEMMA CreateRespects ==
  ASSUME LockInv, NEW p \in Procs, Commit(p), call[p].op = "create"
  PROVE  Respects(p)
  <1> DEFINE a == call[p]
  <1>1. /\ a.work \in Works /\ CreateHolds(p) /\ pc[p] = "commit"
        /\ CreateWork(a.work, a.owner, a.conv, a.request, None)
    BY CallKinds, CreateCommits, CommitFrame
  <1>2. /\ Locked(p, a.conv) /\ lock[<<"request", a.owner, a.request>>] = p
        /\ work[a.work] = None
    BY <1>1 DEF CreateHolds
  <1>3. conv' = conv /\ msg' = msg
    BY <1>1 DEF CreateWork
  <1>4. \A c \in Convs : conv[c] # None
    BY DEF LockInv
  <1>5. PICK row : /\ row = [owner |-> a.owner, conv |-> a.conv, request |-> a.request,
                       client |-> None, state |-> "pending", started |-> FALSE,
                       result |-> None, failure |-> None]
                   /\ work' = [work EXCEPT ![a.work] = row]
    BY <1>1 DEF CreateWork
  <1>6. row.conv = a.conv /\ row.owner = a.owner /\ row.request = a.request
    BY <1>5
  <1>7. \A w \in Works : work'[w] = IF w = a.work THEN row ELSE work[w]
    BY <1>1, <1>5, CommitFrame
  <1> QED BY <1>1, <1>2, <1>3, <1>4, <1>6, <1>7 DEF Respects

(* A work that is rewritten keeps its conversation, owner and request. *)
LEMMA RowRespects ==
  ASSUME LockInv, NEW p \in Procs, NEW w \in Works, work[w] # None,
         Locked(p, work[w].conv), NEW row, row # None, row.conv = work[w].conv,
         row.owner = work[w].owner, row.request = work[w].request,
         work' = [work EXCEPT ![w] = row], conv' = conv, msg' = msg
  PROVE  Respects(p)
  <1>1. \A c \in Convs : conv[c] # None
    BY DEF LockInv
  <1>2. work \in [Works -> WorkRow \cup {None}]
    BY DEF LockInv, StoreInv, TypeOK
  <1>3. \A v \in Works : work'[v] = IF v = w THEN row ELSE work[v]
    BY <1>2
  <1> QED BY <1>1, <1>3 DEF Respects

(* A started work lies in the conversation its call has locked ... *)
LEMMA StartRespects ==
  ASSUME LockInv, NEW p \in Procs, Commit(p), call[p].op = "start"
  PROVE  Respects(p)
  <1> DEFINE w == call[p].work
  <1>1. w \in Works /\ TransitionHolds(p) /\ pc[p] = "commit" /\ StartWork(w)
    BY CallKinds, StartCommits, CommitFrame
  <1>2. work[w] # None /\ Locked(p, work[w].conv)
    BY <1>1 DEF TransitionHolds
  <1>3. work[w] \in WorkRow
    BY <1>1, <1>2, CommitFrame
  <1>4. PICK row : row = Started(work[w])
    OBVIOUS
  <1>5. /\ row \in WorkRow /\ row.conv = work[w].conv
        /\ row.owner = work[w].owner /\ row.request = work[w].request
    BY <1>3, <1>4 DEF Started, WorkRow, WorkStates
  <1>6. work' = [work EXCEPT ![w] = row] /\ conv' = conv /\ msg' = msg
    BY <1>1, <1>4 DEF StartWork
  <1> QED BY <1>1, <1>2, <1>5, <1>6, NoneAssumption, RowRespects

(* ... and so does a completed one. *)
LEMMA CompleteRespects ==
  ASSUME LockInv, NEW p \in Procs, Commit(p), call[p].op = "complete"
  PROVE  Respects(p)
  <1> DEFINE w == call[p].work
             m == call[p].msg
  <1>1. /\ w \in Works /\ m \in Messages /\ TransitionHolds(p) /\ pc[p] = "commit"
        /\ CompleteWork(w, m)
    BY CallKinds, CompleteCommits, CommitFrame
  <1>2. work[w] # None /\ Locked(p, work[w].conv)
    BY <1>1 DEF TransitionHolds
  <1>3. work[w] \in WorkRow
    BY <1>1, <1>2, CommitFrame
  <1>4. PICK row : row = [work[w] EXCEPT !.state = "completed", !.result = m]
    OBVIOUS
  <1>5. /\ row \in WorkRow /\ row.conv = work[w].conv
        /\ row.owner = work[w].owner /\ row.request = work[w].request
    BY <1>1, <1>3, <1>4 DEF WorkRow, WorkStates
  <1>6. work' = [work EXCEPT ![w] = row] /\ conv' = conv /\ msg' = msg
    BY <1>1, <1>4 DEF CompleteWork
  <1> QED BY <1>1, <1>2, <1>5, <1>6, NoneAssumption, RowRespects

(* A new message lies in the conversation its call has locked. *)
LEMMA AppendRespects ==
  ASSUME LockInv, NEW p \in Procs, Commit(p), call[p].op = "append"
  PROVE  Respects(p)
  <1> DEFINE a == call[p]
  <1>1. /\ a.msg \in Messages /\ AppendHolds(p) /\ pc[p] = "commit"
        /\ \E t \in Payloads :
             AppendMessage(a.msg, a.owner, a.conv, "assistant", a.request, t)
    BY CallKinds, AppendCommits, CommitFrame
  <1>2. /\ Locked(p, a.conv) /\ lock[<<"message", a.msg>>] = p /\ msg[a.msg] = None
    BY <1>1 DEF AppendHolds
  <1>3. conv' = conv /\ work' = work
    BY <1>1 DEF AppendMessage
  <1>4. \A c \in Convs : conv[c] # None
    BY DEF LockInv
  <1>5. PICK t \in Payloads, b \in Binding(a.owner, a.conv, "assistant", a.request) :
          msg' = [msg EXCEPT ![a.msg] =
            [owner |-> a.owner, conv |-> a.conv, role |-> "assistant",
             request |-> a.request, payload |-> t, work |-> b]]
    BY <1>1 DEF AppendMessage
  <1>6. /\ msg'[a.msg].conv = a.conv
        /\ \A m \in Messages \ {a.msg} : msg'[m] = msg[m]
    BY <1>1, <1>5, CommitFrame
  <1> QED BY <1>1, <1>2, <1>3, <1>4, <1>6 DEF Respects

(* The superseded conversation is locked. *)
LEMMA SupersedeRespects ==
  ASSUME LockInv, NEW p \in Procs, Commit(p), call[p].op = "supersede"
  PROVE  Respects(p)
  <1> DEFINE c == call[p].conv
             r == call[p].by
  <1>1. /\ c \in Convs /\ r \in Convs /\ SupersedeHolds(p) /\ pc[p] = "commit"
        /\ TransitionConversation(c, "superseded", r)
    BY CallKinds, SupersedeCommits, CommitFrame
  <1>2. Locked(p, c)
    BY <1>1 DEF SupersedeHolds
  <1>3. /\ conv' = [conv EXCEPT ![c] =
                      [conv[c] EXCEPT !.state = "superseded", !.sup = r]]
        /\ work' = work /\ msg' = msg
    <2>1. conv' = [conv EXCEPT ![c].state = "superseded", ![c].sup = r]
      BY <1>1 DEF TransitionConversation
    <2> QED BY <1>1, <2>1, CommitFrame DEF TransitionConversation
  <1>4. \A d \in Convs : conv[d] \in ConvRow
    BY CommitFrame DEF LockInv
  <1>5. PICK row : row = [conv[c] EXCEPT !.state = "superseded", !.sup = r]
    OBVIOUS
  <1>6. row \in ConvRow /\ row.owner = conv[c].owner
    BY <1>1, <1>4, <1>5 DEF ConvRow, ConvStates
  <1>7. \A d \in Convs : conv'[d] = IF d = c THEN row ELSE conv[d]
    BY <1>1, <1>3, <1>5, CommitFrame
  <1> QED BY <1>2, <1>3, <1>4, <1>6, <1>7, NoneAssumption DEF Respects

(* Works that fail, and their messages, lie in locked conversations. *)
LEMMA FailingRespects ==
  ASSUME LockInv, NEW p \in Procs, Commit(p), NEW S \in SUBSET Works,
         NEW f \in FailureCodes, FailWorks(S, f), conv' = conv,
         \A w \in S : work[w] # None /\ Locked(p, work[w].conv)
  PROVE  Respects(p)
  <1>1. \A c \in Convs : conv[c] # None
    BY DEF LockInv
  <1>2. \A w \in S : work[w] \in WorkRow
    BY CommitFrame
  <1>3. ASSUME NEW w \in S
        PROVE  /\ work'[w] \in WorkRow
               /\ work'[w].conv = work[w].conv
               /\ work'[w].owner = work[w].owner
               /\ work'[w].request = work[w].request
    <2>1. work'[w] = [work[w] EXCEPT !.state = "failed", !.result = None,
                                     !.failure = f]
      BY <1>3 DEF FailWorks
    <2>2. work[w] \in WorkRow
      BY <1>2, <1>3
    <2> QED BY <2>1, <2>2 DEF WorkRow, WorkStates
  <1>4. \A w \in Works \ S : work'[w] = work[w]
    BY DEF FailWorks
  <1>5. \A m \in Messages : msg'[m] = IF m \in Provisional(S) THEN None ELSE msg[m]
    BY DEF FailWorks
  <1>6. \A m \in Provisional(S) :
          m \in Messages /\ msg[m] # None /\ Locked(p, msg[m].conv)
    <2> TAKE m \in Provisional(S)
    <2>1. m \in Messages /\ msg[m] # None /\ msg[m].work \in S
      BY DEF Provisional
    <2>2. msg[m].work # None
      BY <2>1, NoneAssumption
    <2>3. msg[m].conv = work[msg[m].work].conv
      BY <2>1, <2>2 DEF LockInv, StoreInv, BindingsAreExact, Associated
    <2> QED BY <2>1, <2>3
  <1>7. \A w \in Works : work[w] # None =>
          /\ work'[w] # None
          /\ work'[w].conv = work[w].conv
          /\ work'[w].owner = work[w].owner
          /\ work'[w].request = work[w].request
          /\ work'[w] # work[w] => Locked(p, work[w].conv)
    BY <1>3, <1>4, NoneAssumption
  <1>8. \A w \in Works : work[w] = None => work'[w] = None
    BY <1>4
  <1>9. \A m \in Messages : msg[m] # None /\ msg'[m] # msg[m] =>
          msg'[m] = None /\ Locked(p, msg[m].conv)
    BY <1>5, <1>6
  <1>10. \A m \in Messages : msg[m] = None => msg'[m] = None
    BY <1>5
  <1> QED BY <1>1, <1>7, <1>8, <1>9, <1>10 DEF Respects

(* Every commit stays inside what its call has locked. *)
LEMMA CommitRespects ==
  ASSUME LockInv, NEW p \in Procs, Commit(p)
  PROVE  Respects(p)
  <1>1. pc[p] = "commit" /\ p \in Reconcilers
    BY CommitFrame, OrderAssumption
  <1>2. CASE call[p].op = "create"
    BY <1>2, CreateRespects
  <1>3. CASE call[p].op = "start"
    BY <1>3, StartRespects
  <1>4. CASE call[p].op = "complete"
    BY <1>4, CompleteRespects
  <1>5. CASE call[p].op = "append"
    BY <1>5, AppendRespects
  <1>6. CASE call[p].op = "supersede"
    BY <1>6, SupersedeRespects
  <1>7. CASE call[p].op = "fail"
    <2> DEFINE w == call[p].work
    <2>1. TransitionHolds(p) /\ w \in Works
      BY <1>1, <1>7, CallKinds
    <2>2. PICK f \in FailureCodes : FailWork(w, f)
      BY <1>7, FailCommits
    <2>3. work[w] # None /\ Locked(p, work[w].conv)
      BY <1>1, <2>1 DEF TransitionHolds
    <2>4. FailWorks({w}, f) /\ conv' = conv
      BY <2>2 DEF FailWork
    <2> QED BY <2>1, <2>3, <2>4, FailingRespects
  <1>8. CASE call[p].op = "reconcile"
    <2>1. ReconcileHolds(p) /\ FinishReconcile(p)
      BY <1>1, <1>8, CallKinds, ReconcileCommits
    <2>2. /\ pass[p] # None /\ Settled(p) = pass[p]
          /\ \A w \in Settled(p) : Locked(p, work[w].conv)
      BY <1>1, <2>1 DEF ReconcileHolds, Settled
    <2>3. pass[p] \in SUBSET Works /\ \A w \in pass[p] : work[w] # None
      BY <1>1, <2>2 DEF LockInv, StoreInv, TypeOK, CandidatesExist
    <2>4. FailWorks(StillLive(pass[p]), "interrupted") /\ conv' = conv
      BY <2>1 DEF FinishReconcile
    <2>5. /\ StillLive(pass[p]) \in SUBSET Works
          /\ \A w \in StillLive(pass[p]) : work[w] # None /\ Locked(p, work[w].conv)
      BY <2>2, <2>3 DEF StillLive
    <2> QED BY <2>4, <2>5, InterruptedAssumption, FailingRespects
  <1> QED BY <1>1, <1>2, <1>3, <1>4, <1>5, <1>6, <1>7, <1>8, CallKinds

-----------------------------------------------------------------------------
(* What the steps of others leave of what a call has locked and checked. *)

\* A step that is not the call's own.
Same(q) ==
  /\ call'[q] = call[q] /\ pc'[q] = pc[q] /\ bound'[q] = bound[q]
  /\ todo'[q] = todo[q] /\ wrote'[q] = wrote[q] /\ pass'[q] = pass[q]
  /\ \A x \in Rows : lock'[x] = q <=> lock[x] = q

\* A step that respects the locks of q.
Spares(q) ==
  /\ \A c \in Convs : /\ conv'[c] # None
                      /\ conv'[c].owner = conv[c].owner
                      /\ Locked(q, c) => conv'[c] = conv[c]
  /\ \A w \in Works : work[w] # None =>
       /\ work'[w] # None
       /\ work'[w].conv = work[w].conv
       /\ work'[w].owner = work[w].owner
       /\ work'[w].request = work[w].request
       /\ Locked(q, work[w].conv) => work'[w] = work[w]
  /\ \A w \in Works : work[w] = None /\ work'[w] # None =>
       /\ ~Locked(q, work'[w].conv)
       /\ lock[<<"request", work'[w].owner, work'[w].request>>] # q
       /\ pc[q] # "idle" /\ call[q].op = "create" => call[q].work # w
  /\ \A m \in Messages : msg[m] # None =>
       /\ msg'[m] \in {None, msg[m]}
       /\ Locked(q, msg[m].conv) => msg'[m] = msg[m]
  /\ \A m \in Messages : msg[m] = None /\ msg'[m] # None =>
       ~Locked(q, msg'[m].conv) /\ lock[<<"message", m>>] # q

(* In a conversation that q has locked, everything stays. *)
LEMMA LockedStays ==
  ASSUME LockInv, StoreInv', NEW q \in Procs, Spares(q)
  PROVE  /\ \A w \in Works : work[w] # None /\ Locked(q, work[w].conv) =>
              work'[w] = work[w] /\ BoundTo(w)' = BoundTo(w)
         /\ \A w \in Works : work'[w] # None /\ Locked(q, work'[w].conv) =>
              work'[w] = work[w]
         /\ \A m \in Messages : msg[m] # None /\ Locked(q, msg[m].conv) =>
              msg'[m] = msg[m]
         /\ \A m \in Messages : msg'[m] # None /\ Locked(q, msg'[m].conv) =>
              msg'[m] = msg[m]
  <1>1. \A w \in Works : work'[w] # None /\ Locked(q, work'[w].conv) =>
          work'[w] = work[w]
    BY DEF Spares
  <1>2. \A m \in Messages : msg[m] # None /\ Locked(q, msg[m].conv) =>
          msg'[m] = msg[m]
    BY DEF Spares
  <1>3. \A m \in Messages : msg'[m] # None /\ Locked(q, msg'[m].conv) =>
          msg'[m] = msg[m]
    BY DEF Spares
  <1>4. \A w \in Works : work[w] # None /\ Locked(q, work[w].conv) =>
          work'[w] = work[w]
    BY DEF Spares
  <1>5. ASSUME NEW w \in Works, work[w] # None, Locked(q, work[w].conv)
        PROVE  BoundTo(w)' = BoundTo(w)
    <2>1. BindingsAreExact /\ BindingsAreExact' /\ w # None
      BY NoneAssumption DEF LockInv, StoreInv
    <2>2. \A m \in Messages : msg[m] # None /\ msg[m].work = w =>
            msg[m].conv = work[w].conv
      BY <2>1 DEF BindingsAreExact, Associated
    <2>3. \A m \in Messages : msg'[m] # None /\ msg'[m].work = w =>
            msg'[m].conv = work'[w].conv
      BY <2>1 DEF BindingsAreExact, Associated
    <2>4. work'[w] = work[w]
      BY <1>4, <1>5
    <2>5. \A m \in Messages : (msg[m] # None /\ msg[m].work = w) <=>
                              (msg'[m] # None /\ msg'[m].work = w)
      BY <1>2, <1>3, <1>5, <2>2, <2>3, <2>4
    <2> QED BY <2>5 DEF BoundTo
  <1> QED BY <1>1, <1>2, <1>3, <1>4, <1>5

(* What an admission has locked and checked stands. *)
LEMMA CreateKeeps ==
  ASSUME LockInv, StoreInv', NEW q \in Procs, Same(q), Spares(q),
         pc[q] # "idle", call[q].op = "create"
  PROVE  CreateHolds(q)'
  <1> DEFINE a == call[q]
  <1>1. CreateHolds(q) /\ a.work \in Works /\ a.conv \in Convs
           /\ a.owner \in Owners /\ a.request \in Requests
    BY CallKinds
  <1>2. call'[q] = call[q] /\ pc'[q] = pc[q] /\ wrote'[q] = wrote[q]
    BY DEF Same
  <1>3. \A x \in Rows : lock'[x] = q <=> lock[x] = q
    BY DEF Same
  <1>4. pc[q] # "done" => work'[a.work] = None
    BY <1>1 DEF Spares, CreateHolds
  <1>5. pc[q] \in {"key", "record"} => HoldsOneConversation(q)'
    BY <1>1, <1>2, <1>3 DEF CreateHolds, HoldsOneConversation
  <1>6. pc[q] \in {"key", "commit"} => /\ lock'[<<"conversation", a.conv>>] = q
                                       /\ conv'[a.conv].state = "open"
    BY <1>1, <1>3, RowKinds DEF Spares, CreateHolds, Locked
  <1>7. pc[q] = "commit" =>
          /\ lock'[<<"request", a.owner, a.request>>] = q
          /\ Named(q)' = {}
          /\ wrote'[q] = [NoWrites EXCEPT !.work = OneRow(a.work, Admitted(q)')]
    <2> SUFFICES ASSUME pc[q] = "commit"
                 PROVE  /\ lock'[<<"request", a.owner, a.request>>] = q
                        /\ Named(q)' = {}
                        /\ wrote'[q] = [NoWrites EXCEPT !.work =
                                          OneRow(a.work, Admitted(q)')]
      OBVIOUS
    <2>1. lock[<<"request", a.owner, a.request>>] = q /\ Named(q) = {}
      BY <1>1 DEF CreateHolds
    <2>2. lock'[<<"request", a.owner, a.request>>] = q
      BY <1>1, <1>3, <2>1, RowKinds
    <2>3. \A w \in Works : ~(work[w] # None /\ work[w].owner = a.owner
                               /\ work[w].request = a.request)
      BY <2>1 DEF Named
    <2>4. \A w \in Works : ~(work'[w] # None /\ work'[w].owner = a.owner
                               /\ work'[w].request = a.request)
      BY <2>1, <2>3 DEF Spares
    <2>5. Named(q)' = {}
      BY <1>2, <2>4 DEF Named
    <2>6. Admitted(q)' = Admitted(q)
      BY <1>2 DEF Admitted
    <2>7. wrote[q] = [NoWrites EXCEPT !.work = OneRow(a.work, Admitted(q))]
      BY <1>1 DEF CreateHolds
    <2> QED BY <1>2, <2>2, <2>5, <2>6, <2>7
  <1> QED BY <1>1, <1>2, <1>4, <1>5, <1>6, <1>7 DEF CreateHolds, Locked

(* What a transition has locked and checked stands. *)
LEMMA TransitionKeeps ==
  ASSUME LockInv, StoreInv', NEW q \in Procs, Same(q), Spares(q),
         pc[q] # "idle", call[q].op \in {"start", "fail", "complete"}
  PROVE  TransitionHolds(q)'
  <1>1. PICK a, w : a = call[q] /\ w = a.work
    OBVIOUS
  <1>2. TransitionHolds(q) /\ w \in Works /\ a.conv \in Convs
          /\ (a.op = "complete" => a.msg \in Messages)
          /\ a.op \in {"start", "fail", "complete"}
    BY <1>1, CallKinds
  <1>3. call'[q] = a /\ pc'[q] = pc[q] /\ wrote'[q] = wrote[q]
    BY <1>1 DEF Same
  <1>4. \A x \in Rows : lock'[x] = q <=> lock[x] = q
    BY DEF Same
  <1>5. pc[q] = "record" => HoldsOneConversation(q)'
    BY <1>1, <1>2, <1>3, <1>4 DEF TransitionHolds, HoldsOneConversation
  <1>6. pc[q] \in {"record", "result", "update", "commit"} =>
          Locked(q, a.conv) /\ lock'[<<"conversation", a.conv>>] = q
    BY <1>1, <1>2, <1>4, RowKinds DEF TransitionHolds, Locked
  <1>7. pc[q] \in {"result", "update", "commit"} =>
          /\ work[w] # None /\ work[w].conv = a.conv
          /\ work'[w] = work[w] /\ BoundTo(w)' = BoundTo(w)
          /\ <<work[w].state, Target(q)>> \in AllowedTransitions
    BY <1>1, <1>2, <1>6, LockedStays DEF TransitionHolds
  <1>8. Target(q)' = Target(q)
    BY <1>1, <1>3 DEF Target
  <1>9. pc[q] \in {"update", "commit"} /\ a.op = "complete" =>
          ResultAccepted(w, a.msg)'
    <2> SUFFICES ASSUME pc[q] \in {"update", "commit"}, a.op = "complete"
                 PROVE  ResultAccepted(w, a.msg)'
      OBVIOUS
    <2>1. PICK m : m = a.msg
      OBVIOUS
    <2>2. ResultAccepted(w, m)
      BY <1>1, <1>2, <2>1 DEF TransitionHolds
    <2>3. msg[m] # None /\ msg[m].conv = a.conv /\ m \in Messages
      BY <1>2, <1>7, <2>1, <2>2 DEF ResultAccepted, Associated
    <2>4. msg'[m] = msg[m]
      BY <1>6, <2>3, LockedStays
    <2> QED BY <1>7, <2>1, <2>2, <2>4 DEF ResultAccepted, Associated
  <1>10. pc[q] = "commit" /\ a.op = "complete" => UnusedResult(a.msg)'
    <2> SUFFICES ASSUME pc[q] = "commit", a.op = "complete",
                        NEW v \in Works, work'[v] # None, work'[v].result = a.msg
                 PROVE  FALSE
      BY DEF UnusedResult
    <2>1. PICK m : m = a.msg
      OBVIOUS
    <2>2. m \in Messages /\ m # None /\ UnusedResult(m) /\ ResultAccepted(w, m)
      BY <1>1, <1>2, <2>1, NoneAssumption DEF TransitionHolds
    <2>3. ResultAccepted(w, m)'
      BY <1>9, <2>1
    <2>4. RowsAreConsistent' /\ work'[v] \in WorkRow
      BY DEF StoreInv, TypeOK
    <2>5. work'[v].state \in Live \cup {"completed", "failed"}
      BY <2>4 DEF WorkRow, WorkStates, Live
    <2>6. Associated(v, work[v].result)'
      BY <2>1, <2>2, <2>4, <2>5 DEF RowsAreConsistent, LiveRow, FailedRow, CompletedRow
    <2>7. msg'[m].conv = work'[v].conv /\ msg'[m].conv = work'[w].conv
      BY <2>1, <2>3, <2>6 DEF Associated, ResultAccepted
    <2>8. work'[v] = work[v]
      BY <1>6, <1>7, <2>7, LockedStays
    <2> QED BY <2>1, <2>2, <2>8 DEF UnusedResult
  <1>11. pc[q] = "commit" =>
           CASE a.op = "start" ->
                  wrote'[q] = [NoWrites EXCEPT !.work = OneRow(w, Started(work[w])')]
             [] a.op = "fail" ->
                  \E f \in FailureCodes : wrote'[q] = Failing({w}, f)'
             [] a.op = "complete" ->
                  /\ UnusedResult(a.msg)'
                  /\ wrote'[q] = [NoWrites EXCEPT !.work = OneRow(w,
                       [work'[w] EXCEPT !.state = "completed", !.result = a.msg])]
    <2> SUFFICES ASSUME pc[q] = "commit"
                 PROVE  CASE a.op = "start" ->
                  wrote'[q] = [NoWrites EXCEPT !.work = OneRow(w, Started(work[w])')]
             [] a.op = "fail" ->
                  \E f \in FailureCodes : wrote'[q] = Failing({w}, f)'
             [] a.op = "complete" ->
                  /\ UnusedResult(a.msg)'
                  /\ wrote'[q] = [NoWrites EXCEPT !.work = OneRow(w,
                       [work'[w] EXCEPT !.state = "completed", !.result = a.msg])]
      OBVIOUS
    <2>1. CASE a.op = "start"
      <3>1. wrote[q] = [NoWrites EXCEPT !.work = OneRow(w, Started(work[w]))]
        BY <1>1, <1>2, <2>1 DEF TransitionHolds
      <3>2. Started(work[w])' = Started(work[w])
        BY <1>7 DEF Started
      <3> QED BY <1>3, <2>1, <3>1, <3>2
    <2>2. CASE a.op = "fail"
      <3>1. PICK f \in FailureCodes : wrote[q] = Failing({w}, f)
        BY <1>1, <1>2, <2>2 DEF TransitionHolds
      <3>2. Provisional({w}) = BoundTo(w) /\ Provisional({w})' = BoundTo(w)'
        BY DEF Provisional, BoundTo
      <3>3. Failing({w}, f)' = Failing({w}, f)
        BY <1>7, <3>2 DEF Failing
      <3> QED BY <1>3, <2>2, <3>1, <3>3
    <2>3. CASE a.op = "complete"
      <3>1. wrote[q] = [NoWrites EXCEPT !.work = OneRow(w,
              [work[w] EXCEPT !.state = "completed", !.result = a.msg])]
        BY <1>1, <1>2, <2>3 DEF TransitionHolds
      <3> QED BY <1>3, <1>7, <1>10, <2>3, <3>1
    <2> QED BY <1>2, <2>1, <2>2, <2>3
  <1>12. /\ pc[q] \in {"conversation", "record", "result", "update", "commit",
                       "refused", "done"}
         /\ pc[q] = "result" => a.op = "complete"
    BY <1>1, <1>2 DEF TransitionHolds
  <1> QED BY <1>1, <1>2, <1>3, <1>5, <1>6, <1>7, <1>8, <1>9, <1>11, <1>12
          DEF TransitionHolds, Locked

(* What an append has locked and checked stands. *)
LEMMA AppendKeeps ==
  ASSUME LockInv, StoreInv', NEW q \in Procs, Same(q), Spares(q),
         pc[q] # "idle", call[q].op = "append"
  PROVE  AppendHolds(q)'
  <1>1. PICK a, b : a = call[q] /\ b = bound[q]
    OBVIOUS
  <1>2. AppendHolds(q) /\ a.conv \in Convs /\ a.msg \in Messages
    BY <1>1, CallKinds
  <1>3. call'[q] = a /\ pc'[q] = pc[q] /\ wrote'[q] = wrote[q] /\ bound'[q] = b
    BY <1>1 DEF Same
  <1>4. \A x \in Rows : lock'[x] = q <=> lock[x] = q
    BY DEF Same
  <1>5. pc[q] = "record" => HoldsOneConversation(q)'
    BY <1>1, <1>2, <1>3, <1>4 DEF AppendHolds, HoldsOneConversation
  <1>6. pc[q] \in {"record", "existing", "insert", "commit"} =>
          Locked(q, a.conv) /\ lock'[<<"conversation", a.conv>>] = q
    BY <1>1, <1>2, <1>4, RowKinds DEF AppendHolds, Locked
  <1>7. pc[q] \in {"existing", "insert"} => \A x \in Rows : lock'[x] = q =>
          x \in {<<"conversation", a.conv>>, <<"work", b>>}
    BY <1>1, <1>2, <1>4 DEF AppendHolds
  <1>8. pc[q] \in {"existing", "insert", "commit"} =>
          /\ b \in Binding(a.owner, a.conv, "assistant", a.request)
          /\ b \in Binding(a.owner, a.conv, "assistant", a.request)'
    <2> SUFFICES ASSUME pc[q] \in {"existing", "insert", "commit"}
                 PROVE  /\ b \in Binding(a.owner, a.conv, "assistant", a.request)
                        /\ b \in Binding(a.owner, a.conv, "assistant", a.request)'
      OBVIOUS
    <2>1. b \in Binding(a.owner, a.conv, "assistant", a.request)
      BY <1>1, <1>2 DEF AppendHolds
    <2>2. \A w \in Works :
            (work[w] # None /\ work[w].conv = a.conv) <=>
            (work'[w] # None /\ work'[w].conv = a.conv)
      BY <1>6, LockedStays DEF Spares
    <2>3. \A w \in Works : work[w] # None /\ work[w].conv = a.conv =>
            work'[w] = work[w]
      BY <1>6, LockedStays
    <2>4. {w \in Works : /\ "assistant" = "assistant" /\ work'[w] # None
                         /\ work'[w].owner = a.owner
                         /\ work'[w].request = a.request /\ work'[w].conv = a.conv}
           = {w \in Works : /\ "assistant" = "assistant" /\ work[w] # None
                            /\ work[w].owner = a.owner
                            /\ work[w].request = a.request /\ work[w].conv = a.conv}
      BY <2>2, <2>3
    <2> QED BY <2>1, <2>4 DEF Binding
  <1>9. pc[q] \in {"insert", "commit"} =>
          BindingAccepted(b)' /\ conv'[a.conv].state = "open"
    <2> SUFFICES ASSUME pc[q] \in {"insert", "commit"}
                 PROVE  BindingAccepted(b)' /\ conv'[a.conv].state = "open"
      OBVIOUS
    <2>1. BindingAccepted(b) /\ conv[a.conv].state = "open"
      BY <1>1, <1>2 DEF AppendHolds
    <2>2. conv'[a.conv] = conv[a.conv]
      BY <1>2, <1>6 DEF Spares
    <2>3. b # None => b \in Works /\ work[b] # None /\ work[b].conv = a.conv
      BY <1>8 DEF Binding
    <2>4. b # None => work'[b] = work[b] /\ BoundTo(b)' = BoundTo(b)
      BY <1>6, <2>3, LockedStays
    <2> QED BY <2>1, <2>2, <2>4 DEF BindingAccepted
  <1>10. pc[q] = "commit" =>
           /\ lock'[<<"message", a.msg>>] = q
           /\ msg'[a.msg] = None
           /\ \E t \in Payloads : wrote'[q] =
                [NoWrites EXCEPT !.msg = OneRow(a.msg, Appended(q, t)')]
    <2> SUFFICES ASSUME pc[q] = "commit"
                 PROVE  /\ lock'[<<"message", a.msg>>] = q
                        /\ msg'[a.msg] = None
                        /\ \E t \in Payloads : wrote'[q] =
                             [NoWrites EXCEPT !.msg = OneRow(a.msg, Appended(q, t)')]
      OBVIOUS
    <2>1. lock[<<"message", a.msg>>] = q /\ msg[a.msg] = None
      BY <1>1, <1>2 DEF AppendHolds
    <2>2. lock'[<<"message", a.msg>>] = q
      BY <1>2, <1>4, <2>1, RowKinds
    <2>3. msg'[a.msg] = None
      BY <1>2, <2>1 DEF Spares
    <2>4. PICK t \in Payloads :
            wrote[q] = [NoWrites EXCEPT !.msg = OneRow(a.msg, Appended(q, t))]
      BY <1>1, <1>2 DEF AppendHolds
    <2>5. Appended(q, t)' = Appended(q, t)
      BY <1>1, <1>3 DEF Appended
    <2> QED BY <1>3, <2>2, <2>3, <2>4, <2>5
  <1>11. pc[q] \in {"conversation", "record", "existing", "insert", "commit",
                    "refused", "done"}
    BY <1>2 DEF AppendHolds
  <1> QED BY <1>1, <1>3, <1>5, <1>6, <1>7, <1>8, <1>9, <1>10, <1>11
          DEF AppendHolds, Locked

(* What a supersession has locked and checked stands. *)
LEMMA SupersedeKeeps ==
  ASSUME LockInv, StoreInv', NEW q \in Procs, Same(q), Spares(q),
         pc[q] # "idle", call[q].op = "supersede"
  PROVE  SupersedeHolds(q)'
  <1>1. PICK c, r : c = call[q].conv /\ r = call[q].by
    OBVIOUS
  <1>2. SupersedeHolds(q) /\ c \in Convs /\ r \in Convs
    BY <1>1, CallKinds
  <1>3. /\ call'[q] = call[q] /\ pc'[q] = pc[q] /\ wrote'[q] = wrote[q]
        /\ call'[q].conv = c /\ call'[q].by = r
    BY <1>1 DEF Same
  <1>4. \A x \in Rows : lock'[x] = q <=> lock[x] = q
    BY DEF Same
  <1>5. pc[q] = "replacement" => HoldsOneConversation(q)'
    BY <1>2, <1>3, <1>4 DEF SupersedeHolds, HoldsOneConversation
  <1>6. pc[q] \in {"replacement", "commit"} =>
          /\ lock'[<<"conversation", c>>] = q
          /\ conv'[c] = conv[c] /\ conv[c].state # "superseded" /\ r # c
    BY <1>1, <1>2, <1>4, RowKinds DEF SupersedeHolds, Locked, Spares
  <1>7. pc[q] = "commit" =>
          /\ lock'[<<"conversation", r>>] = q
          /\ ReplacementAccepted(c, r)'
          /\ wrote'[q] = [NoWrites EXCEPT !.conv =
               OneRow(c, [conv'[c] EXCEPT !.state = "superseded", !.sup = r])]
    <2> SUFFICES ASSUME pc[q] = "commit"
                 PROVE  /\ lock'[<<"conversation", r>>] = q
                        /\ ReplacementAccepted(c, r)'
                        /\ wrote'[q] = [NoWrites EXCEPT !.conv =
                             OneRow(c, [conv'[c] EXCEPT !.state = "superseded",
                                                        !.sup = r])]
      OBVIOUS
    <2>1. /\ Locked(q, r) /\ ReplacementAccepted(c, r)
          /\ wrote[q] = [NoWrites EXCEPT !.conv =
               OneRow(c, [conv[c] EXCEPT !.state = "superseded", !.sup = r])]
      BY <1>1, <1>2 DEF SupersedeHolds
    <2>2. lock'[<<"conversation", r>>] = q /\ conv'[r] = conv[r]
      BY <1>2, <1>4, <2>1, RowKinds DEF Locked, Spares
    <2>3. conv'[c] = conv[c]
      BY <1>6
    <2>4. ReplacementAccepted(c, r)'
      BY <2>1, <2>2, <2>3 DEF ReplacementAccepted, OwnConv
    <2> QED BY <1>3, <2>1, <2>2, <2>3, <2>4
  <1>8. pc[q] \in {"conversation", "replacement", "commit", "refused", "done"}
    BY <1>2 DEF SupersedeHolds
  <1> QED BY <1>3, <1>5, <1>6, <1>7, <1>8 DEF SupersedeHolds, Locked

(* Some candidate comes before all others. *)
LEMMA FirstCandidate ==
  ASSUME NEW p \in Procs, todo[p] # {}, todo[p] \subseteq Works,
         \A w \in todo[p] : work[w].conv \in Nat
  PROVE  /\ Candidate(p) \in todo[p]
         /\ \A v \in todo[p] \ {Candidate(p)} : Before(Candidate(p), v)
  <1> DEFINE T == {work[w].conv : w \in todo[p]}
  <1>1. \A w \in todo[p] : w \in Nat
    BY OrderAssumption
  <1>2. PICK n \in T : \A k \in T : n <= k
    <2>1. T \subseteq Nat /\ T # {}
      OBVIOUS
    <2> HIDE DEF T
    <2> QED BY <2>1, LeastNatural
  <1> DEFINE R == {w \in todo[p] : work[w].conv = n}
  <1>3. PICK c \in R : \A k \in R : c <= k
    <2>1. R \subseteq Nat /\ R # {}
      BY <1>1
    <2> HIDE DEF R
    <2> QED BY <2>1, LeastNatural
  <1>4. \A v \in todo[p] \ {c} : Before(c, v)
    <2> TAKE v \in todo[p] \ {c}
    <2>1. work[c].conv = n /\ n <= work[v].conv /\ c \in Nat /\ v \in Nat
            /\ n \in Nat /\ work[v].conv \in Nat
      <3>1. work[v].conv \in T /\ n \in Nat /\ work[v].conv \in Nat
        BY <1>2
      <3> QED BY <1>1, <1>2, <1>3, <3>1
    <2>2. CASE work[v].conv = n
      <3>1. c <= v
        BY <1>3, <2>2
      <3> QED BY <2>1, <2>2, <3>1 DEF Before
    <2>3. CASE work[v].conv # n
      BY <2>1, <2>3 DEF Before
    <2> QED BY <2>2, <2>3
  <1>5. c \in todo[p]
    OBVIOUS
  <1> QED BY <1>4, <1>5 DEF Candidate

(* What a reconciliation has selected stays in the table. *)
LEMMA CandidatesStand ==
  ASSUME LockInv, NEW p \in Procs, pc[p] \in {"conversation", "record", "commit"},
         call[p].op = "reconcile"
  PROVE  /\ pass[p] # None /\ pass[p] \in SUBSET Works /\ todo[p] \subseteq pass[p]
         /\ \A w \in pass[p] : /\ work[w] # None /\ work[w] \in WorkRow
                               /\ work[w].conv \in Convs /\ work[w].conv \in Nat
         /\ pc[p] \in {"conversation", "record"} =>
              /\ Candidate(p) \in todo[p]
              /\ work[Candidate(p)].conv \in Convs
              /\ \A v \in todo[p] \ {Candidate(p)} : Before(Candidate(p), v)
  <1>1. ReconcileHolds(p) /\ p \in Reconcilers
    BY CallKinds, OrderAssumption
  <1>2. pass[p] # None /\ todo[p] \subseteq pass[p]
    BY <1>1 DEF ReconcileHolds
  <1>3. pass[p] \in SUBSET Works /\ \A w \in pass[p] : work[w] # None
    BY <1>1, <1>2 DEF LockInv, StoreInv, TypeOK, CandidatesExist
  <1>4. \A w \in pass[p] : work[w] \in WorkRow
    BY <1>3 DEF LockInv, StoreInv, TypeOK
  <1>5. \A w \in pass[p] : work[w].conv \in Convs /\ work[w].conv \in Nat
    BY <1>4, OrderAssumption DEF WorkRow
  <1>6. ASSUME pc[p] \in {"conversation", "record"}
        PROVE  /\ Candidate(p) \in todo[p]
               /\ \A v \in todo[p] \ {Candidate(p)} : Before(Candidate(p), v)
    <2>1. todo[p] # {} /\ todo[p] \subseteq Works
            /\ \A w \in todo[p] : work[w].conv \in Nat
      BY <1>1, <1>2, <1>3, <1>5, <1>6 DEF ReconcileHolds
    <2> QED BY <2>1, FirstCandidate
  <1> QED BY <1>2, <1>3, <1>4, <1>5, <1>6

(* What a reconciliation has settled and still has to do stands. *)
LEMMA ReconcileKeeps ==
  ASSUME LockInv, StoreInv', NEW q \in Procs, Same(q), Spares(q),
         pc[q] # "idle", call[q].op = "reconcile"
  PROVE  ReconcileHolds(q)'
  <1>1. ReconcileHolds(q)
    BY CallKinds
  <1>2. /\ pc'[q] = pc[q] /\ wrote'[q] = wrote[q] /\ todo'[q] = todo[q]
        /\ pass'[q] = pass[q] /\ Settled(q)' = Settled(q)
    BY DEF Same, Settled
  <1>3. \A x \in Rows : lock'[x] = q <=> lock[x] = q
    BY DEF Same
  <1>4. pc[q] = "select" => pass'[q] = None /\ HoldsNothing(q)'
    BY <1>1, <1>2, <1>3 DEF ReconcileHolds, HoldsNothing
  <1>5. ASSUME pc[q] \in {"conversation", "record", "commit"}
        PROVE  /\ pass[q] # None /\ todo[q] \subseteq pass[q]
               /\ pass[q] \in SUBSET Works
               /\ \A w \in pass[q] : /\ work[w] # None /\ work'[w] # None
                                     /\ work'[w].conv = work[w].conv
                                     /\ work[w].conv \in Convs
    BY <1>5, CandidatesStand DEF Spares
  <1>6. ASSUME pc[q] \in {"conversation", "record", "commit"}
        PROVE  /\ \A w \in Settled(q) : /\ Locked(q, work[w].conv)
                                        /\ lock'[<<"conversation", work'[w].conv>>] = q
                                        /\ work'[w] = work[w]
                                        /\ BoundTo(w)' = BoundTo(w)
               /\ \A v \in Settled(q), w \in todo[q] : Before(v, w)'
    <2>1. \A w \in Settled(q) : w \in pass[q] /\ Locked(q, work[w].conv)
      BY <1>1, <1>6 DEF ReconcileHolds, Settled
    <2>2. \A w \in Settled(q) : w \in Works /\ work[w] # None
      BY <1>5, <1>6, <2>1
    <2>3. \A w \in Settled(q) : work'[w] = work[w] /\ BoundTo(w)' = BoundTo(w)
      BY <2>1, <2>2, LockedStays
    <2>4. \A w \in Settled(q) : lock'[<<"conversation", work'[w].conv>>] = q
      BY <1>3, <1>5, <1>6, <2>1, <2>3, RowKinds DEF Locked
    <2>5. \A v \in Settled(q), w \in todo[q] : Before(v, w)
      BY <1>1, <1>6 DEF ReconcileHolds
    <2>6. \A v \in Settled(q), w \in todo[q] : Before(v, w)'
      BY <1>5, <1>6, <2>1, <2>5 DEF Before
    <2> QED BY <2>1, <2>3, <2>4, <2>6
  <1>7. ASSUME pc[q] \in {"conversation", "record", "commit"}
        PROVE  wrote'[q] = Failing(StillLive(Settled(q)), "interrupted")'
    <2>1. wrote[q] = Failing(StillLive(Settled(q)), "interrupted")
      BY <1>1, <1>7 DEF ReconcileHolds
    <2>2. PICK S : S = StillLive(Settled(q))
      OBVIOUS
    <2>3. StillLive(Settled(q))' = S
      BY <1>2, <1>6, <1>7, <2>2 DEF StillLive
    <2>4. \A w \in S : work'[w] = work[w] /\ BoundTo(w)' = BoundTo(w)
      BY <1>6, <1>7, <2>2 DEF StillLive
    <2>5. Provisional(S)' = Provisional(S)
      <3>1. \A m \in Messages, w \in S : (msg[m] # None /\ msg[m].work = w) <=>
                                         (msg'[m] # None /\ msg'[m].work = w)
        BY <2>4 DEF BoundTo
      <3> QED BY <3>1 DEF Provisional
    <2>6. Failing(S, "interrupted")' = Failing(S, "interrupted")
      BY <2>4, <2>5 DEF Failing
    <2> QED BY <1>2, <2>1, <2>2, <2>3, <2>6
  <1>8. pc[q] \in {"conversation", "record"} => todo'[q] # {}
    BY <1>1, <1>2 DEF ReconcileHolds
  <1>9. pc[q] = "conversation" => \A x \in Rows : lock'[x] = q =>
          \E w \in Settled(q)' :
            x \in {<<"conversation", work'[w].conv>>, <<"work", w>>}
    BY <1>1, <1>2, <1>3, <1>6 DEF ReconcileHolds
  <1>10. ASSUME pc[q] = "record"
         PROVE  /\ Candidate(q) \in todo[q]
                /\ Candidate(q)' = Candidate(q)
    <2>1. todo[q] # {} /\ todo[q] \subseteq Works
            /\ \A w \in todo[q] : work[w].conv \in Nat
      BY <1>1, <1>5, <1>10, OrderAssumption DEF ReconcileHolds
    <2>2. PICK c : c = Candidate(q)
      OBVIOUS
    <2>3. c \in todo[q] /\ \A v \in todo[q] \ {c} : Before(c, v)
      BY <1>10, <2>2, CandidatesStand
    <2>4. \A v, w \in todo[q] : Before(v, w)' <=> Before(v, w)
      BY <1>5, <1>10 DEF Before
    <2>5. c \in todo'[q] /\ \A v \in todo'[q] \ {c} : Before(c, v)'
      BY <1>2, <2>3, <2>4
    <2>6. PICK d : d = Candidate(q)'
      OBVIOUS
    <2>7. d \in todo'[q] /\ \A v \in todo'[q] \ {d} : Before(d, v)'
      BY <2>5, <2>6 DEF Candidate
    <2>8. d \in todo[q] /\ \A v \in todo[q] \ {d} : Before(d, v)
      BY <1>2, <2>4, <2>7
    <2>9. c = d
      <3> SUFFICES ASSUME c # d PROVE FALSE
        OBVIOUS
      <3>1. Before(c, d) /\ Before(d, c)
        BY <2>3, <2>8
      <3>2. c \in Nat /\ d \in Nat /\ work[c].conv \in Nat /\ work[d].conv \in Nat
        BY <2>1, <2>3, <2>8, OrderAssumption
      <3> QED BY <3>1, <3>2 DEF Before
    <2> QED BY <2>2, <2>3, <2>6, <2>9
  <1>11. ASSUME pc[q] = "record"
         PROVE  /\ lock'[<<"conversation", work'[Candidate(q)'].conv>>] = q
                /\ \A x \in Rows : lock'[x] = q =>
                     \E w \in Settled(q)' \cup {Candidate(q)'} :
                       \/ x = <<"conversation", work'[w].conv>>
                       \/ x = <<"work", w>> /\ w # Candidate(q)'
    <2>1. PICK c : c = Candidate(q)
      OBVIOUS
    <2>2. c \in todo[q] /\ Candidate(q)' = c
      BY <1>10, <1>11, <2>1
    <2>3. work'[c].conv = work[c].conv /\ work[c].conv \in Convs
      BY <1>5, <1>11, <2>2
    <2>4. /\ Locked(q, work[c].conv)
          /\ \A x \in Rows : lock[x] = q =>
               \E w \in Settled(q) \cup {c} :
                 \/ x = <<"conversation", work[w].conv>>
                 \/ x = <<"work", w>> /\ w # c
      BY <1>1, <1>11, <2>1 DEF ReconcileHolds
    <2>5. lock'[<<"conversation", work'[c].conv>>] = q
      BY <1>3, <2>3, <2>4, RowKinds DEF Locked
    <2>6. \A w \in Settled(q) \cup {c} : work'[w].conv = work[w].conv
      BY <1>6, <1>11, <2>3
    <2>7. \A x \in Rows : lock'[x] = q =>
            \E w \in Settled(q) \cup {c} :
              \/ x = <<"conversation", work'[w].conv>>
              \/ x = <<"work", w>> /\ w # c
      BY <1>3, <2>4, <2>6
    <2> QED BY <1>2, <2>2, <2>5, <2>7
  <1>12. pc[q] = "commit" => todo'[q] = {}
    BY <1>1, <1>2 DEF ReconcileHolds
  <1>13. pc'[q] \in {"select", "conversation", "record", "commit", "refused", "done"}
    BY <1>1, <1>2 DEF ReconcileHolds
  <1> QED BY <1>2, <1>4, <1>5, <1>6, <1>7, <1>8, <1>9, <1>11, <1>12, <1>13
          DEF ReconcileHolds, Locked

(* A call keeps what it holds through the steps of others. *)
LEMMA CallKeeps ==
  ASSUME LockInv, StoreInv', NEW q \in Procs, Same(q), Spares(q)
  PROVE  CallHolds(q)'
  <1>1. CallHolds(q)
    BY DEF LockInv
  <1>2. /\ call'[q] = call[q] /\ pc'[q] = pc[q] /\ wrote'[q] = wrote[q]
        /\ pass'[q] = pass[q]
        /\ \A x \in Rows : lock'[x] = q <=> lock[x] = q
    BY DEF Same
  <1>3. HoldsNothing(q) => HoldsNothing(q)'
    BY <1>2 DEF HoldsNothing
  <1>4. pc[q] # "idle" => call[q] \in Calls /\ OneOwner(call[q])'
    <2> SUFFICES ASSUME pc[q] # "idle"
                 PROVE  call[q] \in Calls /\ OneOwner(call[q])'
      OBVIOUS
    <2>1. PICK a : a = call[q]
      OBVIOUS
    <2>2. a \in Calls /\ OneOwner(a)
      BY <1>1, <2>1 DEF CallHolds
    <2>3. /\ a.op \in {"create", "append"} => a.conv \in Convs
          /\ a.op = "supersede" => a.conv \in Convs /\ a.by \in Convs
      BY <2>2 DEF Calls
    <2>4. OneOwner(a)'
      BY <2>2, <2>3 DEF OneOwner, OwnConv, Spares
    <2> QED BY <1>2, <2>1, <2>2, <2>4
  <1>5. pc[q] # "idle" =>
          /\ call[q].op = "create" => CreateHolds(q)'
          /\ call[q].op \in {"start", "fail", "complete"} => TransitionHolds(q)'
          /\ call[q].op = "append" => AppendHolds(q)'
          /\ call[q].op = "supersede" => SupersedeHolds(q)'
          /\ call[q].op = "reconcile" => ReconcileHolds(q)'
          /\ call[q].op \in {"create", "start", "fail", "complete", "append",
                             "supersede", "reconcile"}
    BY CallKinds, CreateKeeps, TransitionKeeps, AppendKeeps, SupersedeKeeps,
       ReconcileKeeps
  <1> QED BY <1>1, <1>2, <1>3, <1>4, <1>5 DEF CallHolds

-----------------------------------------------------------------------------
(* The statements that commit nothing. *)

(* A row that is locked was free or the call's own. *)
LEMMA LocksRow ==
  ASSUME LockInv, NEW p \in Procs, NEW next, Locks(p, next), NEW x \in Rows,
         Wants(p) = x
  PROVE  /\ lock[x] \in {None, p}
         /\ lock' \in [Rows -> Procs \cup {None}]
         /\ \A y \in Rows : lock'[y] = IF y = x THEN p ELSE lock[y]
         /\ pc' = [pc EXCEPT ![p] = next] /\ pc'[p] = next
  <1>1. /\ lock \in [Rows -> Procs \cup {None}] /\ x # None
        /\ pc \in [Procs -> {"idle", "select", "conversation", "key", "record",
                             "result", "update", "existing", "insert",
                             "replacement", "commit", "refused", "done"}]
    BY ProcsAssumption DEF LockInv, LockTypes
  <1>2. /\ lock[x] \in {None, p} /\ lock' = [lock EXCEPT ![x] = p]
        /\ pc' = [pc EXCEPT ![p] = next]
    BY <1>1 DEF Locks, Blocked
  <1> QED BY <1>1, <1>2

\* A step of p writes no table.
Quiet(p) ==
  /\ UNCHANGED <<conv, work, msg, claim, current>>
  /\ call'[p] = call[p]

(* What a call that is under way keeps when it goes on. *)
LEMMA GoesOn ==
  ASSUME LockInv, NEW p \in Procs, pc[p] \notin {"idle", "done"}, Quiet(p),
         pc'[p] \notin {"idle", "done"},
         pass'[p] # None => call[p].op = "reconcile",
         pc'[p] = "conversation" => call[p].op = "reconcile",
         pc'[p] \notin {"commit", "refused"} =>
           wrote'[p] = NoWrites \/ (call[p].op = "reconcile" /\ pc'[p] # "select"),
         call[p].op = "create" => CreateHolds(p)',
         call[p].op \in {"start", "fail", "complete"} => TransitionHolds(p)',
         call[p].op = "append" => AppendHolds(p)',
         call[p].op = "supersede" => SupersedeHolds(p)',
         call[p].op = "reconcile" => ReconcileHolds(p)'
  PROVE  CallHolds(p)'
  <1>1. call'[p] = call[p] /\ UNCHANGED <<conv, work, msg>>
    BY DEF Quiet
  <1>2. /\ call[p] \in Calls /\ OneOwner(call[p])
        /\ call[p].op \in {"create", "start", "fail", "complete", "append",
                           "supersede", "reconcile"}
    BY CallKinds
  <1>3. OneOwner(call[p])'
    BY <1>1, <1>2 DEF OneOwner, OwnConv
  <1> QED BY <1>1, <1>2, <1>3 DEF CallHolds

(* A call that is refused has nothing more to keep. *)
LEMMA RefusalHolds ==
  ASSUME LockInv, NEW p \in Procs, pc[p] \notin {"idle", "done"}, Quiet(p),
         pc'[p] = "refused", pass'[p] = pass[p]
  PROVE  CallHolds(p)'
  <1>1. call'[p] = call[p] /\ UNCHANGED <<conv, work, msg>>
    BY DEF Quiet
  <1>2. pass'[p] # None => call[p].op = "reconcile"
    BY DEF LockInv, CallHolds
  <1>3. call[p].op = "create" => CreateHolds(p)'
    BY <1>1, CallKinds DEF CreateHolds
  <1>4. call[p].op \in {"start", "fail", "complete"} => TransitionHolds(p)'
    BY <1>1 DEF TransitionHolds
  <1>5. call[p].op = "append" => AppendHolds(p)'
    BY <1>1 DEF AppendHolds
  <1>6. call[p].op = "supersede" => SupersedeHolds(p)'
    BY <1>1 DEF SupersedeHolds
  <1>7. call[p].op = "reconcile" => ReconcileHolds(p)'
    BY <1>1 DEF ReconcileHolds
  <1> QED BY <1>2, <1>3, <1>4, <1>5, <1>6, <1>7, GoesOn

(* SELECT ... FOR UPDATE of the conversation. *)
LEMMA ConversationHolds ==
  ASSUME LockInv, NEW p \in Procs, LockConversation(p)
  PROVE  CallHolds(p)'
  <1>1. PICK c : c = LockedConv(p)
    OBVIOUS
  <1>2. PICK next : Locks(p, next) /\
          next = IF \/ call[p].op = "create" /\ conv[c].state # "open"
                    \/ call[p].op = "supersede" /\
                         (conv[c].state = "superseded" \/ call[p].by = c)
                 THEN "refused" ELSE After(p)
    BY <1>1 DEF LockConversation, LocksConversation
  <1>3. /\ pc[p] = "conversation" /\ Quiet(p) /\ pass'[p] = pass[p]
        /\ wrote' = wrote /\ todo' = todo /\ bound' = bound
        /\ call'[p] = call[p] /\ UNCHANGED <<conv, work, msg, pass>>
    BY DEF LockConversation, vars, Quiet
  <1>4. CallHolds(p) /\ (pass[p] # None => call[p].op = "reconcile")
    BY DEF LockInv, CallHolds
  <1>5. c \in Convs
    <2>1. CASE call[p].op = "reconcile"
      <3>1. work[Candidate(p)].conv \in Convs
        BY <1>3, <2>1, CandidatesStand
      <3> QED BY <1>1, <2>1, <3>1 DEF LockedConv
    <2>2. CASE call[p].op # "reconcile"
      BY <1>1, <1>3, <2>2, CallKinds DEF LockedConv
    <2> QED BY <2>1, <2>2
  <1>6. Wants(p) = <<"conversation", c>> /\ <<"conversation", c>> \in Rows
    BY <1>1, <1>3, <1>5, RowKinds DEF Wants
  <1>7. PICK x : x = <<"conversation", c>>
    OBVIOUS
  <1>8. /\ \A y \in Rows : lock'[y] = IF y = x THEN p ELSE lock[y]
        /\ pc'[p] = next
    BY <1>2, <1>6, <1>7, LocksRow
  <1>9. CASE next = "refused"
    BY <1>3, <1>8, <1>9, RefusalHolds
  <1>10. CASE next # "refused"
    <2>1. next = After(p)
      BY <1>2, <1>10
    <2>2. call[p].op # "reconcile" =>
            /\ c = call[p].conv /\ HoldsNothing(p) /\ wrote'[p] = NoWrites
            /\ Locked(p, c)' /\ HoldsOneConversation(p)'
      BY <1>1, <1>3, <1>4, <1>6, <1>7, <1>8
         DEF CallHolds, LockedConv, HoldsNothing, HoldsOneConversation, Locked
    <2>3. CASE call[p].op = "create"
      <3>1. next = "key" /\ conv[c].state = "open"
        BY <1>2, <1>3, <1>10, <2>1, <2>3, NextStatements
      <3>2. work[call[p].work] = None
        BY <1>3, <2>3, CallKinds DEF CreateHolds
      <3>3. CreateHolds(p)'
        BY <1>3, <1>8, <2>2, <2>3, <3>1, <3>2 DEF CreateHolds, Locked
      <3> QED BY <1>3, <1>4, <1>8, <2>2, <2>3, <3>1, <3>3, GoesOn
    <2>4. CASE call[p].op \in {"start", "fail", "complete"}
      <3>1. next = "record"
        BY <1>3, <2>1, <2>4, NextStatements
      <3>2. TransitionHolds(p)'
        BY <1>3, <1>8, <2>2, <2>4, <3>1 DEF TransitionHolds, Locked
      <3> QED BY <1>3, <1>4, <1>8, <2>2, <2>4, <3>1, <3>2, GoesOn
    <2>5. CASE call[p].op = "append"
      <3>1. next = "record"
        BY <1>3, <2>1, <2>5, NextStatements
      <3>2. AppendHolds(p)'
        BY <1>3, <1>8, <2>2, <2>5, <3>1 DEF AppendHolds, Locked
      <3> QED BY <1>3, <1>4, <1>8, <2>2, <2>5, <3>1, <3>2, GoesOn
    <2>6. CASE call[p].op = "supersede"
      <3>1. next = "replacement" /\ conv[c].state # "superseded" /\ call[p].by # c
        BY <1>2, <1>3, <1>10, <2>1, <2>6, NextStatements
      <3>2. SupersedeHolds(p)'
        BY <1>3, <1>8, <2>2, <2>6, <3>1 DEF SupersedeHolds, Locked
      <3> QED BY <1>3, <1>4, <1>8, <2>2, <2>6, <3>1, <3>2, GoesOn
    <2>7. CASE call[p].op = "reconcile"
      <3>1. next = "record" /\ ReconcileHolds(p)
        BY <1>3, <2>1, <2>7, NextStatements, CallKinds
      <3>2. c = work[Candidate(p)].conv
        BY <1>1, <2>7 DEF LockedConv
      <3>3. /\ Settled(p)' = Settled(p) /\ todo'[p] = todo[p] /\ pass'[p] = pass[p]
            /\ Candidate(p)' = Candidate(p) /\ wrote'[p] = wrote[p]
        BY <1>3 DEF Settled, Candidate, Before
      <3>4. Locked(p, work[Candidate(p)].conv)'
        BY <1>3, <1>6, <1>7, <1>8, <3>2, <3>3 DEF Locked
      <3>5. \A w \in Settled(p) : Locked(p, work[w].conv)'
        <4> TAKE w \in Settled(p)
        <4>1. Locked(p, work[w].conv)
          BY <1>3, <3>1 DEF ReconcileHolds
        <4>2. <<"conversation", work[w].conv>> \in Rows
          <5>1. w \in pass[p]
            BY DEF Settled
          <5>2. work[w].conv \in Convs
            BY <1>3, <2>7, <5>1, CandidatesStand
          <5> QED BY <5>2, RowKinds
        <4> QED BY <1>3, <1>8, <4>1, <4>2 DEF Locked
      <3>6. \A y \in Rows : lock'[y] = p =>
              \E w \in Settled(p) \cup {Candidate(p)} :
                \/ y = <<"conversation", work[w].conv>>
                \/ y = <<"work", w>> /\ w # Candidate(p)
        <4> SUFFICES ASSUME NEW y \in Rows, lock'[y] = p
                     PROVE  \E w \in Settled(p) \cup {Candidate(p)} :
                              \/ y = <<"conversation", work[w].conv>>
                              \/ y = <<"work", w>> /\ w # Candidate(p)
          OBVIOUS
        <4>1. CASE y = x
          BY <1>7, <3>2, <4>1
        <4>2. CASE y # x
          <5>1. lock[y] = p
            BY <1>8, <4>2
          <5>2. PICK w \in Settled(p) :
                  y \in {<<"conversation", work[w].conv>>, <<"work", w>>}
            BY <1>3, <3>1, <5>1 DEF ReconcileHolds
          <5>3. w # Candidate(p)
            <6>1. Candidate(p) \in todo[p]
              BY <1>3, <2>7, CandidatesStand
            <6> QED BY <6>1 DEF Settled
          <5> QED BY <5>2, <5>3
        <4> QED BY <4>1, <4>2
      <3>7. Failing(StillLive(Settled(p)), "interrupted")' =
              Failing(StillLive(Settled(p)), "interrupted")
        BY <1>3, <3>3 DEF Failing, StillLive, Provisional
      <3>8. ReconcileHolds(p)'
        BY <1>3, <1>8, <3>1, <3>3, <3>4, <3>5, <3>6, <3>7
           DEF ReconcileHolds, Before
      <3> QED BY <1>3, <1>4, <1>8, <2>7, <3>1, <3>8, GoesOn
    <2> QED BY <1>3, <2>3, <2>4, <2>5, <2>6, <2>7, CallKinds
  <1> QED BY <1>9, <1>10

(* The writes of one more failing work. *)
LEMMA FirstFailure ==
  ASSUME NEW p, wrote[p] = NoWrites, NEW w, NEW f
  PROVE  DeletesAndFails(p, w, f) = Failing({w}, f)
  <1>1. PICK row : row = [work[w] EXCEPT !.state = "failed", !.failure = f]
    OBVIOUS
  <1>2. PICK g, h : /\ g = Over(OneRow(w, row), NoRows)
                    /\ h = Over([m \in BoundTo(w) |-> None], NoRows)
    OBVIOUS
  <1>3. DeletesAndFails(p, w, f) = [NoWrites EXCEPT !.msg = h, !.work = g]
    <2>1. wrote[p].msg = NoRows /\ wrote[p].work = NoRows
      BY DEF NoWrites
    <2> QED BY <1>1, <1>2, <2>1 DEF DeletesAndFails, NoWrites
  <1>4. DeletesAndFails(p, w, f) = [conv |-> NoRows, work |-> g, msg |-> h]
    BY <1>3 DEF NoWrites
  <1>5. g = [v \in {w} |-> row]
    BY <1>2 DEF Over, OneRow, NoRows
  <1>6. Provisional({w}) = BoundTo(w)
    BY DEF Provisional, BoundTo
  <1>7. h = [m \in Provisional({w}) |-> None]
    BY <1>2, <1>6 DEF Over, NoRows
  <1>8. g = [v \in {w} |-> [work[v] EXCEPT !.state = "failed", !.failure = f]]
    BY <1>1, <1>5
  <1> QED BY <1>4, <1>7, <1>8 DEF Failing

(* Which operation a statement is of. *)
LEMMA StatementKinds ==
  ASSUME LockInv, NEW p \in Procs
  PROVE  /\ pc[p] = "key" => call[p].op = "create"
         /\ pc[p] = "result" => call[p].op = "complete"
         /\ pc[p] = "update" => call[p].op \in {"start", "fail", "complete"}
         /\ pc[p] \in {"existing", "insert"} => call[p].op = "append"
         /\ pc[p] = "replacement" => call[p].op = "supersede"
         /\ pc[p] = "select" => call[p].op = "reconcile"
         /\ pc[p] = "record" => call[p].op # "supersede"
  BY CallKinds DEF CreateHolds, TransitionHolds, AppendHolds, SupersedeHolds,
     ReconcileHolds

(* What is known of any statement of a call under way. *)
LEMMA UnderWay ==
  ASSUME LockInv, NEW p \in Procs
  PROVE  /\ pass[p] # None => call[p].op = "reconcile"
         /\ pc[p] \notin {"commit", "refused"} =>
              wrote[p] = NoWrites \/ (call[p].op = "reconcile" /\ pc[p] # "select")
         /\ DOMAIN wrote = Procs
         /\ pc \in [Procs -> {"idle", "select", "conversation", "key", "record",
                              "result", "update", "existing", "insert",
                              "replacement", "commit", "refused", "done"}]
         /\ lock \in [Rows -> Procs \cup {None}]
         /\ bound \in [Procs -> Works \cup {None}]
         /\ todo \in [Procs -> SUBSET Works]
  BY DEF LockInv, LockTypes, CallHolds

(* create_work inserts its row, or finds the request's. *)
LEMMA InsertWorkHolds ==
  ASSUME LockInv, NEW p \in Procs, InsertWork(p)
  PROVE  CallHolds(p)'
  <1>1. PICK a : a = call[p]
    OBVIOUS
  <1>2. /\ pc[p] = "key" /\ Quiet(p) /\ pass'[p] = pass[p] /\ call'[p] = a
        /\ UNCHANGED <<conv, work, msg>>
    BY <1>1 DEF InsertWork, vars, Quiet
  <1>3. /\ a.op = "create" /\ CreateHolds(p) /\ a.owner \in Owners
        /\ a.request \in Requests /\ a.conv \in Convs
    BY <1>1, <1>2, StatementKinds, CallKinds
  <1>4. /\ HoldsOneConversation(p) /\ Locked(p, a.conv) /\ work[a.work] = None
        /\ conv[a.conv].state = "open" /\ wrote[p] = NoWrites
    BY <1>1, <1>2, <1>3, UnderWay DEF CreateHolds
  <1>5. CASE Named(p) = {}
    <2>1. PICK x : x = <<"request", a.owner, a.request>>
      OBVIOUS
    <2>2. Wants(p) = x /\ x \in Rows
      BY <1>1, <1>2, <1>3, <2>1, RowKinds DEF Wants
    <2>3. PICK next : next = After(p) /\ Locks(p, next)
      BY <1>5 DEF InsertWork
    <2>4. next = "commit"
      BY <1>1, <1>2, <1>3, <2>3, NextStatements
    <2>5. (\A y \in Rows : lock'[y] = IF y = x THEN p ELSE lock[y]) /\ pc'[p] = next
      BY <2>2, <2>3, LocksRow
    <2>6. Named(p)' = {} /\ Admitted(p)' = Admitted(p)
      BY <1>1, <1>2, <1>5 DEF Named, Admitted
    <2>7. wrote'[p] = [NoWrites EXCEPT !.work = OneRow(a.work, Admitted(p))]
      BY <1>1, <1>4, <1>5, UnderWay DEF InsertWork
    <2>8. <<"conversation", a.conv>> # x /\ <<"conversation", a.conv>> \in Rows
      BY <1>3, <2>1, RowKinds
    <2>9. CreateHolds(p)'
      BY <1>1, <1>2, <1>4, <2>1, <2>2, <2>4, <2>5, <2>6, <2>7, <2>8
         DEF CreateHolds, Locked
    <2> QED BY <1>1, <1>2, <1>3, <2>4, <2>5, <2>9, GoesOn, UnderWay
  <1>6. CASE Named(p) # {}
    <2>1. pc'[p] = "record" /\ UNCHANGED <<lock, wrote>>
      BY <1>6, UnderWay DEF InsertWork
    <2>2. CreateHolds(p)'
      BY <1>1, <1>2, <1>4, <2>1 DEF CreateHolds, Locked, HoldsOneConversation
    <2> QED BY <1>1, <1>2, <1>3, <1>4, <2>1, <2>2, GoesOn, UnderWay
  <1> QED BY <1>5, <1>6

(* SELECT ... FOR UPDATE of the work's record. *)
LEMMA RecordHolds ==
  ASSUME LockInv, NEW p \in Procs, LockRecord(p)
  PROVE  CallHolds(p)'
  <1>1. PICK a, w : a = call[p] /\ w = Record(p)
    OBVIOUS
  <1>2. /\ pc[p] = "record" /\ Quiet(p) /\ pass'[p] = pass[p] /\ call'[p] = a
        /\ UNCHANGED <<conv, work, msg>> /\ wrote' = wrote
        /\ bound'[p] = w /\ a.op # "reconcile"
    BY <1>1, UnderWay DEF LockRecord, vars, Quiet
  <1>3. PICK refused :
          /\ Locks(p, IF refused THEN "refused" ELSE After(p))
          /\ refused = CASE a.op = "create" -> TRUE
                         [] a.op = "append" ->
                              w # None /\ ~(w # None /\ work[w].conv = a.conv)
                         [] OTHER ->
                              \/ ~(w # None /\ work[w].conv = a.conv)
                              \/ <<work[w].state, Target(p)>> \notin AllowedTransitions
    BY <1>1 DEF LockRecord
  <1>4. PICK next : next = (IF refused THEN "refused" ELSE After(p)) /\ Locks(p, next)
    BY <1>3
  <1>5. a.op \in {"create", "start", "fail", "complete", "append"} /\ wrote[p] = NoWrites
    BY <1>1, <1>2, StatementKinds, CallKinds, UnderWay
  <1>6. /\ HoldsOneConversation(p) /\ a.conv \in Convs
        /\ a.op # "create" => Locked(p, a.conv)
    BY <1>1, <1>2, <1>5, CallKinds DEF CreateHolds, TransitionHolds, AppendHolds
  <1>7. w \in Works \cup {None}
    BY <1>1, <1>2, <1>5, CallKinds DEF Record, Named
  <1>8. /\ pc'[p] = next
        /\ \A y \in Rows : lock'[y] =
             IF w # None /\ y = <<"work", w>> THEN p ELSE lock[y]
    <2>1. CASE w = None
      <3>1. Wants(p) = None
        BY <1>1, <1>2, <2>1 DEF Wants
      <3> QED BY <1>4, <2>1, <3>1, UnderWay DEF Locks
    <2>2. CASE w # None
      <3>1. PICK x : x = <<"work", w>>
        OBVIOUS
      <3>2. Wants(p) = x /\ x \in Rows
        BY <1>1, <1>2, <1>7, <2>2, <3>1, RowKinds DEF Wants
      <3> QED BY <1>4, <2>2, <3>1, <3>2, LocksRow
    <2> QED BY <2>1, <2>2
  <1>9. CASE refused
    BY <1>2, <1>4, <1>8, <1>9, RefusalHolds
  <1>10. CASE ~refused
    <2>1. next = After(p) /\ a.op # "create"
      BY <1>3, <1>4, <1>10
    <2>2. Locked(p, a.conv)'
      BY <1>6, <1>8, <2>1, RowKinds DEF Locked
    <2>3. \A y \in Rows : lock'[y] = p =>
            y \in {<<"conversation", a.conv>>, <<"work", w>>}
      BY <1>1, <1>6, <1>8 DEF HoldsOneConversation
    <2>4. CASE a.op = "append"
      <3>1. next = "existing"
        BY <1>1, <1>2, <2>1, <2>4, NextStatements
      <3>2. w # None => w \in Named(p) /\ work[w].conv = a.conv
        BY <1>1, <1>3, <1>10, <2>4 DEF Record
      <3>3. w = None => Named(p) = {}
        BY <1>1, <2>4, NoneAssumption DEF Record, Named
      <3>4. w \in Binding(a.owner, a.conv, "assistant", a.request)
        <4>1. CASE w = None
          <5>1. {v \in Works : /\ "assistant" = "assistant" /\ work[v] # None
                               /\ work[v].owner = a.owner
                               /\ work[v].request = a.request
                               /\ work[v].conv = a.conv} = {}
            BY <1>1, <3>3, <4>1 DEF Named
          <5> QED BY <4>1, <5>1 DEF Binding
        <4>2. CASE w # None
          BY <1>1, <3>2, <4>2 DEF Binding, Named
        <4> QED BY <4>1, <4>2
      <3>5. Binding(a.owner, a.conv, "assistant", a.request)' =
              Binding(a.owner, a.conv, "assistant", a.request)
        BY <1>2 DEF Binding
      <3>6. AppendHolds(p)'
        BY <1>2, <1>8, <2>2, <2>3, <3>1, <3>4, <3>5 DEF AppendHolds
      <3> QED BY <1>1, <1>2, <1>5, <1>8, <2>4, <3>1, <3>6, GoesOn, UnderWay
    <2>5. CASE a.op \in {"start", "fail", "complete"}
      <3>1. /\ w # None /\ work[w].conv = a.conv
            /\ <<work[w].state, Target(p)>> \in AllowedTransitions
        BY <1>3, <1>10, <2>5
      <3>2. w = a.work /\ work[w] # None
        BY <1>1, <2>5, <3>1 DEF Record
      <3>3. Target(p)' = Target(p)
        BY <1>1, <1>2 DEF Target
      <3>4. next = "update" \/ (next = "result" /\ a.op = "complete")
        BY <1>1, <1>2, <2>1, <2>5, NextStatements
      <3>5. next = "update" => a.op # "complete"
        BY <1>1, <1>2, <2>1, <2>5, NextStatements
      <3>6. TransitionHolds(p)'
        BY <1>2, <1>8, <2>2, <2>5, <3>1, <3>2, <3>3, <3>4, <3>5
           DEF TransitionHolds
      <3> QED BY <1>1, <1>2, <1>5, <1>8, <2>5, <3>4, <3>6, GoesOn, UnderWay
    <2> QED BY <1>5, <2>1, <2>4, <2>5
  <1> QED BY <1>9, <1>10

(* transition_work looks the completing message up. *)
LEMMA ResultHolds ==
  ASSUME LockInv, NEW p \in Procs, CheckResult(p)
  PROVE  CallHolds(p)'
  <1>1. PICK a : a = call[p]
    OBVIOUS
  <1>2. /\ pc[p] = "result" /\ Quiet(p) /\ pass'[p] = pass[p] /\ call'[p] = a
        /\ UNCHANGED <<conv, work, msg, lock, wrote>>
        /\ pc'[p] = IF ResultAccepted(a.work, a.msg) THEN After(p) ELSE "refused"
    BY <1>1, UnderWay DEF CheckResult, vars, Quiet
  <1>3. a.op = "complete" /\ TransitionHolds(p) /\ wrote[p] = NoWrites
    BY <1>1, <1>2, StatementKinds, CallKinds, UnderWay
  <1>4. CASE ~ResultAccepted(a.work, a.msg)
    BY <1>2, <1>4, RefusalHolds
  <1>5. CASE ResultAccepted(a.work, a.msg)
    <2>1. pc'[p] = "update"
      BY <1>1, <1>2, <1>3, <1>5, NextStatements
    <2>2. ResultAccepted(a.work, a.msg)'
      BY <1>2, <1>5 DEF ResultAccepted, Associated, BoundTo
    <2>3. Target(p)' = Target(p)
      BY <1>1, <1>2 DEF Target
    <2>4. TransitionHolds(p)'
      BY <1>1, <1>2, <1>3, <2>1, <2>2, <2>3 DEF TransitionHolds, Locked
    <2> QED BY <1>1, <1>2, <1>3, <2>1, <2>4, GoesOn, UnderWay
  <1> QED BY <1>4, <1>5

(* transition_work updates the record. *)
LEMMA UpdateHolds ==
  ASSUME LockInv, NEW p \in Procs, UpdateWork(p)
  PROVE  CallHolds(p)'
  <1>1. PICK a, w : a = call[p] /\ w = a.work
    OBVIOUS
  <1>2. /\ pc[p] = "update" /\ Quiet(p) /\ pass'[p] = pass[p] /\ call'[p] = a
        /\ UNCHANGED <<conv, work, msg, lock>>
    BY <1>1 DEF UpdateWork, vars, Quiet
  <1>3. /\ a.op \in {"start", "fail", "complete"} /\ TransitionHolds(p)
        /\ wrote[p] = NoWrites
    BY <1>1, <1>2, StatementKinds, CallKinds, UnderWay
  <1>4. Target(p)' = Target(p)
    BY <1>1, <1>2 DEF Target
  <1>5. After(p) = "commit"
    BY <1>1, <1>2, <1>3, NextStatements
  <1>6. CASE a.op = "start"
    <2>1. /\ pc'[p] = "commit"
          /\ wrote' = [wrote EXCEPT ![p].work = OneRow(w, Started(work[w]))]
      BY <1>1, <1>5, <1>6, UnderWay DEF UpdateWork
    <2>2. PICK row : row = OneRow(w, Started(work[w]))
      OBVIOUS
    <2>3. wrote'[p] = [NoWrites EXCEPT !.work = row]
      BY <1>3, <2>1, <2>2, UnderWay
    <2>4. Started(work[w])' = Started(work[w])
      BY <1>2 DEF Started
    <2>5. TransitionHolds(p)'
      BY <1>1, <1>2, <1>3, <1>4, <1>6, <2>1, <2>2, <2>3, <2>4
         DEF TransitionHolds, Locked
    <2> QED BY <1>1, <1>2, <1>6, <2>1, <2>5, GoesOn, UnderWay
  <1>7. CASE a.op = "fail"
    <2>1. PICK f \in FailureCodes :
            wrote' = [wrote EXCEPT ![p] = DeletesAndFails(p, w, f)]
      BY <1>1, <1>7 DEF UpdateWork
    <2>2. pc'[p] = "commit"
      BY <1>1, <1>5, <1>7, UnderWay DEF UpdateWork
    <2>3. wrote'[p] = DeletesAndFails(p, w, f)
      BY <2>1, UnderWay
    <2>4. DeletesAndFails(p, w, f) = Failing({w}, f)
      BY <1>3, FirstFailure
    <2>5. Failing({w}, f)' = Failing({w}, f)
      BY <1>2 DEF Failing, Provisional
    <2>6. TransitionHolds(p)'
      BY <1>1, <1>2, <1>3, <1>4, <1>7, <2>2, <2>3, <2>4, <2>5
         DEF TransitionHolds, Locked
    <2> QED BY <1>1, <1>2, <1>7, <2>2, <2>6, GoesOn, UnderWay
  <1>8. CASE a.op = "complete"
    <2>1. CASE ~UnusedResult(a.msg)
      <3>1. pc'[p] = "refused"
        BY <1>1, <1>8, <2>1, UnderWay DEF UpdateWork
      <3> QED BY <1>2, <3>1, RefusalHolds
    <2>2. CASE UnusedResult(a.msg)
      <3>1. /\ pc'[p] = "commit"
            /\ wrote' = [wrote EXCEPT ![p].work = OneRow(w,
                 [work[w] EXCEPT !.state = "completed", !.result = a.msg])]
        BY <1>1, <1>5, <1>8, <2>2, UnderWay DEF UpdateWork
      <3>2. PICK row : row = OneRow(w,
                 [work[w] EXCEPT !.state = "completed", !.result = a.msg])
        OBVIOUS
      <3>3. wrote'[p] = [NoWrites EXCEPT !.work = row]
        BY <1>3, <3>1, <3>2, UnderWay
      <3>4. /\ UnusedResult(a.msg)' /\ ResultAccepted(w, a.msg)'
        BY <1>1, <1>2, <1>3, <1>8, <2>2
           DEF UnusedResult, TransitionHolds, ResultAccepted, Associated, BoundTo
      <3>5. TransitionHolds(p)'
        BY <1>1, <1>2, <1>3, <1>4, <1>8, <3>1, <3>2, <3>3, <3>4
           DEF TransitionHolds, Locked
      <3> QED BY <1>1, <1>2, <1>8, <3>1, <3>5, GoesOn, UnderWay
    <2> QED BY <2>1, <2>2
  <1> QED BY <1>3, <1>6, <1>7, <1>8

(* add_message looks for the message and checks what it will be bound to. *)
LEMMA CheckAppendHolds ==
  ASSUME LockInv, NEW p \in Procs, CheckAppend(p)
  PROVE  CallHolds(p)'
  <1>1. PICK a, b : a = call[p] /\ b = bound[p]
    OBVIOUS
  <1>2. /\ pc[p] = "existing" /\ Quiet(p) /\ pass'[p] = pass[p] /\ call'[p] = a
        /\ UNCHANGED <<conv, work, msg, lock, wrote, bound>>
    BY <1>1 DEF CheckAppend, vars, Quiet
  <1>3. pc'[p] = IF msg[a.msg] = None /\ BindingAccepted(b) /\ conv[a.conv].state = "open"
                 THEN After(p) ELSE "refused"
    BY <1>1, UnderWay DEF CheckAppend
  <1>4. a.op = "append" /\ AppendHolds(p) /\ wrote[p] = NoWrites
    BY <1>1, <1>2, StatementKinds, CallKinds, UnderWay
  <1>5. CASE ~(msg[a.msg] = None /\ BindingAccepted(b) /\ conv[a.conv].state = "open")
    <2>1. pc'[p] = "refused"
      BY <1>3, <1>5
    <2> QED BY <1>2, <2>1, RefusalHolds
  <1>6. CASE msg[a.msg] = None /\ BindingAccepted(b) /\ conv[a.conv].state = "open"
    <2>1. pc'[p] = "insert"
      BY <1>1, <1>2, <1>3, <1>4, <1>6, NextStatements
    <2>2. BindingAccepted(b)'
      BY <1>2, <1>6 DEF BindingAccepted, BoundTo
    <2>3. Binding(a.owner, a.conv, "assistant", a.request)' =
            Binding(a.owner, a.conv, "assistant", a.request)
      BY <1>2 DEF Binding
    <2>4. AppendHolds(p)'
      BY <1>1, <1>2, <1>4, <1>6, <2>1, <2>2, <2>3 DEF AppendHolds, Locked
    <2> QED BY <1>1, <1>2, <1>4, <2>1, <2>4, GoesOn, UnderWay
  <1> QED BY <1>5, <1>6

(* add_message inserts its row, or finds the id taken. *)
LEMMA InsertMessageHolds ==
  ASSUME LockInv, NEW p \in Procs, InsertMessage(p)
  PROVE  CallHolds(p)'
  <1>1. PICK a, b : a = call[p] /\ b = bound[p]
    OBVIOUS
  <1>2. /\ pc[p] = "insert" /\ Quiet(p) /\ pass'[p] = pass[p] /\ call'[p] = a
        /\ UNCHANGED <<conv, work, msg, bound>>
    BY <1>1 DEF InsertMessage, vars, Quiet
  <1>3. /\ a.op = "append" /\ AppendHolds(p) /\ wrote[p] = NoWrites
        /\ a.msg \in Messages /\ a.conv \in Convs
    BY <1>1, <1>2, StatementKinds, CallKinds, UnderWay
  <1>4. CASE msg[a.msg] # None
    <2>1. pc'[p] = "refused"
      BY <1>1, <1>4, UnderWay DEF InsertMessage
    <2> QED BY <1>2, <2>1, RefusalHolds
  <1>5. CASE msg[a.msg] = None
    <2>1. PICK x : x = <<"message", a.msg>>
      OBVIOUS
    <2>2. Wants(p) = x /\ x \in Rows
      BY <1>1, <1>2, <1>3, <2>1, RowKinds DEF Wants
    <2>3. PICK next : next = After(p) /\ Locks(p, next)
      BY <1>1, <1>5 DEF InsertMessage
    <2>4. next = "commit"
      BY <1>1, <1>2, <1>3, <2>3, NextStatements
    <2>5. (\A y \in Rows : lock'[y] = IF y = x THEN p ELSE lock[y]) /\ pc'[p] = next
      BY <2>2, <2>3, LocksRow
    <2>6. PICK t \in Payloads :
            wrote' = [wrote EXCEPT ![p].msg = OneRow(a.msg, Appended(p, t))]
      BY <1>1, <1>5 DEF InsertMessage
    <2>7. wrote'[p] = [NoWrites EXCEPT !.msg = OneRow(a.msg, Appended(p, t))]
      BY <1>3, <2>6, UnderWay
    <2>8. Appended(p, t)' = Appended(p, t)
      BY <1>1, <1>2 DEF Appended
    <2>9. BindingAccepted(b) /\ BindingAccepted(b)'
      BY <1>1, <1>2, <1>3 DEF AppendHolds, BindingAccepted, BoundTo
    <2>10. Binding(a.owner, a.conv, "assistant", a.request)' =
             Binding(a.owner, a.conv, "assistant", a.request)
      BY <1>2 DEF Binding
    <2>11. lock'[<<"conversation", a.conv>>] = p /\ lock'[<<"message", a.msg>>] = p
      BY <1>1, <1>2, <1>3, <2>1, <2>2, <2>5, RowKinds DEF AppendHolds, Locked
    <2>12. /\ conv'[a.conv].state = "open" /\ msg'[a.msg] = None
           /\ b \in Binding(a.owner, a.conv, "assistant", a.request)'
      BY <1>1, <1>2, <1>3, <1>5, <2>10 DEF AppendHolds
    <2>13. AppendHolds(p)'
      BY <1>1, <1>2, <2>4, <2>5, <2>6, <2>7, <2>8, <2>9, <2>11, <2>12
         DEF AppendHolds, Locked
    <2> QED BY <1>1, <1>2, <1>3, <2>4, <2>5, <2>13, GoesOn, UnderWay
  <1> QED BY <1>4, <1>5

(* transition_conversation_lifecycle locks the replacement. *)
LEMMA ReplacementHolds ==
  ASSUME LockInv, NEW p \in Procs, LockReplacement(p)
  PROVE  CallHolds(p)'
  <1>1. PICK a, c, r : a = call[p] /\ c = a.conv /\ r = a.by
    OBVIOUS
  <1>2. /\ pc[p] = "replacement" /\ Quiet(p) /\ pass'[p] = pass[p] /\ call'[p] = a
        /\ UNCHANGED <<conv, work, msg>>
    BY <1>1 DEF LockReplacement, vars, Quiet
  <1>3. /\ a.op = "supersede" /\ SupersedeHolds(p) /\ wrote[p] = NoWrites
        /\ c \in Convs /\ r \in Convs
    BY <1>1, <1>2, StatementKinds, CallKinds, UnderWay
  <1>4. CASE ~ReplacementAccepted(c, r)
    <2>1. pc'[p] = "refused"
      BY <1>1, <1>4, UnderWay DEF LockReplacement, Locks
    <2> QED BY <1>2, <2>1, RefusalHolds
  <1>5. CASE ReplacementAccepted(c, r)
    <2>1. PICK x : x = <<"conversation", r>>
      OBVIOUS
    <2>2. Wants(p) = x /\ x \in Rows
      BY <1>1, <1>2, <1>3, <2>1, RowKinds DEF Wants
    <2>3. PICK next : next = After(p) /\ Locks(p, next)
      BY <1>1, <1>5 DEF LockReplacement
    <2>4. next = "commit"
      BY <1>1, <1>2, <1>3, <2>3, NextStatements
    <2>5. (\A y \in Rows : lock'[y] = IF y = x THEN p ELSE lock[y]) /\ pc'[p] = next
      BY <2>2, <2>3, LocksRow
    <2>6. PICK row : row = OneRow(c, [conv[c] EXCEPT !.state = "superseded", !.sup = r])
      OBVIOUS
    <2>7. wrote' = [wrote EXCEPT ![p].conv = row]
      BY <1>1, <1>5, <2>6 DEF LockReplacement
    <2>8. wrote'[p] = [NoWrites EXCEPT !.conv = row]
      BY <1>3, <2>7, UnderWay
    <2>9. ReplacementAccepted(c, r)'
      BY <1>2, <1>5 DEF ReplacementAccepted, OwnConv
    <2>10. lock'[<<"conversation", c>>] = p /\ lock'[<<"conversation", r>>] = p
      BY <1>1, <1>2, <1>3, <2>1, <2>2, <2>5, RowKinds DEF SupersedeHolds, Locked
    <2>11. SupersedeHolds(p)'
      BY <1>1, <1>2, <1>3, <2>4, <2>5, <2>6, <2>8, <2>9, <2>10
         DEF SupersedeHolds, Locked
    <2> QED BY <1>1, <1>2, <1>3, <2>4, <2>5, <2>11, GoesOn, UnderWay
  <1> QED BY <1>4, <1>5

(* reconcile_interrupted_work selects its candidates. *)
LEMMA SelectHolds ==
  ASSUME LockInv, NEW p \in Procs, SelectCandidates(p)
  PROVE  CallHolds(p)'
  <1> DEFINE S == {w \in Works : work[w] # None /\ work[w].state \in Live}
  <1>1. /\ pc[p] = "select" /\ Quiet(p) /\ call'[p] = call[p]
        /\ UNCHANGED <<conv, work, msg, lock, wrote>>
    BY DEF SelectCandidates, Quiet
  <1>2. /\ call[p].op = "reconcile" /\ ReconcileHolds(p)
        /\ pass[p] = None /\ HoldsNothing(p) /\ p \in Reconcilers
    BY <1>1, StatementKinds, CallKinds, OrderAssumption DEF ReconcileHolds
  <1>3. wrote[p] = NoWrites
    BY <1>1, UnderWay
  <1>4. pass'[p] = S /\ todo'[p] = S /\ pc'[p] = IF S = {} THEN "commit" ELSE After(p)
    BY <1>2, UnderWay DEF SelectCandidates, LockInv, StoreInv, TypeOK
  <1>5. After(p) = "conversation" /\ S # None
    BY <1>1, <1>2, NextStatements, NoneAssumption
  <1> HIDE DEF S
  <1>6. Settled(p)' = {}
    BY <1>4 DEF Settled
  <1>7. Failing(StillLive(Settled(p)), "interrupted")' = NoWrites
    <2>1. StillLive(Settled(p))' = {}
      BY <1>6 DEF StillLive
    <2>2. Provisional({})' = {}
      BY DEF Provisional
    <2>3. Failing({}, "interrupted")' = NoWrites
      <3>1. [w \in {} |-> [work'[w] EXCEPT !.state = "failed", !.failure = "interrupted"]]
              = NoRows
        BY Zenon DEF NoRows
      <3> QED BY <2>2, <3>1 DEF Failing, NoWrites, NoRows
    <2> QED BY <2>1, <2>3
  <1>8. ReconcileHolds(p)'
    BY <1>1, <1>2, <1>3, <1>4, <1>5, <1>6, <1>7 DEF ReconcileHolds, HoldsNothing
  <1> QED BY <1>1, <1>2, <1>3, <1>4, <1>5, <1>8, GoesOn

(* A further failure is added to those already written. *)
LEMMA MoreFailures ==
  ASSUME NEW p, NEW D, NEW f, wrote[p] = Failing(D, f), NEW w
  PROVE  DeletesAndFails(p, w, f) = Failing(D \cup {w}, f)
  <1>1. PICK F : F = [v \in D \cup {w} |->
                        [work[v] EXCEPT !.state = "failed", !.failure = f]]
    OBVIOUS
  <1>2. PICK G : G = [v \in D |-> [work[v] EXCEPT !.state = "failed", !.failure = f]]
    OBVIOUS
  <1>3. PICK row : row = [work[w] EXCEPT !.state = "failed", !.failure = f]
    OBVIOUS
  <1>4. PICK H : H = [m \in Provisional(D) |-> None]
    OBVIOUS
  <1>5. wrote[p] = [conv |-> NoRows, work |-> G, msg |-> H]
    BY <1>2, <1>4, Zenon DEF Failing
  <1>6. DeletesAndFails(p, w, f) =
          [conv |-> NoRows, work |-> Over(OneRow(w, row), G),
           msg |-> Over([m \in BoundTo(w) |-> None], H)]
    <2>1. wrote[p].msg = H /\ wrote[p].work = G /\ wrote[p].conv = NoRows
      BY <1>5
    <2>2. PICK g, h : /\ g = Over(OneRow(w, row), G)
                      /\ h = Over([m \in BoundTo(w) |-> None], H)
      OBVIOUS
    <2>3. DeletesAndFails(p, w, f) = [wrote[p] EXCEPT !.msg = h, !.work = g]
      BY <1>3, <2>1, <2>2 DEF DeletesAndFails
    <2>4. DeletesAndFails(p, w, f) =
            [[conv |-> NoRows, work |-> G, msg |-> H] EXCEPT !.msg = h, !.work = g]
      BY <1>5, <2>3, Zenon
    <2>5. DeletesAndFails(p, w, f) = [conv |-> NoRows, work |-> g, msg |-> h]
      BY <2>4
    <2> QED BY <2>2, <2>5
  <1>7. Over(OneRow(w, row), G) = F
    <2>1. \A v \in D : G[v] = F[v]
      BY <1>1, <1>2, Zenon
    <2>2. F[w] = row
      BY <1>1, <1>3, Zenon
    <2>3. DOMAIN F = D \cup {w} /\ DOMAIN G = D /\ F = [v \in D \cup {w} |-> F[v]]
      BY <1>1, <1>2, Zenon
    <2>4. PICK O : O = OneRow(w, row)
      OBVIOUS
    <2>5. DOMAIN O = {w} /\ O[w] = row
      BY <2>4 DEF OneRow
    <2>6. Over(O, G) = [x \in {w} \cup D |-> IF x \in {w} THEN O[x] ELSE G[x]]
      BY <2>3, <2>5 DEF Over
    <2>7. Over(O, G) = F
      BY <2>1, <2>2, <2>3, <2>5, <2>6
    <2> QED BY <2>4, <2>7
  <1>8. Provisional(D \cup {w}) = Provisional(D) \cup BoundTo(w)
    BY DEF Provisional, BoundTo
  <1>9. Over([m \in BoundTo(w) |-> None], H) = [m \in Provisional(D \cup {w}) |-> None]
    BY <1>4, <1>8 DEF Over
  <1> QED BY <1>1, <1>6, <1>7, <1>9, Zenon DEF Failing

(* A reconciliation locks its next candidate and fails it if it is live. *)
LEMMA ReconcileRecordHolds ==
  ASSUME LockInv, NEW p \in Procs, ReconcileRecord(p)
  PROVE  CallHolds(p)'
  <1>1. PICK w : w = Candidate(p)
    OBVIOUS
  <1>2. /\ pc[p] = "record" /\ Quiet(p) /\ pass'[p] = pass[p] /\ call'[p] = call[p]
        /\ UNCHANGED <<conv, work, msg>> /\ call[p].op = "reconcile"
    BY DEF ReconcileRecord, vars, Quiet
  <1>3. /\ ReconcileHolds(p)
        /\ pass[p] # None /\ pass[p] \in SUBSET Works /\ todo[p] \subseteq pass[p]
        /\ \A v \in pass[p] : /\ work[v] # None /\ work[v] \in WorkRow
                              /\ work[v].conv \in Convs
        /\ w \in todo[p] /\ w \in Works /\ work[w].conv \in Convs
        /\ \A v \in todo[p] \ {w} : Before(w, v)
    BY <1>1, <1>2, CandidatesStand, CallKinds
  <1>4. /\ \A v \in Settled(p) : Locked(p, work[v].conv)
        /\ \A v \in Settled(p), u \in todo[p] : Before(v, u)
        /\ wrote[p] = Failing(StillLive(Settled(p)), "interrupted")
        /\ Locked(p, work[w].conv)
        /\ \A x \in Rows : lock[x] = p =>
             \E v \in Settled(p) \cup {w} :
               \/ x = <<"conversation", work[v].conv>>
               \/ x = <<"work", v>> /\ v # w
    BY <1>1, <1>2, <1>3 DEF ReconcileHolds
  <1>5. PICK x : x = <<"work", w>>
    OBVIOUS
  <1>6. Wants(p) = x /\ x \in Rows
    <2>1. Record(p) = w /\ w # None
      BY <1>1, <1>2, <1>3, NoneAssumption DEF Record
    <2> QED BY <1>2, <1>3, <1>5, <2>1, RowKinds DEF Wants
  <1>7. PICK next : next = (IF todo[p] = {w} THEN After(p) ELSE "conversation")
                    /\ Locks(p, next)
    BY <1>1 DEF ReconcileRecord
  <1>8. next = IF todo[p] = {w} THEN "commit" ELSE "conversation"
    BY <1>2, <1>7, NextStatements
  <1>9. (\A y \in Rows : lock'[y] = IF y = x THEN p ELSE lock[y]) /\ pc'[p] = next
    BY <1>6, <1>7, LocksRow
  <1>10. todo'[p] = todo[p] \ {w}
    BY <1>1, UnderWay DEF ReconcileRecord
  <1>11. Settled(p)' = Settled(p) \cup {w}
    BY <1>2, <1>3, <1>10 DEF Settled
  <1>12. PICK D, E : D = Settled(p) /\ E = D \cup {w}
    OBVIOUS
  <1>13. wrote'[p] = Failing(StillLive(E), "interrupted")
    <2>1. CASE work[w].state \in Live
      <3>1. wrote' = [wrote EXCEPT ![p] = DeletesAndFails(p, w, "interrupted")]
        BY <1>1, <2>1 DEF ReconcileRecord
      <3>2. wrote'[p] = DeletesAndFails(p, w, "interrupted")
        BY <3>1, UnderWay
      <3>3. StillLive(E) = StillLive(D) \cup {w}
        BY <1>12, <2>1 DEF StillLive
      <3>4. PICK L : L = StillLive(D)
        OBVIOUS
      <3>5. wrote[p] = Failing(L, "interrupted")
        BY <1>4, <1>12, <3>4
      <3>6. DeletesAndFails(p, w, "interrupted") = Failing(L \cup {w}, "interrupted")
        BY <3>5, MoreFailures
      <3> QED BY <3>2, <3>3, <3>4, <3>6
    <2>2. CASE work[w].state \notin Live
      <3>1. wrote' = wrote
        BY <1>1, <2>2 DEF ReconcileRecord
      <3>2. StillLive(E) = StillLive(D)
        BY <1>12, <2>2 DEF StillLive
      <3> QED BY <1>4, <1>12, <3>1, <3>2
    <2> QED BY <2>1, <2>2
  <1>14. Failing(StillLive(E), "interrupted")' = Failing(StillLive(E), "interrupted")
    BY <1>2 DEF Failing, StillLive, Provisional
  <1>15. \A v \in E : lock'[<<"conversation", work[v].conv>>] = p
    <2> TAKE v \in E
    <2>1. v \in pass[p] /\ Locked(p, work[v].conv)
      BY <1>3, <1>4, <1>12 DEF Settled
    <2>2. <<"conversation", work[v].conv>> \in Rows
      BY <1>3, <2>1, RowKinds
    <2> QED BY <1>9, <2>1, <2>2 DEF Locked
  <1>16. \A v \in E, u \in todo'[p] : Before(v, u)'
    <2> TAKE v \in E, u \in todo'[p]
    <2>1. u \in todo[p] \ {w}
      BY <1>10
    <2>2. Before(v, u)
      BY <1>3, <1>4, <1>12, <2>1
    <2> QED BY <1>2, <2>2 DEF Before
  <1>17. \A y \in Rows : lock'[y] = p =>
           \E v \in E : y \in {<<"conversation", work[v].conv>>, <<"work", v>>}
    <2> SUFFICES ASSUME NEW y \in Rows, lock'[y] = p
                 PROVE  \E v \in E : y \in {<<"conversation", work[v].conv>>,
                                            <<"work", v>>}
      OBVIOUS
    <2>1. CASE y = x
      BY <1>5, <1>12, <2>1
    <2>2. CASE y # x
      <3>1. lock[y] = p
        BY <1>9, <2>2
      <3> QED BY <1>4, <1>12, <3>1
    <2> QED BY <2>1, <2>2
  <1>18. Settled(p)' = E
    BY <1>11, <1>12
  <1>19. todo'[p] # {} <=> next # "commit"
    BY <1>3, <1>8, <1>10
  <1>20. todo'[p] \subseteq pass'[p] /\ pass'[p] # None
    BY <1>2, <1>3, <1>10
  <1>21. ReconcileHolds(p)'
    <2>1. pc'[p] \in {"commit", "conversation"}
      BY <1>8, <1>9
    <2> QED BY <1>2, <1>9, <1>13, <1>14, <1>15, <1>16, <1>17, <1>18, <1>19, <1>20, <2>1
            DEF ReconcileHolds, Locked
  <1> QED BY <1>2, <1>8, <1>9, <1>21, GoesOn, UnderWay

-----------------------------------------------------------------------------
(* How a call begins and ends. *)

(* A call arrives. *)
LEMMA BeginHolds ==
  ASSUME LockInv, NEW p \in Procs, Begin(p)
  PROVE  CallHolds(p)'
  <1>1. pc[p] = "idle" /\ UNCHANGED <<conv, work, msg, pass, lock, wrote>>
    BY DEF Begin, vars
  <1>2. PICK a \in Calls :
          /\ OneOwner(a)
          /\ a.op = "create" => work[a.work] = None
          /\ call' = [call EXCEPT ![p] = a]
          /\ pc' = [pc EXCEPT ![p] = Head(Plan(a.op))]
    BY DEF Begin
  <1>3. PICK next : next = Head(Plan(a.op))
    OBVIOUS
  <1>4. call'[p] = a /\ pc'[p] = next
    BY <1>2, <1>3, UnderWay DEF LockInv, LockTypes
  <1>5. a.op \in {"create", "start", "fail", "complete", "append", "supersede",
                  "reconcile"}
    BY DEF Calls
  <1>6. next = IF a.op = "reconcile" THEN "select" ELSE "conversation"
    BY <1>3, <1>5 DEF Plan
  <1>7. HoldsNothing(p) /\ pass[p] = None /\ wrote[p] = NoWrites
    BY <1>1 DEF LockInv, CallHolds
  <1>8. HoldsNothing(p)' /\ pass'[p] = None /\ wrote'[p] = NoWrites
    BY <1>1, <1>7 DEF HoldsNothing
  <1>9. OneOwner(a)'
    BY <1>1, <1>2 DEF OneOwner, OwnConv
  <1>10. a.op = "create" => CreateHolds(p)'
    BY <1>1, <1>2, <1>4, <1>6 DEF CreateHolds
  <1>11. a.op \in {"start", "fail", "complete"} => TransitionHolds(p)'
    BY <1>4, <1>6 DEF TransitionHolds
  <1>12. a.op = "append" => AppendHolds(p)'
    BY <1>4, <1>6 DEF AppendHolds
  <1>13. a.op = "supersede" => SupersedeHolds(p)'
    BY <1>4, <1>6 DEF SupersedeHolds
  <1>14. a.op = "reconcile" => ReconcileHolds(p)'
    BY <1>4, <1>6, <1>8 DEF ReconcileHolds
  <1> QED BY <1>4, <1>5, <1>6, <1>8, <1>9, <1>10, <1>11, <1>12, <1>13, <1>14
          DEF CallHolds

(* The locks and the candidates of a call that ends. *)
LEMMA ReleasesLocks ==
  ASSUME LockInv, NEW p \in Procs, Releases(p)
  PROVE  /\ LockTypes'
         /\ call' = call /\ bound' = bound
         /\ pc'[p] = "done" /\ wrote'[p] = NoWrites /\ pass'[p] = None
         /\ HoldsNothing(p)'
         /\ \A x \in Rows : lock'[x] = IF lock[x] = p THEN None ELSE lock[x]
         /\ \A q \in Procs \ {p} : Same(q)
  <1>1. LockTypes /\ pass \in [Reconcilers -> (SUBSET Works) \cup {None}]
        /\ Reconcilers = Procs /\ None \notin Procs
    BY OrderAssumption, ProcsAssumption DEF LockInv, StoreInv, TypeOK
  <1>2. /\ lock' = [x \in Rows |-> IF lock[x] = p THEN None ELSE lock[x]]
        /\ pc' = [pc EXCEPT ![p] = "done"]
        /\ wrote' = [wrote EXCEPT ![p] = NoWrites]
        /\ todo' = [todo EXCEPT ![p] = {}]
        /\ pass' = [pass EXCEPT ![p] = None]
        /\ call' = call /\ bound' = bound
    BY DEF Releases, LocksWithout
  <1>3. LockTypes'
    BY <1>1, <1>2 DEF LockTypes
  <1>4. /\ pc'[p] = "done" /\ wrote'[p] = NoWrites /\ pass'[p] = None
        /\ HoldsNothing(p)'
        /\ \A x \in Rows : lock'[x] = IF lock[x] = p THEN None ELSE lock[x]
    BY <1>1, <1>2 DEF LockTypes, HoldsNothing
  <1>5. \A q \in Procs \ {p} : Same(q)
    BY <1>1, <1>2 DEF LockTypes, Same
  <1> QED BY <1>2, <1>3, <1>4, <1>5

(* A call that has ended keeps nothing. *)
LEMMA ReleaseHolds ==
  ASSUME LockInv, NEW p \in Procs, pc[p] # "idle", Releases(p),
         \A c \in Convs : conv'[c] # None /\ conv'[c].owner = conv[c].owner
  PROVE  CallHolds(p)'
  <1>1. PICK a : a = call[p]
    OBVIOUS
  <1>2. /\ call'[p] = a /\ pc'[p] = "done" /\ wrote'[p] = NoWrites
        /\ pass'[p] = None /\ HoldsNothing(p)'
    BY <1>1, ReleasesLocks
  <1>3. a \in Calls /\ OneOwner(a)
    BY <1>1, CallKinds
  <1>4. a.op \in {"create", "start", "fail", "complete", "append", "supersede",
                  "reconcile"}
    BY <1>3 DEF Calls
  <1>5. /\ a.op \in {"create", "append"} => a.conv \in Convs
        /\ a.op = "supersede" => a.conv \in Convs /\ a.by \in Convs
    BY <1>3 DEF Calls
  <1>6. OneOwner(a)'
    BY <1>3, <1>5 DEF OneOwner, OwnConv
  <1>7. a.op = "create" => CreateHolds(p)'
    BY <1>2 DEF CreateHolds
  <1>8. a.op \in {"start", "fail", "complete"} => TransitionHolds(p)'
    BY <1>2 DEF TransitionHolds
  <1>9. a.op = "append" => AppendHolds(p)'
    BY <1>2 DEF AppendHolds
  <1>10. a.op = "supersede" => SupersedeHolds(p)'
    BY <1>2 DEF SupersedeHolds
  <1>11. a.op = "reconcile" => ReconcileHolds(p)'
    BY <1>2 DEF ReconcileHolds
  <1> QED BY <1>2, <1>3, <1>4, <1>6, <1>7, <1>8, <1>9, <1>10, <1>11 DEF CallHolds

-----------------------------------------------------------------------------
(* Every step keeps the invariant. *)

\* A statement of p that commits nothing: the tables stay, and so does what the
\* other calls have.
Onward(p) ==
  /\ UNCHANGED <<conv, work, msg, claim, current, call>>
  /\ pc[p] \notin {"idle", "commit", "done"}
  /\ pc'[p] # "idle"
  /\ LockTypes'
  /\ \A q \in Procs \ {p} : Same(q)
  /\ \A y \in Rows : lock'[y] = p => lock[y] = p \/ y = Wants(p)
  /\ pc[p] \in {"key", "insert"} => lock' = lock \/ pc'[p] = "commit"

(* What a lock that is taken changes. *)
LEMMA LocksOnly ==
  ASSUME LockInv, NEW p \in Procs, NEW next, Locks(p, next)
  PROVE  /\ lock' \in [Rows -> Procs \cup {None}]
         /\ pc' = [pc EXCEPT ![p] = next]
         /\ \A y \in Rows : lock'[y] = p => lock[y] = p \/ y = Wants(p)
         /\ \A q \in Procs \ {p} : \A x \in Rows : lock'[x] = q <=> lock[x] = q
  <1>1. lock \in [Rows -> Procs \cup {None}] /\ None \notin Procs \cup Rows
    BY ProcsAssumption DEF LockInv, LockTypes
  <1>2. CASE Wants(p) = None
    BY <1>1, <1>2 DEF Locks
  <1>3. CASE Wants(p) # None
    <2>1. PICK x : x = Wants(p)
      OBVIOUS
    <2>2. lock[x] \in {None, p} /\ lock' = [lock EXCEPT ![x] = p]
      BY <1>3, <2>1 DEF Locks, Blocked
    <2>3. \A y \in Rows : lock'[y] = IF y = x THEN p ELSE lock[y]
      BY <1>1, <2>2
    <2> QED BY <1>1, <2>1, <2>2, <2>3 DEF Locks
  <1> QED BY <1>2, <1>3

(* A unique key is wanted by an insertion alone. *)
LEMMA KeyWanted ==
  ASSUME NEW p \in Procs
  PROVE  /\ \A m \in Messages : Wants(p) = <<"message", m>> => pc[p] = "insert"
         /\ \A o \in Owners, r \in Requests :
              Wants(p) = <<"request", o, r>> => pc[p] = "key"
  <1>1. /\ \A m \in Messages : <<"message", m>> # None
        /\ \A o \in Owners, r \in Requests : <<"request", o, r>> # None
    BY ProcsAssumption, RowKinds
  <1>2. \/ pc[p] \in {"key", "insert"}
        \/ Wants(p) = None
        \/ \E x : Wants(p) \in {<<"conversation", x>>, <<"work", x>>}
    BY DEF Wants
  <1>3. pc[p] = "key" => Wants(p) = <<"request", call[p].owner, call[p].request>>
    BY DEF Wants
  <1>4. pc[p] = "insert" => Wants(p) = <<"message", call[p].msg>>
    BY DEF Wants
  <1> QED BY <1>1, <1>2, <1>3, <1>4

(* A statement that commits nothing keeps the invariant. *)
LEMMA OnwardKeeps ==
  ASSUME LockInv, NEW p \in Procs, Onward(p), [Next]_vars, CallHolds(p)'
  PROVE  LockInv'
  <1>1. StoreInv'
    BY NextStoreInv DEF LockInv
  <1>2. UNCHANGED <<conv, work, msg, claim, current, call>> /\ LockTypes'
    BY DEF Onward
  <1>3. /\ \A c \in Convs : conv'[c] # None
        /\ \A q \in Claims : claim'[q] = None
        /\ RequestsAreDistinct'
    BY <1>2 DEF LockInv, RequestsAreDistinct
  <1>4. \A q \in Procs \ {p} : pc'[q] = pc[q] /\ \A x \in Rows : lock'[x] = q <=> lock[x] = q
    BY DEF Onward, Same
  <1>5. KeysAtCommit'
    <2>1. ASSUME NEW x \in Rows, NEW q \in Procs, lock'[x] = q,
                 lock[x] = q => pc[q] = "commit",
                 x = Wants(p) => pc[p] \in {"key", "insert"}
          PROVE  pc'[q] = "commit"
      <3>1. CASE q # p
        BY <1>4, <2>1, <3>1
      <3>2. CASE q = p
        <4>1. lock[x] # p /\ x = Wants(p)
          BY <2>1, <3>2 DEF Onward
        <4> QED BY <2>1, <3>2, <4>1 DEF Onward
      <3> QED BY <3>1, <3>2
    <2>2. KeysAtCommit
      BY DEF LockInv
    <2>3. \A q \in Procs, m \in Messages :
            lock'[<<"message", m>>] = q => pc'[q] = "commit"
      BY <2>1, <2>2, RowKinds, KeyWanted DEF KeysAtCommit
    <2>4. \A q \in Procs, o \in Owners, r \in Requests :
            lock'[<<"request", o, r>>] = q => pc'[q] = "commit"
      BY <2>1, <2>2, RowKinds, KeyWanted DEF KeysAtCommit
    <2> QED BY <2>3, <2>4 DEF KeysAtCommit
  <1>6. IdsAreFresh'
    <2>1. \A q \in Procs : pc'[q] # "idle" => pc[q] # "idle"
      BY <1>4 DEF Onward
    <2> QED BY <1>2, <2>1 DEF LockInv, IdsAreFresh
  <1>7. \A q \in Procs \ {p} : CallHolds(q)'
    <2> TAKE q \in Procs \ {p}
    <2>1. Same(q)
      BY DEF Onward
    <2>2. Spares(q)
      BY <1>2 DEF LockInv, Spares
    <2> QED BY <1>1, <2>1, <2>2, CallKeeps
  <1> QED BY <1>1, <1>2, <1>3, <1>5, <1>6, <1>7 DEF LockInv

(* The statements that commit nothing: the lock of a conversation. *)
LEMMA ConversationMoves ==
  ASSUME LockInv, NEW p \in Procs, LockConversation(p)
  PROVE  Onward(p)
  <1>1. PICK next : Locks(p, next) /\ next \in {"refused", After(p)}
    BY DEF LockConversation, LocksConversation
  <1>2. /\ pc[p] = "conversation"
        /\ UNCHANGED <<conv, work, msg, claim, current, pass, call, bound, todo, wrote>>
    BY DEF LockConversation, vars
  <1>3. next \in {"refused", "key", "record", "replacement"}
    BY <1>1, <1>2, NextStatements, CallKinds
  <1>4. LockTypes'
    BY <1>1, <1>2, <1>3, LocksOnly, UnderWay DEF LockInv, LockTypes
  <1>5. pc'[p] = next /\ \A q \in Procs \ {p} : pc'[q] = pc[q]
    BY <1>1, LocksOnly, UnderWay
  <1>6. \A q \in Procs \ {p} : Same(q)
    BY <1>1, <1>2, <1>5, LocksOnly DEF Same
  <1> QED BY <1>1, <1>2, <1>3, <1>4, <1>5, <1>6, LocksOnly DEF Onward

(* The insertion of a work. *)
LEMMA InsertWorkMoves ==
  ASSUME LockInv, NEW p \in Procs, InsertWork(p)
  PROVE  Onward(p)
  <1>1. /\ pc[p] = "key"
        /\ UNCHANGED <<conv, work, msg, claim, current, pass, call, bound, todo>>
    BY DEF InsertWork, vars
  <1>2. After(p) = "commit"
    BY <1>1, StatementKinds, NextStatements
  <1>3. CASE Named(p) = {}
    <2>1. PICK next : Locks(p, next) /\ next = "commit"
      BY <1>2, <1>3 DEF InsertWork
    <2>2. wrote' = [wrote EXCEPT ![p].work = OneRow(call[p].work, Admitted(p))]
      BY <1>3 DEF InsertWork
    <2>3. LockTypes'
      BY <1>1, <2>1, <2>2, LocksOnly, UnderWay DEF LockInv, LockTypes
    <2>4. pc'[p] = next /\ \A q \in Procs \ {p} : pc'[q] = pc[q] /\ wrote'[q] = wrote[q]
      BY <2>1, <2>2, LocksOnly, UnderWay
    <2>5. \A q \in Procs \ {p} : Same(q)
      BY <1>1, <2>1, <2>4, LocksOnly DEF Same
    <2> QED BY <1>1, <2>1, <2>3, <2>4, <2>5, LocksOnly DEF Onward
  <1>4. CASE Named(p) # {}
    <2>1. pc' = [pc EXCEPT ![p] = "record"] /\ UNCHANGED <<lock, wrote>>
      BY <1>4 DEF InsertWork
    <2> QED BY <1>1, <2>1, UnderWay DEF Onward, Same, LockInv, LockTypes
  <1> QED BY <1>3, <1>4

(* The lock of a work's record. *)
LEMMA RecordMoves ==
  ASSUME LockInv, NEW p \in Procs, LockRecord(p)
  PROVE  Onward(p)
  <1>1. PICK next : /\ Locks(p, next) /\ next \in {"refused", After(p)}
                    /\ call[p].op = "create" => next = "refused"
    BY DEF LockRecord
  <1>2. /\ pc[p] = "record" /\ call[p].op # "reconcile"
        /\ UNCHANGED <<conv, work, msg, claim, current, pass, call, todo, wrote>>
        /\ bound' = [bound EXCEPT ![p] = Record(p)]
    BY DEF LockRecord, vars
  <1>3. next \in {"refused", "update", "result", "existing"}
    BY <1>1, <1>2, NextStatements, CallKinds, StatementKinds
  <1>4. Record(p) \in Works \cup {None}
    BY <1>2, CallKinds, StatementKinds DEF Record, Named
  <1>5. LockTypes'
    BY <1>1, <1>2, <1>3, <1>4, LocksOnly, UnderWay DEF LockInv, LockTypes
  <1>6. pc'[p] = next /\ \A q \in Procs \ {p} : pc'[q] = pc[q] /\ bound'[q] = bound[q]
    BY <1>1, <1>2, LocksOnly, UnderWay
  <1>7. \A q \in Procs \ {p} : Same(q)
    BY <1>1, <1>2, <1>6, LocksOnly DEF Same
  <1> QED BY <1>1, <1>2, <1>3, <1>5, <1>6, <1>7, LocksOnly DEF Onward

(* The look at a completing message. *)
LEMMA ResultMoves ==
  ASSUME LockInv, NEW p \in Procs, CheckResult(p)
  PROVE  Onward(p)
  <1>1. /\ pc[p] = "result"
        /\ UNCHANGED <<conv, work, msg, claim, current, pass, call, bound, todo,
                       lock, wrote>>
    BY DEF CheckResult, vars
  <1>2. After(p) = "update"
    BY <1>1, StatementKinds, NextStatements
  <1>3. PICK next \in {"update", "refused"} : pc' = [pc EXCEPT ![p] = next]
    BY <1>2 DEF CheckResult
  <1> QED BY <1>1, <1>3, UnderWay DEF Onward, Same, LockInv, LockTypes

(* The update of a work. *)
LEMMA UpdateMoves ==
  ASSUME LockInv, NEW p \in Procs, UpdateWork(p)
  PROVE  Onward(p)
  <1>1. /\ pc[p] = "update"
        /\ UNCHANGED <<conv, work, msg, claim, current, pass, call, bound, todo, lock>>
    BY DEF UpdateWork, vars
  <1>2. call[p].op \in {"start", "fail", "complete"} /\ After(p) = "commit"
    BY <1>1, StatementKinds, NextStatements
  <1>3. \E next \in {"commit", "refused"} : pc' = [pc EXCEPT ![p] = next]
    BY <1>2 DEF UpdateWork
  <1>4. DOMAIN wrote' = Procs /\ \A q \in Procs \ {p} : wrote'[q] = wrote[q]
    <2>1. CASE call[p].op = "start"
      BY <2>1, UnderWay DEF UpdateWork
    <2>2. CASE call[p].op = "fail"
      BY <2>2, UnderWay DEF UpdateWork
    <2>3. CASE call[p].op = "complete"
      BY <2>3, UnderWay DEF UpdateWork
    <2> QED BY <1>2, <2>1, <2>2, <2>3
  <1> QED BY <1>1, <1>3, <1>4, UnderWay DEF Onward, Same, LockInv, LockTypes

(* The look for an appended message. *)
LEMMA CheckAppendMoves ==
  ASSUME LockInv, NEW p \in Procs, CheckAppend(p)
  PROVE  Onward(p)
  <1>1. /\ pc[p] = "existing"
        /\ UNCHANGED <<conv, work, msg, claim, current, pass, call, bound, todo,
                       lock, wrote>>
    BY DEF CheckAppend, vars
  <1>2. After(p) = "insert"
    BY <1>1, StatementKinds, NextStatements
  <1>3. PICK next \in {"insert", "refused"} : pc' = [pc EXCEPT ![p] = next]
    BY <1>2 DEF CheckAppend
  <1> QED BY <1>1, <1>3, UnderWay DEF Onward, Same, LockInv, LockTypes

(* The insertion of a message. *)
LEMMA InsertMessageMoves ==
  ASSUME LockInv, NEW p \in Procs, InsertMessage(p)
  PROVE  Onward(p)
  <1>1. /\ pc[p] = "insert"
        /\ UNCHANGED <<conv, work, msg, claim, current, pass, call, bound, todo>>
    BY DEF InsertMessage, vars
  <1>2. After(p) = "commit"
    BY <1>1, StatementKinds, NextStatements
  <1>3. CASE msg[call[p].msg] = None
    <2>1. PICK next : Locks(p, next) /\ next = "commit"
      BY <1>2, <1>3 DEF InsertMessage
    <2>2. DOMAIN wrote' = Procs /\ \A q \in Procs \ {p} : wrote'[q] = wrote[q]
      BY <1>3, UnderWay DEF InsertMessage
    <2>3. LockTypes'
      BY <1>1, <2>1, <2>2, LocksOnly, UnderWay DEF LockInv, LockTypes
    <2>4. pc'[p] = next /\ \A q \in Procs \ {p} : pc'[q] = pc[q]
      BY <2>1, LocksOnly, UnderWay
    <2>5. \A q \in Procs \ {p} : Same(q)
      BY <1>1, <2>1, <2>2, <2>4, LocksOnly DEF Same
    <2> QED BY <1>1, <2>1, <2>3, <2>4, <2>5, LocksOnly DEF Onward
  <1>4. CASE msg[call[p].msg] # None
    <2>1. pc' = [pc EXCEPT ![p] = "refused"] /\ UNCHANGED <<lock, wrote>>
      BY <1>4 DEF InsertMessage
    <2> QED BY <1>1, <2>1, UnderWay DEF Onward, Same, LockInv, LockTypes
  <1> QED BY <1>3, <1>4

(* The lock of a replacement. *)
LEMMA ReplacementMoves ==
  ASSUME LockInv, NEW p \in Procs, LockReplacement(p)
  PROVE  Onward(p)
  <1>1. /\ pc[p] = "replacement"
        /\ UNCHANGED <<conv, work, msg, claim, current, pass, call, bound, todo>>
    BY DEF LockReplacement, vars
  <1>2. After(p) = "commit"
    BY <1>1, StatementKinds, NextStatements
  <1>3. PICK next : Locks(p, next) /\ next \in {"commit", "refused"}
    BY <1>2 DEF LockReplacement
  <1>4. DOMAIN wrote' = Procs /\ \A q \in Procs \ {p} : wrote'[q] = wrote[q]
    <2>1. CASE ReplacementAccepted(call[p].conv, call[p].by)
      BY <2>1, UnderWay DEF LockReplacement
    <2>2. CASE ~ReplacementAccepted(call[p].conv, call[p].by)
      BY <2>2, UnderWay DEF LockReplacement
    <2> QED BY <2>1, <2>2
  <1>5. LockTypes'
    BY <1>1, <1>3, <1>4, LocksOnly, UnderWay DEF LockInv, LockTypes
  <1>6. pc'[p] = next /\ \A q \in Procs \ {p} : pc'[q] = pc[q]
    BY <1>3, LocksOnly, UnderWay
  <1>7. \A q \in Procs \ {p} : Same(q)
    BY <1>1, <1>3, <1>4, <1>6, LocksOnly DEF Same
  <1> QED BY <1>1, <1>3, <1>5, <1>6, <1>7, LocksOnly DEF Onward

(* The selection of candidates, which begins the pass of DurableWork. *)
LEMMA SelectMoves ==
  ASSUME LockInv, NEW p \in Procs, SelectCandidates(p)
  PROVE  Onward(p) /\ BeginReconcile(p)
  <1>1. /\ pc[p] = "select"
        /\ UNCHANGED <<conv, work, msg, claim, current, call, bound, lock, wrote>>
    BY DEF SelectCandidates
  <1>2. /\ After(p) = "conversation" /\ ReconcileHolds(p)
        /\ pass \in [Procs -> (SUBSET Works) \cup {None}]
    BY <1>1, StatementKinds, NextStatements, CallKinds, OrderAssumption
       DEF LockInv, StoreInv, TypeOK
  <1>3. PICK S \in SUBSET Works :
          /\ S = {w \in Works : work[w] # None /\ work[w].state \in Live}
          /\ pass' = [pass EXCEPT ![p] = S]
          /\ todo' = [todo EXCEPT ![p] = S]
          /\ pc' = [pc EXCEPT ![p] = IF S = {} THEN "commit" ELSE After(p)]
    BY DEF SelectCandidates
  <1>4. Onward(p)
    BY <1>1, <1>2, <1>3, UnderWay DEF Onward, Same, LockInv, LockTypes
  <1> QED BY <1>1, <1>2, <1>3, <1>4 DEF BeginReconcile, ReconcileHolds

(* The lock of a candidate. *)
LEMMA ReconcileRecordMoves ==
  ASSUME LockInv, NEW p \in Procs, ReconcileRecord(p)
  PROVE  Onward(p)
  <1>1. /\ pc[p] = "record" /\ call[p].op = "reconcile"
        /\ UNCHANGED <<conv, work, msg, claim, current, pass, call, bound>>
        /\ todo' = [todo EXCEPT ![p] = @ \ {Candidate(p)}]
    BY DEF ReconcileRecord, vars
  <1>2. After(p) = "commit"
    BY <1>1, NextStatements
  <1>3. PICK next : Locks(p, next) /\ next \in {"commit", "conversation"}
    BY <1>2 DEF ReconcileRecord
  <1>4. DOMAIN wrote' = Procs /\ \A q \in Procs \ {p} : wrote'[q] = wrote[q]
    BY UnderWay DEF ReconcileRecord
  <1>5. LockTypes'
    BY <1>1, <1>3, <1>4, LocksOnly, UnderWay DEF LockInv, LockTypes
  <1>6. pc'[p] = next /\ \A q \in Procs \ {p} : pc'[q] = pc[q] /\ todo'[q] = todo[q]
    BY <1>1, <1>3, LocksOnly, UnderWay
  <1>7. \A q \in Procs \ {p} : Same(q)
    BY <1>1, <1>3, <1>4, <1>6, LocksOnly DEF Same
  <1> QED BY <1>1, <1>3, <1>5, <1>6, <1>7, LocksOnly DEF Onward

(* The end of a call keeps the invariant when what it leaves in the tables     *)
(* lies in conversations it has locked.                                        *)
LEMMA EndKeeps ==
  ASSUME LockInv, NEW p \in Procs, pc[p] # "idle", Releases(p), Respects(p),
         StoreInv', RequestsAreDistinct'
  PROVE  LockInv'
  <1>1. /\ LockTypes' /\ call' = call /\ pc'[p] = "done" /\ HoldsNothing(p)'
        /\ \A x \in Rows : lock'[x] = IF lock[x] = p THEN None ELSE lock[x]
        /\ \A q \in Procs \ {p} : Same(q)
    BY ReleasesLocks
  <1>2. \A c \in Convs : conv'[c] # None /\ conv'[c].owner = conv[c].owner
    BY DEF Respects
  <1>3. \A q \in Claims : claim'[q] = None
    BY DEF LockInv, Releases
  <1>4. KeysAtCommit'
    <2>1. ASSUME NEW x \in Rows, NEW q \in Procs, lock'[x] = q,
                 lock[x] = q => pc[q] = "commit"
          PROVE  pc'[q] = "commit"
      <3>1. q # p
        BY <1>1, <2>1 DEF HoldsNothing
      <3> QED BY <1>1, <2>1, <3>1 DEF Same
    <2>2. KeysAtCommit
      BY DEF LockInv
    <2>3. \A q \in Procs, m \in Messages :
            lock'[<<"message", m>>] = q => pc'[q] = "commit"
      BY <2>1, <2>2, RowKinds DEF KeysAtCommit
    <2>4. \A q \in Procs, o \in Owners, r \in Requests :
            lock'[<<"request", o, r>>] = q => pc'[q] = "commit"
      BY <2>1, <2>2, RowKinds DEF KeysAtCommit
    <2> QED BY <2>3, <2>4 DEF KeysAtCommit
  <1>5. IdsAreFresh'
    <2>1. \A q \in Procs : pc'[q] # "idle" => pc[q] # "idle"
      BY <1>1 DEF Same
    <2> QED BY <1>1, <2>1 DEF LockInv, IdsAreFresh
  <1>6. \A q \in Procs \ {p} : Spares(q)
    <2> TAKE q \in Procs \ {p}
    <2>1. \A c \in Convs : Locked(q, c) => conv'[c] = conv[c]
      BY DEF Respects, Locked
    <2>2. \A w \in Works : work[w] # None =>
            /\ work'[w] # None
            /\ work'[w].conv = work[w].conv
            /\ work'[w].owner = work[w].owner
            /\ work'[w].request = work[w].request
            /\ Locked(q, work[w].conv) => work'[w] = work[w]
      BY DEF Respects, Locked
    <2>3. \A w \in Works : work[w] = None /\ work'[w] # None =>
            /\ ~Locked(q, work'[w].conv)
            /\ lock[<<"request", work'[w].owner, work'[w].request>>] # q
            /\ pc[q] # "idle" /\ call[q].op = "create" => call[q].work # w
      BY DEF Respects, Locked, LockInv, IdsAreFresh
    <2>4. \A m \in Messages : msg[m] # None =>
            /\ msg'[m] \in {None, msg[m]}
            /\ Locked(q, msg[m].conv) => msg'[m] = msg[m]
      BY DEF Respects, Locked
    <2>5. \A m \in Messages : msg[m] = None /\ msg'[m] # None =>
            ~Locked(q, msg'[m].conv) /\ lock[<<"message", m>>] # q
      BY DEF Respects, Locked
    <2> QED BY <1>2, <2>1, <2>2, <2>3, <2>4, <2>5 DEF Spares
  <1>7. \A q \in Procs \ {p} : CallHolds(q)'
    BY <1>1, <1>6, CallKeeps
  <1>8. CallHolds(p)'
    BY <1>2, ReleaseHolds
  <1> QED BY <1>1, <1>2, <1>3, <1>4, <1>5, <1>7, <1>8 DEF LockInv

(* A commit inserts no second work for a request. *)
LEMMA CommitKeepsRequests ==
  ASSUME LockInv, NEW p \in Procs, Commit(p)
  PROVE  RequestsAreDistinct'
  <1>1. RequestsAreDistinct /\ Respects(p) /\ pc[p] = "commit"
    BY CommitRespects, CommitFrame DEF LockInv
  <1>2. CASE call[p].op # "create"
    <2>1. \A w \in Works : work'[w] # None =>
            /\ work[w] # None /\ work'[w].owner = work[w].owner
            /\ work'[w].request = work[w].request
      BY <1>1, <1>2 DEF Respects
    <2> QED BY <1>1, <2>1 DEF RequestsAreDistinct
  <1>3. CASE call[p].op = "create"
    <2> DEFINE a == call[p]
    <2>1. /\ CreateHolds(p) /\ a.work \in Works
          /\ CreateWork(a.work, a.owner, a.conv, a.request, None)
      BY <1>1, <1>3, CallKinds, CreateCommits
    <2>2. Named(p) = {}
      BY <1>1, <2>1 DEF CreateHolds
    <2>3. PICK row : /\ row = [owner |-> a.owner, conv |-> a.conv,
                               request |-> a.request, client |-> None,
                               state |-> "pending", started |-> FALSE,
                               result |-> None, failure |-> None]
                     /\ work' = [work EXCEPT ![a.work] = row]
      BY <2>1 DEF CreateWork
    <2>4. row.owner = a.owner /\ row.request = a.request
      BY <2>3
    <2>5. \A w \in Works : work'[w] = IF w = a.work THEN row ELSE work[w]
      BY <2>1, <2>3, CommitFrame
    <2>6. \A w \in Works : ~(work[w] # None /\ work[w].owner = a.owner
                               /\ work[w].request = a.request)
      BY <2>2 DEF Named
    <2> QED BY <1>1, <2>4, <2>5, <2>6 DEF RequestsAreDistinct
  <1> QED BY <1>2, <1>3

(* A call that commits is a transaction and keeps the invariant. *)
LEMMA CommitKeeps ==
  ASSUME LockInv, NEW p \in Procs, Commit(p)
  PROVE  LockInv' /\ [Next]_vars
  <1>1. Next /\ pc[p] # "idle" /\ Releases(p)
    BY CommitIsTransaction, CommitFrame DEF Commit
  <1>2. StoreInv'
    BY <1>1, NextStoreInv DEF LockInv
  <1> QED BY <1>1, <1>2, CommitRespects, CommitKeepsRequests, EndKeeps

(* So does one that is rolled back. *)
LEMMA RollbackKeeps ==
  ASSUME LockInv, NEW p \in Procs, pc[p] # "idle", Rollback(p)
  PROVE  LockInv' /\ [Next]_vars
  <1>1. /\ Releases(p) /\ UNCHANGED <<conv, work, msg, claim, current>>
        /\ pass' = [pass EXCEPT ![p] = None]
    BY DEF Rollback, Releases
  <1>2. [Next]_vars
    <2>1. CASE pass[p] = None
      <3>1. pass \in [Procs -> (SUBSET Works) \cup {None}]
        BY OrderAssumption DEF LockInv, StoreInv, TypeOK
      <3>2. pass' = pass
        BY <1>1, <2>1, <3>1
      <3> QED BY <1>1, <3>2 DEF vars
    <2>2. CASE pass[p] # None
      <3>1. AbortReconcile(p) /\ p \in Reconcilers
        BY <1>1, <2>2, OrderAssumption DEF AbortReconcile
      <3> QED BY <3>1 DEF Next
    <2> QED BY <2>1, <2>2
  <1>3. StoreInv'
    BY <1>2, NextStoreInv DEF LockInv
  <1>4. Respects(p) /\ RequestsAreDistinct'
    BY <1>1 DEF LockInv, Respects, RequestsAreDistinct
  <1> QED BY <1>1, <1>2, <1>3, <1>4, EndKeeps

(* A call that arrives names an id no other call has. *)
LEMMA BeginKeeps ==
  ASSUME LockInv, NEW p \in Procs, Begin(p)
  PROVE  LockInv'
  <1>1. /\ pc[p] = "idle"
        /\ UNCHANGED <<conv, work, msg, claim, current, pass, bound, todo, lock, wrote>>
    BY DEF Begin, vars
  <1>2. PICK a \in Calls :
          /\ a.op = "create" => \A q \in Procs : pc[q] # "idle" =>
               ~(call[q].op = "create" /\ call[q].work = a.work)
          /\ call' = [call EXCEPT ![p] = a]
          /\ pc' = [pc EXCEPT ![p] = Head(Plan(a.op))]
    BY DEF Begin
  <1>3. Head(Plan(a.op)) \in {"select", "conversation"}
    <2>1. a.op \in {"create", "start", "fail", "complete", "append", "supersede",
                    "reconcile"}
      BY DEF Calls
    <2> QED BY <2>1 DEF Plan
  <1>4. LockTypes /\ HoldsNothing(p)
    BY <1>1 DEF LockInv, CallHolds
  <1>5. LockTypes'
    BY <1>1, <1>2, <1>3, <1>4 DEF LockTypes
  <1>6. /\ call'[p] = a
        /\ \A q \in Procs \ {p} : call'[q] = call[q] /\ pc'[q] = pc[q]
    BY <1>2, <1>4 DEF LockTypes
  <1>7. StoreInv'
    BY <1>1, NextStoreInv DEF LockInv, vars
  <1>8. /\ \A c \in Convs : conv'[c] # None
        /\ \A q \in Claims : claim'[q] = None
        /\ RequestsAreDistinct'
    BY <1>1 DEF LockInv, RequestsAreDistinct
  <1>9. KeysAtCommit'
    BY <1>1, <1>4, <1>6, RowKinds DEF LockInv, KeysAtCommit, HoldsNothing
  <1>10. IdsAreFresh'
    BY <1>2, <1>6 DEF LockInv, IdsAreFresh
  <1>11. \A q \in Procs \ {p} : CallHolds(q)'
    <2> TAKE q \in Procs \ {p}
    <2>1. Same(q)
      BY <1>1, <1>6 DEF Same
    <2>2. Spares(q)
      BY <1>1 DEF LockInv, Spares
    <2> QED BY <1>7, <2>1, <2>2, CallKeeps
  <1> QED BY <1>5, <1>7, <1>8, <1>9, <1>10, <1>11, BeginHolds DEF LockInv

(* What earlier calls may have left, and no call yet. *)
LEMMA InitLockInv == LockInit => LockInv
  <1> SUFFICES ASSUME LockInit PROVE LockInv
    OBVIOUS
  <1>1. /\ conv \in [Convs -> ConvRow]
        /\ \A c \in Convs : conv[c].state = "open" /\ conv[c].sup = None
    BY DEF LockInit, ConvRow, ConvStates
  <1>2. work \in [Works -> WorkRow \cup {None}]
    BY DEF LockInit, WorkRow, WorkStates, Live
  <1>3. /\ \A w \in Works : work[w] # None =>
             /\ work[w].state \in Live /\ LiveRow(w) /\ Addressable(w)
    BY DEF LockInit, LiveRow
  <1>4. msg \in [Messages -> MsgRow \cup {None}]
    BY DEF LockInit, MsgRow, Roles
  <1>5. /\ claim = [q \in Claims |-> None]
        /\ current = [o \in Owners |-> [k \in Clients |-> None]]
        /\ pass = [p \in Procs |-> None] /\ Reconcilers = Procs
        /\ RequestsAreDistinct /\ BindingsAreExact
    BY OrderAssumption DEF LockInit
  <1>6. TypeOK
    BY <1>1, <1>2, <1>4, <1>5 DEF TypeOK
  <1>7. RowsAreConsistent
    BY <1>3 DEF RowsAreConsistent, Live
  <1>8. ResultsAreDistinct
    BY <1>3 DEF ResultsAreDistinct, LiveRow
  <1>9. ClaimsAreAnchored /\ LocatorsAreOwned /\ CandidatesExist
    BY <1>5 DEF ClaimsAreAnchored, LocatorsAreOwned, CandidatesExist
  <1>10. OnlySupersededReplaced /\ SupersessionEnds
    BY <1>1, NoneAssumption DEF OnlySupersededReplaced, SupersessionEnds
  <1>11. StoreInv
    BY <1>5, <1>6, <1>7, <1>8, <1>9, <1>10 DEF StoreInv
  <1>12. LockTypes
    BY DEF LockInit, LockTypes
  <1>13. \A p \in Procs : /\ pc[p] = "idle" /\ call[p] = None /\ HoldsNothing(p)
                          /\ wrote[p] = NoWrites /\ pass[p] = None
    BY <1>5, ProcsAssumption DEF LockInit, HoldsNothing
  <1>14. \A p \in Procs : CallHolds(p)
    BY <1>13 DEF CallHolds
  <1>15. KeysAtCommit /\ IdsAreFresh
    BY <1>13, RowKinds DEF KeysAtCommit, IdsAreFresh, HoldsNothing
  <1>16. \A c \in Convs : conv[c] # None
    BY <1>1, NoneAssumption
  <1> QED BY <1>5, <1>11, <1>12, <1>14, <1>15, <1>16 DEF LockInv

(* A call that waits has begun. *)
LEMMA WaitersHaveBegun ==
  ASSUME NEW p \in Procs, Blocked(p)
  PROVE  pc[p] \in {"conversation", "record", "replacement", "key", "insert"}
  BY DEF Blocked, Wants

(* Every statement keeps the invariant and is a step of DurableWork or none. *)
LEMMA StatementKeeps ==
  ASSUME LockInv, NEW p \in Procs, Statement(p)
  PROVE  LockInv' /\ [Next]_vars
  <1>1. ASSUME Onward(p), [Next]_vars, CallHolds(p)'
        PROVE  LockInv' /\ [Next]_vars
    BY <1>1, OnwardKeeps
  <1>2. CASE LockConversation(p)
    <2>1. [Next]_vars
      BY <1>2 DEF LockConversation
    <2> QED BY <1>1, <1>2, <2>1, ConversationMoves, ConversationHolds
  <1>3. CASE InsertWork(p)
    <2>1. [Next]_vars
      BY <1>3 DEF InsertWork
    <2> QED BY <1>1, <1>3, <2>1, InsertWorkMoves, InsertWorkHolds
  <1>4. CASE LockRecord(p)
    <2>1. [Next]_vars
      BY <1>4 DEF LockRecord
    <2> QED BY <1>1, <1>4, <2>1, RecordMoves, RecordHolds
  <1>5. CASE CheckResult(p)
    <2>1. [Next]_vars
      BY <1>5 DEF CheckResult
    <2> QED BY <1>1, <1>5, <2>1, ResultMoves, ResultHolds
  <1>6. CASE UpdateWork(p)
    <2>1. [Next]_vars
      BY <1>6 DEF UpdateWork
    <2> QED BY <1>1, <1>6, <2>1, UpdateMoves, UpdateHolds
  <1>7. CASE CheckAppend(p)
    <2>1. [Next]_vars
      BY <1>7 DEF CheckAppend
    <2> QED BY <1>1, <1>7, <2>1, CheckAppendMoves, CheckAppendHolds
  <1>8. CASE InsertMessage(p)
    <2>1. [Next]_vars
      BY <1>8 DEF InsertMessage
    <2> QED BY <1>1, <1>8, <2>1, InsertMessageMoves, InsertMessageHolds
  <1>9. CASE LockReplacement(p)
    <2>1. [Next]_vars
      BY <1>9 DEF LockReplacement
    <2> QED BY <1>1, <1>9, <2>1, ReplacementMoves, ReplacementHolds
  <1>10. CASE SelectCandidates(p)
    <2>1. [Next]_vars
      BY <1>10, SelectMoves, OrderAssumption DEF Next
    <2> QED BY <1>1, <1>10, <2>1, SelectMoves, SelectHolds
  <1>11. CASE ReconcileRecord(p)
    <2>1. [Next]_vars
      BY <1>11 DEF ReconcileRecord
    <2> QED BY <1>1, <1>11, <2>1, ReconcileRecordMoves, ReconcileRecordHolds
  <1>12. CASE Commit(p)
    BY <1>12, CommitKeeps
  <1>13. CASE Refuse(p)
    BY <1>13, RollbackKeeps DEF Refuse
  <1> QED BY <1>2, <1>3, <1>4, <1>5, <1>6, <1>7, <1>8, <1>9, <1>10, <1>11, <1>12,
             <1>13 DEF Statement

(* So does every step. *)
LEMMA NextLockInv == LockInv /\ [LockNext]_lockVars => LockInv' /\ [Next]_vars
  <1> SUFFICES ASSUME LockInv, [LockNext]_lockVars
               PROVE  LockInv' /\ [Next]_vars
    OBVIOUS
  <1>1. CASE UNCHANGED lockVars
    <2>1. UNCHANGED <<conv, work, msg, claim, current, pass, call, pc, bound, todo,
                      lock, wrote>> /\ UNCHANGED vars
      BY <1>1 DEF lockVars, locking, vars
    <2>2. StoreInv'
      BY <2>1, NextStoreInv DEF LockInv
    <2>3. /\ LockTypes' /\ RequestsAreDistinct' /\ KeysAtCommit' /\ IdsAreFresh'
          /\ \A c \in Convs : conv'[c] # None
          /\ \A q \in Claims : claim'[q] = None
      BY <2>1 DEF LockInv, LockTypes, RequestsAreDistinct, KeysAtCommit, IdsAreFresh
    <2>4. \A q \in Procs : CallHolds(q)'
      <3> TAKE q \in Procs
      <3>1. Same(q)
        BY <2>1 DEF Same
      <3>2. Spares(q)
        BY <2>1 DEF LockInv, Spares
      <3> QED BY <2>2, <3>1, <3>2, CallKeeps
    <2> QED BY <2>1, <2>2, <2>3, <2>4 DEF LockInv
  <1>2. ASSUME NEW p \in Procs, Begin(p)
        PROVE  LockInv' /\ [Next]_vars
    <2>1. [Next]_vars
      BY <1>2 DEF Begin
    <2> QED BY <1>2, <2>1, BeginKeeps
  <1>3. ASSUME NEW p \in Procs, Statement(p)
        PROVE  LockInv' /\ [Next]_vars
    BY <1>3, StatementKeeps
  <1>4. ASSUME NEW p \in Procs, Disconnect(p)
        PROVE  LockInv' /\ [Next]_vars
    BY <1>4, RollbackKeeps DEF Disconnect, Active
  <1>5. ASSUME NEW p \in Procs, BreakDeadlock(p)
        PROVE  LockInv' /\ [Next]_vars
    <2>1. Blocked(p) /\ Rollback(p)
      BY <1>5 DEF BreakDeadlock, Deadlocked
    <2> QED BY <2>1, WaitersHaveBegun, RollbackKeeps
  <1> QED BY <1>1, <1>2, <1>3, <1>4, <1>5 DEF LockNext

(* What each call has locked, checked and written at each of its statements,   *)
(* whatever the other calls do between them and wherever one is cut off.       *)
THEOREM LockInvariant == LockSpec => []LockInv
  BY InitLockInv, NextLockInv, PTL DEF LockSpec

(* Every commit is one transaction of DurableWork and no other statement        *)
(* changes a table: checks made under row locks still hold when the writes     *)
(* land, so the statements of concurrent calls never mix.                      *)
THEOREM TransactionsAreAtomic == LockSpec => CommitsAreTransactions
  <1>1. LockInv /\ [LockNext]_lockVars => [Next]_vars
    BY NextLockInv
  <1> QED BY <1>1, LockInvariant, PTL DEF LockSpec, CommitsAreTransactions

(* Read and written statement by statement, the tables keep what transactions   *)
(* keep: consistent rows, final works and canonical messages.                  *)
THEOREM StatementsKeepTheStore ==
  LockSpec => []StoreInv /\ TerminalIsFinal /\ CanonicalIsKept
  <1>1. LockInv => StoreInv
    BY DEF LockInv
  <1>2. StoreInv /\ [Next]_vars =>
          [\A w \in Works : work[w] # None /\ work[w].state \in Terminal =>
             work'[w] = work[w]]_vars
    BY StepKeeps
  <1>3. StoreInv /\ [Next]_vars =>
          [\A m \in Messages : Canonical(m) =>
             /\ Canonical(m)'
             /\ msg'[m] = msg[m]
             /\ \A q \in Claims : claim[q] = m => claim'[q] = m]_vars
    BY CanonicalStep
  <1> QED BY <1>1, <1>2, <1>3, LockInvariant, TransactionsAreAtomic, PTL
          DEF CommitsAreTransactions, TerminalIsFinal, CanonicalIsKept

-----------------------------------------------------------------------------
(* Cycles of waits. *)

\* The place of the row p waits for: its conversation, then the conversation's
\* own row and the works' rows by id.
WantedConv(p) ==
  IF pc[p] = "conversation" THEN LockedConv(p) ELSE work[Record(p)].conv

WantedPlace(p) == IF pc[p] = "conversation" THEN 0 ELSE Record(p) + 1

Lower(p, q) ==
  \/ WantedConv(p) < WantedConv(q)
  \/ WantedConv(p) = WantedConv(q) /\ WantedPlace(p) < WantedPlace(q)

(* What a call waits for at its conversation or its record. *)
LEMMA WantedRow ==
  ASSUME LockInv, NEW p \in Procs, Blocked(p), pc[p] \in {"conversation", "record"}
  PROVE  /\ WantedConv(p) \in Convs /\ WantedConv(p) \in Nat /\ WantedPlace(p) \in Nat
         /\ pc[p] = "conversation" =>
              /\ Wants(p) = <<"conversation", WantedConv(p)>>
              /\ WantedPlace(p) = 0
         /\ pc[p] = "record" =>
              /\ Record(p) \in Works /\ Record(p) \in Nat /\ work[Record(p)] # None
              /\ Wants(p) = <<"work", Record(p)>>
              /\ WantedConv(p) = work[Record(p)].conv
              /\ WantedPlace(p) = Record(p) + 1
         /\ Wants(p) \in Rows
  <1>1. Convs \cup Works \subseteq Nat
    BY OrderAssumption
  <1>2. \A w \in Works : work[w] # None => work[w].conv \in Convs
    BY DEF LockInv, StoreInv, TypeOK, WorkRow
  <1>3. CASE pc[p] = "conversation"
    <2>1. LockedConv(p) \in Convs
      <3>1. CASE call[p].op = "reconcile"
        BY <1>3, <3>1, CandidatesStand DEF LockedConv
      <3>2. CASE call[p].op # "reconcile"
        BY <1>3, <3>2, CallKinds DEF LockedConv
      <3> QED BY <3>1, <3>2
    <2>2. Wants(p) = <<"conversation", LockedConv(p)>>
      BY <1>3 DEF Wants
    <2> QED BY <1>1, <1>3, <2>1, <2>2, RowKinds DEF WantedConv, WantedPlace
  <1>4. CASE pc[p] = "record"
    <2>1. Record(p) # None /\ Wants(p) = <<"work", Record(p)>>
      BY <1>4 DEF Blocked, Wants
    <2>2. Record(p) \in Works /\ work[Record(p)] # None
      <3>1. CASE call[p].op = "reconcile"
        BY <1>4, <3>1, CandidatesStand DEF Record
      <3>2. CASE call[p].op \in {"create", "append"}
        BY <2>1, <3>2 DEF Record, Named
      <3>3. CASE call[p].op \in {"start", "fail", "complete"}
        BY <1>4, <2>1, <3>3, CallKinds DEF Record
      <3> QED BY <1>4, <3>1, <3>2, <3>3, CallKinds, StatementKinds
    <2> QED BY <1>1, <1>2, <1>4, <2>1, <2>2, RowKinds DEF WantedConv, WantedPlace
  <1> QED BY <1>3, <1>4

(* Whoever waits for a lock whose holder waits too stands at its conversation  *)
(* or its record: a key is held by calls that no longer wait.                  *)
LEMMA WaitersStand ==
  ASSUME LockInv, NEW p \in Procs, NEW h \in Procs, Blocked(p), Blocked(h),
         lock[Wants(p)] = h, ~ReachesElsewhere(p)
  PROVE  pc[p] \in {"conversation", "record"}
  <1>1. pc[p] \in {"conversation", "record", "key", "insert"} /\ pc[h] # "commit"
    BY WaitersHaveBegun DEF ReachesElsewhere
  <1>2. CASE pc[p] = "key"
    <2>1. Wants(p) = <<"request", call[p].owner, call[p].request>>
      BY <1>2 DEF Wants
    <2>2. call[p].owner \in Owners /\ call[p].request \in Requests
      BY <1>2, StatementKinds, CallKinds
    <2> QED BY <1>1, <2>1, <2>2 DEF LockInv, KeysAtCommit
  <1>3. CASE pc[p] = "insert"
    <2>1. Wants(p) = <<"message", call[p].msg>>
      BY <1>3 DEF Wants
    <2>2. call[p].msg \in Messages
      BY <1>3, StatementKinds, CallKinds
    <2> QED BY <1>1, <2>1, <2>2 DEF LockInv, KeysAtCommit
  <1> QED BY <1>1, <1>2, <1>3

(* A call that waits inside the conversation it has locked waits for a row      *)
(* above all it holds.                                                          *)
LEMMA WaitsUpward ==
  ASSUME LockInv, NEW p \in Procs, NEW h \in Procs, Blocked(p), Blocked(h),
         lock[Wants(p)] = h, ~ReachesElsewhere(h),
         pc[p] \in {"conversation", "record"}, pc[h] \in {"conversation", "record"}
  PROVE  Lower(p, h)
  <1>1. PICK x : x = Wants(p)
    OBVIOUS
  <1>2. x \in Rows /\ lock[x] = h
    BY <1>1, WantedRow
  <1>3. ASSUME NEW c, x = <<"conversation", c>>
        PROVE  WantedConv(p) = c /\ WantedPlace(p) = 0
    <2>1. PICK a, b : a = WantedConv(p) /\ b = Record(p)
      OBVIOUS
    <2>2. CASE pc[p] = "conversation"
      <3>1. <<"conversation", a>> = <<"conversation", c>> /\ WantedPlace(p) = 0
        BY <1>1, <1>3, <2>1, <2>2, WantedRow
      <3> QED BY <2>1, <3>1
    <2>3. CASE pc[p] = "record"
      <3>1. <<"work", b>> = <<"conversation", c>>
        BY <1>1, <1>3, <2>1, <2>3, WantedRow
      <3> QED BY <3>1
    <2> QED BY <2>2, <2>3
  <1>4. ASSUME NEW w, x = <<"work", w>>
        PROVE  WantedConv(p) = work[w].conv /\ WantedPlace(p) = w + 1 /\ w \in Nat
    <2>1. PICK a, b : a = WantedConv(p) /\ b = Record(p)
      OBVIOUS
    <2>2. CASE pc[p] = "conversation"
      <3>1. <<"conversation", a>> = <<"work", w>>
        BY <1>1, <1>4, <2>1, <2>2, WantedRow
      <3> QED BY <3>1
    <2>3. CASE pc[p] = "record"
      <3>1. <<"work", b>> = <<"work", w>>
        BY <1>1, <1>4, <2>1, <2>3, WantedRow
      <3>2. b = w
        BY <3>1
      <3> QED BY <2>1, <2>3, <3>2, WantedRow
    <2> QED BY <2>2, <2>3
  <1>5. CASE call[h].op # "reconcile"
    <2>1. pc[h] = "record"
      BY <1>2, <1>5 DEF LockInv, CallHolds, HoldsNothing
    <2>2. HoldsOneConversation(h)
      BY <2>1, <1>5, CallKinds, StatementKinds
         DEF CreateHolds, TransitionHolds, AppendHolds
    <2>3. x = <<"conversation", call[h].conv>>
      BY <1>2, <2>2 DEF HoldsOneConversation
    <2>4. Record(h) # None /\ work[Record(h)].conv = call[h].conv
      <3>1. Record(h) # None
        BY <2>1, WantedRow, NoneAssumption
      <3>2. CASE call[h].op \in {"create", "append"}
        BY <2>1, <3>1, <3>2 DEF ReachesElsewhere
      <3>3. CASE call[h].op \in {"start", "fail", "complete"}
        BY <3>1, <3>3 DEF Record
      <3> QED BY <1>5, <2>1, <3>1, <3>2, <3>3, CallKinds, StatementKinds
    <2>5. /\ WantedConv(h) = call[h].conv /\ WantedPlace(h) = Record(h) + 1
          /\ Record(h) \in Nat
      BY <2>1, <2>4, WantedRow
    <2>6. WantedConv(p) = call[h].conv /\ WantedPlace(p) = 0
      BY <1>3, <2>3
    <2> QED BY <2>5, <2>6 DEF Lower
  <1>6. CASE call[h].op = "reconcile"
    <2>1. PICK d : d = Candidate(h)
      OBVIOUS
    <2>2. /\ ReconcileHolds(h) /\ d \in todo[h] /\ d \in Works
          /\ pass[h] \in SUBSET Works
          /\ \A u \in pass[h] : work[u].conv \in Convs /\ work[u].conv \in Nat
      BY <1>6, <2>1, CallKinds, CandidatesStand
    <2>3. \A u \in Settled(h) :
            /\ u \in pass[h] /\ u \in Nat
            /\ Locked(h, work[u].conv) /\ Before(u, d)
      BY <2>2, OrderAssumption DEF ReconcileHolds, Settled
    <2>4. d \in Nat /\ WantedConv(h) = work[d].conv /\ WantedConv(h) \in Nat
      <3>1. pc[h] = "conversation" => WantedConv(h) = work[d].conv
        BY <1>6, <2>1 DEF WantedConv, LockedConv
      <3>2. pc[h] = "record" => WantedConv(h) = work[d].conv
        BY <1>6, <2>1 DEF WantedConv, Record
      <3> QED BY <2>2, <3>1, <3>2, WantedRow, OrderAssumption
    <2>5. CASE pc[h] = "conversation"
      <3>1. PICK u \in Settled(h) :
              x \in {<<"conversation", work[u].conv>>, <<"work", u>>}
        BY <1>2, <2>2, <2>5 DEF ReconcileHolds
      <3>2. work[u].conv # work[d].conv
        <4>1. lock[<<"conversation", work[d].conv>>] # h
          BY <2>4, <2>5, WantedRow DEF Blocked
        <4> QED BY <2>3, <4>1 DEF Locked
      <3>3. work[u].conv < work[d].conv
        BY <2>3, <3>2 DEF Before
      <3>4. WantedConv(p) = work[u].conv
        BY <1>3, <1>4, <3>1
      <3> QED BY <2>4, <3>3, <3>4 DEF Lower
    <2>6. CASE pc[h] = "record"
      <3>1. PICK u \in Settled(h) \cup {d} :
              \/ x = <<"conversation", work[u].conv>>
              \/ x = <<"work", u>> /\ u # d
        BY <1>2, <2>1, <2>2, <2>6 DEF ReconcileHolds
      <3>2. WantedPlace(h) = d + 1
        BY <1>6, <2>1, <2>6 DEF WantedPlace, Record
      <3>3. CASE u = d
        <4>1. WantedConv(p) = work[d].conv /\ WantedPlace(p) = 0
          BY <1>3, <3>1, <3>3
        <4> QED BY <2>4, <3>2, <4>1 DEF Lower
      <3>4. CASE u # d
        <4>1. u \in Nat /\ Before(u, d)
          BY <2>3, <3>1, <3>4
        <4>2. WantedConv(p) = work[u].conv /\ WantedPlace(p) \in {0, u + 1}
          BY <1>3, <1>4, <3>1
        <4> QED BY <2>4, <3>2, <4>1, <4>2 DEF Before, Lower
      <3> QED BY <3>3, <3>4
    <2> QED BY <2>5, <2>6
  <1> QED BY <1>5, <1>6

(* Nobody can wait upwards for ever among finitely many calls. *)
LEMMA AscentEnds ==
  ASSUME NEW S, IsFiniteSet(S), S # {},
         \A p \in S : WantedConv(p) \in Nat /\ WantedPlace(p) \in Nat
  PROVE  \E p \in S : \A q \in S : ~Lower(p, q)
  <1> DEFINE Above(p) == {q \in S : Lower(p, q)}
             Sizes == {Cardinality(Above(p)) : p \in S}
  <1>1. \A p \in S : IsFiniteSet(Above(p)) /\ Cardinality(Above(p)) \in Nat
    BY FS_Subset, FS_CardinalityType
  <1>2. \A p, q \in S : Lower(p, q) =>
          Above(q) \subseteq Above(p) /\ q \in Above(p) /\ q \notin Above(q)
    <2>1. \A p, q, r \in S : Lower(p, q) /\ Lower(q, r) => Lower(p, r)
      BY DEF Lower
    <2>2. \A q \in S : ~Lower(q, q)
      BY DEF Lower
    <2> QED BY <2>1, <2>2
  <1>3. PICK p \in S : \A q \in S : Cardinality(Above(p)) <= Cardinality(Above(q))
    <2>1. Sizes \subseteq Nat /\ Sizes # {}
      BY <1>1
    <2>2. PICK n \in Sizes : \A k \in Sizes : n <= k
      <3> HIDE DEF Sizes
      <3> QED BY <2>1, LeastNatural
    <2> QED BY <2>2
  <1>4. ASSUME NEW q \in S, Lower(p, q)
        PROVE  FALSE
    <2>1. Above(q) \subseteq Above(p) /\ Above(q) # Above(p)
      BY <1>2, <1>4
    <2>2. Cardinality(Above(q)) < Cardinality(Above(p))
      <3> HIDE DEF Above
      <3>1. /\ Cardinality(Above(q)) <= Cardinality(Above(p))
            /\ Cardinality(Above(q)) = Cardinality(Above(p)) => Above(q) = Above(p)
        BY <1>1, <2>1, FS_Subset
      <3> QED BY <1>1, <2>1, <3>1
    <2> QED BY <1>1, <1>3, <2>2
  <1> QED BY <1>4

(* Calls wait for each other in a circle only where one of them waits outside   *)
(* the conversation it locked first: row locks are taken conversation first,   *)
(* works second, and by the one call that locks several in one order.          *)
THEOREM CyclesAreKnown == LockSpec => []CyclesReachElsewhere
  <1>1. LockInv => CyclesReachElsewhere
    <2> SUFFICES ASSUME LockInv, NEW S \in SUBSET Procs, S # {},
                        \A p \in S : Blocked(p) /\ lock[Wants(p)] \in S,
                        \A p \in S : ~ReachesElsewhere(p)
                 PROVE  FALSE
      BY DEF CyclesReachElsewhere
    <2>1. \A p \in S : pc[p] \in {"conversation", "record"}
      BY WaitersStand
    <2>2. \A p \in S : WantedConv(p) \in Nat /\ WantedPlace(p) \in Nat
      BY <2>1, WantedRow
    <2>3. IsFiniteSet(S)
      BY ProcsAssumption, FS_Subset
    <2>4. PICK p \in S : \A q \in S : ~Lower(p, q)
      BY <2>2, <2>3, AscentEnds
    <2>5. PICK h \in S : lock[Wants(p)] = h
      OBVIOUS
    <2>6. Lower(p, h)
      BY <2>1, <2>5, WaitsUpward
    <2> QED BY <2>4, <2>6
  <1> QED BY <1>1, LockInvariant, PTL

=============================================================================
