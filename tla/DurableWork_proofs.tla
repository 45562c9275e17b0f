-------------------------- MODULE DurableWork_proofs --------------------------
(* Theorems about DurableWork for every value of its constants. *)
EXTENDS DurableWork, TLAPS

-----------------------------------------------------------------------------
(* Type correctness. *)

(* The tables are empty in the initial state, so every row has its type. *)
LEMMA InitTypeOK == Init => TypeOK
  BY DEF Init, TypeOK

(* Failing a set of live works keeps the three tables it writes typed. *)
LEMMA FailWorksTypeOK ==
  ASSUME TypeOK, NEW S \in SUBSET Works, NEW f \in FailureCodes,
         \A w \in S : work[w] # None, FailWorks(S, f)
  PROVE  /\ work' \in [Works -> WorkRow \cup {None}]
         /\ msg' \in [Messages -> MsgRow \cup {None}]
         /\ claim' \in [Claims -> Messages \cup {None}]
  <1>1. work' \in [Works -> WorkRow \cup {None}]
    <2>1. ASSUME NEW w \in S
          PROVE  [work[w] EXCEPT !.state = "failed", !.result = None,
                                 !.failure = f] \in WorkRow
      <3>1. work[w] \in WorkRow
        BY <2>1 DEF TypeOK
      <3> QED BY <3>1 DEF WorkRow, WorkStates
    <2> QED BY <2>1 DEF FailWorks, TypeOK
  <1>2. msg' \in [Messages -> MsgRow \cup {None}]
    BY DEF FailWorks, TypeOK
  <1>3. claim' \in [Claims -> Messages \cup {None}]
    BY DEF FailWorks, ClaimsWithout, TypeOK
  <1> QED BY <1>1, <1>2, <1>3

(* Every transaction writes well-formed rows. *)
LEMMA NextTypeOK == TypeOK /\ [Next]_vars => TypeOK'
  <1> SUFFICES ASSUME TypeOK, [Next]_vars PROVE TypeOK'
    OBVIOUS
  <1>1. ASSUME NEW c \in Convs, NEW o \in Owners, CreateConversation(c, o)
        PROVE  TypeOK'
    BY <1>1 DEF CreateConversation, TypeOK, ConvRow, ConvStates
  <1>2. ASSUME NEW c \in Convs, NEW s \in ConvStates,
               NEW r \in Convs \cup {None}, TransitionConversation(c, s, r)
        PROVE  TypeOK'
    <2>1. conv[c] \in ConvRow
      BY <1>2 DEF TransitionConversation, TypeOK
    <2>2. [conv[c] EXCEPT !.state = s, !.sup = r] \in ConvRow
      BY <2>1 DEF ConvRow
    <2> QED BY <1>2, <2>2 DEF TransitionConversation, TypeOK
  <1>3. ASSUME NEW w \in Works, NEW o \in Owners, NEW c \in Convs,
               NEW r \in Requests, NEW k \in Clients \cup {None},
               CreateWork(w, o, c, r, k)
        PROVE  TypeOK'
    BY <1>3 DEF CreateWork, TypeOK, WorkRow, WorkStates
  <1>4. ASSUME NEW w \in Works, StartWork(w)
        PROVE  TypeOK'
    <2>1. work[w] \in WorkRow
      BY <1>4 DEF StartWork, Addressable, TypeOK
    <2>2. Started(work[w]) \in WorkRow
      BY <2>1 DEF Started, WorkRow, WorkStates
    <2> QED BY <1>4, <2>2 DEF StartWork, TypeOK
  <1>5. ASSUME NEW w \in Works, NEW m \in Messages, CompleteWork(w, m)
        PROVE  TypeOK'
    <2>1. work[w] \in WorkRow
      BY <1>5 DEF CompleteWork, Addressable, TypeOK
    <2>2. [work[w] EXCEPT !.state = "completed", !.result = m] \in WorkRow
      BY <2>1 DEF WorkRow, WorkStates
    <2> QED BY <1>5, <2>2 DEF CompleteWork, TypeOK
  <1>6. ASSUME NEW w \in Works, NEW f \in FailureCodes, FailWork(w, f)
        PROVE  TypeOK'
    <2>1. work[w] # None /\ FailWorks({w}, f) /\ UNCHANGED <<conv, current, pass>>
      BY <1>6 DEF FailWork, Addressable
    <2> QED BY <2>1, FailWorksTypeOK DEF TypeOK
  <1>7. ASSUME NEW p \in Reconcilers, BeginReconcile(p)
        PROVE  TypeOK'
    BY <1>7 DEF BeginReconcile, TypeOK
  <1>8. ASSUME NEW p \in Reconcilers, FinishReconcile(p)
        PROVE  TypeOK'
    <2>1. pass[p] \in SUBSET Works
      BY <1>8 DEF FinishReconcile, TypeOK
    <2>2. \A w \in StillLive(pass[p]) : work[w] # None
      BY <1>8 DEF FinishReconcile, StillLive, ConsistentCandidate, Addressable
    <2>3. StillLive(pass[p]) \in SUBSET Works
      BY <2>1 DEF StillLive
    <2>4. FailWorks(StillLive(pass[p]), "interrupted")
      BY <1>8 DEF FinishReconcile
    <2>5. /\ work' \in [Works -> WorkRow \cup {None}]
          /\ msg' \in [Messages -> MsgRow \cup {None}]
          /\ claim' \in [Claims -> Messages \cup {None}]
      BY <2>2, <2>3, <2>4, FailWorksTypeOK, InterruptedAssumption
    <2> QED BY <1>8, <2>5 DEF FinishReconcile, TypeOK
  <1>9. ASSUME NEW p \in Reconcilers, AbortReconcile(p)
        PROVE  TypeOK'
    BY <1>9 DEF AbortReconcile, TypeOK
  <1>10. ASSUME NEW m \in Messages, NEW o \in Owners, NEW c \in Convs,
                NEW role \in Roles, NEW r \in Requests \cup {None},
                NEW t \in Payloads, AppendMessage(m, o, c, role, r, t)
         PROVE  TypeOK'
    <2>1. PICK b \in Binding(o, c, role, r) :
            msg' = [msg EXCEPT ![m] =
              [owner |-> o, conv |-> c, role |-> role, request |-> r,
               payload |-> t, work |-> b]]
      BY <1>10 DEF AppendMessage
    <2>2. b \in Works \cup {None}
      BY DEF Binding
    <2> QED BY <1>10, <2>1, <2>2 DEF AppendMessage, TypeOK, MsgRow
  <1>11. ASSUME NEW q \in Claims, NEW m \in Messages, RecordClaim(q, m)
         PROVE  TypeOK'
    BY <1>11 DEF RecordClaim, TypeOK
  <1>12. ASSUME NEW o \in Owners, NEW k \in Clients, NEW w \in Works,
                SetCurrentWork(o, k, w)
         PROVE  TypeOK'
    BY <1>12 DEF SetCurrentWork, TypeOK
  <1>13. CASE UNCHANGED vars
    BY <1>13 DEF vars, TypeOK
  <1> QED BY <1>1, <1>2, <1>3, <1>4, <1>5, <1>6, <1>7, <1>8, <1>9, <1>10,
             <1>11, <1>12, <1>13 DEF Next

(* Every table always holds well-formed rows. *)
THEOREM TypeCorrect == Spec => []TypeOK
  BY InitTypeOK, NextTypeOK, PTL DEF Spec

-----------------------------------------------------------------------------
(* The inductive invariant. *)

(* Empty tables are consistent. *)
LEMMA InitStoreInv == Init => StoreInv
  <1> SUFFICES ASSUME Init PROVE StoreInv
    OBVIOUS
  <1>1. TypeOK
    BY InitTypeOK
  <1>2. RowsAreConsistent /\ ResultsAreDistinct /\ BindingsAreExact
    BY DEF Init, RowsAreConsistent, ResultsAreDistinct, BindingsAreExact
  <1>3. ClaimsAreAnchored /\ LocatorsAreOwned /\ CandidatesExist
    BY DEF Init, ClaimsAreAnchored, LocatorsAreOwned, CandidatesExist
  <1>4. OnlySupersededReplaced /\ SupersessionEnds
    BY DEF Init, OnlySupersededReplaced, SupersessionEnds
  <1> QED BY <1>1, <1>2, <1>3, <1>4 DEF StoreInv

(* A step that writes only conversations, and keeps their existence and      *)
(* owners, disturbs no work, message, claim, locator or pass.                *)
LEMMA ConversationStep ==
  ASSUME StoreInv, TypeOK',
         \A c \in Convs : conv[c] # None =>
           conv'[c] # None /\ conv'[c].owner = conv[c].owner,
         UNCHANGED <<work, msg, claim, current, pass>>
  PROVE  /\ RowsAreConsistent' /\ ResultsAreDistinct' /\ BindingsAreExact'
         /\ ClaimsAreAnchored' /\ LocatorsAreOwned' /\ CandidatesExist'
  <1> USE DEF StoreInv
  <1>1. \A w \in Works : work[w] # None => work[w].conv \in Convs
    BY DEF TypeOK, WorkRow
  <1>2. RowsAreConsistent'
    BY <1>1 DEF RowsAreConsistent, LiveRow, CompletedRow, FailedRow,
                Addressable, OwnConv, Associated, BoundTo
  <1>3. ResultsAreDistinct' /\ CandidatesExist' /\ LocatorsAreOwned'
    BY DEF ResultsAreDistinct, CandidatesExist, LocatorsAreOwned
  <1>4. BindingsAreExact' /\ ClaimsAreAnchored'
    BY DEF BindingsAreExact, Associated, BoundTo, ClaimsAreAnchored
  <1> QED BY <1>2, <1>3, <1>4

(* Superseding keeps every chain of replacements finite: the replacement is  *)
(* open, so it has no replacement of its own.                                *)
LEMMA SupersessionStep ==
  ASSUME StoreInv, NEW c \in Convs, NEW s \in ConvStates,
         NEW r \in Convs \cup {None}, TransitionConversation(c, s, r)
  PROVE  SupersessionEnds'
  <1> SUFFICES ASSUME NEW S \in SUBSET Convs, S # {}
               PROVE  \E d \in S : conv'[d] = None \/ conv'[d].sup \notin S
    BY DEF SupersessionEnds
  <1> USE DEF StoreInv
  <1>1. /\ \A d \in Convs \ {c} : conv'[d] = conv[d]
        /\ conv'[c].sup = r
    <2>1. conv[c] \in ConvRow
      BY DEF TransitionConversation, TypeOK
    <2> QED BY <2>1 DEF TransitionConversation, TypeOK, ConvRow
  <1>2. CASE r \in S
    <2>1. s = "superseded"
      BY <1>2, NoneAssumption DEF TransitionConversation
    <2>2. r # c /\ conv[r] # None /\ conv[r].state = "open"
      BY <2>1 DEF TransitionConversation, ReplacementAccepted, OwnConv
    <2>3. conv[r].sup = None
      BY <1>2, <2>2 DEF OnlySupersededReplaced
    <2>4. None \notin S
      BY NoneAssumption
    <2> QED BY <1>1, <1>2, <2>2, <2>3, <2>4
  <1>3. CASE r \notin S /\ c \in S
    BY <1>1, <1>3
  <1>4. CASE c \notin S
    BY <1>1, <1>4 DEF SupersessionEnds
  <1> QED BY <1>2, <1>3, <1>4

(* Failing live works takes their provisional messages and claims with them  *)
(* and touches nothing else.                                                 *)
LEMMA FailStep ==
  ASSUME StoreInv, TypeOK', NEW S \in SUBSET Works, NEW f \in FailureCodes,
         \A w \in S : work[w] # None /\ work[w].state \in Live,
         FailWorks(S, f), UNCHANGED <<conv, current>>
  PROVE  /\ RowsAreConsistent' /\ ResultsAreDistinct' /\ BindingsAreExact'
         /\ ClaimsAreAnchored' /\ LocatorsAreOwned'
         /\ \A w \in Works : work[w] # None => work'[w] # None
  <1> USE DEF StoreInv
  <1>1. ASSUME NEW w \in S
        PROVE  /\ work'[w] # None
               /\ work'[w].state = "failed"
               /\ work'[w].result = None
               /\ work'[w].failure = f
               /\ work'[w].owner = work[w].owner
               /\ work'[w].conv = work[w].conv
               /\ work'[w].request = work[w].request
               /\ work'[w].client = work[w].client
    <2>1. work[w] \in WorkRow
      BY DEF TypeOK
    <2>2. work'[w] = [work[w] EXCEPT !.state = "failed", !.result = None,
                                     !.failure = f]
      BY DEF FailWorks
    <2>3. work'[w] \in WorkRow
      BY <2>1, <2>2 DEF WorkRow, WorkStates
    <2> QED BY <2>1, <2>2, <2>3, NoneAssumption DEF WorkRow
  <1>2. \A w \in Works \ S : work'[w] = work[w]
    BY DEF FailWorks
  <1>3. ASSUME NEW m \in Messages
        PROVE  /\ msg'[m] # None => msg'[m] = msg[m] /\ msg[m].work \notin S
               /\ msg[m] # None /\ msg[m].work \notin S => msg'[m] = msg[m]
    BY DEF FailWorks, Provisional
  <1>4. \A w \in Works : BoundTo(w)' = IF w \in S THEN {} ELSE BoundTo(w)
    BY <1>3 DEF BoundTo
  <1>5. ASSUME NEW w \in Works, NEW m \in Messages, w \notin S, Associated(w, m)
        PROVE  Associated(w, m)'
    <2>1. msg[m].work \notin S
      BY <1>5, NoneAssumption DEF Associated
    <2> QED BY <1>2, <1>3, <1>5, <2>1 DEF Associated
  <1>6. RowsAreConsistent'
    <2> SUFFICES ASSUME NEW w \in Works, work'[w] # None
                 PROVE  /\ Addressable(w)'
                        /\ work'[w].state \in Live => LiveRow(w)'
                        /\ work'[w].state = "completed" => CompletedRow(w)'
                        /\ work'[w].state = "failed" => FailedRow(w)'
      BY DEF RowsAreConsistent
    <2>1. work[w] # None
      BY <1>2
    <2>2. Addressable(w)'
      BY <1>1, <1>2, <2>1 DEF RowsAreConsistent, Addressable, OwnConv
    <2>3. CASE w \in S
      <3>1. work'[w].state = "failed" /\ work'[w].result = None
            /\ work'[w].failure # None /\ BoundTo(w)' = {}
        BY <1>1, <1>4, <2>3, NoneAssumption
      <3> QED BY <3>1, <2>2 DEF FailedRow, Live
    <2>4. CASE w \notin S
      <3>1. work'[w] = work[w] /\ BoundTo(w)' = BoundTo(w)
        BY <1>2, <1>4, <2>4
      <3>2. work'[w].state \in Live => LiveRow(w)'
        BY <2>1, <3>1 DEF RowsAreConsistent, LiveRow
      <3>3. work'[w].state = "completed" => CompletedRow(w)'
        <4> SUFFICES ASSUME work[w].state = "completed"
                     PROVE  CompletedRow(w)'
          BY <3>1
        <4>1. CompletedRow(w) /\ work[w].result \in Messages
          BY <2>1 DEF RowsAreConsistent, CompletedRow, TypeOK, WorkRow
        <4>2. Associated(w, work[w].result)'
          BY <1>5, <2>4, <3>1, <4>1 DEF CompletedRow, Associated
        <4> QED BY <3>1, <4>1, <4>2 DEF CompletedRow, Associated
      <3>4. work'[w].state = "failed" => FailedRow(w)'
        BY <2>1, <3>1 DEF RowsAreConsistent, FailedRow
      <3> QED BY <2>2, <3>2, <3>3, <3>4
    <2> QED BY <2>3, <2>4
  <1>7. ResultsAreDistinct'
    BY <1>1, <1>2 DEF ResultsAreDistinct
  <1>8. BindingsAreExact'
    <2> SUFFICES ASSUME NEW m \in Messages, msg'[m] # None, msg'[m].work # None
                 PROVE  /\ work'[msg'[m].work] # None
                        /\ Associated(msg[m].work, m)'
                        /\ msg'[m].request = work'[msg'[m].work].request
                        /\ BoundTo(msg[m].work)' = {m}
      BY <1>3 DEF BindingsAreExact
    <2>1. msg'[m] = msg[m] /\ msg[m].work \notin S
      BY <1>3
    <2>2. msg[m].work \in Works
      BY <2>1 DEF TypeOK, MsgRow
    <2>3. /\ work[msg[m].work] # None
          /\ Associated(msg[m].work, m)
          /\ msg[m].request = work[msg[m].work].request
          /\ BoundTo(msg[m].work) = {m}
      BY <2>1 DEF BindingsAreExact
    <2> QED BY <1>2, <1>4, <1>5, <2>1, <2>2, <2>3
  <1>9. ClaimsAreAnchored'
    BY <1>3 DEF ClaimsAreAnchored, FailWorks, ClaimsWithout, Provisional, TypeOK
  <1>10. LocatorsAreOwned'
    BY <1>1, <1>2 DEF LocatorsAreOwned, TypeOK
  <1> QED BY <1>1, <1>2, <1>6, <1>7, <1>8, <1>9, <1>10

(* Admitting a work under an unused id disturbs no other row. *)
LEMMA CreateStep ==
  ASSUME StoreInv, TypeOK', NEW w \in Works, NEW o \in Owners, NEW c \in Convs,
         NEW r \in Requests, NEW k \in Clients \cup {None},
         CreateWork(w, o, c, r, k)
  PROVE  StoreInv'
  <1> USE DEF StoreInv
  <1>1. /\ work[w] = None
        /\ UNCHANGED <<conv, msg, claim, current, pass>>
        /\ OwnConv(c, o)
    BY DEF CreateWork, CreateWorkOutcome
  <1>2. /\ work'[w] # None
        /\ work'[w].owner = o /\ work'[w].conv = c
        /\ work'[w].state = "pending" /\ work'[w].started = FALSE
        /\ work'[w].result = None /\ work'[w].failure = None
    <2>1. work'[w] = [owner |-> o, conv |-> c, request |-> r, client |-> k,
                      state |-> "pending", started |-> FALSE, result |-> None,
                      failure |-> None]
      BY DEF CreateWork, TypeOK
    <2>2. work'[w] \in WorkRow
      BY <2>1 DEF WorkRow, WorkStates
    <2>3. work'[w] # None
      BY <2>2, NoneAssumption
    <2> HIDE DEF StoreInv
    <2> QED BY <2>1, <2>3
  <1>3. \A v \in Works \ {w} : work'[v] = work[v]
    BY DEF CreateWork, TypeOK
  <1>4. RowsAreConsistent'
    <2> SUFFICES ASSUME NEW v \in Works, work'[v] # None
                 PROVE  /\ Addressable(v)'
                        /\ work'[v].state \in Live => LiveRow(v)'
                        /\ work'[v].state = "completed" => CompletedRow(v)'
                        /\ work'[v].state = "failed" => FailedRow(v)'
      BY DEF RowsAreConsistent
    <2>1. CASE v = w
      BY <1>1, <1>2, <2>1 DEF Addressable, OwnConv, LiveRow, Live
    <2>2. CASE v # w
      BY <1>1, <1>3, <2>2 DEF RowsAreConsistent, Addressable, OwnConv, LiveRow,
           CompletedRow, FailedRow, Associated, BoundTo
    <2> QED BY <2>1, <2>2
  <1>5. ResultsAreDistinct'
    BY <1>2, <1>3 DEF ResultsAreDistinct
  <1>6. BindingsAreExact'
    <2> SUFFICES ASSUME NEW m \in Messages, msg[m] # None, msg[m].work # None
                 PROVE  /\ work'[msg[m].work] # None
                        /\ Associated(msg[m].work, m)'
                        /\ msg[m].request = work'[msg[m].work].request
                        /\ BoundTo(msg[m].work)' = {m}
      BY <1>1 DEF BindingsAreExact
    <2>1. msg[m].work \in Works \ {w}
      BY <1>1 DEF BindingsAreExact, TypeOK, MsgRow
    <2> QED BY <1>1, <1>3, <2>1 DEF BindingsAreExact, Associated, BoundTo
  <1>7. ClaimsAreAnchored' /\ OnlySupersededReplaced' /\ SupersessionEnds'
    BY <1>1 DEF ClaimsAreAnchored, OnlySupersededReplaced, SupersessionEnds
  <1>8. LocatorsAreOwned' /\ CandidatesExist'
    BY <1>1, <1>2, <1>3 DEF LocatorsAreOwned, CandidatesExist, TypeOK
  <1> QED BY <1>4, <1>5, <1>6, <1>7, <1>8

(* Starting a work changes its state and start mark only. *)
LEMMA StartStep ==
  ASSUME StoreInv, TypeOK', NEW w \in Works, StartWork(w)
  PROVE  StoreInv'
  <1> USE DEF StoreInv
  <1>1. /\ work[w] # None
        /\ work[w].state = "pending"
        /\ UNCHANGED <<conv, msg, claim, current, pass>>
    BY DEF StartWork, Addressable, AllowedTransitions
  <1>2. /\ work'[w] # None
        /\ work'[w].state = "running" /\ work'[w].started = TRUE
        /\ work'[w].result = work[w].result
        /\ work'[w].failure = work[w].failure
        /\ work'[w].owner = work[w].owner /\ work'[w].conv = work[w].conv
        /\ work'[w].request = work[w].request
        /\ work'[w].client = work[w].client
    <2>1. work[w] \in WorkRow
      BY <1>1 DEF TypeOK
    <2>2. work'[w] = Started(work[w])
      BY DEF StartWork, TypeOK
    <2>3. work'[w] \in WorkRow
      BY <2>1, <2>2 DEF Started, WorkRow, WorkStates
    <2> QED BY <2>1, <2>2, <2>3, NoneAssumption DEF Started, WorkRow
  <1>3. \A v \in Works \ {w} : work'[v] = work[v]
    BY DEF StartWork, TypeOK
  <1>4. \A v \in Works, m \in Messages : Associated(v, m)' <=> Associated(v, m)
    BY <1>1, <1>2, <1>3 DEF Associated
  <1>5. RowsAreConsistent'
    <2> SUFFICES ASSUME NEW v \in Works, work'[v] # None
                 PROVE  /\ Addressable(v)'
                        /\ work'[v].state \in Live => LiveRow(v)'
                        /\ work'[v].state = "completed" => CompletedRow(v)'
                        /\ work'[v].state = "failed" => FailedRow(v)'
      BY DEF RowsAreConsistent
    <2>1. CASE v = w
      BY <1>1, <1>2, <2>1 DEF RowsAreConsistent, Addressable, OwnConv, LiveRow, Live
    <2>2. CASE v # w
      BY <1>1, <1>3, <2>2 DEF RowsAreConsistent, Addressable, OwnConv, LiveRow,
           CompletedRow, FailedRow, Associated, BoundTo
    <2> QED BY <2>1, <2>2
  <1>6. ResultsAreDistinct'
    BY <1>1, <1>2, <1>3 DEF ResultsAreDistinct
  <1>7. BindingsAreExact'
    BY <1>1, <1>2, <1>3, <1>4 DEF BindingsAreExact, BoundTo, TypeOK, MsgRow
  <1>8. ClaimsAreAnchored' /\ OnlySupersededReplaced' /\ SupersessionEnds'
    BY <1>1 DEF ClaimsAreAnchored, OnlySupersededReplaced, SupersessionEnds
  <1>9. LocatorsAreOwned' /\ CandidatesExist'
    BY <1>1, <1>2, <1>3 DEF LocatorsAreOwned, CandidatesExist, TypeOK
  <1> QED BY <1>5, <1>6, <1>7, <1>8, <1>9

(* Completing a work stores one unused, associated, uncontested result. *)
LEMMA CompleteStep ==
  ASSUME StoreInv, TypeOK', NEW w \in Works, NEW m \in Messages,
         CompleteWork(w, m)
  PROVE  StoreInv'
  <1> USE DEF StoreInv
  <1>1. /\ work[w] # None
        /\ work[w].state = "running"
        /\ Addressable(w) /\ ResultAccepted(w, m) /\ UnusedResult(m)
        /\ UNCHANGED <<conv, msg, claim, current, pass>>
    BY DEF CompleteWork, Addressable, AllowedTransitions
  <1>2. /\ work'[w] # None
        /\ work'[w].state = "completed" /\ work'[w].result = m
        /\ work'[w].owner = work[w].owner /\ work'[w].conv = work[w].conv
        /\ work'[w].request = work[w].request
        /\ work'[w].client = work[w].client
    <2>1. work[w] \in WorkRow
      BY <1>1 DEF TypeOK
    <2>2. work'[w] = [work[w] EXCEPT !.state = "completed", !.result = m]
      BY DEF CompleteWork, TypeOK
    <2>3. work'[w] \in WorkRow
      BY <2>1, <2>2 DEF WorkRow, WorkStates
    <2> QED BY <2>1, <2>2, <2>3, NoneAssumption DEF WorkRow
  <1>3. \A v \in Works \ {w} : work'[v] = work[v]
    BY DEF CompleteWork, TypeOK
  <1>4. \A v \in Works, n \in Messages : Associated(v, n)' <=> Associated(v, n)
    BY <1>1, <1>2, <1>3 DEF Associated
  <1>5. RowsAreConsistent'
    <2> SUFFICES ASSUME NEW v \in Works, work'[v] # None
                 PROVE  /\ Addressable(v)'
                        /\ work'[v].state \in Live => LiveRow(v)'
                        /\ work'[v].state = "completed" => CompletedRow(v)'
                        /\ work'[v].state = "failed" => FailedRow(v)'
      BY DEF RowsAreConsistent
    <2>1. CASE v = w
      <3>1. Addressable(v)'
        BY <1>1, <1>2, <2>1 DEF Addressable, OwnConv
      <3>2. CompletedRow(v)'
        <4>1. Associated(w, m)'
          BY <1>1, <1>4 DEF ResultAccepted
        <4>2. BoundTo(w)' \subseteq {m}
          BY <1>1 DEF ResultAccepted, BoundTo
        <4>3. m # None
          BY NoneAssumption
        <4>4. work'[w].result = m
          BY <1>2
        <4> HIDE DEF StoreInv
        <4> QED BY <4>1, <4>2, <4>3, <4>4, <2>1 DEF CompletedRow
      <3> QED BY <1>2, <2>1, <3>1, <3>2 DEF Live
    <2>2. CASE v # w
      BY <1>1, <1>3, <2>2 DEF RowsAreConsistent, Addressable, OwnConv, LiveRow,
           CompletedRow, FailedRow, Associated, BoundTo
    <2> QED BY <2>1, <2>2
  <1>6. ResultsAreDistinct'
    BY <1>1, <1>2, <1>3 DEF ResultsAreDistinct, UnusedResult
  <1>7. BindingsAreExact'
    BY <1>1, <1>2, <1>3, <1>4 DEF BindingsAreExact, BoundTo, TypeOK, MsgRow
  <1>8. ClaimsAreAnchored' /\ OnlySupersededReplaced' /\ SupersessionEnds'
    BY <1>1 DEF ClaimsAreAnchored, OnlySupersededReplaced, SupersessionEnds
  <1>9. LocatorsAreOwned' /\ CandidatesExist'
    BY <1>1, <1>2, <1>3 DEF LocatorsAreOwned, CandidatesExist, TypeOK
  <1> QED BY <1>5, <1>6, <1>7, <1>8, <1>9

(* An appended message is bound to a live work that had none, or to nothing. *)
LEMMA AppendStep ==
  ASSUME StoreInv, TypeOK', NEW m \in Messages, NEW o \in Owners,
         NEW c \in Convs, NEW role \in Roles, NEW r \in Requests \cup {None},
         NEW t \in Payloads, AppendMessage(m, o, c, role, r, t)
  PROVE  StoreInv'
  <1> USE DEF StoreInv
  <1>1. PICK b \in Binding(o, c, role, r) :
          /\ BindingAccepted(b)
          /\ msg' = [msg EXCEPT ![m] =
               [owner |-> o, conv |-> c, role |-> role, request |-> r,
                payload |-> t, work |-> b]]
    BY DEF AppendMessage
  <1>2. msg[m] = None /\ UNCHANGED <<conv, work, claim, current, pass>>
    BY DEF AppendMessage
  <1>3. /\ msg'[m] # None
        /\ msg'[m].owner = o /\ msg'[m].conv = c /\ msg'[m].role = role
        /\ msg'[m].request = r /\ msg'[m].work = b
    <2>1. msg'[m] = [owner |-> o, conv |-> c, role |-> role, request |-> r,
                     payload |-> t, work |-> b]
      BY <1>1 DEF TypeOK
    <2>2. msg'[m] \in MsgRow
      BY <2>1 DEF TypeOK, Binding, MsgRow
    <2> QED BY <2>1, <2>2, NoneAssumption
  <1>4. \A n \in Messages \ {m} : msg'[n] = msg[n]
    BY <1>1 DEF TypeOK
  <1>5. b # None =>
          /\ b \in Works
          /\ work[b] # None /\ work[b].owner = o /\ work[b].request = r
          /\ work[b].conv = c /\ role = "assistant"
          /\ work[b].state \in Live /\ BoundTo(b) = {}
    BY <1>1 DEF Binding, BindingAccepted
  <1>6. \A w \in Works, n \in Messages : Associated(w, n) => Associated(w, n)'
    BY <1>2, <1>4 DEF Associated
  <1>7. \A w \in Works : BoundTo(w)' = IF w = b THEN {m} ELSE BoundTo(w)
    <2> SUFFICES ASSUME NEW w \in Works
                 PROVE  BoundTo(w)' = IF w = b THEN {m} ELSE BoundTo(w)
      OBVIOUS
    <2>1. CASE w = b
      <3>1. BoundTo(w) = {}
        BY <1>5, <2>1, NoneAssumption
      <3> QED BY <1>3, <1>4, <2>1, <3>1 DEF BoundTo
    <2>2. CASE w # b
      BY <1>2, <1>3, <1>4, <2>2 DEF BoundTo
    <2> QED BY <2>1, <2>2
  <1>8. RowsAreConsistent'
    <2> SUFFICES ASSUME NEW w \in Works, work[w] # None
                 PROVE  /\ Addressable(w)'
                        /\ work[w].state \in Live => LiveRow(w)'
                        /\ work[w].state = "completed" => CompletedRow(w)'
                        /\ work[w].state = "failed" => FailedRow(w)'
      BY <1>2 DEF RowsAreConsistent
    <2>1. Addressable(w)' /\ (work[w].state \in Live => LiveRow(w)')
      BY <1>2 DEF RowsAreConsistent, Addressable, OwnConv, LiveRow
    <2>2. CASE work[w].state = "completed"
      <3>1. w # b
        BY <1>5, <2>2, NoneAssumption DEF Live
      <3>2. work[w].result \in Messages /\ CompletedRow(w)
        BY <2>2 DEF RowsAreConsistent, CompletedRow, TypeOK, WorkRow
      <3>3. Associated(w, work[w].result)'
        BY <1>2, <1>6, <3>2 DEF CompletedRow, Associated
      <3> QED BY <1>2, <1>7, <2>1, <2>2, <3>1, <3>2, <3>3 DEF CompletedRow
    <2>3. CASE work[w].state = "failed"
      <3>1. w # b
        BY <1>5, <2>3, NoneAssumption DEF Live
      <3> QED BY <1>2, <1>7, <2>1, <2>3, <3>1 DEF RowsAreConsistent, FailedRow
    <2> QED BY <2>1, <2>2, <2>3
  <1>9. ResultsAreDistinct'
    BY <1>2 DEF ResultsAreDistinct
  <1>10. BindingsAreExact'
    <2> SUFFICES ASSUME NEW n \in Messages, msg'[n] # None, msg'[n].work # None
                 PROVE  /\ work'[msg'[n].work] # None
                        /\ Associated(msg[n].work, n)'
                        /\ msg'[n].request = work'[msg'[n].work].request
                        /\ BoundTo(msg[n].work)' = {n}
      BY DEF BindingsAreExact
    <2> HIDE DEF StoreInv
    <2>1. CASE n = m
      <3>1. b # None /\ msg'[n].work = b
        BY <1>3, <2>1
      <3>2. Associated(b, n)'
        BY <1>2, <1>3, <1>5, <2>1, <3>1 DEF Associated
      <3>3. BoundTo(b)' = {n}
        BY <1>5, <1>7, <2>1, <3>1
      <3> QED BY <1>2, <1>3, <1>5, <2>1, <3>1, <3>2, <3>3
    <2>2. CASE n # m
      <3>1. msg'[n] = msg[n] /\ msg[n].work \in Works
        BY <1>4, <2>2 DEF StoreInv, TypeOK, MsgRow
      <3>2. /\ work[msg[n].work] # None /\ Associated(msg[n].work, n)
            /\ msg[n].request = work[msg[n].work].request
            /\ BoundTo(msg[n].work) = {n}
        BY <3>1 DEF StoreInv, BindingsAreExact
      <3>3. msg[n].work # b
        BY <1>5, <3>1, <3>2, NoneAssumption
      <3>4. Associated(msg[n].work, n)'
        BY <1>6, <3>1, <3>2
      <3>5. BoundTo(msg[n].work)' = {n}
        BY <1>7, <3>1, <3>2, <3>3
      <3> QED BY <1>2, <3>1, <3>2, <3>4, <3>5
    <2> QED BY <2>1, <2>2
  <1>11. ClaimsAreAnchored'
    BY <1>2, <1>4 DEF ClaimsAreAnchored, TypeOK
  <1>12. LocatorsAreOwned' /\ CandidatesExist'
    BY <1>2 DEF LocatorsAreOwned, CandidatesExist
  <1>13. OnlySupersededReplaced' /\ SupersessionEnds'
    BY <1>2 DEF OnlySupersededReplaced, SupersessionEnds
  <1> QED BY <1>8, <1>9, <1>10, <1>11, <1>12, <1>13

(* Every transaction preserves the inductive invariant. *)
LEMMA NextStoreInv == StoreInv /\ [Next]_vars => StoreInv'
  <1> SUFFICES ASSUME StoreInv, [Next]_vars PROVE StoreInv'
    OBVIOUS
  <1>0. TypeOK /\ TypeOK'
    BY NextTypeOK DEF StoreInv
  <1>1. ASSUME NEW c \in Convs, NEW o \in Owners, CreateConversation(c, o)
        PROVE  StoreInv'
    <2>1. /\ \A d \in Convs \ {c} : conv'[d] = conv[d]
          /\ conv[c] = None
          /\ conv'[c] = [owner |-> o, state |-> "open", sup |-> None]
          /\ UNCHANGED <<work, msg, claim, current, pass>>
      BY <1>0, <1>1 DEF CreateConversation, TypeOK
    <2>2. \A d \in Convs : conv[d] # None =>
            conv'[d] # None /\ conv'[d].owner = conv[d].owner
      BY <2>1
    <2>3. OnlySupersededReplaced'
      BY <2>1 DEF StoreInv, OnlySupersededReplaced
    <2>4. SupersessionEnds'
      <3> SUFFICES ASSUME NEW S \in SUBSET Convs, S # {}
                   PROVE  \E d \in S : conv'[d] = None \/ conv'[d].sup \notin S
        BY DEF SupersessionEnds
      <3>1. CASE c \in S
        <4>1. conv'[c].sup \notin S
          BY <2>1, NoneAssumption
        <4> QED BY <3>1, <4>1
      <3>2. CASE c \notin S
        BY <2>1, <3>2 DEF StoreInv, SupersessionEnds
      <3> QED BY <3>1, <3>2
    <2> QED BY <1>0, <2>1, <2>2, <2>3, <2>4, ConversationStep DEF StoreInv
  <1>2. ASSUME NEW c \in Convs, NEW s \in ConvStates,
               NEW r \in Convs \cup {None}, TransitionConversation(c, s, r)
        PROVE  StoreInv'
    <2>1. conv[c] \in ConvRow
      BY <1>0, <1>2 DEF TransitionConversation, TypeOK
    <2>7. [conv[c] EXCEPT !.state = s, !.sup = r] \in ConvRow
      BY <2>1 DEF ConvRow
    <2>2. /\ \A d \in Convs \ {c} : conv'[d] = conv[d]
          /\ conv'[c] = [conv[c] EXCEPT !.state = s, !.sup = r]
          /\ UNCHANGED <<work, msg, claim, current, pass>>
      BY <1>0, <1>2 DEF TransitionConversation, TypeOK
    <2>3. /\ conv'[c] # None /\ conv'[c].owner = conv[c].owner
          /\ conv'[c].state = s /\ conv'[c].sup = r
      BY <2>1, <2>2, <2>7, NoneAssumption DEF ConvRow
    <2>4. \A d \in Convs : conv[d] # None =>
            conv'[d] # None /\ conv'[d].owner = conv[d].owner
      BY <2>2, <2>3
    <2>5. OnlySupersededReplaced'
      <3>1. s # "superseded" => r = None
        BY <1>2 DEF TransitionConversation
      <3> QED BY <2>2, <2>3, <3>1 DEF StoreInv, OnlySupersededReplaced
    <2>6. SupersessionEnds'
      BY <1>2, SupersessionStep
    <2> QED BY <1>0, <2>2, <2>4, <2>5, <2>6, ConversationStep DEF StoreInv
  <1>3. ASSUME NEW w \in Works, NEW o \in Owners, NEW c \in Convs,
               NEW r \in Requests, NEW k \in Clients \cup {None},
               CreateWork(w, o, c, r, k)
        PROVE  StoreInv'
    BY <1>0, <1>3, CreateStep
  <1>4. ASSUME NEW w \in Works, StartWork(w)
        PROVE  StoreInv'
    BY <1>0, <1>4, StartStep
  <1>5. ASSUME NEW w \in Works, NEW m \in Messages, CompleteWork(w, m)
        PROVE  StoreInv'
    BY <1>0, <1>5, CompleteStep
  <1>6. ASSUME NEW w \in Works, NEW f \in FailureCodes, FailWork(w, f)
        PROVE  StoreInv'
    <2>1. /\ work[w] # None /\ work[w].state \in Live
          /\ FailWorks({w}, f) /\ UNCHANGED <<conv, current, pass>>
      BY <1>6 DEF FailWork, Addressable, AllowedTransitions, Live
    <2>2. /\ RowsAreConsistent' /\ ResultsAreDistinct' /\ BindingsAreExact'
          /\ ClaimsAreAnchored' /\ LocatorsAreOwned'
          /\ \A v \in Works : work[v] # None => work'[v] # None
      BY <1>0, <2>1, FailStep
    <2>3. CandidatesExist'
      BY <1>0, <2>1, <2>2 DEF StoreInv, CandidatesExist, TypeOK
    <2>4. OnlySupersededReplaced' /\ SupersessionEnds'
      BY <2>1 DEF StoreInv, OnlySupersededReplaced, SupersessionEnds
    <2> QED BY <1>0, <2>2, <2>3, <2>4 DEF StoreInv
  <1>7. ASSUME NEW p \in Reconcilers, BeginReconcile(p)
        PROVE  StoreInv'
    <2>1. UNCHANGED <<conv, work, msg, claim, current>>
      BY <1>7 DEF BeginReconcile
    <2>2. /\ \A q \in Reconcilers \ {p} : pass'[q] = pass[q]
          /\ pass'[p] = {w \in Works : work[w] # None /\ work[w].state \in Live}
      BY <1>0, <1>7 DEF BeginReconcile, TypeOK
    <2>3. CandidatesExist'
      BY <2>1, <2>2 DEF StoreInv, CandidatesExist
    <2>4. RowsAreConsistent' /\ ResultsAreDistinct' /\ BindingsAreExact'
      BY <2>1 DEF StoreInv, RowsAreConsistent, LiveRow, CompletedRow, FailedRow,
           Addressable, OwnConv, Associated, BoundTo, ResultsAreDistinct,
           BindingsAreExact
    <2>5. ClaimsAreAnchored' /\ LocatorsAreOwned'
      BY <2>1 DEF StoreInv, ClaimsAreAnchored, LocatorsAreOwned
    <2>6. OnlySupersededReplaced' /\ SupersessionEnds'
      BY <2>1 DEF StoreInv, OnlySupersededReplaced, SupersessionEnds
    <2> QED BY <1>0, <2>3, <2>4, <2>5, <2>6 DEF StoreInv
  <1>8. ASSUME NEW p \in Reconcilers, FinishReconcile(p)
        PROVE  StoreInv'
    <2>1. /\ pass[p] \in SUBSET Works
          /\ FailWorks(StillLive(pass[p]), "interrupted")
          /\ UNCHANGED <<conv, current>>
      BY <1>0, <1>8 DEF FinishReconcile, TypeOK
    <2>2. /\ StillLive(pass[p]) \in SUBSET Works
          /\ \A w \in StillLive(pass[p]) :
               work[w] # None /\ work[w].state \in Live
      BY <1>8, <2>1 DEF FinishReconcile, StillLive, ConsistentCandidate,
           Addressable
    <2>3. /\ RowsAreConsistent' /\ ResultsAreDistinct' /\ BindingsAreExact'
          /\ ClaimsAreAnchored' /\ LocatorsAreOwned'
          /\ \A v \in Works : work[v] # None => work'[v] # None
      BY <1>0, <2>1, <2>2, FailStep, InterruptedAssumption
    <2>4. CandidatesExist'
      <3>1. \A q \in Reconcilers : pass'[q] # None => pass'[q] = pass[q]
        BY <1>0, <1>8 DEF FinishReconcile, TypeOK
      <3> QED BY <1>0, <2>3, <3>1 DEF StoreInv, CandidatesExist, TypeOK
    <2>5. OnlySupersededReplaced' /\ SupersessionEnds'
      BY <2>1 DEF StoreInv, OnlySupersededReplaced, SupersessionEnds
    <2> QED BY <1>0, <2>3, <2>4, <2>5 DEF StoreInv
  <1>9. ASSUME NEW p \in Reconcilers, AbortReconcile(p)
        PROVE  StoreInv'
    <2>1. UNCHANGED <<conv, work, msg, claim, current>>
      BY <1>9 DEF AbortReconcile
    <2>2. CandidatesExist'
      BY <1>0, <1>9 DEF AbortReconcile, StoreInv, CandidatesExist, TypeOK
    <2>3. RowsAreConsistent' /\ ResultsAreDistinct' /\ BindingsAreExact'
      BY <2>1 DEF StoreInv, RowsAreConsistent, LiveRow, CompletedRow, FailedRow,
           Addressable, OwnConv, Associated, BoundTo, ResultsAreDistinct,
           BindingsAreExact
    <2>4. ClaimsAreAnchored' /\ LocatorsAreOwned'
      BY <2>1 DEF StoreInv, ClaimsAreAnchored, LocatorsAreOwned
    <2>5. OnlySupersededReplaced' /\ SupersessionEnds'
      BY <2>1 DEF StoreInv, OnlySupersededReplaced, SupersessionEnds
    <2> QED BY <1>0, <2>2, <2>3, <2>4, <2>5 DEF StoreInv
  <1>10. ASSUME NEW m \in Messages, NEW o \in Owners, NEW c \in Convs,
                NEW role \in Roles, NEW r \in Requests \cup {None},
                NEW t \in Payloads, AppendMessage(m, o, c, role, r, t)
         PROVE  StoreInv'
    BY <1>0, <1>10, AppendStep
  <1>11. ASSUME NEW q \in Claims, NEW m \in Messages, RecordClaim(q, m)
         PROVE  StoreInv'
    <2>1. /\ UNCHANGED <<conv, work, msg, current, pass>>
          /\ msg[m] # None /\ msg[m].role = "assistant"
      BY <1>11 DEF RecordClaim
    <2>2. ClaimsAreAnchored'
      BY <1>0, <1>11, <2>1 DEF RecordClaim, StoreInv, ClaimsAreAnchored, TypeOK
    <2>3. RowsAreConsistent' /\ ResultsAreDistinct' /\ BindingsAreExact'
      BY <2>1 DEF StoreInv, RowsAreConsistent, LiveRow, CompletedRow, FailedRow,
           Addressable, OwnConv, Associated, BoundTo, ResultsAreDistinct,
           BindingsAreExact
    <2>4. LocatorsAreOwned' /\ CandidatesExist'
      BY <2>1 DEF StoreInv, LocatorsAreOwned, CandidatesExist
    <2>5. OnlySupersededReplaced' /\ SupersessionEnds'
      BY <2>1 DEF StoreInv, OnlySupersededReplaced, SupersessionEnds
    <2> QED BY <1>0, <2>2, <2>3, <2>4, <2>5 DEF StoreInv
  <1>12. ASSUME NEW o \in Owners, NEW k \in Clients, NEW w \in Works,
                SetCurrentWork(o, k, w)
         PROVE  StoreInv'
    <2>1. /\ UNCHANGED <<conv, work, msg, claim, pass>>
          /\ work[w] # None /\ work[w].owner = o /\ work[w].client = k
      BY <1>12 DEF SetCurrentWork, LocatorAccepted, ReadableWork, Addressable
    <2>2. LocatorsAreOwned'
      <3>1. \A q \in Owners, j \in Clients :
              current'[q][j] = IF q = o /\ j = k THEN w ELSE current[q][j]
        BY <1>0, <1>12 DEF SetCurrentWork, TypeOK
      <3> QED BY <2>1, <3>1 DEF StoreInv, LocatorsAreOwned
    <2>3. RowsAreConsistent' /\ ResultsAreDistinct' /\ BindingsAreExact'
      BY <2>1 DEF StoreInv, RowsAreConsistent, LiveRow, CompletedRow, FailedRow,
           Addressable, OwnConv, Associated, BoundTo, ResultsAreDistinct,
           BindingsAreExact
    <2>4. ClaimsAreAnchored' /\ CandidatesExist'
      BY <2>1 DEF StoreInv, ClaimsAreAnchored, CandidatesExist
    <2>5. OnlySupersededReplaced' /\ SupersessionEnds'
      BY <2>1 DEF StoreInv, OnlySupersededReplaced, SupersessionEnds
    <2> QED BY <1>0, <2>2, <2>3, <2>4, <2>5 DEF StoreInv
  <1>13. CASE UNCHANGED vars
    <2>1. UNCHANGED <<conv, work, msg, claim, current, pass>>
      BY <1>13 DEF vars
    <2>2. RowsAreConsistent' /\ ResultsAreDistinct' /\ BindingsAreExact'
      BY <2>1 DEF StoreInv, RowsAreConsistent, LiveRow, CompletedRow, FailedRow,
           Addressable, OwnConv, Associated, BoundTo, ResultsAreDistinct,
           BindingsAreExact
    <2>3. ClaimsAreAnchored' /\ LocatorsAreOwned' /\ CandidatesExist'
      BY <2>1 DEF StoreInv, ClaimsAreAnchored, LocatorsAreOwned, CandidatesExist
    <2>4. OnlySupersededReplaced' /\ SupersessionEnds'
      BY <2>1 DEF StoreInv, OnlySupersededReplaced, SupersessionEnds
    <2> QED BY <1>0, <2>2, <2>3, <2>4 DEF StoreInv
  <1> QED BY <1>1, <1>2, <1>3, <1>4, <1>5, <1>6, <1>7, <1>8, <1>9, <1>10,
             <1>11, <1>12, <1>13 DEF Next

(* The inductive invariant holds in every reachable state. *)
THEOREM StoreInvariant == Spec => []StoreInv
  BY InitStoreInv, NextStoreInv, PTL DEF Spec

-----------------------------------------------------------------------------
(* What the invariant says of the operations. *)

(* get_work_result never has to answer work_unavailable. *)
THEOREM ResultsAreReadable == Spec => []CompletedIsReadable
  <1>1. StoreInv => CompletedIsReadable
    <2> SUFFICES ASSUME StoreInv, NEW w \in Works, work[w] # None,
                        work[w].state = "completed"
                 PROVE  ReadableResult(w) /\ BoundTo(w) \subseteq {work[w].result}
      BY DEF CompletedIsReadable
    <2>1. Addressable(w) /\ CompletedRow(w)
      BY DEF StoreInv, RowsAreConsistent
    <2>2. Canonical(work[w].result)
      BY <2>1 DEF Canonical, CompletedRow, Associated
    <2> QED BY <2>1, <2>2 DEF ReadableResult, CompletedRow
  <1> QED BY <1>1, StoreInvariant, PTL

(* A failed work leaves no message, result or claim behind. *)
THEOREM FailuresAreClean == Spec => []FailedLeavesNothing
  <1>1. StoreInv => FailedLeavesNothing
    BY DEF StoreInv, RowsAreConsistent, FailedRow, FailedLeavesNothing
  <1> QED BY <1>1, StoreInvariant, PTL

(* One message answers at most one work; a message is bound exactly to the   *)
(* work its request names; every chain of replacements ends.                 *)
THEOREM AssociationsAreExact ==
  Spec => [](ResultsAreDistinct /\ BindingsAreExact /\ ClaimsAreAnchored
               /\ SupersessionEnds)
  <1>1. StoreInv => ResultsAreDistinct /\ BindingsAreExact /\ ClaimsAreAnchored
                      /\ SupersessionEnds
    BY DEF StoreInv
  <1> QED BY <1>1, StoreInvariant, PTL

(* Following the replacements of a conversation ends.                        *)
THEOREM ReplacementsEnd == Spec => []SupersessionEnds
  BY AssociationsAreExact, PTL

(* A stored current-work association always resolves. *)
THEOREM LocatorsResolve == Spec => []LocatorResolves
  <1>1. StoreInv => LocatorResolves
    <2> SUFFICES ASSUME StoreInv, NEW o \in Owners, NEW k \in Clients,
                        current[o][k] # None
                 PROVE  /\ ReadableWork(current[o][k])
                        /\ work[current[o][k]].owner = o
                        /\ work[current[o][k]].client = k
      BY DEF LocatorResolves
    <2> DEFINE w == current[o][k]
    <2>1. w \in Works
      BY DEF StoreInv, TypeOK
    <2>2. work[w] # None /\ work[w].owner = o /\ work[w].client = k
      BY DEF StoreInv, LocatorsAreOwned
    <2>3. Addressable(w)
      BY <2>1, <2>2 DEF StoreInv, RowsAreConsistent
    <2>4. work[w].state \in WorkStates
      BY <2>1, <2>2 DEF StoreInv, TypeOK, WorkRow
    <2>5. work[w].result # None => Associated(w, work[w].result)
      <3>1. CASE work[w].state \in Live
        BY <2>1, <2>2, <3>1 DEF StoreInv, RowsAreConsistent, LiveRow
      <3>2. CASE work[w].state = "completed"
        BY <2>1, <2>2, <3>2 DEF StoreInv, RowsAreConsistent, CompletedRow
      <3>3. CASE work[w].state = "failed"
        BY <2>1, <2>2, <3>3 DEF StoreInv, RowsAreConsistent, FailedRow
      <3> QED BY <2>4, <3>1, <3>2, <3>3 DEF WorkStates, Live
    <2> QED BY <2>2, <2>3, <2>5 DEF ReadableWork
  <1> QED BY <1>1, StoreInvariant, PTL

(* What is bound to a work is its one answer.                                *)
LEMMA OnlyAnswerIsBound ==
  ASSUME BindingsAreExact, NEW w \in Works
  PROVE  Deletable(w)
  <1>1. \A m \in BoundTo(w) : Associated(w, m) /\ BoundTo(w) = {m}
    BY NoneAssumption DEF BoundTo, BindingsAreExact
  <1> QED BY <1>1 DEF Deletable

(* A reconciliation never refuses its pass: no reachable row is inconsistent, *)
(* and no work's answer is among the messages the pass would delete.          *)
THEOREM ReconciliationIsPossible == Spec => []ReconcileIsPossible
  <1>1. StoreInv => ReconcileIsPossible
    <2> SUFFICES ASSUME StoreInv, NEW p \in Reconcilers, pass[p] # None
                 PROVE  /\ \A w \in pass[p] : ConsistentCandidate(w)
                        /\ \A v \in Works : work[v] # None =>
                             work[v].result \notin Provisional(StillLive(pass[p]))
      BY DEF ReconcileIsPossible
    <2>1. pass[p] \in SUBSET Works /\ \A w \in pass[p] : work[w] # None
      BY DEF StoreInv, TypeOK, CandidatesExist
    <2>2. ASSUME NEW w \in pass[p]
          PROVE  ConsistentCandidate(w)
      <3>1. Addressable(w) /\ (work[w].state \in Live => LiveRow(w))
        BY <2>1 DEF StoreInv, RowsAreConsistent
      <3>2. Deletable(w)
        BY <2>1, OnlyAnswerIsBound DEF StoreInv
      <3> QED BY <3>1, <3>2 DEF ConsistentCandidate, LiveRow
    <2>3. ASSUME NEW v \in Works, work[v] # None,
                 work[v].result \in Provisional(StillLive(pass[p]))
          PROVE  FALSE
      <3> DEFINE m == work[v].result
      <3>1. m \in Messages /\ msg[m] # None /\ msg[m].work \in StillLive(pass[p])
        BY <2>3 DEF Provisional
      <3>2. m # None /\ work[v].state \in WorkStates
        BY <3>1, <2>3, NoneAssumption DEF StoreInv, TypeOK, WorkRow
      <3>3. work[v].state = "completed" /\ Associated(v, m)
        BY <2>3, <3>2 DEF StoreInv, RowsAreConsistent, LiveRow, CompletedRow,
             FailedRow, WorkStates, Live
      <3>4. msg[m].work = v
        BY <2>1, <3>1, <3>3, NoneAssumption DEF Associated, StillLive
      <3> QED BY <3>1, <3>3, <3>4 DEF StillLive, Live
    <2> QED BY <2>2, <2>3
  <1> QED BY <1>1, StoreInvariant, PTL

-----------------------------------------------------------------------------
(* What no step undoes. *)

(* Failing live works touches no other work, no canonical message and no     *)
(* claim about one.                                                          *)
LEMMA FailKeeps ==
  ASSUME StoreInv, NEW S \in SUBSET Works, NEW f \in FailureCodes,
         \A w \in S : work[w] # None /\ work[w].state \in Live,
         FailWorks(S, f)
  PROVE  /\ \A w \in Works \ S : work'[w] = work[w]
         /\ \A m \in Messages : Canonical(m) =>
              /\ msg'[m] = msg[m]
              /\ msg[m].work \notin S
              /\ \A q \in Claims : claim[q] = m => claim'[q] = m
  <1>1. \A w \in Works \ S : work'[w] = work[w]
    BY DEF FailWorks
  <1>2. ASSUME NEW m \in Messages, Canonical(m)
        PROVE  m \notin Provisional(S) /\ msg[m].work \notin S
    <2>1. msg[m].work \in S => msg[m].work # None
      BY NoneAssumption
    <2>2. msg[m].work \notin S
      BY <1>2, <2>1 DEF Canonical, Live
    <2> QED BY <2>2 DEF Provisional
  <1>3. ASSUME NEW m \in Messages, Canonical(m)
        PROVE  /\ msg'[m] = msg[m]
               /\ \A q \in Claims : claim[q] = m => claim'[q] = m
    BY <1>2, <1>3 DEF FailWorks, ClaimsWithout
  <1> QED BY <1>1, <1>2, <1>3

(* No step changes a terminal work, or a canonical message, its work's row   *)
(* or the claims about it.                                                   *)
LEMMA StepKeeps ==
  ASSUME StoreInv, [Next]_vars
  PROVE  /\ \A w \in Works : work[w] # None /\ work[w].state \in Terminal =>
              work'[w] = work[w]
         /\ \A m \in Messages : Canonical(m) =>
              /\ msg'[m] = msg[m]
              /\ \A q \in Claims : claim[q] = m => claim'[q] = m
  <1> DEFINE Kept ==
        /\ \A w \in Works : work[w] # None /\ work[w].state \in Terminal =>
             work'[w] = work[w]
        /\ \A m \in Messages : Canonical(m) =>
             /\ msg'[m] = msg[m]
             /\ \A q \in Claims : claim[q] = m => claim'[q] = m
  <1>0. TypeOK
    BY DEF StoreInv
  <1>1. ASSUME UNCHANGED <<work, msg, claim>>
        PROVE  Kept
    BY <1>1
  <1>2. ASSUME NEW w \in Works, UNCHANGED <<msg, claim>>,
               \A v \in Works \ {w} : work'[v] = work[v],
               work[w] = None \/ work[w].state \in Live
        PROVE  Kept
    BY <1>2 DEF Live, Terminal
  <1>3. ASSUME NEW c \in Convs, NEW o \in Owners, CreateConversation(c, o)
        PROVE  Kept
    BY <1>1, <1>3 DEF CreateConversation
  <1>4. ASSUME NEW c \in Convs, NEW s \in ConvStates,
               NEW r \in Convs \cup {None}, TransitionConversation(c, s, r)
        PROVE  Kept
    BY <1>1, <1>4 DEF TransitionConversation
  <1>5. ASSUME NEW w \in Works, NEW o \in Owners, NEW c \in Convs,
               NEW r \in Requests, NEW k \in Clients \cup {None},
               CreateWork(w, o, c, r, k)
        PROVE  Kept
    <2>1. /\ UNCHANGED <<msg, claim>> /\ work[w] = None
          /\ \A v \in Works \ {w} : work'[v] = work[v]
      BY <1>0, <1>5 DEF CreateWork, TypeOK
    <2> HIDE DEF Kept
    <2> QED BY <1>2, <2>1
  <1>6. ASSUME NEW w \in Works, StartWork(w)
        PROVE  Kept
    <2>1. /\ UNCHANGED <<msg, claim>> /\ work[w].state \in Live
          /\ \A v \in Works \ {w} : work'[v] = work[v]
      BY <1>0, <1>6 DEF StartWork, TypeOK, AllowedTransitions, Live
    <2> HIDE DEF Kept
    <2> QED BY <1>2, <2>1
  <1>7. ASSUME NEW w \in Works, NEW m \in Messages, CompleteWork(w, m)
        PROVE  Kept
    <2>1. /\ UNCHANGED <<msg, claim>> /\ work[w].state \in Live
          /\ \A v \in Works \ {w} : work'[v] = work[v]
      BY <1>0, <1>7 DEF CompleteWork, TypeOK, AllowedTransitions, Live
    <2> HIDE DEF Kept
    <2> QED BY <1>2, <2>1
  <1>8. ASSUME NEW S \in SUBSET Works, NEW f \in FailureCodes,
               \A w \in S : work[w] # None /\ work[w].state \in Live,
               FailWorks(S, f)
        PROVE  Kept
    <2>1. \A w \in Works \ S : work'[w] = work[w]
      BY <1>8, FailKeeps
    <2>2. \A m \in Messages : Canonical(m) =>
            /\ msg'[m] = msg[m]
            /\ \A q \in Claims : claim[q] = m => claim'[q] = m
      BY <1>8, FailKeeps
    <2> QED BY <1>8, <2>1, <2>2 DEF Live, Terminal
  <1>9. ASSUME NEW w \in Works, NEW f \in FailureCodes, FailWork(w, f)
        PROVE  Kept
    <2>1. work[w] # None /\ work[w].state \in Live /\ FailWorks({w}, f)
      BY <1>9 DEF FailWork, Addressable, AllowedTransitions, Live
    <2>2. {w} \in SUBSET Works /\ \A v \in {w} :
             work[v] # None /\ work[v].state \in Live
      BY <2>1
    <2> HIDE DEF Kept
    <2> QED BY <1>8, <2>1, <2>2
  <1>10. ASSUME NEW p \in Reconcilers, BeginReconcile(p)
         PROVE  Kept
    BY <1>1, <1>10 DEF BeginReconcile
  <1>11. ASSUME NEW p \in Reconcilers, FinishReconcile(p)
         PROVE  Kept
    <2>1. StillLive(pass[p]) \in SUBSET Works
      BY <1>0, <1>11 DEF FinishReconcile, StillLive, TypeOK
    <2>2. \A w \in StillLive(pass[p]) :
            work[w] # None /\ work[w].state \in Live
      BY <1>11 DEF FinishReconcile, StillLive, ConsistentCandidate, Addressable
    <2>3. FailWorks(StillLive(pass[p]), "interrupted")
      BY <1>11 DEF FinishReconcile
    <2> HIDE DEF Kept
    <2> QED BY <1>8, <2>1, <2>2, <2>3, InterruptedAssumption
  <1>12. ASSUME NEW p \in Reconcilers, AbortReconcile(p)
         PROVE  Kept
    BY <1>1, <1>12 DEF AbortReconcile
  <1>13. ASSUME NEW m \in Messages, NEW o \in Owners, NEW c \in Convs,
                NEW role \in Roles, NEW r \in Requests \cup {None},
                NEW t \in Payloads, AppendMessage(m, o, c, role, r, t)
         PROVE  Kept
    <2>1. /\ msg[m] = None /\ UNCHANGED <<work, claim>>
          /\ \A n \in Messages \ {m} : msg'[n] = msg[n]
      BY <1>0, <1>13 DEF AppendMessage, TypeOK
    <2>2. ~Canonical(m)
      BY <2>1 DEF Canonical
    <2> QED BY <2>1, <2>2
  <1>14. ASSUME NEW q \in Claims, NEW m \in Messages, RecordClaim(q, m)
         PROVE  Kept
    <2>1. /\ UNCHANGED <<work, msg>> /\ claim[q] = None
          /\ \A d \in Claims \ {q} : claim'[d] = claim[d]
      BY <1>0, <1>14 DEF RecordClaim, TypeOK
    <2> QED BY <2>1, NoneAssumption
  <1>15. ASSUME NEW o \in Owners, NEW k \in Clients, NEW w \in Works,
                SetCurrentWork(o, k, w)
         PROVE  Kept
    BY <1>1, <1>15 DEF SetCurrentWork
  <1>16. ASSUME UNCHANGED vars
         PROVE  Kept
    BY <1>1, <1>16 DEF vars
  <1>17. Kept
    <2> HIDE DEF Kept
    <2> QED BY <1>3, <1>4, <1>5, <1>6, <1>7, <1>9, <1>10, <1>11, <1>12, <1>13,
               <1>14, <1>15, <1>16 DEF Next
  <1> QED BY <1>17

(* A terminal work is never changed again, by a late worker, a second        *)
(* finalizer or a reconciliation that selected it while it was live.         *)
THEOREM TerminalWorksAreFinal == Spec => TerminalIsFinal
  <1>1. StoreInv /\ [Next]_vars =>
          [\A w \in Works : work[w] # None /\ work[w].state \in Terminal =>
             work'[w] = work[w]]_vars
    BY StepKeeps
  <1> QED BY <1>1, StoreInvariant, PTL DEF Spec, TerminalIsFinal

(* A canonical message stays canonical, unchanged, with its claims: the work *)
(* that publishes it is completed, and so kept.                              *)
LEMMA CanonicalStep ==
  ASSUME StoreInv, [Next]_vars, NEW m \in Messages, Canonical(m)
  PROVE  /\ Canonical(m)'
         /\ msg'[m] = msg[m]
         /\ \A q \in Claims : claim[q] = m => claim'[q] = m
  <1>1. /\ msg'[m] = msg[m]
        /\ \A q \in Claims : claim[q] = m => claim'[q] = m
    BY StepKeeps
  <1>2. msg[m].work # None => msg[m].work \in Works
    BY DEF StoreInv, TypeOK, MsgRow, Canonical
  <1>3. msg[m].work # None => work'[msg[m].work] = work[msg[m].work]
    BY <1>2, StepKeeps DEF Canonical, Terminal
  <1> QED BY <1>1, <1>3 DEF Canonical

(* What ordinary reads have shown they keep showing, unchanged, with every   *)
(* claim recorded about it.                                                  *)
THEOREM CanonicalMessagesAreKept == Spec => CanonicalIsKept
  <1>1. StoreInv /\ [Next]_vars =>
          [\A m \in Messages : Canonical(m) =>
             /\ Canonical(m)'
             /\ msg'[m] = msg[m]
             /\ \A q \in Claims : claim[q] = m => claim'[q] = m]_vars
    BY CanonicalStep
  <1> QED BY <1>1, StoreInvariant, PTL DEF Spec, CanonicalIsKept

-----------------------------------------------------------------------------
(* The store implements the contract of the work API. *)

(* The contract's Fail, taken by a transition or by a reconciliation.        *)
LEMMA FailRefines ==
  ASSUME StoreInv, NEW S \in SUBSET Works, NEW f \in FailureCodes,
         \A w \in S : work[w] # None /\ work[w].state \in Live,
         FailWorks(S, f)
  PROVE  Contract!Fail(S)
  <1>1. \A w \in S : work[w] \in WorkRow
    BY DEF StoreInv, TypeOK
  <1>2. \A w \in S : work'[w] # None /\ work'[w].state = "failed"
                     /\ work'[w].result = None
    <2> SUFFICES ASSUME NEW w \in S
                 PROVE  work'[w] # None /\ work'[w].state = "failed"
                        /\ work'[w].result = None
      OBVIOUS
    <2>1. work'[w] = [work[w] EXCEPT !.state = "failed", !.result = None,
                                     !.failure = f]
      BY DEF FailWorks
    <2>2. work[w] \in WorkRow
      BY <1>1
    <2>3. work'[w] \in WorkRow
      BY <2>1, <2>2 DEF WorkRow, WorkStates
    <2> QED BY <2>1, <2>2, <2>3, NoneAssumption DEF WorkRow
  <1>3. \A w \in Works \ S : work'[w] = work[w]
    BY FailKeeps
  <1>4. \A w \in S : Status[w] \in Contract!Open
    BY DEF Status, Contract!Open, Live
  <1>5. Status' = [w \in Works |-> IF w \in S THEN "failed" ELSE Status[w]]
    BY <1>2, <1>3 DEF Status
  <1>6. Answer' = Answer
    <2>1. \A w \in S : work[w].result = None
      BY DEF StoreInv, RowsAreConsistent, LiveRow
    <2> QED BY <1>2, <1>3, <2>1 DEF Answer
  <1>7. Visible' = Visible
    <2>1. ASSUME NEW m \in Messages, Canonical(m)
          PROVE  Canonical(m)'
      <3>1. msg'[m] = msg[m] /\ msg[m].work \notin S
        BY <2>1, FailKeeps
      <3>2. msg[m].work # None => msg[m].work \in Works
        BY <2>1 DEF StoreInv, TypeOK, MsgRow, Canonical
      <3>3. msg[m].work # None => work'[msg[m].work] = work[msg[m].work]
        BY <1>3, <3>1, <3>2
      <3> QED BY <2>1, <3>1, <3>3 DEF Canonical
    <2>2. ASSUME NEW m \in Messages, Canonical(m)'
          PROVE  Canonical(m)
      <3>1. msg'[m] # None /\ msg'[m] = msg[m]
        BY <2>2 DEF Canonical, FailWorks
      <3>2. msg[m].work # None => msg[m].work \in Works
        BY <3>1 DEF StoreInv, TypeOK, MsgRow
      <3>3. msg[m].work # None => msg[m].work \notin S
        BY <1>2, <2>2, <3>1 DEF Canonical
      <3>4. msg[m].work # None => work'[msg[m].work] = work[msg[m].work]
        BY <1>3, <3>2, <3>3
      <3> QED BY <2>2, <3>1, <3>4 DEF Canonical
    <2> QED BY <2>1, <2>2 DEF Visible
  <1> QED BY <1>4, <1>5, <1>6, <1>7 DEF Contract!Fail

(* The contract's Publish: the answer becomes visible with its work.         *)
LEMMA CompleteRefines ==
  ASSUME StoreInv, NEW w \in Works, NEW m \in Messages, CompleteWork(w, m)
  PROVE  Contract!Publish(w, m)
  <1>1. /\ work[w] # None /\ work[w].state = "running"
        /\ Associated(w, m) /\ BoundTo(w) \subseteq {m}
        /\ \A v \in Works : work[v] # None => work[v].result # m
        /\ UNCHANGED <<conv, msg>>
    BY DEF CompleteWork, Addressable, AllowedTransitions, ResultAccepted,
           UnusedResult
  <1>2. /\ work'[w] # None /\ work'[w].state = "completed"
        /\ work'[w].result = m /\ work'[w].owner = work[w].owner
        /\ work'[w].conv = work[w].conv
    <2>1. work[w] \in WorkRow
      BY <1>1 DEF StoreInv, TypeOK
    <2>2. work'[w] = [work[w] EXCEPT !.state = "completed", !.result = m]
      BY DEF CompleteWork, StoreInv, TypeOK
    <2>3. work'[w] \in WorkRow
      BY <2>1, <2>2 DEF WorkRow, WorkStates
    <2> QED BY <2>1, <2>2, <2>3, NoneAssumption DEF WorkRow
  <1>3. \A v \in Works \ {w} : work'[v] = work[v]
    BY DEF CompleteWork, StoreInv, TypeOK
  <1>4. Status' = [Status EXCEPT ![w] = "completed"]
    BY <1>1, <1>2, <1>3 DEF Status
  <1>5. Answer' = [Answer EXCEPT ![w] = m]
    BY <1>1, <1>2, <1>3 DEF Answer
  <1>6. \A v \in Works : Answer[v] # m
    BY <1>1, NoneAssumption DEF Answer
  <1>7. Canonical(m)'
    BY <1>1, <1>2 DEF Canonical, Associated
  <1>8. ASSUME NEW n \in Messages, n # m
        PROVE  Canonical(n)' <=> Canonical(n)
    <2>1. msg[n] # None => msg[n].work # w
      BY <1>1, <1>8 DEF BoundTo
    <2>2. msg[n] # None /\ msg[n].work # None => msg[n].work \in Works
      BY DEF StoreInv, TypeOK, MsgRow
    <2>3. msg[n] # None /\ msg[n].work # None =>
            work'[msg[n].work] = work[msg[n].work]
      BY <1>3, <2>1, <2>2
    <2> QED BY <1>1, <2>3 DEF Canonical
  <1>9. Visible' = Visible \cup {m}
    BY <1>7, <1>8 DEF Visible
  <1>10. Status[w] = "running"
    BY <1>1 DEF Status
  <1> QED BY <1>4, <1>5, <1>6, <1>9, <1>10 DEF Contract!Publish

(* Admission and start are the contract's, one for one. *)
LEMMA AdmitRefines ==
  ASSUME StoreInv, NEW w \in Works, UNCHANGED msg,
         \A v \in Works \ {w} : work'[v] = work[v],
         work'[w] # None, work'[w].result = None,
         \/ work[w] = None /\ work'[w].state = "pending"
         \/ /\ work[w] # None /\ work[w].state = "pending"
            /\ work[w].result = None
            /\ work'[w].state = "running"
  PROVE  Contract!Admit(w) \/ Contract!Start(w)
  <1>1. ASSUME NEW n \in Messages
        PROVE  Canonical(n)' <=> Canonical(n)
    <2>1. msg[n] # None /\ msg[n].work # None => msg[n].work \in Works
      BY DEF StoreInv, TypeOK, MsgRow
    <2>2. Canonical(n) => msg[n].work # w
      BY NoneAssumption DEF Canonical
    <2>3. Canonical(n)' => msg[n].work # w
      BY NoneAssumption DEF Canonical
    <2> QED BY <2>1, <2>2, <2>3 DEF Canonical
  <1>2. Visible' = Visible
    BY <1>1 DEF Visible
  <1>3. Answer' = Answer
    BY DEF Answer
  <1>4. CASE work[w] = None
    <2>1. Status[w] = "absent" /\ Status' = [Status EXCEPT ![w] = "pending"]
      BY <1>4 DEF Status
    <2> QED BY <1>2, <1>3, <2>1 DEF Contract!Admit
  <1>5. CASE work[w] # None
    <2>1. Status[w] = "pending" /\ Status' = [Status EXCEPT ![w] = "running"]
      BY <1>5 DEF Status
    <2> QED BY <1>2, <1>3, <2>1 DEF Contract!Start
  <1> QED BY <1>4, <1>5

(* An unbound message is the contract's Speak; a bound one is not visible.   *)
LEMMA AppendRefines ==
  ASSUME StoreInv, NEW m \in Messages, NEW o \in Owners, NEW c \in Convs,
         NEW role \in Roles, NEW r \in Requests \cup {None},
         NEW t \in Payloads, AppendMessage(m, o, c, role, r, t)
  PROVE  Contract!Speak(m) \/ UNCHANGED Contract!vars
  <1>1. PICK b \in Binding(o, c, role, r) :
          /\ BindingAccepted(b)
          /\ msg' = [msg EXCEPT ![m] =
               [owner |-> o, conv |-> c, role |-> role, request |-> r,
                payload |-> t, work |-> b]]
    BY DEF AppendMessage
  <1>2. /\ msg[m] = None /\ UNCHANGED work
        /\ msg'[m] # None /\ msg'[m].work = b
    <2>1. b \in Works \cup {None}
      BY DEF Binding
    <2>2. msg'[m] = [owner |-> o, conv |-> c, role |-> role, request |-> r,
                     payload |-> t, work |-> b]
      BY <1>1 DEF StoreInv, TypeOK
    <2>3. msg'[m] \in MsgRow
      BY <2>1, <2>2 DEF MsgRow
    <2>4. msg[m] = None /\ UNCHANGED work
      BY DEF AppendMessage
    <2> QED BY <2>2, <2>3, <2>4, NoneAssumption
  <1>3. \A n \in Messages \ {m} : msg'[n] = msg[n]
    BY <1>1 DEF StoreInv, TypeOK
  <1>4. Status' = Status /\ Answer' = Answer
    BY <1>2 DEF Status, Answer
  <1>5. ASSUME NEW n \in Messages \ {m}
        PROVE  Canonical(n)' <=> Canonical(n)
    BY <1>2, <1>3 DEF Canonical
  <1>6. ~Canonical(m)
    BY <1>2 DEF Canonical
  <1>7. CASE b = None
    <2>1. Canonical(m)'
      BY <1>2, <1>7 DEF Canonical
    <2>2. Visible' = Visible \cup {m} /\ m \notin Visible
      BY <1>5, <1>6, <2>1 DEF Visible
    <2> QED BY <1>4, <2>2 DEF Contract!Speak
  <1>8. CASE b # None
    <2>1. ~Canonical(m)'
      BY <1>1, <1>2, <1>8 DEF Canonical, BindingAccepted, Live
    <2>2. Visible' = Visible
      BY <1>5, <1>6, <2>1 DEF Visible
    <2> QED BY <1>4, <2>2 DEF Contract!vars
  <1> QED BY <1>7, <1>8

(* Every transaction is a step of the contract or leaves its view alone. *)
LEMMA StepRefines ==
  ASSUME StoreInv, [Next]_vars
  PROVE  [Contract!Next]_(Contract!vars)
  <1>0. TypeOK
    BY DEF StoreInv
  <1>1. ASSUME UNCHANGED <<work, msg>>
        PROVE  UNCHANGED Contract!vars
    BY <1>1 DEF Contract!vars, Status, Answer, Visible, Canonical
  <1>2. ASSUME NEW w \in Works, NEW o \in Owners, NEW c \in Convs,
               NEW r \in Requests, NEW k \in Clients \cup {None},
               CreateWork(w, o, c, r, k)
        PROVE  Contract!Next
    <2>1. /\ UNCHANGED msg /\ work[w] = None
          /\ \A v \in Works \ {w} : work'[v] = work[v]
      BY <1>0, <1>2 DEF CreateWork, TypeOK
    <2>2. work'[w] = [owner |-> o, conv |-> c, request |-> r, client |-> k,
                      state |-> "pending", started |-> FALSE, result |-> None,
                      failure |-> None]
      BY <1>0, <1>2 DEF CreateWork, TypeOK
    <2>3. work'[w] \in WorkRow
      BY <1>2, <2>2 DEF WorkRow, WorkStates
    <2>4. work'[w] # None /\ work'[w].state = "pending" /\ work'[w].result = None
      <3>1. work'[w] # None
        BY <2>3, NoneAssumption
      <3> QED BY <2>2, <3>1
    <2>5. Contract!Admit(w) \/ Contract!Start(w)
      BY <2>1, <2>4, AdmitRefines
    <2> QED BY <2>5 DEF Contract!Next
  <1>3. ASSUME NEW w \in Works, StartWork(w)
        PROVE  Contract!Next
    <2>1. /\ UNCHANGED msg /\ work[w] # None /\ work[w].state = "pending"
          /\ \A v \in Works \ {w} : work'[v] = work[v]
          /\ work'[w] = Started(work[w])
      BY <1>0, <1>3 DEF StartWork, Addressable, AllowedTransitions, TypeOK
    <2>2. work[w].result = None
      BY <2>1 DEF StoreInv, RowsAreConsistent, LiveRow, Live
    <2>3. work[w] \in WorkRow
      BY <1>0, <2>1 DEF TypeOK
    <2>4. /\ work'[w] \in WorkRow
          /\ work'[w].state = "running" /\ work'[w].result = None
      BY <2>1, <2>2, <2>3 DEF Started, WorkRow, WorkStates
    <2>5. work'[w] # None
      BY <2>4, NoneAssumption
    <2>6. Contract!Admit(w) \/ Contract!Start(w)
      BY <2>1, <2>2, <2>4, <2>5, AdmitRefines
    <2> QED BY <2>6 DEF Contract!Next
  <1>4. ASSUME NEW w \in Works, NEW m \in Messages, CompleteWork(w, m)
        PROVE  Contract!Next
    BY <1>4, CompleteRefines DEF Contract!Next
  <1>5. ASSUME NEW w \in Works, NEW f \in FailureCodes, FailWork(w, f)
        PROVE  Contract!Next
    <2>1. work[w] # None /\ work[w].state \in Live /\ FailWorks({w}, f)
      BY <1>5 DEF FailWork, Addressable, AllowedTransitions, Live
    <2>2. {w} \in SUBSET Works /\ Contract!Fail({w})
      BY <2>1, FailRefines
    <2> QED BY <2>2 DEF Contract!Next
  <1>6. ASSUME NEW p \in Reconcilers, FinishReconcile(p)
        PROVE  Contract!Next
    <2>1. /\ StillLive(pass[p]) \in SUBSET Works
          /\ \A w \in StillLive(pass[p]) :
               work[w] # None /\ work[w].state \in Live
          /\ FailWorks(StillLive(pass[p]), "interrupted")
      BY <1>0, <1>6 DEF FinishReconcile, StillLive, ConsistentCandidate,
           Addressable, TypeOK
    <2>2. Contract!Fail(StillLive(pass[p]))
      BY <2>1, FailRefines, InterruptedAssumption
    <2> QED BY <2>1, <2>2 DEF Contract!Next
  <1>7. ASSUME NEW m \in Messages, NEW o \in Owners, NEW c \in Convs,
               NEW role \in Roles, NEW r \in Requests \cup {None},
               NEW t \in Payloads, AppendMessage(m, o, c, role, r, t)
        PROVE  Contract!Next \/ UNCHANGED Contract!vars
    <2>1. Contract!Speak(m) \/ UNCHANGED Contract!vars
      BY <1>7, AppendRefines
    <2> QED BY <2>1 DEF Contract!Next
  <1>8. ASSUME \/ \E c \in Convs, o \in Owners : CreateConversation(c, o)
               \/ \E c \in Convs, s \in ConvStates, r \in Convs \cup {None} :
                    TransitionConversation(c, s, r)
               \/ \E p \in Reconcilers : BeginReconcile(p) \/ AbortReconcile(p)
               \/ \E q \in Claims, m \in Messages : RecordClaim(q, m)
               \/ \E o \in Owners, k \in Clients, w \in Works :
                    SetCurrentWork(o, k, w)
               \/ UNCHANGED vars
        PROVE  UNCHANGED Contract!vars
    <2>1. UNCHANGED <<work, msg>>
      BY <1>8 DEF CreateConversation, TransitionConversation, BeginReconcile,
           AbortReconcile, RecordClaim, SetCurrentWork, vars
    <2> QED BY <1>1, <2>1
  <1> QED BY <1>2, <1>3, <1>4, <1>5, <1>6, <1>7, <1>8 DEF Next

(* The tables implement the contract for any number of works and messages.   *)
THEOREM StoreImplementsContract == Spec => ContractSpec
  <1>1. Init => Contract!Init
    BY DEF Init, Contract!Init, Status, Answer, Visible, Canonical
  <1>2. StoreInv /\ [Next]_vars => [Contract!Next]_(Contract!vars)
    BY StepRefines
  <1> QED BY <1>1, <1>2, StoreInvariant, PTL DEF Spec, ContractSpec, Contract!Spec
=============================================================================
