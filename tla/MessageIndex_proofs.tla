------------------------- MODULE MessageIndex_proofs -------------------------
(* What the semantic index may show, and the paging of the tool that         *)
(* rebuilds it, for every value of the constants.                            *)
EXTENDS MessageIndex, ReindexPass, DurableWork_proofs, FiniteSetTheorems

(* MessageIndex.                                                             *)

(* What a task has read back and what the index holds is the content of a    *)
(* message that was canonical when it was read, and has stayed so.           *)
Shown(m, p) == Canonical(m) /\ msg[m].payload = p

IndexInv ==
  /\ StoreInv
  /\ IndexTypeOK
  /\ \A m \in Messages, p \in Payloads : <<m, p>> \in loaded => Shown(m, p)
  /\ \A m \in Messages : index[m] # None => Shown(m, index[m])

(* Every step is a transaction of the store or leaves the store alone.       *)
LEMMA StoreStep == [IndexNext]_allVars => [Next]_vars
  BY DEF IndexNext, allVars, StoreOnly, Next, AppendThenIndex, CompleteThenIndex,
         ReplayThenIndex, ReadBack, ReindexRead, Upsert, Crash

(* A row that is shown goes on being shown as it is.                         *)
LEMMA ShownStays ==
  ASSUME StoreInv, [Next]_vars, NEW m \in Messages, NEW p, Shown(m, p)
  PROVE  Shown(m, p)'
  BY CanonicalStep DEF Shown

LEMMA IndexInitially == IndexInit => IndexInv
  <1> SUFFICES ASSUME IndexInit PROVE IndexInv
    OBVIOUS
  <1>1. StoreInv
    BY InitStoreInv DEF IndexInit
  <1> QED BY <1>1 DEF IndexInit, IndexInv, IndexTypeOK

(* What a step adds to the tasks and to the index.                           *)
LEMMA TasksStep ==
  ASSUME IndexInv, [IndexNext]_allVars
  PROVE  /\ IndexTypeOK'
         /\ \A m \in Messages, p \in Payloads :
              <<m, p>> \in loaded' =>
                <<m, p>> \in loaded \/ (Shown(m, p) /\ UNCHANGED vars)
         /\ \A m \in Messages : index'[m] # index[m] => <<m, index'[m]>> \in loaded
  <1>1. IndexTypeOK
    BY DEF IndexInv
  <1>2. CASE UNCHANGED indexVars
    BY <1>1, <1>2 DEF IndexTypeOK, indexVars
  <1>3. CASE \/ \E m \in Messages, o \in Owners, c \in Convs, role \in Roles,
                   r \in Requests \cup {None}, p \in Payloads :
                  AppendThenIndex(m, o, c, role, r, p)
             \/ \E w \in Works, m \in Messages : CompleteThenIndex(w, m)
             \/ \E m \in Messages : ReplayThenIndex(m)
    <2>1. /\ \E m \in Messages : queued' = queued \cup {m}
          /\ UNCHANGED <<loaded, index>>
      BY <1>3 DEF AppendThenIndex, CompleteThenIndex, ReplayThenIndex
    <2> QED BY <1>1, <2>1 DEF IndexTypeOK
  <1>4. ASSUME NEW m \in Messages, ReadBack(m) \/ ReindexRead(m)
        PROVE  /\ queued' \subseteq queued /\ UNCHANGED <<vars, index>>
               /\ loaded' = loaded \/ (Canonical(m) /\ loaded' = loaded \cup {<<m, msg[m].payload>>})
    BY <1>4 DEF ReadBack, ReindexRead, Indexable, Columns
  <1>5. CASE \E m \in Messages : ReadBack(m) \/ ReindexRead(m)
    <2>1. PICK m \in Messages : ReadBack(m) \/ ReindexRead(m)
      BY <1>5
    <2>2. CASE loaded' = loaded
      BY <1>1, <1>4, <2>1, <2>2 DEF IndexTypeOK
    <2>3. CASE Canonical(m) /\ loaded' = loaded \cup {<<m, msg[m].payload>>}
      <3>1. msg[m].payload \in Payloads
        BY <2>3 DEF IndexInv, StoreInv, TypeOK, MsgRow, Canonical
      <3>2. Shown(m, msg[m].payload)
        BY <2>3 DEF Shown
      <3> QED BY <1>1, <1>4, <2>1, <2>3, <3>1, <3>2 DEF IndexTypeOK
    <2> QED BY <1>4, <2>1, <2>2, <2>3
  <1>6. CASE \E m \in Messages, p \in Payloads : Upsert(m, p)
    <2>1. PICK m \in Messages, p \in Payloads : Upsert(m, p)
      BY <1>6
    <2>2. /\ <<m, p>> \in loaded /\ loaded' = loaded \ {<<m, p>>} /\ queued' = queued
          /\ index' = [index EXCEPT ![m] = p] \/ index' = index
      BY <2>1 DEF Upsert
    <2> QED BY <1>1, <2>2 DEF IndexTypeOK
  <1>7. CASE Crash
    BY <1>1, <1>7 DEF Crash, IndexTypeOK
  <1> QED BY <1>2, <1>3, <1>5, <1>6, <1>7 DEF IndexNext, StoreOnly, allVars

LEMMA IndexStep == IndexInv /\ [IndexNext]_allVars => IndexInv'
  <1> SUFFICES ASSUME IndexInv, [IndexNext]_allVars PROVE IndexInv'
    OBVIOUS
  <1>1. StoreInv /\ [Next]_vars /\ StoreInv'
    BY StoreStep, NextStoreInv DEF IndexInv
  <1>2. ASSUME NEW m \in Messages, NEW p \in Payloads, <<m, p>> \in loaded'
        PROVE  Shown(m, p)'
    <2>1. Shown(m, p)
      BY <1>2, TasksStep DEF IndexInv
    <2> QED BY <1>1, <2>1, ShownStays
  <1>3. ASSUME NEW m \in Messages, index'[m] # None
        PROVE  Shown(m, index[m])'
    <2>1. PICK p : p = index'[m]
      OBVIOUS
    <2>2. CASE index'[m] = index[m]
      BY <1>1, <1>3, <2>1, <2>2, ShownStays DEF IndexInv, Shown
    <2>3. CASE index'[m] # index[m]
      <3>1. <<m, p>> \in loaded /\ p \in Payloads
        BY <2>1, <2>3, TasksStep DEF IndexInv, IndexTypeOK
      <3>2. Shown(m, p)'
        BY <1>1, <3>1, ShownStays DEF IndexInv
      <3> QED BY <2>1, <3>2 DEF Shown
    <2> QED BY <2>2, <2>3
  <1> QED BY <1>1, <1>2, <1>3, TasksStep DEF IndexInv

THEOREM IndexInvariant == IndexSpec => []IndexInv
  BY IndexInitially, IndexStep, PTL DEF IndexSpec

(* The index shows canonical messages only, each with its own content,       *)
(* whatever commits between a task's read and its write.                     *)
THEOREM IndexesShowCanonical == IndexSpec => []IndexShowsCanonical
  <1>1. IndexInv => IndexShowsCanonical
    BY DEF IndexInv, IndexShowsCanonical, Shown
  <1> QED BY <1>1, IndexInvariant, PTL

(* A point once written keeps its content: two tasks that have read the same *)
(* message bring the same.                                                   *)
THEOREM IndexingIsIdempotent == IndexSpec => IndexIsIdempotent
  <1>1. IndexInv /\ [IndexNext]_allVars =>
          [\A m \in Messages : index[m] # None => index'[m] = index[m]]_allVars
    <2> SUFFICES ASSUME IndexInv, [IndexNext]_allVars,
                        NEW m \in Messages, index[m] # None, index'[m] # index[m]
                 PROVE  FALSE
      OBVIOUS
    <2>1. <<m, index'[m]>> \in loaded /\ index'[m] \in Payloads
      BY TasksStep DEF IndexInv, IndexTypeOK
    <2>2. msg[m].payload = index'[m] /\ msg[m].payload = index[m]
      BY <2>1 DEF IndexInv, Shown
    <2> QED BY <2>2
  <1> QED BY <1>1, IndexInvariant, PTL DEF IndexSpec, IndexIsIdempotent

(* The store beneath the index keeps every promise it makes on its own.      *)
THEOREM IndexedStoreIsAStore == IndexSpec => Spec
  <1>1. IndexInit => Init
    BY DEF IndexInit
  <1> QED BY <1>1, StoreStep, PTL DEF IndexSpec, Spec

-----------------------------------------------------------------------------
(* ReindexPass: OFFSET paging over canonical messages, for any number of     *)
(* messages, any batch size and any transactions in between.                 *)

(* Positions of rows. *)

(* A position counts rows, so it is a natural number. *)
LEMMA PositionType ==
  ASSUME NEW m
  PROVE  /\ Position(m) \in Nat
         /\ IsFiniteSet({n \in Rows : n < m})
  <1>1. {n \in Rows : n < m} \in SUBSET Messages
    BY DEF Rows
  <1>2. IsFiniteSet({n \in Rows : n < m})
    BY <1>1, FS_Subset, ScanAssumption
  <1> QED BY <1>2, FS_CardinalityType DEF Position

(* Positions order the rows as their ids do. *)
LEMMA PositionOrder ==
  ASSUME NEW m \in Rows, NEW n \in Rows, m < n
  PROVE  Position(m) < Position(n)
  <1> DEFINE A == {k \in Rows : k < m}
             B == {k \in Rows : k < n}
  <1>1. /\ IsFiniteSet(B) /\ Cardinality(A) \in Nat /\ Cardinality(B) \in Nat
        /\ Position(m) = Cardinality(A) /\ Position(n) = Cardinality(B)
    BY PositionType DEF Position
  <1>2. Rows \subseteq Nat
    BY ScanAssumption DEF Rows
  <1>3. A \in SUBSET B /\ m \in B /\ m \notin A
    <2>1. m \in Nat /\ n \in Nat
      BY <1>2
    <2>2. ASSUME NEW k \in Rows, k < m
          PROVE  k < n
      BY <1>2, <2>1, <2>2
    <2>3. A \in SUBSET B
      BY <2>2
    <2>4. m \in B
      OBVIOUS
    <2>5. m \notin A
      BY <2>1
    <2> QED BY <2>3, <2>4, <2>5
  <1>4. Cardinality(A) <= Cardinality(B) /\ (Cardinality(B) = Cardinality(A) => B = A)
    BY <1>1, <1>3, FS_Subset
  <1> QED BY <1>1, <1>3, <1>4

(* The cardinality of an interval of p numbers. *)
LEMMA IntervalCardinality ==
  ASSUME NEW a \in Nat, NEW p \in Nat
  PROVE  /\ IsFiniteSet(a .. (a + p - 1))
         /\ Cardinality(a .. (a + p - 1)) = p
  <1>1. a \in Int /\ a + p - 1 \in Int
    OBVIOUS
  <1>2. /\ IsFiniteSet(a .. (a + p - 1))
        /\ Cardinality(a .. (a + p - 1)) =
             IF a > a + p - 1 THEN 0 ELSE (a + p - 1) - a + 1
    BY <1>1, FS_Interval
  <1> QED BY <1>2

(* Every position below that of a row is the position of some row. *)
LEMMA PositionsAreDense ==
  ASSUME NEW m \in Rows, NEW k \in Nat, k < Position(m)
  PROVE  \E n \in Rows : Position(n) = k
  <1> DEFINE A == {n \in Rows : n < m}
             P == Position(m)
             T == 0 .. (0 + P - 1)
             f == [n \in A |-> Position(n)]
  <1>1. IsFiniteSet(A) /\ P \in Nat /\ P = Cardinality(A)
    BY PositionType DEF Position
  <1>2. Rows \subseteq Nat
    BY ScanAssumption DEF Rows
  <1>3. ASSUME NEW n \in A
        PROVE  Position(n) \in T
    <2>1. Position(n) \in Nat /\ Position(n) < P
      BY PositionType, PositionOrder
    <2> QED BY <1>1, <2>1
  <1>4. \A n, o \in A : Position(n) = Position(o) => n = o
    <2> SUFFICES ASSUME NEW n \in A, NEW o \in A, n # o
                 PROVE  Position(n) # Position(o)
      OBVIOUS
    <2>1. n < o \/ o < n
      BY <1>2
    <2>2. Position(n) \in Nat /\ Position(o) \in Nat
      BY PositionType
    <2> QED BY <2>1, <2>2, PositionOrder
  <1>5. f \in Injection(A, T)
    BY <1>3, <1>4 DEF Injection, IsInjective
  <1>6. IsFiniteSet(T) /\ Cardinality(T) = P
    BY <1>1, IntervalCardinality
  <1>7. f \in Surjection(A, T)
    BY <1>1, <1>5, <1>6, FS_Injection
  <1>8. k \in T
    BY <1>1
  <1> QED BY <1>7, <1>8 DEF Surjection

(* A page holds no more rows than its limit. *)
LEMMA PageBound ==
  ASSUME offset \in Nat, Limit \in Nat
  PROVE  /\ Cardinality(Page) \in Nat /\ Cardinality(Page) <= Limit
  <1> DEFINE T == offset .. (offset + Limit - 1)
             f == [n \in Page |-> Position(n)]
  <1>1. Page \subseteq Rows /\ Rows \subseteq Nat
    BY ScanAssumption DEF Page, Rows
  <1>2. ASSUME NEW n \in Page
        PROVE  Position(n) \in T
    <2>1. /\ Position(n) \in Nat
          /\ offset <= Position(n) /\ Position(n) < offset + Limit
      BY PositionType DEF Page
    <2> QED BY <2>1
  <1>3. \A n, o \in Page : Position(n) = Position(o) => n = o
    <2> SUFFICES ASSUME NEW n \in Page, NEW o \in Page, n # o
                 PROVE  Position(n) # Position(o)
      OBVIOUS
    <2>1. n \in Rows /\ o \in Rows /\ (n < o \/ o < n)
      BY <1>1
    <2>2. Position(n) \in Nat /\ Position(o) \in Nat
      BY PositionType
    <2> QED BY <2>1, <2>2, PositionOrder
  <1>4. f \in Injection(Page, T)
    BY <1>2, <1>3 DEF Injection, IsInjective
  <1>5. IsFiniteSet(T) /\ Cardinality(T) = Limit
    BY IntervalCardinality
  <1>6. IsFiniteSet(Page) /\ Cardinality(Page) <= Limit
    BY <1>4, <1>5, FS_Injection
  <1> QED BY <1>6, FS_CardinalityType

(* Rows never go away and never move forward in the order. *)
LEMMA RowsOnlyGrow ==
  ASSUME StoreInv, [Next]_vars
  PROVE  /\ Rows \subseteq Rows'
         /\ \A m \in Messages :
              Position(m)' \in Nat /\ Position(m)' >= Position(m)
  <1>1. Rows \subseteq Rows'
    BY CanonicalStep DEF Rows, Wanted
  <1>2. ASSUME NEW m \in Messages
        PROVE  Position(m)' \in Nat /\ Position(m)' >= Position(m)
    <2> DEFINE A == {n \in Rows : n < m}
               B == {n \in Rows' : n < m}
    <2>1. B \in SUBSET Messages
      BY DEF Rows
    <2>2. IsFiniteSet(B)
      BY <2>1, FS_Subset, ScanAssumption
    <2>3. A \in SUBSET B
      BY <1>1
    <2>4. Cardinality(A) <= Cardinality(B)
      BY <2>2, <2>3, FS_Subset
    <2>5. Position(m) = Cardinality(A) /\ Position(m)' = Cardinality(B)
      BY DEF Position
    <2>6. Cardinality(A) \in Nat /\ Cardinality(B) \in Nat
      BY <2>2, <2>3, FS_Subset, FS_CardinalityType
    <2> QED BY <2>4, <2>5, <2>6
  <1> QED BY <1>1, <1>2
-----------------------------------------------------------------------------
(* The pass. *)

PassInv ==
  /\ StoreInv
  /\ PassTypeOK
  /\ UnreadLieAhead
  /\ NoGaps
  /\ CompletePassMissesNothing

(* A row that a non-full page leaves out does not exist: an empty page means *)
(* that nothing lies at the offset or beyond.                                *)
LEMMA EmptyPageIsTheEnd ==
  ASSUME PassTypeOK, UnreadLieAhead, total < MaxRows, Page = {}
  PROVE  asked \subseteq read
  <1> SUFFICES ASSUME NEW m \in asked \ read
               PROVE  FALSE
    OBVIOUS
  <1>1. offset \in Nat /\ Limit \in Nat /\ Limit > 0
    BY ScanAssumption DEF PassTypeOK, Limit
  <1>2. m \in Rows /\ Position(m) \in Nat /\ Position(m) >= offset
    BY PositionType DEF UnreadLieAhead
  <1>3. \E n \in Rows : Position(n) = offset
    <2>1. CASE Position(m) = offset
      BY <1>2, <2>1
    <2>2. CASE offset < Position(m)
      BY <1>1, <1>2, <2>2, PositionsAreDense
    <2> QED BY <1>1, <1>2, <2>1, <2>2
  <1>4. PICK n \in Rows : Position(n) = offset
    BY <1>3
  <1>5. n \in Page
    BY <1>1, <1>4 DEF Page
  <1> QED BY <1>5

(* A page takes the rows next in order and leaves the rest beyond it. *)
LEMMA PageStep ==
  ASSUME PassInv, total < MaxRows, UNCHANGED <<vars, asked>>,
         read' = read \cup Page, offset' = offset + Cardinality(Page),
         total' = total + Cardinality(Page), batch' = Page, state' = "paging"
  PROVE  PassTypeOK' /\ UnreadLieAhead' /\ NoGaps'
  <1>1. /\ offset \in Nat /\ Limit \in Nat /\ total \in Nat
        /\ total + Limit <= MaxRows
    BY ScanAssumption DEF PassInv, PassTypeOK, Limit
  <1>2. Cardinality(Page) \in Nat /\ Cardinality(Page) <= Limit
    BY <1>1, PageBound
  <1>3. Rows' = Rows /\ \A m \in Messages : Position(m)' = Position(m)
    BY DEF vars, Rows, Wanted, Position, Canonical
  <1>4. Page \subseteq Rows /\ Rows \subseteq Messages
    BY DEF Page, Rows
  <1>5. ASSUME NEW m \in asked \ read'
        PROVE  /\ m \in Rows /\ Position(m) \in Nat
               /\ Position(m) >= offset + Limit
    <2>1. m \in Rows /\ Position(m) \in Nat /\ Position(m) >= offset
      BY <1>5, PositionType DEF PassInv, UnreadLieAhead
    <2>2. m \notin Page
      BY <1>5
    <2> QED BY <1>1, <2>1, <2>2 DEF Page
  <1>6. PassTypeOK'
    <2>1. offset' \in Nat /\ total' \in 0 .. MaxRows
      BY <1>1, <1>2, ScanAssumption
    <2> QED BY <1>4, <2>1 DEF PassInv, PassTypeOK
  <1>7. UnreadLieAhead'
    <2>1. asked' \cup read' \subseteq Rows'
      BY <1>3, <1>4 DEF PassInv, UnreadLieAhead
    <2>2. ASSUME NEW m \in asked' \ read'
          PROVE  Position(m)' >= offset'
      <3>1. /\ m \in Messages /\ Position(m) \in Nat
            /\ Position(m) >= offset + Limit
        BY <1>4, <1>5, <2>2
      <3>2. Position(m)' = Position(m)
        BY <1>3, <3>1
      <3> QED BY <1>1, <1>2, <3>1, <3>2
    <2> QED BY <2>1, <2>2 DEF UnreadLieAhead
  <1>8. NoGaps'
    <2> SUFFICES ASSUME NEW m \in asked, NEW n \in read', m < n, m \notin read'
                 PROVE  FALSE
      BY DEF NoGaps
    <2>1. CASE n \in read
      BY <2>1 DEF PassInv, NoGaps
    <2>2. CASE n \in Page
      <3>1. n \in Rows /\ Position(n) \in Nat /\ Position(n) < offset + Limit
        BY <2>2, PositionType DEF Page
      <3>2. /\ m \in Rows /\ Position(m) \in Nat
            /\ Position(m) >= offset + Limit
        BY <1>5
      <3>3. Position(m) < Position(n)
        BY <3>1, <3>2, PositionOrder
      <3> QED BY <1>1, <3>1, <3>2, <3>3
    <2> QED BY <2>1, <2>2
  <1> QED BY <1>6, <1>7, <1>8

(* A step of the pass that reads nothing keeps what it knows of the rows. *)
LEMMA IdleStep ==
  ASSUME PassInv, UNCHANGED <<vars, offset, total, read, asked>>
  PROVE  StoreInv' /\ UnreadLieAhead' /\ NoGaps'
  <1>1. Rows' = Rows /\ \A m \in Messages : Position(m)' = Position(m)
    BY DEF vars, Rows, Wanted, Position, Canonical
  <1>2. StoreInv'
    BY NextStoreInv DEF PassInv
  <1>3. UnreadLieAhead'
    BY <1>1 DEF PassInv, UnreadLieAhead, Rows
  <1>4. NoGaps'
    BY DEF PassInv, NoGaps
  <1> QED BY <1>2, <1>3, <1>4

(* Every step of the pass and of the service preserves the invariant. *)
LEMMA PassStep == PassInv /\ [PassNext]_passVars => PassInv'
  <1> SUFFICES ASSUME PassInv, [PassNext]_passVars
               PROVE  PassInv'
    OBVIOUS
  <1>1. CASE Next /\ UNCHANGED scan
    <2>1. UNCHANGED <<state, offset, total, batch, read, asked>>
      BY <1>1 DEF scan
    <2>2. StoreInv'
      BY <1>1, NextStoreInv DEF PassInv
    <2>3. /\ Rows \subseteq Rows'
          /\ \A m \in Messages :
               Position(m)' \in Nat /\ Position(m)' >= Position(m)
      BY <1>1, RowsOnlyGrow DEF PassInv
    <2>4. UnreadLieAhead'
      <3>1. asked' \cup read' \subseteq Rows'
        BY <2>1, <2>3 DEF PassInv, UnreadLieAhead
      <3>2. ASSUME NEW m \in asked' \ read'
            PROVE  Position(m)' >= offset'
        <4>1. /\ m \in Messages /\ Position(m) \in Nat
              /\ Position(m) >= offset /\ offset \in Nat
          BY <2>1, <3>2, PositionType DEF PassInv, UnreadLieAhead, PassTypeOK
        <4>2. Position(m)' \in Nat /\ Position(m)' >= Position(m)
          BY <2>3, <4>1
        <4> QED BY <2>1, <4>1, <4>2
      <3> QED BY <3>1, <3>2 DEF UnreadLieAhead
    <2>5. PassTypeOK' /\ NoGaps' /\ CompletePassMissesNothing'
      BY <2>1 DEF PassInv, PassTypeOK, NoGaps, CompletePassMissesNothing
    <2> QED BY <2>2, <2>4, <2>5 DEF PassInv
  <1>2. CASE BeginPass
    <2>1. /\ state' = "paging" /\ offset' = 0 /\ total' = 0 /\ batch' = {}
          /\ read' = {} /\ asked' = Rows /\ UNCHANGED vars
      BY <1>2 DEF BeginPass, Rows
    <2>2. Rows' = Rows /\ \A m \in Messages : Position(m)' = Position(m)
      BY <2>1 DEF vars, Rows, Wanted, Position, Canonical
    <2>3. StoreInv'
      BY <2>1, NextStoreInv DEF PassInv
    <2>4. PassTypeOK'
      BY <2>1, ScanAssumption DEF PassTypeOK, Rows
    <2>5. UnreadLieAhead'
      <3>1. ASSUME NEW m \in asked' \ read'
            PROVE  Position(m)' >= offset'
        <4>1. m \in Messages
          BY <2>1 DEF Rows
        <4>2. Position(m)' = Position(m)
          BY <2>2, <4>1
        <4>3. Position(m) \in Nat
          BY <4>1, PositionType
        <4>4. offset' = 0
          BY <2>1
        <4> QED BY <4>2, <4>3, <4>4
      <3>2. asked' \cup read' \subseteq Rows'
        BY <2>1, <2>2
      <3> QED BY <3>1, <3>2 DEF UnreadLieAhead
    <2>6. NoGaps' /\ CompletePassMissesNothing'
      BY <2>1 DEF NoGaps, CompletePassMissesNothing
    <2> QED BY <2>3, <2>4, <2>5, <2>6 DEF PassInv
  <1>3. CASE ReadPage
    <2>1. state = "paging" /\ total < MaxRows /\ UNCHANGED <<vars, asked>>
      BY <1>3 DEF ReadPage
    <2>2. CASE Page = {}
      <3>1. state' = "complete" /\ UNCHANGED <<vars, offset, total, batch, read, asked>>
        BY <1>3, <2>2 DEF ReadPage
      <3>2. StoreInv' /\ UnreadLieAhead' /\ NoGaps'
        BY <3>1, IdleStep
      <3>3. asked \subseteq read
        BY <2>1, <2>2, EmptyPageIsTheEnd DEF PassInv
      <3>4. PassTypeOK' /\ CompletePassMissesNothing'
        BY <3>1, <3>3 DEF PassInv, PassTypeOK, CompletePassMissesNothing
      <3> QED BY <3>2, <3>4 DEF PassInv
    <2>3. CASE Page # {}
      <3>1. /\ read' = read \cup Page /\ batch' = Page
            /\ offset' = offset + Cardinality(Page)
            /\ total' = total + Cardinality(Page) /\ state' = "paging"
        BY <1>3, <2>1, <2>3 DEF ReadPage
      <3>2. PassTypeOK' /\ UnreadLieAhead' /\ NoGaps'
        BY <2>1, <3>1, PageStep
      <3>3. StoreInv'
        BY <2>1, NextStoreInv DEF PassInv
      <3>4. CompletePassMissesNothing'
        BY <3>1 DEF CompletePassMissesNothing
      <3> QED BY <3>2, <3>3, <3>4 DEF PassInv
    <2> QED BY <2>2, <2>3
  <1>4. CASE StopAtMax \/ StopEarly
    <2>1. /\ state' \in {"capped", "stopped"} /\ batch' \subseteq batch
          /\ UNCHANGED <<vars, offset, total, read, asked>>
      BY <1>4 DEF StopAtMax, StopEarly
    <2>2. StoreInv' /\ UnreadLieAhead' /\ NoGaps'
      BY <2>1, IdleStep
    <2>3. PassTypeOK' /\ CompletePassMissesNothing'
      BY <2>1 DEF PassInv, PassTypeOK, CompletePassMissesNothing
    <2> QED BY <2>2, <2>3 DEF PassInv
  <1>5. ASSUME NEW m \in Messages, UpsertRow(m)
        PROVE  PassInv'
    <2>1. batch' \subseteq batch /\ UNCHANGED <<vars, state, offset, total, read, asked>>
      BY <1>5 DEF UpsertRow
    <2>2. StoreInv' /\ UnreadLieAhead' /\ NoGaps'
      BY <2>1, IdleStep
    <2>3. PassTypeOK' /\ CompletePassMissesNothing'
      BY <2>1 DEF PassInv, PassTypeOK, CompletePassMissesNothing
    <2> QED BY <2>2, <2>3 DEF PassInv
  <1>6. CASE UNCHANGED passVars
    <2>1. UNCHANGED <<vars, state, offset, total, batch, read, asked>>
      BY <1>6 DEF passVars, scan
    <2>2. StoreInv' /\ UnreadLieAhead' /\ NoGaps'
      BY <2>1, IdleStep
    <2>3. PassTypeOK' /\ CompletePassMissesNothing'
      BY <2>1 DEF PassInv, PassTypeOK, CompletePassMissesNothing
    <2> QED BY <2>2, <2>3 DEF PassInv
  <1> QED BY <1>1, <1>2, <1>3, <1>4, <1>5, <1>6 DEF PassNext

(* The invariant holds before any pass. *)
LEMMA InitPassInv == PassInit => PassInv
  <1> SUFFICES ASSUME PassInit
               PROVE  PassInv
    OBVIOUS
  <1>1. StoreInv
    BY InitStoreInv DEF PassInit
  <1>2. PassTypeOK
    BY ScanAssumption DEF PassInit, PassTypeOK
  <1>3. UnreadLieAhead /\ NoGaps /\ CompletePassMissesNothing
    BY DEF PassInit, UnreadLieAhead, NoGaps, CompletePassMissesNothing
  <1> QED BY <1>1, <1>2, <1>3 DEF PassInv

(* A reindex pass that ends by itself has read every message canonical when  *)
(* it began, and a pass cut short leaves no gap before the last one it read. *)
THEOREM ReindexMissesNothing ==
  PassSpec => [](CompletePassMissesNothing /\ NoGaps /\ PassTypeOK)
  <1>1. PassInv => CompletePassMissesNothing /\ NoGaps /\ PassTypeOK
    BY DEF PassInv
  <1> QED BY <1>1, InitPassInv, PassStep, PTL DEF PassSpec
=============================================================================
