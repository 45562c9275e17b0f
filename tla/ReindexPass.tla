---------------------------- MODULE ReindexPass ----------------------------
(* The reindex tool beside the running service: it pages through an owner's  *)
(* canonical messages with LIMIT and OFFSET, one transaction per page, while *)
(* DurableWork goes on publishing, failing and deleting.                     *)
EXTENDS DurableWork, Naturals, FiniteSets

CONSTANTS ScanOwner,  \* --owner-id
          ScanConvs,  \* --conversation-id: that one, or else every conversation
          ScanSince,  \* --since
          BatchSize,  \* --batch-size
          MaxRows     \* --max

\* Message ids stand for the order ORDER BY created_at, id: a message that
\* commits late may still have been created early.  The role "user" is that role
\* here: the query leaves other roles than user and assistant out.
ASSUME ScanAssumption ==
  /\ Messages \subseteq Nat
  /\ IsFiniteSet(Messages)
  /\ ScanSince \in Nat
  /\ BatchSize \in Nat \ {0}
  /\ MaxRows \in Nat

VARIABLES state,   \* "idle", "paging", or how the pass ended
          offset,  \* rows skipped by the next page
          total,   \* rows processed, counted against MaxRows
          batch,   \* the rest of the current page
          read,    \* messages this pass has read (a history of batch)
          asked    \* messages canonical when the pass began (a history)

scan == <<state, offset, total, batch, read, asked>>
passVars == <<vars, scan>>

\* The filters of get_messages_for_reindex that never change for a row.
Wanted(m) ==
  msg[m].owner = ScanOwner /\ msg[m].conv \in ScanConvs /\ m >= ScanSince

\* A faulty variant of Rows: pages are not filtered by publication.
UnpublishedToo == {m \in Messages : msg[m] # None /\ Wanted(m)}

\* get_messages_for_reindex: the rows, and how many come before one of them.
Rows == {m \in Messages : Canonical(m) /\ Wanted(m)}
Position(m) == Cardinality({n \in Rows : n < m})

Limit == IF BatchSize <= MaxRows - total THEN BatchSize ELSE MaxRows - total

Page == {m \in Rows : offset <= Position(m) /\ Position(m) < offset + Limit}

PassInit ==
  /\ Init
  /\ state = "idle"
  /\ offset = 0 /\ total = 0
  /\ batch = {} /\ read = {} /\ asked = {}

BeginPass ==
  /\ state # "paging"
  /\ state' = "paging"
  /\ offset' = 0 /\ total' = 0
  /\ batch' = {} /\ read' = {}
  /\ asked' = {m \in Messages : Canonical(m) /\ Wanted(m)}
  /\ UNCHANGED vars

\* offset and total advance by the length of a page once it is processed;
\* nothing reads them earlier.
ReadPage ==
  /\ state = "paging" /\ batch = {} /\ total < MaxRows
  /\ IF Page = {}
     THEN state' = "complete" /\ UNCHANGED <<offset, total, batch, read>>
     ELSE /\ batch' = Page
          /\ read' = read \cup Page
          /\ offset' = offset + Cardinality(Page)
          /\ total' = total + Cardinality(Page)
          /\ UNCHANGED state
  /\ UNCHANGED <<vars, asked>>

\* One row's upsert; a failure is logged and the loop goes on.
UpsertRow(m) ==
  /\ m \in batch
  /\ batch' = batch \ {m}
  /\ UNCHANGED <<vars, state, offset, total, read, asked>>

StopAtMax ==
  /\ state = "paging" /\ batch = {} /\ total >= MaxRows
  /\ state' = "capped"
  /\ UNCHANGED <<vars, offset, total, batch, read, asked>>

\* A page cannot be read, or the process stops.
StopEarly ==
  /\ state = "paging"
  /\ state' = "stopped"
  /\ batch' = {}
  /\ UNCHANGED <<vars, offset, total, read, asked>>

PassNext ==
  \/ Next /\ UNCHANGED scan
  \/ BeginPass \/ ReadPage \/ StopAtMax \/ StopEarly
  \/ \E m \in Messages : UpsertRow(m)

PassSpec == PassInit /\ [][PassNext]_passVars

-----------------------------------------------------------------------------
(* Type invariant of a pass, and its bound: never more rows than --max. *)
PassTypeOK ==
  /\ state \in {"idle", "paging", "complete", "capped", "stopped"}
  /\ offset \in Nat /\ total \in 0 .. MaxRows
  /\ batch \subseteq read /\ read \subseteq Messages /\ asked \subseteq Messages

(* A pass that ends by itself has read every message that was canonical when *)
(* it began, however many were published, replayed or deleted on the way:    *)
(* OFFSET paging skips nothing, because canonical rows never go away.        *)
CompletePassMissesNothing == state = "complete" => asked \subseteq read

(* A pass cut short by --max or a failure leaves no gap: of the messages     *)
(* canonical when it began it has read all up to the last one it read.       *)
NoGaps == \A m \in asked, n \in read : m < n => m \in read

\* The inductive part: canonical rows stay, so what the pass has still to read
\* lies at its offset or beyond.
UnreadLieAhead ==
  /\ asked \cup read \subseteq Rows
  /\ \A m \in asked \ read : Position(m) >= offset
=============================================================================
