---------------------------- MODULE MessageIndex ----------------------------
(* DurableWork composed with the semantic index that the endpoints keep      *)
(* beside it.  Indexing runs after the transaction has committed: the        *)
(* endpoint reads the message back in a second transaction, then writes its  *)
(* vector.  Anything can commit between those steps, the process can stop    *)
(* between them, and a write can fail without failing the call.              *)
EXTENDS DurableWork

VARIABLES queued,  \* messages whose endpoint has yet to read them back
          loaded,  \* <<message, payload>> read back, vector not yet written
          index    \* Qdrant: the payload indexed for each message, or None

indexVars == <<queued, loaded, index>>
allVars == <<vars, indexVars>>

IndexInit ==
  /\ Init
  /\ queued = {}
  /\ loaded = {}
  /\ index = [m \in Messages |-> None]

\* Faulty variant: the row is read back without the publication rule.
AnyRowIndexable(m) == msg[m] # None

\* get_indexable_message: which rows it returns, and what it returns of one.
Indexable(m) == Canonical(m)
Columns(m) == msg[m].payload

(* The endpoints: a transaction of DurableWork, then an indexing task. *)
AppendThenIndex(m, o, c, role, r, p) ==
  /\ AppendMessage(m, o, c, role, r, p)
  /\ queued' = queued \cup {m}
  /\ UNCHANGED <<loaded, index>>

CompleteThenIndex(w, m) ==
  /\ CompleteWork(w, m)
  /\ queued' = queued \cup {m}
  /\ UNCHANGED <<loaded, index>>

\* A replayed append or completion changes no row but indexes once more.
ReplayThenIndex(m) ==
  /\ msg[m] # None
  /\ queued' = queued \cup {m}
  /\ UNCHANGED <<vars, loaded, index>>

\* get_indexable_message, and the indexing policy that may drop the message.
ReadBack(m) ==
  /\ m \in queued
  /\ queued' = queued \ {m}
  /\ \/ Indexable(m) /\ loaded' = loaded \cup {<<m, Columns(m)>>}
     \/ UNCHANGED loaded
  /\ UNCHANGED <<vars, index>>

\* The reindex tool reads canonical rows without any task being queued.
ReindexRead(m) ==
  /\ Indexable(m)
  /\ loaded' = loaded \cup {<<m, Columns(m)>>}
  /\ UNCHANGED <<vars, queued, index>>

\* upsert_message_vector: one point per message id; its failure is swallowed.
Upsert(m, p) ==
  /\ <<m, p>> \in loaded
  /\ loaded' = loaded \ {<<m, p>>}
  /\ index' = [index EXCEPT ![m] = p] \/ UNCHANGED index
  /\ UNCHANGED <<vars, queued>>

\* The process stops: tasks are lost, both stores keep what they hold.
Crash ==
  /\ queued' = {}
  /\ loaded' = {}
  /\ UNCHANGED <<vars, index>>

StoreOnly ==
  /\ \/ \E c \in Convs, o \in Owners : CreateConversation(c, o)
     \/ \E c \in Convs, s \in ConvStates, r \in Convs \cup {None} :
          TransitionConversation(c, s, r)
     \/ \E w \in Works, o \in Owners, c \in Convs, r \in Requests,
           k \in Clients \cup {None} : CreateWork(w, o, c, r, k)
     \/ \E w \in Works : StartWork(w)
     \/ \E w \in Works, f \in FailureCodes : FailWork(w, f)
     \/ \E p \in Reconcilers : BeginReconcile(p) \/ FinishReconcile(p)
                                 \/ AbortReconcile(p)
     \/ \E q \in Claims, m \in Messages : RecordClaim(q, m)
     \/ \E o \in Owners, k \in Clients, w \in Works : SetCurrentWork(o, k, w)
  /\ UNCHANGED indexVars

IndexNext ==
  \/ StoreOnly
  \/ \E m \in Messages, o \in Owners, c \in Convs, role \in Roles,
        r \in Requests \cup {None}, p \in Payloads :
       AppendThenIndex(m, o, c, role, r, p)
  \/ \E w \in Works, m \in Messages : CompleteThenIndex(w, m)
  \/ \E m \in Messages : ReplayThenIndex(m) \/ ReadBack(m) \/ ReindexRead(m)
  \/ \E m \in Messages, p \in Payloads : Upsert(m, p)
  \/ Crash

IndexSpec == IndexInit /\ [][IndexNext]_allVars

-----------------------------------------------------------------------------
(* Type invariant of the index and its tasks. *)
IndexTypeOK ==
  /\ queued \subseteq Messages
  /\ loaded \subseteq Messages \X Payloads
  /\ index \in [Messages -> Payloads \cup {None}]

(* The index never shows a provisional, deleted or replaced message, even    *)
(* when a failure commits between the read-back and the vector write or a    *)
(* deleted message's id is supplied again with another content.              *)
IndexShowsCanonical ==
  \A m \in Messages : index[m] # None =>
    Canonical(m) /\ index[m] = msg[m].payload

(* A point once written is never overwritten with other content, so repeated *)
(* and overlapping tasks are idempotent.                                     *)
IndexIsIdempotent ==
  [][\A m \in Messages : index[m] # None => index'[m] = index[m]]_allVars
=============================================================================
