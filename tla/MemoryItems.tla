----------------------------- MODULE MemoryItems -----------------------------
(* Derived memory items: their status, their correction and supersession     *)
(* links, and the audit events written with every change of status.  Each    *)
(* action is one committed transaction of PostgresStore, which locks every   *)
(* row it names before it looks at any of them.  A refused call (an unknown  *)
(* item, a conflicting link, a second active item for the same sources)      *)
(* rolls back and changes nothing.                                           *)

CONSTANTS Owners,   \* owner_id
          Items,    \* memory_items.id
          Sources,  \* source_ref_hash
          Asked,    \* the statuses callers ask transition for
          None      \* SQL NULL, or no such row

VARIABLES item,  \* memory_items
          told   \* memory_events: the status told by each item's last event
                 \* that tells one

itemVars == <<item, told>>

Statuses == {"active", "parked", "stale", "contradicted", "corrected",
             "invalidated", "superseded", "expired", "retracted",
             "forgotten_or_demoted", "rebuilding"}
Promotions == {"candidate", "promoted", "suppressed", "decayed"}

ItemRow == [owner : Owners, source : Sources, status : Statuses,
            promotion : Promotions, supersedes : Items \cup {None},
            superseded_by : Items \cup {None}]

ASSUME ItemAssumption ==
  /\ None \notin Items \cup Statuses
  /\ None \notin ItemRow
  /\ Asked \subseteq Statuses

-----------------------------------------------------------------------------
(* Faulty variants of definitions below, used by no action. *)

\* transition forgets to look whether the link is already taken.
AnyLink(link, n) == TRUE

\* Supersession without naming the replacement is accepted.
OnlyCorrections == {"corrected"}

\* The item a correction replaces is not audited.
Unaudited(r) == told[r]

\* The durable status wins over the replacement link.
StatusFirst(row) ==
  CASE row.promotion = "decayed" -> "forgotten_or_demoted"
    [] row.status \in {"active", "parked", "stale", "corrected"} -> row.status
    [] OTHER -> "superseded"

-----------------------------------------------------------------------------
(* What the transactions read. *)

OwnItem(m, o) == item[m] # None /\ item[m].owner = o

\* The unique index on (owner_id, source_ref_hash) WHERE status = 'active'
\* lets a row in.
NoneActive(o, h) == \A n \in Items :
  OwnItem(n, o) /\ item[n].source = h => item[n].status # "active"

\* A link column may be set to n: it is empty or names n already.
Linkable(link, n) == link \in {None, n}

\* The statuses transition refuses without related_memory_id.
NeedsRelated == {"corrected", "superseded"}

\* Freshness as readers see it: effective_freshness_state.
Freshness(row) ==
  LET linked == row.superseded_by # None
  IN  CASE row.promotion = "decayed" -> "forgotten_or_demoted"
        [] row.promotion # "decayed" /\ row.status = "contradicted" ->
             IF row.supersedes # None \/ linked
             THEN "corrected" ELSE "forgotten_or_demoted"
        [] row.promotion # "decayed" /\ row.status # "contradicted" ->
             IF linked \/ row.status = "superseded" THEN "superseded"
             ELSE CASE row.status \in {"active", "parked", "stale", "corrected"}
                         -> row.status
                    [] row.status = "expired" -> "stale"
                    [] row.status = "rebuilding" -> "unknown_freshness"
                    [] OTHER -> "forgotten_or_demoted"

-----------------------------------------------------------------------------
(* What the transactions write. *)

\* A correction audits the item it replaces if that changes its status.
RelatedTold(r) == IF item[r].status = "superseded" THEN told[r] ELSE "superseded"

NewRow(o, h, s, p, old) ==
  [owner |-> o, source |-> h, status |-> s, promotion |-> p,
   supersedes |-> old, superseded_by |-> None]

ItemInit ==
  /\ item = [m \in Items |-> None]
  /\ told = [m \in Items |-> None]

\* promote_memory_item without a predecessor, no active item for the sources.
Promote(m, o, h) ==
  /\ item[m] = None
  /\ NoneActive(o, h)
  /\ item' = [item EXCEPT ![m] = NewRow(o, h, "active", "promoted", None)]
  /\ told' = [told EXCEPT ![m] = "active"]

\* The same with an active item: it is updated, its links and status stay.
PromoteAgain(m) ==
  /\ item[m] # None /\ item[m].status = "active"
  /\ item' = [item EXCEPT ![m].promotion = "promoted"]
  /\ UNCHANGED told

\* promote_memory_item with supersedes_memory_id: the row is inserted before
\* its predecessor is retired, so the predecessor still counts for the index.
PromoteOver(m, old, o, h) ==
  /\ item[m] = None
  /\ OwnItem(old, o)
  /\ item[old].superseded_by = None
  /\ NoneActive(o, h)
  /\ item' = [item EXCEPT
       ![m] = NewRow(o, h, "active", "promoted", old),
       ![old].status = "superseded", ![old].superseded_by = m]
  /\ told' = [told EXCEPT ![m] = "active",
                          ![old] = "superseded"]

\* record_memory_decision: evaluation suppressed or deferred a candidate.
Decide(m, o, h, s, p) ==
  /\ item[m] = None
  /\ <<s, p>> \in {<<"forgotten_or_demoted", "suppressed">>,
                   <<"parked", "candidate">>}
  /\ item' = [item EXCEPT ![m] = NewRow(o, h, s, p, None)]
  /\ told' = [told EXCEPT ![m] = s]

\* decay_memory_item; faint: the salience falls to 0.2 or below.
Decay(m, demote, faint) ==
  LET s == IF demote THEN "forgotten_or_demoted" ELSE "stale"
  IN  /\ item[m] # None
      /\ item' = [item EXCEPT ![m].status = s,
           ![m].promotion = IF demote \/ faint THEN "decayed" ELSE @]
      /\ told' = [told EXCEPT ![m] = s]

\* transition_memory_item to a status that names no other item.
Move(m, s) ==
  /\ item[m] # None
  /\ s \notin NeedsRelated
  /\ item[m].status # s
  /\ s = "active" => NoneActive(item[m].owner, item[m].source)
  /\ item' = [item EXCEPT ![m].status = s]
  /\ told' = [told EXCEPT ![m] = s]

\* transition_memory_item to "corrected": m corrects and replaces r.
Correct(m, r) ==
  /\ item[m] # None /\ r # m /\ OwnItem(r, item[m].owner)
  /\ Linkable(item[m].supersedes, r)
  /\ Linkable(item[r].superseded_by, m)
  /\ ~ (/\ item[m].status = "corrected" /\ item[m].supersedes = r
        /\ item[r].superseded_by = m /\ item[r].status = "superseded")
  /\ item' = [item EXCEPT
       ![m].status = "corrected", ![m].supersedes = r,
       ![r].status = "superseded", ![r].superseded_by = m]
  /\ told' = [told EXCEPT ![m] = "corrected", ![r] = RelatedTold(r)]

\* transition_memory_item to "superseded" or "contradicted" by r.
Replace(m, s, r) ==
  /\ s \in {"superseded", "contradicted"}
  /\ item[m] # None /\ r # m /\ OwnItem(r, item[m].owner)
  /\ Linkable(item[m].superseded_by, r)
  /\ Linkable(item[r].supersedes, m)
  /\ ~ (/\ item[m].status = s /\ item[m].superseded_by = r
        /\ item[r].supersedes = m)
  /\ item' = [item EXCEPT ![m].status = s, ![m].superseded_by = r,
                          ![r].supersedes = m]
  /\ told' = [told EXCEPT ![m] = s]

ItemNext ==
  \/ \E m \in Items, o \in Owners, h \in Sources :
       \/ Promote(m, o, h)
       \/ \E old \in Items : PromoteOver(m, old, o, h)
       \/ \E s \in Statuses, p \in Promotions : Decide(m, o, h, s, p)
  \/ \E m \in Items :
       \/ PromoteAgain(m)
       \/ \E demote, faint \in BOOLEAN : Decay(m, demote, faint)
       \/ \E s \in Asked : Move(m, s)
       \/ \E r \in Items : Correct(m, r)
       \/ \E s \in Asked, r \in Items : Replace(m, s, r)

ItemSpec == ItemInit /\ [][ItemNext]_itemVars

-----------------------------------------------------------------------------
(* Type invariant, with the index: one active item per owner and sources. *)
ItemTypeOK ==
  /\ item \in [Items -> ItemRow \cup {None}]
  /\ told \in [Items -> Statuses \cup {None}]
  /\ \A m, n \in Items :
       /\ item[m] # None /\ item[m].status = "active"
       /\ OwnItem(n, item[m].owner) /\ item[n].source = item[m].source
       /\ item[n].status = "active"
       => m = n

(* Both ends of a link name each other and have one owner: promotion sets a  *)
(* link from its new end, correction and supersession from either end, in    *)
(* any order, and an item is never replaced by two others.                   *)
LinksAgree ==
  \A m, n \in Items :
    /\ item[m] # None /\ item[m].supersedes = n =>
         OwnItem(n, item[m].owner) /\ item[n].superseded_by = m /\ m # n
    /\ item[m] # None /\ item[m].superseded_by = n =>
         OwnItem(n, item[m].owner) /\ item[n].supersedes = m /\ m # n

(* An item that says it was superseded names its replacement, and one that   *)
(* says it corrects names what it corrects, whatever it was moved to since.  *)
StatusesAreSupported ==
  \A m \in Items : item[m] # None =>
    /\ item[m].status = "superseded" => item[m].superseded_by # None
    /\ item[m].status = "corrected" => item[m].supersedes # None

(* An item that was replaced never reads as current again, although decay    *)
(* and transitions go on changing its durable status.                        *)
ReplacedIsNeverCurrent ==
  \A m \in Items : item[m] # None /\ item[m].superseded_by # None =>
    Freshness(item[m]) \notin {"active", "parked", "stale"}

(* The audit trail tells the status each item has: no transaction changes a  *)
(* status, of the item it is called for or of a related one, unrecorded.     *)
EventsTellStatus ==
  \A m \in Items :
    told[m] = IF item[m] = None THEN None ELSE item[m].status

(* A link once set is kept for good. *)
LinksAreFinal ==
  [][\A m \in Items : item[m] # None =>
       /\ item'[m] # None
       /\ item[m].supersedes # None =>
            item'[m].supersedes = item[m].supersedes
       /\ item[m].superseded_by # None =>
            item'[m].superseded_by = item[m].superseded_by]_itemVars

ItemInv ==
  /\ ItemTypeOK
  /\ LinksAgree
  /\ StatusesAreSupported
  /\ EventsTellStatus
=============================================================================
