-------------------------- MODULE DerivedLifecycle --------------------------
(* Invalidation and replay of derived objects that keep their lifecycle in   *)
(* their own metadata: the texts derived from a local file, and proactive    *)
(* suggestions.  A replay reads the row, notes that it rebuilds, derives a   *)
(* candidate from the source as it is then, replaces the row if the          *)
(* candidate differs, and notes the outcome: five transactions, with other   *)
(* replays, retries of the same request and lost calls in between.           *)
EXTENDS Integers, FiniteSets, Sequences

CONSTANTS Replays,     \* concurrent calls of replay_derived that persist
          RequestIds,  \* request_id
          Outputs,     \* what a derivation yields, up to normalized_output_hash
          MaxDerived,     \* bound: a row and its replacements
          Missing,     \* no source: the file or the event is gone
          Refused,     \* a source this service does not derive from
          NoRow        \* no replacement, no predecessor

ASSUME RowsAssumption == MaxDerived \in Nat \ {0} /\ NoRow \notin 1..MaxDerived

VARIABLES derived,     \* the rows, a replacement after what it replaces
          replaying,   \* the replay calls under way
          contended    \* history: <<row, request>> two calls have served at once

lifeVars == <<derived, replaying, contended>>

Kinds     == {"derived_text", "proactive_suggestion"}
Results   == {"identical", "replaced", "unsupported", "failed"}
NoResult  == "none"
EventType == {"invalidated", "rebuilding", "superseded", "rebuild_terminal"}
Event     == [type : EventType, request : RequestIds, result : Results \cup {NoResult},
              replacement : 1..MaxDerived \cup {NoRow}]
Statuses  == {"active", "invalidated", "rebuilding", "superseded"}

\* "lifecycle" is the status the lifecycle carries once it has an event.
DerivedRow == [kind : Kinds, output : Outputs, status : Statuses,
               lifecycle : Statuses \cup {NoRow}, events : SUBSET Event,
               replacement : 1..MaxDerived \cup {NoRow},
               predecessor : 1..MaxDerived \cup {NoRow}, trace : RequestIds \cup {NoRow}]

FirstRow(kind, out) ==
  [kind |-> kind, output |-> out, status |-> "active", lifecycle |-> NoRow,
   events |-> {}, replacement |-> NoRow, predecessor |-> NoRow, trace |-> NoRow]

NoReplay == [pc |-> "idle", row |-> NoRow, request |-> NoRow, result |-> NoResult,
             output |-> NoRow]

LifeInit ==
  /\ \E kind \in Kinds, out \in Outputs : derived = <<FirstRow(kind, out)>>
  /\ replaying = [k \in Replays |-> NoReplay]
  /\ contended = {}

-----------------------------------------------------------------------------
(* append_lifecycle_event                                                   *)

EventOf(type, q, result, d) ==
  [type |-> type, request |-> q, result |-> result, replacement |-> d]

StatusAfter(s, e) ==
  CASE e.type = "superseded" -> "superseded"
    [] e.type \in {"invalidated", "rebuilding"} ->
         IF s \in {"superseded", "invalidated"} THEN s ELSE e.type
    [] e.result = "identical" -> "active"
    [] e.result = "replaced"  -> "superseded"
    [] OTHER -> IF s \in {"superseded", "invalidated"} THEN s ELSE "invalidated"

\* An event of the same type and request is the same event, whatever it says.
\* (Each type but "invalidated" has one reason code; its reasons are one here.)
Noted(r, e) == \E f \in r.events : f.type = e.type /\ f.request = e.request

AppendEvent(r, e) ==
  LET s == StatusAfter(IF r.lifecycle = NoRow THEN r.status ELSE r.lifecycle, e)
  IN  IF Noted(r, e) THEN r
      ELSE [r EXCEPT !.status = s, !.lifecycle = s, !.events = @ \cup {e},
                     !.replacement = IF e.replacement = NoRow THEN @ ELSE e.replacement]

TerminalOf(d, q) ==
  {e \in derived[d].events : e.type = "rebuild_terminal" /\ e.request = q}

\* Faulty variants: the predecessor is not checked again under its lock; a
\* replacement leaves the outcome to be noted later.
StillCurrent(d) == TRUE
SupersedeOnly(d, q, n) == AppendEvent(derived[d], EventOf("superseded", q, NoResult, n))

-----------------------------------------------------------------------------
\* invalidate_derived: one locked read and update of the row.
Invalidate(d, q) ==
  /\ d \in DOMAIN derived
  /\ derived' = [derived EXCEPT ![d] =
                   AppendEvent(@, EventOf("invalidated", q, NoResult, NoRow))]
  /\ UNCHANGED <<replaying, contended>>

\* A request that has its outcome is answered with it; an unsupported version
\* is refused; what only validates changes nothing.  The rest starts.
BeginReplay(k, d, q) ==
  /\ replaying[k] = NoReplay /\ d \in DOMAIN derived
  /\ TerminalOf(d, q) = {}
  /\ replaying' = [replaying EXCEPT ![k] =
                     [NoReplay EXCEPT !.pc = "start", !.row = d, !.request = q]]
  /\ contended' = contended \cup {p \in {<<d, q>>} :
       \E l \in Replays : replaying[l].row = d /\ replaying[l].request = q}
  /\ UNCHANGED derived

StartRebuild(k) ==
  LET c == replaying[k] IN
  /\ c.pc = "start"
  /\ derived' = [derived EXCEPT ![c.row] =
                   AppendEvent(@, EventOf("rebuilding", c.request, NoResult, NoRow))]
  /\ replaying' = [replaying EXCEPT ![k].pc = "build"]
  /\ UNCHANGED contended

\* The text of the file as it is now, chunked and compared with the row's.
OutcomeOfText(r, v) ==
  CASE v = Missing -> "failed"
    [] v = Refused -> "unsupported"
    [] v = r.output -> "identical"
    [] OTHER -> "replaced"

\* reevaluate_proactive_candidate: a rule that no longer triggers is refused,
\* and a suggestion that would differ is not replaced.
OutcomeOfSuggestion(r, v) ==
  CASE v = Missing -> "failed"
    [] v = r.output -> "identical"
    [] OTHER -> "unsupported"

Outcome(r, v) == IF r.kind = "derived_text" THEN OutcomeOfText(r, v)
                 ELSE OutcomeOfSuggestion(r, v)

\* The file, or the event log, is whatever it is at that moment: v.
BuildCandidate(k, v) ==
  LET c   == replaying[k]
      res == Outcome(derived[c.row], v)
  IN /\ c.pc = "build"
     /\ replaying' = [replaying EXCEPT ![k] =
          [c EXCEPT !.pc = IF res = "replaced" THEN "replace" ELSE "finalize",
                    !.result = res, !.output = v]]
     /\ UNCHANGED <<derived, contended>>

-----------------------------------------------------------------------------
(* replace_derived_text_atomically, under the predecessor's row lock        *)

Current(d) == derived[d].status # "superseded" /\ derived[d].replacement = NoRow

Replacement(d, q, out) ==
  [FirstRow(derived[d].kind, out) EXCEPT !.predecessor = d, !.trace = q]

Superseded(d, q, n) ==
  AppendEvent(AppendEvent(derived[d], EventOf("superseded", q, NoResult, n)),
              EventOf("rebuild_terminal", q, "replaced", n))

ReplaceText(k) ==
  LET c == replaying[k]
      n == Len(derived) + 1
  IN /\ c.pc = "replace" /\ Current(c.row) /\ n <= MaxDerived
     /\ \A e \in TerminalOf(c.row, c.request) : e.result # "replaced"
     /\ derived' = Append([derived EXCEPT ![c.row] = Superseded(c.row, c.request, n)],
                          Replacement(c.row, c.request, c.output))
     /\ replaying' = [replaying EXCEPT ![k].pc = "finalize"]
     /\ UNCHANGED contended

\* The request has replaced the row already: its replacement is returned.
ReturnReplacement(k) ==
  LET c == replaying[k] IN
  /\ c.pc = "replace"
  /\ \E e \in TerminalOf(c.row, c.request) : e.result = "replaced"
  /\ replaying' = [replaying EXCEPT ![k].pc = "finalize"]
  /\ UNCHANGED <<derived, contended>>

\* predecessor_not_current, or the insert fails: nothing is written.
RefuseReplacement(k) ==
  LET c == replaying[k] IN
  /\ c.pc = "replace"
  /\ \A e \in TerminalOf(c.row, c.request) : e.result # "replaced"
  /\ replaying' = [replaying EXCEPT ![k].pc = "finalize", ![k].result = "failed"]
  /\ UNCHANGED <<derived, contended>>

FinalizeReplay(k) ==
  LET c == replaying[k] IN
  /\ c.pc = "finalize"
  /\ derived' = [derived EXCEPT ![c.row] =
                   AppendEvent(@, EventOf("rebuild_terminal", c.request, c.result,
                     IF c.result = "replaced" THEN derived[c.row].replacement ELSE NoRow))]
  /\ replaying' = [replaying EXCEPT ![k] = NoReplay]
  /\ UNCHANGED contended

\* A later evaluation of a suggestion's event upserts the suggestion and its
\* evidence, the lifecycle in it included.
Reevaluate(d, out) ==
  /\ d \in DOMAIN derived /\ derived[d].kind = "proactive_suggestion"
  /\ derived' = [derived EXCEPT ![d] = FirstRow("proactive_suggestion", out)]
  /\ UNCHANGED <<replaying, contended>>

AbandonReplay(k) ==
  /\ replaying[k] # NoReplay
  /\ replaying' = [replaying EXCEPT ![k] = NoReplay]
  /\ UNCHANGED <<derived, contended>>

LifeNext ==
  \/ \E d \in 1..MaxDerived, q \in RequestIds : Invalidate(d, q)
  \/ \E d \in 1..MaxDerived, out \in Outputs : Reevaluate(d, out)
  \/ \E k \in Replays : \/ \E d \in 1..MaxDerived, q \in RequestIds : BeginReplay(k, d, q)
                        \/ \E v \in Outputs \cup {Missing, Refused} : BuildCandidate(k, v)
                        \/ StartRebuild(k) \/ ReplaceText(k)
                        \/ ReturnReplacement(k) \/ RefuseReplacement(k)
                        \/ FinalizeReplay(k) \/ AbandonReplay(k)

LifeSpec == LifeInit /\ [][LifeNext]_lifeVars

-----------------------------------------------------------------------------
(* Properties.                                                              *)

\* Rows, events and calls hold what their columns allow.
LifeTypeOK ==
  /\ derived \in Seq(DerivedRow)
  /\ \A k \in Replays : replaying[k] = NoReplay \/ replaying[k].row \in DOMAIN derived

\* However replays overlap, are retried or lost, a row is replaced at most
\* once, and the two rows name each other.
ReplacedOnce ==
  /\ \A d, e \in DOMAIN derived :
       derived[d].predecessor = derived[e].predecessor /\ d # e
         => derived[d].predecessor = NoRow
  /\ \A d \in DOMAIN derived : LET p == derived[d].predecessor IN
       p # NoRow => /\ p < d /\ derived[p].replacement = d
                    /\ \E e \in derived[p].events : e.type = "superseded"

\* A request that no second call has served at the same time is told what it
\* did: its outcome is "replaced" exactly when it has made the replacement, so
\* a retry after a lost call neither repeats it nor reports another outcome.
OutcomeIsTold ==
  \A d \in DOMAIN derived, q \in RequestIds :
    <<d, q>> \notin contended =>
      ((\E n \in DOMAIN derived : derived[n].predecessor = d /\ derived[n].trace = q)
         <=> (\E e \in TerminalOf(d, q) : e.result = "replaced"))

-----------------------------------------------------------------------------
(* What a replay under way relies on; the proofs use it.                    *)

Replay == [pc : {"idle", "start", "build", "replace", "finalize"},
           row : 1..MaxDerived \cup {NoRow}, request : RequestIds \cup {NoRow},
           result : Results \cup {NoResult}, output : Outputs \cup {Missing, Refused, NoRow}]

\* The request's outcome on the row is that it has replaced it; and it has.
Told(d, q) == \E e \in TerminalOf(d, q) : e.result = "replaced"
Made(d, q) == \E n \in DOMAIN derived : derived[n].predecessor = d /\ derived[n].trace = q

\* Only texts replace and are replaced; what is superseded has a replacement;
\* and no request is told of a replacement that nobody has made.
RowsAgree ==
  /\ Len(derived) <= MaxDerived
  /\ \A n \in DOMAIN derived : LET p == derived[n].predecessor IN
       p # NoRow => /\ p \in 1..(n - 1) /\ derived[p].replacement = n
                    /\ derived[n].kind = "derived_text" /\ derived[p].kind = "derived_text"
                    /\ \E e \in derived[p].events : e.type = "superseded"
  /\ \A d \in DOMAIN derived :
       (\E e \in derived[d].events : e.type = "superseded") => derived[d].replacement # NoRow
  /\ \A d \in DOMAIN derived, q \in RequestIds : Told(d, q) => Made(d, q)

\* A call that is to note a replacement finds an outcome noted; and until it has
\* an outcome, nobody has noted one for a call without company.
ReplayOK(c) ==
  c.pc # "idle" =>
    /\ c.row \in DOMAIN derived /\ c.request \in RequestIds
    /\ c.result = "replaced" => derived[c.row].kind = "derived_text"
    /\ c.pc = "replace" => c.result = "replaced" /\ c.output \in Outputs
    /\ c.pc = "finalize" => /\ c.result \in Results
                            /\ c.result = "replaced" => TerminalOf(c.row, c.request) # {}
    /\ c.pc # "finalize" /\ <<c.row, c.request>> \notin contended
         => TerminalOf(c.row, c.request) = {}

OneReplayEach ==
  \A k, l \in Replays :
    replaying[k].pc # "idle" /\ replaying[l].pc # "idle" /\ k # l
      /\ replaying[k].row = replaying[l].row /\ replaying[k].request = replaying[l].request
        => <<replaying[k].row, replaying[k].request>> \in contended

LifeInv ==
  /\ derived \in Seq(DerivedRow) /\ RowsAgree /\ OutcomeIsTold
  /\ replaying \in [Replays -> Replay]
  /\ \A k \in Replays : replaying[k] = NoReplay \/ replaying[k].pc # "idle"
  /\ \A k \in Replays : ReplayOK(replaying[k])
  /\ OneReplayEach
=============================================================================
