------------------------- MODULE Derivations_proofs -------------------------
(* Replays of derived rows, suggestions and migration runs, for any number   *)
(* of rows, requests, logs, runners, checkouts and versions.                 *)
EXTENDS SchemaMigrations, DerivedLifecycle, Initiative, SequenceTheorems, FiniteSetTheorems,
        TLAPS

(* DerivedLifecycle.                                                         *)

(* An event is noted once, and changes nothing but the status, the events    *)
(* and the replacement.                                                      *)
LEMMA NotingAnEvent ==
  ASSUME NEW r \in DerivedRow, NEW e \in Event
  PROVE  /\ AppendEvent(r, e) \in DerivedRow
         /\ AppendEvent(r, e).kind = r.kind
         /\ AppendEvent(r, e).predecessor = r.predecessor
         /\ AppendEvent(r, e).trace = r.trace
         /\ Noted(r, e) => AppendEvent(r, e) = r
         /\ ~Noted(r, e) => AppendEvent(r, e).events = r.events \cup {e}
         /\ AppendEvent(r, e).replacement =
              IF Noted(r, e) \/ e.replacement = NoRow THEN r.replacement ELSE e.replacement
  <1>1. PICK s : s = StatusAfter(IF r.lifecycle = NoRow THEN r.status ELSE r.lifecycle, e)
    OBVIOUS
  <1>2. s \in Statuses
    <2>1. PICK t : t = IF r.lifecycle = NoRow THEN r.status ELSE r.lifecycle
      OBVIOUS
    <2>2. t \in Statuses
      BY <2>1 DEF DerivedRow
    <2> QED BY <1>1, <2>1, <2>2 DEF StatusAfter, Statuses, Event, EventType
  <1>3. PICK p : p = IF e.replacement = NoRow THEN r.replacement ELSE e.replacement
    OBVIOUS
  <1>4. p \in 1..MaxDerived \cup {NoRow}
    BY <1>3 DEF DerivedRow, Event
  <1>5. ~Noted(r, e) =>
          AppendEvent(r, e) = [r EXCEPT !.status = s, !.lifecycle = s,
                                        !.events = @ \cup {e}, !.replacement = p]
    BY <1>1, <1>3 DEF AppendEvent
  <1>6. Noted(r, e) => AppendEvent(r, e) = r
    BY DEF AppendEvent
  <1>7. CASE Noted(r, e)
    BY <1>6, <1>7
  <1>8. CASE ~Noted(r, e)
    <2>1. PICK n : n = [r EXCEPT !.status = s, !.lifecycle = s,
                                 !.events = @ \cup {e}, !.replacement = p]
      OBVIOUS
    <2>2. /\ n.kind = r.kind /\ n.output = r.output /\ n.predecessor = r.predecessor
          /\ n.trace = r.trace /\ n.events = r.events \cup {e} /\ n.replacement = p
          /\ n \in DerivedRow
      BY <1>2, <1>4, <2>1 DEF DerivedRow
    <2>3. AppendEvent(r, e) = n
      BY <1>5, <1>8, <2>1
    <2> QED BY <1>3, <1>8, <2>2, <2>3
  <1> QED BY <1>7, <1>8

(* What the rows are. *)
LEMMA DerivedRowFacts ==
  ASSUME LifeInv
  PROVE  /\ Len(derived) \in Nat /\ Len(derived) <= MaxDerived
         /\ DOMAIN derived = 1 .. Len(derived)
         /\ \A d \in DOMAIN derived : derived[d] \in DerivedRow /\ d \in 1..MaxDerived /\ d # NoRow
  <1>1. /\ Len(derived) \in Nat /\ DOMAIN derived = 1 .. Len(derived)
        /\ \A d \in DOMAIN derived : derived[d] \in DerivedRow
    BY LenProperties, ElementOfSeq DEF LifeInv
  <1> QED BY <1>1, RowsAssumption DEF LifeInv, RowsAgree

(* An event that is noted on a row without a replacement leaves the rows in  *)
(* agreement.                                                                *)
LEMMA RowsStay ==
  ASSUME LifeInv, NEW d \in DOMAIN derived, NEW e \in Event, e.type # "superseded",
         derived' = [derived EXCEPT ![d] = AppendEvent(derived[d], e)],
         e.result = "replaced" \/ e.replacement # NoRow => Noted(derived[d], e),
         UNCHANGED contended
  PROVE  /\ derived' \in Seq(DerivedRow) /\ RowsAgree' /\ OutcomeIsTold'
         /\ DOMAIN derived' = DOMAIN derived
         /\ \A x \in DOMAIN derived : derived'[x].kind = derived[x].kind
         /\ \A x \in DOMAIN derived :
              /\ derived[x].events \subseteq derived'[x].events
              /\ \A f \in derived'[x].events \ derived[x].events : x = d /\ f = e
  <1>1. PICK r : r = AppendEvent(derived[d], e)
    OBVIOUS
  <1>2. /\ r \in DerivedRow /\ r.kind = derived[d].kind
        /\ r.predecessor = derived[d].predecessor /\ r.trace = derived[d].trace
        /\ r.replacement = derived[d].replacement
        /\ \/ r.events = derived[d].events
           \/ r.events = derived[d].events \cup {e} /\ e.result # "replaced"
    <2>1. derived[d] \in DerivedRow
      BY DerivedRowFacts
    <2>2. CASE Noted(derived[d], e)
      BY <1>1, <2>1, <2>2, NotingAnEvent
    <2>3. CASE ~Noted(derived[d], e)
      BY <1>1, <2>1, <2>3, NotingAnEvent
    <2> QED BY <2>2, <2>3
  <1>3. /\ derived' \in Seq(DerivedRow) /\ Len(derived') = Len(derived)
        /\ DOMAIN derived' = DOMAIN derived
    BY <1>1, <1>2, ExceptSeq, LenProperties, DerivedRowFacts DEF LifeInv
  <1>4. \A x \in DOMAIN derived : derived'[x] = IF x = d THEN r ELSE derived[x]
    BY <1>1, DerivedRowFacts DEF LifeInv
  <1>5. \A x \in DOMAIN derived :
          /\ derived'[x].kind = derived[x].kind
          /\ derived'[x].predecessor = derived[x].predecessor
          /\ derived'[x].trace = derived[x].trace
          /\ derived'[x].replacement = derived[x].replacement
          /\ derived[x].events \subseteq derived'[x].events
          /\ \A f \in derived'[x].events :
               f \in derived[x].events \/ (x = d /\ f = e /\ e.result # "replaced")
    BY <1>2, <1>4
  <1>7. \A x \in DOMAIN derived : \A q : Told(x, q)' <=> Told(x, q)
    BY <1>5 DEF Told, TerminalOf
  <1>8. \A x \in DOMAIN derived : \A q : Made(x, q)' <=> Made(x, q)
    BY <1>3, <1>5 DEF Made
  <1>9. RowsAgree'
    BY <1>3, <1>5, <1>7, <1>8, DerivedRowFacts DEF LifeInv, RowsAgree
  <1>10. OutcomeIsTold'
    <2>1. \A x \in DOMAIN derived, q \in RequestIds :
            <<x, q>> \notin contended => (Made(x, q) <=> Told(x, q))
      BY DEF LifeInv, OutcomeIsTold, Told, Made
    <2>2. \A x \in DOMAIN derived', q \in RequestIds :
            <<x, q>> \notin contended' => (Made(x, q)' <=> Told(x, q)')
      BY <1>3, <1>7, <1>8, <2>1
    <2> QED BY <2>2 DEF OutcomeIsTold, Told, Made
  <1> QED BY <1>3, <1>5, <1>9, <1>10

(* A call relies on its own row's kind and outcomes only. *)
LEMMA ReplayRelies ==
  ASSUME NEW c, ReplayOK(c), DOMAIN derived \subseteq DOMAIN derived',
         contended \subseteq contended',
         c.pc # "idle" =>
           /\ derived'[c.row].kind = derived[c.row].kind
           /\ derived[c.row].kind = "derived_text" =>
                (TerminalOf(c.row, c.request) # {} => TerminalOf(c.row, c.request)' # {})
           /\ \/ TerminalOf(c.row, c.request) = {} => TerminalOf(c.row, c.request)' = {}
              \/ <<c.row, c.request>> \in contended
              \/ c.pc = "finalize"
  PROVE  ReplayOK(c)'
  BY DEF ReplayOK

(* What a replay that is under way holds.                                    *)
LEMMA ReplayFacts ==
  ASSUME LifeInv, NEW k \in Replays
  PROVE  /\ replaying \in [Replays -> Replay] /\ replaying[k] \in Replay
         /\ ReplayOK(replaying[k])
         /\ NoReplay \in Replay /\ NoReplay.pc = "idle" /\ NoReplay.row = NoRow
         /\ replaying[k].pc # "idle" =>
              /\ replaying[k].pc \in {"start", "build", "replace", "finalize"}
              /\ replaying[k].row \in DOMAIN derived /\ replaying[k].request \in RequestIds
  <1>1. NoReplay \in Replay /\ NoReplay.pc = "idle" /\ NoReplay.row = NoRow
    BY DEF Replay, NoReplay, NoResult
  <1>2. replaying \in [Replays -> Replay] /\ replaying[k] \in Replay /\ ReplayOK(replaying[k])
    BY DEF LifeInv
  <1> QED BY <1>1, <1>2 DEF ReplayOK, Replay

(* A call that goes on, or ends, while the rows only note events. *)
LEMMA ReplayGoesOn ==
  ASSUME LifeInv, NEW k \in Replays, NEW c \in Replay,
         replaying' = [replaying EXCEPT ![k] = c],
         c = NoReplay \/
           /\ c.pc # "idle" /\ replaying[k].pc # "idle"
           /\ c.row = replaying[k].row /\ c.request = replaying[k].request,
         ReplayOK(c)',
         DOMAIN derived \subseteq DOMAIN derived', contended' = contended,
         \A x \in DOMAIN derived : derived'[x].kind = derived[x].kind,
         \A x \in DOMAIN derived : derived[x].events \subseteq derived'[x].events,
         \A x \in DOMAIN derived : \A f \in derived'[x].events \ derived[x].events :
           f.type = "rebuild_terminal" =>
             /\ replaying[k].pc # "idle"
             /\ x = replaying[k].row /\ f.request = replaying[k].request,
         derived' \in Seq(DerivedRow), RowsAgree', OutcomeIsTold'
  PROVE  LifeInv'
  <1>1. replaying' \in [Replays -> Replay]
    BY ReplayFacts
  <1>2. \A l \in Replays : replaying'[l] = IF l = k THEN c ELSE replaying[l]
    BY ReplayFacts
  <1>3. \A l \in Replays : replaying'[l] = NoReplay \/ replaying'[l].pc # "idle"
    BY <1>2 DEF LifeInv
  <1>4. OneReplayEach'
    BY <1>2, ReplayFacts DEF LifeInv, OneReplayEach
  <1>5. \A l \in Replays : ReplayOK(replaying[l])'
    <2> SUFFICES ASSUME NEW l \in Replays
                 PROVE  ReplayOK(replaying[l])'
      OBVIOUS
    <2>1. CASE l = k
      <3>1. replaying'[l] = c
        BY <1>2, <2>1
      <3> QED BY <3>1 DEF ReplayOK, TerminalOf
    <2>2. CASE l # k
      <3>1. PICK b : b = replaying[l]
        OBVIOUS
      <3>2. ReplayOK(b) /\ replaying'[l] = b
        BY <1>2, <2>2, <3>1 DEF LifeInv
      <3>3. b.pc # "idle" => b.row \in DOMAIN derived
        BY <3>1, ReplayFacts
      <3>4. b.pc # "idle" /\ TerminalOf(b.row, b.request)' # TerminalOf(b.row, b.request)
              => <<b.row, b.request>> \in contended
        BY <2>2, <3>1, <3>3 DEF LifeInv, OneReplayEach, TerminalOf
      <3>5. b.pc # "idle" => TerminalOf(b.row, b.request) \subseteq TerminalOf(b.row, b.request)'
        BY <3>3 DEF TerminalOf
      <3>6. ReplayOK(b)'
        BY <3>2, <3>3, <3>4, <3>5, ReplayRelies
      <3> QED BY <3>2, <3>6 DEF ReplayOK, TerminalOf
    <2> QED BY <2>1, <2>2
  <1> QED BY <1>1, <1>3, <1>4, <1>5 DEF LifeInv

(* No call moves, and none sees its row's kind or outcomes change. *)
LEMMA ReplaysStay ==
  ASSUME LifeInv, replaying' = replaying, contended' = contended,
         DOMAIN derived \subseteq DOMAIN derived',
         \A x \in DOMAIN derived : derived'[x].kind = derived[x].kind,
         \A x \in DOMAIN derived : \A f \in derived'[x].events \ derived[x].events :
           f.type # "rebuild_terminal",
         \A x \in DOMAIN derived : derived[x].kind = "derived_text" =>
           derived[x].events \subseteq derived'[x].events,
         derived' \in Seq(DerivedRow), RowsAgree', OutcomeIsTold'
  PROVE  LifeInv'
  <1>1. \A l \in Replays : ReplayOK(replaying[l])'
    <2> SUFFICES ASSUME NEW l \in Replays
                 PROVE  ReplayOK(replaying[l])'
      OBVIOUS
    <2>1. PICK b : b = replaying[l]
      OBVIOUS
    <2>2. ReplayOK(b) /\ replaying'[l] = b /\ (b.pc # "idle" => b.row \in DOMAIN derived)
      BY <2>1, ReplayFacts
    <2>3. b.pc # "idle" =>
            /\ derived[b.row].kind = "derived_text" =>
                 TerminalOf(b.row, b.request) \subseteq TerminalOf(b.row, b.request)'
            /\ TerminalOf(b.row, b.request) = {} => TerminalOf(b.row, b.request)' = {}
      BY <2>2 DEF TerminalOf
    <2>4. ReplayOK(b)'
      BY <2>2, <2>3, ReplayRelies
    <2> QED BY <2>2, <2>4 DEF ReplayOK, TerminalOf
  <1> QED BY <1>1 DEF LifeInv, OneReplayEach

(* invalidate_derived notes its event on one row.                            *)
LEMMA InvalidateKeeps ==
  ASSUME LifeInv, NEW d, NEW q \in RequestIds, Invalidate(d, q)
  PROVE  LifeInv'
  <1>1. PICK e : e = EventOf("invalidated", q, NoResult, NoRow)
    OBVIOUS
  <1>2. /\ e \in Event /\ e.type = "invalidated" /\ e.result = NoResult /\ e.replacement = NoRow
        /\ NoResult # "replaced"
    BY <1>1 DEF EventOf, Event, EventType, NoResult
  <1>3. /\ d \in DOMAIN derived /\ UNCHANGED <<replaying, contended>>
        /\ derived' = [derived EXCEPT ![d] = AppendEvent(derived[d], e)]
    BY <1>1 DEF Invalidate
  <1>4. e.result = "replaced" \/ e.replacement # NoRow => Noted(derived[d], e)
    BY <1>2
  <1>5. /\ derived' \in Seq(DerivedRow) /\ RowsAgree' /\ OutcomeIsTold'
        /\ DOMAIN derived' = DOMAIN derived
        /\ \A x \in DOMAIN derived :
             /\ derived'[x].kind = derived[x].kind
             /\ derived[x].events \subseteq derived'[x].events
             /\ \A f \in derived'[x].events \ derived[x].events : f = e
    BY <1>2, <1>3, <1>4, RowsStay
  <1> QED BY <1>2, <1>3, <1>5, ReplaysStay

(* What a suggestion's evaluation writes anew is not replaced and replaces   *)
(* nothing.                                                                  *)
LEMMA ReevaluateKeeps ==
  ASSUME LifeInv, NEW d, NEW out \in Outputs, Reevaluate(d, out)
  PROVE  LifeInv'
  <1>1. PICK r : r = FirstRow("proactive_suggestion", out)
    OBVIOUS
  <1>2. /\ r \in DerivedRow /\ r.kind = "proactive_suggestion" /\ r.predecessor = NoRow
        /\ r.replacement = NoRow /\ r.events = {} /\ r.trace = NoRow
    BY <1>1 DEF FirstRow, DerivedRow, Kinds, Statuses
  <1>3. /\ d \in DOMAIN derived /\ derived[d].kind = "proactive_suggestion"
        /\ derived' = [derived EXCEPT ![d] = r] /\ UNCHANGED <<replaying, contended>>
    BY <1>1 DEF Reevaluate
  <1>4. /\ derived' \in Seq(DerivedRow) /\ Len(derived') = Len(derived)
        /\ DOMAIN derived' = DOMAIN derived
    BY <1>2, <1>3, ExceptSeq, LenProperties, DerivedRowFacts DEF LifeInv
  <1>5. \A x \in DOMAIN derived : derived'[x] = IF x = d THEN r ELSE derived[x]
    BY <1>3, DerivedRowFacts DEF LifeInv
  <1>6. \A n \in DOMAIN derived : derived[n].predecessor # NoRow =>
          /\ n # d /\ derived[n].predecessor # d
          /\ derived[n].predecessor \in 1..(n - 1)
    BY <1>3 DEF LifeInv, RowsAgree
  <1>7. \A n \in DOMAIN derived :
          /\ derived'[n].predecessor = derived[n].predecessor
          /\ derived'[n].kind = derived[n].kind
          /\ n # d => derived'[n] = derived[n]
          /\ derived[n].predecessor # NoRow => derived'[n].trace = derived[n].trace
    BY <1>2, <1>3, <1>5, <1>6
  <1>8. \A x \in DOMAIN derived : \A q : Made(x, q)' <=> Made(x, q)
    BY <1>4, <1>7, DerivedRowFacts DEF Made
  <1>9. \A x \in DOMAIN derived : \A q :
          TerminalOf(x, q)' = IF x = d THEN {} ELSE TerminalOf(x, q)
    BY <1>2, <1>5 DEF TerminalOf
  <1>10. \A x \in DOMAIN derived, q \in RequestIds : Told(x, q)' <=> Told(x, q)
    <2> SUFFICES ASSUME NEW x \in DOMAIN derived, NEW q \in RequestIds
                 PROVE  Told(x, q)' <=> Told(x, q)
      OBVIOUS
    <2>1. ~Made(d, q)
      BY <1>3, <1>6, DerivedRowFacts DEF Made
    <2>2. ~Told(d, q)
      BY <1>3, <2>1 DEF LifeInv, RowsAgree
    <2> QED BY <1>9, <2>2 DEF Told
  <1>11. RowsAgree'
    <2>1. \A n \in DOMAIN derived' : LET p == derived'[n].predecessor IN
            p # NoRow => /\ p \in 1..(n - 1) /\ derived'[p].replacement = n
                         /\ derived'[n].kind = "derived_text"
                         /\ derived'[p].kind = "derived_text"
                         /\ \E e \in derived'[p].events : e.type = "superseded"
      <3> SUFFICES ASSUME NEW n \in DOMAIN derived, derived[n].predecessor # NoRow
                   PROVE  LET p == derived[n].predecessor IN
                          /\ p \in 1..(n - 1) /\ derived'[p].replacement = n
                          /\ derived'[n].kind = "derived_text"
                          /\ derived'[p].kind = "derived_text"
                          /\ \E e \in derived'[p].events : e.type = "superseded"
        BY <1>4, <1>7
      <3>1. PICK p : p = derived[n].predecessor
        OBVIOUS
      <3>2. p \in 1..(n - 1) /\ p \in DOMAIN derived /\ p # d /\ n # d
        BY <1>6, <3>1, DerivedRowFacts
      <3> QED BY <1>7, <3>1, <3>2 DEF LifeInv, RowsAgree
    <2>2. \A x \in DOMAIN derived' :
            (\E e \in derived'[x].events : e.type = "superseded")
               => derived'[x].replacement # NoRow
      BY <1>2, <1>4, <1>5 DEF LifeInv, RowsAgree
    <2>3. \A x \in DOMAIN derived', q \in RequestIds : Told(x, q)' => Made(x, q)'
      BY <1>4, <1>8, <1>10 DEF LifeInv, RowsAgree
    <2> QED BY <1>4, <2>1, <2>2, <2>3 DEF LifeInv, RowsAgree
  <1>12. OutcomeIsTold'
    <2>1. \A x \in DOMAIN derived, q \in RequestIds :
            <<x, q>> \notin contended => (Made(x, q) <=> Told(x, q))
      BY DEF LifeInv, OutcomeIsTold, Told, Made
    <2>2. \A x \in DOMAIN derived', q \in RequestIds :
            <<x, q>> \notin contended' => (Made(x, q)' <=> Told(x, q)')
      BY <1>3, <1>4, <1>8, <1>10, <2>1
    <2> QED BY <2>2 DEF OutcomeIsTold, Told, Made
  <1> QED BY <1>2, <1>3, <1>4, <1>5, <1>7, <1>11, <1>12, ReplaysStay

(* A replay starts on a row, or is answered with its outcome.                *)
LEMMA BeginReplayKeeps ==
  ASSUME LifeInv, NEW k \in Replays, NEW d, NEW q \in RequestIds, BeginReplay(k, d, q)
  PROVE  LifeInv'
  <1>1. PICK c : c = [NoReplay EXCEPT !.pc = "start", !.row = d, !.request = q]
    OBVIOUS
  <1>2. /\ replaying[k] = NoReplay /\ d \in DOMAIN derived /\ TerminalOf(d, q) = {}
        /\ replaying' = [replaying EXCEPT ![k] = c] /\ UNCHANGED derived
        /\ contended \subseteq contended'
        /\ \A l \in Replays : replaying[l].row = d /\ replaying[l].request = q
             => <<d, q>> \in contended'
    BY <1>1 DEF BeginReplay
  <1>3. /\ c \in Replay /\ c.pc = "start" /\ c.row = d /\ c.request = q
        /\ c.result = NoResult /\ NoResult # "replaced"
    BY <1>1, <1>2, DerivedRowFacts DEF NoReplay, Replay, NoResult
  <1>4. /\ replaying' \in [Replays -> Replay]
        /\ \A l \in Replays : replaying'[l] = IF l = k THEN c ELSE replaying[l]
    BY <1>2, <1>3, ReplayFacts
  <1>5. \A x, p : TerminalOf(x, p)' = TerminalOf(x, p)
    BY <1>2 DEF TerminalOf
  <1>6. \A l \in Replays : ReplayOK(replaying[l])'
    <2> SUFFICES ASSUME NEW l \in Replays
                 PROVE  ReplayOK(replaying[l])'
      OBVIOUS
    <2>1. PICK b : b = replaying'[l]
      OBVIOUS
    <2>2. ReplayOK(b)'
      <3>1. CASE l = k
        BY <1>2, <1>3, <1>4, <1>5, <2>1, <3>1 DEF ReplayOK
      <3>2. CASE l # k
        <4>1. ReplayOK(b)
          BY <1>4, <2>1, <3>2, ReplayFacts
        <4> QED BY <1>2, <1>5, <4>1, ReplayRelies
      <3> QED BY <3>1, <3>2
    <2> QED BY <2>1, <2>2 DEF ReplayOK, TerminalOf
  <1>7. OneReplayEach'
    BY <1>2, <1>3, <1>4 DEF LifeInv, OneReplayEach
  <1>8. RowsAgree' /\ OutcomeIsTold'
    BY <1>2 DEF LifeInv, RowsAgree, OutcomeIsTold, Told, Made, TerminalOf
  <1> QED BY <1>2, <1>3, <1>4, <1>6, <1>7, <1>8 DEF LifeInv

(* The steps of a call that writes no row. *)
LEMMA ReplayMoves ==
  ASSUME LifeInv, NEW k \in Replays, NEW c \in Replay,
         replaying' = [replaying EXCEPT ![k] = c],
         \/ c = NoReplay
         \/ /\ c.pc # "idle" /\ replaying[k].pc # "idle"
            /\ c.row = replaying[k].row /\ c.request = replaying[k].request,
         ReplayOK(c), UNCHANGED <<derived, contended>>
  PROVE  LifeInv'
  <1>1. \A x, p : TerminalOf(x, p)' = TerminalOf(x, p)
    BY DEF TerminalOf
  <1>2. ReplayOK(c)'
    BY <1>1 DEF ReplayOK
  <1>3. derived' \in Seq(DerivedRow) /\ RowsAgree' /\ OutcomeIsTold'
    BY DEF LifeInv, RowsAgree, OutcomeIsTold, Told, Made, TerminalOf
  <1> QED BY <1>2, <1>3, ReplayGoesOn

(* The candidate is built outside of any transaction.                        *)
LEMMA BuildCandidateKeeps ==
  ASSUME LifeInv, NEW k \in Replays, NEW v \in Outputs \cup {Missing, Refused},
         BuildCandidate(k, v)
  PROVE  LifeInv'
  <1>1. PICK b : b = replaying[k]
    OBVIOUS
  <1>2. PICK res : res = Outcome(derived[b.row], v)
    OBVIOUS
  <1>3. /\ b \in Replay /\ b.pc = "build" /\ ReplayOK(b)
        /\ b.row \in DOMAIN derived /\ b.request \in RequestIds
    BY <1>1, ReplayFacts DEF BuildCandidate
  <1>4. /\ res \in Results
        /\ res = "replaced" => derived[b.row].kind = "derived_text" /\ v \in Outputs
    BY <1>2 DEF Outcome, OutcomeOfText, OutcomeOfSuggestion, Results
  <1>5. PICK c : c = [b EXCEPT !.pc = IF res = "replaced" THEN "replace" ELSE "finalize",
                               !.result = res, !.output = v]
    OBVIOUS
  <1>6. /\ c \in Replay /\ c.pc = (IF res = "replaced" THEN "replace" ELSE "finalize")
        /\ c.row = b.row /\ c.request = b.request /\ c.result = res /\ c.output = v
    BY <1>3, <1>4, <1>5 DEF Replay
  <1>7. ReplayOK(c)
    BY <1>3, <1>4, <1>6 DEF ReplayOK
  <1>8. /\ replaying' = [replaying EXCEPT ![k] = c] /\ UNCHANGED <<derived, contended>>
    BY <1>1, <1>2, <1>5 DEF BuildCandidate
  <1> QED BY <1>1, <1>3, <1>6, <1>7, <1>8, ReplayMoves

(* A replacement that is refused, or there already, and a lost call. *)
LEMMA NoReplacementKeeps ==
  ASSUME LifeInv, NEW k \in Replays,
         ReturnReplacement(k) \/ RefuseReplacement(k) \/ AbandonReplay(k)
  PROVE  LifeInv'
  <1>1. PICK b : b = replaying[k]
    OBVIOUS
  <1>2. /\ b \in Replay /\ ReplayOK(b) /\ UNCHANGED <<derived, contended>>
    BY <1>1, ReplayFacts DEF ReturnReplacement, RefuseReplacement, AbandonReplay
  <1>3. CASE AbandonReplay(k)
    BY <1>2, <1>3, ReplayFacts, ReplayMoves DEF AbandonReplay, ReplayOK
  <1>4. CASE ReturnReplacement(k)
    <2>1. PICK c : c = [b EXCEPT !.pc = "finalize"]
      OBVIOUS
    <2>2. /\ c \in Replay /\ c.pc = "finalize" /\ c.result = b.result
          /\ c.row = b.row /\ c.request = b.request
      BY <1>2, <2>1 DEF Replay
    <2>3. /\ b.pc = "replace" /\ TerminalOf(b.row, b.request) # {}
          /\ replaying' = [replaying EXCEPT ![k] = c]
      BY <1>1, <1>4, <2>1, ReplayFacts DEF ReturnReplacement
    <2>4. ReplayOK(c)
      BY <1>2, <2>2, <2>3 DEF ReplayOK, Results
    <2> QED BY <1>1, <1>2, <2>2, <2>3, <2>4, ReplayMoves
  <1>5. CASE RefuseReplacement(k)
    <2>1. PICK c : c = [b EXCEPT !.pc = "finalize", !.result = "failed"]
      OBVIOUS
    <2>2. /\ c \in Replay /\ c.pc = "finalize" /\ c.result = "failed"
          /\ c.row = b.row /\ c.request = b.request
      BY <1>2, <2>1 DEF Replay, Results
    <2>3. /\ b.pc = "replace"
          /\ replaying' = [replaying EXCEPT ![k] = c]
      BY <1>1, <1>5, <2>1, ReplayFacts DEF RefuseReplacement
    <2>4. ReplayOK(c)
      BY <1>2, <2>2, <2>3 DEF ReplayOK, Results
    <2> QED BY <1>1, <1>2, <2>2, <2>3, <2>4, ReplayMoves
  <1> QED BY <1>3, <1>4, <1>5

(* The transaction that notes the start of the rebuild.                      *)
LEMMA StartRebuildKeeps ==
  ASSUME LifeInv, NEW k \in Replays, StartRebuild(k)
  PROVE  LifeInv'
  <1>1. PICK b : b = replaying[k]
    OBVIOUS
  <1>2. /\ b \in Replay /\ b.pc = "start" /\ ReplayOK(b)
        /\ b.row \in DOMAIN derived /\ b.request \in RequestIds
    BY <1>1, ReplayFacts DEF StartRebuild
  <1>3. PICK e : e = EventOf("rebuilding", b.request, NoResult, NoRow)
    OBVIOUS
  <1>4. /\ e \in Event /\ e.type = "rebuilding" /\ e.result = NoResult /\ e.replacement = NoRow
        /\ NoResult # "replaced"
    BY <1>2, <1>3 DEF EventOf, Event, EventType, NoResult
  <1>5. PICK c : c = [b EXCEPT !.pc = "build"]
    OBVIOUS
  <1>6. /\ c \in Replay /\ c.pc = "build" /\ c.row = b.row /\ c.request = b.request
        /\ c.result = b.result
    BY <1>2, <1>5 DEF Replay
  <1>7. /\ derived' = [derived EXCEPT ![b.row] = AppendEvent(derived[b.row], e)]
        /\ replaying' = [replaying EXCEPT ![k] = c] /\ UNCHANGED contended
    BY <1>1, <1>3, <1>5, ReplayFacts DEF StartRebuild
  <1>8. /\ e.result = "replaced" \/ e.replacement # NoRow => Noted(derived[b.row], e)
        /\ e.type # "superseded" /\ e.type # "rebuild_terminal"
    BY <1>4
  <1>9. /\ derived' \in Seq(DerivedRow) /\ RowsAgree' /\ OutcomeIsTold'
        /\ DOMAIN derived' = DOMAIN derived
        /\ \A x \in DOMAIN derived :
             /\ derived'[x].kind = derived[x].kind
             /\ derived[x].events \subseteq derived'[x].events
             /\ \A f \in derived'[x].events \ derived[x].events : f = e
    <2>1. e.result = "replaced" \/ e.replacement # NoRow => Noted(derived[b.row], e)
      BY <1>8
    <2>2. /\ b.row \in DOMAIN derived /\ e \in Event /\ e.type # "superseded"
          /\ derived' = [derived EXCEPT ![b.row] = AppendEvent(derived[b.row], e)]
          /\ UNCHANGED contended
      BY <1>2, <1>4, <1>7
    <2> QED BY <2>1, <2>2, RowsStay
  <1>10. TerminalOf(b.row, b.request) = {} => TerminalOf(b.row, b.request)' = {}
    BY <1>2, <1>8, <1>9 DEF TerminalOf
  <1>11. ReplayOK(c)'
    BY <1>2, <1>6, <1>7, <1>9, <1>10 DEF ReplayOK
  <1> QED BY <1>1, <1>2, <1>6, <1>7, <1>8, <1>9, <1>11, ReplayGoesOn

(* An outcome is noted once: what replaced the row has noted it already. *)
LEMMA FinalizeReplayKeeps ==
  ASSUME LifeInv, NEW k \in Replays, FinalizeReplay(k)
  PROVE  LifeInv'
  <1>1. PICK b : b = replaying[k]
    OBVIOUS
  <1>2. /\ b \in Replay /\ b.pc = "finalize" /\ ReplayOK(b)
        /\ b.row \in DOMAIN derived /\ b.request \in RequestIds
        /\ b.result \in Results
        /\ b.result = "replaced" => TerminalOf(b.row, b.request) # {}
    BY <1>1, ReplayFacts DEF FinalizeReplay, ReplayOK
  <1>3. PICK e : e = EventOf("rebuild_terminal", b.request, b.result,
                       IF b.result = "replaced" THEN derived[b.row].replacement ELSE NoRow)
    OBVIOUS
  <1>4. /\ e \in Event /\ e.type = "rebuild_terminal" /\ e.request = b.request
        /\ e.result = b.result /\ (e.replacement # NoRow => b.result = "replaced")
    <2>1. derived[b.row] \in DerivedRow
      BY <1>2, DerivedRowFacts
    <2> QED BY <1>2, <1>3, <2>1 DEF EventOf, Event, EventType, DerivedRow
  <1>5. e.result = "replaced" \/ e.replacement # NoRow => Noted(derived[b.row], e)
    BY <1>2, <1>4 DEF Noted, TerminalOf
  <1>6. /\ derived' = [derived EXCEPT ![b.row] = AppendEvent(derived[b.row], e)]
        /\ replaying' = [replaying EXCEPT ![k] = NoReplay] /\ UNCHANGED contended
    BY <1>1, <1>3 DEF FinalizeReplay
  <1>7. /\ derived' \in Seq(DerivedRow) /\ RowsAgree' /\ OutcomeIsTold'
        /\ DOMAIN derived' = DOMAIN derived
        /\ \A x \in DOMAIN derived :
             /\ derived'[x].kind = derived[x].kind
             /\ derived[x].events \subseteq derived'[x].events
             /\ \A f \in derived'[x].events \ derived[x].events : x = b.row /\ f = e
    <2>1. e.type # "superseded"
      BY <1>4
    <2> QED BY <1>2, <1>4, <1>5, <1>6, <2>1, RowsStay
  <1>8. ReplayOK(NoReplay)'
    BY ReplayFacts DEF ReplayOK
  <1>9. replaying[k].row = b.row /\ replaying[k].request = e.request /\ replaying[k].pc # "idle"
    BY <1>1, <1>2, <1>4
  <1>10. /\ NoReplay \in Replay /\ DOMAIN derived \subseteq DOMAIN derived'
         /\ \A x \in DOMAIN derived : derived'[x].kind = derived[x].kind
         /\ \A x \in DOMAIN derived : derived[x].events \subseteq derived'[x].events
         /\ \A x \in DOMAIN derived : \A f \in derived'[x].events \ derived[x].events :
              f.type = "rebuild_terminal" =>
                /\ replaying[k].pc # "idle"
                /\ x = replaying[k].row /\ f.request = replaying[k].request
    BY <1>7, <1>9, ReplayFacts
  <1> QED BY <1>6, <1>7, <1>8, <1>10, ReplayGoesOn

(* A current row gets its first and only replacement, and the two name each  *)
(* other; the request is told unless an outcome of it was noted before.      *)
LEMMA ReplaceTextKeeps ==
  ASSUME LifeInv, NEW k \in Replays, ReplaceText(k)
  PROVE  LifeInv'
  <1>1. PICK b, d, q, n : b = replaying[k] /\ d = b.row /\ q = b.request /\ n = Len(derived) + 1
    OBVIOUS
  <1>2. /\ b \in Replay /\ b.pc = "replace" /\ ReplayOK(b) /\ b.output \in Outputs
        /\ d \in DOMAIN derived /\ q \in RequestIds /\ derived[d].kind = "derived_text"
        /\ derived[d].replacement = NoRow /\ n \in 1..MaxDerived /\ n # NoRow
        /\ <<d, q>> \notin contended => TerminalOf(d, q) = {}
    <2>1. b \in Replay /\ b.pc = "replace" /\ ReplayOK(b) /\ Current(d) /\ n <= MaxDerived
      BY <1>1, ReplayFacts DEF ReplaceText
    <2>2. n \in 1..MaxDerived
      BY <1>1, <2>1, DerivedRowFacts, RowsAssumption
    <2> QED BY <1>1, <2>1, <2>2, RowsAssumption DEF ReplayOK, Current
  <1>3. PICK e1, e2 : /\ e1 = EventOf("superseded", q, NoResult, n)
                      /\ e2 = EventOf("rebuild_terminal", q, "replaced", n)
    OBVIOUS
  <1>4. /\ e1 \in Event /\ e1.type = "superseded" /\ e1.request = q /\ e1.replacement = n
        /\ e2 \in Event /\ e2.type = "rebuild_terminal" /\ e2.request = q
        /\ e2.replacement = n /\ e2.result = "replaced"
    BY <1>2, <1>3 DEF EventOf, Event, EventType, Results, NoResult
  <1>5. PICK r1, r2 : r1 = AppendEvent(derived[d], e1) /\ r2 = AppendEvent(r1, e2)
    OBVIOUS
  <1>6. /\ r1 \in DerivedRow /\ r1.kind = derived[d].kind
        /\ r1.predecessor = derived[d].predecessor /\ r1.trace = derived[d].trace
        /\ r1.events = derived[d].events \cup {e1} /\ r1.replacement = n
    <2>1. derived[d] \in DerivedRow
      BY <1>2, DerivedRowFacts
    <2>2. ~Noted(derived[d], e1)
      BY <1>2, <1>4 DEF Noted, LifeInv, RowsAgree
    <2> QED BY <1>2, <1>4, <1>5, <2>1, <2>2, NotingAnEvent
  <1>7. /\ r2 \in DerivedRow /\ r2.kind = derived[d].kind
        /\ r2.predecessor = derived[d].predecessor /\ r2.trace = derived[d].trace
        /\ derived[d].events \cup {e1} \subseteq r2.events
        /\ r2.events \subseteq derived[d].events \cup {e1, e2} /\ r2.replacement = n
        /\ e2 \notin r2.events => TerminalOf(d, q) # {}
    <2>1. Noted(r1, e2) => TerminalOf(d, q) # {}
      BY <1>4, <1>6 DEF Noted, TerminalOf
    <2>2. CASE Noted(r1, e2)
      BY <1>4, <1>5, <1>6, <2>1, <2>2, NotingAnEvent
    <2>3. CASE ~Noted(r1, e2)
      BY <1>2, <1>4, <1>5, <1>6, <2>3, NotingAnEvent
    <2> QED BY <2>2, <2>3
  <1>8. PICK new : new = Replacement(d, q, b.output)
    OBVIOUS
  <1>9. /\ new \in DerivedRow /\ new.kind = "derived_text" /\ new.predecessor = d
        /\ new.trace = q /\ new.events = {} /\ new.replacement = NoRow
    BY <1>2, <1>8, DerivedRowFacts DEF Replacement, FirstRow, DerivedRow, Kinds, Statuses
  <1>10. /\ derived' = Append([derived EXCEPT ![d] = r2], new)
         /\ replaying' = [replaying EXCEPT ![k].pc = "finalize"] /\ UNCHANGED contended
    BY <1>1, <1>3, <1>5, <1>8 DEF ReplaceText, Superseded
  <1>11. /\ derived' \in Seq(DerivedRow) /\ Len(derived') = n /\ DOMAIN derived' = 1..n
         /\ DOMAIN derived = 1..(n - 1) /\ n \in Nat
         /\ derived'[n] = new
         /\ \A x \in DOMAIN derived : derived'[x] = IF x = d THEN r2 ELSE derived[x]
    <2>1. PICK s : s = [derived EXCEPT ![d] = r2]
      OBVIOUS
    <2>2. /\ derived \in Seq(DerivedRow) /\ Len(derived) \in Nat
          /\ DOMAIN derived = 1 .. Len(derived)
      BY DerivedRowFacts DEF LifeInv
    <2>3. /\ s \in Seq(DerivedRow) /\ Len(s) = Len(derived)
          /\ \A x \in 1 .. Len(derived) : s[x] = IF x = d THEN r2 ELSE derived[x]
      BY <1>2, <1>7, <2>1, <2>2, ExceptSeq
    <2>4. derived' = Append(s, new)
      BY <1>10, <2>1
    <2>5. /\ derived' \in Seq(DerivedRow) /\ Len(derived') = Len(s) + 1
          /\ \A x \in 1 .. Len(s) : derived'[x] = s[x]
          /\ derived'[Len(s) + 1] = new
      BY <1>9, <2>3, <2>4, AppendProperties
    <2> QED BY <1>1, <2>2, <2>3, <2>5, LenProperties
  <1>12. \A x \in DOMAIN derived :
           /\ x \in DOMAIN derived' /\ x # n
           /\ derived'[x].kind = derived[x].kind
           /\ derived'[x].predecessor = derived[x].predecessor
           /\ derived'[x].trace = derived[x].trace
           /\ derived'[x].replacement = IF x = d THEN n ELSE derived[x].replacement
           /\ derived[x].events \subseteq derived'[x].events
           /\ \A f \in derived'[x].events \ derived[x].events : x = d /\ f \in {e1, e2}
    BY <1>7, <1>11
  <1>13. \A m \in DOMAIN derived :
           /\ derived[m].predecessor # d
           /\ derived[m].predecessor # NoRow =>
                derived[m].predecessor \in DOMAIN derived /\ derived[m].predecessor # n
    BY <1>2, <1>11, DerivedRowFacts DEF LifeInv, RowsAgree
  <1>14. \A x \in DOMAIN derived, p \in RequestIds :
           /\ Made(x, p)' <=> (Made(x, p) \/ (x = d /\ p = q))
           /\ Told(x, p) => Told(x, p)'
           /\ Told(x, p)' => Told(x, p) \/ (x = d /\ p = q)
    <2> SUFFICES ASSUME NEW x \in DOMAIN derived, NEW p \in RequestIds
                 PROVE  /\ Made(x, p)' <=> (Made(x, p) \/ (x = d /\ p = q))
                        /\ Told(x, p) => Told(x, p)'
                        /\ Told(x, p)' => Told(x, p) \/ (x = d /\ p = q)
      OBVIOUS
    <2>1. Made(x, p)' <=> (Made(x, p) \/ (x = d /\ p = q))
      BY <1>9, <1>11, <1>12 DEF Made
    <2>2. Told(x, p) => Told(x, p)'
      BY <1>12 DEF Told, TerminalOf
    <2>3. Told(x, p)' => Told(x, p) \/ (x = d /\ p = q)
      BY <1>4, <1>12 DEF Told, TerminalOf
    <2> QED BY <2>1, <2>2, <2>3
  <1>15. \A p \in RequestIds : ~Told(n, p)' /\ ~Made(n, p)'
    <2>1. \A p \in RequestIds : ~Told(n, p)'
      BY <1>9, <1>11 DEF Told, TerminalOf
    <2>2. \A m \in DOMAIN derived' : derived'[m].predecessor # n
      <3>1. derived'[n].predecessor # n
        BY <1>2, <1>9, <1>11
      <3>2. \A m \in DOMAIN derived : derived'[m].predecessor # n
        BY <1>2, <1>12, <1>13
      <3> QED BY <1>11, <3>1, <3>2
    <2> QED BY <2>1, <2>2 DEF Made
  <1>16. RowsAgree'
    <2>1. \A m \in DOMAIN derived' : LET p == derived'[m].predecessor IN
            p # NoRow => /\ p \in 1..(m - 1) /\ derived'[p].replacement = m
                         /\ derived'[m].kind = "derived_text"
                         /\ derived'[p].kind = "derived_text"
                         /\ \E e \in derived'[p].events : e.type = "superseded"
      <3>1. ASSUME NEW m \in DOMAIN derived, NEW p, p = derived[m].predecessor, p # NoRow
            PROVE  /\ p \in 1..(m - 1) /\ derived'[p].replacement = m
                   /\ derived'[m].kind = "derived_text"
                   /\ derived'[p].kind = "derived_text"
                   /\ \E e \in derived'[p].events : e.type = "superseded"
        <4>1. /\ p \in DOMAIN derived /\ p # d /\ p \in 1..(m - 1)
              /\ derived[p].replacement = m /\ derived[m].kind = "derived_text"
              /\ derived[p].kind = "derived_text"
              /\ \E e \in derived[p].events : e.type = "superseded"
          BY <1>13, <3>1 DEF LifeInv, RowsAgree
        <4> QED BY <1>12, <4>1
      <3>2. /\ d \in 1..(n - 1) /\ derived'[d].replacement = n
            /\ derived'[n].kind = "derived_text" /\ derived'[d].kind = "derived_text"
            /\ \E e \in derived'[d].events : e.type = "superseded"
        BY <1>2, <1>4, <1>7, <1>9, <1>11, <1>12
      <3> QED BY <1>9, <1>11, <1>12, <3>1, <3>2
    <2>2. \A x \in DOMAIN derived' :
            (\E e \in derived'[x].events : e.type = "superseded")
               => derived'[x].replacement # NoRow
      <3>1. \A x \in DOMAIN derived :
              (\E e \in derived'[x].events : e.type = "superseded")
                 => derived'[x].replacement # NoRow
        BY <1>2, <1>12 DEF LifeInv, RowsAgree
      <3> QED BY <1>9, <1>11, <3>1
    <2>3. \A x \in DOMAIN derived', p \in RequestIds : Told(x, p)' => Made(x, p)'
      <3>1. \A x \in DOMAIN derived, p \in RequestIds : Told(x, p) => Made(x, p)
        BY DEF LifeInv, RowsAgree
      <3> QED BY <1>11, <1>14, <1>15, <3>1
    <2>4. Len(derived') <= MaxDerived
      BY <1>2, <1>11
    <2> QED BY <2>1, <2>2, <2>3, <2>4 DEF RowsAgree
  <1>17. <<d, q>> \notin contended => Told(d, q)'
    BY <1>2, <1>4, <1>7, <1>11 DEF Told, TerminalOf
  <1>18. OutcomeIsTold'
    <2>1. \A x \in DOMAIN derived, p \in RequestIds :
            <<x, p>> \notin contended => (Made(x, p) <=> Told(x, p))
      BY DEF LifeInv, OutcomeIsTold, Told, Made
    <2>2. \A x \in DOMAIN derived', p \in RequestIds :
            <<x, p>> \notin contended' => (Made(x, p)' <=> Told(x, p)')
      <3> SUFFICES ASSUME NEW x \in DOMAIN derived', NEW p \in RequestIds,
                          <<x, p>> \notin contended
                   PROVE  Made(x, p)' <=> Told(x, p)'
        BY <1>10
      <3>1. CASE x = n
        BY <1>15, <3>1
      <3>2. CASE x \in DOMAIN derived
        <4>1. Made(x, p) <=> Told(x, p)
          BY <2>1, <3>2
        <4>2. /\ Made(x, p)' <=> (Made(x, p) \/ (x = d /\ p = q))
              /\ Told(x, p) => Told(x, p)'
              /\ Told(x, p)' => Told(x, p) \/ (x = d /\ p = q)
          BY <1>14, <3>2
        <4>3. x = d /\ p = q => Told(x, p)'
          BY <1>17
        <4> QED BY <4>1, <4>2, <4>3
      <3> QED BY <1>11, <3>1, <3>2
    <2> QED BY <2>2 DEF OutcomeIsTold, Told, Made
  <1>19. PICK c : c = [b EXCEPT !.pc = "finalize"]
    OBVIOUS
  <1>20. /\ c \in Replay /\ c.pc = "finalize" /\ c.row = d /\ c.request = q
         /\ c.result = b.result /\ b.result = "replaced"
    BY <1>1, <1>2, <1>19 DEF Replay, ReplayOK
  <1>21. TerminalOf(d, q)' # {}
    BY <1>2, <1>4, <1>7, <1>11, <1>12 DEF TerminalOf
  <1>22. ReplayOK(c)'
    BY <1>2, <1>12, <1>20, <1>21 DEF ReplayOK, Results
  <1>23. /\ replaying' = [replaying EXCEPT ![k] = c]
         /\ replaying[k].pc # "idle" /\ c.row = replaying[k].row /\ c.request = replaying[k].request
    BY <1>1, <1>2, <1>10, <1>19, <1>20, ReplayFacts
  <1>24. /\ \A x \in DOMAIN derived : derived'[x].kind = derived[x].kind
         /\ \A x \in DOMAIN derived : derived[x].events \subseteq derived'[x].events
         /\ \A x \in DOMAIN derived : \A f \in derived'[x].events \ derived[x].events :
              f.type = "rebuild_terminal" =>
                /\ replaying[k].pc # "idle"
                /\ x = replaying[k].row /\ f.request = replaying[k].request
         /\ DOMAIN derived \subseteq DOMAIN derived'
    BY <1>4, <1>12, <1>20, <1>23
  <1> QED
    BY <1>10, <1>11, <1>16, <1>18, <1>20, <1>22, <1>23, <1>24, ReplayGoesOn

(* Every step keeps the rows and the calls as the proofs need them. *)
LEMMA LifeStep ==
  ASSUME LifeInv, [LifeNext]_lifeVars
  PROVE  LifeInv'
  <1>1. CASE UNCHANGED lifeVars
    <2>1. UNCHANGED <<derived, replaying, contended>>
      BY <1>1 DEF lifeVars
    <2>2. RowsAgree' /\ OutcomeIsTold' /\ OneReplayEach'
      BY <2>1 DEF LifeInv, RowsAgree, OutcomeIsTold, OneReplayEach, Told, Made, TerminalOf
    <2>3. \A k \in Replays : ReplayOK(replaying[k])'
      BY <2>1 DEF LifeInv, ReplayOK, TerminalOf
    <2> QED BY <2>1, <2>2, <2>3 DEF LifeInv
  <1> QED
    BY <1>1, InvalidateKeeps, ReevaluateKeeps, BeginReplayKeeps, StartRebuildKeeps,
       BuildCandidateKeeps, ReplaceTextKeeps, NoReplacementKeeps, FinalizeReplayKeeps
    DEF LifeNext

(* What derivation_replay does to the rows, whatever overlaps it and         *)
(* wherever a replay is lost: predecessors, replacements and outcomes stay   *)
(* in agreement.                                                             *)
THEOREM LifeInvariant == LifeSpec => []LifeInv
  <1>1. LifeInit => LifeInv
    <2> SUFFICES ASSUME LifeInit
                 PROVE  LifeInv
      OBVIOUS
    <2>1. PICK kind \in Kinds, out \in Outputs : derived = <<FirstRow(kind, out)>>
      BY DEF LifeInit
    <2>2. PICK r : r = FirstRow(kind, out)
      OBVIOUS
    <2>3. r \in DerivedRow /\ r.predecessor = NoRow /\ r.events = {}
      BY <2>2 DEF FirstRow, DerivedRow, Statuses
    <2>4. /\ derived \in Seq(DerivedRow) /\ Len(derived) = 1 /\ DOMAIN derived = {1}
          /\ derived[1] = r
      BY <2>1, <2>2, <2>3
    <2>5. \A q : ~Told(1, q) /\ ~Made(1, q)
      BY <2>3, <2>4, RowsAssumption DEF Told, Made, TerminalOf
    <2>6. RowsAgree
      BY <2>3, <2>4, <2>5, RowsAssumption DEF RowsAgree
    <2>7. OutcomeIsTold
      BY <2>4, <2>5 DEF OutcomeIsTold, Told, Made
    <2>8. NoReplay \in Replay /\ NoReplay.pc = "idle"
      BY DEF NoReplay, Replay, NoResult
    <2>9. ReplayOK(NoReplay)
      BY <2>8 DEF ReplayOK
    <2> QED BY <2>4, <2>6, <2>7, <2>8, <2>9 DEF LifeInit, LifeInv, OneReplayEach
  <1> QED BY <1>1, LifeStep, PTL DEF LifeSpec

(* The locked re-read of replace_derived admits one replacement of a row,    *)
(* and the two rows name each other.                                         *)
THEOREM RowsAreReplacedOnce == LifeSpec => []ReplacedOnce
  <1>1. LifeInv => ReplacedOnce
    <2> SUFFICES ASSUME LifeInv
                 PROVE  ReplacedOnce
      OBVIOUS
    <2>1. \A d, e \in DOMAIN derived :
            derived[d].predecessor = derived[e].predecessor /\ d # e
              => derived[d].predecessor = NoRow
      BY DEF LifeInv, RowsAgree
    <2>2. \A d \in DOMAIN derived : LET p == derived[d].predecessor IN
            p # NoRow => /\ p < d /\ derived[p].replacement = d
                         /\ \E e \in derived[p].events : e.type = "superseded"
      BY DerivedRowFacts DEF LifeInv, RowsAgree
    <2> QED BY <2>1, <2>2 DEF ReplacedOnce
  <1> QED BY <1>1, LifeInvariant, PTL

(* The terminal event of a request says whether its replacement was made, so *)
(* that a retry is answered with what happened.                              *)
THEOREM OutcomesAreTold == LifeSpec => []OutcomeIsTold
  BY LifeInvariant, PTL DEF LifeInv

(* Derived rows and replays hold what their columns and fields allow.        *)
THEOREM LifeTypes == LifeSpec => []LifeTypeOK
  <1>1. LifeInv => LifeTypeOK
    BY DEF LifeInv, LifeTypeOK, ReplayOK
  <1> QED BY <1>1, LifeInvariant, PTL

-----------------------------------------------------------------------------
(* Initiative.                                                               *)

(* The key of a log's rule, subject and surface is a key. *)
LEMMA KeysOfLogs ==
  ASSUME NEW e \in Logs, NEW s \in Surfaces
  PROVE  CooldownKey(e, s) \in Key
  BY LogsAssumption DEF CooldownKey, Key

(* A call that ends, or that goes on serving its request, keeps the rest. *)
LEMMA CallGoesOn ==
  ASSUME InitiativeInv, NEW k \in Evaluations, NEW c \in Evaluation,
         evaluation' = [evaluation EXCEPT ![k] = c], CallOK(c),
         c.pc # "idle" => evaluation[k].pc # "idle" /\ c.request = evaluation[k].request,
         UNCHANGED <<prefs, initiative, decision, suggestion, disliked, rating, crowded>>
  PROVE  InitiativeInv'
  <1>1. evaluation' \in [Evaluations -> Evaluation]
    BY DEF InitiativeInv
  <1>2. \A l \in Evaluations : CallOK(evaluation'[l])
    BY DEF InitiativeInv
  <1>3. \A l \in Evaluations : CallOK(evaluation[l])'
    BY <1>2 DEF CallOK, MayCreate, DecisionsOf, RecentKeys
  <1>4. OneCallEach'
    BY DEF OneCallEach, InitiativeInv
  <1> QED BY <1>1, <1>3, <1>4 DEF InitiativeInv, InitiativeTypeOK, DecidedOnce

(* A call that is not under way relies on nothing. *)
LEMMA NothingUnderWay == NoEvaluation \in Evaluation /\ CallOK(NoEvaluation)
  BY DEF NoEvaluation, Evaluation, CallOK, MayCreate

(* A call that stops leaves what the others rely on.                         *)
LEMMA CallEnds ==
  ASSUME InitiativeInv, NEW k \in Evaluations,
         evaluation' = [evaluation EXCEPT ![k] = NoEvaluation],
         UNCHANGED <<prefs, initiative, decision, suggestion, disliked, rating, crowded>>
  PROVE  InitiativeInv'
  <1>1. NoEvaluation.pc = "idle"
    BY DEF NoEvaluation
  <1> QED BY <1>1, NothingUnderWay, CallGoesOn

(* A step that writes no table: what it has found out must hold. *)
LEMMA EvaluationStep ==
  ASSUME InitiativeInv, NEW k \in Evaluations, NEW to, NEW surface, NEW status,
         Step(k, to, surface, status), evaluation[k].pc # "idle",
         to \in {"prefs", "score", "cooldown", "feedback", "suggest", "record"},
         surface \in Surfaces \cup {Absent},
         status \in {"suppressed", "no_op", Absent},
         to = "record" => status \in {"suppressed", "no_op"},
         evaluation[k].pc = "list" => DecisionsOf(evaluation[k].request) = {},
         to \in {"score", "cooldown", "feedback", "suggest"} => surface # Absent,
         to \in {"feedback", "suggest"} =>
           CooldownKey(evaluation[k].log, surface) \notin evaluation[k].cooling,
         to = "suggest" =>
           CooldownKey(evaluation[k].log, surface) \notin evaluation[k].disliked
  PROVE  InitiativeInv'
  <1>1. PICK c : c = [evaluation[k] EXCEPT !.pc = to, !.surface = surface, !.status = status]
    OBVIOUS
  <1>2. evaluation[k] \in Evaluation /\ CallOK(evaluation[k])
    BY DEF InitiativeInv
  <1>3. /\ c \in Evaluation
        /\ c.pc = to /\ c.surface = surface /\ c.status = status
        /\ c.request = evaluation[k].request /\ c.log = evaluation[k].log
        /\ c.cooling = evaluation[k].cooling /\ c.disliked = evaluation[k].disliked
    BY <1>1, <1>2 DEF Evaluation
  <1>4. evaluation' = [evaluation EXCEPT ![k] = c]
    BY <1>1, <1>2 DEF Step, InitiativeInv
  <1>5. /\ c.request \in RequestNames /\ c.log \in Logs
        /\ DecisionsOf(c.request) = {} \/ c.request \in crowded
        /\ c.cooling \subseteq RecentKeys /\ c.disliked \subseteq disliked
    BY <1>2, <1>3 DEF CallOK
  <1>6. MayCreate(c) => to \in {"feedback", "suggest"}
    BY <1>3 DEF MayCreate
  <1>7. CallOK(c)
    BY <1>3, <1>5, <1>6 DEF CallOK
  <1> QED BY <1>3, <1>4, <1>7, CallGoesOn DEF Step

(* A request begins an evaluation.                                           *)
LEMMA NoteRequestKeeps ==
  ASSUME InitiativeInv, NEW k \in Evaluations, NEW q \in RequestNames, NEW e \in Logs,
         NEW s \in Surfaces \cup {Absent}, NoteRequest(k, q, e, s)
  PROVE  InitiativeInv'
  <1>1. PICK c : c = [NoEvaluation EXCEPT !.pc = "list", !.request = q, !.log = e,
                        !.surface = s, !.cooling = RecentKeys, !.disliked = disliked]
    OBVIOUS
  <1>2. RecentKeys \subseteq Key \cup {Absent} /\ disliked \subseteq Key
    <2>1. \A i \in DOMAIN decision : decision[i] \in Decision
      BY ElementOfSeq, LenProperties DEF InitiativeInv, InitiativeTypeOK
    <2> QED BY <2>1 DEF InitiativeInv, InitiativeTypeOK, RecentKeys, Decision
  <1>3. /\ c \in Evaluation /\ c.pc = "list" /\ c.request = q /\ c.log = e
        /\ c.cooling = RecentKeys /\ c.disliked = disliked
    BY <1>1, <1>2 DEF Evaluation, NoEvaluation
  <1>4. CallOK(c)
    BY <1>3 DEF CallOK, MayCreate
  <1>5. /\ evaluation' = [evaluation EXCEPT ![k] = c]
        /\ crowded \subseteq crowded' /\ crowded' \subseteq crowded \cup {q}
        /\ (\E l \in Evaluations : evaluation[l].request = q) => q \in crowded'
        /\ UNCHANGED <<prefs, decision, suggestion, disliked, rating>>
    BY <1>1 DEF NoteRequest
  <1>6. evaluation' \in [Evaluations -> Evaluation]
    BY <1>3, <1>5 DEF InitiativeInv
  <1>7. \A l \in Evaluations : CallOK(evaluation'[l])
    BY <1>4, <1>5 DEF InitiativeInv
  <1>8. \A l \in Evaluations : CallOK(evaluation[l])'
    BY <1>5, <1>7 DEF CallOK, MayCreate, DecisionsOf, RecentKeys
  <1>9. OneCallEach'
    BY <1>3, <1>5 DEF OneCallEach, InitiativeInv
  <1>10. InitiativeTypeOK' /\ DecidedOnce'
    BY <1>5 DEF InitiativeInv, InitiativeTypeOK, DecidedOnce
  <1> QED BY <1>5, <1>6, <1>8, <1>9, <1>10 DEF InitiativeInv

(* The steps that only read. *)
LEMMA ReadingKeeps ==
  ASSUME InitiativeInv, NEW k \in Evaluations,
         \/ FindNoDecision(k) \/ ReadPrefs(k) \/ ScoreGit(k) \/ ScorePortfolio(k)
         \/ ReadCooldown(k) \/ ReadFeedback(k)
  PROVE  InitiativeInv'
  <1>0. evaluation[k] \in Evaluation /\ CallOK(evaluation[k])
    BY DEF InitiativeInv
  <1>1. evaluation[k].surface \in Surfaces \cup {Absent}
    BY <1>0 DEF Evaluation
  <1>2. CASE FindNoDecision(k)
    BY <1>1, <1>2, EvaluationStep DEF FindNoDecision
  <1>3. CASE ReadPrefs(k)
    <2>1. PICK s : s = DeliverySurface(evaluation[k].surface, prefs)
      OBVIOUS
    <2>2. prefs # Absent => s \in Surfaces \cup {Absent}
      BY <2>1 DEF DeliverySurface, InitiativeInv
    <2>3. /\ evaluation[k].pc = "prefs"
          /\ \/ Step(k, "record", Absent, "suppressed")
             \/ Step(k, "record", Absent, "no_op")
             \/ prefs # Absent /\ s # Absent /\ Step(k, "score", s, Absent)
      BY <1>3, <2>1 DEF ReadPrefs
    <2> QED BY <2>2, <2>3, EvaluationStep
  <1>4. CASE ScoreGit(k) \/ ScorePortfolio(k)
    <2>1. /\ evaluation[k].pc = "score" /\ evaluation[k].surface # Absent
          /\ \/ Step(k, "record", evaluation[k].surface, "suppressed")
             \/ Step(k, "cooldown", evaluation[k].surface, Absent)
      BY <1>0, <1>4 DEF ScoreGit, ScorePortfolio, CallOK
    <2> QED BY <1>1, <2>1, EvaluationStep
  <1>5. CASE ReadCooldown(k)
    <2>1. /\ evaluation[k].pc = "cooldown" /\ evaluation[k].surface # Absent
          /\ evaluation[k].cooling \subseteq RecentKeys
          /\ \/ Step(k, "record", evaluation[k].surface, "suppressed")
             \/ /\ CooldownKey(evaluation[k].log, evaluation[k].surface) \notin RecentKeys
                /\ Step(k, "feedback", evaluation[k].surface, Absent)
      BY <1>0, <1>5 DEF ReadCooldown, CallOK, Cooling
    <2> QED BY <1>1, <2>1, EvaluationStep
  <1>6. CASE ReadFeedback(k)
    <2>1. /\ evaluation[k].pc = "feedback" /\ evaluation[k].surface # Absent
          /\ evaluation[k].disliked \subseteq disliked
          /\ CooldownKey(evaluation[k].log, evaluation[k].surface) \notin evaluation[k].cooling
          /\ \/ Step(k, "record", evaluation[k].surface, "suppressed")
             \/ /\ CooldownKey(evaluation[k].log, evaluation[k].surface) \notin disliked
                /\ Step(k, "suggest", evaluation[k].surface, Absent)
      BY <1>0, <1>6 DEF ReadFeedback, CallOK, MayCreate
    <2> QED BY <1>1, <2>1, EvaluationStep
  <1> QED BY <1>2, <1>3, <1>4, <1>5, <1>6

(* Suggestions that are there stay, whatever happens to them. *)
LEMMA SuggestionsStay ==
  ASSUME InitiativeInv, suggestion' \in [Logs -> Suggested \cup {Absent}],
         \A e \in Logs : suggestion[e] # Absent => suggestion'[e] # Absent,
         UNCHANGED <<prefs, decision, disliked, evaluation, crowded>>,
         \A r \in rating' : r[1] \in DOMAIN decision
  PROVE  InitiativeInv'
  <1>1. \A i \in DOMAIN decision : decision[i] \in Decision
    BY ElementOfSeq, LenProperties DEF InitiativeInv, InitiativeTypeOK
  <1>2. InitiativeTypeOK'
    BY <1>1, AbsentAssumption DEF InitiativeInv, InitiativeTypeOK, Decision
  <1>3. \A l \in Evaluations : CallOK(evaluation[l])'
    <2> SUFFICES ASSUME NEW l \in Evaluations
                 PROVE  CallOK(evaluation[l])'
      OBVIOUS
    <2>1. PICK c : c = evaluation[l]
      OBVIOUS
    <2>2. CallOK(c) /\ c = evaluation'[l]
      BY <2>1 DEF InitiativeInv
    <2>3. MayCreate(c) => c.log \in Logs
      BY <2>2 DEF CallOK, MayCreate
    <2> QED BY <2>2, <2>3 DEF CallOK, MayCreate, DecisionsOf, RecentKeys
  <1> QED BY <1>2, <1>3 DEF InitiativeInv, OneCallEach, DecidedOnce

(* The transactions of record_initiative_event.                              *)
LEMMA SuggestKeeps ==
  ASSUME InitiativeInv, NEW k \in Evaluations, Suggest(k)
  PROVE  InitiativeInv'
  <1>1. PICK c : c = evaluation[k]
    OBVIOUS
  <1>2. /\ c \in Evaluation /\ CallOK(c) /\ c.pc = "suggest" /\ MayCreate(c)
        /\ c.log \in Logs /\ c.surface \in Surfaces
    BY <1>1 DEF Suggest, InitiativeInv, CallOK, MayCreate
  <1>3. PICK u : u = Upserted(c.log, c.surface)
    OBVIOUS
  <1>4. u \in Suggested /\ u # Absent
    BY <1>2, <1>3, AbsentAssumption DEF Upserted, Suggested, InitiativeInv, InitiativeTypeOK
  <1>5. suggestion' = [suggestion EXCEPT ![c.log] = u]
    BY <1>1, <1>3 DEF Suggest
  <1>6. PICK d : d = [c EXCEPT !.pc = "record", !.status = "created"]
    OBVIOUS
  <1>7. /\ d \in Evaluation /\ d.pc = "record" /\ d.status = "created"
        /\ d.request = c.request /\ d.log = c.log /\ d.surface = c.surface
        /\ d.cooling = c.cooling /\ d.disliked = c.disliked
    BY <1>2, <1>6 DEF Evaluation
  <1>8. evaluation' = [evaluation EXCEPT ![k] = d]
    BY <1>1, <1>2, <1>6 DEF Suggest, InitiativeInv
  <1>9. UNCHANGED <<prefs, initiative, decision, disliked, rating, crowded>>
    BY DEF Suggest
  <1>10. /\ suggestion' \in [Logs -> Suggested \cup {Absent}]
         /\ suggestion'[c.log] # Absent
         /\ \A e \in Logs : suggestion[e] # Absent => suggestion'[e] # Absent
    BY <1>2, <1>4, <1>5 DEF InitiativeInv, InitiativeTypeOK
  <1>11. InitiativeTypeOK'
    <2>1. \A i \in DOMAIN decision : decision[i] \in Decision
      BY ElementOfSeq, LenProperties DEF InitiativeInv, InitiativeTypeOK
    <2> QED BY <1>9, <1>10, <2>1 DEF InitiativeInv, InitiativeTypeOK, Decision
  <1>12. \A l \in Evaluations : l # k => CallOK(evaluation[l])'
    <2> SUFFICES ASSUME NEW l \in Evaluations, l # k
                 PROVE  CallOK(evaluation[l])'
      OBVIOUS
    <2>1. PICK b : b = evaluation[l]
      OBVIOUS
    <2>2. CallOK(b) /\ b = evaluation'[l]
      BY <1>8, <2>1 DEF InitiativeInv
    <2>3. MayCreate(b) => b.log \in Logs
      BY <2>2 DEF CallOK, MayCreate
    <2> QED BY <1>9, <1>10, <2>2, <2>3 DEF CallOK, MayCreate, DecisionsOf, RecentKeys
  <1>13. CallOK(evaluation[k])'
    <2>1. evaluation'[k] = d
      BY <1>8 DEF InitiativeInv
    <2>2. CallOK(d)'
      BY <1>2, <1>7, <1>9, <1>10 DEF CallOK, MayCreate, DecisionsOf, RecentKeys
    <2> QED BY <2>1, <2>2
  <1>14. OneCallEach'
    BY <1>1, <1>2, <1>7, <1>8, <1>9 DEF OneCallEach, InitiativeInv
  <1>15. evaluation' \in [Evaluations -> Evaluation]
    BY <1>7, <1>8 DEF InitiativeInv
  <1> QED
    BY <1>9, <1>11, <1>12, <1>13, <1>14, <1>15 DEF InitiativeInv, DecidedOnce

(* A decision is recorded for a request that has none, unless two calls have *)
(* served it, and the call ends.                                             *)
LEMMA RecordDecisionKeeps ==
  ASSUME InitiativeInv, NEW k \in Evaluations, RecordDecision(k)
  PROVE  InitiativeInv'
  <1>1. PICK c : c = evaluation[k]
    OBVIOUS
  <1>2. /\ c \in Evaluation /\ CallOK(c) /\ c.pc = "record"
        /\ c.request \in RequestNames /\ c.log \in Logs
        /\ c.status \in {"created", "suppressed", "no_op"}
        /\ c.status = "created" => suggestion[c.log] # Absent
        /\ DecisionsOf(c.request) = {} \/ c.request \in crowded
    BY <1>1 DEF RecordDecision, InitiativeInv, CallOK, MayCreate
  <1>3. PICK d : d = [request |-> c.request, status |-> c.status, recent |-> TRUE,
                      key |-> IF c.surface = Absent THEN Absent
                              ELSE CooldownKey(c.log, c.surface),
                      log |-> IF c.status = "created" THEN c.log ELSE Absent]
    OBVIOUS
  <1>4. c.surface # Absent => CooldownKey(c.log, c.surface) \in Key
    BY <1>2, KeysOfLogs DEF Evaluation
  <1>5. /\ d \in Decision /\ d.request = c.request
        /\ d.log # Absent => suggestion[d.log] # Absent
    BY <1>2, <1>3, <1>4 DEF Decision
  <1>6. /\ decision' = Append(decision, d)
        /\ evaluation' = [evaluation EXCEPT ![k] = NoEvaluation]
        /\ UNCHANGED <<prefs, initiative, suggestion, disliked, rating, crowded>>
    BY <1>1, <1>3 DEF RecordDecision
  <1>7. /\ decision \in Seq(Decision) /\ decision' \in Seq(Decision)
        /\ Len(decision) \in Nat /\ Len(decision') = Len(decision) + 1
        /\ DOMAIN decision = 1 .. Len(decision) /\ DOMAIN decision' = 1 .. Len(decision')
        /\ \A i \in DOMAIN decision : decision'[i] = decision[i]
        /\ decision'[Len(decision) + 1] = d
    BY <1>5, <1>6, AppendProperties, LenProperties DEF InitiativeInv, InitiativeTypeOK
  <1>8. /\ DOMAIN decision \subseteq DOMAIN decision'
        /\ \A i \in DOMAIN decision' : i \in DOMAIN decision \/ decision'[i] = d
        /\ \A i, j \in DOMAIN decision' : i # j => i \in DOMAIN decision \/ j \in DOMAIN decision
    BY <1>7
  <1>9. InitiativeTypeOK'
    <2>1. \A i \in DOMAIN decision' :
            decision'[i].log # Absent => suggestion[decision'[i].log] # Absent
      BY <1>5, <1>7, <1>8 DEF InitiativeInv, InitiativeTypeOK
    <2> QED BY <1>6, <1>7, <2>1 DEF InitiativeInv, InitiativeTypeOK
  <1>10. DecidedOnce'
    <2> SUFFICES ASSUME NEW i \in DOMAIN decision', NEW j \in DOMAIN decision',
                        decision'[i].request = decision'[j].request, i # j
                 PROVE  decision'[i].request \in crowded
      BY <1>6 DEF DecidedOnce
    <2>1. CASE i \in DOMAIN decision /\ j \in DOMAIN decision
      BY <1>7, <2>1 DEF InitiativeInv, DecidedOnce
    <2>2. CASE decision'[i] = d \/ decision'[j] = d
      BY <1>2, <1>5, <1>7, <1>8, <2>2 DEF DecisionsOf
    <2> QED BY <1>8, <2>1, <2>2
  <1>11. evaluation' \in [Evaluations -> Evaluation]
    BY <1>6, NothingUnderWay DEF InitiativeInv
  <1>12. OneCallEach'
    BY <1>6 DEF OneCallEach, InitiativeInv, NoEvaluation
  <1>13. RecentKeys \subseteq RecentKeys'
    BY <1>7, <1>8 DEF RecentKeys
  <1>14. \A l \in Evaluations : CallOK(evaluation[l])'
    <2> SUFFICES ASSUME NEW l \in Evaluations
                 PROVE  CallOK(evaluation[l])'
      OBVIOUS
    <2>1. CASE l = k
      BY <1>6, <2>1 DEF InitiativeInv, NoEvaluation, CallOK, MayCreate
    <2>2. CASE l # k
      <3>1. PICK b : b = evaluation[l]
        OBVIOUS
      <3>2. CallOK(b) /\ b = evaluation'[l] /\ evaluation[k] = c
        BY <1>1, <1>6, <2>2, <3>1 DEF InitiativeInv
      <3>3. b.pc # "idle" /\ b.request = c.request => b.request \in crowded
        BY <1>2, <2>2, <3>1, <3>2 DEF InitiativeInv, OneCallEach
      <3>4. /\ b.pc \notin {"idle", "list"} =>
                 DecisionsOf(b.request)' = {} \/ b.request \in crowded'
        BY <1>5, <1>6, <1>7, <1>8, <3>2, <3>3 DEF CallOK, DecisionsOf
      <3> QED BY <1>6, <1>13, <3>2, <3>4 DEF CallOK, MayCreate
    <2> QED BY <2>1, <2>2
  <1> QED
    BY <1>6, <1>8, <1>9, <1>10, <1>11, <1>12, <1>14 DEF InitiativeInv

(* Ratings, answers and deliveries. *)
LEMMA FeedbackKeeps ==
  ASSUME InitiativeInv,
         \/ \E e \in Logs, t \in FeedbackTypes : AnswerSuggestion(e, t)
         \/ \E i \in 1..MaxDecisions, t \in FeedbackTypes : RateDecision(i, t) \/ LoseRating(i, t)
         \/ \E e \in Logs, d \in {"delivered", "failed"} : AttemptDelivery(e, d)
  PROVE  InitiativeInv'
  <1>1. \A i \in DOMAIN decision : decision[i] \in Decision
    BY ElementOfSeq, LenProperties DEF InitiativeInv, InitiativeTypeOK
  <1>2. ASSUME NEW e \in Logs, NEW t \in FeedbackTypes, suggestion[e] # Absent
        PROVE  /\ Answered(e, t) \in [Logs -> Suggested \cup {Absent}]
               /\ \A f \in Logs : suggestion[f] # Absent => Answered(e, t)[f] # Absent
    <2>1. PICK u : u = [suggestion[e] EXCEPT !.status =
                          IF t \in {"dismissed", "accepted"} THEN t ELSE @]
      OBVIOUS
    <2>2. u \in Suggested
      BY <1>2, <2>1 DEF InitiativeInv, InitiativeTypeOK, Suggested
    <2>3. Answered(e, t) = [suggestion EXCEPT ![e] = u]
      BY <2>1 DEF Answered, InitiativeInv, InitiativeTypeOK
    <2> QED BY <2>2, <2>3, AbsentAssumption DEF InitiativeInv, InitiativeTypeOK
  <1>3. CASE \E e \in Logs, t \in FeedbackTypes : AnswerSuggestion(e, t)
    BY <1>2, <1>3, SuggestionsStay DEF AnswerSuggestion, InitiativeInv
  <1>4. CASE \E i \in 1..MaxDecisions, t \in FeedbackTypes : RateDecision(i, t)
    <2>1. PICK i \in 1..MaxDecisions, t \in FeedbackTypes : RateDecision(i, t)
      BY <1>4
    <2>2. /\ i \in DOMAIN decision
          /\ suggestion' = IF decision[i].log = Absent THEN suggestion
                           ELSE Answered(decision[i].log, t)
          /\ rating' = rating \cup {<<i, t>>}
          /\ UNCHANGED <<prefs, initiative, decision, disliked, evaluation, crowded>>
      BY <2>1 DEF RateDecision
    <2>3. decision[i].log # Absent =>
            decision[i].log \in Logs /\ suggestion[decision[i].log] # Absent
      BY <1>1, <2>2 DEF Decision, InitiativeInv, InitiativeTypeOK
    <2>4. /\ suggestion' \in [Logs -> Suggested \cup {Absent}]
          /\ \A f \in Logs : suggestion[f] # Absent => suggestion'[f] # Absent
      BY <1>2, <2>2, <2>3 DEF InitiativeInv, InitiativeTypeOK
    <2>5. \A r \in rating' : r[1] \in DOMAIN decision
      BY <2>2 DEF InitiativeInv
    <2> QED BY <2>2, <2>4, <2>5, SuggestionsStay
  <1>5. CASE \E i \in 1..MaxDecisions, t \in FeedbackTypes : LoseRating(i, t)
    BY <1>5, SuggestionsStay DEF LoseRating, InitiativeInv, InitiativeTypeOK
  <1>6. CASE \E e \in Logs, d \in {"delivered", "failed"} : AttemptDelivery(e, d)
    <2>1. PICK e \in Logs, d \in {"delivered", "failed"} : AttemptDelivery(e, d)
      BY <1>6
    <2>2. PICK u : u = [suggestion[e] EXCEPT !.delivery = d]
      OBVIOUS
    <2>3. u \in Suggested
      BY <2>1, <2>2 DEF AttemptDelivery, InitiativeInv, InitiativeTypeOK, Suggested
    <2>4. suggestion' = [suggestion EXCEPT ![e] = u]
      BY <2>1, <2>2 DEF AttemptDelivery, InitiativeInv, InitiativeTypeOK
    <2>5. /\ suggestion' \in [Logs -> Suggested \cup {Absent}]
          /\ \A f \in Logs : suggestion[f] # Absent => suggestion'[f] # Absent
      BY <2>3, <2>4, AbsentAssumption DEF InitiativeInv, InitiativeTypeOK
    <2> QED BY <2>1, <2>5, SuggestionsStay DEF AttemptDelivery, InitiativeInv
  <1> QED BY <1>3, <1>4, <1>5, <1>6

(* What is disliked, and until when, the calls under way need not know. *)
LEMMA RecordRatingKeeps ==
  ASSUME InitiativeInv, NEW i, NEW t, RecordRating(i, t)
  PROVE  InitiativeInv'
  <1>1. /\ rating' = rating \ {<<i, t>>} /\ i \in DOMAIN decision
        /\ disliked \subseteq disliked' /\ disliked' \subseteq Key
        /\ UNCHANGED <<prefs, initiative, decision, suggestion, evaluation, crowded>>
    <2>1. \A j \in DOMAIN decision : decision[j] \in Decision
      BY ElementOfSeq, LenProperties DEF InitiativeInv, InitiativeTypeOK
    <2>2. i \in DOMAIN decision
      BY DEF RecordRating, InitiativeInv
    <2> QED BY <2>1, <2>2 DEF RecordRating, Decision, InitiativeInv, InitiativeTypeOK
  <1>2. \A l \in Evaluations : CallOK(evaluation[l])'
    <2>1. \A l \in Evaluations : CallOK(evaluation[l]) /\ evaluation'[l] = evaluation[l]
      BY <1>1 DEF InitiativeInv
    <2> QED BY <1>1, <2>1 DEF CallOK, MayCreate, DecisionsOf, RecentKeys
  <1> QED BY <1>1, <1>2 DEF InitiativeInv, InitiativeTypeOK, OneCallEach, DecidedOnce

(* Old feedback is forgotten.                                                *)
LEMMA LookbackEndsKeeps ==
  ASSUME InitiativeInv, NEW key \in Key, LookbackEnds(key)
  PROVE  InitiativeInv'
  <1>1. /\ disliked' = disliked \ {key}
        /\ UNCHANGED <<prefs, initiative, decision, suggestion, rating, crowded>>
    BY DEF LookbackEnds
  <1>2. /\ evaluation' \in [Evaluations -> Evaluation]
        /\ \A l \in Evaluations :
             /\ evaluation'[l].disliked = evaluation[l].disliked \ {key}
             /\ evaluation'[l].pc = evaluation[l].pc
             /\ evaluation'[l].request = evaluation[l].request
             /\ evaluation'[l].log = evaluation[l].log
             /\ evaluation'[l].surface = evaluation[l].surface
             /\ evaluation'[l].status = evaluation[l].status
             /\ evaluation'[l].cooling = evaluation[l].cooling
    <2>1. /\ \A l \in Evaluations :
               /\ evaluation[l] \in Evaluation
               /\ evaluation'[l] = [evaluation[l] EXCEPT !.disliked = @ \ {key}]
          /\ evaluation' = [l \in Evaluations |-> evaluation'[l]]
      BY DEF LookbackEnds, InitiativeInv
    <2>2. ASSUME NEW b \in Evaluation, NEW c, c = [b EXCEPT !.disliked = @ \ {key}]
          PROVE  /\ c \in Evaluation /\ c.disliked = b.disliked \ {key}
                 /\ c.pc = b.pc
                 /\ c.request = b.request
                 /\ c.log = b.log
                 /\ c.surface = b.surface
                 /\ c.status = b.status
                 /\ c.cooling = b.cooling
      BY <2>2 DEF Evaluation
    <2> QED BY <2>1, <2>2
  <1>3. \A l \in Evaluations : CallOK(evaluation[l])'
    <2> SUFFICES ASSUME NEW l \in Evaluations
                 PROVE  CallOK(evaluation[l])'
      OBVIOUS
    <2>1. PICK b, c : b = evaluation[l] /\ c = evaluation'[l]
      OBVIOUS
    <2>2. /\ CallOK(b) /\ c.pc = b.pc /\ c.request = b.request /\ c.log = b.log
          /\ c.surface = b.surface /\ c.status = b.status /\ c.cooling = b.cooling
          /\ c.disliked = b.disliked \ {key}
      BY <1>2, <2>1 DEF InitiativeInv
    <2>3. /\ DecisionsOf(c.request)' = DecisionsOf(b.request)
          /\ RecentKeys' = RecentKeys
      BY <1>1, <2>2 DEF DecisionsOf, RecentKeys
    <2> QED BY <1>1, <2>1, <2>2, <2>3 DEF CallOK, MayCreate
  <1>4. OneCallEach'
    BY <1>1, <1>2 DEF InitiativeInv, OneCallEach
  <1> QED BY <1>1, <1>2, <1>3, <1>4 DEF InitiativeInv, InitiativeTypeOK, DecidedOnce

(* A cooldown ends.                                                          *)
LEMMA CooldownEndsKeeps ==
  ASSUME InitiativeInv, NEW key \in Key, CooldownEnds(key)
  PROVE  InitiativeInv'
  <1>1. UNCHANGED <<prefs, initiative, suggestion, disliked, rating, crowded>>
    BY DEF CooldownEnds
  <1>2. /\ decision \in Seq(Decision) /\ DOMAIN decision = 1 .. Len(decision)
        /\ Len(decision) \in Nat
        /\ \A i \in DOMAIN decision : decision[i] \in Decision
    BY ElementOfSeq, LenProperties DEF InitiativeInv, InitiativeTypeOK
  <1>3. /\ DOMAIN decision' = DOMAIN decision
        /\ \A i \in DOMAIN decision :
             /\ decision'[i] \in Decision
             /\ decision'[i].recent = (decision[i].recent /\ decision[i].key # key)
             /\ decision'[i].request = decision[i].request
             /\ decision'[i].status = decision[i].status
             /\ decision'[i].key = decision[i].key
             /\ decision'[i].log = decision[i].log
    BY <1>2 DEF Decision, CooldownEnds
  <1>4. decision' \in Seq(Decision)
    <2>1. decision' \in [1 .. Len(decision) -> Decision]
      BY <1>2, <1>3 DEF CooldownEnds
    <2> QED BY <1>2, <2>1, SeqDef
  <1>5. /\ evaluation' \in [Evaluations -> Evaluation]
        /\ \A l \in Evaluations :
             /\ evaluation'[l].cooling = evaluation[l].cooling \ {key}
             /\ evaluation'[l].pc = evaluation[l].pc
             /\ evaluation'[l].request = evaluation[l].request
             /\ evaluation'[l].log = evaluation[l].log
             /\ evaluation'[l].surface = evaluation[l].surface
             /\ evaluation'[l].status = evaluation[l].status
             /\ evaluation'[l].disliked = evaluation[l].disliked
    <2>1. /\ \A l \in Evaluations :
               /\ evaluation[l] \in Evaluation
               /\ evaluation'[l] = [evaluation[l] EXCEPT !.cooling = @ \ {key}]
          /\ evaluation' = [l \in Evaluations |-> evaluation'[l]]
      BY DEF CooldownEnds, InitiativeInv
    <2>2. ASSUME NEW b \in Evaluation, NEW c, c = [b EXCEPT !.cooling = @ \ {key}]
          PROVE  /\ c \in Evaluation /\ c.cooling = b.cooling \ {key}
                 /\ c.pc = b.pc
                 /\ c.request = b.request
                 /\ c.log = b.log
                 /\ c.surface = b.surface
                 /\ c.status = b.status
                 /\ c.disliked = b.disliked
      BY <2>2 DEF Evaluation
    <2> QED BY <2>1, <2>2
  <1>6. RecentKeys \ {key} \subseteq RecentKeys'
    BY <1>3 DEF RecentKeys
  <1>7. \A q : DecisionsOf(q)' = DecisionsOf(q)
    BY <1>3 DEF DecisionsOf
  <1>8. \A l \in Evaluations : CallOK(evaluation[l])'
    <2> SUFFICES ASSUME NEW l \in Evaluations
                 PROVE  CallOK(evaluation[l])'
      OBVIOUS
    <2>1. PICK b, c : b = evaluation[l] /\ c = evaluation'[l]
      OBVIOUS
    <2>2. /\ CallOK(b) /\ c.pc = b.pc /\ c.request = b.request /\ c.log = b.log
          /\ c.surface = b.surface /\ c.status = b.status /\ c.disliked = b.disliked
          /\ c.cooling = b.cooling \ {key}
      BY <1>5, <2>1 DEF InitiativeInv
    <2>3. DecisionsOf(c.request)' = DecisionsOf(b.request)
      BY <1>7, <2>2
    <2> QED BY <1>1, <1>6, <2>1, <2>2, <2>3 DEF CallOK, MayCreate
  <1>9. OneCallEach'
    BY <1>1, <1>5 DEF InitiativeInv, OneCallEach
  <1>10. InitiativeTypeOK' /\ DecidedOnce'
    BY <1>1, <1>3, <1>4 DEF InitiativeInv, InitiativeTypeOK, DecidedOnce
  <1> QED BY <1>1, <1>3, <1>5, <1>8, <1>9, <1>10 DEF InitiativeInv

(* PUT of the preferences.                                                   *)
LEMMA PutPreferencesKeeps ==
  ASSUME InitiativeInv, NEW p \in {Absent} \cup SUBSET Surfaces, PutPreferences(p)
  PROVE  InitiativeInv'
  <1>1. prefs' = p
        /\ UNCHANGED <<initiative, decision, suggestion, disliked, rating, evaluation, crowded>>
    BY DEF PutPreferences
  <1>2. \A l \in Evaluations : CallOK(evaluation[l])'
    BY <1>1 DEF InitiativeInv, CallOK, MayCreate, DecisionsOf, RecentKeys
  <1> QED BY <1>1, <1>2 DEF InitiativeInv, InitiativeTypeOK, OneCallEach, DecidedOnce

(* Every step keeps what the calls under way rely on. *)
LEMMA InitiativeStep ==
  ASSUME InitiativeInv, [InitiativeNext]_initVars
  PROVE  InitiativeInv'
  <1>1. CASE UNCHANGED initVars
    <2>1. UNCHANGED <<prefs, initiative, decision, suggestion, disliked, rating,
                      evaluation, crowded>>
      BY <1>1 DEF initVars
    <2>2. \A l \in Evaluations : CallOK(evaluation[l])'
      BY <2>1 DEF InitiativeInv, CallOK, MayCreate, DecisionsOf, RecentKeys
    <2> QED BY <2>1, <2>2 DEF InitiativeInv, InitiativeTypeOK, OneCallEach, DecidedOnce
  <1>2. ASSUME NEW k \in Evaluations, AnswerAgain(k) \/ LoseEvaluation(k)
        PROVE  InitiativeInv'
    BY <1>2, CallEnds DEF AnswerAgain, LoseEvaluation
  <1> QED
    BY <1>1, <1>2, NoteRequestKeeps, ReadingKeeps, SuggestKeeps, RecordDecisionKeeps,
       FeedbackKeeps, RecordRatingKeeps, LookbackEndsKeeps, CooldownEndsKeeps,
       PutPreferencesKeeps DEF InitiativeNext

(* What each call of evaluate_proactive has read stands as long as it is     *)
(* under way, and the unique key on request_id holds.                        *)
THEOREM InitiativeInvariant == InitiativeSpec => []InitiativeInv
  <1>1. InitiativeInit => InitiativeInv
    <2> SUFFICES ASSUME InitiativeInit
                 PROVE  InitiativeInv
      OBVIOUS
    <2>1. /\ decision = <<>> /\ decision \in Seq(Decision) /\ DOMAIN decision = {}
      BY EmptySeq, LenProperties DEF InitiativeInit
    <2>2. \A l \in Evaluations : CallOK(evaluation[l]) /\ evaluation[l].pc = "idle"
      BY NothingUnderWay DEF InitiativeInit, NoEvaluation
    <2> QED BY <2>1, <2>2, NothingUnderWay
            DEF InitiativeInit, InitiativeInv, InitiativeTypeOK, OneCallEach, DecidedOnce
  <1> QED BY <1>1, InitiativeStep, PTL DEF InitiativeSpec

(* A request is decided once however often it is sent and wherever a call of *)
(* it was lost, unless two calls of it overlapped.                           *)
THEOREM RequestsAreDecidedOnce == InitiativeSpec => []DecidedOnce
  BY InitiativeInvariant, PTL DEF InitiativeInv

(* A suggestion is never recorded inside the cooldown, or against the        *)
(* dislike, that its own evaluation has read.                                *)
THEOREM SubjectsStayAlone == InitiativeSpec => SubjectsAreLeftAlone
  <1>1. InitiativeInv /\ [InitiativeNext]_initVars =>
          [\A k \in Evaluations : Created(k) =>
             LET c == evaluation[k] IN
             CooldownKey(c.log, c.surface) \notin c.cooling \cup c.disliked]_initVars
    BY DEF InitiativeInv, CallOK, MayCreate, Created
  <1> QED BY <1>1, InitiativeInvariant, PTL DEF InitiativeSpec, SubjectsAreLeftAlone

-----------------------------------------------------------------------------
(* SchemaMigrations.                                                         *)

(* What the steps of a run have in common. *)

(* A file of a checkout is a script, and not a baseline. *)
LEMMA FilesAreScripts ==
  ASSUME NEW o \in Checkouts, NEW v \in FilesOf(o)
  PROVE  /\ FileOf(o, v) \in Script /\ FileOf(o, v).version = v
         /\ v \in Versions /\ v # BaselineVersion
  BY ManagedAssumption DEF FilesOf, FileOf, Script, Versions, BaselineVersion

(* A step of a run that has left the queue is a step of the lock's holder.   *)
LEMMA StepsNeedTheLock ==
  ASSUME MigrationInv, NEW p \in Runners, runner[p].pc \notin {"idle", "wait"}
  PROVE  /\ lock = p /\ runner[p] \in Run
         /\ \A q \in Runners : q # p => runner[q].pc \in {"idle", "wait"}
  BY DEF MigrationInv, MigrationTypeOK, Locked, NoRun

(* An upgradeable database whose ledger has rows has no gap in it. *)
LEMMA UpgradeableMeans ==
  ASSUME NEW o, Upgradeable(o), ledger # {}
  PROVE  NoneSkipped(o)
  BY DEF Upgradeable, SchemaState

(* A ledger of one baseline. *)
LEMMA OneBaseline ==
  ASSUME NEW o \in Checkouts
  PROVE  /\ BaselineOf(o) \in Script
         /\ Cardinality({r \in {BaselineOf(o)} : r.version = BaselineVersion}) = 1
  <1>1. BaselineOf(o).version = BaselineVersion /\ BaselineOf(o) \in Script
    BY ManagedAssumption DEF BaselineOf, Script
  <1>2. {r \in {BaselineOf(o)} : r.version = BaselineVersion} = {BaselineOf(o)}
    BY <1>1
  <1> QED BY <1>1, <1>2, FS_Singleton

(* The next file keeps the ledger in order. *)
LEMMA NextFileIsInOrder ==
  ASSUME MigrationInv, NEW p \in Runners, ApplyMigration(p)
  PROVE  \E v \in Versions :
           /\ FileOf(Checkout(p), v) \in Script
           /\ FileOf(Checkout(p), v).version = v /\ v # BaselineVersion
           /\ tables' = tables \cup {FileOf(Checkout(p), v)}
           /\ ledger' = ledger \cup {FileOf(Checkout(p), v)}
           /\ \A r \in ledger : r.version < v
           /\ NoneSkipped(Checkout(p))'
  <1> DEFINE o == Checkout(p)
  <1>1. /\ runner[p].pc = "apply" /\ lock = p /\ o \in Checkouts
        /\ NoneSkipped(o) /\ UNCHANGED <<lock, runner>>
    BY StepsNeedTheLock DEF ApplyMigration, AtStep, MigrationInv, HolderKnows, Checkout, Run
  <1>2. PICK v \in Pending(o) :
          /\ \A w \in Pending(o) : v <= w
          /\ tables' = tables \cup {FileOf(o, v)}
          /\ WriteLedger(FileOf(o, v))
    BY DEF ApplyMigration
  <1>3. /\ v \in Versions /\ v # BaselineVersion /\ FileOf(o, v) \in Script
        /\ FileOf(o, v).version = v
    BY <1>1, FilesAreScripts DEF Pending
  <1>4. ledger' = ledger \cup {FileOf(o, v)} /\ ledger \subseteq Script
    BY <1>2 DEF WriteLedger, MigrationInv, MigrationTypeOK
  <1>5. \A r \in ledger : r.version < v
    BY <1>1, <1>3, <1>4, ManagedAssumption
    DEF NoneSkipped, Applied, BaselineRows, Script, Versions, BaselineVersion
  <1>6. NoneSkipped(o)'
    <2>1. Checkout(p)' = o
      BY <1>1 DEF Checkout
    <2>2. Applied' \subseteq Applied \cup {v}
      BY <1>3, <1>4 DEF Applied, BaselineRows
    <2>3. v \in Applied'
      BY <1>3, <1>4 DEF Applied, BaselineRows
    <2>4. Pending(o)' \subseteq Pending(o) \ {v}
      <3>1. Applied \subseteq Applied'
        BY <1>4 DEF Applied, BaselineRows
      <3> QED BY <2>1, <2>3, <3>1 DEF Pending, FilesOf
    <2>5. Pending(o) \subseteq Int /\ v \in Int
      BY <1>3, ManagedAssumption DEF Pending, FilesOf, Versions
    <2> QED BY <1>1, <1>2, <2>1, <2>2, <2>4, <2>5 DEF NoneSkipped
  <1> QED BY <1>1, <1>2, <1>3, <1>4, <1>5, <1>6

-----------------------------------------------------------------------------
(* The invariant. *)

LEMMA MigrationInitInv == MigrationInit => MigrationInv
  <1> SUFFICES ASSUME MigrationInit PROVE MigrationInv
    OBVIOUS
  <1>1. MigrationTypeOK
    <2>1. \A o \in Checkouts : BaselineOf(o) \in Script
      BY OneBaseline
    <2> QED BY <2>1 DEF MigrationInit, MigrationTypeOK
  <1>2. LedgerTellsTables
    BY DEF MigrationInit, LedgerTellsTables
  <1>3. Locked /\ HolderKnows
    BY DEF MigrationInit, Locked, HolderKnows, AtStep, NoRun
  <1> QED BY <1>1, <1>2, <1>3 DEF MigrationInv

(* Steps that write neither tables nor ledger. *)
LEMMA QuietStepInv ==
  ASSUME MigrationInv, NEW p \in Runners, UNCHANGED <<tables, ledger>>,
         \/ \E c \in {"upgrade", "adopt-baseline"}, o \in Checkouts : StartRunner(p, c, o)
         \/ AcquireLock(p) \/ Analyze(p) \/ PlanMigrations(p)
         \/ EndMigrations(p) \/ EndRun(p) \/ LoseRunner(p)
  PROVE  MigrationInv'
  <1> USE DEF MigrationInv
  <1>1. LedgerTellsTables'
    BY DEF LedgerTellsTables, BaselineRows
  <1>2. CASE \E c \in {"upgrade", "adopt-baseline"}, o \in Checkouts : StartRunner(p, c, o)
    <2>1. PICK c \in {"upgrade", "adopt-baseline"}, o \in Checkouts : StartRunner(p, c, o)
      BY <1>2
    <2>2. /\ runner[p] = NoRun /\ lock' = lock
          /\ runner' = [runner EXCEPT ![p] = [pc |-> "wait", command |-> c, checkout |-> o]]
      BY <2>1 DEF StartRunner
    <2>3. MigrationTypeOK'
      BY <2>2 DEF MigrationTypeOK, Run
    <2>4. \A q \in Runners : runner'[q] = runner[q] \/ runner'[q].pc = "wait"
      BY <2>2 DEF MigrationTypeOK
    <2>5. Locked'
      BY <2>2, <2>4 DEF Locked
    <2>6. HolderKnows'
      BY <2>4 DEF HolderKnows, AtStep, Checkout, NoneSkipped, Pending, Applied, BaselineRows
    <2> QED BY <1>1, <2>3, <2>5, <2>6
  <1>3. CASE AcquireLock(p)
    <2>1. /\ runner[p].pc = "wait" /\ lock = NoRunner /\ lock' = p
          /\ runner' = [runner EXCEPT ![p].pc = "analyze"] /\ runner[p] \in Run
      BY <1>3 DEF AcquireLock, AtStep, LockFree, Continue, MigrationTypeOK, NoRun
    <2>2. MigrationTypeOK'
      BY <2>1 DEF MigrationTypeOK, Run
    <2>3. \A q \in Runners : runner'[q] = runner[q] \/ q = p
      BY <2>1 DEF MigrationTypeOK
    <2>4. runner'[p].pc = "analyze"
      BY <2>1 DEF MigrationTypeOK, Run
    <2>5. Locked'
      BY <2>1, <2>3, ManagedAssumption DEF Locked
    <2>6. HolderKnows'
      BY <2>3, <2>4 DEF HolderKnows, AtStep, Checkout, NoneSkipped, Pending, Applied, BaselineRows
    <2> QED BY <1>1, <2>2, <2>5, <2>6
  <1>4. CASE Analyze(p)
    <2>1. runner[p].pc = "analyze" /\ runner[p] \in Run /\ lock = p /\ lock' = lock
      BY <1>4, StepsNeedTheLock DEF Analyze, AtStep
    <2>2. \E pc \in {"install", "plan", "adopt"} :
            /\ runner' = [runner EXCEPT ![p].pc = pc]
            /\ pc = "install" => SchemaState(Checkout(p)) = "empty"
            /\ pc = "adopt" => SchemaState(Checkout(p)) = "adoption_required"
            /\ pc = "plan" => Upgradeable(Checkout(p)) /\ SchemaState(Checkout(p)) # "empty"
      BY <1>4 DEF Analyze, Continue
    <2>3. PICK pc \in {"install", "plan", "adopt"} :
            /\ runner' = [runner EXCEPT ![p].pc = pc]
            /\ pc = "install" => SchemaState(Checkout(p)) = "empty"
            /\ pc = "adopt" => SchemaState(Checkout(p)) = "adoption_required"
            /\ pc = "plan" => Upgradeable(Checkout(p)) /\ SchemaState(Checkout(p)) # "empty"
      BY <2>2
    <2>4. MigrationTypeOK'
      BY <2>1, <2>3 DEF MigrationTypeOK, Run
    <2>5. \A q \in Runners : runner'[q] = runner[q] \/ q = p
      BY <2>3 DEF MigrationTypeOK
    <2>6. runner'[p].pc = pc
      BY <2>1, <2>3 DEF MigrationTypeOK, Run
    <2>7. Locked'
      BY <2>1, <2>5 DEF Locked
    <2>8. /\ pc = "install" => tables = {} /\ ledger = {}
          /\ pc = "adopt" => ledger = {}
          /\ pc = "plan" => ledger # {}
      BY <2>3 DEF SchemaState, Upgradeable
    <2>9. HolderKnows'
      BY <2>5, <2>6, <2>8
      DEF HolderKnows, AtStep, Checkout, NoneSkipped, Pending, Applied, BaselineRows
    <2> QED BY <1>1, <2>4, <2>7, <2>9
  <1>5. CASE PlanMigrations(p)
    <2>1. /\ runner[p].pc = "plan" /\ runner[p] \in Run /\ lock = p /\ lock' = lock
          /\ runner' = [runner EXCEPT ![p].pc = "apply"] /\ Upgradeable(Checkout(p))
      BY <1>5, StepsNeedTheLock DEF PlanMigrations, AtStep, Continue
    <2>2. MigrationTypeOK'
      BY <2>1 DEF MigrationTypeOK, Run
    <2>3. \A q \in Runners : runner'[q] = runner[q] \/ q = p
      BY <2>1 DEF MigrationTypeOK
    <2>4. runner'[p].pc = "apply" /\ runner'[p].checkout = runner[p].checkout
      BY <2>1 DEF MigrationTypeOK, Run
    <2>5. Locked'
      BY <2>1, <2>3 DEF Locked
    <2>6. ledger # {} /\ NoneSkipped(Checkout(p))
      BY <2>1, UpgradeableMeans DEF HolderKnows, AtStep
    <2>7. HolderKnows'
      BY <2>3, <2>4, <2>6
      DEF HolderKnows, AtStep, Checkout, NoneSkipped, Pending, Applied, BaselineRows
    <2> QED BY <1>1, <2>2, <2>5, <2>7
  <1>6. CASE EndMigrations(p)
    <2>1. /\ runner[p].pc = "apply" /\ runner[p] \in Run /\ lock = p /\ lock' = lock
          /\ runner' = [runner EXCEPT ![p].pc = "verify"]
      BY <1>6, StepsNeedTheLock DEF EndMigrations, AtStep, Continue
    <2>2. MigrationTypeOK'
      BY <2>1 DEF MigrationTypeOK, Run
    <2>3. \A q \in Runners : runner'[q] = runner[q] \/ q = p
      BY <2>1 DEF MigrationTypeOK
    <2>4. runner'[p].pc = "verify"
      BY <2>1 DEF MigrationTypeOK, Run
    <2>5. Locked'
      BY <2>1, <2>3 DEF Locked
    <2>6. HolderKnows'
      BY <2>3, <2>4 DEF HolderKnows, AtStep, Checkout, NoneSkipped, Pending, Applied, BaselineRows
    <2> QED BY <1>1, <2>2, <2>5, <2>6
  <1>7. CASE EndRun(p) \/ LoseRunner(p)
    <2>1. /\ runner' = [runner EXCEPT ![p] = NoRun]
          /\ lock' = IF lock = p THEN NoRunner ELSE lock
      BY <1>7 DEF EndRun, LoseRunner, Leave
    <2>2. MigrationTypeOK'
      BY <2>1 DEF MigrationTypeOK
    <2>3. \A q \in Runners : (runner'[q] = runner[q] /\ q # p) \/ runner'[q].pc = "idle"
      BY <2>1 DEF MigrationTypeOK, NoRun
    <2>4. Locked'
      BY <2>1, <2>3 DEF Locked
    <2>5. HolderKnows'
      BY <2>3 DEF HolderKnows, AtStep, Checkout, NoneSkipped, Pending, Applied, BaselineRows
    <2> QED BY <1>1, <2>2, <2>4, <2>5
  <1> QED BY <1>2, <1>3, <1>4, <1>5, <1>6, <1>7

(* Steps that write tables or ledger. *)
LEMMA WritingStepInv ==
  ASSUME MigrationInv, NEW p \in Runners,
         InstallBaseline(p) \/ AdoptBaseline(p) \/ ApplyMigration(p)
  PROVE  MigrationInv'
  <1> USE DEF MigrationInv
  <1>1. /\ runner[p].pc \in {"install", "adopt", "apply"} /\ runner[p] \in Run
        /\ lock = p /\ \A q \in Runners : q # p => runner[q].pc \in {"idle", "wait"}
    <2>1. runner[p].pc \in {"install", "adopt", "apply"}
      BY DEF InstallBaseline, AdoptBaseline, ApplyMigration, AtStep
    <2> QED BY <2>1, StepsNeedTheLock
  <1>2. CASE InstallBaseline(p) \/ AdoptBaseline(p)
    <2> DEFINE b == BaselineOf(Checkout(p))
    <2>1. /\ ledger' = {b} /\ tables' = {b} /\ lock' = lock
      BY <1>2 DEF InstallBaseline, AdoptBaseline, Matches, HolderKnows, AtStep
    <2>2. \E pc \in {"plan", "verify"} : runner' = [runner EXCEPT ![p].pc = pc]
      BY <1>2 DEF InstallBaseline, AdoptBaseline, Continue
    <2>3. Checkout(p) \in Checkouts
      BY <1>1 DEF Checkout, Run
    <2>4. MigrationTypeOK'
      <3>1. tables' \subseteq Script /\ ledger' \subseteq Script
        BY <2>1, <2>3, OneBaseline
      <3>2. runner' \in [Runners -> Run \cup {NoRun}]
        BY <1>1, <2>2 DEF MigrationTypeOK, Run
      <3>3. lock' \in Runners \cup {NoRunner}
        BY <2>1 DEF MigrationTypeOK
      <3> QED BY <3>1, <3>2, <3>3 DEF MigrationTypeOK
    <2>5. LedgerTellsTables'
      BY <2>1, <2>3, OneBaseline DEF LedgerTellsTables, BaselineRows
    <2>6. /\ \A q \in Runners : q # p => runner'[q] = runner[q]
          /\ runner'[p].pc \in {"plan", "verify"}
      BY <1>1, <2>2 DEF MigrationTypeOK, Run
    <2>7. Locked'
      BY <1>1, <2>1, <2>6 DEF Locked
    <2>8. HolderKnows'
      BY <1>1, <2>1, <2>6 DEF HolderKnows, AtStep
    <2> QED BY <2>4, <2>5, <2>7, <2>8
  <1>3. CASE ApplyMigration(p)
    <2>1. PICK v \in Versions :
            /\ FileOf(Checkout(p), v) \in Script
            /\ FileOf(Checkout(p), v).version = v /\ v # BaselineVersion
            /\ tables' = tables \cup {FileOf(Checkout(p), v)}
            /\ ledger' = ledger \cup {FileOf(Checkout(p), v)}
            /\ NoneSkipped(Checkout(p))'
      BY <1>3, NextFileIsInOrder
    <2>2. runner[p].pc = "apply" /\ ledger # {} /\ UNCHANGED <<lock, runner>>
      BY <1>3 DEF ApplyMigration, AtStep, HolderKnows
    <2>3. MigrationTypeOK'
      BY <2>1, <2>2 DEF MigrationTypeOK
    <2>4. LedgerTellsTables'
      BY <2>1, <2>2 DEF LedgerTellsTables, BaselineRows
    <2>5. Locked'
      BY <2>2 DEF Locked
    <2>6. HolderKnows'
      BY <1>1, <2>1, <2>2 DEF HolderKnows, AtStep
    <2> QED BY <2>3, <2>4, <2>5, <2>6
  <1> QED BY <1>2, <1>3

LEMMA MigrationNextInv == MigrationInv /\ [MigrationNext]_migrationVars => MigrationInv'
  <1> SUFFICES ASSUME MigrationInv, [MigrationNext]_migrationVars PROVE MigrationInv'
    OBVIOUS
  <1>1. CASE UNCHANGED migrationVars
    BY <1>1 DEF migrationVars, MigrationInv, MigrationTypeOK, LedgerTellsTables, Locked,
       HolderKnows, BaselineRows, AtStep, Checkout, NoneSkipped, Pending, Applied
  <1>2. ASSUME NEW p \in Runners,
               InstallBaseline(p) \/ AdoptBaseline(p) \/ ApplyMigration(p)
        PROVE  MigrationInv'
    BY <1>2, WritingStepInv
  <1>3. ASSUME NEW p \in Runners,
               \/ \E c \in {"upgrade", "adopt-baseline"}, o \in Checkouts : StartRunner(p, c, o)
               \/ AcquireLock(p) \/ Analyze(p) \/ PlanMigrations(p)
               \/ EndMigrations(p) \/ EndRun(p) \/ LoseRunner(p)
        PROVE  MigrationInv'
    <2>1. UNCHANGED <<tables, ledger>>
      BY <1>3 DEF StartRunner, AcquireLock, Analyze, PlanMigrations, EndMigrations,
         EndRun, LoseRunner
    <2> QED BY <1>3, <2>1, QuietStepInv
  <1> QED BY <1>1, <1>2, <1>3 DEF MigrationNext

-----------------------------------------------------------------------------
(* The inductive invariant of migration runs. *)
THEOREM MigrationInvariant == MigrationSpec => []MigrationInv
  BY MigrationInitInv, MigrationNextInv, PTL DEF MigrationSpec

(* The ledger of an enrolled database lists the scripts that have run on it, *)
(* however many runs of whichever checkouts compete and are lost.            *)
THEOREM LedgersAreTrue == MigrationSpec => []LedgerTellsTables
  BY MigrationInvariant, PTL DEF MigrationInv

(* No migration runs on a database that a later one has changed.             *)
THEOREM MigrationsAreOrdered == MigrationSpec => MigrationsRunInOrder
  <1>1. MigrationInv /\ [MigrationNext]_migrationVars =>
          [\A s \in tables' \ tables : \A r \in ledger : r.version < s.version]_migrationVars
    <2> SUFFICES ASSUME MigrationInv, MigrationNext
                 PROVE  \A s \in tables' \ tables : \A r \in ledger : r.version < s.version
      OBVIOUS
    <2>1. PICK p \in Runners : \/ UNCHANGED tables
                               \/ InstallBaseline(p) \/ ApplyMigration(p)
      BY DEF MigrationNext, StartRunner, AcquireLock, Analyze, AdoptBaseline,
         PlanMigrations, EndMigrations, EndRun, LoseRunner
    <2>2. CASE InstallBaseline(p)
      BY <2>2 DEF InstallBaseline, MigrationInv, HolderKnows
    <2>3. CASE ApplyMigration(p)
      <3>1. PICK v \in Versions :
              /\ FileOf(Checkout(p), v).version = v
              /\ tables' = tables \cup {FileOf(Checkout(p), v)}
              /\ \A r \in ledger : r.version < v
        BY <2>3, NextFileIsInOrder
      <3> QED BY <3>1
    <2> QED BY <2>1, <2>2, <2>3
  <1> QED BY <1>1, MigrationInvariant, PTL DEF MigrationSpec, MigrationsRunInOrder
=============================================================================
