---------------------------- MODULE WorkContract ----------------------------
(* What the durable-work API promises a client, without conversations,       *)
(* bindings, claims or locators: a work is admitted once, moves forward      *)
(* only, and ends either with one published answer or with a failure; what   *)
(* readers can see only ever grows; an answer becomes visible in the very    *)
(* step that completes its work.                                             *)

CONSTANTS Works,     \* work_items.work_id
          Messages,  \* messages.id
          None       \* SQL NULL

VARIABLES status,    \* what GET /work-items/{id} reports for each work
          answer,    \* the assistant_message_id of each completed work
          visible    \* the messages ordinary reads return

vars == <<status, answer, visible>>

Open == {"pending", "running"}

Init ==
  /\ status = [w \in Works |-> "absent"]
  /\ answer = [w \in Works |-> None]
  /\ visible = {}

Admit(w) ==
  /\ status[w] = "absent"
  /\ status' = [status EXCEPT ![w] = "pending"]
  /\ UNCHANGED <<answer, visible>>

Start(w) ==
  /\ status[w] = "pending"
  /\ status' = [status EXCEPT ![w] = "running"]
  /\ UNCHANGED <<answer, visible>>

Publish(w, m) ==
  /\ status[w] = "running"
  /\ \A v \in Works : answer[v] # m
  /\ status' = [status EXCEPT ![w] = "completed"]
  /\ answer' = [answer EXCEPT ![w] = m]
  /\ visible' = visible \cup {m}

Fail(S) ==
  /\ \A w \in S : status[w] \in Open
  /\ status' = [w \in Works |-> IF w \in S THEN "failed" ELSE status[w]]
  /\ UNCHANGED <<answer, visible>>

Speak(m) ==
  /\ m \notin visible
  /\ visible' = visible \cup {m}
  /\ UNCHANGED <<status, answer>>

Next ==
  \/ \E w \in Works : Admit(w) \/ Start(w)
  \/ \E w \in Works, m \in Messages : Publish(w, m)
  \/ \E S \in SUBSET Works : Fail(S)
  \/ \E m \in Messages : Speak(m)

Spec == Init /\ [][Next]_vars
=============================================================================
