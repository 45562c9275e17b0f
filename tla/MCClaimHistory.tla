--------------------------- MODULE MCClaimHistory ---------------------------
(* Small instances of ClaimHistory for TLC. *)
EXTENDS ClaimHistory, TLC

CONSTANTS s1, u1, q1, q2, c1, c2

Doc(of, c, presented, refs) ==
  [scope |-> s1, surface |-> u1, ok |-> TRUE,
   manifest |-> [of |-> of, ready |-> TRUE, safe |-> TRUE],
   reasoning |-> [claim |-> c, presented |-> presented, visible |-> TRUE],
   refs |-> refs]
MCDocuments ==
  {Doc(1, c2, FALSE, {1, 2}),
   [Doc(2, c2, FALSE, {1}) EXCEPT !.ok = FALSE],
   [Doc(1, c1, TRUE, {1}) EXCEPT !.manifest = Null]}

Body(c, q, m, version, presented, evidence) ==
  [claim |-> c, scope |-> s1, request |-> q, answer |-> m, surface |-> u1,
   version |-> version, presented |-> presented, anchored |-> version = "v1",
   linked |-> version = "v1" /\ m = 1, evidence |-> evidence]
MCSubmissions ==
  {Body(c1, q1, 1, "v1", TRUE, {}), Body(c2, q1, 1, "v1", TRUE, {}),
   Body(c1, q2, 2, "v1", TRUE, {1}), Body(c1, q1, 2, "v2", TRUE, {1}),
   Body(c2, q1, 1, "v2", FALSE, {})}
=============================================================================
