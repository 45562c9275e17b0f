--------------------------- MODULE MCEventIngest ---------------------------
(* Small instances of EventIngest for TLC. *)
EXTENDS EventIngest
=============================================================================
