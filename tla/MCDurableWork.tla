---------------------------- MODULE MCDurableWork ----------------------------
(* Small instances of DurableWork for TLC. *)
EXTENDS DurableWork, TLC

\* Identifiers and callers are interchangeable.
Symmetry == Permutations(Owners) \cup Permutations(Works)
              \cup Permutations(Messages) \cup Permutations(Convs)
              \cup Permutations(Requests) \cup Permutations(Reconcilers)
=============================================================================
