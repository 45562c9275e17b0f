--------------------------- MODULE MCMessageIndex ---------------------------
(* Small instances of MessageIndex for TLC. *)
EXTENDS MessageIndex, TLC

Symmetry == Permutations(Works) \cup Permutations(Messages)
              \cup Permutations(Payloads)
=============================================================================
