---------------------------- MODULE MCWorkLocking ----------------------------
(* Small instances of WorkLocking for TLC. *)
EXTENDS WorkLocking, TLC

Symmetry == Permutations(Procs) \cup Permutations(Messages)
              \cup Permutations(Requests)
=============================================================================
