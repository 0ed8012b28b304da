---- MODULE MCObjectLog ----
(* Small instances of ObjectLog for TLC. *)
EXTENDS ObjectLog, TLC

CONSTANTS a, b

Symmetry == Permutations(Hashes)
====
