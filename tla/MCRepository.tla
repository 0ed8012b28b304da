---- MODULE MCRepository ----
(* Small instances of Repository for TLC. *)
EXTENDS Repository, TLC

CONSTANTS c1, c2, x1, x2

Symmetric == Permutations(Procs)

At(one, two) == [c \in Coords |-> IF c = c1 THEN one ELSE two]

\* A snapshot with one chunk and a change set that adds the other one.
Snapshot1 == {At(x1, NoChunk)}
Change1 == {At(Keep, x2)}

\* Also a change set that removes a chunk, and one that changes nothing.
Changes3 == Change1 \union {At(NoChunk, Keep), NoChange}
====
