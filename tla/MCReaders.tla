---- MODULE MCReaders ----
(* One writer and one reader over a store without transactions: worlds of   *)
(* one chunk, which a snapshot sets and a change set replaces.              *)
EXTENDS Readers

CONSTANTS x1, x2

Snapshot1 == {[c \in Coords |-> x1]}
Change1 == {[c \in Coords |-> x2]}
====
