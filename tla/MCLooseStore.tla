---- MODULE MCLooseStore ----
(* Two threads of a process that comes back under its old id or another     *)
(* one, as in a container.                                                  *)
EXTENDS LooseStore
MCProcOf == [w \in Writers |-> CHOOSE p \in Procs : TRUE]
====
