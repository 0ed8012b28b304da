---- MODULE TransactionalStore ----
(* What an object store with batches promises the process that owns it: its *)
(* own writes are visible to it at once, a batch becomes visible to the next *)
(* owner as a whole or not at all, a batch whose commit failed can be        *)
(* dropped or tried again, and a batch that was committed outlives the       *)
(* machine. When an owner dies inside a commit, the next one may find a      *)
(* batch that does not yet: only a commit that changes something, or a       *)
(* failed one, promises that it does.                                        *)
CONSTANT Hashes  \* object addresses

VARIABLES
    stored,     \* the objects that the next owner finds
    survivors,  \* what a power failure may leave of them
    view,       \* the objects the owner reads and lists
    mode        \* no owner, an owner, or an owner inside commit_batch

vars == <<stored, survivors, view, mode>>

Init == stored = {} /\ survivors = {{}} /\ view = {} /\ mode = "closed"

\* Cutting an incomplete tail makes what is left durable.
Open == /\ mode = "closed"
        /\ mode' = "open"
        /\ survivors' \in {survivors, {stored}}
        /\ UNCHANGED <<stored, view>>

Write(h) == /\ mode = "open"
            /\ view' = view \union {h}
            /\ UNCHANGED <<stored, survivors, mode>>

Delete(h) == /\ mode = "open"
             /\ view' = view \ {h}
             /\ UNCHANGED <<stored, survivors, mode>>

Rollback == /\ mode = "open"
            /\ view' = stored
            /\ UNCHANGED <<stored, survivors, mode>>

Commit == /\ mode = "open"
          /\ mode' = "committing"
          /\ survivors' \in {survivors, survivors \union {view}}
          /\ UNCHANGED <<stored, view>>

\* A commit that fails leaves the batch to its owner, or drops it when it was
\* the batch of a single write or delete. Either way the outcome is durable.
Return == /\ mode = "committing"
          /\ mode' = "open"
          /\ \/ stored' = view /\ UNCHANGED view
             \/ view' \in {view, stored} /\ UNCHANGED stored
          /\ survivors' = {stored'}

\* The owner closes the store or dies. Only inside commit_batch is it open
\* whether the next one finds the batch.
Stop == /\ mode # "closed"
        /\ mode' = "closed"
        /\ stored' \in IF mode = "committing" THEN {stored, view} ELSE {stored}
        /\ stored' \in survivors
        /\ view' = stored'
        /\ UNCHANGED survivors

LosePower == /\ mode' = "closed"
             /\ stored' \in survivors
             /\ survivors' = {stored'}
             /\ view' = stored'

Next == \/ Open \/ Rollback \/ Commit \/ Return \/ Stop \/ LosePower
        \/ \E h \in Hashes : Write(h) \/ Delete(h)

Spec == Init /\ [][Next]_vars
====
