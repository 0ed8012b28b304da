---- MODULE AtomicStore ----
(* What write and delete of an object store promise when several callers    *)
(* use it at once, each alone and without a batch: a write that returns Ok  *)
(* left the object there in one step, one that returns an error changed     *)
(* nothing, and a caller that dies half-way has done one or the other.      *)
(* Module LooseStore implements it with files.                              *)
CONSTANTS
    Hashes,   \* object addresses
    Writers,  \* callers
    NoHash    \* a caller that is not writing

VARIABLES
    stored,  \* the objects that can be read
    target,  \* the object each caller is writing
    call     \* where its call is: "idle", "pending", "ok" or "err"

vars == <<stored, target, call>>

Init == /\ stored = {}
        /\ target = [w \in Writers |-> NoHash]
        /\ call = [w \in Writers |-> "idle"]

Call(w, h) == /\ call[w] = "idle"
              /\ call' = [call EXCEPT ![w] = "pending"]
              /\ target' = [target EXCEPT ![w] = h]
              /\ UNCHANGED stored

Succeed(w) == /\ call[w] = "pending"
              /\ call' = [call EXCEPT ![w] = "ok"]
              /\ stored' = stored \union {target[w]}
              /\ UNCHANGED target

Fail(w) == /\ call[w] = "pending"
           /\ call' = [call EXCEPT ![w] = "err"]
           /\ UNCHANGED <<stored, target>>

Return(w) == /\ call[w] \in {"ok", "err"}
             /\ call' = [call EXCEPT ![w] = "idle"]
             /\ target' = [target EXCEPT ![w] = NoHash]
             /\ UNCHANGED stored

Delete(h) == /\ stored' = stored \ {h}
             /\ UNCHANGED <<target, call>>

\* Some callers die; what they were writing is not there, or was already.
Die(dead) == /\ call' = [w \in Writers |-> IF w \in dead THEN "idle" ELSE call[w]]
             /\ target' = [w \in Writers |-> IF w \in dead THEN NoHash ELSE target[w]]
             /\ UNCHANGED stored

\* The store promises nothing across a power failure but that a damaged
\* object is not taken for a stored one.
LosePower(lost) == /\ stored' = stored \ lost
                   /\ call' = [w \in Writers |-> "idle"]
                   /\ target' = [w \in Writers |-> NoHash]

Next == \/ \E w \in Writers : \/ \E h \in Hashes : Call(w, h)
                              \/ Succeed(w)
                              \/ Fail(w)
                              \/ Return(w)
        \/ \E h \in Hashes : Delete(h)
        \/ \E dead \in SUBSET Writers : Die(dead)
        \/ \E lost \in SUBSET Hashes : LosePower(lost)

Spec == Init /\ [][Next]_vars
====
