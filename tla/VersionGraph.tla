---- MODULE VersionGraph ----
(* What a chunklog repository promises its users, with no lock, no object   *)
(* store layout and no processes: a set of stored versions, branches that   *)
(* name versions, and one HEAD. Every operation of the Repository API that  *)
(* changes a reference is one atomic step. Module Repository implements it. *)
EXTENDS Naturals, Sequences

CONSTANTS
    Branches,       \* branch names
    DefaultBranch,  \* the branch HEAD names after init ("main")
    Detached,       \* HEAD.branch when HEAD holds a commit address
    Entry           \* what one commit adds to the history it extends

VARIABLES
    HEAD,     \* the HEAD file: a branch, or Detached and a version
    refFile,  \* the branches whose ref file exists
    ref,      \* the version each ref file holds; <<>> when unborn or missing
    stored    \* the versions whose commit object is in the store

vars == <<HEAD, refFile, ref, stored>>

\* A version is its first-parent history, oldest entry first; <<>> is no
\* version at all (an unborn branch).
History == Seq(Entry)
Version == History \ {<<>>}

Parent(h) == SubSeq(h, 1, Len(h) - 1)
Ancestry(h) == {SubSeq(h, 1, i) : i \in 1 .. Len(h)}

HeadCommit == IF HEAD.branch = Detached THEN HEAD.commit ELSE ref[HEAD.branch]

\* Every version that HEAD or a branch reaches.
Reachable == Ancestry(HeadCommit) \union UNION {Ancestry(ref[b]) : b \in refFile}

Init == /\ HEAD = [branch |-> DefaultBranch, commit |-> <<>>]
        /\ refFile = {}
        /\ ref = [b \in Branches |-> <<>>]
        /\ stored = {}

\* The objects of a new child of HEAD reach the store.
Store == /\ \E e \in Entry : stored' = stored \union {Append(HeadCommit, e)}
         /\ UNCHANGED <<HEAD, refFile, ref>>

\* HEAD's branch (or HEAD itself) moves to a stored child of the version it
\* names now.
Publish(h) == /\ Len(h) > 0
              /\ Parent(h) = HeadCommit
              /\ IF HEAD.branch = Detached
                   THEN /\ HEAD' = [HEAD EXCEPT !.commit = h]
                        /\ UNCHANGED <<refFile, ref>>
                   ELSE /\ ref' = [ref EXCEPT ![HEAD.branch] = h]
                        /\ refFile' = refFile \union {HEAD.branch}
                        /\ UNCHANGED HEAD
              /\ UNCHANGED stored

CreateBranch(b) == /\ b \notin refFile
                   /\ refFile' = refFile \union {b}
                   /\ ref' = [ref EXCEPT ![b] = HeadCommit]
                   /\ UNCHANGED <<HEAD, stored>>

DeleteBranch(b) == /\ b \in refFile
                   /\ b # HEAD.branch
                   /\ refFile' = refFile \ {b}
                   /\ ref' = [ref EXCEPT ![b] = <<>>]
                   /\ UNCHANGED <<HEAD, stored>>

Switch(b) == /\ b \in refFile
             /\ ref[b] \in stored
             /\ HEAD' = [branch |-> b, commit |-> <<>>]
             /\ UNCHANGED <<refFile, ref, stored>>

Detach(h) == /\ HEAD' = [branch |-> Detached, commit |-> h]
             /\ UNCHANGED <<refFile, ref, stored>>

\* Garbage collection may forget any version that nothing reaches, and
\* never one that HEAD or a branch reaches.
Collect(gone) == /\ gone \intersect Reachable = {}
                 /\ stored' = stored \ gone
                 /\ UNCHANGED <<HEAD, refFile, ref>>

Next == \/ Store
        \/ \E h \in stored : Publish(h) \/ Detach(h)
        \/ \E b \in Branches : CreateBranch(b) \/ DeleteBranch(b) \/ Switch(b)
        \/ \E gone \in SUBSET stored : Collect(gone)

Spec == Init /\ [][Next]_vars
====
