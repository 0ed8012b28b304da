---- MODULE Readers ----
(* The operations that read a repository without its lock, next to the      *)
(* processes of module Repository that change it: open, resolve, load,      *)
(* chunk_hashes (and diff, which is two of them), log and branches. A step  *)
(* is one file or one object read; anything may happen between two.         *)
EXTENDS Repository

CONSTANT Readers  \* read-only users, each with one call in progress

VARIABLES
    rpc,    \* where each reader is
    kind,   \* what it walks: "load", "chunk_hashes" or "log"
    rhead,  \* open: the branch named by the HEAD file it read
    want,   \* the commit it reads
    rtodo,  \* the objects it still has to read
    names,  \* branches: the files it listed and still has to read
    held,   \* history: HEAD or a branch has reached want ever since the start
    born    \* history: listed with a commit, and not deleted since

rvars == <<rpc, kind, rhead, want, rtodo, names, held, born>>
allVars == <<vars, rvars>>

Kinds == {"load", "chunk_hashes", "log"}
RPC == {"idle", "opening", "reading", "done", "failed", "listing"}

RTypeOK == /\ rpc \in [Readers -> RPC]
           /\ kind \in [Readers -> Kinds]
           /\ rhead \in [Readers -> Branches \union {Detached}]
           /\ want \in [Readers -> History]
           /\ rtodo \in [Readers -> SUBSET Object]
           /\ names \in [Readers -> SUBSET Branches]
           /\ held \in [Readers -> BOOLEAN]
           /\ born \in [Readers -> SUBSET Branches]

RInit == /\ Init
         /\ rpc = [r \in Readers |-> "idle"]
         /\ kind = [r \in Readers |-> "log"]
         /\ rhead = [r \in Readers |-> Detached]
         /\ want = [r \in Readers |-> <<>>]
         /\ rtodo = [r \in Readers |-> {}]
         /\ names = [r \in Readers |-> {}]
         /\ held = [r \in Readers |-> FALSE]
         /\ born = [r \in Readers |-> {}]
----
(* Choosing a commit. *)

\* The walk of a known commit starts at its Commit object.
Read(r, k, h) ==
    /\ rpc' = [rpc EXCEPT ![r] = "reading"]
    /\ kind' = [kind EXCEPT ![r] = k]
    /\ want' = [want EXCEPT ![r] = h]
    /\ rtodo' = [rtodo EXCEPT ![r] = {CommitObject(h)}]
    /\ held' = [held EXCEPT ![r] = CommitObject(h) \in Live]
    /\ UNCHANGED <<rhead, names, born>>

\* resolve of a branch name. An unborn branch is an error and changes nothing.
ResolveBranch(r, k, b) ==
    /\ rpc[r] = "idle"
    /\ b \in refFile
    /\ ref[b] # <<>>
    /\ Read(r, k, ref[b])

\* resolve of a hash reads the Commit object; any other hash is an error.
ResolveHash(r, k, h) ==
    /\ rpc[r] = "idle"
    /\ CommitObject(h) \in objects
    /\ Read(r, k, h)

\* open: HEAD first,
OpenHead(r) ==
    /\ rpc[r] = "idle"
    /\ rpc' = [rpc EXCEPT ![r] = "opening"]
    /\ rhead' = [rhead EXCEPT ![r] = HEAD.branch]
    /\ want' = [want EXCEPT ![r] = HEAD.commit]
    /\ UNCHANGED <<kind, rtodo, names, held, born>>

\* then the branch it named, which may have been deleted since; then a walk
\* from the handle's head. Nothing is walked without one.
OpenedHead(r) == IF rhead[r] = Detached THEN want[r] ELSE ref[rhead[r]]

OpenRef(r, k) ==
    /\ rpc[r] = "opening"
    /\ OpenedHead(r) # <<>>
    /\ Read(r, k, OpenedHead(r))

OpenUnborn(r) ==
    /\ rpc[r] = "opening"
    /\ OpenedHead(r) = <<>>
    /\ rpc' = [rpc EXCEPT ![r] = "idle"]
    /\ UNCHANGED <<kind, rhead, want, rtodo, names, held, born>>
----
(* Walking it. *)

\* Seeded fault: the walk of a history does not stop at its first commit.
FollowPastTheFirst(k, o) ==
    CASE o[1] = "commit" /\ k = "log" -> {CommitObject(Parent(o[2]))}
      [] o[1] = "commit" /\ k # "log" -> {Tree(WorldOf(o[2]))}
      [] o[1] = "tree" /\ k = "load"  -> BlobsOf(o[2])
      [] OTHER                        -> {}

\* What an object makes the walk read: log follows parents, chunk_hashes the
\* tree, load the tree and the blobs.
Follow(k, o) ==
    CASE o[1] = "commit" /\ k = "log" ->
            {CommitObject(h) : h \in {Parent(o[2])} \ {<<>>}}
      [] o[1] = "commit" /\ k # "log" -> {Tree(WorldOf(o[2]))}
      [] o[1] = "tree" /\ k = "load"  -> BlobsOf(o[2])
      [] OTHER                        -> {}

ReadObject(r, o) ==
    /\ rpc[r] = "reading"
    /\ o \in rtodo[r]
    /\ o \in objects
    /\ rtodo' = [rtodo EXCEPT ![r] = (@ \ {o}) \union Follow(kind[r], o)]
    /\ UNCHANGED <<rpc, kind, rhead, want, names, held, born>>

\* The object is not in the store: the call returns an error.
MissObject(r, o) ==
    /\ rpc[r] = "reading"
    /\ o \in rtodo[r]
    /\ o \notin objects
    /\ rpc' = [rpc EXCEPT ![r] = "failed"]
    /\ UNCHANGED <<kind, rhead, want, rtodo, names, held, born>>

AllRead(r) ==
    /\ rpc[r] = "reading"
    /\ rtodo[r] = {}
    /\ rpc' = [rpc EXCEPT ![r] = "done"]
    /\ UNCHANGED <<kind, rhead, want, rtodo, names, held, born>>

Return(r) ==
    /\ rpc[r] \in {"done", "failed"}
    /\ rpc' = [rpc EXCEPT ![r] = "idle"]
    /\ kind' = [kind EXCEPT ![r] = "log"]
    /\ rhead' = [rhead EXCEPT ![r] = Detached]
    /\ want' = [want EXCEPT ![r] = <<>>]
    /\ rtodo' = [rtodo EXCEPT ![r] = {}]
    /\ held' = [held EXCEPT ![r] = FALSE]
    /\ UNCHANGED <<names, born>>
----
(* branches: the directory is listed, then each file is read.               *)

ListBranches(r) ==
    /\ rpc[r] = "idle"
    /\ rpc' = [rpc EXCEPT ![r] = "listing"]
    /\ names' = [names EXCEPT ![r] = refFile]
    /\ born' = [born EXCEPT ![r] = {b \in refFile : ref[b] # <<>>}]
    /\ UNCHANGED <<kind, rhead, want, rtodo, held>>

\* A file that is gone reads like an empty one: a branch without a commit.
ReadBranchFile(r, b) ==
    /\ rpc[r] = "listing"
    /\ b \in names[r]
    /\ names' = [names EXCEPT ![r] = @ \ {b}]
    /\ UNCHANGED <<rpc, kind, rhead, want, rtodo, held, born>>

Listed(r) ==
    /\ rpc[r] = "listing"
    /\ names[r] = {}
    /\ rpc' = [rpc EXCEPT ![r] = "idle"]
    /\ born' = [born EXCEPT ![r] = {}]
    /\ UNCHANGED <<kind, rhead, want, rtodo, names, held>>
----
Reader(r) ==
    \/ \E k \in Kinds : \/ \E b \in Branches : ResolveBranch(r, k, b)
                        \/ \E o \in objects : o[1] = "commit" /\ ResolveHash(r, k, o[2])
                        \/ OpenRef(r, k)
    \/ OpenHead(r)
    \/ OpenUnborn(r)
    \/ \E o \in rtodo[r] : ReadObject(r, o) \/ MissObject(r, o)
    \/ AllRead(r)
    \/ Return(r)
    \/ ListBranches(r)
    \/ \E b \in names[r] : ReadBranchFile(r, b)
    \/ Listed(r)

\* What a step of a writer does to the history variables.
Observe ==
    /\ held' = [r \in Readers |-> held[r] /\ CommitObject(want[r]) \in Live']
    /\ born' = [r \in Readers |-> born[r] \intersect refFile']
    /\ UNCHANGED <<rpc, kind, rhead, want, rtodo, names>>

RNext == \/ Next /\ Observe
         \/ (\E r \in Readers : Reader(r)) /\ UNCHANGED vars

RSpec == RInit /\ [][RNext]_allVars
----
(* Properties. *)

\* A reader needs no lock: as long as HEAD or a branch reaches the commit it
\* asked for, whatever is committed, collected, deleted or crashes meanwhile,
\* it finds every object. An error means the commit became unreachable.
ReadersFindWhatIsReachable ==
    \A r \in Readers : rpc[r] = "failed" => ~held[r]

\* branches lists a branch that had a commit when it looked without one only
\* if the branch was deleted during the call: no writer ever leaves the file
\* of a branch with commits empty, not for an instant.
ListingShowsCommits ==
    \A r \in Readers : \A b \in born[r] : ref[b] # <<>>
====
