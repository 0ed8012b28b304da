---- MODULE Repository ----
(* The mutating operations of a chunklog repository, as processes that each *)
(* hold one Repository handle run them against one .chunklog directory:     *)
(* commit_snapshot, commit_changes, collect_garbage, create_branch,         *)
(* delete_branch and checkout, under the LOCK file, over an object store    *)
(* that is transactional (SqliteStore) or not (FilesystemStore). A step is  *)
(* one durable effect or one read that a later step relies on; a process    *)
(* may crash between any two of them.                                       *)
EXTENDS Naturals, Sequences, FiniteSets

CONSTANTS
    Procs,          \* processes, each with at most one open handle
    Branches,       \* the branch names in use
    DefaultBranch,  \* "main"
    Detached,       \* current_branch = None
    Coords,         \* chunk coordinates
    Payloads,       \* chunk payloads
    NoChunk,        \* a world without a chunk here; in a change set: removed
    Keep,           \* in a change set: coordinate not mentioned
    Stamps,         \* timestamp and message of a commit
    Snapshots,      \* the worlds passed to commit_snapshot
    ChangeSets,     \* the change sets passed to commit_changes
    MaxHistory,     \* bound: longest history a commit may produce
    MaxCommits,     \* bound: commits in the store when another one is started
    Transactional,  \* begin/commit/rollback_batch are real (SqliteStore)
    IoFaults,       \* any storage or reference operation may fail
    LockFaults,     \* writing or removing the LOCK file may fail
    Crashes,        \* a process may die inside an operation
    OrphanCheckout  \* users check out commits that no reference reaches

World == [Coords -> Payloads \union {NoChunk}]
ChangeSet == [Coords -> Payloads \union {NoChunk, Keep}]

ASSUME BranchAssumption == /\ DefaultBranch \in Branches
                           /\ Detached \notin Branches

ASSUME DataAssumption == /\ NoChunk \notin Payloads
                         /\ Keep \notin Payloads \union {NoChunk}
                         /\ Snapshots \subseteq World
                         /\ ChangeSets \subseteq ChangeSet
                         /\ MaxHistory \in Nat
                         /\ MaxCommits \in Nat

ASSUME FlagAssumption == /\ Transactional \in BOOLEAN
                         /\ IoFaults \in BOOLEAN
                         /\ LockFaults \in BOOLEAN
                         /\ Crashes \in BOOLEAN
                         /\ OrphanCheckout \in BOOLEAN

VARIABLES
    lock,     \* the LOCK file exists
    HEAD,     \* the HEAD file: [branch, commit]; commit is <<>> when symbolic
    refFile,  \* the branches that have a file under refs/heads
    ref,      \* what each ref file holds; <<>> when empty or missing
    objects,  \* the object store, as every other connection reads it
    batch,    \* the object store, as the holder of the open batch reads it
    pc,       \* where each process is
    op,       \* the operation it runs
    branch,   \* handle: current_branch
    head,     \* handle: head
    cand,     \* the commit being built
    todo,     \* objects left to write, to mark, or to delete
    marked    \* collect_garbage: reachable

files == <<HEAD, refFile, ref>>
store == <<objects, batch>>
handle == <<branch, head>>
work == <<cand, todo, marked>>
vars == <<lock, HEAD, refFile, ref, objects, batch, pc, op, branch, head,
          cand, todo, marked>>
----
(* Objects. A hash covers everything below it, so two commits have one      *)
(* address exactly when they have one history: a commit is the sequence of  *)
(* its ancestors' entries, oldest first, and <<>> is "no commit". One tree  *)
(* object stands for all the radix nodes of a world.                        *)

Entry == [world : World, stamp : Stamps]
History == Seq(Entry)
Version == History \ {<<>>}

Blob(x) == <<"blob", x>>
Tree(w) == <<"tree", w>>
CommitObject(h) == <<"commit", h>>

Object == ({"blob"} \X Payloads) \union ({"tree"} \X World)
            \union ({"commit"} \X Version)

EmptyWorld == [c \in Coords |-> NoChunk]
Parent(h) == SubSeq(h, 1, Len(h) - 1)
WorldOf(h) == IF h = <<>> THEN EmptyWorld ELSE h[Len(h)].world

BlobsOf(w) == {Blob(w[c]) : c \in {d \in Coords : w[d] # NoChunk}}

\* Seeded fault: tree leaves are not followed to their blobs.
ChildrenWithoutBlobs(o) ==
    IF o[1] = "commit"
      THEN {Tree(WorldOf(o[2]))}
             \union {CommitObject(h) : h \in {Parent(o[2])} \ {<<>>}}
      ELSE {}

\* The addresses an object holds, which collect_garbage follows.
Children(o) ==
    CASE o[1] = "blob"   -> {}
      [] o[1] = "tree"   -> BlobsOf(o[2])
      [] o[1] = "commit" -> {Tree(WorldOf(o[2]))}
            \union {CommitObject(h) : h \in {Parent(o[2])} \ {<<>>}}

\* The objects a version needs: itself, its ancestors, and all their data.
Needs(h) == UNION {{CommitObject(SubSeq(h, 1, i)), Tree(h[i].world)}
                     \union BlobsOf(h[i].world) : i \in 1 .. Len(h)}

\* A change set laid over the world it changes.
Applied(w, change) ==
    [c \in Coords |-> IF change[c] = Keep THEN w[c] ELSE change[c]]

Upserts(change) ==
    {Blob(change[c]) : c \in {d \in Coords : change[d] \in Payloads}}

NoChange == [c \in Coords |-> Keep]
----
(* Where a process can be. *)

CommitOps == {"commit_snapshot", "commit_changes"}
BranchOps == {"create_branch", "delete_branch", "checkout"}
Ops == CommitOps \union BranchOps \union {"collect_garbage"}

\* Steps at which a process's object batch is open.
InBatch == {"base", "blobs", "commit", "flush", "sweep"}

\* Steps between RepositoryLock::acquire and its drop.
Section == InBatch \union {"refresh", "run", "begin", "publish", "roots",
                           "mark", "ok", "err"}

PC == Section \union {"closed", "opening", "idle"}

TypeOK ==
    /\ lock \in BOOLEAN
    /\ HEAD \in [branch : Branches \union {Detached}, commit : History]
    /\ refFile \subseteq Branches
    /\ ref \in [Branches -> History]
    /\ objects \subseteq Object
    /\ batch \subseteq Object
    /\ pc \in [Procs -> PC]
    /\ op \in [Procs -> Ops \union {"none"}]
    /\ branch \in [Procs -> Branches \union {Detached}]
    /\ head \in [Procs -> History]
    /\ cand \in [Procs -> History]
    /\ todo \in [Procs -> SUBSET Object]
    /\ marked \in [Procs -> SUBSET Object]

\* read_head, then read_branch_ref_path: an empty or missing ref is no commit.
HeadCommit == IF HEAD.branch = Detached THEN HEAD.commit ELSE ref[HEAD.branch]

\* Seeded fault: an unborn branch counts as a root.
RootsWithUnborn == {HeadCommit} \union {ref[b] : b \in refFile}

Roots == ({HeadCommit} \union {ref[b] : b \in refFile}) \ {<<>>}
Live == UNION {Needs(h) : h \in Roots}

\* The commits in the store, reachable or not.
StoredVersions == {o[2] : o \in {x \in objects : x[1] = "commit"}}

\* The repository right after initialize_repository; nobody has opened it.
Init == /\ lock = FALSE
        /\ HEAD = [branch |-> DefaultBranch, commit |-> <<>>]
        /\ refFile = {}
        /\ ref = [b \in Branches |-> <<>>]
        /\ objects = {}
        /\ batch = {}
        /\ pc = [p \in Procs |-> "closed"]
        /\ op = [p \in Procs |-> "none"]
        /\ branch = [p \in Procs |-> Detached]
        /\ head = [p \in Procs |-> <<>>]
        /\ cand = [p \in Procs |-> <<>>]
        /\ todo = [p \in Procs |-> {}]
        /\ marked = [p \in Procs |-> {}]
----
(* Opening and closing a handle; neither takes the lock. *)

\* read_head reads HEAD first and the branch file it names second.
OpenReadHead(p) ==
    /\ pc[p] = "closed"
    /\ branch' = [branch EXCEPT ![p] = HEAD.branch]
    /\ head' = [head EXCEPT ![p] = HEAD.commit]
    /\ pc' = [pc EXCEPT ![p] = "opening"]
    /\ UNCHANGED <<lock, files, store, op, work>>

OpenReadRef(p) ==
    /\ pc[p] = "opening"
    /\ head' = [head EXCEPT ![p] =
                   IF branch[p] = Detached THEN @ ELSE ref[branch[p]]]
    /\ pc' = [pc EXCEPT ![p] = "idle"]
    /\ UNCHANGED <<lock, files, store, op, branch, work>>

Close(p) ==
    /\ pc[p] = "idle"
    /\ pc' = [pc EXCEPT ![p] = "closed"]
    /\ branch' = [branch EXCEPT ![p] = Detached]
    /\ head' = [head EXCEPT ![p] = <<>>]
    /\ UNCHANGED <<lock, files, store, op, work>>
----
(* The lock. A process that finds LOCK present fails and changes nothing.   *)

\* Seeded fault: the file is opened with create, not create_new.
AcquireUnchecked(p, k) ==
    /\ pc[p] = "idle"
    /\ k \in CommitOps => /\ Len(HeadCommit) < MaxHistory
                          /\ Cardinality(StoredVersions) < MaxCommits
    /\ lock' = TRUE
    /\ op' = [op EXCEPT ![p] = k]
    /\ pc' = [pc EXCEPT ![p] =
                 IF k = "collect_garbage" THEN "roots" ELSE "refresh"]
    /\ UNCHANGED <<files, store, handle, work>>

\* create_new succeeded and the guard exists. The two bounds are on commits.
Acquire(p, k) ==
    /\ pc[p] = "idle"
    /\ ~lock
    /\ k \in CommitOps => /\ Len(HeadCommit) < MaxHistory
                          /\ Cardinality(StoredVersions) < MaxCommits
    /\ lock' = TRUE
    /\ op' = [op EXCEPT ![p] = k]
    /\ pc' = [pc EXCEPT ![p] =
                 IF k = "collect_garbage" THEN "roots" ELSE "refresh"]
    /\ UNCHANGED <<files, store, handle, work>>

\* create_new succeeded, writing or syncing the pid did not: the operation
\* fails before the guard that would remove the file exists.
AcquireTorn(p) ==
    /\ LockFaults
    /\ pc[p] = "idle"
    /\ ~lock
    /\ lock' = TRUE
    /\ UNCHANGED <<files, store, pc, op, handle, work>>

\* What the process forgets when its operation ends.
Forget(p) == /\ op' = [op EXCEPT ![p] = "none"]
             /\ cand' = [cand EXCEPT ![p] = <<>>]
             /\ todo' = [todo EXCEPT ![p] = {}]
             /\ marked' = [marked EXCEPT ![p] = {}]

\* Seeded fault: an error path that never drops the guard.
ReleaseOnSuccess(p) ==
    /\ pc[p] = "ok"
    /\ lock' = FALSE
    /\ pc' = [pc EXCEPT ![p] = "idle"]
    /\ Forget(p)
    /\ UNCHANGED <<files, store, handle>>

\* Drop of RepositoryLock removes LOCK by its path and ignores a failure.
Release(p) ==
    /\ pc[p] \in {"ok", "err"}
    /\ \/ lock' = FALSE
       \/ LockFaults /\ UNCHANGED lock
    /\ pc' = [pc EXCEPT ![p] = "idle"]
    /\ Forget(p)
    /\ UNCHANGED <<files, store, handle>>

\* The process dies: its open transaction is rolled back, LOCK stays.
Crash(p) ==
    /\ Crashes
    /\ pc[p] \in Section
    /\ batch' = objects
    /\ pc' = [pc EXCEPT ![p] = "closed"]
    /\ branch' = [branch EXCEPT ![p] = Detached]
    /\ head' = [head EXCEPT ![p] = <<>>]
    /\ Forget(p)
    /\ UNCHANGED <<lock, files, objects>>

\* The operator removes a stale LOCK after confirming that no writer is active.
RemoveStaleLock ==
    /\ lock
    /\ \A p \in Procs : pc[p] \notin Section
    /\ lock' = FALSE
    /\ UNCHANGED <<files, store, pc, op, handle, work>>
----
(* The first steps under the lock. *)

\* Seeded fault: the handle keeps the head it was opened with.
RefreshNothing(p) ==
    /\ pc[p] = "refresh"
    /\ pc' = [pc EXCEPT ![p] = IF op[p] \in CommitOps THEN "begin" ELSE "run"]
    /\ UNCHANGED <<lock, files, store, op, handle, work>>

RefreshHead(p) ==
    /\ pc[p] = "refresh"
    /\ branch' = [branch EXCEPT ![p] = HEAD.branch]
    /\ head' = [head EXCEPT ![p] = HeadCommit]
    /\ pc' = [pc EXCEPT ![p] = IF op[p] \in CommitOps THEN "begin" ELSE "run"]
    /\ UNCHANGED <<lock, files, store, op, work>>

\* atomic_write replaced the file. It may still report an error, from the
\* directory sync after the rename; the handle is then not updated.
Wrote(p) == \/ pc' = [pc EXCEPT ![p] = "ok"]
            \/ IoFaults /\ pc' = [pc EXCEPT ![p] = "err"]

MoveHandle(p, b, h) ==
    IF pc'[p] = "ok"
      THEN /\ branch' = [branch EXCEPT ![p] = b]
           /\ head' = [head EXCEPT ![p] = h]
      ELSE UNCHANGED handle

\* Seeded fault: an existing branch is overwritten.
CreateBranchOver(p, b) ==
    /\ pc[p] = "run"
    /\ op[p] = "create_branch"
    /\ refFile' = refFile \union {b}
    /\ ref' = [ref EXCEPT ![b] = head[p]]
    /\ Wrote(p)
    /\ UNCHANGED <<lock, HEAD, store, op, handle, work>>

CreateBranch(p, b) ==
    /\ pc[p] = "run"
    /\ op[p] = "create_branch"
    /\ b \notin refFile
    /\ refFile' = refFile \union {b}
    /\ ref' = [ref EXCEPT ![b] = head[p]]
    /\ Wrote(p)
    /\ UNCHANGED <<lock, HEAD, store, op, handle, work>>

\* Seeded fault: the current branch may be deleted.
DeleteAnyBranch(p, b) ==
    /\ pc[p] = "run"
    /\ op[p] = "delete_branch"
    /\ b \in refFile
    /\ refFile' = refFile \ {b}
    /\ ref' = [ref EXCEPT ![b] = <<>>]
    /\ pc' = [pc EXCEPT ![p] = "ok"]
    /\ UNCHANGED <<lock, HEAD, store, op, handle, work>>

DeleteBranch(p, b) ==
    /\ pc[p] = "run"
    /\ op[p] = "delete_branch"
    /\ b # branch[p]
    /\ b \in refFile
    /\ refFile' = refFile \ {b}
    /\ ref' = [ref EXCEPT ![b] = <<>>]
    /\ pc' = [pc EXCEPT ![p] = "ok"]
    /\ UNCHANGED <<lock, HEAD, store, op, handle, work>>

CheckoutBranch(p, b) ==
    /\ pc[p] = "run"
    /\ op[p] = "checkout"
    /\ b \in refFile
    /\ ref[b] # <<>>
    /\ CommitObject(ref[b]) \in objects
    /\ HEAD' = [branch |-> b, commit |-> <<>>]
    /\ Wrote(p)
    /\ MoveHandle(p, b, ref[b])
    /\ UNCHANGED <<lock, refFile, ref, store, op, work>>

\* A user names a stored commit; only its Commit object is read.
CheckoutCommit(p, h) ==
    /\ pc[p] = "run"
    /\ op[p] = "checkout"
    /\ CommitObject(h) \in objects
    /\ OrphanCheckout \/ CommitObject(h) \in Live
    /\ HEAD' = [branch |-> Detached, commit |-> h]
    /\ Wrote(p)
    /\ MoveHandle(p, Detached, h)
    /\ UNCHANGED <<lock, refFile, ref, store, op, work>>

\* The argument names a branch that exists already.
RefusesCreate(p) == op[p] = "create_branch" /\ refFile # {}

\* It is the current branch, or none.
RefusesDelete(p) == op[p] = "delete_branch"

\* It is an unborn branch, or neither a branch nor a stored commit.
RefusesCheckout(p) == op[p] = "checkout"

Refuse(p) ==
    /\ pc[p] = "run"
    /\ RefusesCreate(p) \/ RefusesDelete(p) \/ RefusesCheckout(p)
    /\ pc' = [pc EXCEPT ![p] = "err"]
    /\ UNCHANGED <<lock, files, store, op, handle, work>>
----
(* Object batches. A store without transactions writes through.             *)

Put(o) == /\ batch' = batch \union {o}
          /\ objects' = IF Transactional THEN objects ELSE batch'

Delete(o) == /\ batch' = batch \ {o}
             /\ objects' = IF Transactional THEN objects ELSE batch'

\* BEGIN IMMEDIATE is refused while another connection's batch is open.
CanBegin == Transactional => \A q \in Procs : pc[q] \notin InBatch

\* A commit goes on to write; a collection whose marking is complete lists
\* the store and goes on to delete what it did not mark.
BeginBatch(p) ==
    /\ CanBegin
    /\ \/ /\ pc[p] = "begin"
          /\ pc' = [pc EXCEPT ![p] = "base"]
          /\ UNCHANGED todo
       \/ /\ pc[p] = "mark"
          /\ todo[p] = {}
          /\ pc' = [pc EXCEPT ![p] = "sweep"]
          /\ todo' = [todo EXCEPT ![p] = objects \ marked[p]]
    /\ UNCHANGED <<lock, files, store, op, handle, cand, marked>>

\* commit_snapshot starts from nothing.
StartSnapshot(p, w, t) ==
    /\ pc[p] = "base"
    /\ op[p] = "commit_snapshot"
    /\ cand' = [cand EXCEPT ![p] = Append(head[p], [world |-> w, stamp |-> t])]
    /\ todo' = [todo EXCEPT ![p] = BlobsOf(w)]
    /\ pc' = [pc EXCEPT ![p] = "blobs"]
    /\ UNCHANGED <<lock, files, store, op, handle, marked>>

\* commit_changes starts from the tree of the head commit, which it reads, or
\* from the empty tree, which it writes. No change reuses the root as it is.
StartChanges(p, change, t) ==
    /\ pc[p] = "base"
    /\ op[p] = "commit_changes"
    /\ IF head[p] = <<>>
         THEN Put(Tree(EmptyWorld))
         ELSE CommitObject(head[p]) \in batch /\ UNCHANGED store
    /\ cand' = [cand EXCEPT ![p] =
                   Append(head[p], [world |-> Applied(WorldOf(head[p]), change),
                                    stamp |-> t])]
    /\ todo' = [todo EXCEPT ![p] = Upserts(change)]
    /\ pc' = [pc EXCEPT ![p] = IF change = NoChange THEN "commit" ELSE "blobs"]
    /\ UNCHANGED <<lock, files, op, handle, marked>>

WriteBlob(p, o) ==
    /\ pc[p] = "blobs"
    /\ o \in todo[p]
    /\ Put(o)
    /\ todo' = [todo EXCEPT ![p] = @ \ {o}]
    /\ UNCHANGED <<lock, files, pc, op, handle, cand, marked>>

\* apply_tree_changes reads the nodes it replaces, and reuses the others.
BaseTreeRead(p) ==
    op[p] = "commit_changes" => Tree(WorldOf(head[p])) \in batch

WriteTree(p) ==
    /\ pc[p] = "blobs"
    /\ todo[p] = {}
    /\ BaseTreeRead(p)
    /\ Put(Tree(WorldOf(cand[p])))
    /\ pc' = [pc EXCEPT ![p] = "commit"]
    /\ UNCHANGED <<lock, files, op, handle, work>>

WriteCommit(p) ==
    /\ pc[p] = "commit"
    /\ Put(CommitObject(cand[p]))
    /\ pc' = [pc EXCEPT ![p] = "flush"]
    /\ UNCHANGED <<lock, files, op, handle, work>>

\* Seeded fault: an error while deleting ends the sweep as a success.
CommitBatchEarly(p) ==
    /\ \/ pc[p] = "flush" /\ pc' = [pc EXCEPT ![p] = "publish"]
       \/ pc[p] = "sweep" /\ pc' = [pc EXCEPT ![p] = "ok"]
    /\ objects' = batch
    /\ UNCHANGED <<lock, files, batch, op, handle, work>>

\* commit_batch: for a commit once everything is written, for a collection
\* once everything unmarked is deleted.
CommitBatch(p) ==
    /\ \/ pc[p] = "flush" /\ pc' = [pc EXCEPT ![p] = "publish"]
       \/ pc[p] = "sweep" /\ todo[p] = {} /\ pc' = [pc EXCEPT ![p] = "ok"]
    /\ objects' = batch
    /\ UNCHANGED <<lock, files, batch, op, handle, work>>

\* Seeded fault: the branch file is truncated and then written, in place.
PublishInPlace(p) ==
    /\ pc[p] = "publish"
    /\ branch[p] # Detached
    /\ refFile' = refFile \union {branch[p]}
    /\ IF branch[p] \in refFile /\ ref[branch[p]] # <<>>
         THEN /\ ref' = [ref EXCEPT ![branch[p]] = <<>>]
              /\ UNCHANGED <<pc, handle>>
         ELSE /\ ref' = [ref EXCEPT ![branch[p]] = cand[p]]
              /\ Wrote(p)
              /\ MoveHandle(p, branch[p], cand[p])
    /\ UNCHANGED <<HEAD, lock, store, op, work>>

\* publish_commit: the current branch moves, or HEAD itself when detached.
PublishCommit(p) ==
    /\ pc[p] = "publish"
    /\ IF branch[p] = Detached
         THEN /\ HEAD' = [branch |-> Detached, commit |-> cand[p]]
              /\ UNCHANGED <<refFile, ref>>
         ELSE /\ refFile' = refFile \union {branch[p]}
              /\ ref' = [ref EXCEPT ![branch[p]] = cand[p]]
              /\ UNCHANGED HEAD
    /\ Wrote(p)
    /\ MoveHandle(p, branch[p], cand[p])
    /\ UNCHANGED <<lock, store, op, work>>
----
(* collect_garbage. The worklists hold each address once: the code skips    *)
(* an address it pops a second time.                                        *)

\* Seeded fault: HEAD is not a root of its own.
ReadBranchRoots(p) ==
    /\ pc[p] = "roots"
    /\ todo' = [todo EXCEPT ![p] =
                   {CommitObject(ref[b]) : b \in {d \in refFile : ref[d] # <<>>}}]
    /\ pc' = [pc EXCEPT ![p] = "mark"]
    /\ UNCHANGED <<lock, files, store, op, handle, cand, marked>>

\* Seeded fault: the handle's head, perhaps stale, is a root too.
ReadHandleRoots(p) ==
    /\ pc[p] = "roots"
    /\ todo' = [todo EXCEPT ![p] =
                   {CommitObject(h) : h \in (Roots \union {head[p]}) \ {<<>>}}]
    /\ pc' = [pc EXCEPT ![p] = "mark"]
    /\ UNCHANGED <<lock, files, store, op, handle, cand, marked>>

\* Roots come from HEAD and every branch file, never from the handle.
ReadRoots(p) ==
    /\ pc[p] = "roots"
    /\ todo' = [todo EXCEPT ![p] = {CommitObject(h) : h \in Roots}]
    /\ pc' = [pc EXCEPT ![p] = "mark"]
    /\ UNCHANGED <<lock, files, store, op, handle, cand, marked>>

\* All commits are marked before the first tree.
Mark(p, o) ==
    /\ pc[p] = "mark"
    /\ o \in todo[p]
    /\ o[1] = "commit" \/ \A x \in todo[p] : x[1] # "commit"
    /\ o \in objects
    /\ marked' = [marked EXCEPT ![p] = @ \union {o}]
    /\ todo' = [todo EXCEPT ![p] = (@ \ {o}) \union (Children(o) \ marked[p])]
    /\ UNCHANGED <<lock, files, store, pc, op, handle, cand>>

Sweep(p, o) ==
    /\ pc[p] = "sweep"
    /\ o \in todo[p]
    /\ Delete(o)
    /\ todo' = [todo EXCEPT ![p] = @ \ {o}]
    /\ UNCHANGED <<lock, files, pc, op, handle, cand, marked>>
----
(* Errors. *)

\* An object the process must read is missing, or no batch can be begun.
MustFail(p) ==
    \/ pc[p] = "base" /\ op[p] = "commit_changes"
         /\ head[p] # <<>> /\ CommitObject(head[p]) \notin batch
    \/ pc[p] = "blobs" /\ todo[p] = {} /\ ~BaseTreeRead(p)
    \/ pc[p] = "mark" /\ ~(todo[p] \subseteq objects)
    \/ pc[p] = "begin" /\ ~CanBegin

\* Steps that do I/O, which the environment may fail. commit_batch of a store
\* without transactions does none.
MayFail(p) ==
    /\ IoFaults
    /\ pc[p] \in Section \ {"ok", "err"}
    /\ pc[p] = "flush" => Transactional

\* Seeded fault: a batch that failed is committed as far as it got.
FailKeepingBatch(p) ==
    /\ MustFail(p) \/ MayFail(p)
    /\ pc' = [pc EXCEPT ![p] = "err"]
    /\ objects' = batch
    /\ UNCHANGED <<lock, files, batch, op, handle, work>>

\* The operation returns an error before its next effect; a batch is rolled
\* back, which a store without transactions cannot do.
Fail(p) ==
    /\ MustFail(p) \/ MayFail(p)
    /\ pc' = [pc EXCEPT ![p] = "err"]
    /\ batch' = objects
    /\ UNCHANGED <<lock, files, objects, op, handle, work>>
----
Commit(p) ==
    \/ \E t \in Stamps : \/ \E w \in Snapshots : StartSnapshot(p, w, t)
                         \/ \E c \in ChangeSets : StartChanges(p, c, t)
    \/ \E o \in todo[p] : WriteBlob(p, o)
    \/ WriteTree(p)
    \/ WriteCommit(p)
    \/ PublishCommit(p)

ChangeRefs(p) ==
    \/ \E b \in Branches : \/ CreateBranch(p, b)
                           \/ DeleteBranch(p, b)
                           \/ CheckoutBranch(p, b)
    \/ \E o \in objects : o[1] = "commit" /\ CheckoutCommit(p, o[2])
    \/ Refuse(p)

CollectGarbage(p) ==
    \/ ReadRoots(p)
    \/ \E o \in todo[p] : Mark(p, o) \/ Sweep(p, o)

\* What a process does once it holds the lock, up to giving it back.
Locked(p) == \/ RefreshHead(p)
             \/ BeginBatch(p)
             \/ CommitBatch(p)
             \/ Commit(p)
             \/ ChangeRefs(p)
             \/ CollectGarbage(p)
             \/ Fail(p)
             \/ Release(p)

Outside(p) == \/ OpenReadHead(p)
              \/ OpenReadRef(p)
              \/ Close(p)
              \/ \E k \in Ops : Acquire(p, k)
              \/ AcquireTorn(p)

Next == \/ \E p \in Procs : Locked(p) \/ Outside(p) \/ Crash(p)
        \/ RemoveStaleLock

Spec == Init /\ [][Next]_vars

\* An operation is straight-line code that waits for nobody: it always takes
\* its next step. Nothing obliges a process to start one.
FairSpec == Spec /\ \A p \in Procs : WF_vars(Locked(p))
----
(* Properties. *)

\* Mutating operations never overlap: at most one process is between acquire
\* and drop, and while one is, the LOCK file exists. A guard removed by path,
\* a stale file removed by the operator and a torn acquire all touch it.
MutualExclusion ==
    /\ \A p, q \in Procs : pc[p] \in Section /\ pc[q] \in Section => p = q
    /\ \A p \in Procs : pc[p] \in Section => lock

\* HEAD and every branch can be loaded in full at every instant, whatever
\* operation fails or process dies: objects are stored before a ref names them,
\* and a collection deletes nothing that a ref can still reach. (Power failures,
\* which an unsynced loose store does not survive, are in module LooseStore.)
RootsComplete == Live \subseteq objects

\* Every commit in the store, reachable or orphaned by a crash, has all it
\* needs there: checking it out by its hash, which reads only the Commit
\* object, is always safe.
StoreComplete == \A h \in StoredVersions : Needs(h) \subseteq objects

\* No lost update: a branch that has commits moves only to a child of the
\* commit it names, so a handle opened before another process committed never
\* overwrites that commit when it publishes its own.
NoLostUpdate ==
    [][\A b \in refFile \intersect refFile' :
          ref[b] # <<>> /\ ref'[b] # ref[b] => Parent(ref'[b]) = ref[b]]_vars

\* Once HEAD names a commit it always does: the branch it is on is never
\* deleted by a handle that still believes another one is current, and no
\* unborn branch is checked out.
HeadStaysBorn == [][HeadCommit # <<>> => HeadCommit' # <<>>]_vars

\* A collection that succeeds leaves exactly the live objects: nothing live
\* is lost, and nothing left by crashed or failed commits, or by an earlier
\* collection that failed half-way, survives.
CollectionIsExact ==
    [][\A p \in Procs : pc[p] = "sweep" /\ pc'[p] = "ok" => objects' = Live]_vars

\* Seen through the references and the stored commits, every step is one
\* atomic operation of the version graph, or nothing.
Graph == INSTANCE VersionGraph WITH stored <- StoredVersions
ImplementsVersionGraph == Graph!Spec

\* An operation that has the lock returns, on error paths too, and the LOCK
\* file is then gone for the next one, or its process dies: marking and
\* sweeping end, and nothing waits. (Where removing a file can fail, LockFaults,
\* LOCK may stay.)
OperationsReturn ==
    \A p \in Procs : pc[p] \in Section ~>
                         pc[p] = "closed" \/ (pc[p] = "idle" /\ (~lock \/ LockFaults))

\* collect_garbage documents its sweep as "safe to retry": whatever an earlier
\* collection left behind, the marking of a later one finds every object.
SweepIsRetriable ==
    \A p \in Procs : pc[p] = "mark" => todo[p] \subseteq objects
====
