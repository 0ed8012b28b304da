# Formal models of chunklog

chunklog keeps the versions of a chunked voxel world: content-addressed objects
(blobs, radix-tree nodes, commits) in an object store, and references (HEAD and
branches) in small files. This directory holds TLA+ models of it, the TLC
configurations that check them on small instances, and proofs checked by TLAPS.
Paths are relative to the repository (`src/repo.rs` and so on); `PROJECT.json`
maps every definition to the lines it stands for.

## 1. The system

| Part | State | Operations | Talks to |
| --- | --- | --- | --- |
| `Repository` (`src/repo.rs`) | a handle: `current_branch`, `head`; the directory: `LOCK`, `HEAD`, `refs/heads/*` | `commit_snapshot`, `commit_changes`, `create_branch`, `delete_branch`, `checkout`, `collect_garbage` under `LOCK`; `open`, `load`, `log`, `diff`, `branches`, `read_chunk` without it | an `ObjectStore`, through `read`, `write`, `list`, `delete` and `begin_batch`/`commit_batch`/`rollback_batch` |
| Radix tree (`src/repo.rs`) | immutable nodes, 16 children by coordinate nibbles | `apply_tree_changes`, `tree_entries` | objects |
| Object codec (`src/object.rs`) | none | `encode`, `decode`, hashing | everything that stores an object |
| `SqliteStore` (`src/store.rs`) | one SQLite file; a connection with at most one open transaction | write, delete, list, real batches | SQLite |
| `FilesystemStore`, `MemoryStore` (`src/store.rs`) | files under `objects/`; a map | the same, batches do nothing | file system |
| OPFS object log (`src/opfs.rs`, `src/opfs/browser.rs`) | one append-only file, its cached copy, an index, a staged batch | the same, with batches as framed transactions; recovery at open | the browser's synchronous file handle |
| CLI (`src/cli/*`) | the staging directory | `init`, `commit`, `branch`, `checkout`, `log`, `diff`, `gc` | `Repository`, one call each; `commit` reads and clears staging, `checkout -b` makes two calls |

What is hard, and what correctness means, part by part:

* **Repository.** Several processes, each with a handle that caches the head,
  share one directory. A mutating operation is a long sequence of durable
  effects (objects, COMMIT of the batch, one file replacement), any of which may
  fail or be the last before a crash. Correct means: writers exclude each other
  and give the lock back; what HEAD and the branches name can always be loaded
  in full; no commit is lost under a stale handle; a collection removes exactly
  the garbage; seen through references and stored commits every operation is
  atomic.
* **OPFS log.** Writes may stop anywhere, flushes and truncations may fail, a
  failed batch may be tried again or rolled back. Correct means: batches are
  atomic and durable, the owner sees its own changes, the index always agrees
  with the log, and recovery cuts an incomplete tail and nothing else.
* **Radix tree and codec.** The writer descends by nibbles of big-endian bytes,
  the reader checks a packed 64-bit key; both reinterpret signed coordinates.
  Correct means: what is read is what was written; the root depends on the world
  alone, so an incremental update gives the root a snapshot gives, also after
  removals; a commit publishes no more than the documents promise; `diff` tells
  two worlds apart exactly; an object decodes from its own bytes and from no
  others.
* **Readers.** They hold no lock, so files and objects change and disappear
  between any two of their reads. Correct means: they fail only when what they
  asked for really ceased to be reachable, and never see a branch half-way.
* **Loose writes.** Threads and processes write the same object at once, die
  half-way and come back, perhaps under an old process id. Correct means: each
  write is atomic, and only a power failure can damage a file.
* **Init and the CLI's staging directory.** Inits die and overlap; a commit
  command reads and clears files that others edit, outside the lock. Correct
  means: no half-made repository is opened, no request is lost outside the window
  the code leaves open, no patch is committed in part.

The hazards behind these are listed in `PROJECT.json` with their lines and the
properties that would catch each.

## 2. The modules

| Module | What it is |
| --- | --- |
| `VersionGraph` | abstract: what a repository promises its users, one atomic step per operation, no lock, store or process |
| `Repository` | the mutating operations of `src/repo.rs` over a transactional or a loose store |
| `MCRepository` | data for TLC; five configurations |
| `RepositoryProofs` | its theorems: types, mutual exclusion, no lost update, HEAD stays born, completeness of references and commits, exactness of collections |
| `RepositoryRefinement` | the proof that `Repository` implements `VersionGraph` |
| `Readers` | `Repository` with the operations that take no lock: `open`, `resolve`, `load`, `chunk_hashes`, `diff`, `log`, `branches` |
| `MCReaders`, `ReadersProofs` | data for TLC; its theorems, on top of those of `RepositoryProofs` |
| `ObjectCodec`, `ObjectCodecProofs` | the canonical encoding of `src/object.rs`, as operators; the theorem that it is exact |
| `RadixTree`, `MCRadixTree` | `apply_tree_changes`, `tree_entries`, `diff`, `coord_key` and `coord_nibble` over `ObjectCodec`; data for TLC |
| `RadixTreeProofs` | its theorems, on top of those of `ObjectCodecProofs` |
| `AtomicStore` | abstract: what write and delete of a store without batches promise concurrent callers |
| `LooseStore` | `FilesystemStore` file by file |
| `MCLooseStore`, `LooseStoreProofs` | data for TLC; its theorems |
| `TransactionalStore` | abstract: what an object store with batches promises the process that owns it |
| `ObjectLog` | the OPFS log of `src/opfs.rs` and `src/opfs/browser.rs` |
| `MCObjectLog`, `ObjectLogProofs` | data for TLC, four configurations; its theorems |
| `RepositoryInit` | `initialize_repository` and what `open` accepts |
| `StagingCli` | extends it: the CLI's `commit` around one atomic commit, editors of the staging directory, other programs |
| `MCStagingCli` | data for TLC |
| `StagingCliProofs` | the theorems about inits and about the staging directory |

Three refinements connect the levels, each checked as a PROPERTY and proved:
`Repository` implements `VersionGraph`, `ObjectLog` implements `TransactionalStore`,
and `LooseStore` implements `AtomicStore`. The levels fit
together so: `LooseStore` shows that the writes and deletes `Repository` takes as
single steps on a loose store are atomic, `ObjectLog` does the same for batches,
`RadixTree` that a world may stand for its tree, `Repository` that a commit may be
one step of `VersionGraph`, and `StagingCli` uses it as one. `Readers` composes
readers with the full `Repository`, step against step.

Operators marked "Seeded fault" are not part of the model: each stands for a
plausible bug in the definition after it, and `PROJECT.json` ("mutants") says
which property catches it.

### Repository

State: `lock` (the LOCK file exists), `HEAD`, `refFile` and `ref` (the HEAD file
and the branch files), `objects` (the store as every other connection reads it),
`batch` (the store as the holder of the open batch reads it), and per process
`pc`, `op`, the handle (`branch`, `head`) and the working data of an operation
(`cand`, the commit being built; `todo`, what is left to write, mark or delete;
`marked`). A step is one durable effect, or one read that a later step relies on.

| Code | Actions |
| --- | --- |
| `open_with` (HEAD, then the ref file) | `OpenReadHead`, `OpenReadRef`; `Close` |
| `RepositoryLock::acquire`, `Drop` | `Acquire`, `AcquireTorn` (create_new worked, writing the pid did not), `Release` |
| `refresh_head` | `RefreshHead` (also the first step of commits and branch operations; `collect_garbage` does not refresh) |
| `commit_snapshot`, `commit_changes` | `BeginBatch`, `StartSnapshot` or `StartChanges`, `WriteBlob`*, `WriteTree`, `WriteCommit`, `CommitBatch`, `PublishCommit` |
| `create_branch`, `delete_branch`, `checkout` | `CreateBranch`, `DeleteBranch`, `CheckoutBranch`, `CheckoutCommit`, `Refuse` |
| `collect_garbage` | `ReadRoots`, `Mark`*, `BeginBatch`, `Sweep`*, `CommitBatch` |
| any `?` on the way | `Fail` (must, when something it reads is missing; may, when I/O fails) |
| outside the code | `Crash`, `RemoveStaleLock` (an operator, only with no writer active, as the documents demand) |

Abstractions:

* Addresses are collision-free and cover all they reach, so a commit *is* its
  history: the sequence of its ancestors' entries, `<<>>` for "no commit". All
  the radix nodes of a world are one tree object; that the tree code computes the
  right world is the subject of `RadixTree`.
* Arguments are chosen where they are used: a commit's world when it starts to
  write, a checkout's target when it runs. Nothing reads them earlier, and a
  refused lock changes nothing, so it is a stutter.
* `atomic_write` may report an error after the rename (the directory sync):
  `Wrote` lets the file be replaced and the operation fail, with the handle not
  updated.
* With `Transactional`, writes become visible to others at `CommitBatch`, a
  crash or an error rolls them back, and a second BEGIN IMMEDIATE is refused.
  That ROLLBACK itself works is taken from SQLite. Without it every write and
  delete is durable at once and `Fail` undoes nothing. So a power failure, which
  can undo what a loose store never synced, is not part of this module or of its
  properties; what it does to single objects is in `LooseStore`.
* A stale LOCK is removed only with no process in `Section`. Readers, which hold
  no lock and change nothing, are added by module `Readers`.
* `OrphanCheckout` says whether users check out a commit that no reference
  reaches (they would have to know its hash).

### ObjectLog

State: `file` (as a handle reads it), `images` (every content the machine may leave
if it stops now), `pc`, the cached `log`, the index `entries` (where in the log an object
lies), `next` (transaction identifier) and `active` (the staged batch).

| Code | Actions |
| --- | --- |
| `from_sync_access_handle` | `Create`, `Recover`; `CreateStops`, `RecoverStops` when it fails or dies half-way; a file it rejects is left alone |
| `begin_batch`, `rollback_batch` | `Begin`, `Rollback` |
| `write`, `delete` | `Write`, `Delete`: into the open batch, or as an automatic batch of one |
| `commit_batch` | `CommitNothing`, `CommitRefused` (too long), `AppendTransaction` (cached log and file, the write may fail part way), `Flush`, `FlushFails`, `Truncate`, `CommitFails` |
| `Drop`, a worker that dies at any point | `WorkerStops`, `AppendStops` (inside the write): the file stays as it reads |
| the machine stops | `MachineStops`: the file becomes one of `images` |

Abstractions: a record is two cells, its kind and length and its payload, so a
write can be torn inside a record; the addresses of a batch come in any order
(the code iterates a hash map). What a worker wrote is read by the next one whether
or not it was flushed. Writes and truncations reach the disk in order, so what a
machine leaves of them is the flushed contents and a prefix of what followed; a
flush makes all of it durable. A worker may die only while what is unflushed is one
sequence of at most `MaxUnflushed` cells (a bound: different abandoned batches do
not pile up unflushed). Payload offsets in the arena, hash collisions and the
JavaScript bindings are left out.
`parse_log` is defined by its result (which record is legal after which, the last
committed record of each address, where the unterminated transaction begins), not
by its loop.

### Readers

State, besides that of `Repository`: per reader `rpc` (where its call is), `kind`
(which walk), `rhead` (the HEAD file it has read), `want` (the commit), `rtodo`
(objects still to read), `names` (branch files listed and still to read). Two
history variables say what the reader may rely on: `held` (its commit has been
reachable since the call began) and `born` (branches listed with a commit and not
deleted since). A step is one file or one object.

| Code | Actions |
| --- | --- |
| `open_with`, then a walk | `OpenHead`, `OpenRef`, `OpenUnborn` |
| `resolve` | `ResolveBranch`, `ResolveHash` |
| `load`, `chunk_hashes`, `log` | `ReadObject`* by `Follow`, `MissObject` (the error), `AllRead`, `Return` |
| `branches` | `ListBranches`, `ReadBranchFile`*, `Listed` |

`diff` is two walks of kind `chunk_hashes`; `read_chunk` is one read of `load`. A
writer's step is a step of `Repository` with the history kept up (`Observe`).
`read_dir` is a snapshot of the directory. A branch is never named like a commit.

### RadixTree and ObjectCodec

A tree is a value: `Branch` with a set of children, `Leaf`, or `None`; a hash is
the object it addresses, so equal trees are equal addresses. `ApplyTreeChanges` is
`apply_tree_changes` with its groups by nibble, its errors (`Bail`), the
reuse of an unchanged branch and the disappearance of an emptied one; it returns
the new node and what it wrote. The calls of the code's recursion are the values of
a function of the depth and a coordinate (`Calls`): the call a coordinate is in at a
depth, with the group of changes that share its path so far. `TreeEntries` is `tree_entries` with every check
(a node met twice, the wrong kind for its depth, a coordinate that is not its
path). `CommitSnapshot` and `CommitChanges` are the two commits, one step each;
`Diff` is `diff`. Widths are constants: `MaxChildren` (16, the values of a nibble) and
`CoordBytes` (4); conversions between signed and unsigned are done modulo the width.

`ObjectCodec`: a field of fixed width is one cell, payloads and messages are
sequences of cells, and every check of the decoder is there (magic, version, tag,
lengths, the number and range of children, bytes left over). A commit's timestamp,
one more fixed-width field, and the UTF-8 check of its message are left out.

### LooseStore

State: `file` (per object: absent, whole or damaged), `temps` (the temporary files
and how far they are written), per process `pid` and `sequence` (TEMP_SEQUENCE),
per thread `pc`, `target` and `name`. A step is one call to the file system.

| Code | Actions |
| --- | --- |
| `write`: the file exists | `FindExisting`, `Verify`, `VerifyFails` |
| the temporary name | `TakeName` (`fetch_add` with the process id) |
| `create_new`, `write_all`, `rename` | `CreateTemp`, `WriteAll`, `Rename`; `CreateFails`, `PublishFails` |
| after a failure | `Undo` (removes the temporary file, or fails to), then `FindExisting` or `GiveUp` |
| `delete` | `Delete`, by a collection at any moment |
| outside the code | `Crash` (the process returns, counting from 0, under any id no living process has), `LosePower` |

`write` syncs nothing (store.rs:184-193), so a power failure may lose any object
or leave it damaged under its name. The BLAKE3 check of `read` tells a damaged
file from a whole one.

### RepositoryInit and StagingCli

State: `made` (which of the directories and files of a repository exist), `step`
(where each init is), `staging` (the files of the staging directory), `tip` (the
world HEAD reaches), per command `pc`, `todo` and `patch`. History: `overlapped`
(inits that did not run alone), `wanted` (what each chunk was last asked to be, by
an editor or by another program), `disputed` (see below).

| Code | Actions |
| --- | --- |
| `initialize_repository` | `InitStarts` (the existence check), `InitMakes` once per directory or file, `InitStops` (an error or a crash) |
| `validate_repository`, `read_head` | `Opens` |
| `read_staged_changes` | `Start` (lists), `ReadChunk`, `ReadRemovals`, `ReadAll` |
| `commit_changes` | `Publish`: one step, as `VersionGraph` promises |
| `clear_staging` | `ListToClear`, `ClearFile`*, `Cleared` |
| any error or crash | `Stop` |
| others | `StageChunk`, `StageRemovals`, `Unstage`, `OtherCommit` |

A chunk is `disputed` while the code makes no promise about it, and each reason is
a line of it: it was staged while a command had read (or listed) and not yet
cleared, so that `clear_staging` may delete it uncommitted (cli/commit.rs:29); it
is staged under two spellings of its coordinate, so that the order of `read_dir`
decides (cli/commit.rs:79); it was unstaged, which asks for nothing; another
program committed it while a staged value was waiting; a command had read an older
request for it, which that command may publish after a newer one was committed and
cleared by another (the patch is read before LOCK is taken, cli/commit.rs:28). A new
request made in the clear ends the dispute. Everything else is promised, checked and
proved.

A command that reads the directory while another clears it may miss files. It stops
with an error when a file it listed is gone; it would lose nothing if it skipped the
file, because whoever cleared it had published it.

Editors replace a staging file atomically: they are outside the code, and one that
truncates before it writes can have an empty payload committed (listed as a
hazard). A refused init changes nothing and is a stutter. The SQLite file is
created by init and by open alike, so it takes no part in what open accepts.

## 3. The runs

| Run | Instance | Shows |
| --- | --- | --- |
| `sqlite` | 2 processes, 2 branches, transactional store, all faults; 1.16M states | `TypeOK`, `MutualExclusion`, `RootsComplete`, `StoreComplete`, `NoLostUpdate`, `HeadStaysBorn`, `CollectionIsExact`, `ImplementsVersionGraph` |
| `loose` | 1 process, 2 coordinates, 3 change sets, all faults, no orphan checkout; 1.7M states | `RootsComplete`, `CollectionIsExact`, `ImplementsVersionGraph` |
| `progress` | 2 processes, crashes and failing I/O, removing LOCK works, fair; 52k states | `OperationsReturn` |
| `crashes` | 2 objects, 3 transactions, 9 records; 77k states up to symmetry | `TypeOK`, `IndexMatchesLog`, `RecoveryAcceptsLog`, `ImplementsTransactionalStore` |
| `readers` | 1 writer, 1 reader, 2 branches, loose store without faults; 1.3M states | `RTypeOK`, `ReadersFindWhatIsReachable`, `ListingShowsCommits` |
| `tree` | 3 coordinates, 2 payloads, all snapshots and change sets; 2344 states | `TypeOK`, `ReadsBackTheWorld`, `RootIsCanonical`, `EncodingIsExact`, `PublicationIsBounded`, `DiffIsExact` |
| `files` | 2 threads of 1 process, 2 process ids, 1 object, all faults; 83k states | `TypeOK`, `TempNamesUnique`, `TempFileIsMine`, `WritesNeverDamage`, `ImplementsAtomicStore` |
| `cli` | 2 inits, 2 commands, 2 chunks under 3 names, 3 edits, 1 other commit; 1.6M states up to symmetry | `TypeOK`, `OpenedIsComplete`, `LoneInitOverwritesNothing`, `NoRequestIsLost`, `PatchIsWhole` |
| `halfswept`, `forgotten_tail`, `torn_header`, `unflushed` | see section 4 | expected violations |

Why these bounds are enough for the cases that matter:

* Two processes give every pair of a holder and an intruder, a crashed writer and
  its successor, a stale handle and a fresh one. The lock serialises writers, so a
  third adds states and no new pair; the theorems cover any number.
* Two branches and a detached HEAD give every move of HEAD: on a branch, on the
  other, on a commit, on a branch whose file does not exist yet.
* `MaxHistory` = 2 gives commits with and without a parent; `MaxCommits` bounds
  the commits in the store when another is started, so orphans of crashed commits
  and their siblings exist together and are collected.
* The loose run has two coordinates and change sets that add, replace and keep
  chunks, so blobs and trees are shared between commits and a half-finished sweep
  can meet shared data. One process is enough there: it crashes, reopens and
  retries, and the lock keeps a second out.
* In `crashes`, three transactions of one or two changes cover put, delete,
  re-put, a batch tried again after a failure, a batch after a recovered tail, a
  batch on top of one that a dead worker did not flush, and a log that is full
  (`MaxCells`, for MAX_SAFE_INTEGER).

* In `readers`, one writer commits, branches, deletes, checks out and collects
  around every step of one reader; readers do not see each other, and the lock
  makes several writers one at a time. The store is loose, so a sweep is visible
  delete by delete. Faults only make a writer stop between two steps, which the
  reader cannot tell from a slow writer; the theorems include them.
* In `tree`, two-bit nibbles and two-byte coordinates give eight levels over
  -128..127. The coordinates (0,-1), (-1,0), (-1,1) share all of x, none of it, and
  all but the last level; they need the sign handled in either half of the key.
  Every change set is applied to every world, from every root that can have led
  to it, including no root.
* In `files`, two threads give every race of two writers, of a writer and the
  leftovers of its dead process, and of a process that returns under the same id.
  `MaxSequence` = 2 lets a name be taken, left behind and met again. One object is
  enough, since two writers of different objects share no name. That two processes
  alive at once never share an id is the operating system's promise; runs with two
  processes are larger and are left to the proofs, which cover any number.
* In `cli`, two commands give a command that clears what another reads, a patch
  committed twice, and a commit that lands between reading and publishing. Three
  edits let a chunk be staged, staged again and removed around them, or staged
  under two names. `LateInits` = FALSE starts commands only when the inits have
  ended: an init that overlaps another one may still be making files, but none is
  read by a command. The combination was checked with two edits as well. The
  symmetry of inits, commands and payloads is sound: no property distinguishes
  them, and none is a liveness property.

Deadlock is checked in every run but `cli`: there an init that died after making
`.chunklog` leaves a directory that can be neither opened nor initialised
(repo.rs:736), and the bounds on edits run out. Bounds named in guards:
`MaxHistory`, `MaxCommits` (in `Acquire`), `MaxTransactions` (in `Begin` and
`Stage`), `MaxUnflushed` (in `WorkerStops`, `AppendStops`), `MaxSequence` (in `TakeName`), `MaxEdits`, `MaxOthers`, `LateInits`.
`MaxCells` is the check of the code at browser.rs:236, only smaller. The program does not
come near its own limit: the log is cached in wasm memory, far below 2^53 bytes.

**Fairness.** `FairSpec` has weak fairness on `Locked(p)` and nothing else: an
operation that holds the lock is straight-line code, it waits for nobody without
end (a LOCK that is taken is an error at once, a busy SQLite transaction after a
timeout of 30 seconds, store.rs:251, which the model takes as the error), so it takes its
next step unless it dies. Nothing obliges a process to start an operation or an operator to remove a
lock. `OperationsReturn` needs marking and sweeping to end and every error path
to give the lock back: when the operation has returned, the LOCK file is gone. Its run
sets `LockFaults` to FALSE, since a guard that fails to remove the file ignores that
(repo.rs:854) and leaves it to the operator; the process may still crash, and any I/O
may fail. The other modules claim no liveness: their calls are
straight-line code that waits for nobody.

## 4. Where the code and its documents disagree

* `halfswept`: `repo.rs:320-321` calls the sweep "idempotent and safe to retry".
  On a store without transactions a failed sweep may delete an orphan's tree and
  keep its commit; `checkout` reads only the commit, accepts it, and from then on
  every collection fails while marking. The positive results for loose stores
  therefore assume that no orphan is checked out.
* `forgotten_tail`: `README.md:76-77` says that recovery "exposes only fully
  committed batches and truncates an incomplete tail". If the truncation after a
  failed commit fails too, memory forgets the tail and the file does not. A
  shorter batch then overwrites only its beginning, reports success, and the next
  open rejects the whole log. In the trace a batch of two objects fails, one is
  taken out of it, and committing again leaves a second COMMIT behind the first.
  With real payloads the leftover begins anywhere in a record, or, for suitable
  sizes, exactly at that COMMIT. The run uses whole writes only
  (`TornWrites = FALSE`), where two-cell records are exact.
* `torn_header`: the same sentence, for a crash while the first open writes the
  eight header bytes: the file is neither empty nor headed, and every later open
  refuses it.

* `unflushed`: `OPFS_FORMAT.md:54-55` says that "the durable index is published only
  after the flush succeeds", and `browser.rs:618` that mutations are "flushed before
  [they become] visible". A worker that dies between writing a batch and flushing it
  leaves a log that scans clean; opening flushes only when it has a tail to cut
  (browser.rs:516-518), so the next worker's index shows the batch unflushed. If it
  writes the same objects again, as a retry would, `put` finds them, nothing is
  appended or flushed, the call returns Ok, and the machine may still lose them. A
  flush on every open would do.

The `crashes` run excludes `CleanupFaults` and `HeaderTears` and holds under
everything else. The last divergence is part of it: `TransactionalStore` says
what remains true, that the batch is there as a whole or not at all for the next
owner and for the machine, and that a commit that changes something makes
everything before it durable too.

Smaller observations, where no sentence of the repository is contradicted outright
or the models say it in a passing property:

* `FORMAT.md:11` says LOCK is "present only while a writer is active". `acquire`
  creates the file, then writes and syncs the pid with `?`, and only then builds the
  guard (repo.rs:846); an error in between leaves LOCK with no writer and no crash.
  The models include it (`AcquireTorn`), and an operator who removes the file.
* `paper.md`, theorem 1, bounds the branches a commit publishes by |P(E)|. The
  first `commit_changes` of an unborn branch also writes the empty tree
  (repo.rs:226), and so does a commit of the empty world. `PublicationIsBounded`
  makes that one exception and no other.
* After a crash the temporary file of a loose write stays for ever; a process that
  returns under the same id and reaches the same sequence number and object is
  refused by `create_new`, once per leftover (store.rs:178). `TempFileIsMine` says that
  it leaves the leftover alone; that the write fails is no violation of `AtomicStore`,
  where a write may always fail.
* `checkout -b` is two operations (cli/checkout.rs:22): on a repository without
  commits the branch is created, the checkout is refused, and the branch stays. Both
  are steps of `VersionGraph` and no property joins them.
* A damaged object is never repaired: `write` finds the file, reads it and returns
  the error (store.rs:170). `ImplementsAtomicStore` makes no promise that a write
  after a power failure succeeds.
* Of two overlapping inits the slower rewrites HEAD (repo.rs:743), also when the
  repository is in use by then. `LoneInitOverwritesNothing` says that this needs
  the overlap.
* `clear_staging` deletes what was staged since the patch was read
  (cli/commit.rs:29); `disputed` is the exact extent of it.

## 5. What is proved

All theorems hold for every value of the constants: any number of processes,
branches, coordinates, payloads, worlds, any history length, any combination of
faults; in the other modules, any number of readers, threads, processes, process
ids, objects, inits, commands, edits and chunk names, any length of log and of
batch. They rest on the named assumptions of `Repository` (`BranchAssumption`,
`DataAssumption`, `FlagAssumption`), `LooseStore` (`StoreAssumption`), `ObjectLog`
(`LogAssumption`, `BatchAssumption`), `StagingCli` (`CliAssumption`) and `RadixTree`
(`WidthAssumption`, `WorldAssumption`), which say what kind of value each constant
is and which TLC evaluates in the runs. In `RadixTree` the width of a nibble and of a
coordinate, the coordinates, payloads, snapshots and change sets are arbitrary;
the code's widths, and so all of its coordinates, are one instance.

| Theorem | States | Under |
| --- | --- | --- |
| `TypeCorrect` | `[]TypeOK` | nothing |
| `LockIsExclusive` | `[]MutualExclusion` | nothing |
| `UpdatesAreNotLost` | `NoLostUpdate` | nothing |
| `HeadIsBornOnce` | `HeadStaysBorn` | nothing |
| `ReferencesStayComplete` | `[]RootsComplete` | `SafeCheckouts` |
| `StoredCommitsAreComplete` | `[]StoreComplete` | `Transactional` |
| `CollectionsAreExact` | `CollectionIsExact` | `SafeCheckouts` |
| `RepositoryIsAVersionGraph` | `ImplementsVersionGraph` | `SafeCheckouts` |
| `ReadersTypeCorrect` | `[]RTypeOK` | nothing |
| `ReadersDisturbNobody` | `RSpec => Spec` | nothing |
| `ReadersAreServed` | `[]ReadersFindWhatIsReachable` | `SafeCheckouts` |
| `ListingsShowCommits` | `[]ListingShowsCommits` | `SafeCheckouts` (its invariant is that of `ReadersAreServed`) |
| `LooseStoreProofs!TypeCorrect` | `[]TypeOK` of `LooseStore` | nothing |
| `NamesAreUnique` | `[]TempNamesUnique` | nothing |
| `FilesAreOwned` | `[]TempFileIsMine` | nothing |
| `DamageIsNotWritten` | `WritesNeverDamage` | nothing |
| `FilesAreAtomic` | `ImplementsAtomicStore` | nothing |
| `OpenedRepositoriesAreComplete` | `[]OpenedIsComplete` | nothing |
| `LoneInitsOverwriteNothing` | `LoneInitOverwritesNothing` | nothing |
| `CliTypeCorrect` | `[]TypeOK` of `StagingCli` | nothing |
| `NoStagedRequestIsLost` | `[]NoRequestIsLost` | nothing |
| `PatchesAreWhole` | `PatchIsWhole` | nothing |
| `LogTypeCorrect` | `[]TypeOK` of `ObjectLog` | nothing |
| `IndexIsExact` | `[]IndexMatchesLog` | nothing |
| `RecoveryAcceptsItsLog` | `[]RecoveryAcceptsLog` | no `CleanupFaults`, no `HeaderTears` |
| `LogIsATransactionalStore` | `ImplementsTransactionalStore` | no `CleanupFaults` |
| `TreeTypes` | `[]TypeOK` of `RadixTree` | nothing |
| `RootsAreCanonical` | `[]RootIsCanonical` | nothing |
| `WorldsAreReadBack` | `[]ReadsBackTheWorld` | nothing |
| `DiffsAreExact` | `DiffIsExact` | nothing |
| `PublicationsAreBounded` | `PublicationIsBounded` | nothing |
| `PublishedEncodingsAreExact` | `[]EncodingIsExact` | nothing |
| `EncodingsAreExact` | every blob, leaf, commit and branch decodes to itself, cut or extended ones do not decode | `MaxChildren` is a natural number |

`SafeCheckouts == Transactional \/ ~OrphanCheckout`: the store is transactional,
or nobody checks out a commit that no reference reaches. It is needed: `halfswept`
is the counterexample without it. In the same way `forgotten_tail` and `torn_header`
are the counterexamples to `RecoveryAcceptsItsLog` without its two conditions.

The argument:

1. `TypeInv` is `TypeOK` and that a process between building and publishing a
   commit has one (`cand` is not empty).
2. `MutualExclusion` is inductive with it. Two steps carry the weight: `Acquire`
   needs the file to be absent, and the invariant says that then nobody is in
   `Section`; `RemoveStaleLock` needs nobody in `Section` by its guard.
3. `HandleInv` (`Fresh`, `Extends`): from `refresh` until it writes the files, the
   handle of a committing or branch-changing process agrees with them, and the
   commit it builds is a child of its head. It is inductive because by 2 nobody
   else changes the files meanwhile. `UpdatesAreNotLost` and `HeadIsBornOnce`
   follow from it, step by step.
4. `IInv`, for the objects. `RootsComplete` alone is not inductive. Publishing
   needs the candidate's objects to be stored: `Building` follows them from step
   to step. Sweeping needs nothing live to be deleted: `Marking` says that only
   live objects are marked or queued, that every root is one or the other, and
   `Followed`: whatever lies below a marked object (`Reach`) is marked, or lies
   below a queued object that is itself below the marked one. The second half is
   what keeps it inductive when an object already marked is not queued again.
   With an empty queue the marked objects are exactly `Live`, so what is swept is
   exactly the rest, and that is `CollectionsAreExact`.
   `BatchInv` relates the two views of the store: equal when no batch is open,
   and always for a loose store. With transactions completeness holds for every
   stored commit; for a loose store only for what references reach, because a
   failed sweep may leave an orphan without its tree.
5. Facts about `Reach` (kinds, types, steps, acyclicity, transitivity) are lemmas
   in `RepositoryProofs`.

6. Readers. A step of `RNext` is a step of `Repository` or leaves its variables
   alone, which is `ReadersDisturbNobody` and carries every theorem above over. The
   invariant for the walks (`Walking`) is that what a reader still has to read lies
   below its commit, and that a commit that is `held` is in `Live`; all of `Live`
   is stored, by the invariant behind `RootsComplete`, so a held walk misses
   nothing. `ListingsShowCommits` rests on the lemma behind `UpdatesAreNotLost`: a
   branch with commits moves only to a child of its commit.
7. `LooseStore`. `TempFileIsMine` is not inductive alone: a writer could be at
   work on a name another one takes next. `Owned` says that the name of a writer
   at work carries its process's present id and a sequence number the process has
   already passed; with `DistinctPids` a name taken next is new, so
   `TempNamesUnique` goes on, also among threads, and no other writer touches the
   file.
   `WritesNeverDamage` follows: what is renamed is whole. For the refinement every
   step maps to one of `AtomicStore`: `Verify` and `Rename` are `Succeed`, the
   errors are `Fail`, crashes are `Die`, the rest stutters.
8. Inits. `InitInv`: everything is made in the order of `Steps` (if one exists, so
   do all before it), an init has behind it what it made, and one that never
   overlapped is alone and finds nothing of what it has still to make. HEAD is last,
   so a directory with HEAD is complete.
9. `Repository` implements `VersionGraph`. With the safety invariant of 4 each step
   is mapped to one abstract step: `PublishCommit` to `Publish`, `CommitBatch` of a
   commit to `Store`, of a collection (or each `Sweep` of a loose store) to
   `Collect`, the branch operations to their namesakes, the rest to a stutter. What
   is new is `Drawn`: until its own commit object is written, the batch of a commit
   holds no commit that the store does not hold, and from then on only that one.
   So COMMIT adds one version at most, the one being built.
10. The staging directory. `NoRequestIsLost` alone is not inductive. `IInv` follows
   the last request for every chunk that is not disputed. `Kept`: the tip has it or
   a staged file asks for it, and no other file asks for anything else, unless the
   chunk is `Contested` (staged and removed at once, which `read_staged_changes`
   rejects). `Carried`: a command that has read the chunk carries that request and
   no other, one that has not still has the file that asks for it ahead of it or
   finds the request in the tip, and one that clears a file that mentions the chunk
   has the request in the tip already. `StoodOff`: no command gets past a contested
   chunk. `PatchIsWhole` follows at the step that publishes.
11. `ObjectLog`. The lemmas first say what a transaction is as a list of records,
   whatever the order of its addresses (`TransactionIs`, `FramedIs`), that a log
   with a transaction at its end is well formed (`FramedSealed`), that any torn part
   of it reads as the log without it and the whole of it as the log with it
   (`TornIs`, `CommittedIs`), and where in it an object lies (`ObjectIsAt`). `LogInv`
   is inductive under every failure of the model: between calls the cached log is
   well formed, ends where the open batch begins, has the index for its entries and
   is what the file begins with; inside commit_batch it is such a log with the
   transaction of the batch after it. `IndexIsExact` follows. `ExactInv` adds what
   holds when the clean-up of a failed commit works: the file is never longer than
   the log, and every file a crash may leave is a log with part of one transaction
   after it. `RefInv` adds that the log as it was when the batch began stays among
   what a crash may leave, so that a batch being committed leaves the old or the new
   contents and no third, and that a batch puts only what the index does not hold,
   so that taking a change back restores what was there.
12. `ObjectCodec`. The bytes of an object are a header and a body, and a header
   fixes its tag (`HeaderUnique`), so it is enough that bodies are exact
   (`ExactBodies`). For blobs and commits that is `Framed`: the length written first
   leaves no room for less or more. For a branch the children are the values of a
   sequence in nibble order; that there is one is shown by the rank of a nibble
   among those of the branch (`RankIs`, `OrderIs`), and its count fixes the length.
13. `RadixTree`. Nothing here is proved by the induction theorems: what holds at
   one depth and is passed on holds at every depth because the set of depths at
   which it holds is all of `0 .. TreeDepth` (`Induction`, `DownTo0`). `CanonicalTree`
   gives the node that a world has on the path of a coordinate, and `Node` is None
   where the world has nothing. The argument in steps:
   * `NibbleIsDigit`: what the writer takes from the bytes of two's complement
     numbers are the digits of the key the reader packs. So calls are still together
     exactly while keys have a common prefix (`SamePathIs`).
   * `PathFinds`, `CallsReturn`: in the tree of a world, a call finds that world's
     node, and it returns the new world's. At a branch the children at touched
     nibbles become those of the new world and the others are equal in both
     (`Untouched`); a branch left without children is None, as in the new world
     (`UpdatedIs`). Hence no call bails, and the result is the tree of the new world
     whatever the edits were (`ApplyIs`): `TreeInv` is inductive, and that is
     `RootsAreCanonical`.
   * The nodes popped at a depth are the nodes of the world with their prefixes. A
     node carries its coordinates in its leaves, so it occurs once
     (`NodeOccursOnce`), no check of `tree_entries` fails, and what it collects is
     the world. `DiffsAreExact` compares two such readings.
   * What a call writes are nodes of the new world above an edited coordinate, one
     for each edited prefix, so counting prefixes gives the bound.
   * What a commit publishes is of the kinds of `EncodingsAreExact`; a branch has
     one child for each nibble at most.

Two of these proofs failed at first for a good reason, and the models were wrong.
`NoRequestIsLost` is false with five edits, two more than the run had: a command
reads a request, a second one commits and clears a newer request for the same
chunk, and the first then publishes the older one. That is what the code does; the
property now counts such a chunk as disputed. And `AppendStops` let a worker die
inside the write of a batch without changes, which commit_batch never writes.

`RadixTree` was rewritten for its proofs: a recursive operator over the tree became
`Calls`, a function of the depth, and the stack of `tree_entries` became `Level`.
The properties, the bounds and the 2344 states of its run stayed the same.

## 6. Model-checked only, and not modelled

Checked by TLC and not proved: only `OperationsReturn` (liveness under fairness and
ENABLED are out of the proof system's reach). The four runs that expect a violation
check what is false. Every other property of a run is stated by a theorem. Two abstractions bound
what the theorems of `RadixTree` say: a hash is the object it addresses, so digests
do not collide, and a commit is one step on objects that are all readable
(`Repository` and its theorems are about commits that fail, crash or overlap).

Not modelled:

* `validate_branch_name`, `ref_path`, `parse_hash`, `parse_coords` as predicates on
  strings: the models take valid names, and `CoordOf` says which coordinate a name
  spells. That a branch of 64 hexadecimal digits shadows a commit is a hazard
  without a property.
* `MemoryStore`: every operation is one step under a lock, `AtomicStore` without
  failures.
* The other CLI commands: argument parsing and printing around one call of
  `Repository` each (`checkout -b` makes two; `ImplementsVersionGraph` covers any
  order of both).
* The payload arena of the OPFS log, hash collisions, JavaScript bindings.
* Benchmarks, examples and the paper's workloads.

SQLite, the file system and the browser's file handle are external and appear
through what the code asks of them.

## 7. Plan

Done, in this order: `VersionGraph` and `Repository` (the core), their proofs,
`TransactionalStore` and `ObjectLog`; `ObjectCodec` and `RadixTree`; `AtomicStore`,
`LooseStore` and its proofs; `Readers` and its proofs; `RepositoryInit` and
`StagingCli`, with the proofs about inits.

Then `RepositoryRefinement`, the theorems about the staging directory,
`ObjectLogProofs`, `ObjectCodecProofs` and `RadixTreeProofs`.

What could come next: the SQLite store call by call, and `Repository` over the tree
of `RadixTree` in place of one object per world.

## 8. Running

    tlc -workers 2 -config MCRepository_sqlite.cfg MCRepository
    tlc -workers 2 -config MCObjectLog_crashes.cfg MCObjectLog
    tlapm RepositoryProofs.tla
    tlc -workers 2 -config MCReaders_readers.cfg MCReaders
    tlc -workers 2 -config MCRadixTree_tree.cfg MCRadixTree
    tlc -workers 2 -config MCLooseStore_files.cfg MCLooseStore
    tlc -workers 2 -config MCStagingCli_cli.cfg MCStagingCli
    tlapm RepositoryRefinement.tla
    tlapm ReadersProofs.tla
    tlapm LooseStoreProofs.tla
    tlapm StagingCliProofs.tla
    tlapm ObjectCodecProofs.tla
    tlapm RadixTreeProofs.tla
    tlapm ObjectLogProofs.tla
