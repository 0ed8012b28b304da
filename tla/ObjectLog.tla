---- MODULE ObjectLog ----
(* The OPFS object store: one append-only file of records, the log cached   *)
(* in memory, and a batch staged there until commit_batch frames it as      *)
(* BEGIN, PUT and DELETE records, COMMIT, writes it at the end of the file   *)
(* and flushes. Opening scans the file and cuts an incomplete tail. Calls    *)
(* are synchronous and one worker owns the handle, so only a crash can come  *)
(* between the steps of a call.                                              *)
EXTENDS Naturals, FiniteSets, Sequences, SequencesExt

CONSTANTS
    Hashes,           \* addresses, each with the object it addresses
    NoBatch,          \* active = None
    MaxTransactions,  \* bound: last transaction identifier handed out
    MaxCells,         \* MAX_SAFE_INTEGER: the longest log
    MaxUnflushed,     \* bound: cells that dead workers left unflushed
    IoFaults,         \* writing or flushing a batch may fail
    TornWrites,       \* a write may stop between any two cells
    CleanupFaults,    \* the truncation that follows a failure may fail too
    HeaderTears       \* a crash may leave half of the file header

ASSUME LogAssumption == /\ IsFiniteSet(Hashes)
                        /\ MaxTransactions \in Nat
                        /\ MaxCells \in Nat /\ MaxCells >= 2
                        /\ MaxUnflushed \in Nat
                        /\ IoFaults \in BOOLEAN
                        /\ TornWrites \in BOOLEAN
                        /\ CleanupFaults \in BOOLEAN
                        /\ HeaderTears \in BOOLEAN

VARIABLES
    file,     \* the file, as the handle reads it
    images,   \* the contents a crash may leave it with
    pc,       \* no handle, between calls, or where commit_batch is
    log,      \* handle: the cached log
    entries,  \* handle: where the log holds an object; 0 when it does not
    next,     \* handle: next_transaction
    active    \* handle: the batch

disk == <<file, images>>
index == <<log, entries, next>>
vars == <<file, images, pc, log, entries, next, active>>
----
(* Records. A record is two cells, its kind with its length and its payload, *)
(* so that a write can be cut inside it.                                     *)

Shape(kind) == CASE kind \in {"begin", "commit"} -> "identifier"
                 [] kind = "put"                  -> "object"
                 [] kind = "delete"               -> "hash"

Record(kind, x) == << <<kind>>, <<Shape(kind), x>> >>
FileHeader == << <<"CHOP">>, <<"version", 1>> >>

\* The whole records that follow the file header; a torn last one is ignored.
Count(f) == (Len(f) \div 2) - 1
Kind(f, n) == f[2 * n + 1][1]
Payload(f, n) == f[2 * n + 2][2]

NoEntries == [h \in Hashes |-> 0]

MaxIn(S) == CHOOSE m \in S : \A n \in S : n <= m

\* The transaction pending before record n: the begin no commit has followed.
Pending(f, n) == {b \in 1 .. n - 1 : /\ Kind(f, b) = "begin"
                                     /\ \A c \in b .. n - 1 : Kind(f, c) # "commit"}

\* A record in its place, with the payload of its kind.
Legal(f, n) ==
    /\ f[2 * n + 2][1] = Shape(Kind(f, n))
    /\ \/ Kind(f, n) = "begin" /\ Pending(f, n) = {}
       \/ Kind(f, n) \in {"put", "delete"} /\ Pending(f, n) # {}
       \/ Kind(f, n) = "commit" /\ \E b \in Pending(f, n) : Payload(f, b) = Payload(f, n)

\* Opening accepts the file: an empty one is given a header, and every whole
\* record must be in its place.
Readable(f) ==
    \/ f = <<>>
    \/ /\ Len(f) >= Len(FileHeader)
       /\ SubSeq(f, 1, Len(FileHeader)) = FileHeader
       /\ \A n \in 1 .. Count(f) : Legal(f, n)

\* Seeded fault: records take effect before their transaction commits.
LastChangeEager(f, h) ==
    MaxIn({0} \union {n \in 1 .. Count(f) :
        Kind(f, n) \in {"put", "delete"} /\ Payload(f, n) = h})

\* The last committed record about an address; 0 if there is none.
LastChange(f, h) ==
    MaxIn({0} \union {n \in 1 .. Count(f) :
        /\ Kind(f, n) \in {"put", "delete"}
        /\ Payload(f, n) = h
        /\ \E c \in n .. Count(f) : Kind(f, c) = "commit"})

\* The entries of a readable file: the cell that holds each object.
Entries(f) ==
    [h \in Hashes |->
        LET n == LastChange(f, h)
        IN  IF n # 0 /\ Kind(f, n) = "put" THEN 2 * n + 2 ELSE 0]

\* valid_len: an unterminated transaction is cut where it begins.
ValidLen(f) ==
    LET open == Pending(f, Count(f) + 1)
    IN  2 * (IF open = {} THEN Count(f) + 1 ELSE CHOOSE b \in open : TRUE)

\* One more than the largest identifier seen.
NextTransaction(f) ==
    1 + MaxIn({0} \union {Payload(f, n) :
                  n \in {b \in 1 .. Count(f) : Kind(f, b) = "begin"}})

\* A write at a position leaves what lies beyond it.
Overlay(f, at, cells) ==
    SubSeq(f, 1, at) \o cells \o SubSeq(f, at + Len(cells) + 1, Len(f))

\* How far a write may get, and what a crash may leave of one that got so far.
Extents(cells) == IF TornWrites THEN 0 .. Len(cells) ELSE {0, Len(cells)}
Written(f, at, cells, k) == Overlay(f, at, SubSeq(cells, 1, k))
Torn(f, at, cells, k) ==
    {Written(f, at, cells, j) : j \in {i \in Extents(cells) : i <= k}}
----
(* The batch: what it does to each address.                                 *)

NoChanges == [h \in Hashes |-> "none"]
Batch == [id : 1 .. MaxTransactions, start : 0 .. MaxCells,
          changes : [Hashes -> {"none", "put", "delete"}], auto : BOOLEAN]

ASSUME BatchAssumption == NoBatch \notin Batch

Changed == {h \in Hashes : active.changes[h] # "none"}

Stored == {h \in Hashes : entries[h] # 0}

\* What list returns, and what read finds.
Listed == IF active = NoBatch THEN Stored
          ELSE {h \in Hashes : \/ active.changes[h] = "put"
                               \/ active.changes[h] = "none" /\ h \in Stored}

NewBatch(auto, changes) ==
    [id |-> next, start |-> Len(log), changes |-> changes, auto |-> auto]

PutChange(c, h) ==
    CASE c[h] = "put"                     -> c
      [] c[h] # "put" /\ h \in Stored     -> [c EXCEPT ![h] = "none"]
      [] c[h] # "put" /\ h \notin Stored  -> [c EXCEPT ![h] = "put"]

RemoveChange(c, h) ==
    CASE c[h] = "put"                     -> [c EXCEPT ![h] = "none"]
      [] c[h] # "put" /\ h \in Stored     -> [c EXCEPT ![h] = "delete"]
      [] c[h] # "put" /\ h \notin Stored  -> c

\* The records of the batch, its addresses in some order.
BatchRecord(order, n) ==
    CASE n = 0              -> Record("begin", active.id)
      [] n \in DOMAIN order -> Record(active.changes[order[n]], order[n])
      [] n = Len(order) + 1 -> Record("commit", active.id)

Transaction(order) ==
    [i \in 1 .. 2 * (Len(order) + 2) |->
        BatchRecord(order, (i - 1) \div 2)[IF i % 2 = 1 THEN 1 ELSE 2]]
----
TypeOK ==
    /\ file \in images
    /\ pc \in {"closed", "ready", "written", "failed", "truncated"}
    /\ Len(log) <= MaxCells
    /\ entries \in [Hashes -> 0 .. MaxCells]
    /\ next \in 1 .. MaxTransactions + 1
    /\ active \in Batch \union {NoBatch}
    /\ pc \in {"written", "failed", "truncated"} => active # NoBatch

Forget == /\ log' = <<>>
          /\ entries' = NoEntries
          /\ next' = 1
          /\ active' = NoBatch

Init == /\ file = <<>>
        /\ images = {<<>>}
        /\ pc = "closed"
        /\ log = <<>>
        /\ entries = NoEntries
        /\ next = 1
        /\ active = NoBatch

\* The handle takes over a file. It is flushed if opening had to write to it.
Owns(f, e, n) == /\ file' = f
                 /\ images' = IF f = file THEN images ELSE {f}
                 /\ pc' = "ready"
                 /\ log' = f
                 /\ entries' = e
                 /\ next' = n
                 /\ UNCHANGED active

Create == /\ pc = "closed"
          /\ file = <<>>
          /\ Owns(FileHeader, NoEntries, 1)

\* Writing the header or flushing it fails, or the worker dies before that.
CreateStops == /\ pc = "closed"
               /\ file = <<>>
               /\ \/ file' = FileHeader
                  \/ HeaderTears /\ file' = SubSeq(FileHeader, 1, 1)
               /\ images' = images \union {file'}
               /\ UNCHANGED <<pc, index, active>>

\* Seeded fault: the tail is skipped by the scan and kept in the file.
RecoverKeepingTail ==
    /\ pc = "closed"
    /\ file # <<>>
    /\ Readable(file)
    /\ Owns(file, Entries(file), NextTransaction(file))

\* A file that does not parse is refused and left as it is.
Recover == /\ pc = "closed"
           /\ file # <<>>
           /\ Readable(file)
           /\ Owns(SubSeq(file, 1, ValidLen(file)), Entries(file), NextTransaction(file))

\* The tail was cut, but flushing that failed or the worker died before it.
RecoverStops == /\ pc = "closed"
                /\ file # <<>>
                /\ Readable(file)
                /\ file' = SubSeq(file, 1, ValidLen(file))
                /\ images' = images \union {file'}
                /\ UNCHANGED <<pc, index, active>>

\* Bound: what dead workers leave unflushed is one short sequence of cells.
Bounded(S) == \A f, g \in S :
    Len(f) <= Len(g) => IsPrefix(f, g) /\ Len(g) - Len(f) <= MaxUnflushed

\* The store is dropped or its worker dies, between two calls to the handle.
\* The next one to open the file reads what was written, flushed or not.
WorkerStops == /\ pc # "closed"
               /\ Bounded(images)
               /\ pc' = "closed"
               /\ UNCHANGED disk
               /\ Forget

\* The machine stops: what was not flushed is kept up to some point.
MachineStops == /\ pc' = "closed"
                /\ file' \in images
                /\ images' = {file'}
                /\ Forget
----
(* Staging. With no batch open a write or a delete is a batch of its own.   *)

Begin == /\ pc = "ready"
         /\ active = NoBatch
         /\ next <= MaxTransactions
         /\ active' = NewBatch(FALSE, NoChanges)
         /\ next' = next + 1
         /\ UNCHANGED <<disk, pc, log, entries>>

Staged == IF active = NoBatch THEN NoChanges ELSE active.changes

Stage(changes) ==
    /\ pc = "ready"
    /\ \/ /\ active # NoBatch
          /\ ~active.auto
          /\ active' = [active EXCEPT !.changes = changes]
          /\ UNCHANGED next
       \/ /\ active = NoBatch
          /\ next <= MaxTransactions
          /\ active' = NewBatch(TRUE, changes)
          /\ next' = next + 1
    /\ UNCHANGED <<disk, pc, log, entries>>

Write(h) == Stage(PutChange(Staged, h))
Delete(h) == Stage(RemoveChange(Staged, h))

Rollback == /\ pc = "ready"
            /\ active # NoBatch
            /\ ~active.auto
            /\ active' = NoBatch
            /\ UNCHANGED <<disk, pc, index>>
----
(* commit_batch.                                                            *)

CommitNothing == /\ pc = "ready"
                 /\ active # NoBatch
                 /\ Changed = {}
                 /\ active' = NoBatch
                 /\ UNCHANGED <<disk, pc, index>>

\* Seeded fault: the length of the log is not checked.
AppendUnchecked ==
    /\ pc = "ready"
    /\ active # NoBatch
    /\ Changed # {}
    /\ \E order \in SetToSeqs(Changed) :
          LET t == Transaction(order)
          IN  /\ log' = log \o t
              /\ images' = images \union Torn(file, active.start, t, Len(t))
              /\ file' = Written(file, active.start, t, Len(t))
              /\ pc' = "written"
    /\ UNCHANGED <<entries, next, active>>

\* The transaction goes to the cached log and then to the file, in one write
\* that may fail part way. A log that would grow too long is refused first.
AppendTransaction ==
    /\ pc = "ready"
    /\ active # NoBatch
    /\ Changed # {}
    /\ \E order \in SetToSeqs(Changed) :
          LET t == Transaction(order)
          IN  /\ active.start + Len(t) <= MaxCells
              /\ log' = log \o t
              /\ \E k \in Extents(t) :
                    /\ file' = Written(file, active.start, t, k)
                    /\ images' = images \union Torn(file, active.start, t, k)
                    /\ \/ k = Len(t) /\ pc' = "written"
                       \/ IoFaults /\ pc' = "failed"
    /\ UNCHANGED <<entries, next, active>>

\* The worker dies in the middle of that write.
AppendStops ==
    /\ pc = "ready"
    /\ active # NoBatch
    /\ Changed # {}
    /\ \E order \in SetToSeqs(Changed) :
          LET t == Transaction(order)
          IN  /\ active.start + Len(t) <= MaxCells
              /\ \E k \in Extents(t) \ {Len(t)} :
                    /\ file' = Written(file, active.start, t, k)
                    /\ images' = images \union Torn(file, active.start, t, k)
    /\ Bounded(images')
    /\ pc' = "closed"
    /\ Forget

\* Seeded fault: an index entry points at the record, not at its object.
FlushAtRecord ==
    /\ pc = "written"
    /\ images' = {file}
    /\ entries' = [h \in Hashes |->
          CASE active.changes[h] = "put" ->
                  CHOOSE i \in active.start + 1 .. Len(log) : log[i + 1] = <<"object", h>>
            [] active.changes[h] = "delete" -> 0
            [] OTHER -> entries[h]]
    /\ active' = NoBatch
    /\ pc' = "ready"
    /\ UNCHANGED <<file, log, next>>

\* Only a successful flush publishes the batch to the index.
Flush ==
    /\ pc = "written"
    /\ images' = {file}
    /\ entries' = [h \in Hashes |->
          CASE active.changes[h] = "put" ->
                  CHOOSE i \in active.start + 1 .. Len(log) : log[i] = <<"object", h>>
            [] active.changes[h] = "delete" -> 0
            [] OTHER -> entries[h]]
    /\ active' = NoBatch
    /\ pc' = "ready"
    /\ UNCHANGED <<file, log, next>>

FlushFails == /\ IoFaults
              /\ pc = "written"
              /\ pc' = "failed"
              /\ UNCHANGED <<disk, index, active>>

\* The clean-up of a failed commit: the tail is cut, then that is flushed.
Truncate == /\ pc = "failed"
            /\ file' = SubSeq(file, 1, active.start)
            /\ images' = images \union {file'}
            /\ pc' = "truncated"
            /\ UNCHANGED <<index, active>>

\* Refused for its length, a batch of one write or delete is dropped; an
\* explicit one stays as it is.
CommitRefused == /\ pc = "ready"
                 /\ active # NoBatch
                 /\ active.auto
                 /\ active.start + 2 * (Cardinality(Changed) + 2) > MaxCells
                 /\ active' = NoBatch
                 /\ UNCHANGED <<disk, pc, index>>

\* commit_batch returns the error. The cached log is cut whether or not the
\* file was; an explicit batch stays with its owner.
CommitFails ==
    /\ \/ pc = "truncated" /\ images' = {file} /\ UNCHANGED file
       \/ CleanupFaults /\ pc \in {"failed", "truncated"} /\ UNCHANGED disk
    /\ log' = SubSeq(log, 1, active.start)
    /\ active' = IF active.auto THEN NoBatch ELSE active
    /\ pc' = "ready"
    /\ UNCHANGED <<entries, next>>
----
Next == \/ Create \/ CreateStops \/ Recover \/ RecoverStops
        \/ WorkerStops \/ MachineStops
        \/ Begin \/ Rollback
        \/ \E h \in Hashes : Write(h) \/ Delete(h)
        \/ CommitNothing \/ CommitRefused \/ AppendTransaction \/ AppendStops
        \/ Flush \/ FlushFails \/ Truncate \/ CommitFails

Spec == Init /\ [][Next]_vars
----
(* Properties. *)

\* Between calls the index is exactly what opening the cached log would
\* build, offsets included, the cached log is the file up to its own end, and
\* an open batch starts at that end (commit_batch bails out otherwise).
IndexMatchesLog ==
    pc = "ready" => /\ Readable(log)
                    /\ Entries(log) = entries
                    /\ ValidLen(log) = Len(log)
                    /\ NextTransaction(log) <= next
                    /\ SubSeq(file, 1, Len(log)) = log
                    /\ active # NoBatch => active.start = Len(log)

\* README: recovery "truncates an incomplete tail". Whatever a crash leaves at
\* this instant, opening accepts it: no write of this code looks like damage.
RecoveryAcceptsLog == \A f \in images : Readable(f)

\* What opening the file finds, if it accepts it.
Recovered(f) == IF f = <<>> THEN {} ELSE {h \in Hashes : Entries(f)[h] # 0}

\* OPFS_FORMAT.md: "the durable index is published only after the flush
\* succeeds"; Drop: "flushed before it becomes visible". Between calls, what
\* the index shows is what every crash leaves.
VisibleIsDurable ==
    pc = "ready" => \A f \in images : Recovered(f) = Stored

\* The abstract store. Opening the file decides what a closed log stores.
Store == INSTANCE TransactionalStore WITH
            stored <- IF pc = "closed" THEN Recovered(file) ELSE Stored,
            view <- IF pc = "closed" THEN Recovered(file) ELSE Listed,
            survivors <- {Recovered(f) : f \in images},
            mode <- CASE pc = "closed" -> "closed"
                      [] pc = "ready"  -> "open"
                      [] OTHER         -> "committing"

\* Batches are atomic and durable, and their owner sees its own changes:
\* through failed writes and flushes, commits that are tried again, records in
\* any order, and workers and machines that die at any cell of any write
\* (OPFS_FORMAT.md: reopening applies only transactions with a valid COMMIT).
ImplementsTransactionalStore == Store!Spec
====
