---- MODULE RepositoryProofs ----
(* Theorems about Repository, for every value of its constants: its types,  *)
(* the order of a commit's steps, and its safety.                           *)
EXTENDS Repository, SequenceTheorems, TLAPS

(* Facts about the data.                                                    *)

LEMMA VersionFacts ==
    ASSUME NEW h \in Version
    PROVE  /\ Len(h) \in Nat /\ Len(h) > 0
           /\ \A i \in 1 .. Len(h) : h[i] \in Entry /\ h[i].world \in World
           /\ WorldOf(h) = h[Len(h)].world
           /\ WorldOf(h) \in World
           /\ Parent(h) \in History
           /\ Len(Parent(h)) = Len(h) - 1
           /\ \A i \in 1 .. Len(h) - 1 : Parent(h)[i] = h[i]
<1>1. h \in Seq(Entry) /\ h # <<>>
  BY DEF Version, History
<1>2. Len(h) \in Nat /\ Len(h) > 0
  BY <1>1, EmptySeq
<1>3. \A i \in 1 .. Len(h) : h[i] \in Entry /\ h[i].world \in World
  <2>1. \A i \in 1 .. Len(h) : h[i] \in Entry
    BY <1>1, <1>2
  <2>2. \A e \in Entry : e.world \in World
    BY DEF Entry
  <2> QED
    BY <2>1, <2>2
<1>4. WorldOf(h) = h[Len(h)].world /\ WorldOf(h) \in World
  BY <1>1, <1>2, <1>3 DEF WorldOf
<1>5. /\ SubSeq(h, 1, Len(h) - 1) \in Seq(Entry)
      /\ Len(SubSeq(h, 1, Len(h) - 1)) = Len(h) - 1
      /\ \A i \in 1 .. Len(h) - 1 : SubSeq(h, 1, Len(h) - 1)[i] = h[i]
  BY <1>1, <1>2, <1>3
<1> QED
  BY <1>2, <1>3, <1>4, <1>5 DEF Parent, History

LEMMA AppendFacts ==
    ASSUME NEW h \in History, NEW e \in Entry
    PROVE  /\ Append(h, e) \in Version
           /\ Parent(Append(h, e)) = h
           /\ Len(Append(h, e)) = Len(h) + 1
           /\ WorldOf(Append(h, e)) = e.world
<1>1. h \in Seq(Entry) /\ Len(h) \in Nat
  BY DEF History
<1>2. /\ Append(h, e) \in Seq(Entry)
      /\ Len(Append(h, e)) = Len(h) + 1
      /\ Append(h, e)[Len(h) + 1] = e
      /\ \A i \in 1 .. Len(h) : Append(h, e)[i] = h[i]
  BY <1>1
<1>3. Append(h, e) # <<>>
  BY <1>1, <1>2, EmptySeq
<1>4. Append(h, e) \in Version
  BY <1>2, <1>3 DEF Version, History
<1>5. Parent(Append(h, e)) = h
  <2> DEFINE g == Append(h, e)
  <2>1. g \in Version /\ Len(g) = Len(h) + 1 /\ \A i \in 1 .. Len(h) : g[i] = h[i]
    BY <1>2, <1>4
  <2> HIDE DEF g
  <2>2. /\ Parent(g) \in History
        /\ Len(Parent(g)) = Len(g) - 1
        /\ \A i \in 1 .. Len(g) - 1 : Parent(g)[i] = g[i]
    BY <2>1, VersionFacts
  <2>3. /\ Parent(g) \in Seq(Entry)
        /\ Len(Parent(g)) = Len(h)
        /\ \A i \in 1 .. Len(h) : Parent(g)[i] = h[i]
    BY <1>1, <2>1, <2>2 DEF History
  <2>4. Parent(g) = h
    BY <1>1, <2>3, SeqEqual
  <2> QED
    BY <2>4 DEF g
<1>6. WorldOf(Append(h, e)) = e.world
  BY <1>1, <1>2, <1>3 DEF WorldOf
<1> QED
  BY <1>2, <1>4, <1>5, <1>6

LEMMA EmptyHistory == <<>> \in History /\ <<>> \notin Version
  BY EmptySeq DEF History, Version

LEMMA EmptyWorldTyped == EmptyWorld \in World
  BY DEF EmptyWorld, World

LEMMA WorldOfTyped ==
    ASSUME NEW h \in History
    PROVE  WorldOf(h) \in World
<1>1. CASE h = <<>>
  BY <1>1, EmptyWorldTyped DEF WorldOf
<1>2. CASE h # <<>>
  BY <1>2, VersionFacts DEF Version
<1> QED
  BY <1>1, <1>2

LEMMA AppliedTyped ==
    ASSUME NEW w \in World, NEW c \in ChangeSet
    PROVE  Applied(w, c) \in World
  BY DEF World, ChangeSet, Applied

LEMMA BlobsTyped ==
    /\ \A w \in World : BlobsOf(w) \subseteq Object
    /\ \A c \in ChangeSet : Upserts(c) \subseteq Object
  BY DEF BlobsOf, Upserts, Blob, Object, World, ChangeSet

LEMMA ObjectTyped ==
    /\ \A w \in World : Tree(w) \in Object
    /\ \A h \in Version : CommitObject(h) \in Object
    /\ \A o \in Object : o[1] = "commit" => o[2] \in Version /\ o = CommitObject(o[2])
    /\ \A o \in Object : o[1] = "tree" => o[2] \in World /\ o = Tree(o[2])
    /\ \A o \in Object : o[1] \in {"blob", "tree", "commit"}
  BY DEF Object, Tree, CommitObject

LEMMA ChildrenTyped ==
    ASSUME NEW o \in Object
    PROVE  Children(o) \subseteq Object
<1>1. CASE o[1] = "blob"
  BY <1>1 DEF Children
<1>2. CASE o[1] = "tree"
  BY <1>2, ObjectTyped, BlobsTyped DEF Children
<1>3. CASE o[1] = "commit"
  <2>1. o[2] \in Version
    BY <1>3, ObjectTyped
  <2>2. WorldOf(o[2]) \in World /\ Parent(o[2]) \in History
    BY <2>1, VersionFacts
  <2>3. \A h \in {Parent(o[2])} \ {<<>>} : h \in Version
    BY <2>2 DEF Version
  <2>4. Children(o) = {Tree(WorldOf(o[2]))}
                        \union {CommitObject(h) : h \in {Parent(o[2])} \ {<<>>}}
    BY <1>3 DEF Children
  <2> QED
    BY <2>2, <2>3, <2>4, ObjectTyped
<1> QED
  BY <1>1, <1>2, <1>3, ObjectTyped
----
(* Type correctness. While a commit is written and published there is one.  *)

CandBuilt ==
    \A p \in Procs : pc[p] \in {"blobs", "commit", "flush", "publish"}
                        => cand[p] \in Version

TypeInv == TypeOK /\ CandBuilt

LEMMA HeadCommitTyped == TypeOK => HeadCommit \in History
  BY DEF TypeOK, HeadCommit

LEMMA TypeInit == Init => TypeInv
<1> SUFFICES ASSUME Init PROVE TypeInv
  OBVIOUS
<1>1. HEAD \in [branch : Branches \union {Detached}, commit : History]
  BY EmptyHistory, BranchAssumption DEF Init
<1>2. /\ ref \in [Branches -> History]
      /\ head \in [Procs -> History]
      /\ cand \in [Procs -> History]
  BY EmptyHistory DEF Init
<1>3. pc \in [Procs -> PC] /\ \A p \in Procs : pc[p] = "closed"
  BY DEF Init, PC
<1>4. CandBuilt
  BY <1>3 DEF CandBuilt
<1> QED
  BY <1>1, <1>2, <1>3, <1>4 DEF Init, TypeInv, TypeOK

\* The steps outside an operation, and those that start or end one.
LEMMA TypeOutside ==
    ASSUME TypeInv, NEW p \in Procs,
           Outside(p) \/ Release(p) \/ Crash(p) \/ RefreshHead(p) \/ Fail(p)
    PROVE  TypeInv'
<1> USE DEF TypeInv, TypeOK, CandBuilt, files, store, handle, work, PC, Section, InBatch
<1>1. CASE OpenReadHead(p)
  BY <1>1 DEF OpenReadHead
<1>2. CASE OpenReadRef(p)
  BY <1>2 DEF OpenReadRef
<1>3. CASE Close(p)
  BY <1>3, EmptyHistory DEF Close
<1>4. ASSUME NEW k \in Ops, Acquire(p, k)
      PROVE  TypeInv'
  BY <1>4 DEF Acquire
<1>5. CASE AcquireTorn(p)
  BY <1>5 DEF AcquireTorn
<1>6. CASE Release(p)
  BY <1>6, EmptyHistory DEF Release, Forget
<1>7. CASE Crash(p)
  BY <1>7, EmptyHistory DEF Crash, Forget
<1>8. CASE RefreshHead(p)
  BY <1>8, HeadCommitTyped DEF RefreshHead
<1>9. CASE Fail(p)
  BY <1>9 DEF Fail
<1> QED
  BY <1>1, <1>2, <1>3, <1>4, <1>5, <1>6, <1>7, <1>8, <1>9 DEF Outside

LEMMA TypeChangeRefs ==
    ASSUME TypeInv, NEW p \in Procs, ChangeRefs(p)
    PROVE  TypeInv'
<1> USE DEF TypeInv, TypeOK, CandBuilt, files, store, handle, work, PC, Section, InBatch
<1>1. ASSUME NEW b \in Branches, CreateBranch(p, b)
      PROVE  TypeInv'
  BY <1>1 DEF CreateBranch, Wrote
<1>2. ASSUME NEW b \in Branches, DeleteBranch(p, b)
      PROVE  TypeInv'
  BY <1>2, EmptyHistory DEF DeleteBranch
<1>3. ASSUME NEW b \in Branches, CheckoutBranch(p, b)
      PROVE  TypeInv'
  BY <1>3, EmptyHistory DEF CheckoutBranch, Wrote, MoveHandle
<1>4. ASSUME NEW o \in objects, o[1] = "commit", CheckoutCommit(p, o[2])
      PROVE  TypeInv'
  <2>1. o[2] \in History
    BY <1>4, ObjectTyped DEF Version
  <2> QED
    BY <1>4, <2>1 DEF CheckoutCommit, Wrote, MoveHandle
<1>5. CASE Refuse(p)
  BY <1>5 DEF Refuse
<1> QED
  BY <1>1, <1>2, <1>3, <1>4, <1>5 DEF ChangeRefs

LEMMA TypeCommit ==
    ASSUME TypeInv, NEW p \in Procs, Commit(p)
    PROVE  TypeInv'
<1> USE DEF TypeInv, TypeOK, CandBuilt, files, store, handle, work, PC, Section, InBatch
<1>1. ASSUME NEW t \in Stamps, NEW w \in Snapshots, StartSnapshot(p, w, t)
      PROVE  TypeInv'
  <2>1. w \in World /\ [world |-> w, stamp |-> t] \in Entry
    BY DataAssumption DEF Entry
  <2>2. Append(head[p], [world |-> w, stamp |-> t]) \in Version
    BY <2>1, AppendFacts
  <2>3. BlobsOf(w) \subseteq Object
    BY <2>1, BlobsTyped
  <2> QED
    BY <1>1, <2>2, <2>3 DEF StartSnapshot, Version
<1>2. ASSUME NEW t \in Stamps, NEW c \in ChangeSets, StartChanges(p, c, t)
      PROVE  TypeInv'
  <2> DEFINE w == Applied(WorldOf(head[p]), c)
  <2>1. c \in ChangeSet /\ w \in World
    BY DataAssumption, WorldOfTyped, AppliedTyped
  <2>2. [world |-> w, stamp |-> t] \in Entry
    BY <2>1 DEF Entry
  <2>3. Append(head[p], [world |-> w, stamp |-> t]) \in Version
    BY <2>2, AppendFacts
  <2>4. Upserts(c) \subseteq Object /\ Tree(EmptyWorld) \in Object
    BY <2>1, BlobsTyped, ObjectTyped, EmptyWorldTyped
  <2>5. objects' \subseteq Object /\ batch' \subseteq Object
    BY <1>2, <2>4 DEF StartChanges, Put
  <2> QED
    BY <1>2, <2>3, <2>4, <2>5 DEF StartChanges, Version
<1>3. ASSUME NEW o \in todo[p], WriteBlob(p, o)
      PROVE  TypeInv'
  BY <1>3 DEF WriteBlob, Put
<1>4. CASE WriteTree(p)
  <2>1. Tree(WorldOf(cand[p])) \in Object
    BY WorldOfTyped, ObjectTyped
  <2> QED
    BY <1>4, <2>1 DEF WriteTree, Put
<1>5. CASE WriteCommit(p)
  <2>1. CommitObject(cand[p]) \in Object
    BY <1>5, ObjectTyped DEF WriteCommit
  <2> QED
    BY <1>5, <2>1 DEF WriteCommit, Put
<1>6. CASE PublishCommit(p)
  BY <1>6 DEF PublishCommit, Wrote, MoveHandle
<1> QED
  BY <1>1, <1>2, <1>3, <1>4, <1>5, <1>6 DEF Commit

LEMMA TypeCollect ==
    ASSUME TypeInv, NEW p \in Procs,
           CollectGarbage(p) \/ BeginBatch(p) \/ CommitBatch(p)
    PROVE  TypeInv'
<1> USE DEF TypeInv, TypeOK, CandBuilt, files, store, handle, work, PC, Section, InBatch
<1>1. CASE ReadRoots(p)
  <2>1. \A h \in Roots : CommitObject(h) \in Object
    BY HeadCommitTyped, ObjectTyped DEF Roots, Version
  <2> QED
    BY <1>1, <2>1 DEF ReadRoots
<1>2. ASSUME NEW o \in todo[p], Mark(p, o)
      PROVE  TypeInv'
  <2>1. o \in Object /\ Children(o) \subseteq Object
    BY ChildrenTyped
  <2> QED
    BY <1>2, <2>1 DEF Mark
<1>3. ASSUME NEW o \in todo[p], Sweep(p, o)
      PROVE  TypeInv'
  BY <1>3 DEF Sweep, Delete
<1>4. CASE BeginBatch(p)
  BY <1>4 DEF BeginBatch
<1>5. CASE CommitBatch(p)
  BY <1>5 DEF CommitBatch
<1> QED
  BY <1>1, <1>2, <1>3, <1>4, <1>5 DEF CollectGarbage

LEMMA TypeNext == TypeInv /\ [Next]_vars => TypeInv'
<1> SUFFICES ASSUME TypeInv, [Next]_vars PROVE TypeInv'
  OBVIOUS
<1>1. ASSUME NEW p \in Procs, Locked(p) \/ Outside(p) \/ Crash(p)
      PROVE  TypeInv'
  BY <1>1, TypeOutside, TypeChangeRefs, TypeCommit, TypeCollect DEF Locked
<1>2. CASE RemoveStaleLock
  BY <1>2 DEF RemoveStaleLock, TypeInv, TypeOK, CandBuilt, files, store, handle, work
<1>3. CASE UNCHANGED vars
  BY <1>3 DEF vars, TypeInv, TypeOK, CandBuilt
<1> QED
  BY <1>1, <1>2, <1>3 DEF Next

\* Every variable keeps its type, whatever the data, the faults and the
\* number of processes.
THEOREM TypeCorrect == Spec => []TypeOK
<1>1. Spec => []TypeInv
  BY TypeInit, TypeNext, PTL DEF Spec
<1> QED
  BY <1>1, PTL DEF TypeInv
----
(* Mutual exclusion.                                                        *)

\* What one process does leaves the others where they are, and while it holds
\* the lock the file stays.
LEMMA LockedFrame ==
    ASSUME TypeOK, NEW p \in Procs, Locked(p)
    PROVE  /\ pc[p] \in Section
           /\ \A q \in Procs \ {p} : pc'[q] = pc[q]
           /\ lock' = lock \/ pc'[p] \notin Section
<1> USE DEF TypeOK, Section, InBatch
<1>1. CASE RefreshHead(p)
  BY <1>1 DEF RefreshHead
<1>2. CASE BeginBatch(p) \/ CommitBatch(p)
  BY <1>2 DEF BeginBatch, CommitBatch
<1>3. CASE Commit(p)
  BY <1>3 DEF Commit, StartSnapshot, StartChanges, WriteBlob, WriteTree,
              WriteCommit, PublishCommit, Wrote
<1>4. CASE ChangeRefs(p)
  BY <1>4 DEF ChangeRefs, CreateBranch, DeleteBranch, CheckoutBranch,
              CheckoutCommit, Refuse, Wrote
<1>5. CASE CollectGarbage(p)
  BY <1>5 DEF CollectGarbage, ReadRoots, Mark, Sweep
<1>6. CASE Fail(p)
  BY <1>6 DEF Fail, MustFail, MayFail
<1>7. CASE Release(p)
  BY <1>7 DEF Release
<1> QED
  BY <1>1, <1>2, <1>3, <1>4, <1>5, <1>6, <1>7 DEF Locked

LEMMA LockInit == Init => MutualExclusion
  BY DEF Init, MutualExclusion, Section, InBatch

LEMMA LockNext == TypeOK /\ MutualExclusion /\ [Next]_vars => MutualExclusion'
<1> SUFFICES ASSUME TypeOK, MutualExclusion, [Next]_vars
             PROVE  MutualExclusion'
  OBVIOUS
<1>1. ASSUME NEW p \in Procs, Locked(p)
      PROVE  MutualExclusion'
  BY <1>1, LockedFrame DEF MutualExclusion
<1>2. ASSUME NEW p \in Procs, Outside(p)
      PROVE  MutualExclusion'
  <2> USE DEF TypeOK, MutualExclusion, Section, InBatch
  <2>1. CASE OpenReadHead(p) \/ OpenReadRef(p) \/ Close(p)
    BY <2>1 DEF OpenReadHead, OpenReadRef, Close
  <2>2. ASSUME NEW k \in Ops, Acquire(p, k)
        PROVE  MutualExclusion'
    BY <2>2 DEF Acquire
  <2>3. CASE AcquireTorn(p)
    BY <2>3 DEF AcquireTorn
  <2> QED
    BY <1>2, <2>1, <2>2, <2>3 DEF Outside
<1>3. ASSUME NEW p \in Procs, Crash(p)
      PROVE  MutualExclusion'
  BY <1>3 DEF Crash, TypeOK, MutualExclusion, Section, InBatch
<1>4. CASE RemoveStaleLock
  BY <1>4 DEF RemoveStaleLock, MutualExclusion
<1>5. CASE UNCHANGED vars
  BY <1>5 DEF vars, MutualExclusion
<1> QED
  BY <1>1, <1>2, <1>3, <1>4, <1>5 DEF Next

\* Mutating operations never overlap, for any number of processes and any
\* faults, as long as the operator removes LOCK only when none is running.
THEOREM LockIsExclusive == Spec => []MutualExclusion
<1>1. Spec => [](TypeOK /\ MutualExclusion)
  <2>1. Init => TypeInv /\ MutualExclusion
    BY TypeInit, LockInit
  <2>2. TypeInv /\ MutualExclusion /\ [Next]_vars => (TypeInv /\ MutualExclusion)'
    BY TypeNext, LockNext DEF TypeInv
  <2> QED
    BY <2>1, <2>2, PTL DEF Spec, TypeInv
<1> QED
  BY <1>1, PTL
----
(* Handles. The head an operation works from is the one it read under the   *)
(* lock, and nobody moves it before the operation does.                     *)

Writing == {"base", "blobs", "commit", "flush"}

\* After the refresh the handle agrees with the files up to the publication.
Fresh(p) ==
    pc[p] \in Writing \union {"run", "begin", "publish"}
      => branch[p] = HEAD.branch /\ head[p] = HeadCommit

\* The commit being built is a child of the handle's head.
Extends(p) ==
    pc[p] \in {"blobs", "commit", "flush", "publish"} => Parent(cand[p]) = head[p]

HandleInv == \A p \in Procs : Fresh(p) /\ Extends(p)

LEMMA HandleInit == Init => HandleInv
  BY DEF Init, HandleInv, Fresh, Extends, Writing

\* The references an operation moves, from a fresh handle.
LEMMA HandleStep ==
    ASSUME TypeInv, NEW p \in Procs, Fresh(p), Extends(p), Locked(p) \/ Crash(p)
    PROVE  Fresh(p)' /\ Extends(p)'
<1> USE DEF TypeInv, TypeOK, files, store, handle, work
<1>1. ASSUME pc'[p] \in {"ok", "err", "idle", "closed"}
      PROVE  Fresh(p)' /\ Extends(p)'
  BY <1>1 DEF Fresh, Extends, Writing
<1>2. ASSUME UNCHANGED <<files, handle, cand>>,
             pc'[p] \in Writing \union {"publish"} =>
               \/ pc[p] \in {"blobs", "commit", "flush"}
               \/ pc[p] = "begin" /\ pc'[p] = "base"
      PROVE  Fresh(p)' /\ Extends(p)'
  <2>1. CASE pc'[p] \in Writing \union {"publish"}
    BY <1>2, <2>1 DEF Fresh, Extends, Writing, HeadCommit
  <2>2. CASE pc'[p] \notin Writing \union {"publish", "run", "begin"}
    BY <2>2 DEF Fresh, Extends, Writing
  <2>3. CASE pc'[p] \in {"run", "begin"} /\ pc[p] = pc'[p]
    BY <1>2, <2>3 DEF Fresh, Extends, Writing, HeadCommit
  <2>4. CASE pc'[p] \in {"run", "begin"} /\ pc[p] # pc'[p]
    BY <1>2, <2>4 DEF Locked, Crash, RefreshHead, BeginBatch, CommitBatch, Commit,
          StartSnapshot, StartChanges, WriteBlob, WriteTree, WriteCommit,
          PublishCommit, ChangeRefs, CreateBranch, DeleteBranch, CheckoutBranch,
          CheckoutCommit, Refuse, Wrote, CollectGarbage, ReadRoots, Mark, Sweep,
          Fail, Release, Fresh, Extends, Writing, HeadCommit
  <2> QED
    BY <2>1, <2>2, <2>3, <2>4
<1>3. CASE RefreshHead(p)
  BY <1>3 DEF RefreshHead, Fresh, Extends, Writing, HeadCommit
<1>4. CASE BeginBatch(p) \/ CommitBatch(p)
  BY <1>2, <1>4 DEF BeginBatch, CommitBatch, Writing
<1>5. ASSUME NEW t \in Stamps, NEW w \in Snapshots, StartSnapshot(p, w, t)
      PROVE  Fresh(p)' /\ Extends(p)'
  <2>1. [world |-> w, stamp |-> t] \in Entry
    BY DataAssumption DEF Entry
  <2>2. Parent(cand'[p]) = head[p]
    BY <1>5, <2>1, AppendFacts DEF StartSnapshot
  <2> QED
    BY <1>5, <2>2 DEF StartSnapshot, Fresh, Extends, Writing, HeadCommit
<1>6. ASSUME NEW t \in Stamps, NEW c \in ChangeSets, StartChanges(p, c, t)
      PROVE  Fresh(p)' /\ Extends(p)'
  <2>1. Applied(WorldOf(head[p]), c) \in World
    BY DataAssumption, WorldOfTyped, AppliedTyped
  <2>2. [world |-> Applied(WorldOf(head[p]), c), stamp |-> t] \in Entry
    BY <2>1 DEF Entry
  <2>3. Parent(cand'[p]) = head[p]
    BY <1>6, <2>2, AppendFacts DEF StartChanges
  <2> QED
    BY <1>6, <2>3 DEF StartChanges, Fresh, Extends, Writing, HeadCommit
<1>7. CASE (\E o \in todo[p] : WriteBlob(p, o)) \/ WriteTree(p) \/ WriteCommit(p)
  BY <1>2, <1>7 DEF WriteBlob, WriteTree, WriteCommit, Writing
<1>8. CASE PublishCommit(p) \/ ChangeRefs(p)
  BY <1>1, <1>8 DEF PublishCommit, ChangeRefs, CreateBranch, DeleteBranch,
                    CheckoutBranch, CheckoutCommit, Refuse, Wrote
<1>9. CASE CollectGarbage(p)
  BY <1>2, <1>9 DEF CollectGarbage, ReadRoots, Mark, Sweep, Writing
<1>10. CASE Fail(p) \/ Release(p) \/ Crash(p)
  BY <1>1, <1>10 DEF Fail, Release, Crash
<1> QED
  BY <1>3, <1>4, <1>5, <1>6, <1>7, <1>8, <1>9, <1>10 DEF Locked, Commit

LEMMA HandleNext ==
    TypeInv /\ MutualExclusion /\ HandleInv /\ [Next]_vars => HandleInv'
<1> SUFFICES ASSUME TypeInv, MutualExclusion, HandleInv, [Next]_vars
             PROVE  HandleInv'
  OBVIOUS
<1>1. ASSUME NEW q \in Procs, pc'[q] \notin Section
      PROVE  Fresh(q)' /\ Extends(q)'
  BY <1>1 DEF Fresh, Extends, Writing, Section, InBatch
<1>2. ASSUME NEW q \in Procs, UNCHANGED files,
             UNCHANGED <<pc[q], branch[q], head[q], cand[q]>>
      PROVE  Fresh(q)' /\ Extends(q)'
  BY <1>2 DEF HandleInv, Fresh, Extends, HeadCommit, files
<1>3. ASSUME NEW p \in Procs, Locked(p) \/ Crash(p)
      PROVE  HandleInv'
  <2>1. Fresh(p)' /\ Extends(p)'
    BY <1>3, HandleStep DEF HandleInv
  <2>2. pc[p] \in Section /\ \A q \in Procs \ {p} : pc'[q] = pc[q]
    BY <1>3, LockedFrame DEF TypeInv, TypeOK, Crash
  <2>3. \A q \in Procs \ {p} : pc'[q] \notin Section
    BY <2>2 DEF MutualExclusion
  <2> QED
    BY <1>1, <2>1, <2>3 DEF HandleInv
<1>4. ASSUME NEW p \in Procs, Outside(p)
      PROVE  HandleInv'
  <2>1. /\ UNCHANGED files
        /\ pc'[p] \notin Writing \union {"run", "begin", "publish"}
        /\ \A q \in Procs \ {p} :
              UNCHANGED <<pc[q], branch[q], head[q], cand[q]>>
    BY <1>4 DEF TypeInv, TypeOK, Writing, Outside, OpenReadHead, OpenReadRef,
                Close, Acquire, AcquireTorn, files, handle, work
  <2>2. Fresh(p)' /\ Extends(p)'
    BY <2>1 DEF Fresh, Extends, Writing
  <2> QED
    BY <1>2, <2>1, <2>2 DEF HandleInv
<1>5. CASE RemoveStaleLock \/ UNCHANGED vars
  <2>1. UNCHANGED <<files, pc, branch, head, cand>>
    BY <1>5 DEF RemoveStaleLock, vars, files, handle, work
  <2> QED
    BY <1>2, <2>1 DEF HandleInv
<1> QED
  BY <1>3, <1>4, <1>5 DEF Next

\* Only publish_commit moves a branch that exists, to a child of what it held.
LEMMA BranchesMove ==
    ASSUME TypeInv, HandleInv, [Next]_vars,
           NEW b \in refFile \intersect refFile', ref'[b] # ref[b], ref[b] # <<>>
    PROVE  Parent(ref'[b]) = ref[b]
<1> USE DEF TypeInv, TypeOK
<1>1. PICK p \in Procs : ChangeRefs(p) \/ PublishCommit(p)
  BY DEF Next, Locked, Outside, Crash, RemoveStaleLock, vars, files, OpenReadHead,
         OpenReadRef, Close, Acquire, AcquireTorn, Release, RefreshHead, BeginBatch,
         CommitBatch, Commit, StartSnapshot, StartChanges, WriteBlob, WriteTree,
         WriteCommit, CollectGarbage, ReadRoots, Mark, Sweep, Fail
<1>2. CASE ChangeRefs(p)
  BY <1>2 DEF ChangeRefs, CreateBranch, DeleteBranch, CheckoutBranch,
              CheckoutCommit, Refuse, files
<1>3. CASE PublishCommit(p)
  <2>1. pc[p] = "publish" /\ branch[p] # Detached /\ b = branch[p] /\ ref'[b] = cand[p]
    BY <1>3 DEF PublishCommit
  <2>2. HEAD.branch = b /\ head[p] = HeadCommit /\ Parent(cand[p]) = head[p]
    BY <2>1 DEF HandleInv, Fresh, Extends
  <2> QED
    BY <2>1, <2>2 DEF HeadCommit
<1> QED
  BY <1>1, <1>2, <1>3

LEMMA HeadMoves ==
    ASSUME TypeInv, HandleInv, [Next]_vars, HeadCommit # <<>>
    PROVE  HeadCommit' # <<>>
<1> USE DEF TypeInv, TypeOK
<1>1. CASE UNCHANGED files
  BY <1>1 DEF files, HeadCommit
<1>2. CASE ~UNCHANGED files
  <2>1. PICK p \in Procs : ChangeRefs(p) \/ PublishCommit(p)
    BY <1>2 DEF Next, Locked, Outside, Crash, RemoveStaleLock, vars, files,
         OpenReadHead, OpenReadRef, Close, Acquire, AcquireTorn, Release,
         RefreshHead, BeginBatch, CommitBatch, Commit, StartSnapshot, StartChanges,
         WriteBlob, WriteTree, WriteCommit, CollectGarbage, ReadRoots, Mark, Sweep,
         Fail
  <2>2. pc[p] \in {"run", "publish"} => branch[p] = HEAD.branch /\ head[p] = HeadCommit
    BY DEF HandleInv, Fresh
  <2>3. ASSUME NEW b \in Branches, CreateBranch(p, b)
        PROVE  HeadCommit' # <<>>
    BY <2>2, <2>3 DEF CreateBranch, HeadCommit
  <2>4. ASSUME NEW b \in Branches, DeleteBranch(p, b)
        PROVE  HeadCommit' # <<>>
    BY <2>2, <2>4 DEF DeleteBranch, HeadCommit
  <2>5. ASSUME NEW b \in Branches, CheckoutBranch(p, b)
        PROVE  HeadCommit' # <<>>
    BY <2>5, BranchAssumption DEF CheckoutBranch, HeadCommit
  <2>6. ASSUME NEW o \in objects, o[1] = "commit", CheckoutCommit(p, o[2])
        PROVE  HeadCommit' # <<>>
    <3>1. o[2] \in Version
      BY <2>6, ObjectTyped
    <3> QED
      BY <2>6, <3>1, EmptyHistory DEF CheckoutCommit, HeadCommit
  <2>7. CASE PublishCommit(p)
    <3>1. cand[p] # <<>> /\ branch[p] = HEAD.branch
      BY <2>2, <2>7, EmptyHistory DEF PublishCommit, CandBuilt
    <3> QED
      BY <2>7, <3>1 DEF PublishCommit, HeadCommit
  <2> QED
    BY <1>2, <2>1, <2>3, <2>4, <2>5, <2>6, <2>7 DEF ChangeRefs, Refuse
<1> QED
  BY <1>1, <1>2

LEMMA HandlesStayFresh == Spec => [](TypeInv /\ MutualExclusion /\ HandleInv)
<1>1. Init => TypeInv /\ MutualExclusion /\ HandleInv
  BY TypeInit, LockInit, HandleInit
<1>2. TypeInv /\ MutualExclusion /\ HandleInv /\ [Next]_vars
        => (TypeInv /\ MutualExclusion /\ HandleInv)'
  BY TypeNext, LockNext, HandleNext DEF TypeInv
<1> QED
  BY <1>1, <1>2, PTL DEF Spec

\* A branch that has commits moves only to a child of the commit it names,
\* however old the handles are that other processes hold.
THEOREM UpdatesAreNotLost == Spec => NoLostUpdate
<1>1. TypeInv /\ HandleInv /\ [Next]_vars =>
        [\A b \in refFile \intersect refFile' :
            ref[b] # <<>> /\ ref'[b] # ref[b] => Parent(ref'[b]) = ref[b]]_vars
  BY BranchesMove
<1> QED
  BY <1>1, HandlesStayFresh, PTL DEF Spec, NoLostUpdate

\* Once HEAD names a commit it always does.
THEOREM HeadIsBornOnce == Spec => HeadStaysBorn
<1>1. TypeInv /\ HandleInv /\ [Next]_vars =>
        [HeadCommit # <<>> => HeadCommit' # <<>>]_vars
  BY HeadMoves
<1> QED
  BY <1>1, HandlesStayFresh, PTL DEF Spec, HeadStaysBorn
----
(* What references reach is never lost, and nothing else outlives a         *)
(* successful collection: the inductive invariant behind RootsComplete,     *)
(* StoreComplete and CollectionIsExact, and its proof.                      *)

\* Every object below an object, itself included.
Reach(o) == CASE o[1] = "blob"   -> {o}
              [] o[1] = "tree"   -> {o} \union BlobsOf(o[2])
              [] o[1] = "commit" -> Needs(o[2])

\* Every commit in S has all it needs in S.
Complete(S) == \A h \in Version : CommitObject(h) \in S => Needs(h) \subseteq S

\* Users may name any commit they saw only if no stored commit is damaged.
SafeCheckouts == Transactional \/ ~OrphanCheckout

\* Without an open batch there is one image of the store, and a store without
\* transactions never has another.
BatchInv ==
    (~Transactional \/ \A p \in Procs : pc[p] \notin InBatch) => batch = objects

StoreInv == /\ BatchInv
            /\ RootsComplete
            /\ Transactional => Complete(objects)

\* The blobs of a commit are written or pending, then its
\* tree, then itself; it is published only when all it needs is durable.
Building(p) ==
    LET w == WorldOf(cand[p])
    IN  /\ pc[p] \in Writing => /\ objects \subseteq batch
                                /\ Transactional => Complete(batch)
        /\ pc[p] = "blobs" => /\ BlobsOf(w) \subseteq batch \union todo[p]
                             /\ \A o \in todo[p] : o[1] = "blob"
        /\ pc[p] \in {"commit", "flush"} => {Tree(w)} \union BlobsOf(w) \subseteq batch
        /\ pc[p] = "flush" => CommitObject(cand[p]) \in batch
        /\ pc[p] = "publish" => Needs(cand[p]) \subseteq objects

\* Everything below a marked object is marked, or below a queued object that
\* itself lies below the marked one.
Followed(done, queue) ==
    \A m \in done : \A x \in Reach(m) :
        x \in done \/ \E t \in queue \intersect Reach(m) : x \in Reach(t)

\* Only live objects are marked or queued, and every root is; when the queue
\* is empty exactly the live objects are marked, and only others are deleted.
Marking(p) ==
    /\ pc[p] \notin {"mark", "sweep", "ok", "err"} => marked[p] = {}
    /\ pc[p] = "mark" => /\ marked[p] \intersect todo[p] = {}
                         /\ marked[p] \subseteq objects
                         /\ marked[p] \union todo[p] \subseteq Live
                         /\ \A h \in Roots : CommitObject(h) \in marked[p] \union todo[p]
                         /\ Followed(marked[p], todo[p])
    /\ pc[p] = "sweep" => /\ marked[p] = Live
                          /\ todo[p] \intersect Live = {}
                          /\ Live \subseteq batch
                          /\ batch \subseteq Live \union todo[p]

IInv == /\ StoreInv
        /\ \A p \in Procs : Building(p) /\ Marking(p)
----
(* Histories and what they need.                                            *)

LEMMA PrefixFacts ==
    ASSUME NEW h \in Version, NEW i \in 1 .. Len(h)
    PROVE  /\ SubSeq(h, 1, i) \in Version
           /\ Len(SubSeq(h, 1, i)) = i
           /\ \A j \in 1 .. i : SubSeq(h, 1, i)[j] = h[j]
<1>1. /\ Len(h) \in Nat
      /\ \A j \in 1 .. i : h[j] \in Entry
  BY VersionFacts
<1>2. /\ SubSeq(h, 1, i) \in Seq(Entry)
      /\ Len(SubSeq(h, 1, i)) = i
      /\ \A j \in 1 .. i : SubSeq(h, 1, i)[j] = h[j]
  BY <1>1 DEF Version, History
<1>3. SubSeq(h, 1, i) # <<>>
  BY <1>1, <1>2, EmptySeq
<1> QED
  BY <1>2, <1>3 DEF Version, History

LEMMA PrefixOfPrefix ==
    ASSUME NEW h \in Version, NEW i \in 1 .. Len(h), NEW j \in 1 .. i
    PROVE  SubSeq(SubSeq(h, 1, i), 1, j) = SubSeq(h, 1, j)
<1> DEFINE g == SubSeq(h, 1, i)
<1>1. g \in Version /\ Len(g) = i /\ \A k \in 1 .. i : g[k] = h[k]
  BY PrefixFacts
<1>2. Len(h) \in Nat /\ j \in 1 .. Len(h)
  BY VersionFacts
<1> HIDE DEF g
<1>3. /\ SubSeq(g, 1, j) \in Version
      /\ Len(SubSeq(g, 1, j)) = j
      /\ \A k \in 1 .. j : SubSeq(g, 1, j)[k] = g[k]
  BY <1>1, PrefixFacts
<1>4. /\ SubSeq(h, 1, j) \in Version
      /\ Len(SubSeq(h, 1, j)) = j
      /\ \A k \in 1 .. j : SubSeq(h, 1, j)[k] = h[k]
  BY <1>2, PrefixFacts
<1>5. \A k \in 1 .. j : SubSeq(g, 1, j)[k] = SubSeq(h, 1, j)[k]
  BY <1>1, <1>2, <1>3, <1>4
<1>6. SubSeq(g, 1, j) = SubSeq(h, 1, j)
  BY <1>3, <1>4, <1>5, SeqEqual DEF Version, History
<1> QED
  BY <1>6 DEF g

\* Membership in Needs, one index at a time.
LEMMA NeedsMember ==
    ASSUME NEW h \in Version, NEW x
    PROVE  x \in Needs(h) <=>
             \E i \in 1 .. Len(h) : \/ x = CommitObject(SubSeq(h, 1, i))
                                    \/ x = Tree(h[i].world)
                                    \/ x \in BlobsOf(h[i].world)
  BY DEF Needs

LEMMA PrefixNeeds ==
    ASSUME NEW h \in Version, NEW i \in 1 .. Len(h)
    PROVE  Needs(SubSeq(h, 1, i)) \subseteq Needs(h)
<1> DEFINE g == SubSeq(h, 1, i)
<1>1. g \in Version /\ Len(g) = i /\ \A k \in 1 .. i : g[k] = h[k]
  BY PrefixFacts
<1>2. \A k \in 1 .. i : SubSeq(g, 1, k) = SubSeq(h, 1, k)
  BY PrefixOfPrefix
<1>3. Len(h) \in Nat /\ 1 .. i \subseteq 1 .. Len(h)
  BY VersionFacts
<1> HIDE DEF g
<1>4. ASSUME NEW x \in Needs(g)
      PROVE  x \in Needs(h)
  <2>1. PICK k \in 1 .. i : \/ x = CommitObject(SubSeq(g, 1, k))
                            \/ x = Tree(g[k].world)
                            \/ x \in BlobsOf(g[k].world)
    BY <1>1, <1>4, NeedsMember
  <2>2. \/ x = CommitObject(SubSeq(h, 1, k))
        \/ x = Tree(h[k].world)
        \/ x \in BlobsOf(h[k].world)
    BY <1>1, <1>2, <2>1
  <2> QED
    BY <1>3, <2>2, NeedsMember
<1> QED
  BY <1>4 DEF g

\* A version needs its own objects and what its parent needs.
LEMMA NeedsOwn ==
    ASSUME NEW h \in Version
    PROVE  {CommitObject(h), Tree(WorldOf(h))} \union BlobsOf(WorldOf(h))
             \subseteq Needs(h)
<1>1. Len(h) \in 1 .. Len(h) /\ WorldOf(h) = h[Len(h)].world
  BY VersionFacts
<1>2. SubSeq(h, 1, Len(h)) = h
  BY SubSeqFull DEF Version, History
<1> QED
  BY <1>1, <1>2, NeedsMember

LEMMA NeedsParent ==
    ASSUME NEW h \in Version
    PROVE  /\ Parent(h) \in Version => Needs(Parent(h)) \subseteq Needs(h)
           /\ \A x \in Needs(h) :
                 \/ x = CommitObject(h)
                 \/ x = Tree(WorldOf(h))
                 \/ x \in BlobsOf(WorldOf(h))
                 \/ Parent(h) \in Version /\ x \in Needs(Parent(h))
<1>1. /\ Len(h) \in Nat /\ Len(h) > 0
      /\ WorldOf(h) = h[Len(h)].world
      /\ Parent(h) \in History /\ Len(Parent(h)) = Len(h) - 1
  BY VersionFacts
<1>2. SubSeq(h, 1, Len(h)) = h
  BY SubSeqFull DEF Version, History
<1>3. Parent(h) \in Version <=> Len(h) > 1
  BY <1>1, EmptySeq DEF Version, History
<1>4. ASSUME Parent(h) \in Version
      PROVE  Needs(Parent(h)) \subseteq Needs(h)
  <2>1. Len(h) - 1 \in 1 .. Len(h)
    BY <1>1, <1>3, <1>4
  <2> QED
    BY <2>1, PrefixNeeds DEF Parent
<1>5. ASSUME NEW x \in Needs(h)
      PROVE  \/ x = CommitObject(h)
             \/ x = Tree(WorldOf(h))
             \/ x \in BlobsOf(WorldOf(h))
             \/ Parent(h) \in Version /\ x \in Needs(Parent(h))
  <2>1. PICK i \in 1 .. Len(h) : \/ x = CommitObject(SubSeq(h, 1, i))
                                 \/ x = Tree(h[i].world)
                                 \/ x \in BlobsOf(h[i].world)
    BY <1>5, NeedsMember
  <2>2. CASE i = Len(h)
    BY <1>1, <1>2, <2>1, <2>2
  <2>3. CASE i # Len(h)
    <3>1. i \in 1 .. Len(h) - 1 /\ Parent(h) \in Version
      BY <1>1, <1>3, <2>3
    <3>2. Len(h) - 1 \in 1 .. Len(h)
      BY <1>1, <3>1
    <3>3. SubSeq(Parent(h), 1, i) = SubSeq(h, 1, i) /\ Parent(h)[i] = h[i]
      BY <3>1, <3>2, PrefixOfPrefix, VersionFacts DEF Parent
    <3>4. \/ x = CommitObject(SubSeq(Parent(h), 1, i))
          \/ x = Tree(Parent(h)[i].world)
          \/ x \in BlobsOf(Parent(h)[i].world)
      BY <2>1, <3>3
    <3> QED
      BY <1>1, <3>1, <3>4, NeedsMember
  <2> QED
    BY <2>2, <2>3
<1> QED
  BY <1>4, <1>5
----
(* What an object reaches.                                                  *)

\* The three kinds of objects and what lies below each.
LEMMA ReachOfKind ==
    /\ \A x : Reach(Blob(x)) = {Blob(x)} /\ Blob(x)[1] = "blob"
    /\ \A w : Reach(Tree(w)) = {Tree(w)} \union BlobsOf(w) /\ Tree(w)[1] = "tree"
    /\ \A h : Reach(CommitObject(h)) = Needs(h) /\ CommitObject(h)[1] = "commit"
    /\ \A w : \A b \in BlobsOf(w) : b[1] = "blob" /\ Reach(b) = {b}
<1>1. \A x : Reach(Blob(x)) = {Blob(x)} /\ Blob(x)[1] = "blob"
  BY DEF Reach, Blob
<1>2. \A w : Reach(Tree(w)) = {Tree(w)} \union BlobsOf(w) /\ Tree(w)[1] = "tree"
  BY DEF Reach, Tree
<1>3. \A h : Reach(CommitObject(h)) = Needs(h) /\ CommitObject(h)[1] = "commit"
  BY DEF Reach, CommitObject
<1>4. \A w : \A b \in BlobsOf(w) : b[1] = "blob" /\ Reach(b) = {b}
  BY <1>1 DEF BlobsOf
<1> QED
  BY <1>1, <1>2, <1>3, <1>4

LEMMA ReachTyped == \A o \in Object : Reach(o) \subseteq Object
<1> SUFFICES ASSUME NEW o \in Object PROVE Reach(o) \subseteq Object
  OBVIOUS
<1>1. CASE o[1] = "blob"
  BY <1>1 DEF Reach
<1>2. CASE o[1] = "tree"
  BY <1>2, ObjectTyped, BlobsTyped DEF Reach
<1>3. CASE o[1] = "commit"
  <2>1. o[2] \in Version /\ Reach(o) = Needs(o[2])
    BY <1>3, ObjectTyped DEF Reach
  <2>2. ASSUME NEW x \in Needs(o[2])
        PROVE  x \in Object
    <3>1. PICK i \in 1 .. Len(o[2]) : \/ x = CommitObject(SubSeq(o[2], 1, i))
                                      \/ x = Tree(o[2][i].world)
                                      \/ x \in BlobsOf(o[2][i].world)
      BY <2>1, <2>2, NeedsMember
    <3>2. SubSeq(o[2], 1, i) \in Version /\ o[2][i].world \in World
      BY <2>1, PrefixFacts, VersionFacts
    <3> QED
      BY <3>1, <3>2, ObjectTyped, BlobsTyped
  <2> QED
    BY <2>1, <2>2
<1> QED
  BY <1>1, <1>2, <1>3, ObjectTyped

\* An object reaches itself, its children, and what its children reach.
LEMMA ReachSteps ==
    ASSUME NEW o \in Object
    PROVE  /\ o \in Reach(o)
           /\ Children(o) \subseteq Reach(o)
           /\ \A x \in Reach(o) : x = o \/ \E c \in Children(o) : x \in Reach(c)
<1>1. CASE o[1] = "blob"
  BY <1>1 DEF Reach, Children
<1>2. CASE o[1] = "tree"
  BY <1>2, ReachOfKind DEF Reach, Children
<1>3. CASE o[1] = "commit"
  <2> DEFINE h == o[2]
  <2>1. h \in Version /\ o = CommitObject(h) /\ Reach(o) = Needs(h)
    BY <1>3, ObjectTyped DEF Reach
  <2>2. /\ Tree(WorldOf(h)) \in Children(o)
        /\ Parent(h) \in Version => CommitObject(Parent(h)) \in Children(o)
        /\ \A c \in Children(o) : \/ c = Tree(WorldOf(h))
                                  \/ Parent(h) \in Version /\ c = CommitObject(Parent(h))
    BY <1>3, <2>1, VersionFacts, EmptyHistory DEF Children, Version
  <2> HIDE DEF h
  <2>3. CommitObject(h) \in Needs(h) /\ Tree(WorldOf(h)) \in Needs(h)
    BY <2>1, NeedsOwn
  <2>4. ASSUME Parent(h) \in Version
        PROVE  CommitObject(Parent(h)) \in Needs(h)
    BY <2>1, <2>4, NeedsParent, NeedsOwn
  <2>5. ASSUME NEW x \in Needs(h)
        PROVE  x = o \/ \E c \in Children(o) : x \in Reach(c)
    BY <2>1, <2>2, <2>5, NeedsParent, ReachOfKind
  <2> QED
    BY <2>1, <2>2, <2>3, <2>4, <2>5
<1> QED
  BY <1>1, <1>2, <1>3, ObjectTyped

\* No object lies below its own children.
LEMMA ReachAcyclic ==
    ASSUME NEW o \in Object, NEW c \in Children(o)
    PROVE  o \notin Reach(c)
<1>1. CASE o[1] = "blob"
  BY <1>1 DEF Children
<1>2. CASE o[1] = "tree"
  BY <1>2, ReachOfKind DEF Children
<1>3. CASE o[1] = "commit"
  <2> DEFINE h == o[2]
  <2>1. h \in Version /\ o = CommitObject(h)
    BY <1>3, ObjectTyped
  <2>2. c = Tree(WorldOf(h)) \/ (Parent(h) \in Version /\ c = CommitObject(Parent(h)))
    <3>1. c \in {Tree(WorldOf(h))} \union {CommitObject(g) : g \in {Parent(h)} \ {<<>>}}
      BY <1>3 DEF Children
    <3>2. Parent(h) \in History
      BY <2>1, VersionFacts
    <3> QED
      BY <3>1, <3>2 DEF Version
  <2> HIDE DEF h
  <2>3. CASE c = Tree(WorldOf(h))
    BY <1>3, <2>3, ReachOfKind
  <2>4. CASE Parent(h) \in Version /\ c = CommitObject(Parent(h))
    <3>1. SUFFICES ASSUME o \in Needs(Parent(h)) PROVE FALSE
      BY <2>4, ReachOfKind
    <3>2. PICK i \in 1 .. Len(Parent(h)) :
              \/ o = CommitObject(SubSeq(Parent(h), 1, i))
              \/ o = Tree(Parent(h)[i].world)
              \/ o \in BlobsOf(Parent(h)[i].world)
      BY <2>4, <3>1, NeedsMember
    <3>3. CommitObject(h) = CommitObject(SubSeq(Parent(h), 1, i))
      BY <1>3, <2>1, <3>2, ReachOfKind
    <3>4. h = SubSeq(Parent(h), 1, i)
      BY <3>3 DEF CommitObject
    <3>5. Len(h) = i
      BY <2>4, <3>4, PrefixFacts
    <3> QED
      BY <2>1, <3>5, VersionFacts
  <2> QED
    BY <2>2, <2>3, <2>4
<1> QED
  BY <1>1, <1>2, <1>3, ObjectTyped

LEMMA ReachTransitive ==
    ASSUME NEW o \in Object, NEW t \in Reach(o)
    PROVE  Reach(t) \subseteq Reach(o)
<1>1. CASE o[1] = "blob"
  BY <1>1 DEF Reach
<1>2. CASE o[1] = "tree"
  BY <1>2, ReachOfKind DEF Reach
<1>3. CASE o[1] = "commit"
  <2> DEFINE h == o[2]
  <2>1. h \in Version /\ Reach(o) = Needs(h)
    BY <1>3, ObjectTyped DEF Reach
  <2> HIDE DEF h
  <2>2. PICK i \in 1 .. Len(h) : \/ t = CommitObject(SubSeq(h, 1, i))
                                 \/ t = Tree(h[i].world)
                                 \/ t \in BlobsOf(h[i].world)
    BY <2>1, NeedsMember
  <2>3. Needs(SubSeq(h, 1, i)) \subseteq Needs(h)
    BY <2>1, PrefixNeeds
  <2>4. {Tree(h[i].world)} \union BlobsOf(h[i].world) \subseteq Needs(h)
    BY <2>1, NeedsMember
  <2> QED
    BY <2>1, <2>2, <2>3, <2>4, ReachOfKind
<1> QED
  BY <1>1, <1>2, <1>3, ObjectTyped
----
(* What the references reach.                                               *)

LEMMA LiveFacts ==
    ASSUME TypeOK
    PROVE  /\ Roots \subseteq Version
           /\ Live \subseteq Object
           /\ \A h \in Roots : CommitObject(h) \in Live /\ Needs(h) \subseteq Live
           /\ \A o \in Live : Reach(o) \subseteq Live
           /\ \A x \in Live : \E h \in Roots : x \in Reach(CommitObject(h))
<1>1. Roots \subseteq Version
  BY HeadCommitTyped DEF Roots, TypeOK, Version
<1>2. \A h \in Roots : /\ CommitObject(h) \in Object
                       /\ Reach(CommitObject(h)) = Needs(h)
                       /\ CommitObject(h) \in Needs(h)
                       /\ Needs(h) \subseteq Live
  BY <1>1, ObjectTyped, ReachOfKind, NeedsOwn DEF Live
<1>3. \A x \in Live : \E h \in Roots : x \in Reach(CommitObject(h))
  BY <1>2 DEF Live
<1>4. \A o \in Live : Reach(o) \subseteq Live
  BY <1>2, <1>3, ReachTransitive
<1>5. Live \subseteq Object
  BY <1>2, <1>3, ReachTyped
<1> QED
  BY <1>1, <1>2, <1>3, <1>4, <1>5

LEMMA LiveFrame ==
    ASSUME UNCHANGED files
    PROVE  HeadCommit' = HeadCommit /\ Roots' = Roots /\ Live' = Live
<1>1. HeadCommit' = HeadCommit
  BY DEF files, HeadCommit
<1>2. Roots' = Roots
  BY <1>1 DEF files, Roots
<1> QED
  BY <1>1, <1>2 DEF Live

\* References may move only to versions that are complete in the store.
LEMMA LiveMoves ==
    ASSUME TypeOK, RootsComplete, UNCHANGED objects,
           \A h \in Roots' : h \in Roots \/ Needs(h) \subseteq objects
    PROVE  RootsComplete'
  BY DEF RootsComplete, Live

LEMMA LiveIsHead ==
    ASSUME TypeOK, RootsComplete, HeadCommit # <<>>
    PROVE  HeadCommit \in Version /\ Needs(HeadCommit) \subseteq objects
  BY LiveFacts DEF Roots, RootsComplete
----
(* The invariant.                                                           *)

LEMMA SafeInit == Init => IInv
<1> SUFFICES ASSUME Init PROVE IInv
  OBVIOUS
<1>1. Roots = {}
  BY BranchAssumption DEF Init, Roots, HeadCommit
<1>2. StoreInv
  BY <1>1 DEF Init, StoreInv, BatchInv, RootsComplete, Live, Complete
<1>3. ASSUME NEW p \in Procs
      PROVE  Building(p) /\ Marking(p)
  BY DEF Init, Fresh, Building, Marking, Writing
<1> QED
  BY <1>2, <1>3 DEF IInv

Safe == TypeInv /\ MutualExclusion /\ HandleInv /\ IInv

\* A process outside the section owes nothing but an empty mark set.
LEMMA Elsewhere ==
    ASSUME NEW q \in Procs, pc'[q] \notin Section, marked'[q] = {}
    PROVE  Building(q)' /\ Marking(q)'
  BY DEF Building, Marking, Writing, Section, InBatch

\* What a process owes depends on the files, the store and its own variables.
LEMMA Unaffected ==
    ASSUME NEW q \in Procs, Building(q), Marking(q),
           UNCHANGED <<files, store>>,
           UNCHANGED <<pc[q], branch[q], head[q], cand[q], todo[q], marked[q]>>
    PROVE  Building(q)' /\ Marking(q)'
<1>1. HeadCommit' = HeadCommit /\ Roots' = Roots /\ Live' = Live
  BY LiveFrame
<1>2. HEAD' = HEAD /\ objects' = objects /\ batch' = batch
  BY DEF files, store
<1>4. Building(q)'
  BY <1>2 DEF Building, Complete
<1>5. Marking(q)'
  BY <1>1, <1>2 DEF Marking
<1> QED
  BY <1>4, <1>5

\* A step of the section leaves the marks of other processes alone.
LEMMA OthersFrame ==
    ASSUME TypeOK, NEW p \in Procs, Locked(p) \/ Crash(p)
    PROVE  /\ pc[p] \in Section
           /\ \A q \in Procs \ {p} : pc'[q] = pc[q] /\ marked'[q] = marked[q]
<1>1. pc[p] \in Section /\ \A q \in Procs \ {p} : pc'[q] = pc[q]
  BY LockedFrame DEF TypeOK, Crash
<1> SUFFICES ASSUME NEW q \in Procs \ {p} PROVE marked'[q] = marked[q]
  BY <1>1
<1> USE DEF TypeOK, work
<1>2. CASE RefreshHead(p) \/ BeginBatch(p) \/ CommitBatch(p) \/ Fail(p)
  BY <1>2 DEF RefreshHead, BeginBatch, CommitBatch, Fail
<1>3. CASE Commit(p)
  BY <1>3 DEF Commit, StartSnapshot, StartChanges, WriteBlob, WriteTree,
              WriteCommit, PublishCommit
<1>4. CASE ChangeRefs(p)
  BY <1>4 DEF ChangeRefs, CreateBranch, DeleteBranch, CheckoutBranch,
              CheckoutCommit, Refuse
<1>5. CASE CollectGarbage(p)
  BY <1>5 DEF CollectGarbage, ReadRoots, Mark, Sweep
<1>6. CASE Release(p) \/ Crash(p)
  BY <1>6 DEF Release, Crash, Forget
<1> QED
  BY <1>2, <1>3, <1>4, <1>5, <1>6 DEF Locked

\* So only the store and the process itself need an argument.
LEMMA StepSafe ==
    ASSUME Safe, NEW p \in Procs, Locked(p) \/ Crash(p),
           StoreInv', Building(p)', Marking(p)'
    PROVE  IInv'
<1>1. pc[p] \in Section /\ \A q \in Procs \ {p} : pc'[q] = pc[q] /\ marked'[q] = marked[q]
  BY OthersFrame DEF Safe, TypeInv
<1>2. \A q \in Procs \ {p} : pc[q] \notin Section
  BY <1>1 DEF Safe, MutualExclusion
<1>3. \A q \in Procs \ {p} : marked[q] = {}
  BY <1>2 DEF Safe, IInv, Marking, Section, InBatch
<1>4. \A q \in Procs \ {p} : Building(q)' /\ Marking(q)'
  BY <1>1, <1>2, <1>3, Elsewhere
<1> QED
  BY <1>4 DEF IInv

\* Under the lock and outside a batch there is one image of the store.
LEMMA OneImage ==
    ASSUME Safe, NEW p \in Procs, pc[p] \in Section, pc[p] \notin InBatch
    PROVE  batch = objects
<1>1. \A q \in Procs : pc[q] \in InBatch => q = p
  BY DEF Safe, MutualExclusion, Section
<1> QED
  BY <1>1 DEF Safe, IInv, StoreInv, BatchInv

\* Steps that leave the files and the store as they are.
LEMMA StoreFrame ==
    ASSUME StoreInv, UNCHANGED <<files, store>>,
           (\A q \in Procs : pc'[q] \notin InBatch) => batch = objects
    PROVE  StoreInv'
<1>1. Live' = Live /\ objects' = objects /\ batch' = batch
  BY LiveFrame DEF store
<1> QED
  BY <1>1 DEF StoreInv, BatchInv, RootsComplete, Complete

LEMMA SafeEnds ==
    ASSUME Safe, NEW p \in Procs,
           Refuse(p) \/ Fail(p) \/ Release(p) \/ Crash(p) \/ RefreshHead(p)
    PROVE  IInv'
<1> USE DEF files, store, handle, work
<1>1. TypeOK /\ StoreInv /\ Fresh(p) /\ Extends(p) /\ Building(p) /\ Marking(p)
  BY DEF Safe, TypeInv, HandleInv, IInv
<1>2. CASE Refuse(p) \/ Release(p) \/ RefreshHead(p)
  <2>1. pc[p] \in Section /\ pc[p] \notin InBatch
    BY <1>2 DEF Refuse, Release, RefreshHead, Section, InBatch
  <2>2. batch = objects
    BY <2>1, OneImage
  <2>3. UNCHANGED <<files, store>>
    BY <1>2 DEF Refuse, Release, RefreshHead
  <2>4. StoreInv'
    BY <1>1, <2>2, <2>3, StoreFrame
  <2>5. HeadCommit' = HeadCommit /\ HEAD' = HEAD
    BY <2>3, LiveFrame
  <2>6. Building(p)' /\ Marking(p)'
    BY <1>1, <1>2, <2>5 DEF Refuse, Release, RefreshHead, Forget, Building,
                        Marking, Writing, CommitOps, TypeOK
  <2> QED
    BY <1>2, <2>4, <2>6, StepSafe DEF Locked, ChangeRefs
<1>3. CASE Fail(p) \/ Crash(p)
  <2>1. UNCHANGED files /\ objects' = objects /\ batch' = objects
    BY <1>3 DEF Fail, Crash
  <2>2. Live' = Live
    BY <2>1, LiveFrame
  <2>3. StoreInv'
    BY <1>1, <2>1, <2>2 DEF StoreInv, BatchInv, RootsComplete, Complete
  <2>4. Building(p)' /\ Marking(p)'
    BY <1>1, <1>3 DEF Fail, Crash, Forget, Building, Marking, Writing, TypeOK
  <2> QED
    BY <1>3, <2>3, <2>4, StepSafe DEF Locked
<1> QED
  BY <1>2, <1>3

\* References move to what HEAD or a branch reached already, or to a commit
\* that is complete because the store is, or because something reaches it.
LEMMA SafeChangeRefs ==
    ASSUME Safe, SafeCheckouts, NEW p \in Procs, ChangeRefs(p)
    PROVE  IInv'
<1> USE DEF files, store, handle, work
<1>1. TypeOK /\ StoreInv /\ Fresh(p) /\ Extends(p) /\ Building(p) /\ Marking(p)
  BY DEF Safe, TypeInv, HandleInv, IInv
<1>2. CASE Refuse(p)
  BY <1>2, SafeEnds
<1>3. ASSUME pc[p] = "run", pc'[p] \in {"ok", "err"}, UNCHANGED <<store, work>>,
             \A h \in Roots' : h \in Roots \/ Needs(h) \subseteq objects
      PROVE  IInv'
  <2>1. batch = objects
    BY <1>3, OneImage DEF Section, InBatch
  <2>2. RootsComplete'
    BY <1>1, <1>3, LiveMoves DEF StoreInv
  <2>3. StoreInv'
    BY <1>1, <1>3, <2>1, <2>2 DEF StoreInv, BatchInv, Complete
  <2>4. Building(p)' /\ Marking(p)'
    BY <1>3 DEF Building, Marking, Writing
  <2> QED
    BY <2>3, <2>4, StepSafe DEF Locked
<1>4. pc[p] = "run" => branch[p] = HEAD.branch /\ head[p] = HeadCommit
  BY <1>1 DEF Fresh
<1>5. ASSUME NEW b \in Branches, CreateBranch(p, b)
      PROVE  IInv'
  <2>1. pc[p] = "run" /\ pc'[p] \in {"ok", "err"} /\ UNCHANGED <<store, work>>
    BY <1>1, <1>5 DEF CreateBranch, Wrote, TypeOK
  <2>2. HeadCommit' = HeadCommit
    BY <1>1, <1>4, <1>5, <2>1 DEF CreateBranch, HeadCommit, TypeOK
  <2>3. \A h \in Roots' : h \in Roots
    BY <1>1, <1>4, <1>5, <2>1, <2>2 DEF CreateBranch, Roots, TypeOK
  <2> QED
    BY <1>3, <2>1, <2>3
<1>6. ASSUME NEW b \in Branches, DeleteBranch(p, b)
      PROVE  IInv'
  <2>1. pc[p] = "run" /\ pc'[p] \in {"ok", "err"} /\ UNCHANGED <<store, work>>
    BY <1>1, <1>6 DEF DeleteBranch, TypeOK
  <2>2. HeadCommit' = HeadCommit
    BY <1>1, <1>4, <1>6, <2>1 DEF DeleteBranch, HeadCommit, TypeOK
  <2>3. \A h \in Roots' : h \in Roots
    BY <1>1, <1>6, <2>1, <2>2 DEF DeleteBranch, Roots, TypeOK
  <2> QED
    BY <1>3, <2>1, <2>3
<1>7. ASSUME NEW b \in Branches, CheckoutBranch(p, b)
      PROVE  IInv'
  <2>1. pc[p] = "run" /\ pc'[p] \in {"ok", "err"} /\ UNCHANGED <<store, work>>
    BY <1>1, <1>7 DEF CheckoutBranch, Wrote, TypeOK
  <2>2. HeadCommit' = ref[b] /\ UNCHANGED <<refFile, ref>> /\ b \in refFile
    BY <1>7, BranchAssumption DEF CheckoutBranch, HeadCommit
  <2>3. \A h \in Roots' : h \in Roots
    BY <2>2 DEF Roots
  <2> QED
    BY <1>3, <2>1, <2>3
<1>8. ASSUME NEW o \in objects, o[1] = "commit", CheckoutCommit(p, o[2])
      PROVE  IInv'
  <2> DEFINE h == o[2]
  <2>1. pc[p] = "run" /\ pc'[p] \in {"ok", "err"} /\ UNCHANGED <<store, work>>
    BY <1>1, <1>8 DEF CheckoutCommit, Wrote, TypeOK
  <2>2. h \in Version /\ o = CommitObject(h)
    BY <1>1, <1>8, ObjectTyped DEF TypeOK
  <2>3. HeadCommit' = h /\ UNCHANGED <<refFile, ref>>
    BY <1>8 DEF CheckoutCommit, HeadCommit
  <2>4. Needs(h) \subseteq objects
    <3>1. CASE Transactional
      BY <1>1, <2>2, <3>1 DEF StoreInv, Complete
    <3>2. CASE ~OrphanCheckout
      <4>1. CommitObject(h) \in Live
        BY <1>8, <3>2 DEF CheckoutCommit
      <4>2. Needs(h) \subseteq Live
        BY <1>1, <4>1, LiveFacts, ReachOfKind
      <4> QED
        BY <1>1, <4>2 DEF StoreInv, RootsComplete
    <3> QED
      BY <3>1, <3>2 DEF SafeCheckouts
  <2>5. \A g \in Roots' : g \in Roots \/ g = h
    BY <2>3 DEF Roots
  <2> HIDE DEF h
  <2> QED
    BY <1>3, <2>1, <2>4, <2>5
<1> QED
  BY <1>2, <1>5, <1>6, <1>7, <1>8 DEF ChangeRefs

\* The head a commit extends is complete in the batch it writes to.
LEMMA HeadInBatch ==
    ASSUME Safe, NEW p \in Procs, pc[p] \in Writing, head[p] # <<>>
    PROVE  head[p] \in Version /\ Needs(head[p]) \subseteq batch
<1>1. head[p] = HeadCommit /\ objects \subseteq batch
  BY DEF Safe, HandleInv, Fresh, IInv, Building
<1> QED
  BY <1>1, LiveIsHead DEF Safe, TypeInv, IInv, StoreInv

\* Writing an object keeps the store safe unless it is an incomplete commit.
LEMMA PutSafe ==
    ASSUME Safe, NEW p \in Procs, pc[p] \in Writing, pc'[p] \in Writing,
           NEW o, Put(o), UNCHANGED files,
           \A h \in Version : o = CommitObject(h) => Needs(h) \subseteq batch \union {o}
    PROVE  /\ StoreInv'
           /\ objects' \subseteq batch'
           /\ Transactional => Complete(batch')
           /\ batch' = batch \union {o}
<1>1. StoreInv /\ objects \subseteq batch /\ (Transactional => Complete(batch))
  BY DEF Safe, IInv, Building
<1>2. batch' = batch \union {o} /\ objects' = IF Transactional THEN objects ELSE batch'
  BY DEF Put
<1>3. Live' = Live
  BY LiveFrame
<1>4. RootsComplete'
  BY <1>1, <1>2, <1>3 DEF StoreInv, RootsComplete
<1>5. BatchInv'
  <2>1. CASE Transactional
    BY <2>1 DEF BatchInv, Writing, InBatch
  <2>2. CASE ~Transactional
    BY <1>2, <2>2 DEF BatchInv
  <2> QED
    BY <2>1, <2>2
<1>6. Transactional => Complete(objects)' /\ Complete(batch')
  BY <1>1, <1>2 DEF StoreInv, Complete
<1> QED
  BY <1>1, <1>2, <1>4, <1>5, <1>6 DEF StoreInv

\* Until it is published a commit touches no reference, and it is published
\* when all it needs is durable.
LEMMA SafeCommit ==
    ASSUME Safe, NEW p \in Procs, Commit(p)
    PROVE  IInv'
<1> USE DEF files, store, handle, work
<1>1. TypeOK /\ CandBuilt /\ StoreInv /\ Fresh(p) /\ Extends(p) /\ Building(p) /\ Marking(p)
  BY DEF Safe, TypeInv, HandleInv, IInv
<1>2. UNCHANGED files => HeadCommit' = HeadCommit /\ HEAD' = HEAD
  BY LiveFrame
<1>3. ASSUME NEW t \in Stamps, NEW w \in Snapshots, StartSnapshot(p, w, t)
      PROVE  IInv'
  <2>1. [world |-> w, stamp |-> t] \in Entry /\ head[p] \in History
    BY <1>1, DataAssumption DEF Entry, TypeOK
  <2>2. /\ pc[p] = "base" /\ pc'[p] = "blobs" /\ UNCHANGED <<files, store, handle, marked>>
        /\ cand'[p] = Append(head[p], [world |-> w, stamp |-> t])
        /\ todo'[p] = BlobsOf(w)
    BY <1>1, <1>3 DEF StartSnapshot, TypeOK
  <2>3. Parent(cand'[p]) = head[p] /\ WorldOf(cand'[p]) = w
    BY <2>1, <2>2, AppendFacts
  <2>4. StoreInv'
    BY <1>1, <2>2, StoreFrame DEF InBatch
  <2>5. Marking(p)'
    BY <1>1, <1>2, <2>2 DEF Marking, Writing
  <2>6. Building(p)'
    BY <1>1, <2>2, <2>3, ReachOfKind DEF Building, Writing, Complete
  <2> QED
    BY <1>3, <2>4, <2>5, <2>6, StepSafe DEF Locked, Commit
<1>4. ASSUME NEW t \in Stamps, NEW c \in ChangeSets, StartChanges(p, c, t)
      PROVE  IInv'
  <2> DEFINE base == WorldOf(head[p])
             w == Applied(base, c)
  <2>1. c \in ChangeSet /\ head[p] \in History /\ base \in World /\ w \in World
    BY <1>1, DataAssumption, WorldOfTyped, AppliedTyped DEF TypeOK
  <2>2. /\ pc[p] = "base" /\ pc'[p] = IF c = NoChange THEN "commit" ELSE "blobs"
        /\ UNCHANGED <<files, handle, marked>>
        /\ cand'[p] = Append(head[p], [world |-> w, stamp |-> t])
        /\ todo'[p] = Upserts(c)
    BY <1>1, <1>4 DEF StartChanges, TypeOK
  <2>3. Parent(cand'[p]) = head[p] /\ WorldOf(cand'[p]) = w
    <3>1. [world |-> w, stamp |-> t] \in Entry
      BY <2>1 DEF Entry
    <3> QED
      BY <2>1, <2>2, <3>1, AppendFacts
  <2>4. /\ StoreInv'
        /\ objects' \subseteq batch'
        /\ Transactional => Complete(batch')
        /\ {Tree(base)} \union BlobsOf(base) \subseteq batch'
    <3>1. CASE head[p] = <<>>
      <4>1. Put(Tree(EmptyWorld)) /\ base = EmptyWorld
        BY <1>4, <3>1 DEF StartChanges, WorldOf
      <4>2. BlobsOf(base) = {}
        BY <4>1 DEF BlobsOf, EmptyWorld
      <4>3. \A h : Tree(EmptyWorld) # CommitObject(h)
        BY DEF Tree, CommitObject
      <4>4. pc[p] \in Writing /\ pc'[p] \in Writing
        BY <2>2 DEF Writing
      <4> QED
        BY <2>2, <4>1, <4>2, <4>3, <4>4, PutSafe
    <3>2. CASE head[p] # <<>>
      <4>1. UNCHANGED store
        BY <1>4, <3>2 DEF StartChanges
      <4>2. StoreInv'
        BY <1>1, <2>2, <4>1, StoreFrame DEF InBatch
      <4>3. head[p] \in Version /\ Needs(head[p]) \subseteq batch
        BY <2>2, <3>2, HeadInBatch DEF Writing
      <4>4. {Tree(base)} \union BlobsOf(base) \subseteq batch
        BY <4>3, NeedsOwn
      <4>5. objects \subseteq batch /\ (Transactional => Complete(batch))
        BY <1>1, <2>2 DEF Building, Writing
      <4> QED
        BY <4>1, <4>2, <4>4, <4>5
    <3> QED
      BY <3>1, <3>2
  <2>5. BlobsOf(w) \subseteq BlobsOf(base) \union Upserts(c)
    BY <2>1, DataAssumption DEF BlobsOf, Upserts, Applied, ChangeSet
  <2>6. c = NoChange => w = base
    BY <2>1 DEF Applied, NoChange, World
  <2>7. \A o \in Upserts(c) : o[1] = "blob"
    BY ReachOfKind DEF Upserts
  <2> HIDE DEF base, w
  <2>8. Marking(p)'
    BY <1>1, <1>2, <2>2 DEF Marking, Writing
  <2>9. Building(p)'
    BY <2>2, <2>3, <2>4, <2>5, <2>6, <2>7 DEF Building, Writing, Complete
  <2> QED
    BY <1>4, <2>4, <2>8, <2>9, StepSafe DEF Locked, Commit
<1>5. ASSUME NEW o \in todo[p], WriteBlob(p, o)
      PROVE  IInv'
  <2>1. /\ pc[p] = "blobs" /\ pc'[p] = "blobs"
        /\ UNCHANGED <<files, handle, cand, marked>>
        /\ todo'[p] = todo[p] \ {o}
        /\ Put(o)
    BY <1>1, <1>5 DEF WriteBlob, TypeOK
  <2>2. o[1] = "blob"
    BY <1>1, <2>1 DEF Building
  <2>3. \A h : o # CommitObject(h)
    BY <2>2 DEF CommitObject
  <2>4. /\ StoreInv' /\ objects' \subseteq batch' /\ (Transactional => Complete(batch'))
        /\ batch' = batch \union {o}
    BY <2>1, <2>3, PutSafe DEF Writing
  <2>5. Marking(p)'
    BY <1>1, <1>2, <2>1 DEF Marking, Writing
  <2>6. Building(p)'
    BY <1>1, <2>1, <2>4 DEF Building, Writing, Complete
  <2> QED
    BY <1>5, <2>4, <2>5, <2>6, StepSafe DEF Locked, Commit
<1>6. CASE WriteTree(p)
  <2> DEFINE o == Tree(WorldOf(cand[p]))
  <2>1. /\ pc[p] = "blobs" /\ todo[p] = {} /\ pc'[p] = "commit"
        /\ UNCHANGED <<files, handle, work>>
        /\ Put(o)
    BY <1>1, <1>6 DEF WriteTree, TypeOK
  <2>2. \A h : o # CommitObject(h)
    BY DEF Tree, CommitObject
  <2>3. /\ StoreInv' /\ objects' \subseteq batch' /\ (Transactional => Complete(batch'))
        /\ batch' = batch \union {o}
    BY <2>1, <2>2, PutSafe DEF Writing
  <2>4. Marking(p)'
    BY <1>1, <1>2, <2>1 DEF Marking, Writing
  <2>5. Building(p)'
    BY <1>1, <2>1, <2>3 DEF Building, Writing, Complete
  <2> QED
    BY <1>6, <2>3, <2>4, <2>5, StepSafe DEF Locked, Commit
<1>7. ASSUME pc[p] \in {"commit", "flush"}
      PROVE  Needs(cand[p]) \subseteq batch \union {CommitObject(cand[p])}
  <2>1. cand[p] \in Version /\ Parent(cand[p]) = head[p]
    BY <1>1, <1>7 DEF CandBuilt, Extends
  <2>2. {Tree(WorldOf(cand[p]))} \union BlobsOf(WorldOf(cand[p])) \subseteq batch
    BY <1>1, <1>7 DEF Building
  <2>3. Parent(cand[p]) \in Version => Needs(Parent(cand[p])) \subseteq batch
    BY <1>7, <2>1, HeadInBatch, EmptyHistory DEF Writing
  <2> QED
    BY <2>1, <2>2, <2>3, NeedsParent
<1>8. CASE WriteCommit(p)
  <2> DEFINE o == CommitObject(cand[p])
  <2>1. /\ pc[p] = "commit" /\ pc'[p] = "flush"
        /\ UNCHANGED <<files, handle, work>>
        /\ Put(o)
    BY <1>1, <1>8 DEF WriteCommit, TypeOK
  <2>2. \A h : o = CommitObject(h) => h = cand[p]
    BY DEF CommitObject
  <2>3. /\ StoreInv' /\ objects' \subseteq batch' /\ (Transactional => Complete(batch'))
        /\ batch' = batch \union {o}
    BY <1>7, <2>1, <2>2, PutSafe DEF Writing
  <2>4. Marking(p)'
    BY <1>1, <1>2, <2>1 DEF Marking, Writing
  <2>5. Building(p)'
    BY <1>1, <2>1, <2>3 DEF Building, Writing, Complete
  <2> QED
    BY <1>8, <2>3, <2>4, <2>5, StepSafe DEF Locked, Commit
<1>9. CASE PublishCommit(p)
  <2>1. pc[p] = "publish" /\ pc'[p] \in {"ok", "err"} /\ UNCHANGED <<store, work>>
    BY <1>1, <1>9 DEF PublishCommit, Wrote, TypeOK
  <2>2. batch = objects
    BY <2>1, OneImage DEF Section, InBatch
  <2>3. branch[p] = HEAD.branch /\ Needs(cand[p]) \subseteq objects
    BY <1>1, <2>1 DEF Fresh, Building
  <2>4. \A h \in Roots' : h \in Roots \/ h = cand[p]
    <3>1. CASE branch[p] = Detached
      BY <1>9, <3>1 DEF PublishCommit, Roots, HeadCommit
    <3>2. CASE branch[p] # Detached
      BY <1>1, <1>9, <2>3, <3>2 DEF PublishCommit, Roots, HeadCommit, TypeOK
    <3> QED
      BY <3>1, <3>2
  <2>5. RootsComplete'
    BY <1>1, <2>1, <2>3, <2>4, LiveMoves DEF StoreInv
  <2>6. StoreInv'
    BY <1>1, <2>1, <2>2, <2>5 DEF StoreInv, BatchInv, Complete
  <2>7. Building(p)' /\ Marking(p)'
    BY <2>1 DEF Building, Marking, Writing
  <2> QED
    BY <1>9, <2>6, <2>7, StepSafe DEF Locked, Commit
<1> QED
  BY <1>3, <1>4, <1>5, <1>6, <1>8, <1>9 DEF Commit

\* Marking one object moves it to the marks and queues what it still needs.
LEMMA MarkFollows ==
    ASSUME NEW done \in SUBSET Object, NEW queue \in SUBSET Object,
           NEW o \in queue, Followed(done, queue)
    PROVE  Followed(done \union {o}, (queue \ {o}) \union (Children(o) \ done))
<1> DEFINE done2 == done \union {o}
           queue2 == (queue \ {o}) \union (Children(o) \ done)
<1>1. ASSUME NEW x \in Reach(o)
      PROVE  x \in done2 \/ \E t \in queue2 \intersect Reach(o) : x \in Reach(t)
  <2>1. CASE x = o
    BY <2>1
  <2>2. ASSUME NEW c \in Children(o), x \in Reach(c)
        PROVE  x \in done2 \/ \E t \in queue2 \intersect Reach(o) : x \in Reach(t)
    <3>1. c \in Reach(o)
      BY ReachSteps
    <3>2. CASE c \notin done
      BY <2>2, <3>1, <3>2
    <3>3. CASE c \in done
      <4>1. x \in done \/ \E t \in queue \intersect Reach(c) : x \in Reach(t)
        BY <2>2, <3>3 DEF Followed
      <4>2. ASSUME NEW t \in queue \intersect Reach(c), x \in Reach(t)
            PROVE  \E u \in queue2 \intersect Reach(o) : x \in Reach(u)
        <5>1. t # o
          BY ReachAcyclic
        <5>2. t \in Reach(o)
          BY <3>1, ReachTransitive
        <5> QED
          BY <4>2, <5>1, <5>2
      <4> QED
        BY <4>1, <4>2
    <3> QED
      BY <3>2, <3>3
  <2> QED
    BY <1>1, <2>1, <2>2, ReachSteps
<1>2. ASSUME NEW m \in done, NEW x \in Reach(m)
      PROVE  x \in done2 \/ \E t \in queue2 \intersect Reach(m) : x \in Reach(t)
  <2>1. CASE x \in done
    BY <2>1
  <2>2. ASSUME NEW t \in queue \intersect Reach(m), x \in Reach(t), t # o
        PROVE  \E u \in queue2 \intersect Reach(m) : x \in Reach(u)
    BY <2>2
  <2>3. ASSUME o \in Reach(m), x \in Reach(o)
        PROVE  x \in done2 \/ \E u \in queue2 \intersect Reach(m) : x \in Reach(u)
    <3>1. Reach(o) \subseteq Reach(m)
      BY <2>3, ReachTransitive
    <3> QED
      BY <1>1, <2>3, <3>1
  <2>4. x \in done \/ \E t \in queue \intersect Reach(m) : x \in Reach(t)
    BY <1>2 DEF Followed
  <2> HIDE DEF done2, queue2
  <2>5. CASE \E t \in queue \intersect Reach(m) : x \in Reach(t)
    <3>1. PICK t \in queue \intersect Reach(m) : x \in Reach(t)
      BY <2>5
    <3> QED
      BY <2>2, <2>3, <3>1
  <2> QED
    BY <2>1, <2>4, <2>5
<1> HIDE DEF queue2
<1>3. Followed(done2, queue2)
  BY <1>1, <1>2 DEF Followed
<1> QED
  BY <1>3 DEF queue2

\* A batch begins from the one image of the store there is.
LEMMA SafeBegin ==
    ASSUME Safe, NEW p \in Procs, BeginBatch(p)
    PROVE  IInv'
<1> USE DEF files, store, handle, work
<1>1. TypeOK /\ StoreInv /\ Fresh(p) /\ Extends(p) /\ Building(p) /\ Marking(p)
  BY DEF Safe, TypeInv, HandleInv, IInv
<1>2. /\ pc[p] \in {"begin", "mark"}
      /\ pc'[p] \in {"base", "sweep"}
      /\ UNCHANGED <<files, store, handle, marked>>
  BY <1>1 DEF BeginBatch, TypeOK
<1>3. batch = objects
  BY <1>2, OneImage DEF Section, InBatch
<1>4. StoreInv'
  BY <1>1, <1>2, <1>3, StoreFrame
<1>5. HeadCommit' = HeadCommit /\ Roots' = Roots /\ Live' = Live
  BY <1>2, LiveFrame
<1>6. CASE pc[p] = "begin"
  <2>1. pc'[p] = "base"
    BY <1>1, <1>6 DEF BeginBatch, TypeOK
  <2>2. Marking(p)'
    BY <1>1, <1>2, <1>5, <1>6, <2>1 DEF Marking, Writing
  <2>3. Building(p)'
    BY <1>1, <1>2, <1>3, <2>1 DEF Building, Writing, StoreInv, Complete
  <2> QED
    BY <1>4, <2>2, <2>3, StepSafe DEF Locked
<1>7. CASE pc[p] = "mark"
  <2>1. pc'[p] = "sweep" /\ todo[p] = {} /\ todo'[p] = objects \ marked[p]
    BY <1>1, <1>7 DEF BeginBatch, TypeOK
  <2>2. Live \subseteq marked[p]
    <3>1. ASSUME NEW x \in Live
          PROVE  x \in marked[p]
      <4>1. PICK h \in Roots : x \in Reach(CommitObject(h))
        BY <1>1, LiveFacts
      <4>2. CommitObject(h) \in marked[p] /\ Followed(marked[p], todo[p])
        BY <1>1, <1>7, <2>1 DEF Marking
      <4> QED
        BY <2>1, <4>1, <4>2 DEF Followed
    <3> QED
      BY <3>1
  <2>3. marked[p] = Live
    BY <1>1, <1>7, <2>2 DEF Marking
  <2>4. Live \subseteq objects
    BY <1>1 DEF StoreInv, RootsComplete
  <2>5. Marking(p)'
    BY <1>2, <1>3, <1>5, <2>1, <2>3, <2>4 DEF Marking
  <2>6. Building(p)'
    BY <2>1 DEF Building, Writing
  <2> QED
    BY <1>4, <2>5, <2>6, StepSafe DEF Locked
<1> QED
  BY <1>2, <1>6, <1>7

\* A batch that is committed holds complete commits, or exactly what is live.
LEMMA SafeCommitBatch ==
    ASSUME Safe, NEW p \in Procs, CommitBatch(p)
    PROVE  IInv' /\ (pc[p] = "sweep" => objects' = Live)
<1> USE DEF files, store, handle, work
<1>1. TypeOK /\ CandBuilt /\ StoreInv /\ Fresh(p) /\ Extends(p) /\ Building(p) /\ Marking(p)
  BY DEF Safe, TypeInv, HandleInv, IInv
<1>2. /\ UNCHANGED <<files, batch, handle, work>>
      /\ objects' = batch
  BY DEF CommitBatch
<1>3. Live' = Live /\ HeadCommit' = HeadCommit /\ HEAD' = HEAD
  BY <1>2, LiveFrame
<1>4. CASE pc[p] = "flush"
  <2>1. pc'[p] = "publish"
    BY <1>1, <1>4 DEF CommitBatch, TypeOK
  <2>2. objects \subseteq batch /\ (Transactional => Complete(batch))
    BY <1>1, <1>4 DEF Building, Writing
  <2>3. StoreInv'
    BY <1>1, <1>2, <1>3, <2>2 DEF StoreInv, BatchInv, RootsComplete, Complete
  <2>4. Marking(p)'
    BY <1>1, <1>2, <1>3, <1>4, <2>1 DEF Marking, Writing
  <2>5. Needs(cand[p]) \subseteq batch
    <3>1. cand[p] \in Version /\ Parent(cand[p]) = head[p]
      BY <1>1, <1>4 DEF CandBuilt, Extends
    <3>2. {CommitObject(cand[p]), Tree(WorldOf(cand[p]))} \union BlobsOf(WorldOf(cand[p]))
             \subseteq batch
      BY <1>1, <1>4 DEF Building
    <3>3. Parent(cand[p]) \in Version => Needs(Parent(cand[p])) \subseteq batch
      BY <1>4, <3>1, HeadInBatch, EmptyHistory DEF Writing
    <3> QED
      BY <3>1, <3>2, <3>3, NeedsParent
  <2>6. Building(p)'
    BY <1>1, <1>2, <1>4, <2>1, <2>5 DEF Building, Writing
  <2> QED
    BY <1>4, <2>3, <2>4, <2>6, StepSafe DEF Locked
<1>5. CASE pc[p] = "sweep"
  <2>1. pc'[p] = "ok" /\ todo[p] = {}
    BY <1>1, <1>5 DEF CommitBatch, TypeOK
  <2>2. objects' = Live
    BY <1>1, <1>2, <1>5, <2>1 DEF Marking
  <2>3. Complete(objects)'
    BY <1>1, <2>2, LiveFacts, ReachOfKind DEF Complete
  <2>4. StoreInv'
    BY <1>2, <1>3, <2>2, <2>3 DEF StoreInv, BatchInv, RootsComplete
  <2>5. Building(p)' /\ Marking(p)'
    BY <2>1 DEF Building, Marking, Writing
  <2> QED
    BY <2>2, <2>4, <2>5, StepSafe DEF Locked
<1> QED
  BY <1>4, <1>5 DEF CommitBatch

\* Marking visits live objects only, and the sweep deletes none of them.
LEMMA SafeCollect ==
    ASSUME Safe, NEW p \in Procs, CollectGarbage(p)
    PROVE  IInv'
<1> USE DEF files, store, handle
<1>1. TypeOK /\ StoreInv /\ Fresh(p) /\ Extends(p) /\ Building(p) /\ Marking(p)
  BY DEF Safe, TypeInv, HandleInv, IInv
<1>2. UNCHANGED files => HeadCommit' = HeadCommit /\ Roots' = Roots /\ Live' = Live
  BY LiveFrame
<1>3. CASE ReadRoots(p)
  <2>1. /\ pc[p] = "roots" /\ pc'[p] = "mark" /\ marked[p] = {} /\ marked'[p] = {}
        /\ todo'[p] = {CommitObject(h) : h \in Roots}
        /\ UNCHANGED <<files, store>>
    BY <1>1, <1>3 DEF ReadRoots, TypeOK, Marking
  <2>2. StoreInv'
    BY <1>1, <2>1, OneImage, StoreFrame DEF Section, InBatch
  <2>3. Marking(p)'
    BY <1>1, <1>2, <2>1, LiveFacts DEF Marking, Followed
  <2>4. Building(p)'
    BY <2>1 DEF Building, Writing
  <2> QED
    BY <1>3, <2>2, <2>3, <2>4, StepSafe DEF Locked, CollectGarbage
<1>4. ASSUME NEW o \in todo[p], Mark(p, o)
      PROVE  IInv'
  <2>1. /\ pc[p] = "mark" /\ pc'[p] = "mark" /\ o \in objects
        /\ marked'[p] = marked[p] \union {o}
        /\ todo'[p] = (todo[p] \ {o}) \union (Children(o) \ marked[p])
        /\ UNCHANGED <<files, store>>
    BY <1>1, <1>4 DEF Mark, TypeOK
  <2>2. StoreInv'
    BY <1>1, <2>1, OneImage, StoreFrame DEF Section, InBatch
  <2>3. /\ marked[p] \intersect todo[p] = {}
        /\ marked[p] \subseteq objects
        /\ marked[p] \union todo[p] \subseteq Live
        /\ \A h \in Roots : CommitObject(h) \in marked[p] \union todo[p]
        /\ Followed(marked[p], todo[p])
    BY <1>1, <2>1 DEF Marking
  <2>4. o \in Object /\ marked[p] \in SUBSET Object /\ todo[p] \in SUBSET Object
    BY <1>1 DEF TypeOK
  <2>5. Followed(marked'[p], todo'[p])
    BY <2>1, <2>3, <2>4, MarkFollows
  <2>6. o \notin Children(o)
    <3>1. Children(o) \subseteq Object
      BY <2>4, ChildrenTyped
    <3> QED
      BY <2>4, <3>1, ReachSteps, ReachAcyclic
  <2>7. Children(o) \subseteq Live
    BY <1>1, <2>3, <2>4, LiveFacts, ReachSteps
  <2>8. Marking(p)'
    BY <1>2, <2>1, <2>3, <2>5, <2>6, <2>7 DEF Marking
  <2>9. Building(p)'
    BY <2>1 DEF Building, Writing
  <2> QED
    BY <1>4, <2>2, <2>8, <2>9, StepSafe DEF Locked, CollectGarbage
<1>5. ASSUME NEW o \in todo[p], Sweep(p, o)
      PROVE  IInv'
  <2>1. /\ pc[p] = "sweep" /\ pc'[p] = "sweep" /\ UNCHANGED <<files, marked>>
        /\ batch' = batch \ {o}
        /\ objects' = IF Transactional THEN objects ELSE batch'
        /\ todo'[p] = todo[p] \ {o}
    BY <1>1, <1>5 DEF Sweep, Delete, TypeOK
  <2>2. o \notin Live /\ Live' = Live
    BY <1>1, <1>2, <2>1 DEF Marking
  <2>3. Live \subseteq objects'
    BY <1>1, <2>1, <2>2 DEF Marking, StoreInv, RootsComplete
  <2>4. BatchInv'
    BY <2>1 DEF BatchInv, InBatch
  <2>5. StoreInv'
    BY <1>1, <2>1, <2>2, <2>3, <2>4 DEF StoreInv, RootsComplete, Complete
  <2>6. Marking(p)'
    BY <1>1, <2>1, <2>2 DEF Marking
  <2>7. Building(p)'
    BY <2>1 DEF Building, Writing
  <2> QED
    BY <1>5, <2>5, <2>6, <2>7, StepSafe DEF Locked, CollectGarbage
<1> QED
  BY <1>3, <1>4, <1>5 DEF CollectGarbage

\* Opening, closing and taking the lock change neither files nor store.
LEMMA SafeOutside ==
    ASSUME Safe, NEW p \in Procs, Outside(p)
    PROVE  IInv'
<1> USE DEF files, store, handle, work
<1>1. TypeOK /\ StoreInv /\ \A q \in Procs : Building(q) /\ Marking(q)
  BY DEF Safe, TypeInv, IInv
<1>2. /\ pc[p] \in {"closed", "opening", "idle"}
      /\ pc'[p] \in {"closed", "opening", "idle", "refresh", "roots"}
      /\ marked' = marked
      /\ UNCHANGED <<files, store>>
      /\ \A q \in Procs \ {p} :
            UNCHANGED <<pc[q], branch[q], head[q], cand[q], todo[q], marked[q]>>
  BY <1>1 DEF Outside, OpenReadHead, OpenReadRef, Close, Acquire, AcquireTorn, TypeOK
<1>3. (\A q \in Procs : pc'[q] \notin InBatch) => batch = objects
  <2>1. (\A q \in Procs : pc'[q] \notin InBatch) => \A q \in Procs : pc[q] \notin InBatch
    BY <1>2 DEF InBatch
  <2> QED
    BY <1>1, <2>1 DEF StoreInv, BatchInv
<1>4. StoreInv'
  BY <1>1, <1>2, <1>3, StoreFrame
<1>5. Building(p)' /\ Marking(p)'
  BY <1>1, <1>2 DEF Building, Marking, Writing
<1>6. ASSUME NEW q \in Procs \ {p}
      PROVE  Building(q)' /\ Marking(q)'
  BY <1>1, <1>2, Unaffected
<1> QED
  BY <1>4, <1>5, <1>6 DEF IInv

LEMMA SafeNext ==
    ASSUME SafeCheckouts
    PROVE  Safe /\ [Next]_vars => IInv'
<1> SUFFICES ASSUME Safe, [Next]_vars PROVE IInv'
  OBVIOUS
<1>1. ASSUME NEW p \in Procs, Locked(p) \/ Outside(p) \/ Crash(p)
      PROVE  IInv'
  BY <1>1, SafeEnds, SafeChangeRefs, SafeCommit, SafeBegin, SafeCommitBatch,
     SafeCollect, SafeOutside DEF Locked
<1>2. CASE RemoveStaleLock \/ UNCHANGED vars
  <2>1. /\ UNCHANGED <<files, store, pc>>
        /\ \A q \in Procs : UNCHANGED <<pc[q], branch[q], head[q], cand[q], todo[q], marked[q]>>
    BY <1>2 DEF RemoveStaleLock, vars, files, store, handle, work
  <2>2. (\A q \in Procs : pc'[q] \notin InBatch) => batch = objects
    BY <2>1 DEF Safe, IInv, StoreInv, BatchInv
  <2>3. StoreInv'
    BY <2>1, <2>2, StoreFrame DEF Safe, IInv
  <2>4. \A q \in Procs : Building(q)' /\ Marking(q)'
    BY <2>1, Unaffected DEF Safe, IInv
  <2> QED
    BY <2>3, <2>4 DEF IInv
<1> QED
  BY <1>1, <1>2 DEF Next

LEMMA AlwaysSafe ==
    ASSUME SafeCheckouts
    PROVE  Spec => []Safe
<1>1. Init => Safe
  BY TypeInit, LockInit, HandleInit, SafeInit DEF Safe
<1>2. Safe /\ [Next]_vars => Safe'
  BY TypeNext, LockNext, HandleNext, SafeNext DEF Safe, TypeInv
<1> QED
  BY <1>1, <1>2, PTL DEF Spec

\* What HEAD or a branch reaches is in the store at every instant, whatever
\* fails or crashes and however collections and commits follow each other:
\* on the transactional store without restriction, on a loose one as long as
\* nobody checks out a commit that no reference reaches.
THEOREM ReferencesStayComplete ==
    ASSUME SafeCheckouts
    PROVE  Spec => []RootsComplete
<1>1. Safe => RootsComplete
  BY DEF Safe, IInv, StoreInv
<1> QED
  BY <1>1, AlwaysSafe, PTL

\* On the transactional store no commit is ever there without its data.
THEOREM StoredCommitsAreComplete ==
    ASSUME Transactional
    PROVE  Spec => []StoreComplete
<1>1. Safe => StoreComplete
  <2> SUFFICES ASSUME Safe, NEW h \in StoredVersions PROVE Needs(h) \subseteq objects
    BY DEF StoreComplete
  <2>1. PICK o \in objects : o[1] = "commit" /\ h = o[2]
    BY DEF StoredVersions
  <2>2. h \in Version /\ o = CommitObject(h)
    BY <2>1, ObjectTyped DEF Safe, TypeInv, TypeOK
  <2> QED
    BY <2>1, <2>2 DEF Safe, IInv, StoreInv, Complete
<1>2. SafeCheckouts
  BY DEF SafeCheckouts
<1> QED
  BY <1>1, <1>2, AlwaysSafe, PTL

\* A collection that succeeds leaves exactly the live objects.
THEOREM CollectionsAreExact ==
    ASSUME SafeCheckouts
    PROVE  Spec => CollectionIsExact
<1>1. Safe /\ [Next]_vars =>
        [\A p \in Procs : pc[p] = "sweep" /\ pc'[p] = "ok" => objects' = Live]_vars
  <2> SUFFICES ASSUME Safe, Next, NEW p \in Procs, pc[p] = "sweep", pc'[p] = "ok"
               PROVE  objects' = Live
    BY DEF vars
  <2>1. pc \in [Procs -> PC] /\ pc[p] \in Section
    BY DEF Safe, TypeInv, TypeOK, Section, InBatch
  <2>2. ASSUME NEW q \in Procs, Outside(q)
        PROVE  pc'[p] \in {"sweep", "opening", "idle", "closed", "roots", "refresh"}
    BY <2>1, <2>2 DEF Outside, OpenReadHead, OpenReadRef, Close, Acquire, AcquireTorn
  <2>3. PICK q \in Procs : Locked(q) \/ Crash(q)
    BY <2>1, <2>2 DEF Next, RemoveStaleLock
  <2>4. q = p
    BY <2>1, <2>3, OthersFrame DEF Safe, TypeInv, MutualExclusion
  <2>5. CommitBatch(p)
    BY <2>1, <2>3, <2>4 DEF Locked, Crash, RefreshHead, BeginBatch, Commit,
         StartSnapshot, StartChanges, WriteBlob, WriteTree, WriteCommit,
         PublishCommit, ChangeRefs, CreateBranch, DeleteBranch, CheckoutBranch,
         CheckoutCommit, Refuse, CollectGarbage, ReadRoots, Mark, Sweep, Fail, Release
  <2> QED
    BY <2>5, SafeCommitBatch
<1> QED
  BY <1>1, AlwaysSafe, PTL DEF Spec, CollectionIsExact
====
