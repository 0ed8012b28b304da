---- MODULE RepositoryRefinement ----
(* Every step of Repository is one atomic operation of VersionGraph or      *)
(* nothing: the proof of ImplementsVersionGraph. What is new beside the     *)
(* safety invariant is the difference between the open batch and the store. *)
EXTENDS RepositoryProofs

\* Until its own commit object is written, a commit's batch holds no commit
\* that the store does not hold; from then on only that one.
Drawn(p) ==
    /\ pc[p] \in {"base", "blobs", "commit"} =>
         \A h \in Version : CommitObject(h) \in batch => CommitObject(h) \in objects
    /\ pc[p] = "flush" =>
         \A h \in Version : CommitObject(h) \in batch =>
             CommitObject(h) \in objects \/ h = cand[p]

BatchDrawn == \A p \in Procs : Drawn(p)

Refined == Safe /\ BatchDrawn
----
(* The mapping.                                                             *)

\* A version is in a set of objects when its commit object is.
LEMMA StoredMember ==
    ASSUME NEW S \in SUBSET Object
    PROVE  {o[2] : o \in {x \in S : x[1] = "commit"}}
             = {h \in Version : CommitObject(h) \in S}
<1>1. ASSUME NEW o \in S, o[1] = "commit"
      PROVE  o[2] \in Version /\ CommitObject(o[2]) \in S
  BY <1>1, ObjectTyped
<1>2. ASSUME NEW h \in Version, CommitObject(h) \in S
      PROVE  \E o \in {x \in S : x[1] = "commit"} : o[2] = h
  BY <1>2 DEF CommitObject
<1> QED
  BY <1>1, <1>2

LEMMA StoredBefore ==
    TypeOK => StoredVersions = {h \in Version : CommitObject(h) \in objects}
  BY StoredMember DEF TypeOK, StoredVersions

LEMMA StoredAfter ==
    TypeOK' => StoredVersions' = {h \in Version : CommitObject(h) \in objects'}
  BY StoredMember DEF TypeOK, StoredVersions

\* A version is its parent's history and one entry more.
LEMMA VersionExtends ==
    ASSUME NEW h \in Version
    PROVE  \E e \in Entry : h = Append(Parent(h), e)
<1> DEFINE e == h[Len(h)]
           g == Append(Parent(h), e)
<1>1. /\ Len(h) \in Nat /\ Len(h) > 0 /\ e \in Entry
      /\ Parent(h) \in Seq(Entry) /\ Len(Parent(h)) = Len(h) - 1
      /\ \A i \in 1 .. Len(h) - 1 : Parent(h)[i] = h[i]
  BY VersionFacts DEF History
<1>2. /\ g \in Seq(Entry)
      /\ Len(g) = Len(h)
      /\ g[Len(h)] = e
      /\ \A i \in 1 .. Len(h) - 1 : g[i] = Parent(h)[i]
  BY <1>1
<1> HIDE DEF g
<1>3. \A i \in 1 .. Len(h) : g[i] = h[i]
  BY <1>1, <1>2
<1>4. g = h
  BY <1>2, <1>3, SeqEqual DEF Version, History
<1> QED
  BY <1>1, <1>4 DEF g

\* What the version graph calls reachable is live.
LEMMA ReachableIsLive ==
    ASSUME TypeOK
    PROVE  \A v \in Graph!Reachable : v \in Version /\ CommitObject(v) \in Live
<1>1. ASSUME NEW h \in History, h # <<>> => h \in Roots, NEW v \in Graph!Ancestry(h)
      PROVE  v \in Version /\ CommitObject(v) \in Live
  <2>1. PICK i \in 1 .. Len(h) : v = SubSeq(h, 1, i)
    BY <1>1 DEF Graph!Ancestry
  <2>2. h # <<>>
    BY <2>1
  <2>3. h \in Version /\ h \in Roots
    BY <1>1, <2>2 DEF Version
  <2>4. v \in Version /\ CommitObject(v) \in Needs(h)
    BY <2>1, <2>3, PrefixFacts, NeedsMember
  <2> QED
    BY <2>3, <2>4, LiveFacts
<1>2. HeadCommit \in History /\ (HeadCommit # <<>> => HeadCommit \in Roots)
  BY HeadCommitTyped DEF Roots
<1>3. \A b \in refFile : ref[b] \in History /\ (ref[b] # <<>> => ref[b] \in Roots)
  BY DEF Roots, TypeOK
<1>4. Graph!HeadCommit = HeadCommit
  BY DEF Graph!HeadCommit, HeadCommit
<1> QED
  BY <1>1, <1>2, <1>3, <1>4 DEF Graph!Reachable

LEMMA GraphInit == Init => Graph!Init
  BY DEF Init, Graph!Init, StoredVersions
----
(* The kinds of steps.                                                      *)

\* Neither references nor stored commits change.
LEMMA GraphStutters ==
    ASSUME TypeOK, TypeOK', UNCHANGED files,
           \A h \in Version : CommitObject(h) \in objects' <=> CommitObject(h) \in objects
    PROVE  UNCHANGED Graph!vars
<1>1. StoredVersions' = StoredVersions
  BY StoredBefore, StoredAfter
<1> QED
  BY <1>1 DEF Graph!vars, files

\* A child of HEAD's commit is stored.
LEMMA GraphStores ==
    ASSUME TypeOK, TypeOK', UNCHANGED files,
           NEW v \in Version, Parent(v) = HeadCommit,
           \A h \in Version : CommitObject(h) \in objects' <=>
                                CommitObject(h) \in objects \/ h = v
    PROVE  Graph!Next
<1>1. StoredVersions' = StoredVersions \union {v}
  BY StoredBefore, StoredAfter
<1>2. PICK e \in Entry : v = Append(HeadCommit, e)
  BY VersionExtends
<1>3. Graph!Store
  BY <1>1, <1>2 DEF Graph!Store, Graph!HeadCommit, HeadCommit, files
<1> QED
  BY <1>3 DEF Graph!Next

\* Commits leave the store, and none that a reference reaches.
LEMMA GraphCollects ==
    ASSUME TypeOK, TypeOK', UNCHANGED files, RootsComplete',
           \A h \in Version : CommitObject(h) \in objects' => CommitObject(h) \in objects
    PROVE  Graph!Next
<1> DEFINE gone == StoredVersions \ StoredVersions'
<1>1. StoredVersions' \subseteq StoredVersions
  BY StoredBefore, StoredAfter
<1>2. \A v \in Graph!Reachable : v \in StoredVersions'
  <2>1. Live' = Live
    BY LiveFrame
  <2> QED
    BY <2>1, ReachableIsLive, StoredAfter DEF RootsComplete
<1>3. StoredVersions' = StoredVersions \ gone /\ gone \intersect Graph!Reachable = {}
  BY <1>1, <1>2
<1>4. Graph!Collect(gone)
  BY <1>3 DEF Graph!Collect, files
<1> QED
  BY <1>4 DEF Graph!Next
----
(* The batch.                                                               *)

LEMMA DrawnInit == Init => BatchDrawn
  BY DEF Init, BatchDrawn, Drawn

\* Only the process inside the section can owe anything.
LEMMA DrawnStep ==
    ASSUME Safe, NEW p \in Procs, Locked(p) \/ Crash(p), Drawn(p)'
    PROVE  BatchDrawn'
<1>1. pc[p] \in Section /\ \A q \in Procs \ {p} : pc'[q] = pc[q]
  BY OthersFrame DEF Safe, TypeInv
<1>2. \A q \in Procs \ {p} : pc'[q] \notin Section
  BY <1>1 DEF Safe, MutualExclusion
<1>3. \A q \in Procs \ {p} : Drawn(q)'
  BY <1>2 DEF Drawn, Section, InBatch
<1> QED
  BY <1>3 DEF BatchDrawn

\* An object other than a commit adds nothing to the batch that matters.
LEMMA DrawnPut ==
    ASSUME Safe, NEW p \in Procs, Drawn(p), pc[p] \in {"base", "blobs"},
           pc'[p] \in {"blobs", "commit"}, NEW o, Put(o),
           \A h \in Version : o # CommitObject(h)
    PROVE  /\ Drawn(p)'
           /\ \A h \in Version : CommitObject(h) \in objects' <=> CommitObject(h) \in objects
<1>1. objects \subseteq batch
  BY DEF Safe, IInv, Building, Writing
<1>2. \A h \in Version : CommitObject(h) \in batch => CommitObject(h) \in objects
  BY DEF Drawn
<1>3. batch' = batch \union {o} /\ objects' = IF Transactional THEN objects ELSE batch'
  BY DEF Put
<1> QED
  BY <1>1, <1>2, <1>3 DEF Drawn
----
(* The steps.                                                               *)

GraphStep == Graph!Next \/ UNCHANGED Graph!vars

\* Writing a commit: only its own object can become a stored version.
LEMMA GraphCommit ==
    ASSUME Safe, TypeOK', NEW p \in Procs, Drawn(p), Commit(p), ~PublishCommit(p)
    PROVE  Drawn(p)' /\ GraphStep
<1> USE DEF files, store, handle, work
<1>1. TypeOK /\ CandBuilt /\ Fresh(p) /\ Extends(p) /\ Building(p)
  BY DEF Safe, TypeInv, HandleInv, IInv
<1>2. ASSUME NEW t \in Stamps, NEW w \in Snapshots, StartSnapshot(p, w, t)
      PROVE  Drawn(p)' /\ GraphStep
  <2>1. pc[p] = "base" /\ pc'[p] = "blobs" /\ UNCHANGED <<files, store>>
    BY <1>1, <1>2 DEF StartSnapshot, TypeOK
  <2> QED
    BY <1>1, <2>1, GraphStutters DEF Drawn, GraphStep
<1>3. ASSUME NEW o, Put(o), UNCHANGED files, \A h \in Version : o # CommitObject(h),
             pc[p] \in {"base", "blobs"}, pc'[p] \in {"blobs", "commit"}
      PROVE  Drawn(p)' /\ GraphStep
  BY <1>1, <1>3, DrawnPut, GraphStutters DEF GraphStep
<1>4. ASSUME NEW t \in Stamps, NEW c \in ChangeSets, StartChanges(p, c, t)
      PROVE  Drawn(p)' /\ GraphStep
  <2>1. pc[p] = "base" /\ pc'[p] \in {"blobs", "commit"} /\ UNCHANGED files
    BY <1>1, <1>4 DEF StartChanges, TypeOK
  <2>2. CASE head[p] = <<>>
    <3>1. Put(Tree(EmptyWorld)) /\ \A h \in Version : Tree(EmptyWorld) # CommitObject(h)
      BY <1>4, <2>2 DEF StartChanges, Tree, CommitObject
    <3> QED
      BY <1>3, <2>1, <3>1
  <2>3. CASE head[p] # <<>>
    <3>1. UNCHANGED store
      BY <1>4, <2>3 DEF StartChanges
    <3> QED
      BY <1>1, <2>1, <3>1, GraphStutters DEF Drawn, GraphStep
  <2> QED
    BY <2>2, <2>3
<1>5. ASSUME NEW o \in todo[p], WriteBlob(p, o)
      PROVE  Drawn(p)' /\ GraphStep
  <2>1. pc[p] = "blobs" /\ pc'[p] = "blobs" /\ UNCHANGED files /\ Put(o)
    BY <1>5 DEF WriteBlob
  <2>2. \A h : o # CommitObject(h)
    BY <1>1, <2>1 DEF Building, CommitObject
  <2> QED
    BY <1>3, <2>1, <2>2
<1>6. CASE WriteTree(p)
  <2>1. /\ pc[p] = "blobs" /\ pc'[p] = "commit" /\ UNCHANGED files
        /\ Put(Tree(WorldOf(cand[p])))
    BY <1>1, <1>6 DEF WriteTree, TypeOK
  <2>2. \A h : Tree(WorldOf(cand[p])) # CommitObject(h)
    BY DEF Tree, CommitObject
  <2> QED
    BY <1>3, <2>1, <2>2
<1>7. CASE WriteCommit(p)
  <2>1. /\ pc[p] = "commit" /\ pc'[p] = "flush" /\ UNCHANGED <<files, cand>>
        /\ batch' = batch \union {CommitObject(cand[p])}
        /\ objects' = IF Transactional THEN objects ELSE batch'
    BY <1>1, <1>7 DEF WriteCommit, TypeOK, Put
  <2>2. \A h : CommitObject(h) = CommitObject(cand[p]) => h = cand[p]
    BY DEF CommitObject
  <2>3. objects \subseteq batch
    BY <1>1, <2>1 DEF Building, Writing
  <2>4. \A h \in Version : CommitObject(h) \in batch => CommitObject(h) \in objects
    BY <2>1 DEF Drawn
  <2>5. Drawn(p)'
    BY <2>1, <2>2, <2>3, <2>4 DEF Drawn
  <2>6. cand[p] \in Version /\ Parent(cand[p]) = HeadCommit
    BY <1>1, <2>1 DEF CandBuilt, Fresh, Extends, Writing
  <2>7. GraphStep
    <3>1. CASE Transactional
      BY <1>1, <2>1, <3>1, GraphStutters DEF GraphStep
    <3>2. CASE ~Transactional
      <4>1. \A h \in Version : CommitObject(h) \in objects' <=>
                                 CommitObject(h) \in objects \/ h = cand[p]
        BY <2>1, <2>2, <2>3, <2>4, <3>2
      <4> QED
        BY <1>1, <2>1, <2>6, <4>1, GraphStores DEF GraphStep
    <3> QED
      BY <3>1, <3>2
  <2> QED
    BY <2>5, <2>7
<1> QED
  BY <1>2, <1>4, <1>5, <1>6, <1>7 DEF Commit

\* Publishing moves HEAD's branch, or HEAD, to the stored child.
LEMMA GraphPublish ==
    ASSUME Safe, NEW p \in Procs, PublishCommit(p)
    PROVE  Drawn(p)' /\ GraphStep
<1> USE DEF files, store, handle, work
<1>1. TypeOK /\ CandBuilt /\ Fresh(p) /\ Extends(p) /\ Building(p)
  BY DEF Safe, TypeInv, HandleInv, IInv
<1>2. pc[p] = "publish" /\ pc'[p] \in {"ok", "err"} /\ UNCHANGED store
  BY <1>1 DEF PublishCommit, Wrote, TypeOK
<1>3. /\ branch[p] = HEAD.branch
      /\ cand[p] \in Version /\ Parent(cand[p]) = HeadCommit
      /\ Needs(cand[p]) \subseteq objects
  BY <1>1, <1>2 DEF CandBuilt, Fresh, Extends, Building
<1>4. cand[p] \in StoredVersions /\ Len(cand[p]) > 0
  <2>1. CommitObject(cand[p]) \in objects
    BY <1>3, NeedsOwn
  <2> QED
    BY <1>1, <1>3, <2>1, StoredBefore, VersionFacts
<1>5. StoredVersions' = StoredVersions
  BY <1>2 DEF StoredVersions
<1>6. HEAD.branch = Detached =>
        [branch |-> Detached, commit |-> cand[p]] = [HEAD EXCEPT !.commit = cand[p]]
  BY <1>1 DEF TypeOK
<1>7. Graph!Publish(cand[p])
  <2>1. CASE HEAD.branch = Detached
    BY <1>3, <1>4, <1>5, <1>6, <2>1
       DEF PublishCommit, Graph!Publish, Graph!HeadCommit, HeadCommit, Graph!Parent, Parent
  <2>2. CASE HEAD.branch # Detached
    BY <1>3, <1>4, <1>5, <2>2
       DEF PublishCommit, Graph!Publish, Graph!HeadCommit, HeadCommit, Graph!Parent, Parent
  <2> QED
    BY <2>1, <2>2
<1>8. Drawn(p)'
  BY <1>2 DEF Drawn
<1> QED
  BY <1>4, <1>7, <1>8 DEF GraphStep, Graph!Next

\* Branch operations and checkouts are the version graph's own.
LEMMA GraphChangesRefs ==
    ASSUME Safe, NEW p \in Procs, ChangeRefs(p)
    PROVE  Drawn(p)' /\ GraphStep
<1> USE DEF files, store, handle, work
<1>1. TypeOK /\ Fresh(p)
  BY DEF Safe, TypeInv, HandleInv
<1>2. pc[p] = "run" /\ pc'[p] \in {"ok", "err"} /\ UNCHANGED store
  BY <1>1 DEF ChangeRefs, CreateBranch, DeleteBranch, CheckoutBranch,
              CheckoutCommit, Refuse, Wrote, TypeOK
<1>3. branch[p] = HEAD.branch /\ head[p] = HeadCommit /\ Graph!HeadCommit = HeadCommit
  BY <1>1, <1>2 DEF Fresh, HeadCommit, Graph!HeadCommit
<1>4. StoredVersions' = StoredVersions
  BY <1>2 DEF StoredVersions
<1>5. Drawn(p)'
  BY <1>2 DEF Drawn
<1>6. ASSUME NEW b \in Branches, CreateBranch(p, b)
      PROVE  GraphStep
  BY <1>3, <1>4, <1>6 DEF CreateBranch, Graph!CreateBranch, GraphStep, Graph!Next
<1>7. ASSUME NEW b \in Branches, DeleteBranch(p, b)
      PROVE  GraphStep
  BY <1>3, <1>4, <1>7 DEF DeleteBranch, Graph!DeleteBranch, GraphStep, Graph!Next
<1>8. ASSUME NEW b \in Branches, CheckoutBranch(p, b)
      PROVE  GraphStep
  <2>1. ref[b] \in StoredVersions
    BY <1>1, <1>8, StoredBefore DEF CheckoutBranch, TypeOK, Version
  <2> QED
    BY <1>4, <1>8, <2>1 DEF CheckoutBranch, Graph!Switch, GraphStep, Graph!Next
<1>9. ASSUME NEW o \in objects, o[1] = "commit", CheckoutCommit(p, o[2])
      PROVE  GraphStep
  <2>1. o[2] \in StoredVersions
    BY <1>9 DEF StoredVersions
  <2> QED
    BY <1>4, <1>9, <2>1 DEF CheckoutCommit, Graph!Detach, GraphStep, Graph!Next
<1>10. CASE Refuse(p)
  <2>1. UNCHANGED <<HEAD, refFile, ref>>
    BY <1>10 DEF Refuse
  <2> QED
    BY <1>4, <1>5, <2>1 DEF GraphStep, Graph!vars
<1> QED
  BY <1>5, <1>6, <1>7, <1>8, <1>9, <1>10 DEF ChangeRefs

\* A batch that is committed stores its commit, or forgets what nothing
\* reaches; a store without transactions forgets it one object at a time.
LEMMA GraphBatch ==
    ASSUME Safe, TypeOK', IInv', NEW p \in Procs, Drawn(p),
           BeginBatch(p) \/ CommitBatch(p) \/ CollectGarbage(p)
    PROVE  Drawn(p)' /\ GraphStep
<1> USE DEF files, store, handle, work
<1>1. /\ TypeOK /\ CandBuilt /\ Fresh(p) /\ Extends(p) /\ Building(p) /\ Marking(p)
      /\ RootsComplete /\ RootsComplete'
  BY DEF Safe, TypeInv, HandleInv, IInv, StoreInv
<1>2. CASE BeginBatch(p)
  <2>1. pc[p] \in Section /\ pc[p] \notin InBatch
    BY <1>2 DEF BeginBatch, Section, InBatch
  <2>2. batch = objects /\ UNCHANGED <<files, store>> /\ pc'[p] \in {"base", "sweep"}
    BY <1>1, <1>2, <2>1, OneImage DEF BeginBatch, TypeOK
  <2> QED
    BY <1>1, <2>2, GraphStutters DEF Drawn, GraphStep
<1>3. CASE CommitBatch(p) /\ pc[p] = "flush"
  <2>1. pc'[p] = "publish" /\ UNCHANGED files /\ objects' = batch
    BY <1>1, <1>3 DEF CommitBatch, TypeOK
  <2>2. cand[p] \in Version /\ Parent(cand[p]) = HeadCommit
    BY <1>1, <1>3 DEF CandBuilt, Fresh, Extends, Writing
  <2>3. \A h \in Version : CommitObject(h) \in objects' <=>
                             CommitObject(h) \in objects \/ h = cand[p]
    BY <1>1, <1>3, <2>1 DEF Building, Writing, Drawn
  <2> QED
    BY <1>1, <2>1, <2>2, <2>3, GraphStores DEF Drawn, GraphStep
<1>4. CASE CommitBatch(p) /\ pc[p] = "sweep"
  <2>1. pc'[p] = "ok" /\ UNCHANGED files /\ objects' = batch /\ todo[p] = {}
    BY <1>1, <1>4 DEF CommitBatch, TypeOK
  <2>2. objects' \subseteq objects
    BY <1>1, <1>4, <2>1 DEF Marking, RootsComplete
  <2> QED
    BY <1>1, <2>1, <2>2, GraphCollects DEF Drawn, GraphStep
<1>5. CASE ReadRoots(p) \/ \E o \in todo[p] : Mark(p, o)
  <2>1. pc'[p] = "mark" /\ UNCHANGED <<files, store>>
    BY <1>1, <1>5 DEF ReadRoots, Mark, TypeOK
  <2> QED
    BY <1>1, <2>1, GraphStutters DEF Drawn, GraphStep
<1>6. ASSUME NEW o \in todo[p], Sweep(p, o)
      PROVE  Drawn(p)' /\ GraphStep
  <2>1. /\ pc'[p] = "sweep" /\ UNCHANGED files
        /\ objects' = IF Transactional THEN objects ELSE batch \ {o}
    BY <1>1, <1>6 DEF Sweep, Delete, TypeOK
  <2>2. objects' \subseteq objects
    BY <2>1 DEF Safe, IInv, StoreInv, BatchInv
  <2> QED
    BY <1>1, <2>1, <2>2, GraphCollects DEF Drawn, GraphStep
<1> QED
  <2>1. CASE CommitBatch(p)
    BY <1>3, <1>4, <2>1 DEF CommitBatch
  <2>2. CASE CollectGarbage(p)
    BY <1>5, <1>6, <2>2 DEF CollectGarbage
  <2> QED
    BY <1>2, <2>1, <2>2

\* Everything else shows neither in the references nor in the stored commits.
LEMMA GraphOtherwise ==
    ASSUME Safe, TypeOK', NEW p \in Procs,
           RefreshHead(p) \/ Fail(p) \/ Release(p) \/ Crash(p)
    PROVE  Drawn(p)' /\ GraphStep
<1> USE DEF files, store, handle, work
<1>1. TypeOK
  BY DEF Safe, TypeInv
<1>2. pc'[p] \in {"begin", "run", "err", "idle", "closed"} /\ UNCHANGED <<files, objects>>
  BY <1>1 DEF RefreshHead, Fail, Release, Crash, TypeOK
<1> QED
  BY <1>1, <1>2, GraphStutters DEF Drawn, GraphStep

LEMMA GraphNext ==
    ASSUME SafeCheckouts
    PROVE  Refined /\ [Next]_vars => BatchDrawn' /\ [Graph!Next]_(Graph!vars)
<1> SUFFICES ASSUME Refined, [Next]_vars PROVE BatchDrawn' /\ GraphStep
  BY DEF GraphStep
<1>1. Safe /\ TypeOK /\ TypeOK' /\ IInv'
  BY TypeNext, SafeNext DEF Refined, Safe, TypeInv
<1>2. ASSUME NEW p \in Procs, Locked(p) \/ Crash(p)
      PROVE  BatchDrawn' /\ GraphStep
  <2>1. Drawn(p)
    BY DEF Refined, BatchDrawn
  <2>2. Drawn(p)' /\ GraphStep
    BY <1>1, <1>2, <2>1, GraphCommit, GraphPublish, GraphChangesRefs, GraphBatch,
       GraphOtherwise DEF Locked
  <2> QED
    BY <1>1, <1>2, <2>2, DrawnStep
<1>3. ASSUME NEW p \in Procs, Outside(p)
      PROVE  BatchDrawn' /\ GraphStep
  <2>1. /\ UNCHANGED <<files, store>>
        /\ pc'[p] \notin {"base", "blobs", "commit", "flush"}
        /\ \A q \in Procs \ {p} : UNCHANGED <<pc[q], cand[q]>>
    BY <1>1, <1>3 DEF Outside, OpenReadHead, OpenReadRef, Close, Acquire, AcquireTorn,
                      TypeOK, files, store, handle, work
  <2>2. BatchDrawn'
    BY <2>1 DEF Refined, BatchDrawn, Drawn, store
  <2> QED
    BY <1>1, <2>1, <2>2, GraphStutters DEF GraphStep, store
<1>4. CASE RemoveStaleLock \/ UNCHANGED vars
  <2>1. UNCHANGED <<files, store, pc, cand>>
    BY <1>4 DEF RemoveStaleLock, vars, files, store, handle, work
  <2>2. BatchDrawn'
    BY <2>1 DEF Refined, BatchDrawn, Drawn, store
  <2> QED
    BY <1>1, <2>1, <2>2, GraphStutters DEF GraphStep, store
<1> QED
  BY <1>2, <1>3, <1>4 DEF Next

\* Seen through the references and the stored commits, every step of any
\* number of processes, with every fault, is one atomic operation of the
\* version graph, or nothing.
THEOREM RepositoryIsAVersionGraph ==
    ASSUME SafeCheckouts
    PROVE  Spec => ImplementsVersionGraph
<1>1. Init => Refined /\ Graph!Init
  BY TypeInit, LockInit, HandleInit, SafeInit, DrawnInit, GraphInit DEF Refined, Safe
<1>2. Refined /\ [Next]_vars => Refined'
  BY TypeNext, LockNext, HandleNext, SafeNext, GraphNext DEF Refined, Safe, TypeInv
<1>3. Refined /\ [Next]_vars => [Graph!Next]_(Graph!vars)
  BY GraphNext
<1> QED
  BY <1>1, <1>2, <1>3, PTL DEF Spec, ImplementsVersionGraph, Graph!Spec
====
