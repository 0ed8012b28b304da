---- MODULE ReadersProofs ----
(* Readers disturb nobody, and what they ask for stays there for them as    *)
(* long as it is reachable, for any number of readers, writers and faults.  *)
EXTENDS Readers, RepositoryProofs

\* A walk reads only what its commit reaches, the commit is reachable for as
\* long as held says so, and the listed branches with commits still have them.
Walking(r) ==
    /\ rpc[r] = "reading" => /\ want[r] \in Version
                             /\ rtodo[r] \subseteq Reach(CommitObject(want[r]))
    /\ held[r] => CommitObject(want[r]) \in Live
    /\ rpc[r] \notin {"reading", "done"} => ~held[r]
    /\ \A b \in born[r] : b \in refFile /\ ref[b] # <<>>

RInv == RTypeOK /\ \A r \in Readers : Walking(r)

\* Whatever a walk follows is a child of the object it read.
LEMMA FollowsChildren ==
    ASSUME NEW k \in Kinds, NEW o \in Object
    PROVE  Follow(k, o) \subseteq Children(o)
<1>1. CASE o[1] = "commit"
  BY <1>1 DEF Follow, Children
<1>2. CASE o[1] = "tree"
  BY <1>2 DEF Follow, Children
<1>3. CASE o[1] = "blob"
  BY <1>3 DEF Follow, Children
<1> QED
  BY <1>1, <1>2, <1>3, ObjectTyped

LEMMA WalkInit == RInit => RInv
<1> SUFFICES ASSUME RInit PROVE RInv
  OBVIOUS
<1>1. <<>> \in History
  BY DEF History
<1>2. RTypeOK
  BY <1>1 DEF RInit, RTypeOK, RPC, Kinds
<1>3. ASSUME NEW r \in Readers
      PROVE  Walking(r)
  BY DEF RInit, Walking
<1> QED
  BY <1>2, <1>3 DEF RInv

\* A walk starts from a commit, with that commit to read.
LEMMA WalkStarts ==
    ASSUME TypeOK, RInv, NEW r \in Readers, NEW k \in Kinds, NEW h \in Version,
           Read(r, k, h), UNCHANGED vars
    PROVE  RInv'
<1> USE DEF RInv, RTypeOK, Read
<1>1. CommitObject(h) \in Object /\ CommitObject(h) \in Reach(CommitObject(h))
  BY ObjectTyped, ReachSteps
<1>2. Live' = Live /\ refFile' = refFile /\ ref' = ref
  BY LiveFrame DEF vars, files
<1>3. RTypeOK'
  BY <1>1 DEF RPC, Version
<1>4. ASSUME NEW q \in Readers
      PROVE  Walking(q)'
  BY <1>1, <1>2 DEF Walking
<1> QED
  BY <1>3, <1>4

\* Everything else a reader does.
LEMMA WalkGoesOn ==
    ASSUME Safe, RInv, NEW r \in Readers, UNCHANGED vars,
           \/ \E o \in rtodo[r] : ReadObject(r, o) \/ MissObject(r, o)
           \/ OpenHead(r) \/ OpenUnborn(r) \/ AllRead(r) \/ Return(r)
           \/ ListBranches(r) \/ Listed(r)
           \/ \E b \in names[r] : ReadBranchFile(r, b)
    PROVE  RInv'
<1> USE DEF RInv, RTypeOK
<1>1. /\ Live' = Live /\ refFile' = refFile /\ ref' = ref /\ objects' = objects
      /\ TypeOK /\ RootsComplete
  BY LiveFrame DEF vars, files, Safe, TypeInv, IInv, StoreInv
<1>2. ASSUME NEW o \in rtodo[r], ReadObject(r, o)
      PROVE  RInv'
  <2> DEFINE c == CommitObject(want[r])
  <2>1. c \in Object /\ o \in Object /\ o \in Reach(c)
    BY <1>2, ObjectTyped DEF ReadObject, Walking
  <2>2. Follow(kind[r], o) \subseteq Children(o)
    BY <2>1, FollowsChildren
  <2>3. Children(o) \subseteq Reach(o)
    BY <2>1, ReachSteps
  <2>4. Reach(o) \subseteq Reach(c)
    BY <2>1, ReachTransitive
  <2>5. Reach(c) \subseteq Object
    BY <2>1, ReachTyped
  <2> HIDE DEF c
  <2>6. Follow(kind[r], o) \subseteq Reach(c) /\ Follow(kind[r], o) \subseteq Object
    BY <2>2, <2>3, <2>4, <2>5
  <2>7. RTypeOK'
    BY <1>2, <2>6 DEF ReadObject
  <2>8. ASSUME NEW q \in Readers
        PROVE  Walking(q)'
    BY <1>1, <1>2, <2>6 DEF ReadObject, Walking, c
  <2> QED
    BY <2>7, <2>8
<1>3. ASSUME NEW o \in rtodo[r], MissObject(r, o)
      PROVE  RInv'
  <2>1. RTypeOK'
    BY <1>3 DEF MissObject, RPC
  <2>2. ~held[r]
    <3> SUFFICES ASSUME held[r] PROVE FALSE
      BY DEF RTypeOK
    <3>1. o \in Reach(CommitObject(want[r])) /\ CommitObject(want[r]) \in Live
      BY <1>3 DEF MissObject, Walking
    <3>2. o \in objects
      BY <1>1, <3>1, LiveFacts DEF RootsComplete
    <3> QED
      BY <1>3, <3>2 DEF MissObject
  <2>3. ASSUME NEW q \in Readers
        PROVE  Walking(q)'
    <3>1. UNCHANGED <<held, want, rtodo, born, names>> /\ (q # r => rpc'[q] = rpc[q])
      BY <1>3 DEF MissObject, RTypeOK
    <3>2. CASE q = r
      BY <1>1, <1>3, <2>2, <3>1, <3>2 DEF MissObject, Walking, RTypeOK
    <3>3. CASE q # r
      BY <1>1, <3>1, <3>3 DEF Walking
    <3> QED
      BY <3>2, <3>3
  <2> QED
    BY <2>1, <2>3
<1>4. CASE OpenHead(r)
  <2>1. RTypeOK'
    BY <1>1, <1>4 DEF OpenHead, RPC, TypeOK
  <2>2. ASSUME NEW q \in Readers
        PROVE  Walking(q)'
    BY <1>1, <1>4 DEF OpenHead, Walking
  <2> QED
    BY <2>1, <2>2
<1>5. CASE OpenUnborn(r) \/ AllRead(r)
  <2>1. RTypeOK'
    BY <1>5 DEF OpenUnborn, AllRead, RPC
  <2>2. ASSUME NEW q \in Readers
        PROVE  Walking(q)'
    BY <1>1, <1>5 DEF OpenUnborn, AllRead, Walking
  <2> QED
    BY <2>1, <2>2
<1>6. CASE Return(r)
  <2>1. RTypeOK'
    BY <1>6 DEF Return, RPC, Kinds, History
  <2>2. ASSUME NEW q \in Readers
        PROVE  Walking(q)'
    BY <1>1, <1>6 DEF Return, Walking
  <2> QED
    BY <2>1, <2>2
<1>7. CASE ListBranches(r) \/ Listed(r) \/ \E b \in names[r] : ReadBranchFile(r, b)
  <2>1. RTypeOK'
    BY <1>1, <1>7 DEF ListBranches, Listed, ReadBranchFile, RPC, TypeOK
  <2>2. ASSUME NEW q \in Readers
        PROVE  Walking(q)'
    BY <1>1, <1>7 DEF ListBranches, Listed, ReadBranchFile, Walking
  <2> QED
    BY <2>1, <2>2
<1> QED
  BY <1>2, <1>3, <1>4, <1>5, <1>6, <1>7

LEMMA WalkReader ==
    ASSUME Safe, RInv, NEW r \in Readers, Reader(r), UNCHANGED vars
    PROVE  RInv'
<1>1. TypeOK
  BY DEF Safe, TypeInv
<1>2. ASSUME NEW k \in Kinds, NEW b \in Branches, ResolveBranch(r, k, b)
      PROVE  RInv'
  <2>1. ref[b] \in Version
    BY <1>1, <1>2 DEF ResolveBranch, TypeOK, Version
  <2> QED
    BY <1>1, <1>2, <2>1, WalkStarts DEF ResolveBranch
<1>3. ASSUME NEW k \in Kinds, NEW o \in objects, o[1] = "commit", ResolveHash(r, k, o[2])
      PROVE  RInv'
  <2>1. o[2] \in Version
    BY <1>1, <1>3, ObjectTyped DEF TypeOK
  <2> QED
    BY <1>1, <1>3, <2>1, WalkStarts DEF ResolveHash
<1>4. ASSUME NEW k \in Kinds, OpenRef(r, k)
      PROVE  RInv'
  <2>1. OpenedHead(r) \in Version
    BY <1>1, <1>4 DEF OpenRef, OpenedHead, RInv, RTypeOK, TypeOK, Version
  <2> QED
    BY <1>1, <1>4, <2>1, WalkStarts DEF OpenRef
<1> QED
  BY <1>2, <1>3, <1>4, WalkGoesOn DEF Reader

\* A step of a writer: held and born are kept true, nothing else moves.
LEMMA WalkObserves ==
    ASSUME Safe, RInv, Next, Observe
    PROVE  RInv'
<1> USE DEF RInv, RTypeOK
<1>1. TypeInv /\ HandleInv /\ [Next]_vars
  BY DEF Safe
<1>2. RTypeOK'
  BY DEF Observe
<1>3. ASSUME NEW q \in Readers, NEW b \in born'[q]
      PROVE  b \in refFile' /\ ref'[b] # <<>>
  <2>1. b \in refFile \intersect refFile' /\ ref[b] # <<>>
    BY <1>3 DEF Observe, Walking
  <2>2. CASE ref'[b] = ref[b]
    BY <2>1, <2>2
  <2>3. CASE ref'[b] # ref[b]
    <3>1. Parent(ref'[b]) = ref[b]
      BY <1>1, <2>1, <2>3, BranchesMove
    <3>2. Parent(<<>>) = <<>>
      BY DEF Parent
    <3> QED
      BY <2>1, <3>1, <3>2
  <2> QED
    BY <2>2, <2>3
<1>4. ASSUME NEW q \in Readers
      PROVE  Walking(q)'
  BY <1>3 DEF Observe, Walking
<1> QED
  BY <1>2, <1>4

LEMMA WalkNext == Safe /\ RInv /\ [RNext]_allVars => RInv'
<1> SUFFICES ASSUME Safe, RInv, [RNext]_allVars PROVE RInv'
  OBVIOUS
<1>1. CASE UNCHANGED allVars
  <2>1. Live' = Live
    BY <1>1, LiveFrame DEF allVars, vars, files
  <2> QED
    BY <1>1, <2>1 DEF allVars, vars, rvars, RInv, RTypeOK, Walking
<1>2. CASE Next /\ Observe
  BY <1>2, WalkObserves
<1>3. CASE (\E r \in Readers : Reader(r)) /\ UNCHANGED vars
  BY <1>3, WalkReader
<1> QED
  BY <1>1, <1>2, <1>3 DEF RNext
----
\* Readers change nothing the writers see: with them, a repository is still
\* the one module Repository describes, and all that is proved of it holds.
THEOREM ReadersDisturbNobody == RSpec => Spec
<1>1. RInit => Init
  BY DEF RInit
<1>2. [RNext]_allVars => [Next]_vars
  BY DEF RNext, allVars
<1> QED
  BY <1>1, <1>2, PTL DEF RSpec, Spec

LEMMA AlwaysWalking ==
    ASSUME SafeCheckouts
    PROVE  RSpec => []RInv
<1>1. RSpec => []Safe
  BY ReadersDisturbNobody, AlwaysSafe, PTL
<1> QED
  BY <1>1, WalkInit, WalkNext, PTL DEF RSpec

\* Without taking the lock, a reader finds every object of a commit that HEAD
\* or a branch reaches throughout the call.
THEOREM ReadersAreServed ==
    ASSUME SafeCheckouts
    PROVE  RSpec => []ReadersFindWhatIsReachable
<1>1. RInv => ReadersFindWhatIsReachable
  BY DEF RInv, Walking, ReadersFindWhatIsReachable
<1> QED
  BY <1>1, AlwaysWalking, PTL

\* No branch with commits is ever seen without one unless it is deleted.
THEOREM ListingsShowCommits ==
    ASSUME SafeCheckouts
    PROVE  RSpec => []ListingShowsCommits
<1>1. RInv => ListingShowsCommits
  BY DEF RInv, Walking, ListingShowsCommits
<1> QED
  BY <1>1, AlwaysWalking, PTL
----
(* Types need no assumption about what is checked out.                      *)

LEMMA ReaderTypes ==
    ASSUME TypeOK, RTypeOK, NEW r \in Readers, Reader(r)
    PROVE  RTypeOK'
<1> USE DEF RTypeOK, RPC, Kinds
<1>1. ASSUME NEW k \in Kinds, NEW h \in Version, Read(r, k, h)
      PROVE  RTypeOK'
  BY <1>1, ObjectTyped DEF Read, Version
<1>2. ASSUME NEW k \in Kinds, NEW b \in Branches, ResolveBranch(r, k, b)
      PROVE  RTypeOK'
  BY <1>1, <1>2 DEF ResolveBranch, TypeOK, Version
<1>3. ASSUME NEW k \in Kinds, NEW o \in objects, o[1] = "commit", ResolveHash(r, k, o[2])
      PROVE  RTypeOK'
  BY <1>1, <1>3, ObjectTyped DEF ResolveHash, TypeOK
<1>4. ASSUME NEW k \in Kinds, OpenRef(r, k)
      PROVE  RTypeOK'
  BY <1>1, <1>4 DEF OpenRef, OpenedHead, TypeOK, Version
<1>5. ASSUME NEW o \in rtodo[r], ReadObject(r, o)
      PROVE  RTypeOK'
  <2>1. Follow(kind[r], o) \subseteq Object
    BY FollowsChildren, ChildrenTyped
  <2> QED
    BY <1>5, <2>1 DEF ReadObject
<1>6. CASE OpenHead(r) \/ OpenUnborn(r) \/ AllRead(r) \/ \E o \in rtodo[r] : MissObject(r, o)
  BY <1>6 DEF OpenHead, OpenUnborn, AllRead, MissObject, TypeOK
<1>7. CASE ListBranches(r) \/ Listed(r) \/ \E b \in names[r] : ReadBranchFile(r, b)
  BY <1>7 DEF ListBranches, Listed, ReadBranchFile, TypeOK
<1>8. CASE Return(r)
  BY <1>8, EmptyHistory DEF Return
<1> QED
  BY <1>2, <1>3, <1>4, <1>5, <1>6, <1>7, <1>8 DEF Reader

\* Every variable of the readers keeps its type, whatever the writers do.
THEOREM ReadersTypeCorrect == RSpec => []RTypeOK
<1>1. TypeOK /\ RTypeOK /\ [RNext]_allVars => RTypeOK'
  <2> SUFFICES ASSUME TypeOK, RTypeOK, [RNext]_allVars PROVE RTypeOK'
    OBVIOUS
  <2>1. CASE UNCHANGED allVars
    BY <2>1 DEF allVars, rvars, RTypeOK
  <2>2. CASE Observe
    BY <2>2 DEF Observe, RTypeOK
  <2>3. CASE \E r \in Readers : Reader(r)
    BY <2>3, ReaderTypes
  <2> QED
    BY <2>1, <2>2, <2>3 DEF RNext
<1>2. RInit => RTypeOK
  BY WalkInit DEF RInv
<1> QED
  BY <1>1, <1>2, ReadersDisturbNobody, TypeCorrect, PTL DEF RSpec
====
