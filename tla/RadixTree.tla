---- MODULE RadixTree ----
(* The persistent radix tree of a world and the objects a commit publishes: *)
(* commit_snapshot and commit_changes down to the single tree node, and     *)
(* what tree_entries and diff read back. Nibbles, bytes and coordinates     *)
(* have the widths the CONSTANTS give them (16 values, 2 nibbles, 4 bytes   *)
(* in the code). Who publishes when is the subject of module Repository.       *)
EXTENDS ObjectCodec, Integers

CONSTANTS
    CoordBytes,  \* 4: bytes of one coordinate (i32)
    Coords,      \* the chunk coordinates in use
    Payloads,    \* chunk payloads, as sequences of bytes
    NoChunk,     \* a world without a chunk here; in a change set: removed
    Keep,        \* in a change set: coordinate not mentioned
    Snapshots,   \* the worlds passed to commit_snapshot
    ChangeSets,  \* the change sets passed to commit_changes
    Message      \* the message of every commit

Nibbles == MaxChildren      \* a branch has room for a child at each nibble
ByteSize == Nibbles * Nibbles

TreeDepth == 4 * CoordBytes

\* Nibbles to the k: the values k nibbles can have.
Power[k \in 0 .. TreeDepth] == IF k = 0 THEN 1 ELSE Nibbles * Power[k - 1]

CoordSize == Power[2 * CoordBytes]
Signed == -(CoordSize \div 2) .. (CoordSize \div 2) - 1

ASSUME WidthAssumption == /\ MaxChildren \in Nat \ {0, 1}
                          /\ CoordBytes \in Nat \ {0}
                          /\ Coords \subseteq Signed \X Signed

ASSUME WorldAssumption ==
    /\ Payloads \subseteq Seq(Nat) /\ Message \in Seq(Nat)
    /\ NoChunk \notin Payloads /\ Keep \notin Payloads \union {NoChunk}
    /\ Snapshots \subseteq [Coords -> Payloads \union {NoChunk}]
    /\ ChangeSets \subseteq [Coords -> Payloads \union {NoChunk, Keep}]

VARIABLES
    root,       \* the tree of the head commit; None before the first commit
    world,      \* the world the calls made so far should have produced
    edit,       \* the last call's edits: {<<coords, payload or NoChunk>>}
    published   \* the objects the last call passed to write_object

vars == <<root, world, edit, published>>

EmptyTree == Branch({})
EmptyWorld == [c \in Coords |-> NoChunk]

Occupied(w) == {c \in Coords : w[c] # NoChunk}
Applied(w, change) ==
    [c \in Coords |-> IF change[c] = Keep THEN w[c] ELSE change[c]]
EditsOf(change) == {<<c, change[c]>> : c \in {d \in Coords : change[d] # Keep}}
----
(* Coordinates. *)

\* i32 as u32: two's complement.
Unsigned(i) == i % CoordSize

\* The bytes of x, then of z, big-endian.
CoordByte(c, i) ==
    (Unsigned(c[1 + i \div CoordBytes])
       \div Power[2 * (CoordBytes - 1 - (i % CoordBytes))]) % ByteSize

\* Seeded fault: the low nibble of a byte is taken first.
CoordNibbleSwapped(c, depth) ==
    IF depth % 2 = 1 THEN CoordByte(c, depth \div 2) \div Nibbles
                     ELSE CoordByte(c, depth \div 2) % Nibbles

CoordNibble(c, depth) ==
    IF depth % 2 = 0 THEN CoordByte(c, depth \div 2) \div Nibbles
                     ELSE CoordByte(c, depth \div 2) % Nibbles

\* Seeded fault: z is widened as a signed number, over the bits of x.
CoordKeySignExtended(c) ==
    IF c[2] < 0 THEN (CoordSize - 1) * CoordSize + Unsigned(c[2])
                ELSE Unsigned(c[1]) * CoordSize + Unsigned(c[2])

CoordKey(c) == Unsigned(c[1]) * CoordSize + Unsigned(c[2])
----
(* Writing. A result is <<what is returned, the nodes written so far>>.     *)

IsBranch(node) == node[1] = "branch"
IsLeafAt(node, c) == node[1] = "leaf" /\ node[2] = c

\* At depth TreeDepth: one coordinate, whose leaf is replaced or removed.
UpdateLeaf(existing, changes) ==
    LET change == CHOOSE x \in changes : TRUE
        leaf == Leaf(change[1], change[2])
    IN IF \/ Cardinality(changes) # 1
          \/ existing # None /\ ~IsLeafAt(existing, change[1]) THEN <<Bail, {}>>
       ELSE IF change[2] = None THEN <<None, {}>>
       ELSE <<leaf, {leaf}>>

\* Seeded fault: a branch that lost its last child is written all the same.
AnyBranch(children) == Branch(children)

\* A branch is kept only if a child is left.
NonEmptyBranch(children) == IF children = {} THEN None ELSE Branch(children)

\* A branch whose children at the touched nibbles became results. It is
\* written only if that changes it.
UpdateBranch(existing, results) ==
    LET original == IF existing = None THEN {} ELSE existing[2]
        touched == {r[1] : r \in results}
        updated == {e \in original : e[1] \notin touched}
                     \union {<<r[1], r[2][1]>> : r \in {x \in results : x[2][1] # None}}
        below == UNION {r[2][2] : r \in results}
        node == NonEmptyBranch(updated)
    IN IF \E r \in results : r[2][1] = Bail THEN <<Bail, below>>
       ELSE IF updated = original THEN <<existing, below>>
       ELSE <<node, below \union ({node} \ {None})>>

\* The child of a branch at a nibble.
ChildAt(node, n) ==
    IF IsBranch(node) /\ \E e \in node[2] : e[1] = n
      THEN (CHOOSE e \in node[2] : e[1] = n)[2]
      ELSE None

\* The nodes on the path of a coordinate, by depth: what the calls for it find.
PathTo(base, c) ==
    LET node[d \in 0 .. TreeDepth] ==
            IF d = 0 THEN base ELSE ChildAt(node[d - 1], CoordNibble(c, d - 1))
    IN node

SamePath(a, b, depth) ==
    \A i \in 0 .. depth - 1 : CoordNibble(a, i) = CoordNibble(b, i)

\* changes: {<<coords, blob or None>>}. The calls by depth, each for the group
\* of the changes that share their path so far with coords. A call groups by
\* the next nibble and makes one call for each group.
Calls(base, changes) ==
    LET call[d \in 0 .. TreeDepth] ==
            [c \in {x[1] : x \in changes} |->
                LET existing == PathTo(base, c)[d]
                    group == {x \in changes : SamePath(x[1], c, d)}
                IN IF d = TreeDepth THEN UpdateLeaf(existing, group)
                   ELSE IF existing # None /\ ~IsBranch(existing) THEN <<Bail, {}>>
                   ELSE UpdateBranch(existing,
                          {<<n, call[d + 1][(CHOOSE x \in group : CoordNibble(x[1], d) = n)[1]]>>
                             : n \in {CoordNibble(x[1], d) : x \in group}})]
    IN call

ApplyTreeChanges(base, changes) ==
    IF changes = {} THEN <<base, {}>>
    ELSE Calls(base, changes)[0][(CHOOSE x \in changes : TRUE)[1]]

\* Seeded fault: a tree that lost everything is no tree.
OrNothing(result) == result

\* A tree that lost everything is the empty branch, not no tree.
OrEmpty(result) ==
    IF result[1] = None THEN <<EmptyTree, result[2] \union {EmptyTree}>> ELSE result

Encoded(edits) ==
    {<<e[1], IF e[2] = NoChunk THEN None ELSE Blob(e[2])>> : e \in edits}
Blobs(edits) == {Blob(e[2]) : e \in {x \in edits : x[2] # NoChunk}}

\* write_commit. The parent's address is represented by the parent's tree.
Publish(result, edits, extra) ==
    /\ root' = result[1]
    /\ edit' = edits
    /\ published' = result[2] \union Blobs(edits) \union extra
                      \union {Commit(result[1], root, Message)}

CommitSnapshot(w) ==
    LET edits == {<<c, w[c]>> : c \in Occupied(w)} IN
    /\ world' = w
    /\ Publish(OrEmpty(ApplyTreeChanges(None, Encoded(edits))), edits, {})

\* Seeded fault: the whole world is published again, from nothing.
CommitChangesFromNothing(change) ==
    LET edits == EditsOf(change)
        all == {<<c, Applied(world, change)[c]>> : c \in Occupied(Applied(world, change))}
    IN /\ world' = Applied(world, change)
       /\ Publish(OrEmpty(ApplyTreeChanges(None, Encoded(all))), edits, {})

\* On an unborn branch the empty tree is written first and is the base. No
\* change at all reuses the base as it is.
CommitChanges(change) ==
    LET edits == EditsOf(change)
        base == IF root = None THEN EmptyTree ELSE root
    IN /\ world' = Applied(world, change)
       /\ Publish(IF edits = {} THEN <<base, {}>>
                  ELSE OrEmpty(ApplyTreeChanges(base, Encoded(edits))),
                  edits, IF root = None THEN {EmptyTree} ELSE {})
----
(* Reading. *)

\* tree_entries: the nodes popped at each depth, as <<node, prefix>>.
Level(tree) ==
    LET level[d \in 0 .. TreeDepth] ==
            IF d = 0 THEN {<<tree, 0>>}
            ELSE UNION {{<<e[2], x[2] + e[1] * Power[TreeDepth - d]>>
                           : e \in IF IsBranch(x[1]) THEN x[1][2] ELSE {}}
                        : x \in level[d - 1]}
    IN level

Popped(tree) ==
    UNION {{<<d, x[1], x[2]>> : x \in Level(tree)[d]} : d \in 0 .. TreeDepth}

\* It bails on a node met twice, a node of the wrong kind for its depth, and
\* a leaf whose coordinate is not the path to it.
TreeEntries(tree) ==
    LET popped == Popped(tree)
        leaves == {x \in popped : x[1] = TreeDepth}
        entries == {<<x[2][2], x[2][3]>> : x \in leaves}
    IN IF /\ Cardinality({x[2] : x \in popped}) = Cardinality(popped)
          /\ \A x \in popped : IsBranch(x[2]) <=> x[1] < TreeDepth
          /\ \A x \in leaves : CoordKey(x[2][2]) = x[3]
          /\ Cardinality({e[1] : e \in entries}) = Cardinality(leaves)
         THEN entries
         ELSE {Bail}

Mentions(entries, c) == \E e \in entries : e[1] = c

\* Seeded fault: a chunk that was not there before counts as modified too.
ModifiedOrAdded(old, new) == {e \in new : e \notin old}

Modified(old, new) == {e \in new : Mentions(old, e[1]) /\ e \notin old}

\* Without a commit to start from, everything is added.
Diff(from, to) ==
    LET old == IF from = None THEN {} ELSE TreeEntries(from)
        new == TreeEntries(to)
    IN [added    |-> {e \in new : ~Mentions(old, e[1])},
        modified |-> Modified(old, new),
        removed  |-> {e \in old : ~Mentions(new, e[1])}]
----
Init == /\ root = None
        /\ world = EmptyWorld
        /\ edit = {}
        /\ published = {}

Next == \/ \E w \in Snapshots : CommitSnapshot(w)
        \/ \E change \in ChangeSets : CommitChanges(change)

Spec == Init /\ [][Next]_vars
----
(* Properties. *)

TypeOK == /\ root = None \/ IsBranch(root)
          /\ root = None <=> published = {}
          /\ world \in [Coords -> Payloads \union {NoChunk}]
          /\ edit \subseteq Coords \X (Payloads \union {NoChunk})
          /\ \A o \in published : o[1] \in {"blob", "leaf", "branch", "commit"}

\* What was committed is what is read: tree_entries accepts every tree that a
\* sequence of commits can produce, over signed coordinates, and finds exactly
\* the chunks of the world in it. The writer goes by nibbles of bytes, the
\* reader by a packed key.
ReadsBackTheWorld ==
    root # None =>
        TreeEntries(root) = {<<c, Blob(world[c])>> : c \in Occupied(world)}

\* A key's first nibbles, as a number, and its nibble at a depth.
Prefix(c, depth) == CoordKey(c) \div Power[TreeDepth - depth]
Digit(c, depth) == Prefix(c, depth + 1) % Nibbles

Below(w, c, depth) == {x \in Occupied(w) : Prefix(x, depth) = Prefix(c, depth)}

\* The tree a world must have: a branch for every proper prefix of an
\* occupied coordinate's key, and the empty branch for the empty world.
Subtree(w) ==
    LET node[d \in 0 .. TreeDepth] ==
            [c \in Coords |->
                IF d = TreeDepth THEN Leaf(c, Blob(w[c]))
                ELSE Branch({<<n, node[d + 1][CHOOSE x \in Below(w, c, d) : Digit(x, d) = n]>>
                               : n \in {Digit(x, d) : x \in Below(w, c, d)}})]
    IN node

CanonicalTree(w) ==
    IF Occupied(w) = {} THEN EmptyTree
    ELSE Subtree(w)[0][CHOOSE c \in Occupied(w) : TRUE]

\* The root address is a function of the world alone: whatever the order of
\* snapshots, updates and removals that led to it, an incremental update ends
\* with the very tree a snapshot gives, without a trace of what was removed.
RootIsCanonical == root # None => root = CanonicalTree(world)

\* The prefixes, root included, under which a coordinate is edited: P(E).
EditedPrefixes(edits) ==
    {<<d, Prefix(e[1], d)>> : e \in edits, d \in 0 .. TreeDepth - 1}

\* paper.md, theorem 1: a commit publishes at most |P(E)| branches, a leaf and
\* a blob per upsert, and one commit; beyond that only the empty tree, which
\* the first commit_changes of a branch writes and the theorem leaves out.
PublicationIsBounded ==
    [][LET of(kind) == {o \in published' : o[1] = kind}
           upserts == {e \in edit' : e[2] # NoChunk}
       IN /\ Cardinality(of("branch") \ {EmptyTree})
                <= Cardinality(EditedPrefixes(edit'))
          /\ Cardinality(of("leaf")) <= Cardinality(upserts)
          /\ Cardinality(of("blob")) <= Cardinality(upserts)
          /\ Cardinality(of("commit")) = 1]_vars

\* diff(from, to) tells the two worlds apart, chunk by chunk: every change is
\* listed once, under the right heading, and nothing else is.
DiffIsExact ==
    [][LET d == Diff(root, root')
           coords(S) == {e[1] : e \in S}
       IN /\ coords(d.added) = Occupied(world') \ Occupied(world)
          /\ coords(d.removed) = Occupied(world) \ Occupied(world')
          /\ coords(d.modified) = {c \in Occupied(world) \intersect Occupied(world')
                                     : world[c] # world'[c]}]_vars

\* Every object a commit publishes decodes to itself, and neither a truncated
\* copy of it nor one with anything after it decodes at all.
EncodingIsExact ==
    \A o \in published :
        LET s == ToBytes(o) IN
        /\ FromBytes(s) = o
        /\ \A n \in 0 .. Len(s) - 1 : FromBytes(SubSeq(s, 1, n)) = Bail
        /\ FromBytes(Append(s, 0)) = Bail
====
