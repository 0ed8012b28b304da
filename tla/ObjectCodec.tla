---- MODULE ObjectCodec ----
(* The canonical encoding of repository objects. A field of fixed width     *)
(* (magic, version, tag, count, nibble, coordinate, length, flag, hash) is  *)
(* one cell; payloads and messages are sequences of cells. A hash cell      *)
(* holds the object it addresses: a digest is injective. A commit's          *)
(* timestamp, one more fixed field before the message, is left out, and so   *)
(* is the UTF-8 check of the message.                                        *)
EXTENDS Naturals, Sequences, FiniteSets, SequencesExt

CONSTANTS MaxChildren   \* 16: what a branch can hold; nibbles are below it

None == <<"none">>      \* Option::None
Bail == <<"bail">>      \* an Err

Blob(payload) == <<"blob", payload>>
Leaf(coords, blob) == <<"leaf", coords, blob>>
Branch(children) == <<"branch", children>>   \* children: {<<nibble, node>>}
Commit(tree, parent, message) == <<"commit", tree, parent, message>>

Magic == "CHLG"
FormatVersion == 1
Header(tag) == <<Magic, FormatVersion, tag>>

\* A BTreeMap is written in key order.
InNibbleOrder(children) ==
    CHOOSE s \in SetToSeqs(children) :
        \A i, j \in DOMAIN s : i < j => s[i][1] < s[j][1]

ToBytes(o) ==
    CASE o[1] = "blob"   -> Header(1) \o <<Len(o[2])>> \o o[2]
      [] o[1] = "branch" ->
            LET kids == InNibbleOrder(o[2]) IN
            Header(2) \o <<Len(kids)>>
              \o [i \in 1 .. 2 * Len(kids) |->
                     kids[(i + 1) \div 2][IF i % 2 = 1 THEN 1 ELSE 2]]
      [] o[1] = "leaf"   -> Header(3) \o <<o[2][1], o[2][2], o[3]>>
      [] o[1] = "commit" ->
            Header(4) \o <<o[2]>>
              \o (IF o[3] = None THEN <<0>> ELSE <<1, o[3]>>)
              \o <<Len(o[4])>> \o o[4]

\* Seeded fault: what follows the payload is ignored.
FramedAtLeast(s) == Len(s) > 0 /\ s[1] <= Len(s) - 1

\* cursor.len, then take: what is left is the payload, no more and no less.
Framed(s) == Len(s) > 0 /\ s[1] = Len(s) - 1

DecodeBlob(s) == IF Framed(s) THEN Blob(Tail(s)) ELSE Bail

\* The order of the children is not checked, their number and range are.
DecodeBranch(s) ==
    LET count == s[1]
        children == {<<s[2 * i], s[2 * i + 1]>> : i \in 1 .. count}
    IN IF /\ Len(s) > 0
          /\ count <= MaxChildren
          /\ Len(s) = 1 + 2 * count
          /\ \A e \in children : e[1] < MaxChildren
          /\ Cardinality({e[1] : e \in children}) = count
         THEN Branch(children)
         ELSE Bail

DecodeLeaf(s) == IF Len(s) = 3 THEN Leaf(<<s[1], s[2]>>, s[3]) ELSE Bail

DecodeCommit(s) ==
    LET message(k) == SubSeq(s, k, Len(s)) IN
    IF Len(s) >= 2 /\ s[2] = 0 /\ Framed(message(3))
      THEN Commit(s[1], None, Tail(message(3)))
    ELSE IF Len(s) >= 3 /\ s[2] = 1 /\ Framed(message(4))
      THEN Commit(s[1], s[3], Tail(message(4)))
    ELSE Bail

FromBytes(s) ==
    LET body == SubSeq(s, 4, Len(s)) IN
    IF Len(s) < 3 \/ SubSeq(s, 1, 2) # <<Magic, FormatVersion>> THEN Bail
    ELSE CASE s[3] = 1 -> DecodeBlob(body)
           [] s[3] = 2 -> DecodeBranch(body)
           [] s[3] = 3 -> DecodeLeaf(body)
           [] s[3] = 4 -> DecodeCommit(body)
           [] OTHER    -> Bail
====
