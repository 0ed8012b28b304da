---- MODULE ObjectCodecProofs ----
(* The canonical encoding is exact: an object's bytes decode to the object, *)
(* and neither a part of them nor more than them decodes at all. For        *)
(* payloads, messages and branches of any size.                             *)
EXTENDS ObjectCodec, Integers, FiniteSetTheorems, SequenceTheorems, TLAPS

\* What is told by the bytes after the header.
Decode(tag, body) ==
    CASE tag = 1 -> DecodeBlob(body)
      [] tag = 2 -> DecodeBranch(body)
      [] tag = 3 -> DecodeLeaf(body)
      [] tag = 4 -> DecodeCommit(body)
      [] OTHER   -> Bail

\* s is an encoding of o and no other sequence that begins like it is one.
Exact(o, s) ==
    /\ FromBytes(s) = o
    /\ \A n \in 0 .. Len(s) - 1 : FromBytes(SubSeq(s, 1, n)) = Bail
    /\ FromBytes(Append(s, 0)) = Bail

ExactBody(o, tag, body) ==
    /\ Decode(tag, body) = o
    /\ \A n \in 0 .. Len(body) - 1 : Decode(tag, SubSeq(body, 1, n)) = Bail
    /\ Decode(tag, Append(body, 0)) = Bail

\* s is, cell by cell, a header and body.
Headed(s, tag, body) ==
    /\ Len(s) = 3 + Len(body) /\ Len(body) \in Nat
    /\ s[1] = Magic /\ s[2] = FormatVersion /\ s[3] = tag
    /\ \A i \in 1 .. Len(body) : s[3 + i] = body[i]

LEMMA HeaderIs ==
    ASSUME NEW tag, NEW T, NEW body \in Seq(T)
    PROVE  /\ Header(tag) \o body \in Seq(T \union {Magic, FormatVersion, tag})
           /\ Headed(Header(tag) \o body, tag, body)
<1> DEFINE H == Header(tag)
           U == T \union {Magic, FormatVersion, tag}
<1>1. H \in Seq(U) /\ Len(H) = 3 /\ H[1] = Magic /\ H[2] = FormatVersion /\ H[3] = tag
  BY DEF Header
<1>2. body \in Seq(U) /\ Len(body) \in Nat
  OBVIOUS
<1> HIDE DEF H, U
<1>3. /\ H \o body \in Seq(U) /\ Len(H \o body) = Len(H) + Len(body)
      /\ \A i \in 1 .. Len(H) + Len(body) :
            (H \o body)[i] = IF i <= Len(H) THEN H[i] ELSE body[i - Len(H)]
  BY <1>1, <1>2, ConcatProperties
<1> DEFINE s == H \o body
<1> HIDE DEF s
<1>4. \A i \in 1 .. Len(body) : s[3 + i] = body[i]
  <2>1. SUFFICES ASSUME NEW i \in 1 .. Len(body) PROVE s[3 + i] = body[i]
    OBVIOUS
  <2>2. 3 + i \in 1 .. Len(H) + Len(body) /\ ~(3 + i <= Len(H)) /\ (3 + i) - Len(H) = i
    BY <1>1, <1>2
  <2> QED
    BY <1>3, <2>2 DEF s
<1>5. s[1] = H[1] /\ s[2] = H[2] /\ s[3] = H[3]
  BY <1>1, <1>2, <1>3 DEF s
<1> QED
  BY <1>1, <1>2, <1>3, <1>4, <1>5 DEF H, U, s, Headed

\* Cell by cell, that is all there is to it.
LEMMA HeaderUnique ==
    ASSUME NEW tag, NEW T, NEW body \in Seq(T), NEW U, NEW s \in Seq(U), Headed(s, tag, body)
    PROVE  s = Header(tag) \o body
<1> DEFINE t == Header(tag) \o body
           V == U \union T \union {Magic, FormatVersion, tag}
<1>1. t \in Seq(T \union {Magic, FormatVersion, tag}) /\ Headed(t, tag, body)
  BY HeaderIs
<1>2. t \in Seq(V) /\ s \in Seq(V)
  BY <1>1, SeqMonotonic
<1> HIDE DEF t, V
<1> USE DEF Headed
<1>3. ASSUME NEW i \in 1 .. Len(s)
      PROVE  s[i] = t[i]
  <2>1. i = 1 \/ i = 2 \/ i = 3 \/ (i - 3 \in 1 .. Len(body) /\ i = 3 + (i - 3))
    BY <1>1
  <2> QED
    BY <1>1, <2>1
<1> QED
  BY <1>1, <1>2, <1>3, SeqEqual DEF t

LEMMA FromHeader ==
    ASSUME NEW tag, NEW T, NEW body \in Seq(T)
    PROVE  FromBytes(Header(tag) \o body) = Decode(tag, body)
<1> DEFINE s == Header(tag) \o body
           U == T \union {Magic, FormatVersion, tag}
           start == SubSeq(s, 1, 2)
           rest == SubSeq(s, 4, Len(s))
<1>0. s \in Seq(U) /\ Headed(s, tag, body)
  BY HeaderIs
<1>1. /\ s \in Seq(U) /\ Len(s) = 3 + Len(body) /\ Len(body) \in Nat
      /\ s[1] = Magic /\ s[2] = FormatVersion /\ s[3] = tag
      /\ \A i \in 1 .. Len(body) : s[3 + i] = body[i]
  BY <1>0 DEF Headed
<1> HIDE DEF s, U
<1>2. start = <<Magic, FormatVersion>>
  <2> DEFINE two == <<Magic, FormatVersion>>
             W == U \union {Magic, FormatVersion}
  <2>1. \A i \in 1 .. 2 : s[i] \in U
    BY <1>1
  <2>2. start \in Seq(U) /\ Len(start) = 2 /\ \A i \in 1 .. 2 : start[i] = s[i]
    BY <2>1, SubSeqProperties
  <2>3. start \in Seq(W)
    BY <2>2, SeqMonotonic
  <2>4. two \in Seq(W) /\ Len(two) = 2 /\ two[1] = Magic /\ two[2] = FormatVersion
    OBVIOUS
  <2> HIDE DEF start, two, W
  <2>5. \A i \in 1 .. 2 : start[i] = two[i]
    BY <1>1, <2>2, <2>4
  <2> QED
    BY <2>2, <2>3, <2>4, <2>5, SeqEqual DEF two
<1>3. rest = body
  <2>1. \A i \in 4 .. Len(s) : s[i] \in U
    BY <1>1
  <2>2. rest \in Seq(U) /\ Len(rest) = Len(body) /\ \A i \in 1 .. Len(body) : rest[i] = s[3 + i]
    BY <1>1, <2>1, SubSeqProperties
  <2>3. body \in Seq(U \union T) /\ rest \in Seq(U \union T)
    BY <2>2, SeqMonotonic
  <2> HIDE DEF rest
  <2> QED
    BY <1>1, <2>2, <2>3, SeqEqual
<1> HIDE DEF start, rest
<1>4. FromBytes(s) = IF Len(s) < 3 \/ start # <<Magic, FormatVersion>> THEN Bail
                     ELSE Decode(s[3], rest)
  BY DEF FromBytes, Decode, start, rest
<1>5. ~(Len(s) < 3)
  BY <1>1
<1> QED
  BY <1>1, <1>2, <1>3, <1>4, <1>5 DEF s

\* It is enough to look at what follows the header.
LEMMA ExactBodies ==
    ASSUME NEW o, NEW tag, NEW T, NEW body \in Seq(T), ExactBody(o, tag, body)
    PROVE  Exact(o, Header(tag) \o body)
<1> DEFINE s == Header(tag) \o body
           U == T \union {Magic, FormatVersion, tag}
<1>0. s \in Seq(U) /\ Headed(s, tag, body)
  BY HeaderIs
<1>1. /\ s \in Seq(U) /\ Len(s) = 3 + Len(body) /\ Len(body) \in Nat
      /\ s[1] = Magic /\ s[2] = FormatVersion /\ s[3] = tag
      /\ \A i \in 1 .. Len(body) : s[3 + i] = body[i]
  BY <1>0 DEF Headed
<1>2. FromBytes(s) = o
  BY FromHeader DEF ExactBody
<1>3. ASSUME NEW n \in 0 .. Len(s) - 1
      PROVE  FromBytes(SubSeq(s, 1, n)) = Bail
  <2> DEFINE cut == SubSeq(s, 1, n)
             part == SubSeq(body, 1, n - 3)
  <2> HIDE DEF s, U
  <2>0. n \in Int /\ n >= 0 /\ \A i \in 1 .. n : s[i] \in U
    BY <1>1
  <2>1. cut \in Seq(U) /\ Len(cut) = n /\ \A i \in 1 .. n : cut[i] = s[i]
    BY <2>0, SubSeqProperties
  <2>2. CASE n < 3
    <3>1. Len(cut) < 3
      BY <2>1, <2>2
    <3> QED
      BY <3>1 DEF FromBytes
  <2>3. CASE n >= 3
    <3>1. n - 3 \in 0 .. Len(body) - 1 /\ \A i \in 1 .. n - 3 : body[i] \in T /\ i \in 1 .. Len(body)
      BY <1>1, <2>3
    <3>2. part \in Seq(T) /\ Len(part) = n - 3 /\ \A i \in 1 .. n - 3 : part[i] = body[i]
      BY <3>1, SubSeqProperties
    <3>3. \A i \in 1 .. n - 3 : cut[3 + i] = part[i]
      <4>1. SUFFICES ASSUME NEW i \in 1 .. n - 3 PROVE cut[3 + i] = part[i]
        OBVIOUS
      <4>2. 3 + i \in 1 .. n
        BY <2>0
      <4> QED
        BY <1>1, <2>1, <3>1, <3>2, <4>2
    <3>4. cut[1] = Magic /\ cut[2] = FormatVersion /\ cut[3] = tag /\ Len(cut) = 3 + Len(part)
      BY <1>1, <2>1, <2>3, <3>2
    <3> HIDE DEF cut
    <3>5. cut = Header(tag) \o part
      <4>1. Headed(cut, tag, part)
        BY <1>1, <3>1, <3>2, <3>3, <3>4 DEF Headed
      <4> QED
        BY <2>1, <3>2, <4>1, HeaderUnique
    <3> QED
      BY <3>1, <3>2, <3>5, FromHeader DEF ExactBody, cut
  <2> QED
    BY <2>0, <2>2, <2>3
<1>4. FromBytes(Append(s, 0)) = Bail
  <2> DEFINE more == Append(s, 0)
             rest == Append(body, 0)
             W == U \union {0}
  <2> HIDE DEF s, U
  <2>1. s \in Seq(W) /\ body \in Seq(T \union {0})
    BY <1>1, SeqMonotonic
  <2>2. /\ rest \in Seq(T \union {0}) /\ Len(rest) = Len(body) + 1
        /\ \A i \in 1 .. Len(body) : rest[i] = body[i]
        /\ rest[Len(body) + 1] = 0
    BY <2>1, AppendProperties
  <2> HIDE DEF W
  <2>3. /\ more \in Seq(W) /\ Len(more) = Len(s) + 1
        /\ \A i \in 1 .. Len(s) : more[i] = s[i]
        /\ more[Len(s) + 1] = 0
    BY <2>1, AppendProperties DEF W
  <2> HIDE DEF more, rest
  <2>4. \A i \in 1 .. Len(rest) : more[3 + i] = rest[i]
    <3>1. SUFFICES ASSUME NEW i \in 1 .. Len(rest) PROVE more[3 + i] = rest[i]
      OBVIOUS
    <3>2. \/ i \in 1 .. Len(body) /\ 3 + i \in 1 .. Len(s)
          \/ i = Len(body) + 1 /\ 3 + i = Len(s) + 1
      BY <1>1, <2>2
    <3> QED
      BY <1>1, <2>2, <2>3, <3>2
  <2>5. /\ more[1] = Magic /\ more[2] = FormatVersion /\ more[3] = tag
        /\ Len(more) = 3 + Len(rest)
    BY <1>1, <2>2, <2>3
  <2>6. more = Header(tag) \o rest
    <3>1. Headed(more, tag, rest)
      BY <1>1, <2>2, <2>4, <2>5 DEF Headed
    <3> QED
      BY <2>2, <2>3, <3>1, HeaderUnique
  <2> QED
    BY <2>2, <2>6, FromHeader DEF ExactBody, more, rest
<1> QED
  BY <1>2, <1>3, <1>4 DEF Exact
----
(* Blobs: a length, and as many cells as it says.                           *)

LEMMA FrameIs ==
    ASSUME NEW T, NEW p \in Seq(T)
    PROVE  LET f == <<Len(p)>> \o p
           IN  /\ f \in Seq(T \union Nat) /\ Len(f) = 1 + Len(p) /\ Len(p) \in Nat
               /\ f[1] = Len(p) /\ \A i \in 1 .. Len(p) : f[1 + i] = p[i]
<1> DEFINE h == <<Len(p)>>
           U == T \union Nat
           f == h \o p
<1>1. h \in Seq(U) /\ Len(h) = 1 /\ h[1] = Len(p) /\ Len(p) \in Nat
  OBVIOUS
<1>2. p \in Seq(U)
  BY SeqMonotonic
<1> HIDE DEF h, U
<1>3. /\ f \in Seq(U) /\ Len(f) = 1 + Len(p)
      /\ \A i \in 1 .. 1 + Len(p) : f[i] = IF i <= 1 THEN h[i] ELSE p[i - 1]
  <2>1. /\ f \in Seq(U) /\ Len(f) = Len(h) + Len(p)
        /\ \A i \in 1 .. Len(h) + Len(p) : f[i] = IF i <= Len(h) THEN h[i] ELSE p[i - Len(h)]
    BY <1>1, <1>2, ConcatProperties
  <2> QED
    BY <1>1, <2>1
<1> HIDE DEF f
<1>4. ASSUME NEW i \in 1 .. Len(p)
      PROVE  f[1 + i] = p[i]
  <2>1. 1 + i \in 1 .. 1 + Len(p) /\ ~(1 + i <= 1) /\ (1 + i) - 1 = i
    BY <1>1
  <2> QED
    BY <1>3, <2>1
<1> QED
  BY <1>1, <1>3, <1>4 DEF h, U, f

Frame(p) == <<Len(p)>> \o p

\* A frame is accepted whole, and not with a cell less or more.
LEMMA FramesAreExact ==
    ASSUME NEW T, NEW p \in Seq(T)
    PROVE  /\ Frame(p) \in Seq(T \union Nat) /\ Len(Frame(p)) = 1 + Len(p) /\ Len(p) \in Nat
           /\ Framed(Frame(p)) /\ Tail(Frame(p)) = p
           /\ \A s : Len(s) \in Nat /\ Len(s) # Len(Frame(p)) /\ s[1] = Frame(p)[1] => ~Framed(s)
<1> DEFINE f == Frame(p)
<1>1. /\ f \in Seq(T \union Nat) /\ Len(f) = 1 + Len(p) /\ Len(p) \in Nat
      /\ f[1] = Len(p) /\ \A i \in 1 .. Len(p) : f[1 + i] = p[i]
  BY FrameIs DEF Frame
<1> HIDE DEF f
<1>2. Framed(f)
  BY <1>1 DEF Framed
<1>3. Tail(f) = p
  <2>1. f # <<>>
    BY <1>1
  <2>2. Tail(f) \in Seq(T \union Nat) /\ Len(Tail(f)) = Len(p)
        /\ \A i \in 1 .. Len(Tail(f)) : Tail(f)[i] = f[i + 1]
    BY <1>1, <2>1, HeadTailProperties
  <2>3. p \in Seq(T \union Nat)
    BY SeqMonotonic
  <2>4. \A i \in 1 .. Len(Tail(f)) : Tail(f)[i] = p[i]
    BY <1>1, <2>2
  <2> QED
    BY <2>2, <2>3, <2>4, SeqEqual
<1>4. \A s : Len(s) \in Nat /\ Len(s) # Len(f) /\ s[1] = f[1] => ~Framed(s)
  BY <1>1 DEF Framed
<1> QED
  BY <1>1, <1>2, <1>3, <1>4 DEF f

\* What is cut off or added leaves the other cells in their places.
LEMMA CutIs ==
    ASSUME NEW T, NEW s \in Seq(T), NEW n \in 0 .. Len(s) - 1
    PROVE  /\ SubSeq(s, 1, n) \in Seq(T) /\ Len(SubSeq(s, 1, n)) = n
           /\ n \in Nat /\ n < Len(s)
           /\ \A i \in 1 .. n : SubSeq(s, 1, n)[i] = s[i]
<1>1. n \in Nat /\ n < Len(s) /\ \A i \in 1 .. n : s[i] \in T
  OBVIOUS
<1> QED
  BY <1>1, SubSeqProperties

LEMMA MoreIs ==
    ASSUME NEW T, NEW s \in Seq(T)
    PROVE  /\ Append(s, 0) \in Seq(T \union {0}) /\ Len(Append(s, 0)) = Len(s) + 1
           /\ Len(s) \in Nat
           /\ \A i \in 1 .. Len(s) : Append(s, 0)[i] = s[i]
<1>1. s \in Seq(T \union {0})
  BY SeqMonotonic
<1> QED
  BY <1>1, AppendProperties, LenProperties

LEMMA BlobIsExact ==
    ASSUME NEW T, NEW p \in Seq(T)
    PROVE  Exact(Blob(p), ToBytes(Blob(p)))
<1> DEFINE f == Frame(p)
<1>1. /\ f \in Seq(T \union Nat) /\ Len(f) = 1 + Len(p) /\ Len(p) \in Nat
      /\ Framed(f) /\ Tail(f) = p
      /\ \A s : Len(s) \in Nat /\ Len(s) # Len(f) /\ s[1] = f[1] => ~Framed(s)
  BY FramesAreExact, Zenon
<1>2. Header(1) \o <<Len(p)>> \o p = Header(1) \o f
  <2>1. /\ Header(1) \in Seq(T \union Nat \union {Magic}) /\ <<Len(p)>> \in Seq(T \union Nat \union {Magic})
        /\ p \in Seq(T \union Nat \union {Magic})
    BY <1>1 DEF Header, FormatVersion
  <2> QED
    BY <2>1, ConcatAssociative DEF Frame
<1>3. ToBytes(Blob(p)) = Header(1) \o f
  BY <1>2 DEF ToBytes, Blob
<1> HIDE DEF f
<1>4. \A s : Decode(1, s) = DecodeBlob(s)
  BY DEF Decode
<1>5. Decode(1, f) = Blob(p)
  BY <1>1, <1>4 DEF DecodeBlob
<1>6. ASSUME NEW n \in 0 .. Len(f) - 1
      PROVE  Decode(1, SubSeq(f, 1, n)) = Bail
  <2> DEFINE cut == SubSeq(f, 1, n)
  <2>1. Len(cut) = n /\ n \in Nat /\ n < Len(f) /\ \A i \in 1 .. n : cut[i] = f[i]
    BY <1>1, CutIs
  <2> HIDE DEF cut
  <2>2. ~Framed(cut)
    <3>1. CASE n = 0
      BY <2>1, <3>1 DEF Framed
    <3>2. CASE n # 0
      BY <1>1, <2>1, <3>2
    <3> QED
      BY <3>1, <3>2
  <2> QED
    BY <1>4, <2>2 DEF DecodeBlob, cut
<1>7. Decode(1, Append(f, 0)) = Bail
  <2> DEFINE more == Append(f, 0)
  <2>1. Len(more) = Len(f) + 1 /\ Len(f) \in Nat /\ \A i \in 1 .. Len(f) : more[i] = f[i]
    BY <1>1, MoreIs
  <2> HIDE DEF more
  <2>2. ~Framed(more)
    BY <1>1, <2>1
  <2> QED
    BY <1>4, <2>2 DEF DecodeBlob, more
<1> QED
  BY <1>1, <1>3, <1>5, <1>6, <1>7, ExactBodies DEF ExactBody

(* Leaves: three cells.                                                     *)

LEMMA LeafIsExact ==
    ASSUME NEW x, NEW z, NEW blob
    PROVE  Exact(Leaf(<<x, z>>, blob), ToBytes(Leaf(<<x, z>>, blob)))
<1> DEFINE T == {x, z, blob}
           body == <<x, z, blob>>
           o == Leaf(<<x, z>>, blob)
<1>1. body \in Seq(T) /\ Len(body) = 3 /\ body[1] = x /\ body[2] = z /\ body[3] = blob
  OBVIOUS
<1>2. ToBytes(o) = Header(3) \o body
  BY DEF ToBytes, Leaf
<1> HIDE DEF T, body
<1>3. \A s : Decode(3, s) = DecodeLeaf(s)
  BY DEF Decode
<1>4. Decode(3, body) = o
  BY <1>1, <1>3 DEF DecodeLeaf
<1>5. ASSUME NEW n \in 0 .. Len(body) - 1
      PROVE  Decode(3, SubSeq(body, 1, n)) = Bail
  <2>1. Len(SubSeq(body, 1, n)) = n /\ n # 3
    BY <1>1, CutIs
  <2> QED
    BY <1>3, <2>1 DEF DecodeLeaf
<1>6. Decode(3, Append(body, 0)) = Bail
  <2> DEFINE more == Append(body, 0)
  <2>1. Len(more) = Len(body) + 1
    BY <1>1, MoreIs
  <2> HIDE DEF more
  <2>2. Len(more) # 3
    BY <1>1, <2>1
  <2> QED
    BY <1>3, <2>2 DEF DecodeLeaf, more
<1> HIDE DEF o
<1> QED
  BY <1>1, <1>2, <1>4, <1>5, <1>6, ExactBodies DEF ExactBody, o
(* Commits: two or three cells, and the message in a frame.                 *)

LEMMA RestIs ==
    ASSUME NEW T, NEW s \in Seq(T), NEW k \in Nat, k <= Len(s)
    PROVE  /\ SubSeq(s, k + 1, Len(s)) \in Seq(T)
           /\ Len(SubSeq(s, k + 1, Len(s))) = Len(s) - k
           /\ \A i \in 1 .. Len(s) - k : SubSeq(s, k + 1, Len(s))[i] = s[k + i]
<1> DEFINE rest == SubSeq(s, k + 1, Len(s))
<1>1. Len(s) \in Nat /\ \A i \in k + 1 .. Len(s) : s[i] \in T
  OBVIOUS
<1>2. /\ rest \in Seq(T)
      /\ Len(rest) = IF k + 1 <= Len(s) THEN Len(s) - (k + 1) + 1 ELSE 0
      /\ \A i \in 1 .. Len(s) - (k + 1) + 1 : rest[i] = s[(k + 1) + i - 1]
  BY <1>1, SubSeqProperties
<1> HIDE DEF rest
<1>3. Len(rest) = Len(s) - k
  BY <1>1, <1>2
<1>4. ASSUME NEW i \in 1 .. Len(s) - k
      PROVE  rest[i] = s[k + i]
  <2>1. i \in 1 .. Len(s) - (k + 1) + 1 /\ (k + 1) + i - 1 = k + i
    BY <1>1
  <2> QED
    BY <1>2, <2>1
<1> QED
  BY <1>2, <1>3, <1>4 DEF rest

\* A body is front and a frame.
Ends(body, front, frame) ==
    /\ Len(body) \in Nat /\ Len(front) \in Nat /\ Len(front) < Len(body)
    /\ \A i \in 1 .. Len(front) : body[i] = front[i]
    /\ SubSeq(body, Len(front) + 1, Len(body)) = frame

LEMMA FrameAtEnd ==
    ASSUME NEW F, NEW front \in Seq(F), NEW T, NEW p \in Seq(T)
    PROVE  /\ front \o Frame(p) \in Seq(F \union (T \union Nat))
           /\ Ends(front \o Frame(p), front, Frame(p))
<1> DEFINE body == front \o Frame(p)
           k == Len(front)
           f == Frame(p)
           V == T \union Nat
           U == F \union V
           rest == SubSeq(body, k + 1, Len(body))
<1>1. f \in Seq(V) /\ Len(f) = 1 + Len(p) /\ Len(p) \in Nat
  BY FramesAreExact
<1>2. front \in Seq(U) /\ f \in Seq(U)
  <2> HIDE DEF f, V
  <2> QED
    BY <1>1, SeqMonotonic
<1>3. k \in Nat
  BY LenProperties
<1> HIDE DEF k, f, U
<1>4. /\ body \in Seq(U) /\ Len(body) = k + Len(f)
      /\ \A i \in 1 .. k + Len(f) : body[i] = IF i <= k THEN front[i] ELSE f[i - k]
  BY <1>2, ConcatProperties DEF f, k
<1> HIDE DEF body
<1>5. Len(body) \in Nat /\ k < Len(body) /\ k <= Len(body) /\ Len(f) = Len(body) - k
  BY <1>1, <1>3, <1>4
<1>6. \A i \in 1 .. k : body[i] = front[i]
  BY <1>1, <1>3, <1>4
<1>7. rest = f
  <2>1. rest \in Seq(U) /\ Len(rest) = Len(body) - k
        /\ \A i \in 1 .. Len(body) - k : rest[i] = body[k + i]
    BY <1>3, <1>4, <1>5, RestIs
  <2> HIDE DEF rest
  <2>2. ASSUME NEW i \in 1 .. Len(rest)
        PROVE  rest[i] = f[i]
    <3>1. k + i \in 1 .. k + Len(f) /\ ~(k + i <= k) /\ (k + i) - k = i
      BY <1>3, <1>5, <2>1
    <3> QED
      BY <1>4, <2>1, <3>1
  <2> QED
    BY <1>2, <1>5, <2>1, <2>2, SeqEqual
<1> QED
  BY <1>3, <1>4, <1>5, <1>6, <1>7 DEF Ends, body, k, f, U, rest

\* Nothing else that begins in the same way ends in a frame.
LEMMA FrameAtEndOnly ==
    ASSUME NEW F, NEW front \in Seq(F), NEW T, NEW p \in Seq(T),
           NEW U, NEW s \in Seq(U), Len(front) <= Len(s),
           Len(s) # Len(front \o Frame(p)),
           \A i \in 1 .. Len(s) : i <= Len(front \o Frame(p)) => s[i] = (front \o Frame(p))[i]
    PROVE  ~Framed(SubSeq(s, Len(front) + 1, Len(s)))
<1> DEFINE body == front \o Frame(p)
           k == Len(front)
           V == F \union (T \union Nat)
           f == Frame(p)
           rest == SubSeq(s, k + 1, Len(s))
<1>0. body \in Seq(V) /\ Ends(body, front, f)
  BY FrameAtEnd
<1>1. /\ body \in Seq(V) /\ Len(body) \in Nat /\ k \in Nat /\ k < Len(body)
      /\ SubSeq(body, k + 1, Len(body)) = f
  <2> HIDE DEF body, f
  <2> QED
    BY <1>0 DEF Ends
<1>2. k <= Len(s) /\ Len(s) # Len(body) /\ Len(s) \in Nat
      /\ \A i \in 1 .. Len(s) : i <= Len(body) => s[i] = body[i]
  OBVIOUS
<1>3. \A t : Len(t) \in Nat /\ Len(t) # Len(f) /\ t[1] = f[1] => ~Framed(t)
  BY FramesAreExact
<1> HIDE DEF body, k, V, f
<1>4. Len(f) = Len(body) - k /\ f[1] = body[k + 1]
  <2>1. \A i \in 1 .. Len(body) - k : f[i] = body[k + i]
    BY <1>1, RestIs
  <2>2. 1 \in 1 .. Len(body) - k
    BY <1>1
  <2>3. Len(f) = Len(body) - k
    BY <1>1, RestIs
  <2> QED
    BY <2>1, <2>2, <2>3
<1>5. Len(rest) = Len(s) - k /\ \A i \in 1 .. Len(s) - k : rest[i] = s[k + i]
  BY <1>1, <1>2, RestIs
<1> HIDE DEF rest
<1>6. CASE Len(s) = k
  BY <1>1, <1>5, <1>6 DEF Framed, rest, k
<1>7. CASE Len(s) # k
  <2>1. 1 \in 1 .. Len(s) - k /\ k + 1 \in 1 .. Len(s) /\ k + 1 <= Len(body)
    BY <1>1, <1>2, <1>7
  <2>2. rest[1] = f[1]
    BY <1>2, <1>4, <1>5, <2>1
  <2>3. Len(rest) \in Nat /\ Len(rest) # Len(f)
    BY <1>1, <1>2, <1>4, <1>5
  <2> QED
    BY <1>3, <2>2, <2>3 DEF rest, k
<1> QED
  BY <1>6, <1>7

LEMMA Joined ==
    /\ \A a, b : <<a>> \o <<b>> = <<a, b>>
    /\ \A a, b, c : <<a>> \o <<b, c>> = <<a, b, c>>
<1>1. ASSUME NEW a, NEW b
      PROVE  <<a>> \o <<b>> = <<a, b>>
  <2> DEFINE s == <<a>>
             t == <<b>>
             u == <<a, b>>
             S == {a, b}
  <2>1. /\ s \in Seq(S) /\ Len(s) = 1 /\ s[1] = a
        /\ t \in Seq(S) /\ Len(t) = 1 /\ t[1] = b
        /\ u \in Seq(S) /\ Len(u) = 2 /\ u[1] = a /\ u[2] = b
    OBVIOUS
  <2> HIDE DEF s, t, u, S
  <2>2. /\ s \o t \in Seq(S) /\ Len(s \o t) = Len(s) + Len(t)
        /\ \A i \in 1 .. Len(s) + Len(t) : (s \o t)[i] = IF i <= Len(s) THEN s[i] ELSE t[i - Len(s)]
    BY <2>1, ConcatProperties
  <2> DEFINE v == s \o t
  <2> HIDE DEF v
  <2>3. Len(v) = Len(u) /\ \A i \in 1 .. Len(v) : v[i] = u[i]
    BY <2>1, <2>2 DEF v
  <2>4. v = u
    BY <2>1, <2>2, <2>3, SeqEqual DEF v
  <2> QED
    BY <2>4 DEF v, s, t, u
<1>2. ASSUME NEW a, NEW b, NEW c
      PROVE  <<a>> \o <<b, c>> = <<a, b, c>>
  <2> DEFINE s == <<a>>
             t == <<b, c>>
             u == <<a, b, c>>
             S == {a, b, c}
  <2>1. /\ s \in Seq(S) /\ Len(s) = 1 /\ s[1] = a
        /\ t \in Seq(S) /\ Len(t) = 2 /\ t[1] = b /\ t[2] = c
        /\ u \in Seq(S) /\ Len(u) = 3 /\ u[1] = a /\ u[2] = b /\ u[3] = c
    OBVIOUS
  <2> HIDE DEF s, t, u, S
  <2>2. /\ s \o t \in Seq(S) /\ Len(s \o t) = Len(s) + Len(t)
        /\ \A i \in 1 .. Len(s) + Len(t) : (s \o t)[i] = IF i <= Len(s) THEN s[i] ELSE t[i - Len(s)]
    BY <2>1, ConcatProperties
  <2> DEFINE v == s \o t
  <2> HIDE DEF v
  <2>3. Len(v) = Len(u) /\ \A i \in 1 .. Len(v) : v[i] = u[i]
    BY <2>1, <2>2 DEF v
  <2>4. v = u
    BY <2>1, <2>2, <2>3, SeqEqual DEF v
  <2> QED
    BY <2>4 DEF v, s, t, u
<1> QED
  BY <1>1, <1>2

LEMMA CommitBytes ==
    ASSUME NEW tree, NEW parent, NEW T, NEW m \in Seq(T)
    PROVE  ToBytes(Commit(tree, parent, m)) =
              Header(4) \o ((IF parent = None THEN <<tree, 0>> ELSE <<tree, 1, parent>>) \o Frame(m))
<1> DEFINE mid == IF parent = None THEN <<0>> ELSE <<1, parent>>
           front == IF parent = None THEN <<tree, 0>> ELSE <<tree, 1, parent>>
           n == <<Len(m)>>
           h == Header(4)
           U == T \union Nat \union {Magic, FormatVersion, tree, parent}
<1>1. h \in Seq(U) /\ <<tree>> \in Seq(U) /\ n \in Seq(U) /\ m \in Seq(U)
  BY SeqMonotonic DEF Header
<1>2. mid \in Seq(U) /\ <<tree>> \o mid = front
  <2>1. 0 \in U /\ 1 \in U /\ tree \in U /\ parent \in U
    OBVIOUS
  <2> HIDE DEF U
  <2>2. CASE parent = None
    <3>1. mid = <<0>> /\ <<0>> \in Seq(U)
      BY <2>1, <2>2
    <3>2. <<tree>> \o <<0>> = <<tree, 0>>
      BY Joined
    <3> QED
      BY <2>2, <3>1, <3>2
  <2>3. CASE parent # None
    <3>1. mid = <<1, parent>> /\ <<1, parent>> \in Seq(U)
      BY <2>1, <2>3
    <3>2. <<tree>> \o <<1, parent>> = <<tree, 1, parent>>
      BY Joined
    <3> QED
      BY <2>3, <3>1, <3>2
  <2> QED
    BY <2>2, <2>3
<1>3. ToBytes(Commit(tree, parent, m)) = (((h \o <<tree>>) \o mid) \o n) \o m
  BY DEF ToBytes, Commit
<1> DEFINE l == <<tree>>
<1> HIDE DEF mid, n, h, U, l
<1>4. l \in Seq(U) /\ l \o mid = front
  BY <1>1, <1>2 DEF l
<1> HIDE DEF front
<1>5. front \in Seq(U)
  BY <1>2, <1>4, ConcatProperties
<1>6. (h \o l) \o mid = h \o front
  <2>0. h \in Seq(U) /\ l \in Seq(U) /\ mid \in Seq(U)
    BY <1>1, <1>2, <1>4
  <2>1. (h \o l) \o mid = h \o (l \o mid)
    BY <2>0, ConcatAssociative, SMTT(30)
  <2> QED
    BY <1>4, <2>1
<1>7. h \o front \in Seq(U) /\ n \o m \in Seq(U)
  BY <1>1, <1>5, ConcatProperties
<1> DEFINE hf == h \o front
           nm == n \o m
<1> HIDE DEF hf, nm
<1>8. hf \in Seq(U) /\ n \in Seq(U) /\ m \in Seq(U)
  BY <1>1, <1>7 DEF hf
<1>9. (hf \o n) \o m = hf \o (n \o m)
  BY <1>8, ConcatAssociative, SMTT(30)
<1>10. h \in Seq(U) /\ front \in Seq(U) /\ nm \in Seq(U)
  BY <1>1, <1>5, <1>7 DEF nm
<1>11. (h \o front) \o nm = h \o (front \o nm)
  BY <1>10, ConcatAssociative, SMTT(30)
<1> USE DEF hf, nm
<1> QED
  BY <1>3, <1>6, <1>9, <1>11 DEF Frame, n, h, front, l

LEMMA CommitIsExact ==
    ASSUME NEW tree, NEW parent, NEW T, NEW m \in Seq(T)
    PROVE  Exact(Commit(tree, parent, m), ToBytes(Commit(tree, parent, m)))
<1> DEFINE front == IF parent = None THEN <<tree, 0>> ELSE <<tree, 1, parent>>
           F == {tree, parent, 0, 1}
           U == F \union (T \union Nat)
           body == front \o Frame(m)
           k == Len(front)
           o == Commit(tree, parent, m)
<1>1. /\ front \in Seq(F) /\ k \in {2, 3}
      /\ parent = None => k = 2 /\ front[1] = tree /\ front[2] = 0
      /\ parent # None => k = 3 /\ front[1] = tree /\ front[2] = 1 /\ front[3] = parent
  <2>1. CASE parent = None
    BY <2>1
  <2>2. CASE parent # None
    BY <2>2
  <2> QED
    BY <2>1, <2>2
<1> HIDE DEF front, F
<1>0. body \in Seq(U) /\ Ends(body, front, Frame(m))
  BY <1>1, FrameAtEnd
<1>2. /\ body \in Seq(U) /\ Len(body) \in Nat /\ k < Len(body)
      /\ \A i \in 1 .. k : body[i] = front[i]
      /\ SubSeq(body, k + 1, Len(body)) = Frame(m)
  <2> HIDE DEF body, U
  <2> QED
    BY <1>0 DEF Ends
<1>3. Framed(Frame(m)) /\ Tail(Frame(m)) = m
  BY FramesAreExact
<1>4. \A s : Decode(4, s) = DecodeCommit(s)
  BY DEF Decode
<1>5. ToBytes(o) = Header(4) \o body
  BY CommitBytes DEF front
\* Decoding depends on the cells in front.
<1>6. ASSUME NEW W, NEW s \in Seq(W), Len(s) # Len(body),
             \A i \in 1 .. Len(s) : i <= Len(body) => s[i] = body[i]
      PROVE  Decode(4, s) = Bail
  <2>0. Len(s) \in Nat
    OBVIOUS
  <2>1. k <= Len(s) => ~Framed(SubSeq(s, k + 1, Len(s)))
    BY <1>1, <1>6, FrameAtEndOnly
  <2>2. \A i \in 1 .. k : i <= Len(s) => s[i] = front[i]
    <3>1. SUFFICES ASSUME NEW i \in 1 .. k, i <= Len(s) PROVE s[i] = front[i]
      OBVIOUS
    <3>2. i \in 1 .. Len(s) /\ i <= Len(body)
      BY <1>1, <1>2, <2>0, <3>1
    <3> QED
      BY <1>2, <1>6, <3>2
  <2> HIDE DEF body
  <2>3. CASE parent = None
    <3>1. k = 2 /\ front[2] = 0
      BY <1>1, <2>3
    <3>2. Len(s) >= 2 => s[2] = 0
      BY <2>0, <2>2, <3>1
    <3>3. Len(s) >= 2 => ~Framed(SubSeq(s, 3, Len(s)))
      BY <2>0, <2>1, <3>1
    <3> QED
      BY <1>4, <2>0, <3>2, <3>3 DEF DecodeCommit
  <2>4. CASE parent # None
    <3>1. k = 3 /\ front[2] = 1
      BY <1>1, <2>4
    <3>2. Len(s) >= 2 => s[2] = 1
      BY <2>0, <2>2, <3>1
    <3>3. Len(s) >= 3 => ~Framed(SubSeq(s, 4, Len(s)))
      BY <2>0, <2>1, <3>1
    <3> QED
      BY <1>4, <2>0, <3>2, <3>3 DEF DecodeCommit
  <2> QED
    BY <2>3, <2>4
<1>7. Decode(4, body) = o
  <2> HIDE DEF body
  <2>1. CASE parent = None
    <3>1. k = 2 /\ body[1] = tree /\ body[2] = 0 /\ Len(body) >= 2
      <4>1. k = 2 /\ front[1] = tree /\ front[2] = 0
        BY <1>1, <2>1
      <4> HIDE DEF k
      <4> QED
        BY <1>2, <4>1
    <3>2. SubSeq(body, 3, Len(body)) = Frame(m)
      BY <1>2, <3>1
    <3> QED
      BY <1>3, <1>4, <2>1, <3>1, <3>2 DEF DecodeCommit
  <2>2. CASE parent # None
    <3>1. k = 3 /\ body[1] = tree /\ body[2] = 1 /\ body[3] = parent /\ Len(body) >= 3
      <4>1. k = 3 /\ front[1] = tree /\ front[2] = 1 /\ front[3] = parent
        BY <1>1, <2>2
      <4> HIDE DEF k
      <4> QED
        BY <1>2, <4>1
    <3>2. SubSeq(body, 4, Len(body)) = Frame(m)
      BY <1>2, <3>1
    <3>3. Decode(4, body) = Commit(body[1], body[3], Tail(SubSeq(body, 4, Len(body))))
      <4>1. ~(body[2] = 0)
        BY <3>1
      <4>2. Framed(SubSeq(body, 4, Len(body)))
        BY <1>3, <3>2, Zenon
      <4> QED
        BY <1>4, <3>1, <4>1, <4>2 DEF DecodeCommit
    <3> QED
      BY <1>3, <3>1, <3>2, <3>3
  <2> QED
    BY <2>1, <2>2
<1>8. ASSUME NEW n \in 0 .. Len(body) - 1
      PROVE  Decode(4, SubSeq(body, 1, n)) = Bail
  <2> DEFINE cut == SubSeq(body, 1, n)
  <2>1. cut \in Seq(U) /\ Len(cut) = n /\ n < Len(body) /\ n \in Nat /\ \A i \in 1 .. n : cut[i] = body[i]
    <3> HIDE DEF body, U
    <3> QED
      BY <1>2, CutIs
  <2> HIDE DEF cut
  <2>2. Len(cut) # Len(body) /\ \A i \in 1 .. Len(cut) : i <= Len(body) => cut[i] = body[i]
    BY <2>1
  <2> QED
    BY <1>6, <2>1, <2>2 DEF cut
<1>9. Decode(4, Append(body, 0)) = Bail
  <2> DEFINE more == Append(body, 0)
  <2>1. more \in Seq(U \union {0}) /\ Len(more) = Len(body) + 1 /\ \A i \in 1 .. Len(body) : more[i] = body[i]
    <3> HIDE DEF body, U
    <3> QED
      BY <1>2, MoreIs
  <2> HIDE DEF more
  <2>2. Len(more) # Len(body) /\ \A i \in 1 .. Len(more) : i <= Len(body) => more[i] = body[i]
    BY <1>2, <2>1
  <2> QED
    BY <1>6, <2>1, <2>2 DEF more
<1> HIDE DEF body, o, U
<1> QED
  BY <1>2, <1>5, <1>7, <1>8, <1>9, ExactBodies DEF ExactBody, o
----
(* Branches: a count, and as many pairs of a nibble and a node.             *)

\* Children as a map writes them: finitely many, one at a nibble.
IsMap(K) ==
    /\ IsFiniteSet(K)
    /\ \A e \in K : e = <<e[1], e[2]>> /\ e[1] \in 0 .. MaxChildren - 1
    /\ \A e, f \in K : e[1] = f[1] => e = f

\* How many come before.
Before(K, e) == {f \in K : f[1] < e[1]}
Rank(K, e) == Cardinality(Before(K, e))

LEMMA RankIs ==
    ASSUME MaxChildren \in Nat, NEW K, IsMap(K), NEW e \in K
    PROVE  /\ Cardinality(K) \in Nat /\ Rank(K, e) \in 0 .. Cardinality(K) - 1
           /\ \A f \in K : f[1] <= e[1] => Rank(K, f) <= Rank(K, e)
           /\ \A f \in K : f[1] < e[1] => Rank(K, f) < Rank(K, e)
<1>1. IsFiniteSet(K) /\ Cardinality(K) \in Nat /\ \A f \in K : f[1] \in Nat
  BY FS_CardinalityType DEF IsMap
<1>2. \A f \in K : /\ Before(K, f) \in SUBSET K /\ f \notin Before(K, f)
  BY <1>1 DEF Before
<1>3. ASSUME NEW S \in SUBSET K, NEW T \in SUBSET S
      PROVE  /\ IsFiniteSet(S) /\ Cardinality(S) \in Nat /\ Cardinality(T) \in Nat
             /\ Cardinality(T) <= Cardinality(S)
             /\ T # S => Cardinality(T) < Cardinality(S)
  <2>1. IsFiniteSet(S)
    BY <1>1, FS_Subset
  <2>2. IsFiniteSet(T) /\ Cardinality(T) <= Cardinality(S) /\ (Cardinality(S) = Cardinality(T) => S = T)
    BY <2>1, FS_Subset
  <2>3. Cardinality(S) \in Nat /\ Cardinality(T) \in Nat
    BY <2>1, <2>2, FS_CardinalityType
  <2> QED
    BY <2>1, <2>2, <2>3
<1>4. Rank(K, e) \in 0 .. Cardinality(K) - 1
  <2>1. Before(K, e) \in SUBSET K /\ Before(K, e) # K
    BY <1>2
  <2>2. Cardinality(Before(K, e)) \in Nat /\ Cardinality(Before(K, e)) < Cardinality(K)
    BY <1>3, <2>1
  <2> QED
    BY <1>1, <2>2 DEF Rank
<1>5. ASSUME NEW f \in K, f[1] <= e[1]
      PROVE  Rank(K, f) <= Rank(K, e)
  <2>1. Before(K, f) \in SUBSET Before(K, e)
    BY <1>1, <1>5 DEF Before
  <2> QED
    BY <1>2, <1>3, <2>1 DEF Rank
<1>6. ASSUME NEW f \in K, f[1] < e[1]
      PROVE  Rank(K, f) < Rank(K, e)
  <2>1. Before(K, f) \in SUBSET Before(K, e) /\ f \in Before(K, e)
    BY <1>1, <1>6 DEF Before
  <2> QED
    BY <1>2, <1>3, <2>1 DEF Rank
<1> QED
  BY <1>1, <1>4, <1>5, <1>6

\* The child at a place of the order.
At(K, i) == CHOOSE e \in K : Rank(K, e) = i - 1

LEMMA AtIs ==
    ASSUME MaxChildren \in Nat, NEW K, IsMap(K)
    PROVE  /\ \A i \in 1 .. Cardinality(K) : At(K, i) \in K /\ Rank(K, At(K, i)) = i - 1
           /\ \A e \in K : /\ Rank(K, e) + 1 \in 1 .. Cardinality(K)
                           /\ At(K, Rank(K, e) + 1) = e
           /\ \A i, j \in 1 .. Cardinality(K) : i < j => At(K, i)[1] < At(K, j)[1]
<1> DEFINE n == Cardinality(K)
           r == [e \in K |-> Rank(K, e) + 1]
<1>1. n \in Nat /\ IsFiniteSet(K) /\ \A e \in K : e[1] \in Nat
  BY FS_CardinalityType DEF IsMap
<1> HIDE DEF n
<1>2. \A e \in K : Rank(K, e) \in 0 .. n - 1
  BY RankIs DEF n
<1>3. \A e, f \in K : Rank(K, e) = Rank(K, f) => e = f
  <2>1. SUFFICES ASSUME NEW e \in K, NEW f \in K, Rank(K, e) = Rank(K, f), e # f
                 PROVE  FALSE
    OBVIOUS
  <2>2. e[1] < f[1] \/ f[1] < e[1]
    <3>1. e[1] # f[1]
      BY <2>1 DEF IsMap
    <3> QED
      BY <1>1, <3>1
  <2>3. Rank(K, e) < Rank(K, f) \/ Rank(K, f) < Rank(K, e)
    BY <2>2, RankIs
  <2> QED
    BY <1>2, <2>1, <2>3
<1>4. r \in Injection(K, 1 .. n)
  <2>1. r \in [K -> 1 .. n]
    BY <1>1, <1>2
  <2>2. \A e, f \in K : r[e] = r[f] => e = f
    BY <1>2, <1>3
  <2> HIDE DEF r
  <2> QED
    BY <2>1, <2>2 DEF Injection, IsInjective
<1>5. r \in Surjection(K, 1 .. n)
  <2>1. IsFiniteSet(1 .. n) /\ Cardinality(1 .. n) = n
    BY <1>1, FS_Interval
  <2> HIDE DEF r
  <2> QED
    BY <1>4, <2>1, FS_Injection DEF n
<1>6. ASSUME NEW i \in 1 .. n
      PROVE  At(K, i) \in K /\ Rank(K, At(K, i)) = i - 1
  <2>1. PICK e \in K : r[e] = i
    BY <1>5 DEF Surjection
  <2>2. Rank(K, e) = i - 1
    BY <1>2, <2>1
  <2> QED
    BY <2>2 DEF At
<1>7. ASSUME NEW e \in K
      PROVE  Rank(K, e) + 1 \in 1 .. n /\ At(K, Rank(K, e) + 1) = e
  <2>1. Rank(K, e) + 1 \in 1 .. n /\ (Rank(K, e) + 1) - 1 = Rank(K, e)
    BY <1>1, <1>2
  <2> QED
    BY <1>3, <1>6, <2>1
<1>8. ASSUME NEW i \in 1 .. n, NEW j \in 1 .. n, i < j
      PROVE  At(K, i)[1] < At(K, j)[1]
  <2>1. ~(At(K, j)[1] <= At(K, i)[1])
    <3>1. SUFFICES ASSUME At(K, j)[1] <= At(K, i)[1] PROVE FALSE
      OBVIOUS
    <3>2. Rank(K, At(K, j)) <= Rank(K, At(K, i))
      BY <1>6, <3>1, RankIs
    <3> QED
      BY <1>6, <1>8, <3>2
  <2> QED
    BY <1>1, <1>6, <2>1
<1> QED
  BY <1>6, <1>7, <1>8 DEF n

\* In nibble order every child is listed, once.
LEMMA OrderIs ==
    ASSUME MaxChildren \in Nat, NEW K, IsMap(K)
    PROVE  /\ InNibbleOrder(K) \in Seq(K) /\ Len(InNibbleOrder(K)) = Cardinality(K)
           /\ Cardinality(K) \in Nat
           /\ \A e \in K : \E i \in 1 .. Cardinality(K) : InNibbleOrder(K)[i] = e
<1> DEFINE n == Cardinality(K)
           kids == InNibbleOrder(K)
           Sorted(s) == \A i, j \in DOMAIN s : i < j => s[i][1] < s[j][1]
           sorted == [i \in 1 .. n |-> At(K, i)]
<1>1. n \in Nat /\ IsFiniteSet(K) /\ \A e \in K : e[1] \in Nat
  BY FS_CardinalityType DEF IsMap
<1> HIDE DEF n
<1>2. /\ \A i \in 1 .. n : At(K, i) \in K
      /\ \A i, j \in 1 .. n : i < j => At(K, i)[1] < At(K, j)[1]
  BY AtIs DEF n
<1>3. sorted \in SetToSeqs(K) /\ Sorted(sorted)
  <2>1. sorted \in [1 .. n -> K] /\ Sorted(sorted)
    BY <1>2
  <2>2. ASSUME NEW i \in 1 .. n, NEW j \in 1 .. n, i # j
        PROVE  sorted[i] # sorted[j]
    <3>1. i < j \/ j < i
      BY <1>1, <2>2
    <3>2. sorted[i][1] < sorted[j][1] \/ sorted[j][1] < sorted[i][1]
      BY <1>2, <3>1
    <3>3. sorted[i][1] \in Nat /\ sorted[j][1] \in Nat
      BY <1>1, <1>2
    <3> HIDE DEF sorted
    <3> QED
      BY <3>2, <3>3
  <2> HIDE DEF sorted, Sorted
  <2> QED
    BY <2>1, <2>2 DEF SetToSeqs, n
<1>4. kids \in SetToSeqs(K)
  <2>1. kids = CHOOSE s \in SetToSeqs(K) : Sorted(s)
    BY DEF InNibbleOrder
  <2> HIDE DEF Sorted, sorted, kids
  <2> QED
    BY <1>3, <2>1
<1> HIDE DEF kids
<1>5. kids \in [1 .. n -> K] /\ \A i, j \in 1 .. n : i # j => kids[i] # kids[j]
  BY <1>4 DEF SetToSeqs, n
<1>6. kids \in Seq(K) /\ Len(kids) = n
  BY <1>1, <1>5
<1>7. \A e \in K : \E i \in 1 .. n : kids[i] = e
  <2>1. kids \in Injection(1 .. n, K)
    BY <1>5 DEF Injection, IsInjective
  <2>2. Cardinality(1 .. n) = n /\ IsFiniteSet(1 .. n)
    BY <1>1, FS_Interval
  <2> QED
    BY <1>1, <2>1, <2>2, FS_Injection DEF n, Surjection
<1> QED
  BY <1>1, <1>6, <1>7 DEF n, kids

LEMMA ChildrenBounded ==
    ASSUME MaxChildren \in Nat, NEW K, IsMap(K)
    PROVE  /\ Cardinality(K) \in Nat /\ Cardinality(K) <= MaxChildren
           /\ Cardinality({e[1] : e \in K}) = Cardinality(K)
<1> DEFINE S == {e[1] : e \in K}
           f == [e \in K |-> e[1]]
<1>1. IsFiniteSet(K) /\ Cardinality(K) \in Nat
  BY FS_CardinalityType DEF IsMap
<1>2. f \in [K -> S] /\ (\A s \in S : \E e \in K : f[e] = s) /\ (\A a, b \in K : f[a] = f[b] => a = b)
  BY DEF IsMap
<1>3. S \in SUBSET (0 .. MaxChildren - 1)
  BY DEF IsMap
<1> HIDE DEF f, S
<1>4. f \in Surjection(K, S) /\ f \in Injection(K, S)
  BY <1>2 DEF Surjection, Injection, IsInjective
<1>5. IsFiniteSet(S) /\ Cardinality(S) = Cardinality(K)
  BY <1>1, <1>4, FS_Surjection
<1>6. IsFiniteSet(0 .. MaxChildren - 1) /\ Cardinality(0 .. MaxChildren - 1) = MaxChildren
  BY FS_Interval
<1>7. Cardinality(S) <= MaxChildren
  BY <1>3, <1>6, FS_Subset
<1> QED
  BY <1>1, <1>5, <1>7 DEF S

\* The cells of the children, a nibble and a node after the other.
Flat(kids) ==
    [i \in 1 .. 2 * Len(kids) |-> kids[(i + 1) \div 2][IF i % 2 = 1 THEN 1 ELSE 2]]

LEMMA FlatIs ==
    ASSUME NEW K, NEW kids \in Seq(K)
    PROVE  LET T == {e[1] : e \in K} \union {e[2] : e \in K}
           IN  /\ Flat(kids) \in Seq(T) /\ Len(Flat(kids)) = 2 * Len(kids)
               /\ \A i \in 1 .. Len(kids) : /\ Flat(kids)[2 * i - 1] = kids[i][1]
                                            /\ Flat(kids)[2 * i] = kids[i][2]
<1> DEFINE T == {e[1] : e \in K} \union {e[2] : e \in K}
           n == Len(kids)
           flat == Flat(kids)
           cell(i) == kids[(i + 1) \div 2][IF i % 2 = 1 THEN 1 ELSE 2]
<1>1. n \in Nat /\ \A i \in 1 .. n : kids[i] \in K
  OBVIOUS
<1>2. flat = [i \in 1 .. 2 * n |-> cell(i)]
  BY DEF Flat
<1> HIDE DEF n, flat
<1>3. \A i \in 1 .. 2 * n : (i + 1) \div 2 \in 1 .. n
  BY <1>1
<1>4. \A i \in 1 .. 2 * n : cell(i) \in T
  <2>1. SUFFICES ASSUME NEW i \in 1 .. 2 * n PROVE cell(i) \in T
    OBVIOUS
  <2>2. kids[(i + 1) \div 2] \in K
    BY <1>1, <1>3
  <2> DEFINE e == kids[(i + 1) \div 2]
  <2> HIDE DEF e
  <2>3. e[1] \in T /\ e[2] \in T
    BY <2>2 DEF e
  <2> HIDE DEF T
  <2> QED
    BY <2>3 DEF e
<1> HIDE DEF T
<1>5. flat \in [1 .. 2 * n -> T]
  <2> HIDE DEF cell
  <2> QED
    BY <1>2, <1>4
<1>6. flat \in Seq(T) /\ Len(flat) = 2 * n
  <2>1. 2 * n \in Nat
    BY <1>1
  <2> QED
    BY <1>5, <2>1
<1>7. ASSUME NEW i \in 1 .. n
      PROVE  flat[2 * i - 1] = kids[i][1] /\ flat[2 * i] = kids[i][2]
  <2>1. 2 * i - 1 \in 1 .. 2 * n /\ ((2 * i - 1) + 1) \div 2 = i /\ (2 * i - 1) % 2 = 1
    BY <1>1
  <2>2. 2 * i \in 1 .. 2 * n /\ (2 * i + 1) \div 2 = i /\ (2 * i) % 2 = 0
    BY <1>1
  <2>3. cell(2 * i - 1) = kids[i][1] /\ cell(2 * i) = kids[i][2]
    BY <2>1, <2>2
  <2> HIDE DEF cell
  <2> QED
    BY <1>2, <2>1, <2>2, <2>3
<1> QED
  BY <1>6, <1>7 DEF T, n, flat

LEMMA BranchIsExact ==
    ASSUME MaxChildren \in Nat, NEW K, IsMap(K)
    PROVE  Exact(Branch(K), ToBytes(Branch(K)))
<1> DEFINE n == Cardinality(K)
           kids == InNibbleOrder(K)
           flat == Flat(kids)
           T == {e[1] : e \in K} \union {e[2] : e \in K}
           U == T \union Nat
           body == <<n>> \o flat
           o == Branch(K)
<1>1. /\ kids \in Seq(K) /\ Len(kids) = n /\ n \in Nat
      /\ \A e \in K : \E i \in 1 .. n : kids[i] = e
  BY OrderIs
<1> HIDE DEF kids, n
<1>2. /\ flat \in Seq(T) /\ Len(flat) = 2 * n
      /\ \A i \in 1 .. n : flat[2 * i - 1] = kids[i][1] /\ flat[2 * i] = kids[i][2]
  BY <1>1, FlatIs
<1>3. ToBytes(o) = Header(2) \o body
  <2>1. ToBytes(o) = (Header(2) \o <<n>>) \o flat
    BY <1>1 DEF ToBytes, Branch, Flat, kids
  <2> DEFINE W == U \union {Magic}
             l == <<n>>
             h == Header(2)
  <2>2. h \in Seq(W) /\ l \in Seq(W)
    BY <1>1 DEF Header, FormatVersion
  <2>3. flat \in Seq(W)
    <3> HIDE DEF flat
    <3> QED
      BY <1>2, SeqMonotonic
  <2> HIDE DEF h, l, W, flat, o
  <2>4. (h \o l) \o flat = h \o (l \o flat)
    BY <2>2, <2>3, ConcatAssociative, SMTT(30)
  <2> QED
    BY <2>1, <2>4 DEF h, l
<1> HIDE DEF flat, T
<1>4. /\ body \in Seq(U) /\ Len(body) = 1 + 2 * n /\ body[1] = n
      /\ \A i \in 1 .. 2 * n : body[1 + i] = flat[i]
  <2> DEFINE l == <<n>>
  <2>1. l \in Seq(U) /\ Len(l) = 1 /\ l[1] = n
    BY <1>1
  <2>2. flat \in Seq(U)
    BY <1>2, SeqMonotonic
  <2> HIDE DEF l, U
  <2>3. /\ l \o flat \in Seq(U) /\ Len(l \o flat) = Len(l) + Len(flat)
        /\ \A i \in 1 .. Len(l) + Len(flat) :
              (l \o flat)[i] = IF i <= Len(l) THEN l[i] ELSE flat[i - Len(l)]
    BY <2>1, <2>2, ConcatProperties
  <2> DEFINE b == l \o flat
  <2> HIDE DEF b
  <2>4. b \in Seq(U) /\ Len(b) = 1 + 2 * n /\ b[1] = n
    BY <1>1, <1>2, <2>1, <2>3 DEF b
  <2>5. ASSUME NEW i \in 1 .. 2 * n
        PROVE  b[1 + i] = flat[i]
    <3>1. 1 + i \in 1 .. Len(l) + Len(flat) /\ ~(1 + i <= Len(l)) /\ (1 + i) - Len(l) = i
      BY <1>1, <1>2, <2>1
    <3> QED
      BY <2>3, <3>1 DEF b
  <2> QED
    BY <2>4, <2>5 DEF b, l
<1> HIDE DEF body
<1>5. \A s : Decode(2, s) = DecodeBranch(s)
  BY DEF Decode
<1>6. Decode(2, body) = o
  <2> DEFINE pair(i) == <<body[2 * i], body[2 * i + 1]>>
             children == {pair(i) : i \in 1 .. n}
  <2>1. ASSUME NEW i \in 1 .. n
        PROVE  pair(i) = kids[i] /\ kids[i] \in K
    <3>1. 2 * i - 1 \in 1 .. 2 * n /\ 1 + (2 * i - 1) = 2 * i /\ 2 * i \in 1 .. 2 * n /\ 1 + 2 * i = 2 * i + 1
      BY <1>1
    <3>2. body[2 * i] = kids[i][1] /\ body[2 * i + 1] = kids[i][2]
      BY <1>2, <1>4, <3>1
    <3>3. kids[i] \in K
      BY <1>1
    <3>4. kids[i] = <<kids[i][1], kids[i][2]>>
      BY <3>3 DEF IsMap
    <3> QED
      BY <3>2, <3>3, <3>4
  <2>2. children = K
    <3> HIDE DEF pair
    <3>1. \A x \in children : x \in K
      BY <2>1
    <3>2. \A e \in K : e \in children
      BY <1>1, <2>1
    <3> HIDE DEF children
    <3> QED
      BY <3>1, <3>2
  <2>3. children = {<<body[2 * i], body[2 * i + 1]>> : i \in 1 .. body[1]}
    BY <1>4
  <2>4. DecodeBranch(body) =
           IF /\ Len(body) > 0
              /\ n <= MaxChildren
              /\ Len(body) = 1 + 2 * n
              /\ \A e \in children : e[1] < MaxChildren
              /\ Cardinality({e[1] : e \in children}) = n
             THEN Branch(children)
             ELSE Bail
    <3> HIDE DEF children, pair
    <3> QED
      BY <1>4, <2>3 DEF DecodeBranch
  <2> HIDE DEF children
  <2>5. \A e \in K : e[1] < MaxChildren
    BY DEF IsMap
  <2>6. n <= MaxChildren /\ Cardinality({e[1] : e \in K}) = n
    BY ChildrenBounded DEF n
  <2>7. Len(body) > 0 /\ Len(body) = 1 + 2 * n
    BY <1>1, <1>4
  <2> QED
    BY <1>5, <2>2, <2>4, <2>5, <2>6, <2>7
<1>7. ASSUME NEW i \in 0 .. Len(body) - 1
      PROVE  Decode(2, SubSeq(body, 1, i)) = Bail
  <2> DEFINE cut == SubSeq(body, 1, i)
  <2>1. Len(cut) = i /\ i \in Nat /\ i < Len(body) /\ \A j \in 1 .. i : cut[j] = body[j]
    BY <1>4, CutIs
  <2> HIDE DEF cut
  <2>2. ~(Len(cut) > 0 /\ Len(cut) = 1 + 2 * cut[1])
    BY <1>1, <1>4, <2>1
  <2> QED
    BY <1>5, <2>2 DEF DecodeBranch, cut
<1>8. Decode(2, Append(body, 0)) = Bail
  <2> DEFINE more == Append(body, 0)
  <2>1. Len(more) = Len(body) + 1 /\ Len(body) \in Nat /\ \A j \in 1 .. Len(body) : more[j] = body[j]
    BY <1>4, MoreIs
  <2> HIDE DEF more
  <2>2. ~(Len(more) = 1 + 2 * more[1])
    BY <1>1, <1>4, <2>1
  <2> QED
    BY <1>5, <2>2 DEF DecodeBranch, more
<1> HIDE DEF o, U
<1> QED
  <2>1. ExactBody(o, 2, body)
    BY <1>6, <1>7, <1>8 DEF ExactBody
  <2>2. Exact(o, Header(2) \o body)
    BY <1>4, <2>1, ExactBodies
  <2> QED
    BY <1>3, <2>2 DEF o

\* Every blob, leaf and commit, and every branch whose children are a map to
\* at most MaxChildren nibbles, is what its encoding decodes to, and no part
\* of the encoding and nothing longer decodes: to_bytes and from_bytes.
THEOREM EncodingsAreExact ==
    ASSUME MaxChildren \in Nat
    PROVE  /\ \A T : \A p \in Seq(T) : Exact(Blob(p), ToBytes(Blob(p)))
           /\ \A x, z, b : Exact(Leaf(<<x, z>>, b), ToBytes(Leaf(<<x, z>>, b)))
           /\ \A K : IsMap(K) => Exact(Branch(K), ToBytes(Branch(K)))
           /\ \A T : \A m \in Seq(T) : \A t, p :
                 Exact(Commit(t, p, m), ToBytes(Commit(t, p, m)))
BY BlobIsExact, LeafIsExact, BranchIsExact, CommitIsExact
====
