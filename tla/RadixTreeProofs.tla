---- MODULE RadixTreeProofs ----
(* Theorems about the radix tree, for nibbles and coordinates of any width  *)
(* and for any set of coordinates, payloads, worlds and change sets: the    *)
(* tree a commit writes is the tree of the new world, read back and told    *)
(* apart exactly, and published within the bound of the paper.              *)
EXTENDS RadixTree, ObjectCodecProofs, FiniteSetTheorems, SequenceTheorems, TLAPS

(* Induction over the depths, by sets: what holds at one end and is passed  *)
(* on from depth to depth holds everywhere.                                 *)

LEMMA Induction ==
    ASSUME NEW S, 0 \in S, \A n \in Nat : n \in S => n + 1 \in S
    PROVE  Nat \subseteq S
<1> SUFFICES ASSUME NEW m \in Nat, m \notin S PROVE FALSE
  OBVIOUS
<1> DEFINE T == {n \in Nat : n \notin S}
<1>1. PICK n \in T : \A k \in T : ~(<<k, n>> \in OpToRel(<, Nat))
  <2>1. T \subseteq Nat /\ T # {}
    OBVIOUS
  <2> HIDE DEF T
  <2> QED
    BY <2>1, NatLessThanWellFounded, WFMin
<1>2. \A k \in T : ~(k < n)
  BY <1>1 DEF OpToRel
<1>3. n # 0 /\ n - 1 \in Nat /\ n - 1 \notin T
  BY <1>2
<1> QED
  BY <1>3

LEMMA UpFrom0 ==
    ASSUME NEW m \in Nat, NEW S, 0 \in S,
           \A d \in 0 .. m - 1 : d \in S => d + 1 \in S
    PROVE  0 .. m \subseteq S
<1> DEFINE T == {n \in Nat : n <= m => n \in S}
<1>1. 0 \in T /\ \A n \in Nat : n \in T => n + 1 \in T
  OBVIOUS
<1>2. Nat \subseteq T
  <2> HIDE DEF T
  <2> QED
    BY <1>1, Induction
<1> QED
  BY <1>2

LEMMA DownTo0 ==
    ASSUME NEW m \in Nat, NEW S, m \in S,
           \A d \in 0 .. m - 1 : d + 1 \in S => d \in S
    PROVE  0 .. m \subseteq S
<1> DEFINE T == {n \in Nat : n <= m => m - n \in S}
<1>1. 0 \in T
  OBVIOUS
<1>2. ASSUME NEW n \in Nat, n \in T
      PROVE  n + 1 \in T
  <2>1. CASE n + 1 <= m
    <3>1. m - (n + 1) \in 0 .. m - 1 /\ (m - (n + 1)) + 1 = m - n
      BY <2>1
    <3> QED
      BY <1>2, <2>1, <3>1
  <2> QED
    BY <2>1
<1>3. Nat \subseteq T
  <2> HIDE DEF T
  <2> QED
    BY <1>1, <1>2, Induction
<1>4. ASSUME NEW d \in 0 .. m
      PROVE  d \in S
  <2>1. m - d \in Nat /\ m - d <= m /\ m - (m - d) = d
    OBVIOUS
  <2> QED
    BY <1>3, <2>1
<1> QED
  BY <1>4

(* Powers. *)

LEMMA DepthType == TreeDepth \in Nat /\ TreeDepth >= 4 /\ Nibbles \in Nat /\ Nibbles > 1
BY WidthAssumption DEF TreeDepth, Nibbles

\* Every recursion over depths is justified in the same way: what is defined
\* up to a depth can be extended by one.
LEMMA PowerExists ==
    \E f : f = [k \in 0 .. TreeDepth |-> IF k = 0 THEN 1 ELSE Nibbles * f[k - 1]]
<1> DEFINE UpTo(f, n) == f = [k \in 0 .. n |-> IF k = 0 THEN 1 ELSE Nibbles * f[k - 1]]
           S == {n \in Nat : \E f : UpTo(f, n)}
<1>1. 0 \in S
  <2>1. UpTo([k \in 0 .. 0 |-> 1], 0)
    OBVIOUS
  <2> QED
    BY <2>1
<1>2. ASSUME NEW n \in Nat, n \in S
      PROVE  n + 1 \in S
  <2>1. PICK f : UpTo(f, n)
    BY <1>2
  <2> DEFINE g == [k \in 0 .. n + 1 |-> IF k = n + 1 THEN Nibbles * f[n] ELSE f[k]]
  <2>2. UpTo(g, n + 1)
    <3>1. \A k \in 0 .. n : g[k] = f[k]
      OBVIOUS
    <3>2. g[n + 1] = Nibbles * f[n]
      OBVIOUS
    <3>3. \A k \in 0 .. n + 1 : g[k] = IF k = 0 THEN 1 ELSE Nibbles * g[k - 1]
      BY <2>1, <3>1, <3>2
    <3> QED
      BY <3>3
  <2> QED
    <3> HIDE DEF UpTo, g
    <3> QED
      BY <2>2
<1>3. TreeDepth \in S
  <2> HIDE DEF S
  <2> QED
    BY <1>1, <1>2, Induction, DepthType
<1> QED
  BY <1>3

LEMMA PowerIs ==
    \A k \in 0 .. TreeDepth : Power[k] = IF k = 0 THEN 1 ELSE Nibbles * Power[k - 1]
<1>1. Power = [k \in 0 .. TreeDepth |-> IF k = 0 THEN 1 ELSE Nibbles * Power[k - 1]]
  BY PowerExists DEF Power
<1> QED
  BY <1>1

(* Division.                                                                *)

LEMMA Quotient ==
    ASSUME NEW x \in Int, NEW b \in Nat \ {0}
    PROVE  /\ x \div b \in Int /\ x % b \in 0 .. b - 1
           /\ x = b * (x \div b) + (x % b)
OBVIOUS

LEMMA QuotientIs ==
    ASSUME NEW b \in Nat \ {0}, NEW q \in Int, NEW r \in 0 .. b - 1
    PROVE  (b * q + r) \div b = q /\ (b * q + r) % b = r
OBVIOUS

LEMMA ProductPositive ==
    ASSUME NEW b \in Nat \ {0}, NEW c \in Nat \ {0}
    PROVE  b * c \in Nat \ {0}
OBVIOUS

LEMMA ProductMonotone ==
    ASSUME NEW a \in Nat, NEW b \in Int, NEW c \in Int, b <= c
    PROVE  a * b <= a * c
OBVIOUS

LEMMA Division ==
    ASSUME NEW x \in Nat, NEW b \in Nat \ {0}
    PROVE  /\ x \div b \in Nat /\ x % b \in 0 .. b - 1
           /\ x = b * (x \div b) + (x % b)
<1>1. ASSUME x \div b < 0
      PROVE  FALSE
  <2>1. b * (x \div b) <= b * (-1)
    BY <1>1, Quotient, ProductMonotone
  <2> QED
    BY <2>1, Quotient
<1> QED
  BY <1>1, Quotient

LEMMA QuotientOfQuotient ==
    ASSUME NEW x \in Nat, NEW b \in Nat \ {0}, NEW c \in Nat \ {0}
    PROVE  (x \div b) \div c = x \div (b * c)
<1> DEFINE q == x \div b
           r == x % b
           p == q \div c
           s == q % c
<1>1. q \in Nat /\ r \in 0 .. b - 1 /\ x = b * q + r
  BY Division, Zenon
<1>2. p \in Nat /\ s \in 0 .. c - 1 /\ q = c * p + s
  BY <1>1, Division, Zenon
<1> HIDE DEF q, r, p, s
<1>3. b * s + r \in 0 .. b * c - 1
  <2>1. b * s <= b * (c - 1) /\ b * 0 <= b * s
    BY <1>2, ProductMonotone
  <2> QED
    BY <1>1, <1>2, <2>1
<1>4. x = (b * c) * p + (b * s + r)
  BY <1>1, <1>2, <1>3
<1>5. b * c \in Nat \ {0}
  BY ProductPositive
<1>6. x \div (b * c) = p
  <2> DEFINE m == b * c
             t == b * s + r
  <2>1. m \in Nat \ {0} /\ t \in 0 .. m - 1 /\ x = m * p + t
    BY <1>3, <1>4, <1>5
  <2> HIDE DEF m, t
  <2>2. x \div m = p
    BY <2>1, <1>2, QuotientIs
  <2> QED
    BY <2>2 DEF m
<1> QED
  BY <1>6 DEF p, q

\* The high digit of a two-digit remainder, and the low one.
LEMMA Remainders ==
    ASSUME NEW x \in Nat, NEW b \in Nat \ {0}
    PROVE  /\ (x % (b * b)) \div b = (x \div b) % b
           /\ (x % (b * b)) % b = x % b
<1> DEFINE q == x \div b
           r == x % b
           p == q \div b
           s == q % b
<1>1. q \in Nat /\ r \in 0 .. b - 1 /\ x = b * q + r
  BY Division, Zenon
<1>2. p \in Nat /\ s \in 0 .. b - 1 /\ q = b * p + s
  BY <1>1, Division, Zenon
<1> HIDE DEF q, r, p, s
<1>3. b * s + r \in 0 .. b * b - 1
  <2>1. b * s <= b * (b - 1) /\ b * 0 <= b * s
    BY <1>2, ProductMonotone
  <2> QED
    BY <1>1, <1>2, <2>1
<1>4. x = (b * b) * p + (b * s + r)
  BY <1>1, <1>2, <1>3
<1>5. x % (b * b) = b * s + r
  <2> DEFINE m == b * b
             t == b * s + r
  <2>1. m \in Nat \ {0} /\ t \in 0 .. m - 1 /\ x = m * p + t
    BY <1>3, <1>4, ProductPositive
  <2> HIDE DEF m, t
  <2>2. x % m = t
    BY <2>1, <1>2, QuotientIs
  <2> QED
    BY <2>2 DEF m, t
<1>6. (b * s + r) \div b = s /\ (b * s + r) % b = r
  BY <1>1, <1>2, QuotientIs
<1> QED
  BY <1>5, <1>6 DEF s, r, q

LEMMA PowerType == \A k \in 0 .. TreeDepth : Power[k] \in Nat \ {0}
<1> DEFINE S == {k \in 0 .. TreeDepth : Power[k] \in Nat \ {0}}
<1>1. 0 \in S
  BY PowerIs, DepthType
<1>2. ASSUME NEW k \in 0 .. TreeDepth - 1, k \in S
      PROVE  k + 1 \in S
  <2>1. k + 1 \in 0 .. TreeDepth /\ Power[k + 1] = Nibbles * Power[k]
    BY PowerIs, DepthType
  <2>2. Nibbles * Power[k] \in Nat \ {0}
    BY <1>2, DepthType, ProductPositive
  <2> QED
    BY <2>1, <2>2
<1>3. 0 .. TreeDepth \subseteq S
  <2> HIDE DEF S
  <2> QED
    BY <1>1, <1>2, UpFrom0, DepthType
<1> QED
  BY <1>3

LEMMA PowerSum ==
    ASSUME NEW a \in Nat, NEW b \in Nat, a + b <= TreeDepth
    PROVE  Power[a + b] = Power[a] * Power[b]
<1> DEFINE S == {n \in 0 .. a : Power[n + b] = Power[n] * Power[b]}
<1>1. 0 \in S
  <2>1. Power[0] = 1 /\ Power[b] \in Nat
    BY PowerIs, PowerType, DepthType
  <2> QED
    BY <2>1
<1>2. ASSUME NEW n \in 0 .. a - 1, n \in S
      PROVE  n + 1 \in S
  <2>1. Power[n + 1] = Nibbles * Power[n]
    BY PowerIs, DepthType
  <2>2. Power[(n + 1) + b] = Nibbles * Power[n + b]
    <3>1. (n + 1) + b \in 0 .. TreeDepth /\ (n + 1) + b # 0 /\ ((n + 1) + b) - 1 = n + b
      BY DepthType
    <3> QED
      BY <3>1, PowerIs
  <2>3. Power[n] \in Nat /\ Power[b] \in Nat
    BY PowerType, DepthType
  <2>4. Power[(n + 1) + b] = Power[n + 1] * Power[b]
    BY <1>2, <2>1, <2>2, <2>3, DepthType
  <2> QED
    BY <2>4
<1>3. 0 .. a \subseteq S
  <2> HIDE DEF S
  <2> QED
    BY <1>1, <1>2, UpFrom0
<1> QED
  BY <1>3

(* Keys, their prefixes and their digits.                                   *)

LEMMA SizeType == CoordSize \in Nat \ {0} /\ Power[TreeDepth] = CoordSize * CoordSize
<1>1. 2 * CoordBytes \in Nat /\ 2 * CoordBytes + 2 * CoordBytes = TreeDepth
  BY WidthAssumption DEF TreeDepth
<1> QED
  BY <1>1, PowerType, PowerSum, DepthType DEF CoordSize

LEMMA CoordsType ==
    ASSUME NEW c \in Coords
    PROVE  /\ c = <<c[1], c[2]>> /\ c[1] \in Signed /\ c[2] \in Signed
           /\ Unsigned(c[1]) \in 0 .. CoordSize - 1
           /\ Unsigned(c[2]) \in 0 .. CoordSize - 1
<1>1. c \in Signed \X Signed
  BY WidthAssumption
<1>2. c = <<c[1], c[2]>> /\ c[1] \in Signed /\ c[2] \in Signed
  BY <1>1
<1>3. Signed \subseteq Int
  BY SizeType DEF Signed
<1> QED
  BY <1>2, <1>3, SizeType, Quotient DEF Unsigned

LEMMA UnsignedIsInjective ==
    ASSUME NEW i \in Signed, NEW j \in Signed, Unsigned(i) = Unsigned(j)
    PROVE  i = j
<1> DEFINE m == CoordSize
           h == m \div 2
           p == i \div m
           q == j \div m
           r == i % m
           s == j % m
<1>1. m \in Nat \ {0}
  BY SizeType
<1>2. h \in Nat /\ m - 1 <= 2 * h /\ 2 * h <= m
  BY <1>1
<1>3. i \in -h .. h - 1 /\ j \in -h .. h - 1
  BY DEF Signed
<1>4. i \in Int /\ j \in Int
  BY <1>2, <1>3
<1>5. p \in Int /\ q \in Int /\ r \in 0 .. m - 1 /\ i = m * p + r /\ j = m * q + s
  BY <1>1, <1>4, Quotient, Zenon
<1>6. r = s
  BY DEF Unsigned
<1> HIDE DEF m, h, p, q, r, s
<1>7. ~(p < q)
  <2>1. ASSUME p < q PROVE FALSE
    <3>1. m * (p + 1) <= m * q
      BY <1>1, <1>5, <2>1, ProductMonotone
    <3>2. m * p + m <= m * q
      BY <1>1, <1>5, <3>1
    <3> QED
      BY <1>1, <1>2, <1>3, <1>4, <1>5, <1>6, <3>2
  <2> QED
    BY <2>1
<1>8. ~(q < p)
  <2>1. ASSUME q < p PROVE FALSE
    <3>1. m * (q + 1) <= m * p
      BY <1>1, <1>5, <2>1, ProductMonotone
    <3>2. m * q + m <= m * p
      BY <1>1, <1>5, <3>1
    <3> QED
      BY <1>1, <1>2, <1>3, <1>4, <1>5, <1>6, <3>2
  <2> QED
    BY <2>1
<1> QED
  BY <1>5, <1>6, <1>7, <1>8

LEMMA KeyType ==
    ASSUME NEW c \in Coords
    PROVE  CoordKey(c) \in Nat /\ CoordKey(c) < Power[TreeDepth]
<1> DEFINE a == Unsigned(c[1])
           b == Unsigned(c[2])
           m == CoordSize
<1>1. a \in 0 .. m - 1 /\ b \in 0 .. m - 1 /\ m \in Nat \ {0}
  BY CoordsType, SizeType
<1>2. CoordKey(c) = a * m + b /\ Power[TreeDepth] = m * m
  BY SizeType DEF CoordKey
<1> HIDE DEF a, b, m
<1>3. m * a <= m * (m - 1)
  BY <1>1, ProductMonotone
<1>4. a * m \in Nat
  BY <1>1
<1> QED
  BY <1>1, <1>2, <1>3, <1>4

LEMMA KeyIsInjective ==
    ASSUME NEW c \in Coords, NEW d \in Coords, CoordKey(c) = CoordKey(d)
    PROVE  c = d
<1>1. CoordKey(c) \div CoordSize = Unsigned(c[1]) /\ CoordKey(c) % CoordSize = Unsigned(c[2])
  BY CoordsType, SizeType, QuotientIs DEF CoordKey
<1>2. CoordKey(d) \div CoordSize = Unsigned(d[1]) /\ CoordKey(d) % CoordSize = Unsigned(d[2])
  BY CoordsType, SizeType, QuotientIs DEF CoordKey
<1>3. Unsigned(c[1]) = Unsigned(d[1]) /\ Unsigned(c[2]) = Unsigned(d[2])
  BY <1>1, <1>2
<1>4. c[1] = d[1] /\ c[2] = d[2]
  BY <1>3, CoordsType, UnsignedIsInjective
<1> QED
  BY <1>4, CoordsType

LEMMA PrefixType ==
    ASSUME NEW c \in Coords, NEW d \in 0 .. TreeDepth
    PROVE  Prefix(c, d) \in Nat
<1>1. TreeDepth - d \in 0 .. TreeDepth
  BY DepthType
<1>2. Power[TreeDepth - d] \in Nat \ {0}
  BY <1>1, PowerType
<1> QED
  BY <1>2, KeyType, Division, Zenon DEF Prefix

LEMMA PrefixStep ==
    ASSUME NEW c \in Coords, NEW d \in 0 .. TreeDepth - 1
    PROVE  /\ Digit(c, d) \in 0 .. Nibbles - 1
           /\ Prefix(c, d + 1) = Nibbles * Prefix(c, d) + Digit(c, d)
<1> DEFINE k == TreeDepth - (d + 1)
           key == CoordKey(c)
<1>1. k \in 0 .. TreeDepth - 1 /\ d + 1 \in 0 .. TreeDepth /\ TreeDepth - d = k + 1
  BY DepthType
<1>2. Power[k] \in Nat \ {0} /\ Power[k + 1] = Power[k] * Nibbles
  <2>1. Power[k] \in Nat \ {0} /\ Power[k + 1] = Nibbles * Power[k]
    BY <1>1, PowerIs, PowerType, DepthType
  <2> QED
    BY <2>1, DepthType
<1>3. Nibbles \in Nat \ {0} /\ key \in Nat
  BY DepthType, KeyType
<1>4. Prefix(c, d) = (key \div Power[k]) \div Nibbles
  <2>1. (key \div Power[k]) \div Nibbles = key \div (Power[k] * Nibbles)
    BY <1>2, <1>3, QuotientOfQuotient, Zenon
  <2> QED
    BY <1>1, <1>2, <2>1 DEF Prefix
<1>5. Prefix(c, d + 1) = key \div Power[k] /\ Prefix(c, d + 1) \in Nat
  BY <1>1, PrefixType DEF Prefix
<1>6. Prefix(c, d + 1) = Nibbles * (Prefix(c, d + 1) \div Nibbles) + (Prefix(c, d + 1) % Nibbles)
      /\ Prefix(c, d + 1) % Nibbles \in 0 .. Nibbles - 1
  BY <1>3, <1>5, Division, Zenon
<1> QED
  BY <1>4, <1>5, <1>6 DEF Digit

LEMMA PrefixEnds ==
    ASSUME NEW c \in Coords
    PROVE  Prefix(c, 0) = 0 /\ Prefix(c, TreeDepth) = CoordKey(c)
<1>1. Power[TreeDepth] \in Nat \ {0} /\ Power[0] = 1
  BY PowerIs, PowerType, DepthType
<1>2. CoordKey(c) \div Power[TreeDepth] = 0
  <2> DEFINE p == Power[TreeDepth]
  <2>1. CoordKey(c) = p * 0 + CoordKey(c) /\ CoordKey(c) \in 0 .. p - 1
    BY <1>1, KeyType
  <2> HIDE DEF p
  <2> QED
    BY <1>1, <2>1, QuotientIs DEF p
<1>3. CoordKey(c) \div 1 = CoordKey(c)
  BY KeyType
<1> QED
  BY <1>1, <1>2, <1>3, DepthType DEF Prefix

\* What prefixes and digits are for: two coordinates have a prefix in common
\* if they have the shorter one and the next digit in common.
LEMMA PrefixesAgree ==
    ASSUME NEW a \in Coords, NEW b \in Coords, NEW d \in 0 .. TreeDepth - 1
    PROVE  Prefix(a, d + 1) = Prefix(b, d + 1)
              <=> Prefix(a, d) = Prefix(b, d) /\ Digit(a, d) = Digit(b, d)
<1> DEFINE n == Nibbles
           p == Prefix(a, d)
           q == Prefix(b, d)
           x == Digit(a, d)
           y == Digit(b, d)
<1>1. n \in Nat \ {0} /\ x \in 0 .. n - 1 /\ y \in 0 .. n - 1 /\ p \in Int /\ q \in Int
  BY PrefixStep, PrefixType, DepthType
<1>2. Prefix(a, d + 1) = n * p + x /\ Prefix(b, d + 1) = n * q + y
  BY PrefixStep
<1> HIDE DEF n, p, q, x, y
<1>3. (n * p + x) \div n = p /\ (n * p + x) % n = x /\ (n * q + y) \div n = q /\ (n * q + y) % n = y
  BY <1>1, QuotientIs
<1>4. Prefix(a, d + 1) = Prefix(b, d + 1) <=> p = q /\ x = y
  BY <1>2, <1>3
<1> QED
  BY <1>4 DEF p, q, x, y

LEMMA WholePrefix ==
    ASSUME NEW a \in Coords, NEW b \in Coords
    PROVE  Prefix(a, TreeDepth) = Prefix(b, TreeDepth) <=> a = b
BY PrefixEnds, KeyIsInjective

\* A digit of the first coordinate, and one of the second.
LEMMA HighDigit ==
    ASSUME NEW c \in Coords, NEW k \in 0 .. 2 * CoordBytes
    PROVE  CoordKey(c) \div Power[2 * CoordBytes + k] = Unsigned(c[1]) \div Power[k]
<1> DEFINE h == 2 * CoordBytes
           a == Unsigned(c[1])
           b == Unsigned(c[2])
           m == CoordSize
<1>1. h \in Nat /\ k \in Nat /\ h + k <= TreeDepth /\ m = Power[h]
  BY WidthAssumption DEF TreeDepth, CoordSize
<1>2. a \in 0 .. m - 1 /\ b \in 0 .. m - 1 /\ m \in Nat \ {0} /\ CoordKey(c) = m * a + b
  BY CoordsType, SizeType DEF CoordKey
<1> HIDE DEF a, b, m, h
<1>3. Power[k] \in Nat \ {0} /\ Power[h + k] = m * Power[k]
  <2>1. k \in 0 .. TreeDepth
    BY <1>1, DepthType
  <2>2. Power[h + k] = Power[h] * Power[k]
    BY <1>1, PowerSum
  <2> QED
    BY <1>1, <2>1, <2>2, PowerType
<1>4. CoordKey(c) \div m = a
  BY <1>2, QuotientIs
<1>5. (CoordKey(c) \div m) \div Power[k] = CoordKey(c) \div (m * Power[k])
  BY <1>2, <1>3, KeyType, QuotientOfQuotient, Zenon
<1> QED
  BY <1>3, <1>4, <1>5 DEF a, h

LEMMA LowDigit ==
    ASSUME NEW c \in Coords, NEW k \in 0 .. 2 * CoordBytes - 1
    PROVE  (CoordKey(c) \div Power[k]) % Nibbles = (Unsigned(c[2]) \div Power[k]) % Nibbles
<1> DEFINE h == 2 * CoordBytes
           a == Unsigned(c[1])
           b == Unsigned(c[2])
           m == CoordSize
           n == Nibbles
           p == Power[k]
           o == Power[h - (k + 1)]
           q == b \div p
           r == b % p
           s == q \div n
           t == q % n
<1>1. h \in Nat /\ k \in Nat /\ h - (k + 1) \in Nat /\ (k + 1) + (h - (k + 1)) = h /\ h <= TreeDepth
  BY WidthAssumption DEF TreeDepth
<1>2. a \in Nat /\ b \in Nat /\ m \in Nat \ {0} /\ n \in Nat \ {0} /\ CoordKey(c) = a * m + b
  BY CoordsType, SizeType, DepthType DEF CoordKey
<1>3. p \in Nat \ {0} /\ o \in Nat \ {0}
  <2> DEFINE u == h - (k + 1)
  <2>1. k \in 0 .. TreeDepth /\ u \in 0 .. TreeDepth
    BY <1>1, DepthType
  <2> HIDE DEF u
  <2>2. Power[k] \in Nat \ {0} /\ Power[u] \in Nat \ {0}
    BY <2>1, PowerType
  <2> QED
    BY <2>2 DEF u
<1>4. m = (n * p) * o
  <2>1. Power[(k + 1) + (h - (k + 1))] = Power[k + 1] * Power[h - (k + 1)]
    <3> DEFINE u == h - (k + 1)
    <3>1. u \in Nat /\ k + 1 \in Nat /\ (k + 1) + u <= TreeDepth
      BY <1>1
    <3> HIDE DEF u
    <3>2. Power[(k + 1) + u] = Power[k + 1] * Power[u]
      BY <3>1, PowerSum
    <3> QED
      BY <3>2 DEF u
  <2>2. Power[k + 1] = Nibbles * Power[k]
    BY <1>1, PowerIs, DepthType
  <2> QED
    BY <1>1, <2>1, <2>2 DEF CoordSize
<1>5. q \in Nat /\ r \in 0 .. p - 1 /\ b = p * q + r
  BY <1>2, <1>3, Division, Zenon
<1>6. s \in Nat /\ t \in 0 .. n - 1 /\ q = n * s + t
  BY <1>2, <1>5, Division, Zenon
<1>7. (b \div p) % n = t
  OBVIOUS
<1> HIDE DEF a, b, m, n, h, p, o, q, r, s, t
<1>8. CoordKey(c) = p * (n * (a * o + s) + t) + r
  <2>1. a * m = p * (n * (a * o))
    BY <1>2, <1>3, <1>4
  <2>2. b = p * (n * s + t) + r
    BY <1>5, <1>6
  <2> DEFINE x == n * (a * o)
             y == n * s + t
  <2>3. x \in Int /\ y \in Int
    BY <1>2, <1>3, <1>6
  <2>4. n * (a * o + s) + t = x + y
    BY <1>2, <1>3, <1>6
  <2>5. CoordKey(c) = p * x + p * y + r
    BY <1>2, <2>1, <2>2, <1>3, <1>5, <2>3
  <2> HIDE DEF x, y
  <2> QED
    BY <2>3, <2>4, <2>5, <1>3, <1>5
<1>9. CoordKey(c) \div p = n * (a * o + s) + t
  <2>1. n * (a * o + s) + t \in Int
    BY <1>2, <1>3, <1>6
  <2> QED
    BY <1>3, <1>5, <1>8, <2>1, QuotientIs
<1>10. (n * (a * o + s) + t) % n = t
  <2>1. a * o + s \in Int
    BY <1>2, <1>3, <1>6
  <2> QED
    BY <1>2, <1>6, <2>1, QuotientIs
<1> QED
  BY <1>7, <1>9, <1>10 DEF p, n, b

\* The two nibbles of a byte of a coordinate.
LEMMA ByteDigits ==
    ASSUME NEW u \in Nat, NEW k \in 0 .. TreeDepth - 1
    PROVE  /\ ((u \div Power[k]) % ByteSize) \div Nibbles = (u \div Power[k + 1]) % Nibbles
           /\ ((u \div Power[k]) % ByteSize) % Nibbles = (u \div Power[k]) % Nibbles
<1> DEFINE x == u \div Power[k]
           n == Nibbles
           p == Power[k]
<1>1. p \in Nat \ {0} /\ n \in Nat \ {0} /\ Power[k + 1] = p * n
  <2>1. k \in 0 .. TreeDepth /\ k + 1 \in 0 .. TreeDepth
    BY DepthType
  <2>2. p \in Nat \ {0} /\ Power[k + 1] = n * p /\ n \in Nat \ {0}
    BY <2>1, PowerIs, PowerType, DepthType
  <2> QED
    BY <2>2
<1>2. x \in Nat
  BY <1>1, Division, Zenon
<1>3. (x % (n * n)) \div n = (x \div n) % n /\ (x % (n * n)) % n = x % n
  <2> HIDE DEF x, n
  <2> QED
    BY <1>1, <1>2, Remainders, Zenon
<1>4. x \div n = u \div (p * n)
  <2> HIDE DEF n, p
  <2> QED
    BY <1>1, QuotientOfQuotient, Zenon DEF p
<1> QED
  BY <1>1, <1>3, <1>4 DEF ByteSize

LEMMA HighBytes ==
    ASSUME NEW c \in Coords, NEW i \in 0 .. CoordBytes - 1
    PROVE  CoordByte(c, i) = (Unsigned(c[1]) \div Power[2 * (CoordBytes - 1 - i)]) % ByteSize
<1>1. CoordBytes \in Nat \ {0} /\ i = CoordBytes * 0 + i
  BY WidthAssumption
<1>2. i \div CoordBytes = 0 /\ i % CoordBytes = i
  BY <1>1, QuotientIs
<1> QED
  BY <1>2 DEF CoordByte

LEMMA LowBytes ==
    ASSUME NEW c \in Coords, NEW i \in 0 .. CoordBytes - 1
    PROVE  CoordByte(c, CoordBytes + i)
              = (Unsigned(c[2]) \div Power[2 * (CoordBytes - 1 - i)]) % ByteSize
<1>1. CoordBytes \in Nat \ {0} /\ CoordBytes + i = CoordBytes * 1 + i
  BY WidthAssumption
<1>2. (CoordBytes + i) \div CoordBytes = 1 /\ (CoordBytes + i) % CoordBytes = i
  BY <1>1, QuotientIs
<1> QED
  BY <1>2 DEF CoordByte

\* The writer's nibbles, taken from bytes, are the digits of the reader's key.
LEMMA NibbleIsDigit ==
    ASSUME NEW c \in Coords, NEW d \in 0 .. TreeDepth - 1
    PROVE  CoordNibble(c, d) = Digit(c, d)
<1> DEFINE i == d \div 2
           e == d % 2
           h == 2 * CoordBytes
           key == CoordKey(c)
           k == TreeDepth - (d + 1)
<1>1. i \in Nat /\ e \in 0 .. 1 /\ d = 2 * i + e /\ (d % 2 = 0 <=> e = 0)
  BY Division
<1>2. CoordBytes \in Nat \ {0} /\ TreeDepth = h + h /\ h \in Nat
  BY WidthAssumption DEF TreeDepth
<1>3. Digit(c, d) = (key \div Power[k]) % Nibbles
  BY DEF Digit, Prefix
<1>4. Unsigned(c[1]) \in Nat /\ Unsigned(c[2]) \in Nat
  BY CoordsType, SizeType
<1>5. CASE i < CoordBytes
  <2> DEFINE m == 2 * (CoordBytes - 1 - i)
             u == Unsigned(c[1])
  <2>1. m \in 0 .. TreeDepth - 1 /\ i \in 0 .. CoordBytes - 1
        /\ m + 1 \in 0 .. h /\ m \in 0 .. h /\ k = h + (m + 1 - e)
    BY <1>1, <1>2, <1>5
  <2>2. CoordByte(c, i) = (u \div Power[m]) % ByteSize
    BY <2>1, HighBytes
  <2>3. CoordByte(c, i) \div Nibbles = (u \div Power[m + 1]) % Nibbles
        /\ CoordByte(c, i) % Nibbles = (u \div Power[m]) % Nibbles
    <3> HIDE DEF m, u, i
    <3> QED
      BY <1>4, <2>1, <2>2, ByteDigits DEF u
  <2>4. CASE e = 0
    <3>1. CoordNibble(c, d) = CoordByte(c, i) \div Nibbles
      BY <1>1, <2>4 DEF CoordNibble
    <3>2. k = h + (m + 1)
      BY <2>1, <2>4
    <3>3. key \div Power[h + (m + 1)] = u \div Power[m + 1]
      <4> HIDE DEF m
      <4> QED
        BY <2>1, HighDigit
    <3> QED
      BY <1>3, <2>3, <3>1, <3>2, <3>3
  <2>5. CASE e = 1
    <3>1. CoordNibble(c, d) = CoordByte(c, i) % Nibbles
      BY <1>1, <2>5 DEF CoordNibble
    <3>2. k = h + m
      BY <2>1, <2>5
    <3>3. key \div Power[h + m] = u \div Power[m]
      <4> HIDE DEF m
      <4> QED
        BY <2>1, HighDigit
    <3> QED
      BY <1>3, <2>3, <3>1, <3>2, <3>3
  <2> QED
    BY <1>1, <2>4, <2>5
<1>6. CASE i >= CoordBytes
  <2> DEFINE j == i - CoordBytes
             m == 2 * (CoordBytes - 1 - j)
             u == Unsigned(c[2])
  <2>1. m \in 0 .. TreeDepth - 1 /\ j \in 0 .. CoordBytes - 1 /\ i = CoordBytes + j
        /\ m + 1 \in 0 .. h - 1 /\ m \in 0 .. h - 1 /\ k = m + 1 - e
    BY <1>1, <1>2, <1>6
  <2>2. CoordByte(c, i) = (u \div Power[m]) % ByteSize
    <3> HIDE DEF j
    <3>1. CoordByte(c, CoordBytes + j) = (Unsigned(c[2]) \div Power[2 * (CoordBytes - 1 - j)]) % ByteSize
      BY <2>1, LowBytes
    <3> QED
      BY <2>1, <3>1
  <2>3. CoordByte(c, i) \div Nibbles = (u \div Power[m + 1]) % Nibbles
        /\ CoordByte(c, i) % Nibbles = (u \div Power[m]) % Nibbles
    <3> HIDE DEF m, u, i, j
    <3> QED
      BY <1>4, <2>1, <2>2, ByteDigits DEF u
  <2>4. CASE e = 0
    <3>1. CoordNibble(c, d) = CoordByte(c, i) \div Nibbles
      BY <1>1, <2>4 DEF CoordNibble
    <3>2. k = m + 1
      BY <2>1, <2>4
    <3>3. (key \div Power[m + 1]) % Nibbles = (u \div Power[m + 1]) % Nibbles
      <4> HIDE DEF m
      <4> QED
        BY <2>1, LowDigit
    <3> QED
      BY <1>3, <2>3, <3>1, <3>2, <3>3
  <2>5. CASE e = 1
    <3>1. CoordNibble(c, d) = CoordByte(c, i) % Nibbles
      BY <1>1, <2>5 DEF CoordNibble
    <3>2. k = m
      BY <2>1, <2>5
    <3>3. (key \div Power[m]) % Nibbles = (u \div Power[m]) % Nibbles
      <4> HIDE DEF m
      <4> QED
        BY <2>1, LowDigit
    <3> QED
      BY <1>3, <2>3, <3>1, <3>2, <3>3
  <2> QED
    BY <1>1, <2>4, <2>5
<1> QED
  BY <1>1, <1>2, <1>5, <1>6

\* Coordinates whose calls are still together share a prefix of their keys.
LEMMA SamePathIs ==
    ASSUME NEW a \in Coords, NEW b \in Coords, NEW d \in 0 .. TreeDepth
    PROVE  SamePath(a, b, d) <=> Prefix(a, d) = Prefix(b, d)
<1> DEFINE S == {n \in 0 .. TreeDepth : SamePath(a, b, n) <=> Prefix(a, n) = Prefix(b, n)}
<1>1. 0 \in S
  BY PrefixEnds, DepthType DEF SamePath
<1>2. ASSUME NEW n \in 0 .. TreeDepth - 1, n \in S
      PROVE  n + 1 \in S
  <2>1. SamePath(a, b, n + 1) <=> SamePath(a, b, n) /\ CoordNibble(a, n) = CoordNibble(b, n)
    BY DEF SamePath
  <2>2. CoordNibble(a, n) = Digit(a, n) /\ CoordNibble(b, n) = Digit(b, n)
    BY NibbleIsDigit
  <2> QED
    BY <1>2, <2>1, <2>2, PrefixesAgree, DepthType
<1>3. 0 .. TreeDepth \subseteq S
  <2> HIDE DEF S
  <2> QED
    BY <1>1, <1>2, UpFrom0, DepthType
<1> QED
  BY <1>3

(* The recursions over depths.                                              *)

LEMMA PathIs ==
    ASSUME NEW base, NEW c
    PROVE  /\ PathTo(base, c)[0] = base
           /\ \A d \in 0 .. TreeDepth - 1 :
                 PathTo(base, c)[d + 1] = ChildAt(PathTo(base, c)[d], CoordNibble(c, d))
<1> DEFINE Step(x, d) == ChildAt(x, CoordNibble(c, d - 1))
           UpTo(f, n) == f = [d \in 0 .. n |-> IF d = 0 THEN base ELSE Step(f[d - 1], d)]
           S == {n \in Nat : \E f : UpTo(f, n)}
           Is(f) == UpTo(f, TreeDepth)
<1>1. PathTo(base, c) = CHOOSE f : Is(f)
  BY DEF PathTo
<1> HIDE DEF Step
<1>2. 0 \in S
  <2> DEFINE f == [d \in 0 .. 0 |-> base]
  <2>1. UpTo(f, 0)
    OBVIOUS
  <2> HIDE DEF f, UpTo
  <2> QED
    BY <2>1
<1>3. ASSUME NEW n \in Nat, n \in S
      PROVE  n + 1 \in S
  <2>1. PICK f : UpTo(f, n)
    BY <1>3
  <2> DEFINE g == [d \in 0 .. n + 1 |-> IF d = n + 1 THEN Step(f[n], n + 1) ELSE f[d]]
  <2>2. UpTo(g, n + 1)
    <3>1. \A d \in 0 .. n : g[d] = f[d]
      OBVIOUS
    <3>2. g[n + 1] = Step(f[n], n + 1)
      OBVIOUS
    <3>3. \A d \in 0 .. n + 1 : g[d] = IF d = 0 THEN base ELSE Step(g[d - 1], d)
      BY <2>1, <3>1, <3>2
    <3> QED
      BY <3>3
  <2> QED
    <3> HIDE DEF UpTo, g
    <3> QED
      BY <2>2
<1>4. TreeDepth \in S
  <2> HIDE DEF S
  <2> QED
    BY <1>2, <1>3, Induction, DepthType
<1>5. Is(PathTo(base, c))
  <2>1. \E f : Is(f)
    BY <1>4
  <2> HIDE DEF Is
  <2> QED
    BY <1>1, <2>1
<1> QED
  BY <1>5, DepthType DEF Step

\* The nodes of the tree of a world at one depth, from those one below.
ChosenKids(below, cs, d) ==
    {<<n, below[CHOOSE x \in cs : Digit(x, d) = n]>> : n \in {Digit(x, d) : x \in cs}}

SubtreesAt(w, below, d) ==
    [c \in Coords |-> IF d = TreeDepth THEN Leaf(c, Blob(w[c]))
                      ELSE Branch(ChosenKids(below, Below(w, c, d), d))]

LEMMA SubtreeExists ==
    ASSUME NEW w
    PROVE  \E f : f = [d \in 0 .. TreeDepth |-> SubtreesAt(w, f[d + 1], d)]
<1> DEFINE From(f, n) == f = [d \in TreeDepth - n .. TreeDepth |-> SubtreesAt(w, f[d + 1], d)]
           S == {n \in Nat : \E f : From(f, n)}
<1>0. \A x, y : SubtreesAt(w, x, TreeDepth) = SubtreesAt(w, y, TreeDepth)
  BY DEF SubtreesAt
<1>1. 0 \in S
  <2> DEFINE f == [d \in TreeDepth - 0 .. TreeDepth |-> SubtreesAt(w, 0, TreeDepth)]
  <2>1. From(f, 0)
    <3>1. \A d \in TreeDepth - 0 .. TreeDepth : d = TreeDepth
      BY DepthType
    <3>2. \A d \in TreeDepth - 0 .. TreeDepth : f[d] = SubtreesAt(w, f[d + 1], d)
      BY <1>0, <3>1
    <3> QED
      BY <3>2
  <2> HIDE DEF f, From
  <2> QED
    BY <2>1
<1>2. ASSUME NEW n \in Nat, n \in S
      PROVE  n + 1 \in S
  <2>1. PICK f : From(f, n)
    BY <1>2
  <2> DEFINE k == TreeDepth - (n + 1)
             g == [d \in k .. TreeDepth |-> IF d = k THEN SubtreesAt(w, f[k + 1], k) ELSE f[d]]
  <2>2. From(g, n + 1)
    <3>1. k \in Int /\ k + 1 = TreeDepth - n /\ k < TreeDepth
      BY DepthType
    <3> HIDE DEF k
    <3>2. \A d \in k + 1 .. TreeDepth : g[d] = f[d] /\ f[d] = SubtreesAt(w, f[d + 1], d)
      BY <2>1, <3>1, DepthType
    <3>3. g[k] = SubtreesAt(w, f[k + 1], k) /\ g[k + 1] = f[k + 1]
      BY <3>1, <3>2, DepthType
    <3>4. ASSUME NEW d \in k .. TreeDepth
          PROVE  g[d] = SubtreesAt(w, g[d + 1], d)
      <4>1. CASE d = k
        BY <3>3, <4>1
      <4>2. CASE d > k /\ d < TreeDepth
        <5>1. d \in k + 1 .. TreeDepth /\ d + 1 \in k + 1 .. TreeDepth
          BY <3>1, <4>2, DepthType
        <5> QED
          BY <3>2, <5>1
      <4>3. CASE d = TreeDepth
        <5>1. d \in k + 1 .. TreeDepth
          BY <3>1, <4>3, DepthType
        <5> QED
          BY <1>0, <3>2, <4>3, <5>1
      <4> QED
        BY <3>1, <4>1, <4>2, <4>3, DepthType
    <3> QED
      BY <3>1, <3>4 DEF k
  <2> QED
    <3> HIDE DEF From, g
    <3> QED
      BY <2>2
<1>3. TreeDepth \in S
  <2> HIDE DEF S
  <2> QED
    BY <1>1, <1>2, Induction, DepthType
<1>4. TreeDepth - TreeDepth = 0
  BY DepthType
<1> QED
  BY <1>3, <1>4

LEMMA SubtreeIs ==
    ASSUME NEW w
    PROVE  /\ \A c \in Coords : Subtree(w)[TreeDepth][c] = Leaf(c, Blob(w[c]))
           /\ \A d \in 0 .. TreeDepth - 1 : \A c \in Coords :
                 Subtree(w)[d][c] = Branch(ChosenKids(Subtree(w)[d + 1], Below(w, c, d), d))
<1> DEFINE Is(f) == f = [d \in 0 .. TreeDepth |-> SubtreesAt(w, f[d + 1], d)]
<1>1. Is(Subtree(w))
  <2>1. \E f : Is(f)
    BY SubtreeExists
  <2>2. Is(CHOOSE f : Is(f))
    <3> HIDE DEF Is
    <3> QED
      BY <2>1
  <2> QED
    BY <2>2 DEF Subtree, SubtreesAt, ChosenKids
<1>2. TreeDepth \in 0 .. TreeDepth /\ \A d \in 0 .. TreeDepth - 1 : d \in 0 .. TreeDepth /\ d # TreeDepth
  BY DepthType
<1>3. \A d \in 0 .. TreeDepth : Subtree(w)[d] = SubtreesAt(w, Subtree(w)[d + 1], d)
  BY <1>1
<1> QED
  BY <1>2, <1>3 DEF SubtreesAt

\* The calls at one depth, from those one below.
CallsAt(base, changes, below, d) ==
    [c \in {x[1] : x \in changes} |->
        LET existing == PathTo(base, c)[d]
            group == {x \in changes : SamePath(x[1], c, d)}
        IN IF d = TreeDepth THEN UpdateLeaf(existing, group)
           ELSE IF existing # None /\ ~IsBranch(existing) THEN <<Bail, {}>>
           ELSE UpdateBranch(existing,
                  {<<n, below[(CHOOSE x \in group : CoordNibble(x[1], d) = n)[1]]>>
                     : n \in {CoordNibble(x[1], d) : x \in group}})]

LEMMA CallsExist ==
    ASSUME NEW base, NEW changes
    PROVE  \E f : f = [d \in 0 .. TreeDepth |-> CallsAt(base, changes, f[d + 1], d)]
<1> DEFINE From(f, n) == f = [d \in TreeDepth - n .. TreeDepth |-> CallsAt(base, changes, f[d + 1], d)]
           S == {n \in Nat : \E f : From(f, n)}
<1>0. \A x, y : CallsAt(base, changes, x, TreeDepth) = CallsAt(base, changes, y, TreeDepth)
  BY DEF CallsAt
<1>1. 0 \in S
  <2> DEFINE f == [d \in TreeDepth - 0 .. TreeDepth |-> CallsAt(base, changes, 0, TreeDepth)]
  <2>1. From(f, 0)
    <3>1. \A d \in TreeDepth - 0 .. TreeDepth : d = TreeDepth
      BY DepthType
    <3>2. \A d \in TreeDepth - 0 .. TreeDepth : f[d] = CallsAt(base, changes, f[d + 1], d)
      BY <1>0, <3>1
    <3> QED
      BY <3>2
  <2> HIDE DEF f, From
  <2> QED
    BY <2>1
<1>2. ASSUME NEW n \in Nat, n \in S
      PROVE  n + 1 \in S
  <2>1. PICK f : From(f, n)
    BY <1>2
  <2> DEFINE k == TreeDepth - (n + 1)
             g == [d \in k .. TreeDepth |-> IF d = k THEN CallsAt(base, changes, f[k + 1], k) ELSE f[d]]
  <2>2. From(g, n + 1)
    <3>1. k \in Int /\ k + 1 = TreeDepth - n /\ k < TreeDepth
      BY DepthType
    <3> HIDE DEF k
    <3>2. \A d \in k + 1 .. TreeDepth : g[d] = f[d] /\ f[d] = CallsAt(base, changes, f[d + 1], d)
      BY <2>1, <3>1, DepthType
    <3>3. g[k] = CallsAt(base, changes, f[k + 1], k) /\ g[k + 1] = f[k + 1]
      BY <3>1, <3>2, DepthType
    <3>4. ASSUME NEW d \in k .. TreeDepth
          PROVE  g[d] = CallsAt(base, changes, g[d + 1], d)
      <4>1. CASE d = k
        BY <3>3, <4>1
      <4>2. CASE d > k /\ d < TreeDepth
        <5>1. d \in k + 1 .. TreeDepth /\ d + 1 \in k + 1 .. TreeDepth
          BY <3>1, <4>2, DepthType
        <5> QED
          BY <3>2, <5>1
      <4>3. CASE d = TreeDepth
        <5>1. d \in k + 1 .. TreeDepth
          BY <3>1, <4>3, DepthType
        <5> QED
          BY <1>0, <3>2, <4>3, <5>1
      <4> QED
        BY <3>1, <4>1, <4>2, <4>3, DepthType
    <3> QED
      BY <3>1, <3>4 DEF k
  <2> QED
    <3> HIDE DEF From, g
    <3> QED
      BY <2>2
<1>3. TreeDepth \in S
  <2> HIDE DEF S
  <2> QED
    BY <1>1, <1>2, Induction, DepthType
<1>4. TreeDepth - TreeDepth = 0
  BY DepthType
<1> QED
  BY <1>3, <1>4


LEMMA CallsAre ==
    ASSUME NEW base, NEW changes
    PROVE  \A d \in 0 .. TreeDepth :
              Calls(base, changes)[d] = CallsAt(base, changes, Calls(base, changes)[d + 1], d)
<1> DEFINE Is(f) == f = [d \in 0 .. TreeDepth |-> CallsAt(base, changes, f[d + 1], d)]
<1>1. Calls(base, changes) = CHOOSE f : Is(f)
  BY DEF Calls, CallsAt
<1>2. \E f : Is(f)
  BY CallsExist
<1>3. Is(Calls(base, changes))
  <2> HIDE DEF Is
  <2> QED
    BY <1>1, <1>2
<1> QED
  BY <1>3

\* The nodes popped at one depth, from those one above.
LevelAfter(above, d) ==
    UNION {{<<e[2], x[2] + e[1] * Power[TreeDepth - d]>>
               : e \in IF IsBranch(x[1]) THEN x[1][2] ELSE {}}
            : x \in above}

LEMMA LevelIs ==
    ASSUME NEW tree
    PROVE  /\ Level(tree)[0] = {<<tree, 0>>}
           /\ \A d \in 0 .. TreeDepth - 1 : Level(tree)[d + 1] = LevelAfter(Level(tree)[d], d + 1)
<1> DEFINE Start == {<<tree, 0>>}
           UpTo(f, n) == f = [d \in 0 .. n |-> IF d = 0 THEN Start ELSE LevelAfter(f[d - 1], d)]
           S == {n \in Nat : \E f : UpTo(f, n)}
           Is(f) == UpTo(f, TreeDepth)
<1>1. Level(tree) = CHOOSE f : Is(f)
  BY DEF Level, LevelAfter
<1> HIDE DEF Start
<1>2. 0 \in S
  <2> DEFINE f == [d \in 0 .. 0 |-> Start]
  <2>1. UpTo(f, 0)
    OBVIOUS
  <2> HIDE DEF f, UpTo
  <2> QED
    BY <2>1
<1>3. ASSUME NEW n \in Nat, n \in S
      PROVE  n + 1 \in S
  <2>1. PICK f : UpTo(f, n)
    BY <1>3
  <2> DEFINE g == [d \in 0 .. n + 1 |-> IF d = n + 1 THEN LevelAfter(f[n], n + 1) ELSE f[d]]
  <2>2. UpTo(g, n + 1)
    <3>1. \A d \in 0 .. n : g[d] = f[d]
      OBVIOUS
    <3>2. g[n + 1] = LevelAfter(f[n], n + 1)
      OBVIOUS
    <3>3. \A d \in 0 .. n + 1 : g[d] = IF d = 0 THEN Start ELSE LevelAfter(g[d - 1], d)
      BY <2>1, <3>1, <3>2
    <3> QED
      BY <3>3
  <2> QED
    <3> HIDE DEF UpTo, g
    <3> QED
      BY <2>2
<1>4. TreeDepth \in S
  <2> HIDE DEF S
  <2> QED
    BY <1>2, <1>3, Induction, DepthType
<1>5. Is(Level(tree))
  <2>1. \E f : Is(f)
    BY <1>4
  <2> HIDE DEF Is
  <2> QED
    BY <1>1, <2>1
<1>6. Level(tree)[0] = Start
  BY <1>5, DepthType
<1>7. ASSUME NEW d \in 0 .. TreeDepth - 1
      PROVE  Level(tree)[d + 1] = LevelAfter(Level(tree)[d], d + 1)
  <2>1. d + 1 \in 0 .. TreeDepth /\ d + 1 # 0 /\ (d + 1) - 1 = d
    BY DepthType
  <2>2. Level(tree)[d + 1] = LevelAfter(Level(tree)[(d + 1) - 1], d + 1)
    BY <1>5, <2>1
  <2> QED
    BY <2>1, <2>2
<1> QED
  BY <1>6, <1>7 DEF Start

(* The tree of a world.                                                     *)

LEMMA Nodes ==
    /\ \A k : IsBranch(Branch(k)) /\ Branch(k)[2] = k /\ Branch(k) # None /\ Branch(k) # Bail
    /\ \A c, b : /\ ~IsBranch(Leaf(c, b)) /\ IsLeafAt(Leaf(c, b), c)
                 /\ Leaf(c, b)[2] = c /\ Leaf(c, b)[3] = b
                 /\ Leaf(c, b) # None /\ Leaf(c, b) # Bail
    /\ \A k, c, b : Branch(k) # Leaf(c, b)
    /\ ~IsBranch(None) /\ None # Bail
    /\ \A p : Blob(p) # None /\ Blob(p)[2] = p
BY DEF IsBranch, IsLeafAt, Branch, Leaf, None, Bail, Blob

Kids(w, c, d) == {<<Digit(x, d), Subtree(w)[d + 1][x]>> : x \in Below(w, c, d)}

\* None where the world has no chunk.
Node(w, c, d) == IF Below(w, c, d) = {} THEN None ELSE Subtree(w)[d][c]

LEMMA BelowIs ==
    ASSUME NEW w, NEW c \in Coords, NEW d \in 0 .. TreeDepth
    PROVE  /\ Below(w, c, d) \subseteq Coords
           /\ \A x \in Below(w, c, d) : Prefix(x, d) = Prefix(c, d) /\ x \in Below(w, x, d)
           /\ d = TreeDepth => Below(w, c, d) = Occupied(w) \intersect {c}
BY WholePrefix DEF Below, Occupied

LEMMA BelowStep ==
    ASSUME NEW w, NEW c \in Coords, NEW d \in 0 .. TreeDepth - 1
    PROVE  Below(w, c, d + 1) = {x \in Below(w, c, d) : Digit(x, d) = Digit(c, d)}
BY PrefixesAgree DEF Below, Occupied

\* One prefix, one node.
LEMMA PrefixGivesNode ==
    ASSUME NEW w, NEW d \in 0 .. TreeDepth, NEW a \in Coords, NEW b \in Coords,
           Prefix(a, d) = Prefix(b, d)
    PROVE  /\ Below(w, a, d) = Below(w, b, d)
           /\ Subtree(w)[d][a] = Subtree(w)[d][b]
           /\ Node(w, a, d) = Node(w, b, d)
<1>1. Below(w, a, d) = Below(w, b, d)
  BY DEF Below
<1>2. Subtree(w)[d][a] = Subtree(w)[d][b]
  <2>1. CASE d = TreeDepth
    BY <2>1, WholePrefix
  <2>2. CASE d # TreeDepth
    <3>1. d \in 0 .. TreeDepth - 1
      BY <2>2, DepthType
    <3> QED
      BY <1>1, <3>1, SubtreeIs
  <2> QED
    BY <2>1, <2>2
<1> QED
  BY <1>1, <1>2 DEF Node

LEMMA SubtreeIsKids ==
    ASSUME NEW w, NEW d \in 0 .. TreeDepth - 1, NEW c \in Coords
    PROVE  Subtree(w)[d][c] = Branch(Kids(w, c, d))
<1> DEFINE chosen(n) == CHOOSE x \in Below(w, c, d) : Digit(x, d) = n
           k == {<<n, Subtree(w)[d + 1][chosen(n)]>> : n \in {Digit(x, d) : x \in Below(w, c, d)}}
<1>1. Subtree(w)[d][c] = Branch(k)
  <2>1. Subtree(w)[d][c] = Branch(ChosenKids(Subtree(w)[d + 1], Below(w, c, d), d))
    BY SubtreeIs
  <2>2. ChosenKids(Subtree(w)[d + 1], Below(w, c, d), d) = k
    BY DEF ChosenKids
  <2> HIDE DEF k
  <2> QED
    BY <2>1, <2>2
<1>2. d \in 0 .. TreeDepth /\ d + 1 \in 0 .. TreeDepth
  BY DepthType
<1>3. ASSUME NEW x \in Below(w, c, d)
      PROVE  Subtree(w)[d + 1][chosen(Digit(x, d))] = Subtree(w)[d + 1][x]
  <2>1. chosen(Digit(x, d)) \in Below(w, c, d) /\ Digit(chosen(Digit(x, d)), d) = Digit(x, d)
    OBVIOUS
  <2> HIDE DEF chosen
  <2>2. Prefix(chosen(Digit(x, d)), d + 1) = Prefix(x, d + 1)
    BY <1>2, <2>1, BelowIs, PrefixesAgree
  <2> QED
    BY <1>2, <2>1, <2>2, BelowIs, PrefixGivesNode
<1>4. k = Kids(w, c, d)
  <2> HIDE DEF chosen
  <2>1. \A e : e \in k => e \in Kids(w, c, d)
    BY <1>3 DEF Kids
  <2>2. \A e : e \in Kids(w, c, d) => e \in k
    BY <1>3 DEF Kids
  <2> QED
    BY <2>1, <2>2
<1> QED
  BY <1>1, <1>4

\* A node depends on the chunks below it and on nothing else.
Agree(w, v, c, d) == \A x \in Coords : Prefix(x, d) = Prefix(c, d) => w[x] = v[x]

LEMMA WorldGivesNode ==
    ASSUME NEW w, NEW v, NEW d \in 0 .. TreeDepth, NEW c \in Coords, Agree(w, v, c, d)
    PROVE  /\ Below(w, c, d) = Below(v, c, d)
           /\ Subtree(w)[d][c] = Subtree(v)[d][c]
           /\ Node(w, c, d) = Node(v, c, d)
<1> DEFINE S == {n \in 0 .. TreeDepth :
                    \A a \in Coords : Agree(w, v, a, n) => Subtree(w)[n][a] = Subtree(v)[n][a]}
<1>1. ASSUME NEW a \in Coords, NEW n \in 0 .. TreeDepth, Agree(w, v, a, n)
      PROVE  Below(w, a, n) = Below(v, a, n)
  BY <1>1 DEF Agree, Below, Occupied
<1>2. TreeDepth \in S
  <2>1. \A a \in Coords : Agree(w, v, a, TreeDepth) => w[a] = v[a]
    BY DEF Agree
  <2> QED
    BY <2>1, SubtreeIs, DepthType
<1>3. ASSUME NEW n \in 0 .. TreeDepth - 1, n + 1 \in S
      PROVE  n \in S
  <2>0. n \in 0 .. TreeDepth /\ n + 1 \in 0 .. TreeDepth
    BY DepthType
  <2> SUFFICES ASSUME NEW a \in Coords, Agree(w, v, a, n)
               PROVE  Subtree(w)[n][a] = Subtree(v)[n][a]
    BY <2>0
  <2>1. Below(w, a, n) = Below(v, a, n)
    BY <1>1, <2>0
  <2>2. ASSUME NEW x \in Below(w, a, n)
        PROVE  Subtree(w)[n + 1][x] = Subtree(v)[n + 1][x]
    <3>1. x \in Coords /\ Prefix(x, n) = Prefix(a, n)
      BY DEF Below, Occupied
    <3>2. Agree(w, v, x, n + 1)
      BY <3>1, PrefixesAgree DEF Agree
    <3> QED
      BY <1>3, <3>1, <3>2
  <2>3. Kids(w, a, n) = Kids(v, a, n)
    BY <2>1, <2>2 DEF Kids
  <2> QED
    BY <2>3, SubtreeIsKids
<1>4. 0 .. TreeDepth \subseteq S
  <2> HIDE DEF S
  <2> QED
    BY <1>2, <1>3, DownTo0, DepthType
<1>5. Subtree(w)[d][c] = Subtree(v)[d][c]
  BY <1>4
<1> QED
  BY <1>1, <1>5 DEF Node

LEMMA NodeIs ==
    ASSUME NEW w, NEW c \in Coords, NEW d \in 0 .. TreeDepth
    PROVE  /\ Node(w, c, d) # Bail
           /\ Node(w, c, d) = None <=> Below(w, c, d) = {}
           /\ d = TreeDepth => Node(w, c, d) = IF c \in Occupied(w) THEN Leaf(c, Blob(w[c])) ELSE None
           /\ d # TreeDepth => /\ Node(w, c, d) = NonEmptyBranch(Kids(w, c, d))
                               /\ Kids(w, c, d) = {} <=> Below(w, c, d) = {}
<1>1. CASE d = TreeDepth
  <2>1. Subtree(w)[d][c] = Leaf(c, Blob(w[c]))
    BY <1>1, SubtreeIs
  <2>2. Below(w, c, d) = Occupied(w) \intersect {c}
    BY <1>1, BelowIs
  <2> QED
    BY <1>1, <2>1, <2>2, Nodes DEF Node
<1>2. CASE d # TreeDepth
  <2>1. d \in 0 .. TreeDepth - 1
    BY <1>2, DepthType
  <2>2. Subtree(w)[d][c] = Branch(Kids(w, c, d))
    BY <2>1, SubtreeIsKids
  <2>3. Kids(w, c, d) = {} <=> Below(w, c, d) = {}
    BY DEF Kids
  <2> QED
    BY <1>2, <2>2, <2>3, Nodes DEF Node, NonEmptyBranch
<1> QED
  BY <1>1, <1>2

LEMMA CanonicalIs ==
    ASSUME NEW w, NEW c \in Coords
    PROVE  /\ CanonicalTree(w) = Branch(Kids(w, c, 0))
           /\ Kids(w, c, 0) = {} <=> Occupied(w) = {}
<1>1. \A x \in Coords : Prefix(x, 0) = Prefix(c, 0)
  BY PrefixEnds
<1>2. Below(w, c, 0) = Occupied(w)
  BY <1>1 DEF Below, Occupied
<1>3. Kids(w, c, 0) = {} <=> Occupied(w) = {}
  BY <1>2 DEF Kids
<1>4. 0 \in 0 .. TreeDepth /\ 0 \in 0 .. TreeDepth - 1
  BY DepthType
<1>5. \A x \in Occupied(w) : Subtree(w)[0][x] = Branch(Kids(w, c, 0))
  <2>1. \A x \in Occupied(w) : x \in Coords
    BY DEF Occupied
  <2>2. Subtree(w)[0][c] = Branch(Kids(w, c, 0))
    BY <1>4, SubtreeIsKids
  <2> QED
    BY <1>1, <1>4, <2>1, <2>2, PrefixGivesNode
<1> QED
  BY <1>3, <1>5 DEF CanonicalTree, EmptyTree

(* Writing.                                                                 *)

\* What a call for c at depth d finds in the tree of w.
IsKidsOf(node, w, c, d) ==
    node = Branch(Kids(w, c, d)) \/ (node = None /\ Kids(w, c, d) = {})

BaseOf(base, w) == base = CanonicalTree(w) \/ (base = None /\ Occupied(w) = {})

\* The changes that lead from one world to another.
ChangesTo(w, v, changes) ==
    /\ \A x \in changes :
          /\ x[1] \in Coords
          /\ x = <<x[1], IF v[x[1]] = NoChunk THEN None ELSE Blob(v[x[1]])>>
    /\ \A c \in Coords : w[c] = v[c] \/ \E x \in changes : x[1] = c

LEMMA ChildIs ==
    ASSUME NEW w, NEW c \in Coords, NEW d \in 0 .. TreeDepth - 1, NEW node,
           IsKidsOf(node, w, c, d)
    PROVE  ChildAt(node, CoordNibble(c, d)) = Node(w, c, d + 1)
<1> DEFINE n == CoordNibble(c, d)
           below == Below(w, c, d + 1)
           sub == Subtree(w)[d + 1]
           kids == Kids(w, c, d)
<1>1. d \in 0 .. TreeDepth /\ d + 1 \in 0 .. TreeDepth /\ n = Digit(c, d)
  BY NibbleIsDigit, DepthType
<1>2. \A e \in kids : e[1] = n => e[2] = sub[c] /\ below # {}
  <2>1. SUFFICES ASSUME NEW x \in Below(w, c, d), Digit(x, d) = n
                 PROVE  sub[x] = sub[c] /\ below # {}
    BY DEF Kids
  <2>2. x \in Coords /\ x \in below
    BY <1>1, <2>1, BelowIs, BelowStep
  <2>3. Prefix(x, d + 1) = Prefix(c, d + 1)
    BY <1>1, <2>2, BelowIs
  <2> QED
    BY <1>1, <2>2, <2>3, PrefixGivesNode
<1>3. below # {} => \E e \in kids : e[1] = n
  <2>1. SUFFICES ASSUME NEW x \in below PROVE \E e \in kids : e[1] = n
    OBVIOUS
  <2>2. x \in Below(w, c, d) /\ Digit(x, d) = n
    BY <1>1, BelowStep
  <2>3. <<Digit(x, d), sub[x]>> \in kids
    BY <2>2 DEF Kids
  <2> QED
    BY <2>2, <2>3
<1> HIDE DEF n, below, sub, kids
<1>4. CASE node = None
  <2>1. kids = {}
    BY <1>4, Nodes DEF IsKidsOf, kids
  <2>2. below = {}
    BY <1>3, <2>1
  <2> QED
    BY <1>4, <2>2, Nodes DEF ChildAt, Node, below
<1>5. CASE node # None
  <2>1. IsBranch(node) /\ node[2] = kids
    BY <1>5, Nodes DEF IsKidsOf, kids
  <2>2. CASE \E e \in kids : e[1] = n
    <3> DEFINE k == CHOOSE e \in kids : e[1] = n
    <3>1. k \in kids /\ k[1] = n
      BY <2>2
    <3>2. ChildAt(node, n) = k[2]
      BY <2>1, <2>2 DEF ChildAt
    <3> HIDE DEF k
    <3> QED
      BY <1>2, <3>1, <3>2 DEF Node, n, below, sub
  <2>3. CASE ~ \E e \in kids : e[1] = n
    <3>1. below = {} /\ ChildAt(node, n) = None
      BY <1>3, <2>1, <2>3 DEF ChildAt
    <3> QED
      BY <3>1 DEF Node, n, below
  <2> QED
    BY <2>2, <2>3
<1> QED
  BY <1>4, <1>5

LEMMA NodeIsKids ==
    ASSUME NEW w, NEW c \in Coords, NEW d \in 0 .. TreeDepth - 1
    PROVE  IsKidsOf(Node(w, c, d), w, c, d)
<1>1. d \in 0 .. TreeDepth /\ d # TreeDepth
  BY DepthType
<1>2. Node(w, c, d) = NonEmptyBranch(Kids(w, c, d))
  BY <1>1, NodeIs
<1> QED
  BY <1>2 DEF IsKidsOf, NonEmptyBranch

LEMMA BaseIsKids ==
    ASSUME NEW w, NEW c \in Coords, NEW base, BaseOf(base, w)
    PROVE  IsKidsOf(base, w, c, 0)
BY CanonicalIs, Nodes DEF IsKidsOf, BaseOf

\* A call finds the node of the old world that its path leads to.
LEMMA PathFinds ==
    ASSUME NEW w, NEW c \in Coords, NEW base, BaseOf(base, w), NEW d \in 0 .. TreeDepth
    PROVE  /\ d # 0 => PathTo(base, c)[d] = Node(w, c, d)
           /\ d # TreeDepth => IsKidsOf(PathTo(base, c)[d], w, c, d)
<1> DEFINE S == {n \in 0 .. TreeDepth :
                    /\ n # 0 => PathTo(base, c)[n] = Node(w, c, n)
                    /\ n # TreeDepth => IsKidsOf(PathTo(base, c)[n], w, c, n)}
<1>1. 0 \in S
  BY PathIs, BaseIsKids, DepthType
<1>2. ASSUME NEW n \in 0 .. TreeDepth - 1, n \in S
      PROVE  n + 1 \in S
  <2>1. n + 1 \in 0 .. TreeDepth /\ n # TreeDepth
    BY DepthType
  <2>2. PathTo(base, c)[n + 1] = ChildAt(PathTo(base, c)[n], CoordNibble(c, n))
    BY PathIs
  <2>3. PathTo(base, c)[n + 1] = Node(w, c, n + 1)
    BY <1>2, <2>1, <2>2, ChildIs
  <2>4. n + 1 # TreeDepth => IsKidsOf(Node(w, c, n + 1), w, c, n + 1)
    <3>1. n + 1 # TreeDepth => n + 1 \in 0 .. TreeDepth - 1
      BY <2>1, DepthType
    <3> QED
      BY <3>1, NodeIsKids
  <2> QED
    BY <2>1, <2>3, <2>4
<1>3. 0 .. TreeDepth \subseteq S
  <2> HIDE DEF S
  <2> QED
    BY <1>1, <1>2, UpFrom0, DepthType
<1> QED
  BY <1>3

\* The group of a call.
GroupOf(changes, c, d) == {x \in changes : SamePath(x[1], c, d)}

LEMMA GroupIs ==
    ASSUME NEW w, NEW v, NEW changes, ChangesTo(w, v, changes),
           NEW c \in {x[1] : x \in changes}, NEW d \in 0 .. TreeDepth
    PROVE  /\ c \in Coords
           /\ \A x \in GroupOf(changes, c, d) :
                 x \in changes /\ x[1] \in Coords /\ Prefix(x[1], d) = Prefix(c, d)
           /\ \A x \in changes : Prefix(x[1], d) = Prefix(c, d) => x \in GroupOf(changes, c, d)
<1>1. c \in Coords /\ \A x \in changes : x[1] \in Coords
  BY DEF ChangesTo
<1> QED
  BY <1>1, SamePathIs DEF GroupOf

\* At the leaves.
LEMMA LeafCall ==
    ASSUME NEW w, NEW v, NEW changes, ChangesTo(w, v, changes),
           NEW base, BaseOf(base, w), NEW c \in {x[1] : x \in changes}
    PROVE  LET r == Calls(base, changes)[TreeDepth][c]
           IN  /\ r[1] = Node(v, c, TreeDepth)
               /\ r[2] = {r[1]} \ {None}
<1> DEFINE r == Calls(base, changes)[TreeDepth][c]
           existing == PathTo(base, c)[TreeDepth]
           group == GroupOf(changes, c, TreeDepth)
           new == IF v[c] = NoChunk THEN None ELSE Blob(v[c])
           change == <<c, new>>
<1>1. c \in Coords /\ TreeDepth \in 0 .. TreeDepth /\ TreeDepth # 0
  BY DepthType DEF ChangesTo
<1>2. r = UpdateLeaf(existing, group)
  <2>1. Calls(base, changes)[TreeDepth]
           = CallsAt(base, changes, Calls(base, changes)[TreeDepth + 1], TreeDepth)
    BY <1>1, CallsAre
  <2> QED
    BY <2>1 DEF CallsAt, GroupOf
<1>3. group = {change}
  <2>1. \A x \in changes : x[1] = c => x = change
    BY DEF ChangesTo
  <2>2. \A x \in group : x \in changes /\ x[1] = c
    BY <1>1, GroupIs, WholePrefix
  <2>3. PICK x \in changes : x[1] = c
    OBVIOUS
  <2>4. x \in group
    BY <1>1, <2>3, GroupIs
  <2> HIDE DEF group, change
  <2> QED
    BY <2>1, <2>2, <2>3, <2>4
<1>4. Cardinality(group) = 1 /\ (CHOOSE x \in group : TRUE) = change
  BY <1>3, FS_Singleton
<1>5. existing = None \/ IsLeafAt(existing, c)
  <2>1. existing = Node(w, c, TreeDepth)
    BY <1>1, PathFinds
  <2>2. Node(w, c, TreeDepth) = None \/ Node(w, c, TreeDepth) = Leaf(c, Blob(w[c]))
    BY <1>1, NodeIs
  <2> QED
    BY <2>1, <2>2, Nodes
<1>6. change[1] = c /\ change[2] = new
  OBVIOUS
<1> HIDE DEF r, existing, group, change, new
<1>7. r = IF new = None THEN <<None, {}>> ELSE <<Leaf(c, new), {Leaf(c, new)}>>
  <2> DEFINE chosen == CHOOSE x \in group : TRUE
             ok == Cardinality(group) = 1 /\ (existing = None \/ IsLeafAt(existing, chosen[1]))
  <2>1. UpdateLeaf(existing, group) =
           IF ~ok THEN <<Bail, {}>>
           ELSE IF chosen[2] = None THEN <<None, {}>>
           ELSE <<Leaf(chosen[1], chosen[2]), {Leaf(chosen[1], chosen[2])}>>
    BY DEF UpdateLeaf
  <2>2. chosen[1] = c /\ chosen[2] = new
    BY <1>4, <1>6
  <2>3. ok
    BY <1>4, <1>5, <2>2
  <2> HIDE DEF ok, chosen
  <2> QED
    BY <1>2, <2>1, <2>2, <2>3
<1>8. Node(v, c, TreeDepth) = IF v[c] = NoChunk THEN None ELSE Leaf(c, Blob(v[c]))
  BY <1>1, NodeIs DEF Occupied
<1>9. new = None <=> v[c] = NoChunk
  BY Nodes DEF new
<1> QED
  BY <1>7, <1>8, <1>9, Nodes DEF r, new

\* A branch, given that the calls below it return the nodes of the new world.
UpdatedKids(kids, results) ==
    {e \in kids : e[1] \notin {r[1] : r \in results}}
       \union {<<r[1], r[2][1]>> : r \in {x \in results : x[2][1] # None}}

ResultsFor(v, group, results, d) ==
    /\ \A r \in results : \E x \in group :
          r[1] = Digit(x[1], d) /\ r[2][1] = Node(v, x[1], d + 1)
    /\ \A x \in group : \E r \in results :
          r[1] = Digit(x[1], d) /\ r[2][1] = Node(v, x[1], d + 1)

LEMMA Untouched ==
    ASSUME NEW w, NEW v, NEW changes, ChangesTo(w, v, changes),
           NEW c \in {x[1] : x \in changes}, NEW d \in 0 .. TreeDepth - 1,
           NEW x \in Coords, Prefix(x, d) = Prefix(c, d),
           \A y \in GroupOf(changes, c, d) : Digit(y[1], d) # Digit(x, d)
    PROVE  /\ Below(w, x, d + 1) = Below(v, x, d + 1)
           /\ Subtree(w)[d + 1][x] = Subtree(v)[d + 1][x]
<1>1. d \in 0 .. TreeDepth /\ d + 1 \in 0 .. TreeDepth
  BY DepthType
<1>2. ASSUME NEW z \in Coords, Prefix(z, d + 1) = Prefix(x, d + 1)
      PROVE  w[z] = v[z]
  <2>1. Prefix(z, d) = Prefix(c, d) /\ Digit(z, d) = Digit(x, d)
    BY <1>2, PrefixesAgree
  <2>2. ASSUME NEW y \in changes, y[1] = z
        PROVE  FALSE
    <3>1. y \in GroupOf(changes, c, d)
      BY <1>1, <2>1, <2>2, GroupIs
    <3> QED
      BY <2>1, <2>2, <3>1
  <2> QED
    BY <2>2 DEF ChangesTo
<1>3. Agree(w, v, x, d + 1)
  BY <1>2 DEF Agree
<1>4. \A n \in 0 .. TreeDepth : Agree(w, v, x, n) =>
        Below(w, x, n) = Below(v, x, n) /\ Subtree(w)[n][x] = Subtree(v)[n][x]
  BY WorldGivesNode
<1> QED
  BY <1>1, <1>3, <1>4, Zenon

LEMMA UpdatedIs ==
    ASSUME NEW w, NEW v, NEW changes, ChangesTo(w, v, changes),
           NEW c \in {x[1] : x \in changes}, NEW d \in 0 .. TreeDepth - 1,
           NEW results, ResultsFor(v, GroupOf(changes, c, d), results, d)
    PROVE  UpdatedKids(Kids(w, c, d), results) = Kids(v, c, d)
<1> DEFINE group == GroupOf(changes, c, d)
           touched == {r[1] : r \in results}
           updated == UpdatedKids(Kids(w, c, d), results)
<1>1. d \in 0 .. TreeDepth /\ d + 1 \in 0 .. TreeDepth /\ c \in Coords
  BY GroupIs, DepthType
<1>2. \A n : n \in touched <=> \E y \in group : Digit(y[1], d) = n
  BY DEF ResultsFor
<1>3. \A y \in group : y[1] \in Coords /\ Prefix(y[1], d) = Prefix(c, d)
  BY <1>1, GroupIs
<1>4. ASSUME NEW e \in updated
      PROVE  e \in Kids(v, c, d)
  <2>1. CASE e \in Kids(w, c, d) /\ e[1] \notin touched
    <3>1. PICK x \in Below(w, c, d) : e = <<Digit(x, d), Subtree(w)[d + 1][x]>>
      BY <2>1 DEF Kids
    <3>2. x \in Coords /\ Prefix(x, d) = Prefix(c, d) /\ Digit(x, d) \notin touched
      <4>1. e[1] = Digit(x, d)
        BY <3>1
      <4>2. x \in Coords /\ Prefix(x, d) = Prefix(c, d)
        BY DEF Below, Occupied
      <4> QED
        BY <2>1, <4>1, <4>2
    <3>3. /\ Below(w, x, d + 1) = Below(v, x, d + 1)
          /\ Subtree(w)[d + 1][x] = Subtree(v)[d + 1][x]
      BY <1>2, <3>2, Untouched
    <3>4. x \in Below(w, x, d + 1)
      BY <3>1, <3>2 DEF Below
    <3>5. x \in Below(v, c, d)
      BY <3>2, <3>3, <3>4 DEF Below
    <3> QED
      BY <3>1, <3>3, <3>5 DEF Kids
  <2>2. CASE \E r \in results : r[2][1] # None /\ e = <<r[1], r[2][1]>>
    <3>1. PICK r \in results : r[2][1] # None /\ e = <<r[1], r[2][1]>>
      BY <2>2
    <3>2. PICK y \in group : r[1] = Digit(y[1], d) /\ r[2][1] = Node(v, y[1], d + 1)
      BY DEF ResultsFor
    <3>3. Below(v, y[1], d + 1) # {} /\ r[2][1] = Subtree(v)[d + 1][y[1]]
      BY <3>1, <3>2 DEF Node
    <3>4. PICK z \in Below(v, y[1], d + 1) : TRUE
      BY <3>3
    <3>5. z \in Below(v, y[1], d) /\ Digit(z, d) = Digit(y[1], d)
          /\ z \in Coords /\ Prefix(z, d + 1) = Prefix(y[1], d + 1)
      <4>1. y[1] \in Coords
        BY <1>3
      <4>2. z \in Below(v, y[1], d) /\ Digit(z, d) = Digit(y[1], d)
        BY <4>1, BelowStep
      <4>3. z \in Coords /\ Prefix(z, d + 1) = Prefix(y[1], d + 1)
        BY DEF Below, Occupied
      <4> QED
        BY <4>2, <4>3
    <3>6. z \in Below(v, c, d)
      BY <1>3, <3>5 DEF Below
    <3>7. Subtree(v)[d + 1][z] = Subtree(v)[d + 1][y[1]]
      BY <1>1, <1>3, <3>5, PrefixGivesNode
    <3>8. e = <<Digit(z, d), Subtree(v)[d + 1][z]>>
      BY <3>1, <3>2, <3>3, <3>5, <3>7
    <3> QED
      BY <3>6, <3>8 DEF Kids
  <2> QED
    BY <2>1, <2>2 DEF UpdatedKids
<1>5. ASSUME NEW x \in Below(v, c, d)
      PROVE  <<Digit(x, d), Subtree(v)[d + 1][x]>> \in updated
  <2>1. x \in Coords /\ Prefix(x, d) = Prefix(c, d) /\ x \in Below(v, x, d + 1)
    BY <1>1, BelowIs DEF Below
  <2>2. CASE Digit(x, d) \in touched
    <3>1. PICK y \in group : Digit(y[1], d) = Digit(x, d)
      BY <1>2, <2>2
    <3>2. PICK r \in results : r[1] = Digit(y[1], d) /\ r[2][1] = Node(v, y[1], d + 1)
      BY DEF ResultsFor
    <3>3. y[1] \in Coords /\ Prefix(x, d + 1) = Prefix(y[1], d + 1)
      BY <1>3, <2>1, <3>1, PrefixesAgree
    <3>4. Node(v, y[1], d + 1) = Node(v, x, d + 1)
      BY <1>1, <2>1, <3>3, PrefixGivesNode
    <3>5. Node(v, x, d + 1) = Subtree(v)[d + 1][x]
      BY <2>1 DEF Node
    <3>6. Node(v, x, d + 1) # None
      BY <1>1, <2>1, NodeIs
    <3>7. <<Digit(x, d), Subtree(v)[d + 1][x]>> = <<r[1], r[2][1]>> /\ r[2][1] # None
      BY <3>1, <3>2, <3>4, <3>5, <3>6
    <3> QED
      BY <3>7 DEF UpdatedKids
  <2>3. CASE Digit(x, d) \notin touched
    <3>1. /\ Below(w, x, d + 1) = Below(v, x, d + 1)
          /\ Subtree(w)[d + 1][x] = Subtree(v)[d + 1][x]
      BY <1>2, <2>1, <2>3, Untouched
    <3>2. x \in Below(w, c, d)
      BY <2>1, <3>1 DEF Below
    <3>3. <<Digit(x, d), Subtree(v)[d + 1][x]>> \in Kids(w, c, d)
      BY <3>1, <3>2 DEF Kids
    <3> QED
      BY <2>3, <3>3 DEF UpdatedKids
  <2> QED
    BY <2>2, <2>3
<1>6. \A e \in Kids(v, c, d) : e \in updated
  <2> HIDE DEF updated
  <2> QED
    BY <1>5 DEF Kids
<1> HIDE DEF updated
<1>7. updated = Kids(v, c, d)
  BY <1>4, <1>6
<1> QED
  BY <1>7 DEF updated

\* What the calls of a branch return: one for each group.
Results(base, changes, c, d) ==
    LET group == GroupOf(changes, c, d)
    IN {<<n, Calls(base, changes)[d + 1][(CHOOSE x \in group : CoordNibble(x[1], d) = n)[1]]>>
          : n \in {CoordNibble(x[1], d) : x \in group}}

LEMMA ResultsAre ==
    ASSUME NEW w, NEW v, NEW changes, ChangesTo(w, v, changes), NEW base,
           NEW c \in {x[1] : x \in changes}, NEW d \in 0 .. TreeDepth - 1,
           \A y \in {x[1] : x \in changes} :
              Calls(base, changes)[d + 1][y][1] = Node(v, y, d + 1)
    PROVE  /\ \A r \in Results(base, changes, c, d) : \E x \in GroupOf(changes, c, d) :
                 r[1] = Digit(x[1], d) /\ r[2] = Calls(base, changes)[d + 1][x[1]]
           /\ ResultsFor(v, GroupOf(changes, c, d), Results(base, changes, c, d), d)
<1> DEFINE group == GroupOf(changes, c, d)
           next == Calls(base, changes)[d + 1]
           chosen(n) == CHOOSE x \in group : CoordNibble(x[1], d) = n
           results == {<<n, next[chosen(n)[1]]>> : n \in {CoordNibble(x[1], d) : x \in group}}
<1>1. Results(base, changes, c, d) = results
  BY DEF Results
<1>2. d \in 0 .. TreeDepth /\ d + 1 \in 0 .. TreeDepth
  BY DepthType
<1>3. \A x \in group : x \in changes /\ x[1] \in Coords /\ Prefix(x[1], d) = Prefix(c, d)
                       /\ CoordNibble(x[1], d) = Digit(x[1], d)
  BY <1>2, GroupIs, NibbleIsDigit
<1>4. \A x \in group : chosen(CoordNibble(x[1], d)) \in group
                       /\ CoordNibble(chosen(CoordNibble(x[1], d))[1], d) = CoordNibble(x[1], d)
  OBVIOUS
<1> HIDE DEF chosen
<1>5. \A r \in results : \E x \in group : r = <<Digit(x[1], d), next[x[1]]>>
  <2> SUFFICES ASSUME NEW y \in group
               PROVE  \E x \in group :
                         <<CoordNibble(y[1], d), next[chosen(CoordNibble(y[1], d))[1]]>>
                            = <<Digit(x[1], d), next[x[1]]>>
    OBVIOUS
  <2>1. chosen(CoordNibble(y[1], d)) \in group
        /\ CoordNibble(y[1], d) = Digit(chosen(CoordNibble(y[1], d))[1], d)
    BY <1>3, <1>4
  <2> QED
    BY <2>1
<1>6. ASSUME NEW x \in group
      PROVE  \E r \in results : r[1] = Digit(x[1], d) /\ r[2][1] = Node(v, x[1], d + 1)
  <2> DEFINE y == chosen(CoordNibble(x[1], d))
             r == <<CoordNibble(x[1], d), next[y[1]]>>
  <2>1. y \in group /\ Digit(y[1], d) = Digit(x[1], d)
    BY <1>3, <1>4
  <2>2. r \in results
    OBVIOUS
  <2>3. r[1] = Digit(x[1], d) /\ r[2] = next[y[1]]
    BY <1>3
  <2> HIDE DEF y, r
  <2>4. Prefix(y[1], d + 1) = Prefix(x[1], d + 1)
    BY <1>3, <2>1, PrefixesAgree
  <2>5. next[y[1]][1] = Node(v, y[1], d + 1)
    BY <1>3, <2>1
  <2>6. Node(v, y[1], d + 1) = Node(v, x[1], d + 1)
    BY <1>2, <1>3, <2>1, <2>4, PrefixGivesNode
  <2> QED
    BY <2>2, <2>3, <2>5, <2>6
<1> HIDE DEF results
<1>7. ASSUME NEW r \in results
      PROVE  \E x \in group : /\ r[1] = Digit(x[1], d) /\ r[2] = next[x[1]]
                              /\ r[2][1] = Node(v, x[1], d + 1)
  <2>1. PICK x \in group : r = <<Digit(x[1], d), next[x[1]]>>
    BY <1>5
  <2>2. next[x[1]][1] = Node(v, x[1], d + 1)
    BY <1>3
  <2> QED
    BY <2>1, <2>2
<1>8. ResultsFor(v, group, results, d)
  BY <1>6, <1>7 DEF ResultsFor
<1> QED
  BY <1>1, <1>7, <1>8

LEMMA BranchCall ==
    ASSUME NEW w, NEW v, NEW changes, ChangesTo(w, v, changes),
           NEW base, BaseOf(base, w),
           NEW c \in {x[1] : x \in changes}, NEW d \in 0 .. TreeDepth - 1,
           \A y \in {x[1] : x \in changes} :
              Calls(base, changes)[d + 1][y][1] = Node(v, y, d + 1)
    PROVE  LET existing == PathTo(base, c)[d]
               below == UNION {x[2][2] : x \in Results(base, changes, c, d)}
               new == NonEmptyBranch(Kids(v, c, d))
           IN  Calls(base, changes)[d][c] =
                  IF Kids(v, c, d) = Kids(w, c, d) THEN <<existing, below>>
                  ELSE <<new, below \union ({new} \ {None})>>
<1> DEFINE existing == PathTo(base, c)[d]
           group == GroupOf(changes, c, d)
           results == Results(base, changes, c, d)
           below == UNION {x[2][2] : x \in results}
           old == Kids(w, c, d)
           updated == UpdatedKids(old, results)
           new == NonEmptyBranch(updated)
<1>1. d \in 0 .. TreeDepth /\ d # TreeDepth /\ d + 1 \in 0 .. TreeDepth /\ c \in Coords
  BY GroupIs, DepthType
<1>2. IsKidsOf(existing, w, c, d)
  BY <1>1, PathFinds
<1>3. (existing = None \/ IsBranch(existing)) /\ old = IF existing = None THEN {} ELSE existing[2]
  BY <1>2, Nodes DEF IsKidsOf
<1>4. Calls(base, changes)[d][c] = UpdateBranch(existing, results)
  <2>1. Calls(base, changes)[d] = CallsAt(base, changes, Calls(base, changes)[d + 1], d)
    BY <1>1, CallsAre
  <2>2. ~(existing # None /\ ~IsBranch(existing))
    BY <1>3
  <2> QED
    BY <1>1, <2>1, <2>2 DEF CallsAt, GroupOf, Results
<1>5. ~ \E r \in results : r[2][1] = Bail
  <2>1. \A r \in results : \E x \in group : r[2][1] = Node(v, x[1], d + 1)
    BY ResultsAre DEF ResultsFor
  <2>2. \A x \in group : x[1] \in Coords
    BY <1>1, GroupIs
  <2> HIDE DEF results, group
  <2>3. ASSUME NEW r \in results
        PROVE  r[2][1] # Bail
    <3>1. PICK x \in group : r[2][1] = Node(v, x[1], d + 1)
      BY <2>1
    <3>2. Node(v, x[1], d + 1) # Bail
      BY <1>1, <2>2, NodeIs
    <3> QED
      BY <3>1, <3>2
  <2> QED
    BY <2>3
<1>6. updated = Kids(v, c, d)
  BY ResultsAre, UpdatedIs
<1>7. UpdateBranch(existing, results) =
         IF updated = old THEN <<existing, below>> ELSE <<new, below \union ({new} \ {None})>>
  <2> HIDE DEF results, existing
  <2>1. UpdateBranch(existing, results) =
           LET original == IF existing = None THEN {} ELSE existing[2]
           IN IF UpdatedKids(original, results) = original THEN <<existing, below>>
              ELSE <<NonEmptyBranch(UpdatedKids(original, results)),
                     below \union ({NonEmptyBranch(UpdatedKids(original, results))} \ {None})>>
    BY <1>5 DEF UpdateBranch, UpdatedKids
  <2> HIDE DEF below, old
  <2> QED
    BY <1>3, <2>1
<1> QED
  BY <1>4, <1>6, <1>7

\* A call returns the node that the new world has on its path.
LEMMA CallsReturn ==
    ASSUME NEW w, NEW v, NEW changes, ChangesTo(w, v, changes),
           NEW base, BaseOf(base, w)
    PROVE  \A d \in 1 .. TreeDepth : \A c \in {x[1] : x \in changes} :
              Calls(base, changes)[d][c][1] = Node(v, c, d)
<1> DEFINE touched == {x[1] : x \in changes}
           Correct(d) == \A c \in touched : Calls(base, changes)[d][c][1] = Node(v, c, d)
           S == {d \in 0 .. TreeDepth : d = 0 \/ Correct(d)}
<1>1. TreeDepth \in S
  BY LeafCall, DepthType
<1>2. ASSUME NEW d \in 0 .. TreeDepth - 1, d + 1 \in S
      PROVE  d \in S
  <2>1. d \in 0 .. TreeDepth /\ d # TreeDepth /\ d + 1 # 0 /\ Correct(d + 1)
    BY <1>2, DepthType
  <2>2. SUFFICES ASSUME d # 0, NEW c \in touched
                 PROVE  Calls(base, changes)[d][c][1] = Node(v, c, d)
    BY <2>1
  <2> DEFINE existing == PathTo(base, c)[d]
             below == UNION {x[2][2] : x \in Results(base, changes, c, d)}
             new == NonEmptyBranch(Kids(v, c, d))
  <2>3. Calls(base, changes)[d][c] =
           IF Kids(v, c, d) = Kids(w, c, d) THEN <<existing, below>>
           ELSE <<new, below \union ({new} \ {None})>>
    BY <2>1, BranchCall
  <2>4. c \in Coords
    BY <2>1, GroupIs
  <2>5. existing = NonEmptyBranch(Kids(w, c, d))
    <3>1. existing = Node(w, c, d)
      BY <2>1, <2>2, <2>4, PathFinds
    <3>2. Node(w, c, d) = NonEmptyBranch(Kids(w, c, d))
      BY <2>1, <2>4, NodeIs
    <3> QED
      BY <3>1, <3>2
  <2>6. new = Node(v, c, d)
    BY <2>1, <2>4, NodeIs
  <2> HIDE DEF existing, below, new
  <2>7. CASE Kids(v, c, d) = Kids(w, c, d)
    <3>1. existing = Node(v, c, d)
      BY <2>5, <2>6, <2>7 DEF new
    <3> QED
      BY <2>3, <2>7, <3>1
  <2>8. CASE Kids(v, c, d) # Kids(w, c, d)
    BY <2>3, <2>6, <2>8
  <2> QED
    BY <2>7, <2>8
<1>3. 0 .. TreeDepth \subseteq S
  <2> HIDE DEF S
  <2> QED
    BY <1>1, <1>2, DownTo0, DepthType
<1> QED
  BY <1>3

\* What a call writes are nodes of the new world, on the paths of the changes.
NewNodes(v, changes) ==
    {Node(v, x[1], d) : x \in changes, d \in 0 .. TreeDepth} \ {None}

LEMMA CallsWrite ==
    ASSUME NEW w, NEW v, NEW changes, ChangesTo(w, v, changes),
           NEW base, BaseOf(base, w)
    PROVE  \A d \in 0 .. TreeDepth : \A c \in {x[1] : x \in changes} :
              Calls(base, changes)[d][c][2] \subseteq NewNodes(v, changes)
<1> DEFINE touched == {x[1] : x \in changes}
           nodes == NewNodes(v, changes)
           Within(d) == \A c \in touched : Calls(base, changes)[d][c][2] \subseteq nodes
           S == {d \in 0 .. TreeDepth : Within(d)}
<1>0. \A c \in touched, d \in 0 .. TreeDepth : Node(v, c, d) # None => Node(v, c, d) \in nodes
  BY DEF NewNodes
<1>1. TreeDepth \in S
  <2>1. TreeDepth \in 0 .. TreeDepth
    BY DepthType
  <2>2. ASSUME NEW c \in touched
        PROVE  Calls(base, changes)[TreeDepth][c][2] \subseteq nodes
    <3>1. Calls(base, changes)[TreeDepth][c][2] = {Node(v, c, TreeDepth)} \ {None}
      BY LeafCall
    <3> QED
      BY <1>0, <2>1, <3>1
  <2> QED
    BY <2>1, <2>2
<1>2. ASSUME NEW d \in 0 .. TreeDepth - 1, d + 1 \in S
      PROVE  d \in S
  <2>1. d \in 0 .. TreeDepth /\ d # TreeDepth /\ d + 1 \in 1 .. TreeDepth /\ Within(d + 1)
    BY <1>2, DepthType
  <2>2. \A y \in touched : Calls(base, changes)[d + 1][y][1] = Node(v, y, d + 1)
    BY <2>1, CallsReturn
  <2>3. SUFFICES ASSUME NEW c \in touched
                 PROVE  Calls(base, changes)[d][c][2] \subseteq nodes
    BY <2>1
  <2> DEFINE existing == PathTo(base, c)[d]
             results == Results(base, changes, c, d)
             below == UNION {x[2][2] : x \in results}
             new == NonEmptyBranch(Kids(v, c, d))
  <2>4. Calls(base, changes)[d][c] =
           IF Kids(v, c, d) = Kids(w, c, d) THEN <<existing, below>>
           ELSE <<new, below \union ({new} \ {None})>>
    BY <2>2, BranchCall
  <2>5. c \in Coords
    BY <2>1, GroupIs
  <2>6. {new} \ {None} \subseteq nodes
    BY <1>0, <2>1, <2>5, NodeIs
  <2>7. below \subseteq nodes
    <3>1. \A r \in results : \E x \in GroupOf(changes, c, d) :
             r[2] = Calls(base, changes)[d + 1][x[1]]
      BY <2>2, ResultsAre
    <3>2. \A x \in GroupOf(changes, c, d) : x[1] \in touched
      BY DEF GroupOf
    <3> HIDE DEF results, nodes, touched
    <3>3. \A r \in results : r[2][2] \subseteq nodes
      BY <2>1, <3>1, <3>2
    <3> QED
      BY <3>3
  <2> HIDE DEF existing, below, new
  <2> QED
    BY <2>4, <2>6, <2>7
<1>3. 0 .. TreeDepth \subseteq S
  <2> HIDE DEF S
  <2> QED
    BY <1>1, <1>2, DownTo0, DepthType
<1> QED
  BY <1>3

Worlds == [Coords -> Payloads \union {NoChunk}]

LEMMA CanonicalIsBranch ==
    ASSUME NEW w
    PROVE  IsBranch(CanonicalTree(w)) /\ CanonicalTree(w) # None /\ CanonicalTree(w) # Bail
<1>1. CASE Occupied(w) = {}
  BY <1>1, Nodes DEF CanonicalTree, EmptyTree
<1>2. CASE Occupied(w) # {}
  <2>1. PICK c \in Coords : c \in Occupied(w)
    BY <1>2 DEF Occupied
  <2> QED
    BY <2>1, CanonicalIs, Nodes
<1> QED
  BY <1>1, <1>2

\* apply_tree_changes, with the empty tree in place of none: it ends with the
\* tree of the new world, having written only nodes of it.
LEMMA ApplyIs ==
    ASSUME NEW w \in Worlds, NEW v \in Worlds, NEW changes, ChangesTo(w, v, changes),
           NEW base, BaseOf(base, w)
    PROVE  /\ OrEmpty(ApplyTreeChanges(base, changes))[1] = CanonicalTree(v)
           /\ OrEmpty(ApplyTreeChanges(base, changes))[2]
                 \subseteq NewNodes(v, changes) \union {EmptyTree}
<1> DEFINE r == ApplyTreeChanges(base, changes)
<1> SUFFICES /\ OrEmpty(r)[1] = CanonicalTree(v)
             /\ OrEmpty(r)[2] \subseteq NewNodes(v, changes) \union {EmptyTree}
  OBVIOUS
<1> HIDE DEF r
<1>1. /\ r[1] # None => OrEmpty(r) = r
      /\ r[1] = None => OrEmpty(r)[1] = EmptyTree /\ OrEmpty(r)[2] = r[2] \union {EmptyTree}
  BY DEF OrEmpty
<1>2. CASE changes = {}
  <2>1. r[1] = base /\ r[2] = {}
    BY <1>2 DEF ApplyTreeChanges, r
  <2>2. w = v
    BY <1>2 DEF ChangesTo, Worlds
  <2>3. base # None => base = CanonicalTree(v)
    BY <2>2 DEF BaseOf
  <2>4. base = None => CanonicalTree(v) = EmptyTree
    BY <2>2, CanonicalIsBranch DEF BaseOf, CanonicalTree
  <2> QED
    BY <1>1, <2>1, <2>3, <2>4
<1>3. CASE changes # {}
  <2> DEFINE c == (CHOOSE x \in changes : TRUE)[1]
             below == UNION {x[2][2] : x \in Results(base, changes, c, 0)}
             new == NonEmptyBranch(Kids(v, c, 0))
  <2>1. c \in {x[1] : x \in changes} /\ r = Calls(base, changes)[0][c]
    BY <1>3 DEF ApplyTreeChanges, r
  <2>2. 0 \in 0 .. TreeDepth - 1 /\ 0 + 1 \in 1 .. TreeDepth /\ 0 \in 0 .. TreeDepth
    BY DepthType
  <2> HIDE DEF c
  <2>3. \A y \in {x[1] : x \in changes} : Calls(base, changes)[0 + 1][y][1] = Node(v, y, 0 + 1)
    BY <2>2, CallsReturn
  <2>4. r = IF Kids(v, c, 0) = Kids(w, c, 0) THEN <<PathTo(base, c)[0], below>>
            ELSE <<new, below \union ({new} \ {None})>>
    BY <2>1, <2>2, <2>3, BranchCall
  <2>5. PathTo(base, c)[0] = base /\ c \in Coords
    BY <2>1, <2>2, PathIs, GroupIs
  <2>6. /\ CanonicalTree(v) = Branch(Kids(v, c, 0))
        /\ CanonicalTree(w) = Branch(Kids(w, c, 0))
        /\ Occupied(w) = {} => Kids(w, c, 0) = {}
    BY <2>5, CanonicalIs
  <2>7. r[2] \subseteq NewNodes(v, changes)
    BY <2>1, <2>2, CallsWrite
  <2> HIDE DEF below
  <2>8. CASE Kids(v, c, 0) = Kids(w, c, 0)
    <3>1. r[1] = base
      BY <2>4, <2>5, <2>8
    <3>2. base # None => base = CanonicalTree(v)
      BY <2>6, <2>8 DEF BaseOf
    <3>3. base = None => CanonicalTree(v) = EmptyTree
      BY <2>6, <2>8, CanonicalIsBranch DEF BaseOf, EmptyTree
    <3> QED
      BY <1>1, <2>7, <3>1, <3>2, <3>3
  <2>9. CASE Kids(v, c, 0) # Kids(w, c, 0)
    <3>1. r[1] = new
      BY <2>4, <2>9
    <3>2. new # None => new = CanonicalTree(v)
      BY <2>6 DEF NonEmptyBranch
    <3>3. new = None => CanonicalTree(v) = EmptyTree
      BY <2>6, Nodes DEF NonEmptyBranch, EmptyTree
    <3> HIDE DEF new
    <3> QED
      BY <1>1, <2>7, <3>1, <3>2, <3>3
  <2> QED
    BY <2>8, <2>9
<1> QED
  BY <1>2, <1>3

(* Reading.                                                                 *)

\* A prefix moved to the left, as tree_entries carries it from node to node.
LEMMA ShiftedPrefix ==
    ASSUME NEW c \in Coords, NEW d \in 0 .. TreeDepth - 1
    PROVE  Prefix(c, d) * Power[TreeDepth - d] + Digit(c, d) * Power[TreeDepth - (d + 1)]
              = Prefix(c, d + 1) * Power[TreeDepth - (d + 1)]
<1> DEFINE k == TreeDepth - (d + 1)
           p == Prefix(c, d)
           q == Power[k]
           n == Nibbles
           e == Digit(c, d)
<1>1. k \in 0 .. TreeDepth /\ k + 1 \in 0 .. TreeDepth /\ TreeDepth - d = k + 1 /\ d \in 0 .. TreeDepth
  BY DepthType
<1>2. q \in Nat /\ Power[k + 1] = n * q /\ n \in Nat
  BY <1>1, PowerIs, PowerType, DepthType
<1>3. p \in Nat /\ e \in Nat /\ Prefix(c, d + 1) = n * p + e
  BY <1>1, PrefixType, PrefixStep, DepthType
<1> HIDE DEF k, p, q, n, e
<1>4. p * (n * q) + e * q = (n * p + e) * q
  BY <1>2, <1>3
<1> QED
  BY <1>1, <1>2, <1>3, <1>4 DEF p, e, q, k

Shifted(c, d) == Prefix(c, d) * Power[TreeDepth - d]

LEMMA LevelOfTree ==
    ASSUME NEW v, Occupied(v) # {}
    PROVE  \A d \in 0 .. TreeDepth :
              Level(CanonicalTree(v))[d] = {<<Subtree(v)[d][c], Shifted(c, d)>> : c \in Occupied(v)}
<1> DEFINE tree == CanonicalTree(v)
           cs == Occupied(v)
           at(d) == {<<Subtree(v)[d][c], Shifted(c, d)>> : c \in cs}
           S == {d \in 0 .. TreeDepth : Level(tree)[d] = at(d)}
<1>0. cs \subseteq Coords
  BY DEF Occupied
<1>1. 0 \in S
  <2>1. 0 \in 0 .. TreeDepth /\ 0 \in 0 .. TreeDepth - 1
    BY DepthType
  <2>2. ASSUME NEW c \in cs
        PROVE  Subtree(v)[0][c] = tree /\ Shifted(c, 0) = 0
    <3>1. Subtree(v)[0][c] = tree
      BY <1>0, <2>1, CanonicalIs, SubtreeIsKids
    <3>2. Prefix(c, 0) = 0 /\ Power[TreeDepth - 0] \in Nat
      BY <1>0, PrefixEnds, PowerType, DepthType
    <3> QED
      BY <3>1, <3>2 DEF Shifted
  <2>3. Level(tree)[0] = {<<tree, 0>>}
    BY LevelIs
  <2>4. at(0) = {<<tree, 0>>}
    BY <2>2
  <2> QED
    BY <2>1, <2>3, <2>4
<1>2. ASSUME NEW d \in 0 .. TreeDepth - 1, d \in S
      PROVE  d + 1 \in S
  <2>1. d \in 0 .. TreeDepth /\ d + 1 \in 0 .. TreeDepth
    BY DepthType
  <2> DEFINE next == LevelAfter(at(d), d + 1)
             edges(x) == IF IsBranch(x[1]) THEN x[1][2] ELSE {}
             step(x, e) == <<e[2], x[2] + e[1] * Power[TreeDepth - (d + 1)]>>
  <2>2. Level(tree)[d + 1] = next
    BY <1>2, LevelIs
  <2>3. \A y : y \in next <=> \E x \in at(d) : \E e \in edges(x) : y = step(x, e)
    BY DEF LevelAfter
  <2>4. ASSUME NEW c \in cs
        PROVE  edges(<<Subtree(v)[d][c], Shifted(c, d)>>) = Kids(v, c, d)
    <3>1. Subtree(v)[d][c] = Branch(Kids(v, c, d))
      BY <1>0, SubtreeIsKids
    <3> QED
      BY <3>1, Nodes
  <2>5. ASSUME NEW c \in cs, NEW y \in Below(v, c, d)
        PROVE  step(<<Subtree(v)[d][c], Shifted(c, d)>>, <<Digit(y, d), Subtree(v)[d + 1][y]>>)
                  = <<Subtree(v)[d + 1][y], Shifted(y, d + 1)>>
    <3>1. y \in Coords /\ Prefix(y, d) = Prefix(c, d)
      BY DEF Below, Occupied
    <3>2. Shifted(c, d) + Digit(y, d) * Power[TreeDepth - (d + 1)] = Shifted(y, d + 1)
      BY <3>1, ShiftedPrefix DEF Shifted
    <3> QED
      BY <3>2
  <2>6. ASSUME NEW y \in next
        PROVE  y \in at(d + 1)
    <3>1. PICK x \in at(d) : \E e \in edges(x) : y = step(x, e)
      BY <2>3
    <3>2. PICK c \in cs : x = <<Subtree(v)[d][c], Shifted(c, d)>>
      BY <3>1
    <3>3. PICK e \in Kids(v, c, d) : y = step(x, e)
      BY <2>4, <3>1, <3>2
    <3>4. PICK z \in Below(v, c, d) : e = <<Digit(z, d), Subtree(v)[d + 1][z]>>
      BY DEF Kids
    <3>5. y = <<Subtree(v)[d + 1][z], Shifted(z, d + 1)>>
      BY <2>5, <3>2, <3>3, <3>4
    <3>6. z \in cs
      BY DEF Below
    <3> QED
      BY <3>5, <3>6
  <2>7. ASSUME NEW c \in cs
        PROVE  <<Subtree(v)[d + 1][c], Shifted(c, d + 1)>> \in next
    <3> DEFINE x == <<Subtree(v)[d][c], Shifted(c, d)>>
               e == <<Digit(c, d), Subtree(v)[d + 1][c]>>
    <3>1. c \in Below(v, c, d)
      BY DEF Below
    <3>2. x \in at(d) /\ e \in edges(x)
      BY <2>4, <3>1 DEF Kids
    <3>3. step(x, e) = <<Subtree(v)[d + 1][c], Shifted(c, d + 1)>>
      BY <2>5, <3>1
    <3> HIDE DEF x, e, edges, step, next
    <3> QED
      BY <2>3, <3>2, <3>3
  <2>8. next = at(d + 1)
    <3>1. \A y \in at(d + 1) : y \in next
      BY <2>7
    <3> HIDE DEF next, at
    <3> QED
      BY <2>6, <3>1
  <2> HIDE DEF next, at
  <2> QED
    BY <2>1, <2>2, <2>8
<1>3. 0 .. TreeDepth \subseteq S
  <2> HIDE DEF S
  <2> QED
    BY <1>1, <1>2, UpFrom0, DepthType
<1> QED
  BY <1>3

LEMMA LevelOfEmptyTree ==
    /\ Level(EmptyTree)[0] = {<<EmptyTree, 0>>}
    /\ \A d \in 1 .. TreeDepth : Level(EmptyTree)[d] = {}
<1> DEFINE S == {d \in 0 .. TreeDepth : d # 0 => Level(EmptyTree)[d] = {}}
<1>1. Level(EmptyTree)[0] = {<<EmptyTree, 0>>}
  BY LevelIs
<1>2. 0 \in S
  BY DepthType
<1>3. ASSUME NEW d \in 0 .. TreeDepth - 1, d \in S
      PROVE  d + 1 \in S
  <2>1. Level(EmptyTree)[d + 1] = LevelAfter(Level(EmptyTree)[d], d + 1)
    BY LevelIs
  <2>2. \A x \in Level(EmptyTree)[d] : IsBranch(x[1]) => x[1][2] = {}
    <3>1. CASE d = 0
      BY <1>1, <3>1, Nodes DEF EmptyTree
    <3>2. CASE d # 0
      BY <1>3, <3>2
    <3> QED
      BY <3>1, <3>2
  <2>3. Level(EmptyTree)[d + 1] = {}
    <3> DEFINE above == Level(EmptyTree)[d]
    <3> HIDE DEF above
    <3>1. LevelAfter(above, d + 1) = {}
      BY <2>2 DEF LevelAfter, above
    <3> QED
      BY <2>1, <3>1 DEF above
  <2> QED
    BY <2>3, DepthType
<1>4. 0 .. TreeDepth \subseteq S
  <2> HIDE DEF S
  <2> QED
    BY <1>2, <1>3, UpFrom0, DepthType
<1> QED
  BY <1>1, <1>4

\* A node of the tree of a world occurs in it once.
LEMMA NodeOccursOnce ==
    ASSUME NEW v, NEW a \in Occupied(v), NEW b \in Occupied(v),
           NEW i \in 0 .. TreeDepth, NEW j \in 0 .. TreeDepth,
           Subtree(v)[i][a] = Subtree(v)[j][b]
    PROVE  i = j /\ Prefix(a, i) = Prefix(b, j)
<1> DEFINE cs == Occupied(v)
           P(n) == \A m \in 0 .. n : \A x, y \in cs :
                      Subtree(v)[m][x] = Subtree(v)[n][y] => m = n /\ Prefix(x, m) = Prefix(y, n)
           S == {n \in 0 .. TreeDepth : P(n)}
<1>0. cs \subseteq Coords
  BY DEF Occupied
<1>1. TreeDepth \in S
  <2> SUFFICES ASSUME NEW m \in 0 .. TreeDepth, NEW x \in cs, NEW y \in cs,
                      Subtree(v)[m][x] = Subtree(v)[TreeDepth][y]
               PROVE  m = TreeDepth /\ Prefix(x, m) = Prefix(y, TreeDepth)
    BY DepthType
  <2>1. Subtree(v)[TreeDepth][y] = Leaf(y, Blob(v[y])) /\ Subtree(v)[TreeDepth][x] = Leaf(x, Blob(v[x]))
    BY <1>0, SubtreeIs
  <2>2. CASE m # TreeDepth
    <3>1. m \in 0 .. TreeDepth - 1
      BY <2>2, DepthType
    <3>2. IsBranch(Subtree(v)[m][x])
      BY <1>0, <3>1, SubtreeIsKids, Nodes
    <3>3. ~IsBranch(Subtree(v)[TreeDepth][y])
      BY <2>1, Nodes
    <3> QED
      BY <3>2, <3>3
  <2>3. CASE m = TreeDepth
    <3>1. x = y
      BY <2>1, <2>3, Nodes
    <3> QED
      BY <2>3, <3>1
  <2> QED
    BY <2>2, <2>3
<1>2. ASSUME NEW n \in 0 .. TreeDepth - 1, n + 1 \in S
      PROVE  n \in S
  <2>1. n \in 0 .. TreeDepth /\ P(n + 1)
    BY <1>2, DepthType
  <2> SUFFICES ASSUME NEW m \in 0 .. n, NEW x \in cs, NEW y \in cs,
                      Subtree(v)[m][x] = Subtree(v)[n][y]
               PROVE  m = n /\ Prefix(x, m) = Prefix(y, n)
    BY <2>1
  <2>2. /\ m \in 0 .. TreeDepth - 1 /\ m \in Int /\ n \in Int /\ m + 1 \in 0 .. n + 1
        /\ x \in Coords /\ y \in Coords
    <3>1. m \in 0 .. TreeDepth - 1 /\ m \in Int /\ n \in Int /\ m + 1 \in 0 .. n + 1
      BY DepthType
    <3> QED
      BY <1>0, <3>1
  <2>3. Kids(v, x, m) = Kids(v, y, n)
    <3>1. Subtree(v)[m][x] = Branch(Kids(v, x, m)) /\ Subtree(v)[n][y] = Branch(Kids(v, y, n))
      BY <2>2, SubtreeIsKids
    <3>2. Branch(Kids(v, x, m))[2] = Branch(Kids(v, y, n))[2]
      BY <3>1
    <3> QED
      BY <3>2, Nodes
  <2>4. x \in Below(v, x, m)
    BY DEF Below
  <2>5. <<Digit(x, m), Subtree(v)[m + 1][x]>> \in Kids(v, y, n)
    BY <2>3, <2>4 DEF Kids
  <2>6. PICK z \in Below(v, y, n) :
           <<Digit(x, m), Subtree(v)[m + 1][x]>> = <<Digit(z, n), Subtree(v)[n + 1][z]>>
    BY <2>5 DEF Kids
  <2>7. z \in cs /\ z \in Coords /\ Prefix(z, n) = Prefix(y, n)
    BY DEF Below, Occupied
  <2>8. m + 1 = n + 1 /\ Prefix(x, m + 1) = Prefix(z, n + 1)
    BY <2>1, <2>2, <2>6, <2>7
  <2>9. m = n
    BY <2>8
  <2> QED
    BY <2>2, <2>7, <2>8, <2>9, PrefixesAgree
<1>3. 0 .. TreeDepth \subseteq S
  <2> HIDE DEF S
  <2> QED
    BY <1>1, <1>2, DownTo0, DepthType
<1>4. P(i) /\ P(j)
  BY <1>3
<1>5. i \in 0 .. j \/ j \in 0 .. i
  OBVIOUS
<1> QED
  BY <1>4, <1>5
----
(* The inductive invariant, and what every step comes to.                   *)

\* Before the first commit there is nothing; the root follows from the world.
TreeInv ==
    /\ TypeOK
    /\ root = None => Occupied(world) = {}
    /\ RootIsCanonical

\* What either kind of commit comes to: every edit is a chunk of the new world,
\* and what is published are nodes above edited coordinates, the empty tree,
\* the chunks of the edits, and the commit.
CommitStep ==
    /\ world' \in Worlds
    /\ root' = CanonicalTree(world')
    /\ edit' \subseteq Coords \X (Payloads \union {NoChunk})
    /\ \A e \in edit' : e[2] = world'[e[1]]
    /\ Commit(root', root, Message) \in published'
    /\ published' \subseteq NewNodes(world', Encoded(edit')) \union {EmptyTree}
                     \union Blobs(edit') \union {Commit(root', root, Message)}

LEMMA EncodedIs ==
    ASSUME NEW w \in Worlds, NEW v \in Worlds,
           NEW edits \in SUBSET (Coords \X (Payloads \union {NoChunk})),
           \A e \in edits : e[2] = v[e[1]],
           \A c \in Coords : w[c] = v[c] \/ \E e \in edits : e[1] = c
    PROVE  ChangesTo(w, v, Encoded(edits))
<1>1. ASSUME NEW x \in Encoded(edits)
      PROVE  /\ x[1] \in Coords
             /\ x = <<x[1], IF v[x[1]] = NoChunk THEN None ELSE Blob(v[x[1]])>>
  <2>1. PICK e \in edits : x = <<e[1], IF e[2] = NoChunk THEN None ELSE Blob(e[2])>>
    BY DEF Encoded
  <2> QED
    BY <2>1
<1>2. \A e \in edits : \E x \in Encoded(edits) : x[1] = e[1]
  <2>1. \A e \in edits : <<e[1], IF e[2] = NoChunk THEN None ELSE Blob(e[2])>> \in Encoded(edits)
    BY DEF Encoded
  <2> QED
    BY <2>1
<1> QED
  BY <1>1, <1>2 DEF ChangesTo

LEMMA CommitSteps ==
    ASSUME TreeInv, Next
    PROVE  CommitStep
<1>0. world \in Worlds
  BY DEF TreeInv, TypeOK, Worlds
<1>1. EmptyWorld \in Worlds /\ Occupied(EmptyWorld) = {}
  BY DEF EmptyWorld, Worlds, Occupied
<1>2. ASSUME NEW w \in Snapshots, CommitSnapshot(w)
      PROVE  CommitStep
  <2> DEFINE edits == {<<c, w[c]>> : c \in Occupied(w)}
             result == OrEmpty(ApplyTreeChanges(None, Encoded(edits)))
  <2>1. w \in Worlds
    BY WorldAssumption DEF Worlds
  <2>2. edits \in SUBSET (Coords \X (Payloads \union {NoChunk})) /\ \A e \in edits : e[2] = w[e[1]]
    BY <2>1 DEF Worlds, Occupied
  <2>3. ASSUME NEW c \in Coords, EmptyWorld[c] # w[c]
        PROVE  \E e \in edits : e[1] = c
    <3>1. <<c, w[c]>> \in edits
      BY <2>3 DEF EmptyWorld, Occupied
    <3> QED
      BY <3>1
  <2>4. ChangesTo(EmptyWorld, w, Encoded(edits))
    <3> HIDE DEF edits
    <3> QED
      BY <1>1, <2>1, <2>2, <2>3, EncodedIs
  <2>5. result[1] = CanonicalTree(w) /\ result[2] \subseteq NewNodes(w, Encoded(edits)) \union {EmptyTree}
    <3> HIDE DEF edits
    <3> QED
      BY <1>1, <2>1, <2>4, ApplyIs DEF BaseOf
  <2>6. world' = w /\ Publish(result, edits, {})
    BY <1>2 DEF CommitSnapshot
  <2> HIDE DEF edits, result
  <2> QED
    BY <2>1, <2>2, <2>5, <2>6 DEF Publish, CommitStep
<1>3. ASSUME NEW change \in ChangeSets, CommitChanges(change)
      PROVE  CommitStep
  <2> DEFINE edits == EditsOf(change)
             v == Applied(world, change)
             base == IF root = None THEN EmptyTree ELSE root
             result == IF edits = {} THEN <<base, {}>>
                       ELSE OrEmpty(ApplyTreeChanges(base, Encoded(edits)))
             extra == IF root = None THEN {EmptyTree} ELSE {}
  <2>1. change \in [Coords -> Payloads \union {NoChunk, Keep}]
    BY WorldAssumption
  <2>2. v \in Worlds
    BY <1>0, <2>1 DEF Worlds, Applied
  <2>3. edits \in SUBSET (Coords \X (Payloads \union {NoChunk})) /\ \A e \in edits : e[2] = v[e[1]]
    BY <2>1 DEF EditsOf, Applied
  <2>4. ASSUME NEW c \in Coords, world[c] # v[c]
        PROVE  \E e \in edits : e[1] = c
    <3>1. <<c, change[c]>> \in edits
      BY <2>4 DEF EditsOf, Applied
    <3> QED
      BY <3>1
  <2>5. base = CanonicalTree(world)
    <3>1. root = None => Occupied(world) = {}
      BY DEF TreeInv
    <3>2. root # None => root = CanonicalTree(world)
      BY DEF TreeInv, RootIsCanonical
    <3> QED
      BY <3>1, <3>2 DEF CanonicalTree
  <2>6. world' = v /\ Publish(result, edits, extra)
    BY <1>3 DEF CommitChanges
  <2> HIDE DEF edits, v, base
  <2>7. result[1] = CanonicalTree(v) /\ result[2] \subseteq NewNodes(v, Encoded(edits)) \union {EmptyTree}
    <3>1. CASE edits = {}
      <4>1. world = v
        BY <1>0, <2>2, <2>4, <3>1 DEF Worlds
      <4> QED
        BY <2>5, <3>1, <4>1
    <3>2. CASE edits # {}
      <4>1. ChangesTo(world, v, Encoded(edits))
        BY <1>0, <2>2, <2>3, <2>4, EncodedIs
      <4>2. result = OrEmpty(ApplyTreeChanges(base, Encoded(edits)))
        BY <3>2
      <4> QED
        BY <1>0, <2>2, <2>5, <4>1, <4>2, ApplyIs DEF BaseOf
    <3> QED
      BY <3>1, <3>2
  <2>8. extra \subseteq {EmptyTree}
    OBVIOUS
  <2> HIDE DEF result, extra
  <2> QED
    BY <2>2, <2>3, <2>6, <2>7, <2>8 DEF Publish, CommitStep
<1> QED
  BY <1>2, <1>3 DEF Next

\* The nodes a commit publishes.
LEMMA NewNodesAre ==
    ASSUME NEW v, NEW edits \in SUBSET (Coords \X (Payloads \union {NoChunk})),
           NEW o \in NewNodes(v, Encoded(edits))
    PROVE  \E e \in edits, d \in 0 .. TreeDepth :
              o = Node(v, e[1], d) /\ o = Subtree(v)[d][e[1]] /\ Below(v, e[1], d) # {}
<1>1. PICK x \in Encoded(edits), d \in 0 .. TreeDepth : o = Node(v, x[1], d) /\ o # None
  BY DEF NewNodes
<1>2. PICK e \in edits : x[1] = e[1]
  BY DEF Encoded
<1>3. Below(v, e[1], d) # {} /\ o = Subtree(v)[d][e[1]]
  BY <1>1, <1>2 DEF Node
<1> QED
  BY <1>1, <1>2, <1>3

LEMMA SubtreeKind ==
    ASSUME NEW v, NEW c \in Coords, NEW d \in 0 .. TreeDepth
    PROVE  /\ d = TreeDepth => Subtree(v)[d][c] = Leaf(c, Blob(v[c]))
           /\ d # TreeDepth => /\ Subtree(v)[d][c] = Branch(Kids(v, c, d))
                               /\ d \in 0 .. TreeDepth - 1
<1>1. d # TreeDepth => d \in 0 .. TreeDepth - 1
  BY DepthType
<1> QED
  BY <1>1, SubtreeIs, SubtreeIsKids

\* Whatever a commit publishes is a branch or a leaf of the new world's tree
\* above an edited coordinate, the empty tree, a chunk, or the commit.
LEMMA PublishedAre ==
    ASSUME CommitStep, NEW o \in published'
    PROVE  \/ \E e \in edit', d \in 0 .. TreeDepth - 1 :
                 o = Branch(Kids(world', e[1], d)) /\ Below(world', e[1], d) # {}
           \/ \E e \in edit' : /\ o = Leaf(e[1], Blob(world'[e[1]]))
                               /\ e[1] \in Occupied(world')
           \/ o = EmptyTree
           \/ \E e \in edit' : e[2] # NoChunk /\ o = Blob(e[2])
           \/ o = Commit(root', root, Message)
<1>1. edit' \in SUBSET (Coords \X (Payloads \union {NoChunk}))
  BY DEF CommitStep
<1>2. CASE o \in NewNodes(world', Encoded(edit'))
  <2>1. PICK e \in edit', d \in 0 .. TreeDepth :
           o = Subtree(world')[d][e[1]] /\ Below(world', e[1], d) # {}
    BY <1>1, <1>2, NewNodesAre
  <2>2. e[1] \in Coords
    BY <1>1
  <2>3. CASE d = TreeDepth
    <3>1. e[1] \in Occupied(world')
      BY <2>1, <2>2, <2>3, BelowIs
    <3> QED
      BY <2>1, <2>2, <2>3, <3>1, SubtreeKind
  <2>4. CASE d # TreeDepth
    BY <2>1, <2>2, <2>4, SubtreeKind
  <2> QED
    BY <2>3, <2>4
<1>3. CASE o \in Blobs(edit')
  BY <1>3 DEF Blobs
<1> QED
  BY <1>2, <1>3 DEF CommitStep

LEMMA CommitStepKeepsTypes ==
    ASSUME CommitStep
    PROVE  TypeOK'
<1>1. IsBranch(root') /\ root' # None
  BY CanonicalIsBranch DEF CommitStep
<1>2. \A o \in published' : o[1] \in {"blob", "leaf", "branch", "commit"}
  BY PublishedAre DEF Branch, Leaf, EmptyTree, Blob, Commit
<1> QED
  BY <1>1, <1>2 DEF CommitStep, TypeOK, Worlds

LEMMA InitTreeInv == Init => TreeInv
BY DEF Init, TreeInv, TypeOK, RootIsCanonical, EmptyWorld, Occupied, None

LEMMA NextTreeInv ==
    ASSUME TreeInv, [Next]_vars
    PROVE  TreeInv'
<1>1. CASE Next
  <2>1. CommitStep
    BY <1>1, CommitSteps
  <2>2. root' # None /\ root' = CanonicalTree(world')
    BY <2>1, CanonicalIsBranch DEF CommitStep
  <2> QED
    BY <2>1, <2>2, CommitStepKeepsTypes DEF TreeInv, RootIsCanonical
<1>2. CASE UNCHANGED vars
  BY <1>2 DEF vars, TreeInv, TypeOK, RootIsCanonical
<1> QED
  BY <1>1, <1>2

\* The invariant, for widths, coordinates, worlds and change sets of any kind.
THEOREM TreeInvariance == Spec => []TreeInv
<1>1. Init => TreeInv
  BY InitTreeInv
<1>2. TreeInv /\ [Next]_vars => TreeInv'
  BY NextTreeInv
<1> QED
  BY <1>1, <1>2, PTL DEF Spec

\* The tree, the world and the published objects have their types always.
THEOREM TreeTypes == Spec => []TypeOK
<1>1. TreeInv => TypeOK
  BY DEF TreeInv
<1> QED
  BY <1>1, TreeInvariance, PTL

\* The root is a function of the world: commit_snapshot and commit_changes in
\* any order end with the same tree for the same world.
THEOREM RootsAreCanonical == Spec => []RootIsCanonical
<1>1. TreeInv => RootIsCanonical
  BY DEF TreeInv
<1> QED
  BY <1>1, TreeInvariance, PTL
----
(* Reading a tree back.                                                     *)

LEMMA ImageIsFinite ==
    ASSUME NEW S, IsFiniteSet(S), NEW T, NEW f \in [S -> T], \A t \in T : \E s \in S : f[s] = t
    PROVE  /\ IsFiniteSet(T) /\ Cardinality(T) \in Nat /\ Cardinality(S) \in Nat
           /\ Cardinality(T) <= Cardinality(S)
           /\ (\A a, b \in S : f[a] = f[b] => a = b) => Cardinality(T) = Cardinality(S)
<1>1. f \in Surjection(S, T)
  BY DEF Surjection
<1>2. (\A a, b \in S : f[a] = f[b] => a = b) => f \in Injection(S, T)
  BY DEF Injection, IsInjective
<1>3. /\ IsFiniteSet(T) /\ Cardinality(T) <= Cardinality(S)
      /\ Cardinality(T) = Cardinality(S) <=> f \in Injection(S, T)
  BY <1>1, FS_Surjection
<1> QED
  BY <1>2, <1>3, FS_CardinalityType

LEMMA CoordsFinite ==
    ASSUME NEW w
    PROVE  IsFiniteSet(Occupied(w)) /\ Cardinality(Occupied(w)) \in Nat
<1>1. IsFiniteSet(Signed)
  BY SizeType, FS_Interval DEF Signed
<1>2. IsFiniteSet(Signed \X Signed)
  BY <1>1, FS_Product
<1>3. Occupied(w) \in SUBSET (Signed \X Signed)
  BY WidthAssumption DEF Occupied
<1> QED
  BY <1>2, <1>3, FS_Subset, FS_CardinalityType

\* What tree_entries pops from the tree of a world, and from the empty one.
LEMMA PoppedIs ==
    ASSUME NEW v, Occupied(v) # {}
    PROVE  Popped(CanonicalTree(v)) =
              {<<d, Subtree(v)[d][c], Shifted(c, d)>> : c \in Occupied(v), d \in 0 .. TreeDepth}
<1> DEFINE tree == CanonicalTree(v)
           all == {<<d, Subtree(v)[d][c], Shifted(c, d)>> : c \in Occupied(v), d \in 0 .. TreeDepth}
<1>1. ASSUME NEW y \in Popped(tree)
      PROVE  y \in all
  <2>1. PICK d \in 0 .. TreeDepth : \E x \in Level(tree)[d] : y = <<d, x[1], x[2]>>
    BY DEF Popped
  <2>2. PICK x \in Level(tree)[d] : y = <<d, x[1], x[2]>>
    BY <2>1
  <2>3. PICK c \in Occupied(v) : x = <<Subtree(v)[d][c], Shifted(c, d)>>
    BY LevelOfTree
  <2> QED
    BY <2>2, <2>3
<1>2. ASSUME NEW c \in Occupied(v), NEW d \in 0 .. TreeDepth
      PROVE  <<d, Subtree(v)[d][c], Shifted(c, d)>> \in Popped(tree)
  <2> DEFINE x == <<Subtree(v)[d][c], Shifted(c, d)>>
  <2>1. x \in Level(tree)[d]
    BY LevelOfTree
  <2>2. <<d, x[1], x[2]>> \in Popped(tree)
    <3> HIDE DEF x
    <3> QED
      BY <2>1 DEF Popped
  <2> QED
    BY <2>2
<1>3. \A y \in all : y \in Popped(tree)
  BY <1>2
<1>4. Popped(tree) = all
  <2> HIDE DEF all
  <2> QED
    BY <1>1, <1>3
<1> QED
  BY <1>4

LEMMA PoppedOfEmptyTree == Popped(EmptyTree) = {<<0, EmptyTree, 0>>}
<1>1. ASSUME NEW y \in Popped(EmptyTree)
      PROVE  y = <<0, EmptyTree, 0>>
  <2>1. PICK d \in 0 .. TreeDepth : \E x \in Level(EmptyTree)[d] : y = <<d, x[1], x[2]>>
    BY DEF Popped
  <2>2. d = 0 \/ d \in 1 .. TreeDepth
    BY DepthType
  <2>3. d = 0
    BY <2>1, <2>2, LevelOfEmptyTree
  <2> QED
    BY <2>1, <2>3, LevelOfEmptyTree
<1>2. <<0, EmptyTree, 0>> \in Popped(EmptyTree)
  <2> DEFINE x == <<EmptyTree, 0>>
  <2>1. x \in Level(EmptyTree)[0] /\ 0 \in 0 .. TreeDepth
    BY LevelOfEmptyTree, DepthType
  <2>2. <<0, x[1], x[2]>> \in Popped(EmptyTree)
    <3> HIDE DEF x
    <3> QED
      BY <2>1 DEF Popped
  <2> QED
    BY <2>2
<1> QED
  BY <1>1, <1>2

\* tree_entries accepts the tree of a world and finds the world in it.
LEMMA EntriesAre ==
    ASSUME NEW v
    PROVE  TreeEntries(CanonicalTree(v)) = {<<c, Blob(v[c])>> : c \in Occupied(v)}
<1> DEFINE tree == CanonicalTree(v)
           cs == Occupied(v)
           popped == Popped(tree)
           nodes == {x[2] : x \in popped}
           leaves == {x \in popped : x[1] = TreeDepth}
           entries == {<<x[2][2], x[2][3]>> : x \in leaves}
           found == {e[1] : e \in entries}
           chunks == {<<c, Blob(v[c])>> : c \in cs}
<1>1. SUFFICES /\ Cardinality(nodes) = Cardinality(popped)
               /\ \A x \in popped : IsBranch(x[2]) <=> x[1] < TreeDepth
               /\ \A x \in leaves : CoordKey(x[2][2]) = x[3]
               /\ Cardinality(found) = Cardinality(leaves)
               /\ entries = chunks
  BY DEF TreeEntries
<1>2. CASE cs = {}
  <2>1. tree = EmptyTree
    BY <1>2 DEF CanonicalTree
  <2>2. popped = {<<0, EmptyTree, 0>>}
    BY <2>1, PoppedOfEmptyTree
  <2>3. nodes = {EmptyTree}
    BY <2>2
  <2>4. Cardinality(nodes) = 1 /\ Cardinality(popped) = 1
    BY <2>2, <2>3, FS_Singleton
  <2>5. leaves = {}
    BY <2>2, DepthType
  <2>6. entries = {} /\ found = {}
    BY <2>5
  <2>7. IsBranch(EmptyTree)
    BY Nodes DEF EmptyTree
  <2>8. \A x \in popped : IsBranch(x[2]) /\ x[1] < TreeDepth
    BY <2>2, <2>7, DepthType
  <2> QED
    BY <1>2, <2>4, <2>5, <2>6, <2>8
<1>3. CASE cs # {}
  <2> DEFINE at(c, d) == <<d, Subtree(v)[d][c], Shifted(c, d)>>
             pairs == cs \X (0 .. TreeDepth)
  <2>0. cs \subseteq Coords
    BY DEF Occupied
  <2>1. popped = {at(c, d) : c \in cs, d \in 0 .. TreeDepth}
    BY <1>3, PoppedIs
  <2>2. IsFiniteSet(popped)
    <3> DEFINE f == [p \in pairs |-> at(p[1], p[2])]
    <3>1. IsFiniteSet(pairs)
      <4>1. IsFiniteSet(cs)
        BY CoordsFinite
      <4>2. IsFiniteSet(0 .. TreeDepth)
        BY FS_Interval, DepthType
      <4> QED
        BY <4>1, <4>2, FS_Product
    <3>2. f \in [pairs -> popped]
      BY <2>1
    <3>3. ASSUME NEW t \in popped
          PROVE  \E p \in pairs : f[p] = t
      <4>1. PICK c \in cs, d \in 0 .. TreeDepth : t = at(c, d)
        BY <2>1
      <4>2. <<c, d>> \in pairs /\ f[<<c, d>>] = t
        BY <4>1
      <4> QED
        BY <4>2
    <3> HIDE DEF f, pairs, popped
    <3> QED
      BY <3>1, <3>2, <3>3, ImageIsFinite
  <2>3. Cardinality(nodes) = Cardinality(popped)
    <3> DEFINE f == [x \in popped |-> x[2]]
    <3>1. f \in [popped -> nodes] /\ \A t \in nodes : \E x \in popped : f[x] = t
      OBVIOUS
    <3>2. ASSUME NEW x \in popped, NEW y \in popped, f[x] = f[y]
          PROVE  x = y
      <4>1. PICK a \in cs, i \in 0 .. TreeDepth : x = at(a, i)
        BY <2>1
      <4>2. PICK b \in cs, j \in 0 .. TreeDepth : y = at(b, j)
        BY <2>1
      <4>3. Subtree(v)[i][a] = Subtree(v)[j][b]
        BY <3>2, <4>1, <4>2
      <4>4. i = j /\ Prefix(a, i) = Prefix(b, j)
        BY <4>3, NodeOccursOnce
      <4> QED
        BY <4>1, <4>2, <4>3, <4>4 DEF Shifted
    <3> HIDE DEF f, nodes, popped
    <3> QED
      BY <2>2, <3>1, <3>2, ImageIsFinite
  <2>4. ASSUME NEW x \in popped
        PROVE  /\ IsBranch(x[2]) <=> x[1] < TreeDepth
               /\ x[1] = TreeDepth => \E c \in cs : x = <<TreeDepth, Leaf(c, Blob(v[c])), CoordKey(c)>>
    <3>1. PICK c \in cs, d \in 0 .. TreeDepth : x = at(c, d)
      BY <2>1
    <3>2. CASE d = TreeDepth
      <4>1. Subtree(v)[d][c] = Leaf(c, Blob(v[c])) /\ Prefix(c, TreeDepth) = CoordKey(c)
        BY <2>0, <3>2, SubtreeKind, PrefixEnds
      <4>2. Shifted(c, d) = CoordKey(c)
        <5>1. Power[TreeDepth - d] = 1
          BY <3>2, PowerIs, DepthType
        <5>2. CoordKey(c) \in Nat
          BY <2>0, KeyType
        <5> QED
          BY <3>2, <4>1, <5>1, <5>2 DEF Shifted
      <4> QED
        BY <3>1, <3>2, <4>1, <4>2, Nodes, DepthType
    <3>3. CASE d # TreeDepth
      <4>1. IsBranch(Subtree(v)[d][c])
        <5>1. c \in Coords
          BY <2>0
        <5>2. Subtree(v)[d][c] = Branch(Kids(v, c, d))
          BY <3>3, <5>1, SubtreeKind
        <5> QED
          BY <5>2, Nodes
      <4>2. d < TreeDepth
        BY <3>3, DepthType
      <4> QED
        BY <3>1, <3>3, <4>1, <4>2
    <3> QED
      BY <3>2, <3>3
  <2>5. ASSUME NEW c \in cs
        PROVE  <<TreeDepth, Leaf(c, Blob(v[c])), CoordKey(c)>> \in leaves
    <3>1. at(c, TreeDepth) \in popped /\ at(c, TreeDepth)[1] = TreeDepth
      BY <2>1, DepthType
    <3>2. PICK b \in cs : at(c, TreeDepth) = <<TreeDepth, Leaf(b, Blob(v[b])), CoordKey(b)>>
      BY <2>4, <3>1
    <3>3. Subtree(v)[TreeDepth][c] = Leaf(c, Blob(v[c]))
      BY <2>0, SubtreeKind, DepthType
    <3>4. Leaf(b, Blob(v[b])) = Leaf(c, Blob(v[c]))
      BY <3>2, <3>3
    <3>5. b = c
      BY <3>4 DEF Leaf
    <3> QED
      BY <3>1, <3>2, <3>5
  <2> DEFINE leaf(c) == <<TreeDepth, Leaf(c, Blob(v[c])), CoordKey(c)>>
  <2>6. leaves = {leaf(c) : c \in cs}
    <3>1. \A x \in leaves : \E c \in cs : x = leaf(c)
      BY <2>4
    <3> HIDE DEF leaves
    <3> QED
      BY <2>5, <3>1
  <2> HIDE DEF leaves
  <2>7. \A c \in cs : leaf(c)[2][2] = c /\ leaf(c)[2][3] = Blob(v[c]) /\ leaf(c)[3] = CoordKey(c)
    BY Nodes
  <2>8. \A x \in leaves : CoordKey(x[2][2]) = x[3]
    BY <2>6, <2>7
  <2>9. entries = chunks
    <3>1. \A c \in cs : <<leaf(c)[2][2], leaf(c)[2][3]>> = <<c, Blob(v[c])>>
      BY <2>7
    <3>2. entries = {<<leaf(c)[2][2], leaf(c)[2][3]>> : c \in cs}
      <4> HIDE DEF leaf
      <4> QED
        BY <2>6
    <3> HIDE DEF leaf
    <3> QED
      BY <3>1, <3>2
  <2>10. found = cs
    <3>1. \A c \in cs : <<c, Blob(v[c])>> \in chunks /\ <<c, Blob(v[c])>>[1] = c
      OBVIOUS
    <3>2. \A e \in chunks : e[1] \in cs
      OBVIOUS
    <3>3. {e[1] : e \in chunks} = cs
      <4> HIDE DEF chunks, cs
      <4> QED
        BY <3>1, <3>2
    <3> QED
      BY <2>9, <3>3
  <2>11. Cardinality(leaves) = Cardinality(cs)
    <3> DEFINE f == [c \in cs |-> leaf(c)]
    <3>1. f \in [cs -> leaves] /\ \A t \in leaves : \E c \in cs : f[c] = t
      BY <2>6
    <3>2. \A a, b \in cs : f[a] = f[b] => a = b
      BY <2>7
    <3> HIDE DEF f, cs
    <3> QED
      BY <3>1, <3>2, CoordsFinite, ImageIsFinite DEF cs
  <2> HIDE DEF popped, nodes, entries, found, chunks
  <2> QED
    BY <2>3, <2>4, <2>8, <2>9, <2>10, <2>11
<1> QED
  BY <1>2, <1>3

\* What was committed is what tree_entries reads, for coordinates of any width
\* and after any sequence of commits.
THEOREM WorldsAreReadBack == Spec => []ReadsBackTheWorld
<1>1. TreeInv => ReadsBackTheWorld
  BY EntriesAre DEF TreeInv, RootIsCanonical, ReadsBackTheWorld
<1> QED
  BY <1>1, TreeInvariance, PTL
----
(* Telling two trees apart.                                                 *)

Chunks(w) == {<<c, Blob(w[c])>> : c \in Occupied(w)}

LEMMA ChunksAre ==
    ASSUME NEW w, NEW c
    PROVE  /\ Mentions(Chunks(w), c) <=> c \in Occupied(w)
           /\ \A b : <<c, b>> \in Chunks(w) <=> c \in Occupied(w) /\ b = Blob(w[c])
           /\ \A e \in Chunks(w) : e = <<e[1], Blob(w[e[1]])>> /\ e[1] \in Occupied(w)
<1>1. \A e \in Chunks(w) : e = <<e[1], Blob(w[e[1]])>> /\ e[1] \in Occupied(w)
  BY DEF Chunks
<1>2. c \in Occupied(w) => <<c, Blob(w[c])>> \in Chunks(w) /\ <<c, Blob(w[c])>>[1] = c
  BY DEF Chunks
<1>3. Mentions(Chunks(w), c) <=> c \in Occupied(w)
  BY <1>1, <1>2 DEF Mentions
<1>4. \A b : <<c, b>> \in Chunks(w) <=> c \in Occupied(w) /\ b = Blob(w[c])
  BY DEF Chunks
<1> QED
  BY <1>1, <1>3, <1>4

LEMMA CoordsOf ==
    ASSUME NEW S, NEW cs, NEW w, \A e \in S : e[1] \in cs, \A c \in cs : <<c, Blob(w[c])>> \in S
    PROVE  {e[1] : e \in S} = cs
<1>1. \A c \in cs : \E e \in S : e[1] = c
  <2>1. \A c \in cs : <<c, Blob(w[c])>>[1] = c
    OBVIOUS
  <2> QED
    BY <2>1
<1> QED
  BY <1>1

LEMMA DiffOfWorlds ==
    ASSUME NEW w \in Worlds, NEW v \in Worlds, NEW from,
           IF from = None THEN Occupied(w) = {} ELSE from = CanonicalTree(w)
    PROVE  LET d == Diff(from, CanonicalTree(v))
               coords(S) == {e[1] : e \in S}
           IN  /\ coords(d.added) = Occupied(v) \ Occupied(w)
               /\ coords(d.removed) = Occupied(w) \ Occupied(v)
               /\ coords(d.modified) = {c \in Occupied(w) \intersect Occupied(v) : w[c] # v[c]}
<1> DEFINE d == Diff(from, CanonicalTree(v))
           old == Chunks(w)
           new == Chunks(v)
           added == {e \in new : ~Mentions(old, e[1])}
           removed == {e \in old : ~Mentions(new, e[1])}
           modified == {e \in new : Mentions(old, e[1]) /\ e \notin old}
<1>1. old = IF from = None THEN {} ELSE TreeEntries(from)
  BY EntriesAre DEF Chunks
<1>2. new = TreeEntries(CanonicalTree(v))
  BY EntriesAre DEF Chunks
<1>3. d = [added |-> added, modified |-> modified, removed |-> removed]
  <2> HIDE DEF old, new
  <2> QED
    BY <1>1, <1>2 DEF Diff, Modified
<1>4. {e[1] : e \in added} = Occupied(v) \ Occupied(w)
  <2>1. \A e \in added : e[1] \in Occupied(v) \ Occupied(w)
    BY ChunksAre
  <2>2. \A c \in Occupied(v) \ Occupied(w) : <<c, Blob(v[c])>> \in added
    BY ChunksAre
  <2> HIDE DEF added
  <2> QED
    BY CoordsOf, <2>1, <2>2
<1>5. {e[1] : e \in removed} = Occupied(w) \ Occupied(v)
  <2>1. \A e \in removed : e[1] \in Occupied(w) \ Occupied(v)
    BY ChunksAre
  <2>2. \A c \in Occupied(w) \ Occupied(v) : <<c, Blob(w[c])>> \in removed
    BY ChunksAre
  <2> HIDE DEF removed
  <2> QED
    BY CoordsOf, <2>1, <2>2
<1>6. {e[1] : e \in modified} = {c \in Occupied(w) \intersect Occupied(v) : w[c] # v[c]}
  <2>1. \A c : Blob(w[c]) = Blob(v[c]) <=> w[c] = v[c]
    BY DEF Blob
  <2>2. ASSUME NEW e \in modified
        PROVE  e[1] \in Occupied(w) \intersect Occupied(v) /\ w[e[1]] # v[e[1]]
    <3>1. e = <<e[1], Blob(v[e[1]])>> /\ e[1] \in Occupied(v) /\ e[1] \in Occupied(w)
      BY ChunksAre
    <3>2. <<e[1], Blob(v[e[1]])>> \notin old
      BY <3>1
    <3>3. Blob(v[e[1]]) # Blob(w[e[1]])
      BY <3>1, <3>2, ChunksAre
    <3> QED
      BY <2>1, <3>1, <3>3
  <2>3. ASSUME NEW c \in Occupied(w) \intersect Occupied(v), w[c] # v[c]
        PROVE  <<c, Blob(v[c])>> \in modified
    <3>1. <<c, Blob(v[c])>> \in new /\ Mentions(old, c)
      BY ChunksAre
    <3>2. <<c, Blob(v[c])>> \notin old
      BY <2>1, <2>3, ChunksAre
    <3> QED
      BY <3>1, <3>2
  <2> DEFINE cs == {c \in Occupied(w) \intersect Occupied(v) : w[c] # v[c]}
  <2>4. /\ \A e \in modified : e[1] \in cs
        /\ \A c \in cs : <<c, Blob(v[c])>> \in modified
    BY <2>2, <2>3
  <2>5. {e[1] : e \in modified} = cs
    <3> HIDE DEF modified, cs
    <3> QED
      BY CoordsOf, <2>4
  <2> QED
    BY <2>5
<1> HIDE DEF added, removed, modified
<1>7. d.added = added /\ d.removed = removed /\ d.modified = modified
  BY <1>3
<1> HIDE DEF d
<1> QED
  BY <1>4, <1>5, <1>6, <1>7 DEF d

\* diff lists every chunk that a commit adds, changes or removes, once and
\* under the right heading.
THEOREM DiffsAreExact == Spec => DiffIsExact
<1>1. ASSUME TreeInv, Next
      PROVE  LET d == Diff(root, root')
                 coords(S) == {e[1] : e \in S}
             IN /\ coords(d.added) = Occupied(world') \ Occupied(world)
                /\ coords(d.removed) = Occupied(world) \ Occupied(world')
                /\ coords(d.modified) = {c \in Occupied(world) \intersect Occupied(world')
                                           : world[c] # world'[c]}
  <2>1. world' \in Worlds /\ root' = CanonicalTree(world')
    BY <1>1, CommitSteps DEF CommitStep
  <2>2. world \in Worlds
    BY <1>1 DEF TreeInv, TypeOK, Worlds
  <2>3. IF root = None THEN Occupied(world) = {} ELSE root = CanonicalTree(world)
    BY <1>1 DEF TreeInv, RootIsCanonical
  <2> QED
    BY <2>1, <2>2, <2>3, DiffOfWorlds
<1> QED
  BY <1>1, TreeInvariance, PTL DEF Spec, DiffIsExact
----
(* What a commit publishes.                                                 *)

\* A commit edits a coordinate once.
LEMMA EditsFinite ==
    ASSUME CommitStep
    PROVE  IsFiniteSet(edit') /\ \A a, b \in edit' : a[1] = b[1] => a = b
<1>1. \A e \in edit' : e = <<e[1], world'[e[1]]>> /\ e[1] \in Coords
  BY DEF CommitStep
<1>2. \A a, b \in edit' : a[1] = b[1] => a = b
  BY <1>1
<1> DEFINE f == [e \in edit' |-> e[1]]
<1>3. f \in Injection(edit', Coords)
  BY <1>1, <1>2 DEF Injection, IsInjective
<1>4. IsFiniteSet(Coords)
  <2>1. IsFiniteSet(Signed)
    BY SizeType, FS_Interval DEF Signed
  <2>2. IsFiniteSet(Signed \X Signed)
    BY <2>1, FS_Product
  <2>3. Coords \in SUBSET (Signed \X Signed)
    BY WidthAssumption
  <2> QED
    BY <2>2, <2>3, FS_Subset
<1> HIDE DEF f
<1> QED
  BY <1>2, <1>3, <1>4, FS_Injection

LEMMA WithinImage ==
    ASSUME NEW S, IsFiniteSet(S), NEW T, NEW f \in [S -> T],
           NEW U, U \subseteq T, \A u \in U : \E s \in S : f[s] = u
    PROVE  Cardinality(U) <= Cardinality(S)
<1> DEFINE R == {f[s] : s \in S}
           g == [s \in S |-> f[s]]
<1>1. g \in [S -> R] /\ \A t \in R : \E s \in S : g[s] = t
  OBVIOUS
<1> HIDE DEF g
<1>2. IsFiniteSet(R) /\ Cardinality(R) \in Nat /\ Cardinality(S) \in Nat /\ Cardinality(R) <= Cardinality(S)
  <2> HIDE DEF R
  <2> QED
    BY <1>1, ImageIsFinite
<1>3. U \in SUBSET R
  OBVIOUS
<1> HIDE DEF R
<1>4. Cardinality(U) <= Cardinality(R) /\ Cardinality(U) \in Nat
  BY <1>2, <1>3, FS_Subset, FS_CardinalityType
<1> QED
  BY <1>2, <1>4

LEMMA BranchesBounded ==
    ASSUME CommitStep
    PROVE  Cardinality({o \in published' : o[1] = "branch"} \ {EmptyTree})
              <= Cardinality(EditedPrefixes(edit'))
<1> DEFINE branches == {o \in published' : o[1] = "branch"} \ {EmptyTree}
           prefixes == EditedPrefixes(edit')
           v == world'
           pairs == edit' \X (0 .. TreeDepth - 1)
           g == [p \in pairs |-> <<p[2], Prefix(p[1][1], p[2])>>]
           chosen(x) == CHOOSE e \in edit' : Prefix(e[1], x[1]) = x[2]
           f == [x \in prefixes |-> Branch(Kids(v, chosen(x)[1], x[1]))]
<1>1. IsFiniteSet(prefixes)
  <2>1. IsFiniteSet(pairs)
    <3>1. IsFiniteSet(0 .. TreeDepth - 1)
      BY FS_Interval, DepthType
    <3> QED
      BY <3>1, EditsFinite, FS_Product
  <2>2. g \in [pairs -> prefixes]
    BY DEF EditedPrefixes
  <2>3. ASSUME NEW x \in prefixes
        PROVE  \E p \in pairs : g[p] = x
    <3>1. PICK e \in edit', d \in 0 .. TreeDepth - 1 : x = <<d, Prefix(e[1], d)>>
      BY DEF EditedPrefixes
    <3>2. <<e, d>> \in pairs /\ g[<<e, d>>] = x
      BY <3>1
    <3> QED
      BY <3>2
  <2> HIDE DEF g, pairs, prefixes
  <2> QED
    BY <2>1, <2>2, <2>3, ImageIsFinite
<1>2. \A e \in edit' : e[1] \in Coords
  BY DEF CommitStep
<1>3. ASSUME NEW o \in branches
      PROVE  \E x \in prefixes : f[x] = o
  <2>1. PICK e \in edit', d \in 0 .. TreeDepth - 1 : o = Branch(Kids(v, e[1], d))
    BY PublishedAre DEF Leaf, Blob, Commit
  <2> DEFINE x == <<d, Prefix(e[1], d)>>
  <2>2. x \in prefixes /\ x[1] = d /\ x[2] = Prefix(e[1], d)
    BY DEF EditedPrefixes
  <2> HIDE DEF x
  <2>3. chosen(x) \in edit' /\ Prefix(chosen(x)[1], d) = Prefix(e[1], d)
    BY <2>2
  <2>4. d \in 0 .. TreeDepth
    BY DepthType
  <2> HIDE DEF chosen
  <2>5. Subtree(v)[d][chosen(x)[1]] = Subtree(v)[d][e[1]]
    BY <1>2, <2>3, <2>4, PrefixGivesNode
  <2>6. Branch(Kids(v, chosen(x)[1], d)) = Branch(Kids(v, e[1], d))
    BY <1>2, <2>3, <2>5, SubtreeIsKids
  <2> QED
    BY <2>1, <2>2, <2>6
<1> DEFINE T == {f[x] : x \in prefixes} \union branches
<1>4. f \in [prefixes -> T] /\ branches \subseteq T
  OBVIOUS
<1> HIDE DEF f, T, branches, prefixes
<1>5. Cardinality(branches) <= Cardinality(prefixes)
  BY <1>1, <1>3, <1>4, WithinImage
<1> QED
  BY <1>5 DEF branches, prefixes

LEMMA ChunksBounded ==
    ASSUME CommitStep
    PROVE  /\ Cardinality({o \in published' : o[1] = "leaf"})
                 <= Cardinality({e \in edit' : e[2] # NoChunk})
           /\ Cardinality({o \in published' : o[1] = "blob"})
                 <= Cardinality({e \in edit' : e[2] # NoChunk})
<1> DEFINE upserts == {e \in edit' : e[2] # NoChunk}
           leaves == {o \in published' : o[1] = "leaf"}
           blobs == {o \in published' : o[1] = "blob"}
           leaf == [e \in upserts |-> Leaf(e[1], Blob(e[2]))]
           blob == [e \in upserts |-> Blob(e[2])]
<1>1. IsFiniteSet(upserts)
  BY EditsFinite, FS_Subset
<1>2. \A e \in edit' : e[2] = world'[e[1]]
  BY DEF CommitStep
<1>3. ASSUME NEW o \in leaves
      PROVE  \E e \in upserts : leaf[e] = o
  <2>1. PICK e \in edit' : o = Leaf(e[1], Blob(world'[e[1]])) /\ e[1] \in Occupied(world')
    BY PublishedAre DEF Branch, EmptyTree, Blob, Commit
  <2>2. e \in upserts
    BY <1>2, <2>1 DEF Occupied
  <2> QED
    BY <1>2, <2>1, <2>2
<1>4. ASSUME NEW o \in blobs
      PROVE  \E e \in upserts : blob[e] = o
  <2>1. PICK e \in edit' : e[2] # NoChunk /\ o = Blob(e[2])
    BY PublishedAre DEF Branch, EmptyTree, Leaf, Commit
  <2> QED
    BY <2>1
<1> DEFINE L == {leaf[e] : e \in upserts} \union leaves
           B == {blob[e] : e \in upserts} \union blobs
<1>5. leaf \in [upserts -> L] /\ leaves \subseteq L /\ blob \in [upserts -> B] /\ blobs \subseteq B
  OBVIOUS
<1> HIDE DEF leaf, blob, L, B, upserts, leaves, blobs
<1>6. Cardinality(leaves) <= Cardinality(upserts)
  BY <1>1, <1>3, <1>5, WithinImage
<1>7. Cardinality(blobs) <= Cardinality(upserts)
  BY <1>1, <1>4, <1>5, WithinImage
<1> QED
  BY <1>6, <1>7 DEF upserts, leaves, blobs

\* The bound of the paper on what a commit publishes, whatever it edits.
THEOREM PublicationsAreBounded == Spec => PublicationIsBounded
<1>1. ASSUME TreeInv, Next
      PROVE  LET of(kind) == {o \in published' : o[1] = kind}
                 upserts == {e \in edit' : e[2] # NoChunk}
             IN /\ Cardinality(of("branch") \ {EmptyTree})
                      <= Cardinality(EditedPrefixes(edit'))
                /\ Cardinality(of("leaf")) <= Cardinality(upserts)
                /\ Cardinality(of("blob")) <= Cardinality(upserts)
                /\ Cardinality(of("commit")) = 1
  <2> DEFINE commits == {o \in published' : o[1] = "commit"}
             commit == Commit(root', root, Message)
  <2>1. CommitStep
    BY <1>1, CommitSteps
  <2>2. \A o \in commits : o = commit
    BY <2>1, PublishedAre DEF Branch, EmptyTree, Leaf, Blob
  <2>3. commit \in commits
    BY <2>1 DEF CommitStep, Commit
  <2>4. Cardinality(commits) = 1
    <3>1. commits = {commit}
      <4> HIDE DEF commits, commit
      <4> QED
        BY <2>2, <2>3
    <3> HIDE DEF commits, commit
    <3> QED
      BY <3>1, FS_Singleton
  <2> QED
    BY <2>1, <2>4, BranchesBounded, ChunksBounded
<1> QED
  BY <1>1, TreeInvariance, PTL DEF Spec, PublicationIsBounded
----
(* Encoding what is published.                                              *)

LEMMA KidsAreMap ==
    ASSUME NEW v, NEW c \in Coords, NEW d \in 0 .. TreeDepth - 1
    PROVE  IsMap(Kids(v, c, d))
<1> DEFINE below == Below(v, c, d)
           kid(x) == <<Digit(x, d), Subtree(v)[d + 1][x]>>
           kids == {kid(x) : x \in below}
           f == [x \in below |-> kid(x)]
<1>1. below \in SUBSET Occupied(v) /\ below \subseteq Coords
  BY DEF Below, Occupied
<1>2. IsFiniteSet(below)
  BY <1>1, CoordsFinite, FS_Subset
<1>3. IsFiniteSet(kids)
  <2>1. f \in [below -> kids] /\ \A e \in kids : \E x \in below : f[x] = e
    OBVIOUS
  <2> HIDE DEF f, kids, below
  <2> QED
    BY <1>2, <2>1, ImageIsFinite
<1>4. ASSUME NEW x \in below
      PROVE  Digit(x, d) \in 0 .. MaxChildren - 1
  BY <1>1, PrefixStep DEF Nibbles
<1>5. ASSUME NEW x \in below, NEW y \in below, Digit(x, d) = Digit(y, d)
      PROVE  kid(x) = kid(y)
  <2>1. x \in Coords /\ y \in Coords /\ Prefix(x, d) = Prefix(y, d)
    BY <1>1 DEF Below
  <2>2. Prefix(x, d + 1) = Prefix(y, d + 1)
    BY <1>5, <2>1, PrefixesAgree
  <2>3. d + 1 \in 0 .. TreeDepth
    BY DepthType
  <2>4. Subtree(v)[d + 1][x] = Subtree(v)[d + 1][y]
    BY <2>1, <2>2, <2>3, PrefixGivesNode
  <2> QED
    BY <1>5, <2>4
<1>6. ASSUME NEW e \in kids
      PROVE  e = <<e[1], e[2]>> /\ e[1] \in 0 .. MaxChildren - 1
  BY <1>4
<1>7. ASSUME NEW e \in kids, NEW g \in kids, e[1] = g[1]
      PROVE  e = g
  <2>1. PICK x \in below : e = kid(x)
    OBVIOUS
  <2>2. PICK y \in below : g = kid(y)
    OBVIOUS
  <2>3. Digit(x, d) = Digit(y, d)
    BY <1>7, <2>1, <2>2
  <2> QED
    BY <1>5, <2>1, <2>2, <2>3
<1>8. Kids(v, c, d) = kids
  BY DEF Kids
<1> HIDE DEF kids
<1> QED
  BY <1>3, <1>6, <1>7, <1>8 DEF IsMap

\* Whatever a commit publishes, at most MaxChildren nibbles to a branch,
\* decodes to itself, and no part of it and nothing longer decodes.
THEOREM PublishedEncodingsAreExact == Spec => []EncodingIsExact
<1>1. MaxChildren \in Nat
  BY WidthAssumption
<1>2. Init => EncodingIsExact
  BY DEF Init, EncodingIsExact
<1>3. ASSUME TreeInv, EncodingIsExact, [Next]_vars
      PROVE  EncodingIsExact'
  <2>1. CASE Next
    <3>1. CommitStep
      BY <1>3, <2>1, CommitSteps
    <3>2. ASSUME NEW o \in published'
          PROVE  Exact(o, ToBytes(o))
      <4>1. ASSUME NEW e \in edit', NEW d \in 0 .. TreeDepth - 1, o = Branch(Kids(world', e[1], d))
            PROVE  Exact(o, ToBytes(o))
        <5>1. e[1] \in Coords
          BY <3>1 DEF CommitStep
        <5>2. IsMap(Kids(world', e[1], d))
          BY <5>1, KidsAreMap
        <5> QED
          BY <1>1, <4>1, <5>2, BranchIsExact
      <4>2. ASSUME NEW e \in edit', o = Leaf(e[1], Blob(world'[e[1]]))
            PROVE  Exact(o, ToBytes(o))
        <5>1. e[1] = <<e[1][1], e[1][2]>>
          BY <3>1, CoordsType DEF CommitStep
        <5> QED
          BY <4>2, <5>1, LeafIsExact
      <4>3. CASE o = EmptyTree
        <5>1. IsMap({})
          BY FS_EmptySet DEF IsMap
        <5> QED
          BY <1>1, <4>3, <5>1, BranchIsExact DEF EmptyTree
      <4>4. ASSUME NEW e \in edit', e[2] # NoChunk, o = Blob(e[2])
            PROVE  Exact(o, ToBytes(o))
        <5>1. e[2] \in Seq(Nat)
          BY <3>1, <4>4, WorldAssumption DEF CommitStep
        <5> QED
          BY <4>4, <5>1, BlobIsExact
      <4>5. CASE o = Commit(root', root, Message)
        BY <4>5, WorldAssumption, CommitIsExact
      <4> QED
        BY <3>1, <4>1, <4>2, <4>3, <4>4, <4>5, PublishedAre
    <3> QED
      BY <3>2 DEF EncodingIsExact, Exact
  <2>2. CASE UNCHANGED vars
    BY <1>3, <2>2 DEF vars, EncodingIsExact
  <2> QED
    BY <1>3, <2>1, <2>2
<1> QED
  BY <1>2, <1>3, TreeInvariance, PTL DEF Spec
====
