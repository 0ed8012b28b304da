---- MODULE ObjectLogProofs ----
(* Theorems about the object log, for any number of objects, transactions   *)
(* and cells, and for every failure the model has.                          *)
EXTENDS ObjectLog, FiniteSetTheorems, SequenceTheorems, TLAPS

(* Facts about the data.                                                    *)

LEMMA HasMax ==
    ASSUME NEW S \in SUBSET Nat, IsFiniteSet(S), S # {}
    PROVE  MaxIn(S) \in S /\ \A n \in S : n <= MaxIn(S)
<1> DEFINE Above(x) == {y \in S : y > x}
           T == {Above(x) : x \in S}
<1>1. T # {} /\ T \subseteq FiniteSubsetsOf(S)
  <2>1. \A U \in SUBSET S : U \in FiniteSubsetsOf(S)
    BY FS_Subset DEF FiniteSubsetsOf
  <2>2. T # {} /\ T \subseteq SUBSET S
    OBVIOUS
  <2> HIDE DEF T
  <2> QED
    BY <2>1, <2>2
<1>2. PICK m \in T : \A U \in T : ~(<<U, m>> \in StrictSubsetOrdering(S))
  <2> HIDE DEF T
  <2> QED
    BY <1>1, FS_StrictSubsetOrderingWellFounded, WFMin
<1>3. PICK x \in S : m = Above(x)
  OBVIOUS
<1>4. ASSUME NEW y \in S, y > x
      PROVE  FALSE
  <2>1. \A z \in S : z > y => z > x
    BY <1>4
  <2>2. y \in Above(x) /\ ~(y > y)
    BY <1>4
  <2>3. Above(y) \subseteq Above(x)
    BY <2>1
  <2>4. Above(y) \in T /\ Above(y) # Above(x)
    BY <2>2
  <2>5. Above(y) \in SUBSET S /\ Above(x) \in SUBSET S
    OBVIOUS
  <2>6. <<Above(y), m>> \notin StrictSubsetOrdering(S)
    BY <1>2, <2>4
  <2> HIDE DEF Above
  <2> QED
    BY <1>3, <2>3, <2>4, <2>5, <2>6 DEF StrictSubsetOrdering
<1>5. \A y \in S : y <= x
  BY <1>4
<1> QED
  BY <1>5 DEF MaxIn

\* What a cell of a log may hold.
Cell == {<<kind>> : kind \in {"CHOP", "begin", "put", "delete", "commit"}}
          \union {<<"version", 1>>}
          \union ({"identifier"} \X (1 .. MaxTransactions))
          \union ({"object", "hash"} \X Hashes)
Log == Seq(Cell)

LEMMA CellsAre ==
    /\ \A kind \in {"CHOP", "begin", "put", "delete", "commit"} : <<kind>> \in Cell
    /\ <<"version", 1>> \in Cell
    /\ \A i \in 1 .. MaxTransactions : <<"identifier", i>> \in Cell
    /\ \A h \in Hashes : <<"object", h>> \in Cell /\ <<"hash", h>> \in Cell
  BY DEF Cell

LEMMA Identifiers ==
    ASSUME NEW c \in Cell, c[1] = "identifier"
    PROVE  c[2] \in 1 .. MaxTransactions
  BY DEF Cell

\* The file begins with that log.
Begins(f, g) == Len(g) <= Len(f) /\ \A i \in 1 .. Len(g) : f[i] = g[i]

LEMMA CountOf ==
    ASSUME NEW f \in Log, Len(f) >= 2
    PROVE  /\ Count(f) \in Nat
           /\ 2 * Count(f) + 2 <= Len(f) /\ Len(f) < 2 * Count(f) + 4
           /\ \A n \in 1 .. Count(f) : /\ 2 * n + 1 \in 1 .. Len(f)
                                       /\ 2 * n + 2 \in 1 .. Len(f)
<1>1. Len(f) \in Nat
  BY DEF Log
<1>2. Count(f) \in Nat /\ 2 * Count(f) + 2 <= Len(f) /\ Len(f) < 2 * Count(f) + 4
  BY <1>1 DEF Count
<1> QED
  BY <1>1, <1>2

LEMMA ReadableMeans ==
    ASSUME NEW f \in Log
    PROVE  Readable(f) <=> \/ f = <<>>
                           \/ /\ Len(f) >= 2
                              /\ f[1] = <<"CHOP">> /\ f[2] = <<"version", 1>>
                              /\ \A n \in 1 .. Count(f) : Legal(f, n)
<1>1. FileHeader \in Seq(Cell) /\ Len(FileHeader) = 2
      /\ FileHeader[1] = <<"CHOP">> /\ FileHeader[2] = <<"version", 1>>
  BY DEF FileHeader, Cell
<1>2. ASSUME Len(f) >= 2
      PROVE  SubSeq(f, 1, 2) = FileHeader
               <=> f[1] = <<"CHOP">> /\ f[2] = <<"version", 1>>
  <2>1. Len(SubSeq(f, 1, 2)) = 2 /\ SubSeq(f, 1, 2) \in Seq(Cell)
        /\ SubSeq(f, 1, 2)[1] = f[1] /\ SubSeq(f, 1, 2)[2] = f[2]
    BY <1>2 DEF Log
  <2>2. SubSeq(f, 1, 2) = FileHeader <=>
           \A i \in 1 .. 2 : SubSeq(f, 1, 2)[i] = FileHeader[i]
    BY <1>1, <2>1, SeqEqual
  <2> QED
    BY <1>1, <2>1, <2>2
<1> QED
  BY <1>1, <1>2 DEF Readable

\* What is said of a record depends on the file up to that record alone.
LEMMA SameRecords ==
    ASSUME NEW f \in Log, NEW g \in Log, Len(g) >= 2, Begins(f, g)
    PROVE  /\ Count(g) <= Count(f)
           /\ \A n \in 1 .. Count(g) : /\ Kind(f, n) = Kind(g, n)
                                       /\ Payload(f, n) = Payload(g, n)
                                       /\ f[2 * n + 2] = g[2 * n + 2]
           /\ \A n \in 1 .. Count(g) + 1 : Pending(f, n) = Pending(g, n)
           /\ \A n \in 1 .. Count(g) : Legal(f, n) <=> Legal(g, n)
<1>1. Len(f) \in Nat /\ Len(g) \in Nat /\ Len(f) >= 2
  BY DEF Log, Begins
<1>2. Count(g) \in Nat /\ Count(f) \in Nat /\ Count(g) <= Count(f)
  BY <1>1, CountOf DEF Begins
<1>3. ASSUME NEW n \in 1 .. Count(g)
      PROVE  /\ f[2 * n + 1] = g[2 * n + 1] /\ f[2 * n + 2] = g[2 * n + 2]
             /\ Kind(f, n) = Kind(g, n) /\ Payload(f, n) = Payload(g, n)
  BY <1>1, CountOf DEF Begins, Kind, Payload
<1>4. ASSUME NEW n \in 1 .. Count(g) + 1
      PROVE  Pending(f, n) = Pending(g, n)
  <2>1. \A m \in 1 .. n - 1 : m \in 1 .. Count(g)
    BY <1>2
  <2>2. \A b \in 1 .. n - 1 : \A c \in b .. n - 1 : c \in 1 .. n - 1
    BY <1>2
  <2> QED
    BY <1>3, <2>1, <2>2 DEF Pending
<1>5. ASSUME NEW n \in 1 .. Count(g)
      PROVE  Legal(f, n) <=> Legal(g, n)
  <2>1. Pending(f, n) = Pending(g, n) /\ Pending(g, n) \subseteq 1 .. Count(g)
    BY <1>2, <1>4 DEF Pending
  <2> QED
    BY <1>3, <2>1 DEF Legal
<1> QED
  BY <1>2, <1>3, <1>4, <1>5

LEMMA PrefixReadable ==
    ASSUME NEW f \in Log, NEW g \in Log, Len(g) >= 2, Begins(f, g), Readable(f)
    PROVE  Readable(g)
<1>1. Len(f) \in Nat /\ Len(g) \in Nat /\ Len(f) >= 2 /\ f # <<>>
  BY DEF Log, Begins
<1>2. g[1] = f[1] /\ g[2] = f[2]
  BY <1>1 DEF Begins
<1>3. \A n \in 1 .. Count(g) : Legal(g, n)
  BY <1>1, SameRecords, ReadableMeans, CountOf
<1> QED
  BY <1>1, <1>2, <1>3, ReadableMeans

\* At most one transaction is pending at a time.
LEMMA OnePending ==
    ASSUME NEW f \in Log, Readable(f), f # <<>>,
           NEW n \in 1 .. Count(f) + 1, NEW b \in Pending(f, n), NEW c \in Pending(f, n)
    PROVE  b = c
<1>1. Len(f) >= 2 /\ Count(f) \in Nat /\ \A m \in 1 .. Count(f) : Legal(f, m)
  BY ReadableMeans, CountOf
<1>2. ASSUME NEW x \in Pending(f, n), NEW y \in Pending(f, n), x < y
      PROVE  FALSE
  <2>1. /\ x \in 1 .. Count(f) /\ y \in 1 .. Count(f)
        /\ Kind(f, x) = "begin" /\ Kind(f, y) = "begin"
        /\ \A m \in x .. y - 1 : Kind(f, m) # "commit"
    BY <1>1 DEF Pending
  <2>2. x \in Pending(f, y)
    BY <1>2, <2>1 DEF Pending
  <2>3. Pending(f, y) = {}
    BY <1>1, <2>1 DEF Legal
  <2> QED
    BY <2>2, <2>3
<1>3. b \in Int /\ c \in Int
  BY <1>1 DEF Pending
<1> QED
  BY <1>2, <1>3

\* A log without a torn record or an open transaction at its end.
Sealed(f) == /\ f \in Log /\ Len(f) >= 2
             /\ Readable(f)
             /\ Len(f) = 2 * (Count(f) + 1)
             /\ Pending(f, Count(f) + 1) = {}

LEMMA SealedIsValid ==
    ASSUME NEW f, Sealed(f)
    PROVE  ValidLen(f) = Len(f)
  BY DEF Sealed, ValidLen

\* The committed records about an address.
Changes(f, h) == {n \in 1 .. Count(f) :
                     /\ Kind(f, n) \in {"put", "delete"}
                     /\ Payload(f, n) = h
                     /\ \E c \in n .. Count(f) : Kind(f, c) = "commit"}

LEMMA LastChangeIs ==
    ASSUME NEW f \in Log, Len(f) >= 2, NEW h
    PROVE  /\ LastChange(f, h) = MaxIn({0} \union Changes(f, h))
           /\ LastChange(f, h) \in {0} \union Changes(f, h)
           /\ LastChange(f, h) \in 0 .. Count(f)
           /\ \A n \in Changes(f, h) : n <= LastChange(f, h)
<1>1. Count(f) \in Nat
  BY CountOf
<1>2. /\ {0} \union Changes(f, h) \in SUBSET Nat
      /\ \A n \in {0} \union Changes(f, h) : n <= Count(f)
  BY <1>1 DEF Changes
<1>3. IsFiniteSet({0} \union Changes(f, h))
  BY <1>1, <1>2, FS_BoundedSetOfNaturals
<1>4. LastChange(f, h) = MaxIn({0} \union Changes(f, h))
  BY DEF LastChange, Changes
<1>5. /\ LastChange(f, h) \in {0} \union Changes(f, h)
      /\ \A n \in {0} \union Changes(f, h) : n <= LastChange(f, h)
  BY <1>2, <1>3, <1>4, HasMax
<1>6. \A m \in {0} \union Changes(f, h) : m \in 0 .. Count(f)
  BY <1>1, <1>2
<1> QED
  BY <1>4, <1>5, <1>6

\* The entry of one address.
LEMMA EntryIs ==
    ASSUME NEW f, NEW h \in Hashes
    PROVE  Entries(f)[h] = IF LastChange(f, h) # 0 /\ Kind(f, LastChange(f, h)) = "put"
                           THEN 2 * LastChange(f, h) + 2 ELSE 0
  BY DEF Entries

LEMMA SameEntriesIf ==
    ASSUME NEW f, NEW e, e = [h \in Hashes |-> e[h]],
           \A h \in Hashes : Entries(f)[h] = e[h]
    PROVE  Entries(f) = e
<1>1. Entries(f) = [h \in Hashes |-> Entries(f)[h]]
  BY DEF Entries
<1> QED
  BY <1>1

\* Only commit records after it change what a log holds.
LEMMA SameEntries ==
    ASSUME NEW f \in Log, NEW g \in Log, Len(g) >= 2, Begins(f, g),
           \A c \in Count(g) + 1 .. Count(f) : Kind(f, c) # "commit"
    PROVE  Entries(f) = Entries(g)
<1>1. Len(f) >= 2 /\ Len(f) \in Nat
  BY DEF Log, Begins
<1>2. Count(g) \in Nat /\ Count(f) \in Nat /\ Count(g) <= Count(f)
  BY <1>1, CountOf, SameRecords
<1>3. \A n \in 1 .. Count(g) : Kind(f, n) = Kind(g, n) /\ Payload(f, n) = Payload(g, n)
  BY SameRecords
<1>4. ASSUME NEW h \in Hashes
      PROVE  Changes(f, h) = Changes(g, h)
  <2>1. ASSUME NEW n \in Changes(f, h)
        PROVE  n \in Changes(g, h)
    <3>1. PICK c \in n .. Count(f) : Kind(f, c) = "commit"
      BY <2>1 DEF Changes
    <3>2. c \in n .. Count(g) /\ n \in 1 .. Count(g)
      BY <1>2, <2>1, <3>1 DEF Changes
    <3> QED
      BY <1>2, <1>3, <2>1, <3>1, <3>2 DEF Changes
  <2>2. ASSUME NEW n \in Changes(g, h)
        PROVE  n \in Changes(f, h)
    <3>1. PICK c \in n .. Count(g) : Kind(g, c) = "commit"
      BY <2>2 DEF Changes
    <3>2. c \in n .. Count(f) /\ n \in 1 .. Count(f)
      BY <1>2, <2>2, <3>1 DEF Changes
    <3> QED
      BY <1>2, <1>3, <2>2, <3>1, <3>2 DEF Changes
  <2> QED
    BY <2>1, <2>2
<1>5. ASSUME NEW h \in Hashes
      PROVE  Entries(f)[h] = Entries(g)[h]
  <2>1. LastChange(f, h) = LastChange(g, h) /\ LastChange(g, h) \in 0 .. Count(g)
    BY <1>1, <1>4, LastChangeIs
  <2>2. LastChange(g, h) # 0 => Kind(f, LastChange(g, h)) = Kind(g, LastChange(g, h))
    BY <1>2, <1>3, <2>1
  <2> QED
    BY <2>1, <2>2, EntryIs
<1> QED
  BY <1>5, SameEntriesIf DEF Entries

\* Every transaction in the log is older.
IdsBelow(f, m) ==
    \A n \in 1 .. Count(f) : Kind(f, n) = "begin" => Payload(f, n) \in 1 .. m - 1

LEMMA NextIs ==
    ASSUME NEW f \in Log, Len(f) >= 2, Readable(f)
    PROVE  /\ NextTransaction(f) \in 1 .. MaxTransactions + 1
           /\ IdsBelow(f, NextTransaction(f))
           /\ \A m \in Nat \ {0} : IdsBelow(f, m) => NextTransaction(f) <= m
<1> DEFINE Begun == {b \in 1 .. Count(f) : Kind(f, b) = "begin"}
           Ids == {0} \union {Payload(f, n) : n \in Begun}
<1>1. /\ Count(f) \in Nat /\ MaxTransactions \in Nat /\ f # <<>>
      /\ \A n \in 1 .. Count(f) : 2 * n + 2 \in 1 .. Len(f)
      /\ \A n \in 1 .. Count(f) : Legal(f, n)
  BY CountOf, ReadableMeans, LogAssumption DEF Log
<1>2. ASSUME NEW n \in 1 .. Count(f), Kind(f, n) = "begin"
      PROVE  Payload(f, n) \in 1 .. MaxTransactions
  <2>1. f[2 * n + 2] \in Cell
    BY <1>1 DEF Log
  <2>2. f[2 * n + 2][1] = "identifier"
    BY <1>1, <1>2 DEF Legal, Shape
  <2> QED
    BY <2>1, <2>2, Identifiers DEF Payload
<1>3. \A i \in Ids : i \in 0 .. MaxTransactions
  BY <1>1, <1>2
<1>4. Ids \in SUBSET Nat /\ Ids # {} /\ \A i \in Ids : i <= MaxTransactions
  <2>1. Ids # {}
    OBVIOUS
  <2> HIDE DEF Ids
  <2> QED
    BY <1>1, <1>3, <2>1
<1>5. IsFiniteSet(Ids)
  <2> HIDE DEF Ids
  <2> QED
    BY <1>1, <1>4, FS_BoundedSetOfNaturals
<1>6. MaxIn(Ids) \in Ids /\ \A n \in Ids : n <= MaxIn(Ids)
  <2> HIDE DEF Ids
  <2> QED
    BY <1>4, <1>5, HasMax
<1>7. NextTransaction(f) = 1 + MaxIn(Ids)
  BY DEF NextTransaction
<1> HIDE DEF Ids
<1>8. MaxIn(Ids) \in 0 .. MaxTransactions /\ NextTransaction(f) \in 1 .. MaxTransactions + 1
  BY <1>1, <1>3, <1>6, <1>7
<1>9. IdsBelow(f, NextTransaction(f))
  <2>1. \A n \in 1 .. Count(f) : Kind(f, n) = "begin" => Payload(f, n) \in Ids
    BY DEF Ids
  <2> QED
    BY <1>2, <1>6, <1>7, <1>8, <2>1 DEF IdsBelow
<1>10. ASSUME NEW m \in Nat \ {0}, IdsBelow(f, m)
       PROVE  NextTransaction(f) <= m
  <2>1. \A n \in Begun : Payload(f, n) < m
    BY <1>2, <1>10 DEF IdsBelow
  <2>2. \A i \in Ids : i < m
    BY <1>10, <2>1 DEF Ids
  <2> QED
    BY <1>6, <1>7, <1>8, <1>10, <2>2
<1> QED
  BY <1>8, <1>9, <1>10

\* What is kept of a log when it is cut.
LEMMA CutAt ==
    ASSUME NEW f \in Log, NEW k \in 0 .. Len(f)
    PROVE  /\ SubSeq(f, 1, k) \in Log
           /\ Len(SubSeq(f, 1, k)) = k
           /\ \A i \in 1 .. k : SubSeq(f, 1, k)[i] = f[i]
           /\ Begins(f, SubSeq(f, 1, k))
<1>1. Len(f) \in Nat /\ k \in Nat /\ k <= Len(f) /\ \A i \in 1 .. Len(f) : f[i] \in Cell
  BY DEF Log
<1>2. \A i \in 1 .. k : f[i] \in Cell
  BY <1>1
<1>3. /\ SubSeq(f, 1, k) \in Seq(Cell)
      /\ Len(SubSeq(f, 1, k)) = k
      /\ \A i \in 1 .. k : SubSeq(f, 1, k)[i] = f[i]
  BY <1>1, <1>2, SubSeqProperties
<1> QED
  BY <1>1, <1>3 DEF Log, Begins

\* Opening keeps everything up to an open transaction or a torn record.
LEMMA ValidLenIs ==
    ASSUME NEW f \in Log, f # <<>>, Readable(f)
    PROVE  \E n \in 1 .. Count(f) + 1 :
              /\ ValidLen(f) = 2 * n
              /\ Pending(f, n) = {}
              /\ \A c \in n .. Count(f) : Kind(f, c) # "commit"
<1>1. Len(f) >= 2 /\ Count(f) \in Nat /\ \A n \in 1 .. Count(f) : Legal(f, n)
  BY ReadableMeans, CountOf
<1>2. CASE Pending(f, Count(f) + 1) = {}
  <2>1. ValidLen(f) = 2 * (Count(f) + 1) /\ Count(f) + 1 \in 1 .. Count(f) + 1
    BY <1>1, <1>2 DEF ValidLen
  <2>2. \A c \in Count(f) + 1 .. Count(f) : FALSE
    BY <1>1
  <2> QED
    BY <1>2, <2>1, <2>2
<1>3. CASE Pending(f, Count(f) + 1) # {}
  <2> DEFINE b == CHOOSE x \in Pending(f, Count(f) + 1) : TRUE
  <2>1. b \in Pending(f, Count(f) + 1) /\ ValidLen(f) = 2 * b
    BY <1>3 DEF ValidLen
  <2> HIDE DEF b
  <2>2. /\ b \in 1 .. Count(f)
        /\ Kind(f, b) = "begin"
        /\ \A c \in b .. Count(f) : Kind(f, c) # "commit"
    BY <1>1, <2>1 DEF Pending
  <2>3. Pending(f, b) = {}
    BY <1>1, <2>2 DEF Legal
  <2>4. b \in 1 .. Count(f) + 1
    BY <1>1, <2>2
  <2> QED
    BY <2>1, <2>2, <2>3, <2>4
<1> QED
  BY <1>2, <1>3

LEMMA CutIs ==
    ASSUME NEW f \in Log, f # <<>>, Readable(f)
    PROVE  /\ ValidLen(f) \in 2 .. Len(f)
           /\ Begins(f, SubSeq(f, 1, ValidLen(f)))
           /\ Sealed(SubSeq(f, 1, ValidLen(f)))
           /\ Entries(SubSeq(f, 1, ValidLen(f))) = Entries(f)
<1> DEFINE g == SubSeq(f, 1, ValidLen(f))
<1>1. /\ Len(f) >= 2 /\ Len(f) \in Nat /\ Count(f) \in Nat
      /\ 2 * Count(f) + 2 <= Len(f)
  BY ReadableMeans, CountOf DEF Log
<1>2. PICK n \in 1 .. Count(f) + 1 :
          /\ ValidLen(f) = 2 * n
          /\ Pending(f, n) = {}
          /\ \A c \in n .. Count(f) : Kind(f, c) # "commit"
  BY ValidLenIs
<1>3. ValidLen(f) \in 2 .. Len(f) /\ ValidLen(f) \in 0 .. Len(f)
  BY <1>1, <1>2
<1>4. g \in Log /\ Len(g) = 2 * n /\ Begins(f, g)
  BY <1>2, <1>3, CutAt
<1> HIDE DEF g
<1>5. Count(g) = n - 1 /\ Len(g) >= 2
  BY <1>1, <1>2, <1>4 DEF Count
<1>6. Readable(g)
  BY <1>4, <1>5, PrefixReadable
<1>7. Pending(g, n) = {}
  BY <1>1, <1>2, <1>4, <1>5, SameRecords
<1>8. Entries(g) = Entries(f)
  BY <1>1, <1>2, <1>4, <1>5, SameEntries
<1>9. Sealed(g)
  BY <1>1, <1>2, <1>4, <1>5, <1>6, <1>7 DEF Sealed
<1> QED
  BY <1>3, <1>4, <1>8, <1>9 DEF g
----
(* The transaction a batch becomes.                                         *)

\* An order of the changed addresses has each of them once.
LEMMA OrderIs ==
    ASSUME NEW order \in SetToSeqs(Changed)
    PROVE  /\ Len(order) \in Nat /\ Len(order) = Cardinality(Changed)
           /\ DOMAIN order = 1 .. Len(order)
           /\ \A i \in 1 .. Len(order) : order[i] \in Changed
           /\ \A i, j \in 1 .. Len(order) : order[i] = order[j] => i = j
           /\ \A h \in Changed : \E i \in 1 .. Len(order) : order[i] = h
<1> DEFINE n == Cardinality(Changed)
<1>1. IsFiniteSet(Changed) /\ n \in Nat
  BY LogAssumption, FS_Subset, FS_CardinalityType DEF Changed
<1>2. /\ order \in [1 .. n -> Changed]
      /\ \A i, j \in 1 .. n : i # j => order[i] # order[j]
  BY DEF SetToSeqs
<1> HIDE DEF n
<1>3. order \in Seq(Changed)
  BY <1>1, <1>2, SeqDef
<1>4. Len(order) = n /\ DOMAIN order = 1 .. n
  BY <1>1, <1>2, <1>3, LenProperties
<1>5. order \in Injection(1 .. n, Changed)
  BY <1>2 DEF Injection, IsInjective
<1>6. order \in Surjection(1 .. n, Changed)
  <2>1. Cardinality(1 .. n) = n
    BY <1>1, FS_Interval
  <2> QED
    BY <1>1, <1>5, <2>1, FS_Injection DEF n
<1>7. \A h \in Changed : \E i \in 1 .. n : order[i] = h
  BY <1>6 DEF Surjection
<1> QED
  BY <1>1, <1>2, <1>4, <1>7 DEF n

\* Its cells.
LEMMA TransactionIs ==
    ASSUME active \in Batch, NEW order \in SetToSeqs(Changed)
    PROVE  /\ Transaction(order) \in Log
           /\ Len(Transaction(order)) = 2 * (Len(order) + 2)
           /\ Transaction(order)[1] = <<"begin">>
           /\ Transaction(order)[2] = <<"identifier", active.id>>
           /\ \A i \in 1 .. Len(order) :
                 LET h == order[i]
                 IN  /\ h \in Hashes /\ active.changes[h] \in {"put", "delete"}
                     /\ Transaction(order)[2 * i + 1] = <<active.changes[h]>>
                     /\ Transaction(order)[2 * i + 2] = <<Shape(active.changes[h]), h>>
           /\ Transaction(order)[2 * Len(order) + 3] = <<"commit">>
           /\ Transaction(order)[2 * Len(order) + 4] = <<"identifier", active.id>>
<1> DEFINE t == Transaction(order)
           k == Len(order)
<1>1. /\ k \in Nat /\ DOMAIN order = 1 .. k
      /\ \A i \in 1 .. k : /\ order[i] \in Hashes
                           /\ active.changes[order[i]] \in {"put", "delete"}
      /\ active.id \in 1 .. MaxTransactions
  BY OrderIs DEF Changed, Batch
<1> HIDE DEF k
<1>2. t = [i \in 1 .. 2 * (k + 2) |->
              BatchRecord(order, (i - 1) \div 2)[IF i % 2 = 1 THEN 1 ELSE 2]]
  BY DEF Transaction, k
<1> HIDE DEF t
<1>3. ASSUME NEW n \in 0 .. k + 1
      PROVE  /\ t[2 * n + 1] = BatchRecord(order, n)[1]
             /\ t[2 * n + 2] = BatchRecord(order, n)[2]
  <2>1. /\ 2 * n + 1 \in 1 .. 2 * (k + 2) /\ 2 * n + 2 \in 1 .. 2 * (k + 2)
        /\ ((2 * n + 1) - 1) \div 2 = n /\ ((2 * n + 2) - 1) \div 2 = n
        /\ (2 * n + 1) % 2 = 1 /\ (2 * n + 2) % 2 # 1
    BY <1>1
  <2> QED
    BY <1>2, <2>1
<1>4. BatchRecord(order, 0) = Record("begin", active.id)
  BY DEF BatchRecord
<1>5. BatchRecord(order, k + 1) = Record("commit", active.id)
  BY <1>1 DEF BatchRecord, k
<1>6. \A i \in 1 .. k : BatchRecord(order, i) = Record(active.changes[order[i]], order[i])
  BY <1>1 DEF BatchRecord
<1>7. \A kind, x : Record(kind, x)[1] = <<kind>> /\ Record(kind, x)[2] = <<Shape(kind), x>>
  BY DEF Record
<1>8. /\ Shape("begin") = "identifier" /\ Shape("commit") = "identifier"
      /\ Shape("put") = "object" /\ Shape("delete") = "hash"
  BY DEF Shape
<1>9. /\ t[1] = <<"begin">> /\ t[2] = <<"identifier", active.id>>
  BY <1>1, <1>3, <1>4, <1>7, <1>8
<1>10. /\ t[2 * k + 3] = <<"commit">> /\ t[2 * k + 4] = <<"identifier", active.id>>
  <2>1. 2 * (k + 1) + 1 = 2 * k + 3 /\ 2 * (k + 1) + 2 = 2 * k + 4 /\ k + 1 \in 0 .. k + 1
    BY <1>1
  <2> QED
    BY <1>3, <1>5, <1>7, <1>8, <2>1
<1>11. ASSUME NEW i \in 1 .. k
       PROVE  /\ t[2 * i + 1] = <<active.changes[order[i]]>>
              /\ t[2 * i + 2] = <<Shape(active.changes[order[i]]), order[i]>>
  <2>1. i \in 0 .. k + 1
    BY <1>1
  <2>2. BatchRecord(order, i) = Record(active.changes[order[i]], order[i])
    BY <1>6
  <2> QED
    BY <1>3, <1>7, <2>1, <2>2
<1>12. ASSUME NEW j \in 1 .. 2 * (k + 2)
       PROVE  t[j] \in Cell
  <2>1. PICK n \in 0 .. k + 1 : j = 2 * n + 1 \/ j = 2 * n + 2
    <3>1. (j - 1) \div 2 \in 0 .. k + 1 /\ \/ j = 2 * ((j - 1) \div 2) + 1
                                           \/ j = 2 * ((j - 1) \div 2) + 2
      BY <1>1
    <3> QED
      BY <3>1
  <2>2. CASE n = 0
    BY <1>1, <1>9, <2>1, <2>2, CellsAre
  <2>3. CASE n = k + 1
    <3>1. 2 * n + 1 = 2 * k + 3 /\ 2 * n + 2 = 2 * k + 4
      BY <1>1, <2>3
    <3> QED
      BY <1>1, <1>10, <2>1, <3>1, CellsAre
  <2>4. CASE n \in 1 .. k
    <3>1. order[n] \in Hashes /\ active.changes[order[n]] \in {"put", "delete"}
      BY <1>1, <2>4
    <3>2. /\ t[2 * n + 1] = <<active.changes[order[n]]>>
          /\ t[2 * n + 2] = <<Shape(active.changes[order[n]]), order[n]>>
      BY <1>11, <2>4
    <3> HIDE DEF t
    <3> QED
      BY <1>8, <2>1, <3>1, <3>2, CellsAre
  <2> QED
    BY <1>1, <2>1, <2>2, <2>3, <2>4
<1>13. t \in Log /\ Len(t) = 2 * (k + 2)
  <2>1. t \in [1 .. 2 * (k + 2) -> Cell]
    BY <1>2, <1>12
  <2>2. 2 * (k + 2) \in Nat
    BY <1>1
  <2>3. t \in Seq(Cell)
    BY <2>1, <2>2, SeqDef
  <2> QED
    BY <2>1, <2>2, <2>3, LenProperties DEF Log
<1> QED
  BY <1>1, <1>9, <1>10, <1>11, <1>13 DEF t, k

\* A sealed log that the records of a transaction follow.
Framed(f, base, order) ==
    /\ f \in Log /\ Sealed(base) /\ Begins(f, base)
    /\ Len(order) \in Nat /\ Count(base) \in Nat
    /\ Len(base) = 2 * Count(base) + 2
    /\ Len(f) = Len(base) + 2 * Len(order) + 4
    /\ Count(f) = Count(base) + Len(order) + 2
    /\ Kind(f, Count(base) + 1) = "begin"
    /\ f[2 * (Count(base) + 1) + 2] = <<"identifier", active.id>>
    /\ \A i \in 1 .. Len(order) :
          /\ Kind(f, Count(base) + 1 + i) = active.changes[order[i]]
          /\ f[2 * (Count(base) + 1 + i) + 2]
                = <<Shape(active.changes[order[i]]), order[i]>>
    /\ Kind(f, Count(f)) = "commit"
    /\ f[2 * Count(f) + 2] = <<"identifier", active.id>>

LEMMA FramedIs ==
    ASSUME active \in Batch, NEW order \in SetToSeqs(Changed),
           NEW base, Sealed(base), NEW f, f = base \o Transaction(order)
    PROVE  /\ Framed(f, base, order)
           /\ \A j \in 1 .. Len(Transaction(order)) :
                 f[Len(base) + j] = Transaction(order)[j]
<1> DEFINE t == Transaction(order)
           k == Len(order)
           m == Count(base)
<1>1. /\ base \in Log /\ t \in Log /\ k \in Nat /\ m \in Nat
      /\ Len(base) = 2 * m + 2
      /\ Len(t) = 2 * k + 4
  BY TransactionIs, OrderIs, CountOf DEF Sealed
<1>2. /\ f \in Log
      /\ Len(f) = Len(base) + 2 * k + 4
      /\ \A j \in 1 .. Len(base) + 2 * k + 4 :
            f[j] = IF j <= Len(base) THEN base[j] ELSE t[j - Len(base)]
  <2>1. base \in Seq(Cell) /\ t \in Seq(Cell) /\ f = base \o t
    BY <1>1 DEF Log
  <2>2. Len(base) + Len(t) = Len(base) + 2 * k + 4
    BY <1>1
  <2> HIDE DEF t, k
  <2> QED
    BY <2>1, <2>2, ConcatProperties DEF Log
<1>3. /\ t[1] = <<"begin">> /\ t[2] = <<"identifier", active.id>>
      /\ t[2 * k + 3] = <<"commit">> /\ t[2 * k + 4] = <<"identifier", active.id>>
  BY TransactionIs
<1>4. \A i \in 1 .. k : /\ t[2 * i + 1] = <<active.changes[order[i]]>>
                        /\ t[2 * i + 2] = <<Shape(active.changes[order[i]]), order[i]>>
  BY TransactionIs
<1> HIDE DEF t, k, m
<1>5. ASSUME NEW j \in 1 .. 2 * k + 4, NEW p, p = Len(base) + j
      PROVE  f[p] = t[j]
  <2>1. p \in 1 .. Len(base) + 2 * k + 4 /\ ~(p <= Len(base)) /\ p - Len(base) = j
    BY <1>1, <1>5
  <2> QED
    BY <1>2, <2>1
<1>6. Count(f) = m + k + 2
  BY <1>1, <1>2 DEF Count
<1>7. Begins(f, base)
  BY <1>1, <1>2 DEF Begins
<1>8. Kind(f, m + 1) = "begin" /\ f[2 * (m + 1) + 2] = <<"identifier", active.id>>
  <2>1. f[2 * (m + 1) + 1] = t[1]
    <3>1. 1 \in 1 .. 2 * k + 4 /\ 2 * (m + 1) + 1 = Len(base) + 1
      BY <1>1
    <3> QED
      BY <1>5, <3>1
  <2>2. f[2 * (m + 1) + 2] = t[2]
    <3>1. 2 \in 1 .. 2 * k + 4 /\ 2 * (m + 1) + 2 = Len(base) + 2
      BY <1>1
    <3> QED
      BY <1>5, <3>1
  <2> QED
    BY <1>3, <2>1, <2>2 DEF Kind
<1>9. /\ Kind(f, m + k + 2) = "commit"
      /\ f[2 * (m + k + 2) + 2] = <<"identifier", active.id>>
  <2>1. f[2 * (m + k + 2) + 1] = t[2 * k + 3]
    <3>1. 2 * k + 3 \in 1 .. 2 * k + 4 /\ 2 * (m + k + 2) + 1 = Len(base) + (2 * k + 3)
      BY <1>1
    <3> QED
      BY <1>5, <3>1
  <2>2. f[2 * (m + k + 2) + 2] = t[2 * k + 4]
    <3>1. 2 * k + 4 \in 1 .. 2 * k + 4 /\ 2 * (m + k + 2) + 2 = Len(base) + (2 * k + 4)
      BY <1>1
    <3> QED
      BY <1>5, <3>1
  <2> QED
    BY <1>3, <2>1, <2>2 DEF Kind
<1>10. ASSUME NEW i \in 1 .. k
       PROVE  /\ Kind(f, m + 1 + i) = active.changes[order[i]]
              /\ f[2 * (m + 1 + i) + 2] = <<Shape(active.changes[order[i]]), order[i]>>
  <2>1. f[2 * (m + 1 + i) + 1] = t[2 * i + 1]
    <3>1. 2 * i + 1 \in 1 .. 2 * k + 4 /\ 2 * (m + 1 + i) + 1 = Len(base) + (2 * i + 1)
      BY <1>1
    <3> QED
      BY <1>5, <3>1
  <2>2. f[2 * (m + 1 + i) + 2] = t[2 * i + 2]
    <3>1. 2 * i + 2 \in 1 .. 2 * k + 4 /\ 2 * (m + 1 + i) + 2 = Len(base) + (2 * i + 2)
      BY <1>1
    <3> QED
      BY <1>5, <3>1
  <2> QED
    BY <1>4, <2>1, <2>2 DEF Kind
<1>11. \A j \in 1 .. Len(t) : f[Len(base) + j] = t[j]
  BY <1>1, <1>5
<1> QED
  BY <1>1, <1>2, <1>6, <1>7, <1>8, <1>9, <1>10, <1>11 DEF t, k, m, Framed

\* It leaves the log sealed.
LEMMA FramedSealed ==
    ASSUME active \in Batch, NEW order \in SetToSeqs(Changed),
           NEW f, NEW base, Framed(f, base, order)
    PROVE  Sealed(f)
<1> DEFINE k == Len(order)
           m == Count(base)
<1>1. /\ f \in Log /\ base \in Log /\ Begins(f, base) /\ k \in Nat /\ m \in Nat
      /\ Len(base) = 2 * m + 2 /\ Len(f) = Len(base) + 2 * k + 4
      /\ Count(f) = m + k + 2
      /\ Readable(base) /\ Pending(base, m + 1) = {}
  BY DEF Framed, Sealed
<1>2. /\ Kind(f, m + 1) = "begin" /\ Kind(f, m + k + 2) = "commit"
      /\ f[2 * (m + 1) + 2] = <<"identifier", active.id>>
      /\ f[2 * (m + k + 2) + 2] = <<"identifier", active.id>>
  BY DEF Framed
<1>3. \A i \in 1 .. k :
         /\ Kind(f, m + 1 + i) \in {"put", "delete"}
         /\ f[2 * (m + 1 + i) + 2][1] = Shape(Kind(f, m + 1 + i))
  <2>1. \A i \in 1 .. k : active.changes[order[i]] \in {"put", "delete"}
    <3>1. \A i \in 1 .. k : order[i] \in Changed
      BY OrderIs
    <3>2. \A h \in Changed : active.changes[h] \in {"put", "delete"}
      BY DEF Changed, Batch
    <3> QED
      BY <3>1, <3>2
  <2>2. \A i \in 1 .. k :
           /\ Kind(f, m + 1 + i) = active.changes[order[i]]
           /\ f[2 * (m + 1 + i) + 2] = <<Shape(active.changes[order[i]]), order[i]>>
    BY DEF Framed
  <2> HIDE DEF k, m
  <2> QED
    BY <2>1, <2>2
<1> HIDE DEF k, m
<1>4. \A n \in m + 2 .. m + k + 1 : /\ Kind(f, n) \in {"put", "delete"}
                                    /\ f[2 * n + 2][1] = Shape(Kind(f, n))
  <2> SUFFICES ASSUME NEW n \in m + 2 .. m + k + 1
               PROVE  /\ Kind(f, n) \in {"put", "delete"}
                      /\ f[2 * n + 2][1] = Shape(Kind(f, n))
    OBVIOUS
  <2>1. n - m - 1 \in 1 .. k /\ m + 1 + (n - m - 1) = n
    BY <1>1
  <2> QED
    BY <1>3, <2>1
<1>5. ASSUME NEW n \in m + 2 .. m + k + 2
      PROVE  m + 1 \in Pending(f, n)
  <2>1. m + 1 \in 1 .. n - 1
    BY <1>1
  <2>2. \A c \in m + 1 .. n - 1 : c = m + 1 \/ c \in m + 2 .. m + k + 1
    BY <1>1
  <2>3. \A c \in m + 1 .. n - 1 : Kind(f, c) # "commit"
    BY <1>2, <1>4, <2>2
  <2> QED
    BY <1>2, <2>1, <2>3 DEF Pending
<1>6. Legal(f, m + 1)
  <2>1. \A n \in 1 .. m + 1 : Pending(f, n) = Pending(base, n)
    <3>1. Len(base) >= 2
      BY <1>1
    <3> QED
      BY <1>1, <3>1, SameRecords DEF m
  <2>2. Pending(f, m + 1) = {}
    BY <1>1, <2>1
  <2> QED
    BY <1>2, <2>2 DEF Legal, Shape
<1>7. ASSUME NEW n \in m + 2 .. m + k + 1
      PROVE  Legal(f, n)
  <2>1. n \in m + 2 .. m + k + 2
    BY <1>1
  <2> QED
    BY <1>4, <1>5, <2>1 DEF Legal
<1>8. Legal(f, m + k + 2)
  <2>1. m + 1 \in Pending(f, m + k + 2)
    BY <1>1, <1>5
  <2>2. Payload(f, m + 1) = active.id /\ Payload(f, m + k + 2) = active.id
    BY <1>2 DEF Payload
  <2> QED
    BY <1>2, <2>1, <2>2 DEF Legal, Shape
<1>9. \A n \in 1 .. m : Legal(f, n)
  <2>1. \A n \in 1 .. m : Legal(base, n)
    BY <1>1, ReadableMeans DEF m
  <2> QED
    BY <1>1, <2>1, SameRecords DEF m
<1>10. \A n \in 1 .. Count(f) : Legal(f, n)
  <2>1. \A n \in 1 .. Count(f) : \/ n \in 1 .. m
                                 \/ n = m + 1
                                 \/ n \in m + 2 .. m + k + 1
                                 \/ n = m + k + 2
    BY <1>1
  <2> QED
    BY <1>6, <1>7, <1>8, <1>9, <2>1
<1>11. f[1] = <<"CHOP">> /\ f[2] = <<"version", 1>>
  <2>1. base[1] = <<"CHOP">> /\ base[2] = <<"version", 1>>
    BY <1>1, ReadableMeans
  <2> QED
    BY <1>1, <2>1 DEF Begins
<1>12. Readable(f)
  <2>1. Len(f) >= 2
    BY <1>1
  <2> QED
    BY <1>1, <1>10, <1>11, <2>1, ReadableMeans
<1>13. Pending(f, Count(f) + 1) = {}
  BY <1>1, <1>2 DEF Pending
<1> QED
  BY <1>1, <1>12, <1>13 DEF Sealed

\* The kinds of its records, and what they are about.
LEMMA FramedRecords ==
    ASSUME active \in Batch, NEW order \in SetToSeqs(Changed),
           NEW f, NEW base, Framed(f, base, order)
    PROVE  /\ \A n \in Count(base) + 1 .. Count(f) - 1 : Kind(f, n) # "commit"
           /\ \A n \in Count(base) + 2 .. Count(f) :
                 Kind(f, n) # "begin"
           /\ \A n \in Count(base) + 1 .. Count(f) :
                 Kind(f, n) \in {"put", "delete"} =>
                    \E i \in 1 .. Len(order) : /\ n = Count(base) + 1 + i
                                               /\ Payload(f, n) = order[i]
           /\ \A i \in 1 .. Len(order) :
                 /\ Kind(f, Count(base) + 1 + i) = active.changes[order[i]]
                 /\ active.changes[order[i]] \in {"put", "delete"}
                 /\ Payload(f, Count(base) + 1 + i) = order[i]
<1> DEFINE k == Len(order)
           m == Count(base)
<1>1. /\ k \in Nat /\ m \in Nat /\ Count(f) = m + k + 2
      /\ Kind(f, m + 1) = "begin" /\ Kind(f, m + k + 2) = "commit"
  <2>1. k \in Nat /\ m \in Nat /\ Count(f) = m + k + 2
        /\ Kind(f, m + 1) = "begin" /\ Kind(f, Count(f)) = "commit"
    BY DEF Framed
  <2> QED
    BY <2>1
<1>2. \A i \in 1 .. k : /\ Kind(f, m + 1 + i) = active.changes[order[i]]
                        /\ Payload(f, m + 1 + i) = order[i]
  <2>1. \A i \in 1 .. k :
           /\ Kind(f, m + 1 + i) = active.changes[order[i]]
           /\ f[2 * (m + 1 + i) + 2] = <<Shape(active.changes[order[i]]), order[i]>>
    BY DEF Framed
  <2> HIDE DEF k, m
  <2> QED
    BY <2>1 DEF Payload
<1>3. \A i \in 1 .. k : active.changes[order[i]] \in {"put", "delete"}
  <2>1. \A i \in 1 .. k : order[i] \in Changed
    BY OrderIs
  <2>2. \A h \in Changed : active.changes[h] \in {"put", "delete"}
    BY DEF Changed, Batch
  <2> QED
    BY <2>1, <2>2
<1> HIDE DEF k, m
<1>4. ASSUME NEW n \in m + 2 .. m + k + 1
      PROVE  \E i \in 1 .. k : /\ n = m + 1 + i /\ Payload(f, n) = order[i]
                               /\ Kind(f, n) \in {"put", "delete"}
  <2>1. n - m - 1 \in 1 .. k /\ n = m + 1 + (n - m - 1)
    BY <1>1
  <2> QED
    BY <1>2, <1>3, <2>1
<1>5. \A n \in m + 1 .. m + k + 2 : \/ n = m + 1
                                    \/ n \in m + 2 .. m + k + 1
                                    \/ n = m + k + 2
  BY <1>1
<1>6. \A n \in m + 1 .. Count(f) - 1 : Kind(f, n) # "commit"
  <2>1. \A n \in m + 1 .. Count(f) - 1 : n \in m + 1 .. m + k + 2 /\ n # m + k + 2
    BY <1>1
  <2> QED
    BY <1>1, <1>4, <1>5, <2>1
<1>7. \A n \in m + 2 .. Count(f) : Kind(f, n) # "begin"
  <2>1. \A n \in m + 2 .. Count(f) : n \in m + 1 .. m + k + 2 /\ n # m + 1
    BY <1>1
  <2> QED
    BY <1>1, <1>4, <1>5, <2>1
<1>8. \A n \in m + 1 .. Count(f) :
         Kind(f, n) \in {"put", "delete"} =>
            \E i \in 1 .. k : n = m + 1 + i /\ Payload(f, n) = order[i]
  BY <1>1, <1>4, <1>5
<1> QED
  BY <1>2, <1>3, <1>6, <1>7, <1>8 DEF k, m

\* Without the whole of its last record the transaction changes nothing.
LEMMA TornIs ==
    ASSUME active \in Batch, NEW order \in SetToSeqs(Changed),
           NEW f, NEW base, Framed(f, base, order),
           NEW g \in Log, Begins(f, g), Len(base) <= Len(g)
    PROVE  /\ Readable(g) /\ g # <<>>
           /\ Len(g) < Len(f) => Entries(g) = Entries(base)
<1>1. /\ f \in Log /\ base \in Log /\ Begins(f, base)
      /\ Len(f) \in Nat /\ Len(g) \in Nat /\ Len(base) \in Nat
      /\ Len(base) >= 2 /\ Len(g) >= 2 /\ Len(f) >= 2
      /\ Count(f) \in Nat /\ Len(f) = 2 * Count(f) + 2
  <2>1. f \in Log /\ base \in Log /\ Begins(f, base) /\ Len(base) >= 2
    BY DEF Framed, Sealed
  <2>2. Len(f) \in Nat /\ Len(g) \in Nat /\ Len(base) \in Nat
    BY <2>1 DEF Log
  <2>3. Len(f) >= 2 /\ Len(g) >= 2
    BY <2>1, <2>2 DEF Begins
  <2>4. Len(f) = 2 * Count(f) + 2 /\ Count(f) \in Nat
    <3>1. Sealed(f)
      BY FramedSealed
    <3> QED
      BY <2>3, <3>1, CountOf DEF Sealed
  <2> QED
    BY <2>1, <2>2, <2>3, <2>4
<1>2. Readable(g) /\ g # <<>>
  <2>1. Readable(f)
    BY FramedSealed DEF Sealed
  <2> QED
    BY <1>1, <2>1, PrefixReadable
<1>3. ASSUME Len(g) < Len(f)
      PROVE  Entries(g) = Entries(base)
  <2>1. Begins(g, base)
    BY <1>1 DEF Begins
  <2>2. Count(g) \in Nat /\ Count(base) \in Nat /\ Count(g) <= Count(f) - 1
    BY <1>1, <1>3, CountOf
  <2>3. \A n \in 1 .. Count(g) : Kind(f, n) = Kind(g, n)
    BY <1>1, SameRecords
  <2>4. \A n \in Count(base) + 1 .. Count(g) : Kind(g, n) # "commit"
    <3>1. \A n \in Count(base) + 1 .. Count(g) :
             n \in 1 .. Count(g) /\ n \in Count(base) + 1 .. Count(f) - 1
      BY <1>1, <2>2
    <3> QED
      BY <2>3, <3>1, FramedRecords
  <2> QED
    BY <1>1, <2>1, <2>4, SameEntries
<1> QED
  BY <1>2, <1>3

LEMMA FramedIds ==
    ASSUME active \in Batch, NEW order \in SetToSeqs(Changed),
           NEW f, NEW base, Framed(f, base, order),
           NEW m \in Nat, IdsBelow(base, m), active.id < m
    PROVE  IdsBelow(f, m)
<1>1. /\ f \in Log /\ base \in Log /\ Begins(f, base) /\ Len(base) >= 2
      /\ Count(base) \in Nat /\ Count(f) \in Nat
      /\ f[2 * (Count(base) + 1) + 2] = <<"identifier", active.id>>
  BY DEF Framed, Sealed
<1>2. \A n \in 1 .. Count(f) : \/ n \in 1 .. Count(base)
                               \/ n = Count(base) + 1
                               \/ n \in Count(base) + 2 .. Count(f)
  BY <1>1
<1>3. \A n \in 1 .. Count(base) : Kind(f, n) = "begin" => Payload(f, n) \in 1 .. m - 1
  BY <1>1, SameRecords DEF IdsBelow
<1>4. Payload(f, Count(base) + 1) \in 1 .. m - 1
  <2>1. active.id \in 1 .. m - 1
    BY LogAssumption DEF Batch
  <2> QED
    BY <1>1, <2>1 DEF Payload
<1>5. \A n \in Count(base) + 2 .. Count(f) : Kind(f, n) # "begin"
  BY FramedRecords
<1> QED
  BY <1>2, <1>3, <1>4, <1>5 DEF IdsBelow

\* In a sealed log every change is committed.
LEMMA SealedChanges ==
    ASSUME NEW f, Sealed(f), NEW n \in 1 .. Count(f), Kind(f, n) \in {"put", "delete"}
    PROVE  \E c \in n .. Count(f) : Kind(f, c) = "commit"
<1>1. /\ f \in Log /\ Len(f) >= 2 /\ Count(f) \in Nat /\ Legal(f, n)
      /\ Pending(f, Count(f) + 1) = {}
  <2>1. f # <<>>
    BY DEF Sealed, Log
  <2> QED
    BY <2>1, ReadableMeans, CountOf DEF Sealed
<1>2. PICK b \in Pending(f, n) : TRUE
  BY <1>1 DEF Legal
<1>3. /\ b \in 1 .. n - 1 /\ Kind(f, b) = "begin"
      /\ \A c \in b .. n - 1 : Kind(f, c) # "commit"
  BY <1>2 DEF Pending
<1>4. b \in 1 .. Count(f) /\ b \notin Pending(f, Count(f) + 1)
  BY <1>1, <1>3
<1>5. PICK c \in b .. Count(f) : Kind(f, c) = "commit"
  BY <1>1, <1>3, <1>4 DEF Pending
<1>6. c \in n .. Count(f)
  BY <1>1, <1>3, <1>5
<1> QED
  BY <1>5, <1>6

\* The entries once the whole of it is there.
LEMMA CommittedIs ==
    ASSUME active \in Batch, NEW order \in SetToSeqs(Changed),
           NEW f, NEW base, Framed(f, base, order), NEW h \in Hashes
    PROVE  /\ h \notin Changed => Entries(f)[h] = Entries(base)[h]
           /\ active.changes[h] = "delete" => Entries(f)[h] = 0
           /\ \A i \in 1 .. Len(order) :
                 order[i] = h /\ active.changes[h] = "put" =>
                    Entries(f)[h] = 2 * (Count(base) + 1 + i) + 2
<1> DEFINE m == Count(base)
           k == Len(order)
<1>1. /\ f \in Log /\ base \in Log /\ Begins(f, base)
      /\ Len(base) >= 2 /\ Len(f) >= 2 /\ Sealed(base)
      /\ m \in Nat /\ k \in Nat /\ Count(f) = m + k + 2
      /\ Kind(f, Count(f)) = "commit"
  <2>1. Sealed(f)
    BY FramedSealed
  <2> QED
    BY <2>1 DEF Framed, Sealed
<1>2. \A n \in 1 .. m : Kind(f, n) = Kind(base, n) /\ Payload(f, n) = Payload(base, n)
  BY <1>1, SameRecords
<1>3. \A n \in m + 1 .. Count(f) :
         Kind(f, n) \in {"put", "delete"} =>
            \E i \in 1 .. k : n = m + 1 + i /\ Payload(f, n) = order[i]
  BY FramedRecords
<1>4. \A i \in 1 .. k : /\ Kind(f, m + 1 + i) = active.changes[order[i]]
                        /\ active.changes[order[i]] \in {"put", "delete"}
                        /\ Payload(f, m + 1 + i) = order[i]
  BY FramedRecords
<1>5. /\ \A i \in 1 .. k : order[i] \in Changed
      /\ \A i, j \in 1 .. k : order[i] = order[j] => i = j
      /\ \A x \in Changed : \E i \in 1 .. k : order[i] = x
  BY OrderIs
<1> HIDE DEF m, k
<1>6. CASE h \notin Changed
  <2>1. ASSUME NEW n \in Changes(f, h)
        PROVE  n \in Changes(base, h)
    <3>1. n \in 1 .. Count(f) /\ Kind(f, n) \in {"put", "delete"} /\ Payload(f, n) = h
      BY <2>1 DEF Changes
    <3>2. n \notin m + 1 .. Count(f)
      BY <1>3, <1>5, <1>6, <3>1
    <3>3. n \in 1 .. m
      BY <1>1, <3>1, <3>2
    <3>4. Kind(base, n) \in {"put", "delete"} /\ Payload(base, n) = h
      BY <1>2, <3>1, <3>3
    <3> QED
      BY <1>1, <3>3, <3>4, SealedChanges DEF Changes, m
  <2>2. ASSUME NEW n \in Changes(base, h)
        PROVE  n \in Changes(f, h)
    <3>1. /\ n \in 1 .. m /\ Kind(base, n) \in {"put", "delete"} /\ Payload(base, n) = h
      BY <2>2 DEF Changes, m
    <3>2. n \in 1 .. Count(f) /\ Count(f) \in n .. Count(f)
      BY <1>1, <3>1
    <3> QED
      BY <1>1, <1>2, <3>1, <3>2 DEF Changes
  <2>3. LastChange(f, h) = LastChange(base, h) /\ LastChange(base, h) \in 0 .. m
    <3>1. Changes(f, h) = Changes(base, h)
      BY <2>1, <2>2
    <3> QED
      BY <1>1, <3>1, LastChangeIs DEF m
  <2>4. Entries(f)[h] = Entries(base)[h]
    <3>1. LastChange(base, h) # 0 =>
             Kind(f, LastChange(base, h)) = Kind(base, LastChange(base, h))
      BY <1>1, <1>2, <2>3
    <3> QED
      BY <2>3, <3>1, EntryIs
  <2> QED
    BY <1>4, <1>5, <1>6, <2>4 DEF Changed
<1>7. CASE h \in Changed
  <2>1. PICK i \in 1 .. k : order[i] = h
    BY <1>5, <1>7
  <2>2. m + 1 + i \in Changes(f, h)
    <3>1. m + 1 + i \in 1 .. Count(f) /\ Count(f) \in m + 1 + i .. Count(f)
      BY <1>1
    <3> QED
      BY <1>1, <1>4, <2>1, <3>1 DEF Changes
  <2>3. ASSUME NEW n \in Changes(f, h)
        PROVE  n <= m + 1 + i
    <3>1. n \in 1 .. Count(f) /\ Kind(f, n) \in {"put", "delete"} /\ Payload(f, n) = h
      BY <2>3 DEF Changes
    <3>2. CASE n \in m + 1 .. Count(f)
      <4>1. PICK j \in 1 .. k : n = m + 1 + j /\ Payload(f, n) = order[j]
        BY <1>3, <3>1, <3>2
      <4>2. j = i
        BY <1>5, <2>1, <3>1, <4>1
      <4> QED
        BY <1>1, <4>1, <4>2
    <3> QED
      BY <1>1, <3>1, <3>2
  <2>4. LastChange(f, h) = m + 1 + i
    <3>1. /\ LastChange(f, h) \in {0} \union Changes(f, h)
          /\ LastChange(f, h) \in 0 .. Count(f)
          /\ \A n \in Changes(f, h) : n <= LastChange(f, h)
      BY <1>1, LastChangeIs
    <3>2. m + 1 + i <= LastChange(f, h) /\ LastChange(f, h) # 0
      BY <1>1, <2>2, <3>1
    <3>3. LastChange(f, h) <= m + 1 + i
      BY <2>3, <3>1, <3>2
    <3> QED
      BY <1>1, <3>1, <3>2, <3>3
  <2>5. Kind(f, m + 1 + i) = active.changes[h] /\ m + 1 + i # 0
    BY <1>1, <1>4, <2>1
  <2>6. Entries(f)[h] = IF active.changes[h] = "put" THEN 2 * (m + 1 + i) + 2 ELSE 0
    BY <2>4, <2>5, EntryIs
  <2> QED
    BY <1>5, <1>7, <2>1, <2>6 DEF m, k
<1> QED
  BY <1>6, <1>7

\* The index finds an object where the transaction put it.
LEMMA ObjectIsAt ==
    ASSUME active \in Batch, NEW order \in SetToSeqs(Changed),
           NEW f, NEW base, Framed(f, base, order),
           NEW i \in 1 .. Len(order), active.changes[order[i]] = "put"
    PROVE  (CHOOSE p \in Len(base) + 1 .. Len(f) : f[p] = <<"object", order[i]>>)
              = 2 * (Count(base) + 1 + i) + 2
<1> DEFINE m == Count(base)
           k == Len(order)
           h == order[i]
<1>1. /\ m \in Nat /\ k \in Nat /\ Count(f) = m + k + 2
      /\ Len(base) = 2 * m + 2 /\ Len(f) = Len(base) + 2 * k + 4
      /\ Kind(f, m + 1) = "begin" /\ Kind(f, Count(f)) = "commit"
      /\ f[2 * (m + 1) + 2] = <<"identifier", active.id>>
      /\ f[2 * Count(f) + 2] = <<"identifier", active.id>>
  BY DEF Framed
<1>2. \A j \in 1 .. k :
         /\ Kind(f, m + 1 + j) \in {"put", "delete"}
         /\ f[2 * (m + 1 + j) + 2] = <<Shape(active.changes[order[j]]), order[j]>>
  <2>1. \A j \in 1 .. k : Kind(f, m + 1 + j) \in {"put", "delete"}
    BY FramedRecords
  <2>2. \A j \in 1 .. k :
           f[2 * (m + 1 + j) + 2] = <<Shape(active.changes[order[j]]), order[j]>>
    BY DEF Framed
  <2> QED
    BY <2>1, <2>2
<1>3. \A j \in 1 .. k : order[j] = h => j = i
  BY OrderIs
<1> HIDE DEF m, k, h
<1>4. f[2 * (m + 1 + i) + 2] = <<"object", h>>
  BY <1>2 DEF Shape, h, k
<1>5. 2 * (m + 1 + i) + 2 \in Len(base) + 1 .. Len(f) /\ i \in 1 .. k
  BY <1>1 DEF k
<1>6. ASSUME NEW p \in Len(base) + 1 .. Len(f), f[p] = <<"object", h>>
      PROVE  p = 2 * (m + 1 + i) + 2
  <2>1. f[p][1] = "object" /\ f[p][2] = h
    BY <1>6
  <2> DEFINE n == (p - 1) \div 2
  <2>2. n \in m + 1 .. m + k + 2 /\ (p = 2 * n + 1 \/ p = 2 * n + 2)
    BY <1>1
  <2> HIDE DEF n
  <2>3. \/ n = m + 1
        \/ n - m - 1 \in 1 .. k /\ n = m + 1 + (n - m - 1)
        \/ n = Count(f)
    BY <1>1, <2>2
  <2>4. CASE p = 2 * n + 1
    <3>1. Kind(f, n) = "object"
      BY <2>1, <2>4 DEF Kind
    <3> QED
      BY <1>1, <1>2, <2>3, <3>1
  <2>5. CASE p = 2 * n + 2
    <3>1. f[2 * n + 2][1] = "object" /\ f[2 * n + 2][2] = h
      BY <2>1, <2>5
    <3>2. n # m + 1 /\ n # Count(f)
      BY <1>1, <3>1
    <3>3. PICK j \in 1 .. k : n = m + 1 + j
      BY <2>3, <3>2
    <3>4. order[j] = h
      BY <1>2, <3>1, <3>3
    <3> QED
      BY <1>3, <2>5, <3>3, <3>4
  <2> QED
    BY <2>2, <2>4, <2>5
<1> QED
  BY <1>4, <1>5, <1>6 DEF m, h

\* What a write that got to some cell leaves of the file.
LEMMA WrittenIs ==
    ASSUME NEW f \in Log, NEW at \in 0 .. Len(f), NEW t \in Log, NEW k \in 0 .. Len(t)
    PROVE  LET w == Written(f, at, t, k)
           IN  /\ w \in Log
               /\ Len(w) = IF at + k > Len(f) THEN at + k ELSE Len(f)
               /\ \A i \in 1 .. at : w[i] = f[i]
               /\ \A i \in 1 .. k : w[at + i] = t[i]
<1>1. Len(f) \in Nat /\ Len(t) \in Nat /\ at \in Nat /\ k \in Nat /\ at <= Len(f)
  BY DEF Log
<1> DEFINE head == SubSeq(f, 1, at)
           cells == SubSeq(t, 1, k)
           tail == SubSeq(f, at + k + 1, Len(f))
<1>2. /\ head \in Log /\ Len(head) = at /\ \A i \in 1 .. at : head[i] = f[i]
      /\ cells \in Log /\ Len(cells) = k /\ \A i \in 1 .. k : cells[i] = t[i]
  BY <1>1, CutAt
<1>3. tail \in Log /\ Len(tail) = IF at + k > Len(f) THEN 0 ELSE Len(f) - (at + k)
  <2>1. at + k + 1 \in Int /\ Len(f) \in Int
        /\ \A i \in at + k + 1 .. Len(f) : f[i] \in Cell
    BY <1>1 DEF Log
  <2>2. tail \in Seq(Cell) /\ Len(tail) = IF at + k + 1 <= Len(f)
                                          THEN Len(f) - (at + k + 1) + 1 ELSE 0
    BY <2>1, SubSeqProperties
  <2> HIDE DEF tail
  <2> QED
    BY <1>1, <2>2 DEF Log
<1>4. Written(f, at, t, k) = head \o cells \o tail
  <2>1. Written(f, at, t, k) = head \o cells \o SubSeq(f, at + Len(cells) + 1, Len(f))
    BY DEF Written, Overlay
  <2> QED
    BY <1>2, <2>1
<1> HIDE DEF head, cells, tail
<1> DEFINE front == head \o cells
<1>5. /\ front \in Log /\ Len(front) = at + k
      /\ \A i \in 1 .. at + k : front[i] = IF i <= at THEN head[i] ELSE cells[i - at]
  BY <1>2, ConcatProperties DEF Log
<1> HIDE DEF front
<1>6. /\ front \o tail \in Log /\ Len(front \o tail) = at + k + Len(tail)
      /\ \A i \in 1 .. at + k : (front \o tail)[i] = front[i]
  <2>1. /\ front \o tail \in Seq(Cell)
        /\ Len(front \o tail) = Len(front) + Len(tail)
        /\ \A i \in 1 .. Len(front) + Len(tail) :
              (front \o tail)[i] = IF i <= Len(front) THEN front[i] ELSE tail[i - Len(front)]
    BY <1>3, <1>5, ConcatProperties DEF Log
  <2>2. \A i \in 1 .. at + k : i \in 1 .. Len(front) + Len(tail) /\ i <= Len(front)
    BY <1>1, <1>3, <1>5
  <2> QED
    BY <1>5, <2>1, <2>2 DEF Log
<1> DEFINE w == front \o tail
<1>7. w = Written(f, at, t, k)
  BY <1>4 DEF front
<1>8. w \in Log /\ Len(w) = IF at + k > Len(f) THEN at + k ELSE Len(f)
  <2>1. w \in Log /\ Len(w) = at + k + Len(tail)
    BY <1>6
  <2> HIDE DEF w
  <2>2. CASE at + k > Len(f)
    BY <1>1, <1>3, <2>1, <2>2
  <2>3. CASE ~(at + k > Len(f))
    <3>1. Len(tail) = Len(f) - (at + k)
      BY <1>3, <2>3
    <3>2. Len(w) = Len(f)
      BY <1>1, <2>1, <3>1
    <3> QED
      BY <2>1, <2>3, <3>2
  <2> QED
    BY <2>2, <2>3
<1>9. \A i \in 1 .. at : w[i] = f[i]
  <2>1. \A i \in 1 .. at : i \in 1 .. at + k /\ i <= at
    BY <1>1
  <2> QED
    BY <1>2, <1>5, <1>6, <2>1
<1>10. ASSUME NEW i \in 1 .. k
       PROVE  w[at + i] = t[i]
  <2>1. at + i \in 1 .. at + k /\ ~(at + i <= at) /\ (at + i) - at = i
    BY <1>1
  <2> QED
    BY <1>2, <1>5, <1>6, <2>1
<1> QED
  BY <1>7, <1>8, <1>9, <1>10

\* Of a transaction written at the end of a log.
LEMMA WrittenLog ==
    ASSUME active \in Batch, NEW order \in SetToSeqs(Changed),
           NEW base, Sealed(base), NEW f \in Log, Begins(f, base),
           NEW k \in 0 .. Len(Transaction(order))
    PROVE  LET t == Transaction(order)
               w == Written(f, Len(base), t, k)
           IN  /\ w \in Log
               /\ Len(w) = IF Len(base) + k > Len(f) THEN Len(base) + k ELSE Len(f)
               /\ Begins(w, base)
               /\ k = Len(t) => Begins(w, base \o t)
               /\ Len(f) = Len(base) => Begins(base \o t, w) /\ Len(w) = Len(base) + k
<1> DEFINE t == Transaction(order)
           w == Written(f, Len(base), t, k)
           g == base \o t
<1>1. /\ t \in Log /\ base \in Log /\ g \in Log
      /\ Len(t) \in Nat /\ Len(base) \in Nat /\ Len(f) \in Nat /\ k \in Nat
      /\ Len(g) = Len(base) + Len(t)
      /\ \A i \in 1 .. Len(base) : g[i] = base[i]
      /\ \A i \in 1 .. Len(t) : g[Len(base) + i] = t[i]
  <2>1. t \in Log /\ Len(t) = 2 * (Len(order) + 2)
    BY TransactionIs
  <2>2. Framed(g, base, order) /\ \A i \in 1 .. Len(t) : g[Len(base) + i] = t[i]
    BY FramedIs
  <2> HIDE DEF t, g
  <2>3. /\ base \in Log /\ g \in Log /\ Len(g) = Len(base) + Len(t)
        /\ \A i \in 1 .. Len(base) : g[i] = base[i]
    BY <2>1, <2>2 DEF Framed, Sealed, Begins
  <2> QED
    BY <2>1, <2>2, <2>3 DEF Log
<1>2. Len(base) \in 0 .. Len(f) /\ \A i \in 1 .. Len(base) : f[i] = base[i]
  BY <1>1 DEF Begins
<1> HIDE DEF t, g
<1>3. /\ w \in Log
      /\ Len(w) = IF Len(base) + k > Len(f) THEN Len(base) + k ELSE Len(f)
      /\ \A i \in 1 .. Len(base) : w[i] = f[i]
      /\ \A i \in 1 .. k : w[Len(base) + i] = t[i]
  BY <1>1, <1>2, WrittenIs DEF t
<1> HIDE DEF w
<1>4. ASSUME NEW i \in 1 .. Len(base) + k
      PROVE  w[i] = g[i]
  <2>1. CASE i \in 1 .. Len(base)
    BY <1>1, <1>2, <1>3, <2>1
  <2>2. CASE i \notin 1 .. Len(base)
    <3>1. i - Len(base) \in 1 .. k /\ i - Len(base) \in 1 .. Len(t)
          /\ i = Len(base) + (i - Len(base))
      BY <1>1, <2>2 DEF t
    <3> QED
      BY <1>1, <1>3, <3>1
  <2> QED
    BY <2>1, <2>2
<1>5. Begins(w, base)
  BY <1>1, <1>2, <1>3 DEF Begins
<1>6. k = Len(t) => Begins(w, g)
  BY <1>1, <1>3, <1>4 DEF Begins
<1>7. Len(f) = Len(base) => Begins(g, w) /\ Len(w) = Len(base) + k
  <2> SUFFICES ASSUME Len(f) = Len(base)
               PROVE  Begins(g, w) /\ Len(w) = Len(base) + k
    OBVIOUS
  <2>1. Len(w) = Len(base) + k /\ k <= Len(t)
    BY <1>1, <1>3 DEF t
  <2> QED
    BY <1>1, <1>4, <2>1 DEF Begins
<1> QED
  BY <1>3, <1>5, <1>6, <1>7 DEF t, w, g
----
(* The inductive invariant, for every failure the model has.                *)

Busy == pc \in {"written", "failed", "truncated"}

\* The log as it was when the open batch began.
Base == SubSeq(log, 1, active.start)

\* The handle indexes that log.
Indexed(l) == /\ Sealed(l)
              /\ Len(l) <= MaxCells
              /\ Entries(l) = entries
              /\ IdsBelow(l, next)
              /\ Begins(file, l)

LogInv ==
    /\ TypeOK
    /\ \A f \in images : f \in Log /\ Len(f) <= MaxCells
    /\ pc = "closed" => active = NoBatch
    /\ active # NoBatch => active.id < next
    /\ pc = "ready" => /\ Indexed(log)
                       /\ active # NoBatch => active.start = Len(log)
    /\ Busy => /\ Indexed(Base)
               /\ Len(Base) = active.start
               /\ \E order \in SetToSeqs(Changed) : log = Base \o Transaction(order)
    /\ pc = "written" => Begins(file, log)

\* What holds when the clean-up of a failed commit works: a failed one leaves
\* cells behind the end of the log. The file is then never longer than the log,
\* and what a crash leaves is accepted unless it is half of a file header.
Accepted == HeaderTears \/ RecoveryAcceptsLog

ExactInv ==
    /\ LogInv
    /\ Accepted
    /\ pc = "ready" => file = log
    /\ Busy => Begins(log, file)
    /\ pc = "truncated" => Len(file) = active.start

LEMMA HeaderIs ==
    /\ FileHeader \in Log /\ Len(FileHeader) = 2 /\ FileHeader # <<>>
    /\ Sealed(FileHeader)
    /\ Entries(FileHeader) = NoEntries
    /\ \A m : IdsBelow(FileHeader, m)
    /\ SubSeq(FileHeader, 1, 1) \in Log /\ Len(SubSeq(FileHeader, 1, 1)) = 1
<1>1. /\ FileHeader \in Log /\ Len(FileHeader) = 2
      /\ FileHeader[1] = <<"CHOP">> /\ FileHeader[2] = <<"version", 1>>
  BY CellsAre DEF FileHeader, Log
<1>2. Count(FileHeader) = 0
  BY <1>1 DEF Count
<1>3. Readable(FileHeader)
  BY <1>1, <1>2, ReadableMeans
<1>4. Sealed(FileHeader)
  BY <1>1, <1>2, <1>3 DEF Sealed, Pending
<1>5. Entries(FileHeader) = NoEntries
  <2>1. ASSUME NEW h \in Hashes
        PROVE  Entries(FileHeader)[h] = NoEntries[h]
    <3>1. Len(FileHeader) >= 2
      BY <1>1
    <3> HIDE DEF FileHeader
    <3>2. LastChange(FileHeader, h) \in 0 .. Count(FileHeader)
      BY <1>1, <3>1, LastChangeIs
    <3>3. LastChange(FileHeader, h) = 0
      BY <1>2, <3>2
    <3>4. Entries(FileHeader)[h] = 0
      BY <3>3, EntryIs
    <3> QED
      BY <3>4 DEF NoEntries
  <2>2. NoEntries = [h \in Hashes |-> NoEntries[h]]
    BY DEF NoEntries
  <2>3. \A h \in Hashes : Entries(FileHeader)[h] = NoEntries[h]
    BY <2>1
  <2> QED
    BY <2>2, <2>3, SameEntriesIf
<1>6. \A m : IdsBelow(FileHeader, m)
  BY <1>2 DEF IdsBelow
<1>7. SubSeq(FileHeader, 1, 1) \in Log /\ Len(SubSeq(FileHeader, 1, 1)) = 1
  BY <1>1, CutAt
<1>8. FileHeader # <<>>
  BY <1>1 DEF FileHeader
<1> QED
  BY <1>1, <1>3, <1>4, <1>5, <1>6, <1>7, <1>8

LEMMA EntriesType ==
    ASSUME NEW f \in Log, Len(f) >= 2, Len(f) <= MaxCells
    PROVE  Entries(f) \in [Hashes -> 0 .. MaxCells]
<1>1. /\ Count(f) \in Nat /\ 2 * Count(f) + 2 <= Len(f) /\ Len(f) \in Nat
      /\ MaxCells \in Nat
  BY CountOf, LogAssumption DEF Log
<1>2. ASSUME NEW h \in Hashes
      PROVE  Entries(f)[h] \in 0 .. MaxCells
  <2>1. LastChange(f, h) \in 0 .. Count(f)
    BY LastChangeIs
  <2>2. 2 * LastChange(f, h) + 2 \in 0 .. MaxCells
    BY <1>1, <2>1
  <2> QED
    BY <1>1, <2>2, EntryIs
<1>3. Entries(f) = [h \in Hashes |-> Entries(f)[h]]
  BY DEF Entries
<1> QED
  BY <1>2, <1>3

LEMMA LogInvInit == Init => LogInv
<1> SUFFICES ASSUME Init
             PROVE  LogInv
  OBVIOUS
<1>1. <<>> \in Log /\ Len(<<>>) = 0
  BY DEF Log
<1>2. TypeOK
  BY <1>1, LogAssumption DEF Init, TypeOK, NoEntries
<1> QED
  BY <1>1, <1>2, LogAssumption DEF Init, LogInv, Busy

\* A handle that opens a file it can read.
LEMMA OwnsKeeps ==
    ASSUME LogInv, NEW f, NEW e, NEW n \in 1 .. MaxTransactions + 1, Owns(f, e, n),
           pc = "closed",
           Sealed(f), Len(f) <= MaxCells, Entries(f) = e, IdsBelow(f, n)
    PROVE  LogInv'
<1>1. /\ file' = f /\ pc' = "ready" /\ log' = f /\ entries' = e /\ next' = n
      /\ active' = active /\ active = NoBatch
      /\ images' = IF f = file THEN images ELSE {f}
  BY DEF Owns, LogInv
<1>2. f \in Log /\ Len(f) \in Nat /\ Len(f) >= 2
  BY DEF Sealed, Log
<1>3. file' \in images' /\ \A g \in images' : g \in Log /\ Len(g) <= MaxCells
  BY <1>1, <1>2 DEF LogInv, TypeOK
<1>4. e \in [Hashes -> 0 .. MaxCells]
  BY <1>2, EntriesType
<1>5. TypeOK'
  BY <1>1, <1>3, <1>4 DEF LogInv, TypeOK
<1>6. Indexed(log)'
  BY <1>1 DEF Indexed, Begins
<1> QED
  BY <1>1, <1>3, <1>5, <1>6 DEF LogInv, Busy

\* Opening the file.
LEMMA OpeningKeeps ==
    ASSUME LogInv, Create \/ CreateStops \/ Recover \/ RecoverStops
    PROVE  LogInv'
<1>1. file \in images /\ file \in Log /\ Len(file) <= MaxCells /\ MaxCells \in Nat
      /\ MaxCells >= 2 /\ MaxTransactions \in Nat
  BY LogAssumption DEF LogInv, TypeOK
<1>2. CASE Create
  <2>1. pc = "closed" /\ Owns(FileHeader, NoEntries, 1) /\ 1 \in 1 .. MaxTransactions + 1
    BY <1>1, <1>2 DEF Create
  <2> QED
    BY <1>1, <2>1, HeaderIs, OwnsKeeps
<1>3. ASSUME pc = "closed", file' \in Log, Len(file') <= MaxCells,
             images' = images \union {file'}, UNCHANGED <<pc, index, active>>
      PROVE  LogInv'
  BY <1>3 DEF LogInv, TypeOK, Busy, index
<1>4. CASE CreateStops
  <2>1. file' \in Log /\ Len(file') <= MaxCells
    <3>1. CASE file' = FileHeader
      BY <1>1, <3>1, HeaderIs
    <3>2. CASE file' = SubSeq(FileHeader, 1, 1)
      <4>1. SubSeq(FileHeader, 1, 1) \in Log /\ Len(SubSeq(FileHeader, 1, 1)) = 1
        BY HeaderIs
      <4>2. file' \in Log /\ Len(file') = 1
        BY <3>2, <4>1
      <4> QED
        BY <1>1, <4>2
    <3> QED
      BY <1>4, <3>1, <3>2 DEF CreateStops
  <2> QED
    BY <1>3, <1>4, <2>1 DEF CreateStops
<1>5. ASSUME file # <<>>, Readable(file)
      PROVE  /\ SubSeq(file, 1, ValidLen(file)) \in Log
             /\ Len(SubSeq(file, 1, ValidLen(file))) <= MaxCells
             /\ Sealed(SubSeq(file, 1, ValidLen(file)))
             /\ Entries(SubSeq(file, 1, ValidLen(file))) = Entries(file)
             /\ IdsBelow(SubSeq(file, 1, ValidLen(file)), NextTransaction(file))
             /\ NextTransaction(file) \in 1 .. MaxTransactions + 1
  <2> DEFINE g == SubSeq(file, 1, ValidLen(file))
  <2>1. /\ Begins(file, g) /\ Sealed(g) /\ Entries(g) = Entries(file)
    BY <1>1, <1>5, CutIs
  <2>2. Len(file) >= 2 /\ Len(file) \in Nat
    BY <1>1, <1>5, ReadableMeans DEF Log
  <2>3. /\ NextTransaction(file) \in 1 .. MaxTransactions + 1
        /\ IdsBelow(file, NextTransaction(file))
    BY <1>1, <1>5, <2>2, NextIs
  <2> HIDE DEF g
  <2>4. g \in Log /\ Len(g) >= 2 /\ Len(g) \in Nat /\ Len(g) <= Len(file)
    BY <2>1 DEF Sealed, Begins, Log
  <2>5. /\ \A n \in 1 .. Count(g) : Kind(file, n) = Kind(g, n) /\ Payload(file, n) = Payload(g, n)
        /\ \A n \in 1 .. Count(g) : n \in 1 .. Count(file)
    BY <1>1, <2>1, <2>2, <2>4, SameRecords, CountOf
  <2>6. IdsBelow(g, NextTransaction(file))
    BY <2>3, <2>5 DEF IdsBelow
  <2>7. Len(g) <= MaxCells
    BY <1>1, <2>2, <2>4
  <2> QED
    BY <2>1, <2>3, <2>4, <2>6, <2>7 DEF g
<1>6. CASE Recover
  BY <1>5, <1>6, OwnsKeeps DEF Recover
<1>7. CASE RecoverStops
  BY <1>3, <1>5, <1>7 DEF RecoverStops
<1> QED
  BY <1>2, <1>4, <1>6, <1>7

\* A worker or the machine stops.
LEMMA ForgetKeeps ==
    ASSUME TypeOK, pc' = "closed", Forget, file' \in images',
           \A f \in images' : f \in Log /\ Len(f) <= MaxCells
    PROVE  LogInv'
<1>1. <<>> \in Log /\ Len(<<>>) = 0
  BY DEF Log
<1>2. TypeOK'
  BY <1>1, LogAssumption DEF Forget, TypeOK, NoEntries
<1> QED
  BY <1>1, <1>2 DEF Forget, LogInv, Busy

LEMMA StoppingKeeps ==
    ASSUME LogInv, WorkerStops \/ MachineStops
    PROVE  LogInv'
  BY ForgetKeeps DEF WorkerStops, MachineStops, disk, LogInv, TypeOK

LEMMA IdsStayBelow ==
    ASSUME NEW f, NEW m \in Nat, NEW n \in Nat, m <= n, IdsBelow(f, m)
    PROVE  IdsBelow(f, n)
<1>1. \A i \in 1 .. m - 1 : i \in 1 .. n - 1
  OBVIOUS
<1> QED
  BY <1>1 DEF IdsBelow

\* A call that only changes the batch.
LEMMA BatchKeeps ==
    ASSUME LogInv, pc = "ready", UNCHANGED <<disk, pc, log, entries>>,
           NEW n, n = next', n \in 1 .. MaxTransactions + 1, next <= n,
           active' \in Batch \union {NoBatch},
           active' # NoBatch => active'.id < n /\ active'.start = Len(log)
    PROVE  LogInv'
<1>1. /\ file' = file /\ images' = images /\ pc' = "ready" /\ log' = log
      /\ entries' = entries /\ next \in 1 .. MaxTransactions + 1
      /\ MaxTransactions \in Nat /\ Indexed(log)
  BY LogAssumption DEF LogInv, TypeOK, disk
<1>2. IdsBelow(log, next')
  <2>1. next \in Nat /\ n \in Nat
    BY <1>1
  <2> QED
    BY <1>1, <2>1, IdsStayBelow DEF Indexed
<1>3. Indexed(log)'
  BY <1>1, <1>2 DEF Indexed
<1>4. TypeOK'
  BY <1>1 DEF LogInv, TypeOK
<1> QED
  BY <1>1, <1>3, <1>4 DEF LogInv, Busy

\* A batch that begins now.
LEMMA NewBatchIs ==
    ASSUME LogInv, pc = "ready", next <= MaxTransactions,
           NEW auto \in BOOLEAN, NEW c \in [Hashes -> {"none", "put", "delete"}]
    PROVE  /\ NewBatch(auto, c) \in Batch
           /\ NewBatch(auto, c).id = next
           /\ NewBatch(auto, c).start = Len(log)
<1>1. Len(log) \in 0 .. MaxCells
  BY LogAssumption DEF LogInv, TypeOK, Indexed, Sealed, Log
<1>2. next \in 1 .. MaxTransactions
  BY LogAssumption DEF LogInv, TypeOK
<1> QED
  BY <1>1, <1>2 DEF NewBatch, Batch

LEMMA StageKeeps ==
    ASSUME LogInv, NEW c \in [Hashes -> {"none", "put", "delete"}], Stage(c)
    PROVE  LogInv'
<1>1. /\ pc = "ready" /\ UNCHANGED <<disk, pc, log, entries>>
      /\ next \in 1 .. MaxTransactions + 1 /\ MaxTransactions \in Nat
      /\ active \in Batch \union {NoBatch}
      /\ active # NoBatch => active.id < next /\ active.start = Len(log)
  BY LogAssumption DEF Stage, LogInv, TypeOK
<1>2. CASE active # NoBatch /\ active' = [active EXCEPT !.changes = c] /\ UNCHANGED next
  <2>1. active \in Batch
    BY <1>1, <1>2
  <2>2. active' \in Batch /\ active'.id = active.id /\ active'.start = active.start
    BY <1>2, <2>1 DEF Batch
  <2>3. next' = next /\ next <= next
    BY <1>1, <1>2
  <2> QED
    BY <1>1, <1>2, <2>2, <2>3, BatchKeeps
<1>3. CASE /\ next <= MaxTransactions
           /\ active' = NewBatch(TRUE, c)
           /\ next' = next + 1
  <2>1. active' \in Batch /\ active'.id = next /\ active'.start = Len(log)
    BY <1>1, <1>3, NewBatchIs
  <2>2. next < next + 1 /\ next <= next + 1 /\ next + 1 \in 1 .. MaxTransactions + 1
    BY <1>1, <1>3
  <2> QED
    BY <1>1, <1>3, <2>1, <2>2, BatchKeeps
<1> QED
  BY <1>2, <1>3 DEF Stage

LEMMA StagingKeeps ==
    ASSUME LogInv, \/ Begin \/ Rollback \/ CommitNothing \/ CommitRefused
                   \/ \E h \in Hashes : Write(h) \/ Delete(h)
    PROVE  LogInv'
<1>1. /\ next \in 1 .. MaxTransactions + 1 /\ MaxTransactions \in Nat
      /\ active \in Batch \union {NoBatch}
  BY LogAssumption DEF LogInv, TypeOK
<1>2. CASE Begin
  <2>1. NoChanges \in [Hashes -> {"none", "put", "delete"}]
    BY DEF NoChanges
  <2>2. active' \in Batch /\ active'.id = next /\ active'.start = Len(log)
    BY <1>2, <2>1, NewBatchIs DEF Begin
  <2>3. pc = "ready" /\ UNCHANGED <<disk, pc, log, entries>> /\ next' = next + 1
    BY <1>2 DEF Begin
  <2>4. next < next + 1 /\ next <= next + 1 /\ next + 1 \in 1 .. MaxTransactions + 1
    BY <1>1, <1>2 DEF Begin
  <2> QED
    BY <2>2, <2>3, <2>4, BatchKeeps
<1>3. CASE Rollback \/ CommitNothing \/ CommitRefused
  <2>1. /\ pc = "ready" /\ UNCHANGED <<disk, pc, log, entries>>
        /\ next' = next /\ active' = NoBatch /\ next <= next
    BY <1>1, <1>3 DEF Rollback, CommitNothing, CommitRefused, index
  <2> QED
    BY <1>1, <2>1, BatchKeeps
<1>4. Staged \in [Hashes -> {"none", "put", "delete"}]
  BY <1>1 DEF Staged, NoChanges, Batch
<1>5. ASSUME NEW h \in Hashes, Write(h)
      PROVE  LogInv'
  <2>1. PutChange(Staged, h) \in [Hashes -> {"none", "put", "delete"}]
    BY <1>4 DEF PutChange
  <2> QED
    BY <1>5, <2>1, StageKeeps DEF Write
<1>6. ASSUME NEW h \in Hashes, Delete(h)
      PROVE  LogInv'
  <2>1. RemoveChange(Staged, h) \in [Hashes -> {"none", "put", "delete"}]
    BY <1>4 DEF RemoveChange
  <2> QED
    BY <1>6, <2>1, StageKeeps DEF Delete
<1> QED
  BY <1>2, <1>3, <1>5, <1>6

\* Every file a write of the transaction may leave, and the one it is making.
LEMMA AppendedIs ==
    ASSUME LogInv, pc = "ready", active # NoBatch, NEW order \in SetToSeqs(Changed),
           active.start + Len(Transaction(order)) <= MaxCells,
           NEW k \in 0 .. Len(Transaction(order))
    PROVE  /\ Written(file, active.start, Transaction(order), k) \in Log
           /\ Len(Written(file, active.start, Transaction(order), k)) <= MaxCells
           /\ Begins(Written(file, active.start, Transaction(order), k), log)
           /\ k = Len(Transaction(order)) =>
                 Begins(Written(file, active.start, Transaction(order), k),
                        log \o Transaction(order))
<1> DEFINE t == Transaction(order)
           w == Written(file, active.start, t, k)
<1>1. /\ active \in Batch /\ Sealed(log) /\ log \in Log /\ file \in Log
      /\ Begins(file, log) /\ active.start = Len(log) /\ Len(file) <= MaxCells
  BY DEF LogInv, TypeOK, Indexed, Sealed
<1>2. /\ Len(log) \in Nat /\ Len(file) \in Nat /\ Len(t) \in Nat /\ MaxCells \in Nat
  <2>1. Len(t) \in Nat
    BY <1>1, TransactionIs DEF Log
  <2> QED
    BY <1>1, <2>1, LogAssumption DEF Log
<1>3. /\ w \in Log
      /\ Len(w) = IF Len(log) + k > Len(file) THEN Len(log) + k ELSE Len(file)
      /\ Begins(w, log)
      /\ k = Len(t) => Begins(w, log \o t)
  BY <1>1, WrittenLog
<1> HIDE DEF w
<1>4. Len(log) + Len(t) <= MaxCells /\ k <= Len(t) /\ k \in Nat
  BY <1>1, <1>2
<1>5. Len(w) <= MaxCells
  <2> HIDE DEF t
  <2> QED
    BY <1>1, <1>2, <1>3, <1>4
<1> QED
  BY <1>3, <1>5 DEF w

LEMMA TornTyped ==
    ASSUME LogInv, pc = "ready", active # NoBatch, NEW order \in SetToSeqs(Changed),
           active.start + Len(Transaction(order)) <= MaxCells,
           NEW k, NEW f \in Torn(file, active.start, Transaction(order), k)
    PROVE  f \in Log /\ Len(f) <= MaxCells
<1>1. PICK j \in Extents(Transaction(order)) :
         f = Written(file, active.start, Transaction(order), j)
  BY DEF Torn
<1>2. Len(Transaction(order)) \in Nat
  BY TransactionIs DEF Log, LogInv, TypeOK
<1>3. j \in 0 .. Len(Transaction(order))
  BY <1>1, <1>2 DEF Extents
<1> QED
  BY <1>1, <1>3, AppendedIs

\* The batch does not change while its transaction is on its way.
LEMMA SameBatch ==
    ASSUME active' = active
    PROVE  Changed' = Changed /\ \A order : Transaction(order)' = Transaction(order)
<1>1. Changed' = Changed
  BY DEF Changed
<1>2. \A order, n : BatchRecord(order, n)' = BatchRecord(order, n)
  BY DEF BatchRecord
<1>3. \A order : Transaction(order)' = Transaction(order)
  BY <1>2 DEF Transaction
<1> QED
  BY <1>1, <1>3

LEMMA BaseIs ==
    ASSUME NEW base \in Log, NEW t \in Log
    PROVE  SubSeq(base \o t, 1, Len(base)) = base
<1> DEFINE g == base \o t
<1>1. g \in Seq(Cell) /\ Len(g) = Len(base) + Len(t)
      /\ \A i \in 1 .. Len(base) : g[i] = base[i]
  BY ConcatProperties DEF Log
<1>2. Len(base) \in Nat /\ Len(t) \in Nat /\ Len(base) \in 0 .. Len(g)
  BY <1>1 DEF Log
<1> HIDE DEF g
<1>3. /\ SubSeq(g, 1, Len(base)) \in Log /\ Len(SubSeq(g, 1, Len(base))) = Len(base)
      /\ \A i \in 1 .. Len(base) : SubSeq(g, 1, Len(base))[i] = base[i]
  <2>1. g \in Log
    BY <1>1 DEF Log
  <2> QED
    BY <1>1, <1>2, <2>1, CutAt
<1>4. SubSeq(g, 1, Len(base)) = base
  BY <1>3, SeqEqual DEF Log
<1> QED
  BY <1>4 DEF g

LEMMA AppendKeeps ==
    ASSUME LogInv, pc = "ready", active # NoBatch, NEW order \in SetToSeqs(Changed),
           active.start + Len(Transaction(order)) <= MaxCells,
           NEW k \in Extents(Transaction(order)),
           log' = log \o Transaction(order),
           file' = Written(file, active.start, Transaction(order), k),
           images' = images \union Torn(file, active.start, Transaction(order), k),
           pc' \in {"written", "failed"},
           pc' = "written" => k = Len(Transaction(order)),
           UNCHANGED <<entries, next, active>>
    PROVE  LogInv'
<1> DEFINE t == Transaction(order)
<1>1. /\ active \in Batch /\ Sealed(log) /\ log \in Log /\ t \in Log
      /\ active.start = Len(log) /\ Len(log) \in Nat /\ Len(t) \in Nat
  <2>1. active \in Batch /\ Sealed(log) /\ log \in Log /\ active.start = Len(log)
    BY DEF LogInv, TypeOK, Indexed, Sealed
  <2> QED
    BY <2>1, TransactionIs DEF Log
<1>2. k \in 0 .. Len(t) /\ k \in Int
  BY <1>1 DEF Extents
<1>3. /\ file' \in Log /\ Len(file') <= MaxCells
      /\ Begins(file', log)
      /\ pc' = "written" => Begins(file', log')
  BY <1>2, AppendedIs
<1>4. file' \in images'
  <2>1. k <= k
    BY <1>2
  <2> QED
    BY <2>1 DEF Torn
<1>5. \A f \in images' : f \in Log /\ Len(f) <= MaxCells
  BY TornTyped DEF LogInv
<1>6. /\ log' \in Log /\ Len(log') <= MaxCells /\ Base' = log
  <2>1. log' \in Seq(Cell) /\ Len(log') = Len(log) + Len(t)
    BY <1>1, ConcatProperties DEF Log
  <2>2. Len(log') <= MaxCells
    BY <1>1, <2>1
  <2>3. Base' = log
    BY <1>1, BaseIs DEF Base
  <2> QED
    BY <2>1, <2>2, <2>3 DEF Log
<1>7. TypeOK'
  BY <1>4, <1>6 DEF LogInv, TypeOK
<1>8. Indexed(Base)' /\ Len(Base') = active'.start
  <2>1. Indexed(log)
    BY DEF LogInv
  <2> QED
    BY <1>1, <1>3, <1>6, <2>1 DEF Indexed
<1>9. \E o \in SetToSeqs(Changed)' : log' = Base' \o Transaction(o)'
  <2>1. SetToSeqs(Changed)' = SetToSeqs(Changed) /\ Transaction(order)' = t
    BY SameBatch
  <2> HIDE DEF t
  <2> QED
    BY <1>6, <2>1 DEF t
<1>10. active'.id < next'
  BY DEF LogInv
<1> HIDE DEF t
<1> QED
  BY <1>1, <1>3, <1>5, <1>7, <1>8, <1>9, <1>10 DEF LogInv, Busy

LEMMA AppendingKeeps ==
    ASSUME LogInv, AppendTransaction \/ AppendStops
    PROVE  LogInv'
<1>1. CASE AppendTransaction
  <2>1. PICK order \in SetToSeqs(Changed) :
           /\ active.start + Len(Transaction(order)) <= MaxCells
           /\ log' = log \o Transaction(order)
           /\ \E k \in Extents(Transaction(order)) :
                 /\ file' = Written(file, active.start, Transaction(order), k)
                 /\ images' = images \union Torn(file, active.start, Transaction(order), k)
                 /\ \/ k = Len(Transaction(order)) /\ pc' = "written"
                    \/ IoFaults /\ pc' = "failed"
    BY <1>1 DEF AppendTransaction
  <2>2. PICK k \in Extents(Transaction(order)) :
           /\ file' = Written(file, active.start, Transaction(order), k)
           /\ images' = images \union Torn(file, active.start, Transaction(order), k)
           /\ \/ k = Len(Transaction(order)) /\ pc' = "written"
              \/ IoFaults /\ pc' = "failed"
    BY <2>1
  <2>3. pc = "ready" /\ active # NoBatch /\ UNCHANGED <<entries, next, active>>
    BY <1>1 DEF AppendTransaction
  <2> QED
    BY <2>1, <2>2, <2>3, AppendKeeps
<1>2. CASE AppendStops
  <2>1. PICK order \in SetToSeqs(Changed) :
           /\ active.start + Len(Transaction(order)) <= MaxCells
           /\ \E k \in Extents(Transaction(order)) \ {Len(Transaction(order))} :
                 /\ file' = Written(file, active.start, Transaction(order), k)
                 /\ images' = images \union Torn(file, active.start, Transaction(order), k)
    BY <1>2 DEF AppendStops
  <2>2. PICK k \in Extents(Transaction(order)) :
           /\ file' = Written(file, active.start, Transaction(order), k)
           /\ images' = images \union Torn(file, active.start, Transaction(order), k)
    BY <2>1
  <2>3. pc = "ready" /\ active # NoBatch /\ pc' = "closed" /\ Forget /\ TypeOK
    BY <1>2 DEF AppendStops, LogInv
  <2>4. \A f \in images' : f \in Log /\ Len(f) <= MaxCells
    BY <2>1, <2>2, <2>3, TornTyped DEF LogInv
  <2>5. Len(Transaction(order)) \in Nat
    BY <2>3, TransactionIs DEF Log, TypeOK
  <2>6. k <= k
    BY <2>5 DEF Extents
  <2>7. file' \in images'
    BY <2>2, <2>6 DEF Torn
  <2> QED
    BY <2>3, <2>4, <2>7, ForgetKeeps
<1> QED
  BY <1>1, <1>2

\* A failed commit: the flush, the clean-up and the error.
LEMMA FailingKeeps ==
    ASSUME LogInv, FlushFails \/ Truncate
    PROVE  LogInv'
<1>1. /\ active' = active /\ log' = log /\ entries' = entries /\ next' = next
      /\ Busy /\ pc' \in {"failed", "truncated"} /\ active # NoBatch
  BY DEF FlushFails, Truncate, index, Busy, LogInv, TypeOK
<1>2. /\ Indexed(Base) /\ Len(Base) = active.start /\ Base \in Log /\ Len(Base) \in Nat
      /\ file \in Log /\ Begins(file, Base)
  BY <1>1 DEF LogInv, TypeOK, Indexed, Sealed, Log
<1>3. /\ file' \in images' /\ file' \in Log /\ Begins(file', Base)
      /\ \A f \in images' : f \in Log /\ Len(f) <= MaxCells
  <2>1. CASE FlushFails
    BY <1>2, <2>1 DEF FlushFails, disk, LogInv, TypeOK
  <2>2. CASE Truncate
    <3>1. file' = SubSeq(file, 1, Len(Base)) /\ images' = images \union {file'}
      BY <1>2, <2>2 DEF Truncate
    <3>2. Len(Base) \in 0 .. Len(file) /\ Len(file) <= MaxCells /\ Len(file) \in Nat
          /\ MaxCells \in Nat
      BY <1>2, LogAssumption DEF Begins, LogInv, TypeOK, Log
    <3>3. /\ file' \in Log /\ Len(file') = Len(Base)
          /\ \A i \in 1 .. Len(Base) : file'[i] = file[i]
      BY <1>2, <3>1, <3>2, CutAt
    <3>4. Len(file') <= MaxCells
      BY <3>2, <3>3
    <3>5. Begins(file', Base)
      BY <1>2, <3>3 DEF Begins
    <3> QED
      BY <3>1, <3>3, <3>4, <3>5 DEF LogInv
  <2> QED
    BY <2>1, <2>2
<1>4. /\ Base' = Base
      /\ \E o \in SetToSeqs(Changed)' : log' = Base' \o Transaction(o)'
  <2>1. PICK o \in SetToSeqs(Changed) : log = Base \o Transaction(o)
    BY <1>1 DEF LogInv
  <2>2. Base' = Base
    BY <1>1 DEF Base
  <2>3. SetToSeqs(Changed)' = SetToSeqs(Changed) /\ Transaction(o)' = Transaction(o)
    BY <1>1, SameBatch
  <2> QED
    BY <1>1, <2>1, <2>2, <2>3
<1>5. TypeOK'
  BY <1>1, <1>3 DEF LogInv, TypeOK
<1>6. Indexed(Base)'
  BY <1>1, <1>2, <1>3, <1>4 DEF Indexed
<1> QED
  BY <1>1, <1>2, <1>3, <1>4, <1>5, <1>6 DEF LogInv, Busy

LEMMA CommitFailsKeeps ==
    ASSUME LogInv, CommitFails
    PROVE  LogInv'
<1>1. /\ Busy /\ pc' = "ready" /\ log' = Base /\ entries' = entries /\ next' = next
      /\ file' = file /\ active' \in {active, NoBatch} /\ active \in Batch
      /\ file \in images /\ images' \in {images, {file}}
  BY DEF CommitFails, Base, Busy, disk, LogInv, TypeOK
<1>2. /\ Indexed(Base) /\ Len(Base) = active.start /\ Len(Base) <= MaxCells
  BY <1>1 DEF LogInv, Indexed
<1>3. file' \in images' /\ \A f \in images' : f \in Log /\ Len(f) <= MaxCells
  BY <1>1 DEF LogInv
<1>4. TypeOK'
  BY <1>1, <1>2, <1>3 DEF LogInv, TypeOK
<1>5. Indexed(log)'
  BY <1>1, <1>2 DEF Indexed
<1>6. active' # NoBatch => active'.start = Len(log') /\ active'.id < next'
  BY <1>1, <1>2, BatchAssumption DEF LogInv
<1> QED
  BY <1>1, <1>3, <1>4, <1>5, <1>6 DEF LogInv, Busy

\* While a batch is being committed, the log is its transaction framed.
LEMMA BusyIsFramed ==
    ASSUME LogInv, Busy
    PROVE  /\ active \in Batch
           /\ \E order \in SetToSeqs(Changed) :
                 /\ log = Base \o Transaction(order)
                 /\ Framed(log, Base, order)
<1>1. active \in Batch /\ Sealed(Base)
  BY DEF LogInv, TypeOK, Busy, Indexed
<1>2. PICK order \in SetToSeqs(Changed) : log = Base \o Transaction(order)
  BY DEF LogInv
<1>3. Framed(log, Base, order)
  BY <1>1, <1>2, FramedIs
<1> QED
  BY <1>1, <1>2, <1>3

\* What Flush publishes is what opening the log would find.
LEMMA PublishedIs ==
    ASSUME LogInv, Flush
    PROVE  entries' = Entries(log)
<1>1. Busy /\ Len(Base) = active.start /\ Entries(Base) = entries
  BY DEF Flush, Busy, LogInv, Indexed
<1>2. active \in Batch
  BY <1>1, BusyIsFramed
<1>3. PICK order \in SetToSeqs(Changed) : Framed(log, Base, order)
  BY <1>1, BusyIsFramed
<1>4. entries' = [h \in Hashes |->
          CASE active.changes[h] = "put" ->
                  CHOOSE i \in Len(Base) + 1 .. Len(log) : log[i] = <<"object", h>>
            [] active.changes[h] = "delete" -> 0
            [] OTHER -> entries[h]]
  BY <1>1 DEF Flush
<1>5. ASSUME NEW h \in Hashes
      PROVE  Entries(log)[h] = entries'[h]
  <2>1. active.changes[h] \in {"none", "put", "delete"}
    BY <1>2 DEF Batch
  <2>2. CASE active.changes[h] = "put"
    <3>1. PICK i \in 1 .. Len(order) : order[i] = h
      BY <2>2, OrderIs DEF Changed
    <3>2. Entries(log)[h] = 2 * (Count(Base) + 1 + i) + 2
      BY <1>2, <1>3, <2>2, <3>1, CommittedIs
    <3>3. (CHOOSE p \in Len(Base) + 1 .. Len(log) : log[p] = <<"object", h>>)
             = 2 * (Count(Base) + 1 + i) + 2
      BY <1>2, <1>3, <2>2, <3>1, ObjectIsAt
    <3>4. entries'[h] = CHOOSE p \in Len(Base) + 1 .. Len(log) : log[p] = <<"object", h>>
      BY <1>4, <2>2
    <3> QED
      BY <3>2, <3>3, <3>4
  <2>3. CASE active.changes[h] = "delete"
    <3>1. Entries(log)[h] = 0
      BY <1>2, <1>3, <2>3, CommittedIs
    <3>2. entries'[h] = 0
      BY <1>4, <2>3
    <3> QED
      BY <3>1, <3>2
  <2>4. CASE active.changes[h] = "none"
    <3>1. Entries(log)[h] = Entries(Base)[h]
      BY <1>2, <1>3, <2>4, CommittedIs DEF Changed
    <3>2. entries'[h] = entries[h]
      BY <1>4, <2>4
    <3> QED
      BY <1>1, <3>1, <3>2
  <2> QED
    BY <2>1, <2>2, <2>3, <2>4
<1>6. entries' = [h \in Hashes |-> entries'[h]]
  BY <1>4
<1> QED
  BY <1>5, <1>6, SameEntriesIf

LEMMA FlushKeeps ==
    ASSUME LogInv, Flush
    PROVE  LogInv'
<1>1. /\ Busy /\ pc' = "ready" /\ file' = file /\ images' = {file} /\ active' = NoBatch
      /\ log' = log /\ next' = next /\ file \in images /\ Begins(file, log)
      /\ next \in Nat
  BY LogAssumption DEF Flush, Busy, LogInv, TypeOK
<1>2. active \in Batch
  BY <1>1, BusyIsFramed
<1>3. PICK order \in SetToSeqs(Changed) : Framed(log, Base, order)
  BY <1>1, BusyIsFramed
<1>4. Sealed(log) /\ log \in Log /\ Len(log) >= 2 /\ Len(log) <= MaxCells
  BY <1>2, <1>3, FramedSealed DEF Sealed, LogInv, TypeOK
<1>5. IdsBelow(log, next)
  <2>1. IdsBelow(Base, next) /\ active.id < next
    BY <1>1, <1>2, BatchAssumption DEF LogInv, Indexed
  <2> QED
    BY <1>1, <1>2, <1>3, <2>1, FramedIds
<1>6. entries' = Entries(log) /\ entries' \in [Hashes -> 0 .. MaxCells]
  BY <1>4, PublishedIs, EntriesType
<1>7. Indexed(log)'
  BY <1>1, <1>4, <1>5, <1>6 DEF Indexed
<1>8. TypeOK'
  BY <1>1, <1>6 DEF LogInv, TypeOK
<1>9. \A f \in images' : f \in Log /\ Len(f) <= MaxCells
  BY <1>1 DEF LogInv
<1> QED
  BY <1>1, <1>7, <1>8, <1>9 DEF LogInv, Busy

LEMMA LogInvNext == LogInv /\ [Next]_vars => LogInv'
<1> SUFFICES ASSUME LogInv, [Next]_vars
             PROVE  LogInv'
  OBVIOUS
<1>1. CASE Create \/ CreateStops \/ Recover \/ RecoverStops
  BY <1>1, OpeningKeeps
<1>2. CASE WorkerStops \/ MachineStops
  BY <1>2, StoppingKeeps
<1>3. CASE \/ Begin \/ Rollback \/ CommitNothing \/ CommitRefused
           \/ \E h \in Hashes : Write(h) \/ Delete(h)
  BY <1>3, StagingKeeps
<1>4. CASE AppendTransaction \/ AppendStops
  BY <1>4, AppendingKeeps
<1>5. CASE Flush
  BY <1>5, FlushKeeps
<1>6. CASE FlushFails \/ Truncate
  BY <1>6, FailingKeeps
<1>7. CASE CommitFails
  BY <1>7, CommitFailsKeeps
<1>8. CASE UNCHANGED vars
  <2>1. Changed' = Changed /\ \A order : Transaction(order)' = Transaction(order)
    BY <1>8, SameBatch DEF vars
  <2>2. /\ file' = file /\ images' = images /\ pc' = pc /\ log' = log
        /\ entries' = entries /\ next' = next /\ active' = active
    BY <1>8 DEF vars
  <2>3. Base' = Base /\ TypeOK' /\ (Indexed(log) => Indexed(log)')
        /\ (Indexed(Base) => Indexed(Base)')
    BY <2>2 DEF Base, LogInv, TypeOK, Indexed
  <2>4. Busy' => \E o \in SetToSeqs(Changed)' : log' = Base' \o Transaction(o)'
    BY <2>1, <2>2, <2>3 DEF LogInv, Busy
  <2> QED
    BY <2>1, <2>2, <2>3, <2>4 DEF LogInv, Busy
<1> QED
  BY <1>1, <1>2, <1>3, <1>4, <1>5, <1>6, <1>7, <1>8 DEF Next

LEMMA LogInvHolds == Spec => []LogInv
  BY LogInvInit, LogInvNext, PTL DEF Spec

\* Every variable of the store keeps its type, a batch is open whenever one is
\* being committed, and the log never outgrows its bound, through any failure
\* of any write and any crash (Inner, commit_batch).
THEOREM LogTypeCorrect == Spec => []TypeOK
<1>1. LogInv => TypeOK
  BY DEF LogInv
<1> QED
  BY <1>1, LogInvHolds, PTL

LEMMA IndexedMatches == LogInv => IndexMatchesLog
<1> SUFFICES ASSUME LogInv, pc = "ready"
             PROVE  IndexMatchesLog
  BY DEF IndexMatchesLog
<1>1. /\ Sealed(log) /\ log \in Log /\ Len(log) >= 2 /\ Readable(log)
      /\ Entries(log) = entries /\ IdsBelow(log, next) /\ Begins(file, log)
      /\ file \in Log /\ next \in Nat \ {0}
      /\ active # NoBatch => active.start = Len(log)
  BY LogAssumption DEF LogInv, TypeOK, Indexed, Sealed
<1>2. ValidLen(log) = Len(log)
  BY <1>1, SealedIsValid
<1>3. NextTransaction(log) <= next
  BY <1>1, NextIs
<1>4. SubSeq(file, 1, Len(log)) = log
  <2>1. Len(log) \in 0 .. Len(file)
    BY <1>1 DEF Begins, Log
  <2>2. /\ SubSeq(file, 1, Len(log)) \in Log
        /\ Len(SubSeq(file, 1, Len(log))) = Len(log)
        /\ \A i \in 1 .. Len(log) : SubSeq(file, 1, Len(log))[i] = log[i]
    BY <1>1, <2>1, CutAt DEF Begins
  <2> QED
    BY <1>1, <2>2, SeqEqual DEF Log
<1> QED
  BY <1>1, <1>2, <1>3, <1>4 DEF IndexMatchesLog

\* Between calls the index is exactly what opening the cached log would build
\* and the cached log is what the file begins with: for any number of
\* addresses, any length of log and any failure, also when clean-up fails and
\* when a crash tears the file header (Inner, parse_log, commit_batch).
THEOREM IndexIsExact == Spec => []IndexMatchesLog
  BY IndexedMatches, LogInvHolds, PTL
----
(* What opening accepts when clean-up works.                                *)

LEMMA SealedIsReadable ==
    ASSUME NEW f, Sealed(f)
    PROVE  Readable(f) /\ f \in Log /\ f # <<>> /\ Len(f) \in Nat /\ Len(f) >= 2
  BY DEF Sealed, Log

\* A prefix is known by its length.
LEMMA SameCut ==
    ASSUME NEW f \in Log, NEW g \in Log, Begins(f, g), NEW h \in Log, Begins(f, h),
           Len(g) = Len(h)
    PROVE  g = h
<1>1. \A i \in 1 .. Len(g) : g[i] = h[i]
  BY DEF Begins
<1> QED
  BY <1>1, SeqEqual DEF Log

LEMMA ExactInit == Init => ExactInv
<1> SUFFICES ASSUME Init
             PROVE  ExactInv
  OBVIOUS
<1>1. LogInv
  BY LogInvInit
<1>2. Accepted
  BY DEF Init, Accepted, RecoveryAcceptsLog, Readable
<1> QED
  BY <1>1, <1>2 DEF Init, ExactInv, Busy

LEMMA ExactOpening ==
    ASSUME ExactInv, Create \/ CreateStops \/ Recover \/ RecoverStops
    PROVE  ExactInv'
<1>1. LogInv'
  BY OpeningKeeps DEF ExactInv
<1>2. file \in Log /\ (HeaderTears \/ \A f \in images : Readable(f))
  BY DEF ExactInv, LogInv, TypeOK, Accepted, RecoveryAcceptsLog
<1>3. ASSUME NEW f, Readable(f), NEW e, NEW n, Owns(f, e, n)
      PROVE  ExactInv'
  <2>1. /\ file' = f /\ pc' = "ready" /\ log' = f
        /\ images' = IF f = file THEN images ELSE {f}
    BY <1>3 DEF Owns
  <2>2. Accepted'
    BY <1>2, <1>3, <2>1 DEF Accepted, RecoveryAcceptsLog
  <2> QED
    BY <1>1, <2>1, <2>2 DEF ExactInv, Busy
<1>4. ASSUME pc' = "closed", HeaderTears \/ Readable(file'), images' = images \union {file'}
      PROVE  ExactInv'
  BY <1>1, <1>2, <1>4 DEF ExactInv, Busy, Accepted, RecoveryAcceptsLog
<1>5. Readable(FileHeader)
  BY HeaderIs, SealedIsReadable
<1>6. file # <<>> /\ Readable(file) => Readable(SubSeq(file, 1, ValidLen(file)))
  BY <1>2, CutIs, SealedIsReadable
<1>7. CASE Create
  BY <1>3, <1>5, <1>7 DEF Create
<1>8. CASE CreateStops
  BY <1>4, <1>5, <1>8 DEF CreateStops
<1>9. CASE Recover
  BY <1>3, <1>6, <1>9 DEF Recover
<1>10. CASE RecoverStops
  BY <1>4, <1>6, <1>10 DEF RecoverStops
<1> QED
  BY <1>7, <1>8, <1>9, <1>10

LEMMA ExactStopping ==
    ASSUME ExactInv, WorkerStops \/ MachineStops
    PROVE  ExactInv'
<1>1. LogInv'
  BY StoppingKeeps DEF ExactInv
<1>2. pc' = "closed" /\ Accepted'
  BY DEF WorkerStops, MachineStops, disk, ExactInv, Accepted, RecoveryAcceptsLog
<1> QED
  BY <1>1, <1>2 DEF ExactInv, Busy

LEMMA ExactStaging ==
    ASSUME ExactInv, \/ Begin \/ Rollback \/ CommitNothing \/ CommitRefused
                     \/ \E h \in Hashes : Write(h) \/ Delete(h)
    PROVE  ExactInv'
<1>1. LogInv'
  BY StagingKeeps DEF ExactInv
<1>2. pc = "ready" /\ UNCHANGED <<disk, pc, log>>
  BY DEF Begin, Rollback, CommitNothing, CommitRefused, Write, Delete, Stage, index
<1> QED
  BY <1>1, <1>2 DEF ExactInv, Busy, disk, Accepted, RecoveryAcceptsLog

\* Any part of the transaction that is written is read as a torn tail.
LEMMA WrittenReadable ==
    ASSUME LogInv, pc = "ready", file = log, active # NoBatch,
           NEW order \in SetToSeqs(Changed), NEW k \in 0 .. Len(Transaction(order))
    PROVE  LET w == Written(file, active.start, Transaction(order), k)
               g == log \o Transaction(order)
           IN  /\ w \in Log /\ Framed(g, log, order)
               /\ Len(w) = Len(log) + k /\ Begins(g, w) /\ Begins(w, log)
               /\ Len(g) = Len(log) + Len(Transaction(order))
               /\ Readable(w) /\ w # <<>>
<1> DEFINE w == Written(file, active.start, Transaction(order), k)
           g == log \o Transaction(order)
<1>1. /\ active \in Batch /\ Sealed(log) /\ active.start = Len(log)
      /\ log \in Log /\ Len(log) \in Nat
  BY DEF LogInv, TypeOK, Indexed, Sealed, Log
<1>2. Framed(g, log, order)
  BY <1>1, FramedIs
<1>3. Begins(log, log)
  BY <1>1 DEF Begins
<1>4. /\ w \in Log /\ Len(w) = Len(log) + k /\ Begins(g, w) /\ Begins(w, log)
  BY <1>1, <1>3, WrittenLog
<1>5. /\ Transaction(order) \in Log
      /\ Len(g) = Len(log) + Len(Transaction(order))
  <2>1. Transaction(order) \in Log
    BY <1>1, TransactionIs
  <2> QED
    BY <1>1, <2>1, ConcatProperties DEF Log
<1> HIDE DEF w, g
<1>6. Len(log) <= Len(w)
  BY <1>4 DEF Begins
<1>7. Readable(w) /\ w # <<>>
  BY <1>1, <1>2, <1>4, <1>6, TornIs
<1> QED
  BY <1>2, <1>4, <1>5, <1>7 DEF w, g

LEMMA ExtentsIn ==
    ASSUME NEW t \in Log, NEW k \in Extents(t)
    PROVE  k \in 0 .. Len(t)
  BY DEF Extents, Log

LEMMA ExactAppending ==
    ASSUME ExactInv, AppendTransaction \/ AppendStops
    PROVE  ExactInv'
<1>1. LogInv' /\ LogInv /\ (HeaderTears \/ \A f \in images : Readable(f))
  BY AppendingKeeps DEF ExactInv, Accepted, RecoveryAcceptsLog
<1>2. pc = "ready" /\ active # NoBatch /\ active \in Batch /\ file = log
  BY <1>1 DEF AppendTransaction, AppendStops, LogInv, TypeOK, ExactInv
<1>2a. PICK order \in SetToSeqs(Changed) :
         \E k \in Extents(Transaction(order)) :
            /\ file' = Written(file, active.start, Transaction(order), k)
            /\ images' = images \union Torn(file, active.start, Transaction(order), k)
            /\ \/ /\ log' = log \o Transaction(order)
                  /\ pc' \in {"written", "failed"}
               \/ pc' = "closed"
  BY DEF AppendTransaction, AppendStops
<1>3. PICK k \in Extents(Transaction(order)) :
         /\ file' = Written(file, active.start, Transaction(order), k)
         /\ images' = images \union Torn(file, active.start, Transaction(order), k)
         /\ \/ /\ log' = log \o Transaction(order)
               /\ pc' \in {"written", "failed"}
            \/ pc' = "closed"
  BY <1>2a
<1>4. Transaction(order) \in Log
  BY <1>2, TransactionIs
<1>5. \A f \in Torn(file, active.start, Transaction(order), k) : Readable(f)
  <2>1. ASSUME NEW f \in Torn(file, active.start, Transaction(order), k)
        PROVE  Readable(f)
    <3>1. PICK j \in Extents(Transaction(order)) :
             f = Written(file, active.start, Transaction(order), j)
      BY DEF Torn
    <3> QED
      BY <1>1, <1>2, <1>4, <3>1, ExtentsIn, WrittenReadable
  <2> QED
    BY <2>1
<1>6. Accepted'
  BY <1>1, <1>3, <1>5 DEF Accepted, RecoveryAcceptsLog
<1>7. pc' # "closed" => Begins(log', file')
  BY <1>1, <1>2, <1>3, <1>4, ExtentsIn, WrittenReadable
<1> QED
  BY <1>1, <1>3, <1>6, <1>7 DEF ExactInv, Busy

LEMMA ExactFailing ==
    ASSUME ExactInv, ~CleanupFaults, Flush \/ FlushFails \/ Truncate \/ CommitFails
    PROVE  ExactInv'
<1>1. LogInv' /\ LogInv /\ Busy /\ Begins(log, file) /\ file \in Log /\ file \in images
      /\ (HeaderTears \/ \A f \in images : Readable(f))
  BY FlushKeeps, FailingKeeps, CommitFailsKeeps
     DEF ExactInv, Busy, Flush, FlushFails, Truncate, CommitFails, LogInv, TypeOK,
         Accepted, RecoveryAcceptsLog
<1>2. /\ Base \in Log /\ Begins(file, Base) /\ Sealed(Base) /\ Len(Base) = active.start
      /\ Len(Base) \in Nat
  BY <1>1 DEF LogInv, Indexed, Sealed, Log
<1>3. CASE Flush
  <2>1. pc' = "ready" /\ file' = file /\ images' = {file} /\ log' = log
        /\ Begins(file, log) /\ log \in Log
    <3>1. Sealed(log)'
      BY <1>1, <1>3 DEF Flush, LogInv, Indexed
    <3>2. log \in Log
      BY <1>3, <3>1 DEF Flush, Sealed
    <3> QED
      BY <1>1, <1>3, <3>2 DEF Flush, LogInv
  <2>2. file = log
    <3>1. Begins(log, log) /\ Len(file) = Len(log)
      BY <1>1, <2>1 DEF Begins, Log
    <3> QED
      BY <1>1, <2>1, <3>1, SameCut
  <2> QED
    BY <1>1, <2>1, <2>2 DEF ExactInv, Busy, Accepted, RecoveryAcceptsLog
<1>4. CASE FlushFails
  BY <1>1, <1>4 DEF FlushFails, disk, index, ExactInv, Busy, Accepted, RecoveryAcceptsLog
<1>5. CASE Truncate
  <2>1. file' = SubSeq(file, 1, Len(Base)) /\ Len(Base) \in 0 .. Len(file)
        /\ pc' = "truncated" /\ images' = images \union {file'}
        /\ log' = log /\ active' = active
    BY <1>1, <1>2, <1>5 DEF Truncate, index, Begins, Log
  <2>2. /\ file' \in Log /\ Len(file') = Len(Base) /\ Begins(file, file')
    BY <1>1, <2>1, CutAt
  <2>3. file' = Base
    BY <1>1, <1>2, <2>2, SameCut
  <2>4. Readable(file')
    BY <1>2, <2>3, SealedIsReadable
  <2>5. Begins(log, file')
    BY <1>1, <2>1, <2>2 DEF Begins, Log
  <2> QED
    BY <1>1, <1>2, <2>1, <2>3, <2>4, <2>5 DEF ExactInv, Busy, Accepted, RecoveryAcceptsLog
<1>6. CASE CommitFails
  <2>1. /\ pc = "truncated" /\ pc' = "ready" /\ file' = file /\ images' = {file}
        /\ log' = Base /\ Len(file) = active.start
    BY <1>1, <1>6 DEF CommitFails, Base, ExactInv
  <2>2. file = Base
    <3>1. Begins(file, file) /\ Len(file) = Len(Base)
      BY <1>1, <1>2, <2>1 DEF Begins, Log
    <3> QED
      BY <1>1, <1>2, <3>1, SameCut
  <2> QED
    BY <1>1, <2>1, <2>2 DEF ExactInv, Busy, Accepted, RecoveryAcceptsLog
<1> QED
  BY <1>3, <1>4, <1>5, <1>6

LEMMA ExactNext ==
    ASSUME ~CleanupFaults
    PROVE  ExactInv /\ [Next]_vars => ExactInv'
<1> SUFFICES ASSUME ExactInv, [Next]_vars
             PROVE  ExactInv'
  OBVIOUS
<1>1. CASE UNCHANGED vars
  <2>1. LogInv'
    BY <1>1, LogInvNext DEF ExactInv
  <2> QED
    BY <1>1, <2>1 DEF vars, ExactInv, Busy, Accepted, RecoveryAcceptsLog
<1>2. CASE Next
  BY <1>2, ExactOpening, ExactStopping, ExactStaging, ExactAppending, ExactFailing DEF Next
<1> QED
  BY <1>1, <1>2

\* No write of this code looks like damage: when clean-up after a failed commit
\* works and a crash leaves no half of a file header, whatever a crash leaves
\* at any instant is a file that opening accepts, for any number of addresses,
\* any length of log and every place a write may be cut (commit_batch,
\* parse_log; both conditions are findings of the violation runs).
THEOREM RecoveryAcceptsItsLog ==
    ASSUME ~CleanupFaults, ~HeaderTears
    PROVE  Spec => []RecoveryAcceptsLog
<1>1. ExactInv => RecoveryAcceptsLog
  BY DEF ExactInv, Accepted
<1> QED
  BY <1>1, ExactInit, ExactNext, PTL DEF Spec
----
(* The refinement of the abstract store: the proof of                       *)
(* ImplementsTransactionalStore when clean-up works. Two facts join the     *)
(* invariant. The log as it was when the batch began stays among what a     *)
(* crash may leave, so a commit that fails or is cut never loses the old    *)
(* contents; and a batch only puts what the index does not hold, so taking  *)
(* a change back restores what was there.                                   *)

RefInv ==
    /\ ExactInv
    /\ Busy => Base \in images
    /\ active # NoBatch => \A h \in Stored : active.changes[h] # "put"

\* What the abstract store sees, as the code keeps it.
SeenStored == IF pc = "closed" THEN Recovered(file) ELSE Stored
SeenSurvivors == {Recovered(f) : f \in images}
SeenView == IF pc = "closed" THEN Recovered(file) ELSE Listed
SeenMode == CASE pc = "closed" -> "closed"
              [] pc = "ready"  -> "open"
              [] OTHER         -> "committing"

StoreStep == Store!Next \/ UNCHANGED Store!vars

\* The actions of the abstract store, said of what it sees.
LEMMA StoreStays ==
    ASSUME SeenStored' = SeenStored, SeenSurvivors' = SeenSurvivors,
           SeenView' = SeenView, SeenMode' = SeenMode
    PROVE  StoreStep
  BY DEF StoreStep, Store!vars, SeenStored, SeenSurvivors, SeenView, SeenMode

LEMMA StoreOpens ==
    ASSUME SeenMode = "closed", SeenMode' = "open",
           SeenSurvivors' \in {SeenSurvivors, {SeenStored}},
           SeenStored' = SeenStored, SeenView' = SeenView
    PROVE  StoreStep
<1>1. Store!Open
  BY DEF Store!Open, SeenStored, SeenSurvivors, SeenView, SeenMode
<1> QED
  BY <1>1 DEF StoreStep, Store!Next

LEMMA StoreWrites ==
    ASSUME SeenMode = "open", SeenMode' = "open", NEW h \in Hashes,
           SeenStored' = SeenStored, SeenSurvivors' = SeenSurvivors,
           SeenView' \in {SeenView \union {h}, SeenView \ {h}, SeenStored}
    PROVE  StoreStep
<1>1. SeenView' = SeenView \union {h} => Store!Write(h)
  BY DEF Store!Write, SeenStored, SeenSurvivors, SeenView, SeenMode
<1>2. SeenView' = SeenView \ {h} => Store!Delete(h)
  BY DEF Store!Delete, SeenStored, SeenSurvivors, SeenView, SeenMode
<1>3. SeenView' = SeenStored => Store!Rollback
  BY DEF Store!Rollback, SeenStored, SeenSurvivors, SeenView, SeenMode
<1> QED
  BY <1>1, <1>2, <1>3 DEF StoreStep, Store!Next

LEMMA StoreRollsBack ==
    ASSUME SeenMode = "open", SeenMode' = "open",
           SeenStored' = SeenStored, SeenSurvivors' = SeenSurvivors,
           SeenView' = SeenStored
    PROVE  StoreStep
<1>1. Store!Rollback
  BY DEF Store!Rollback, SeenStored, SeenSurvivors, SeenView, SeenMode
<1> QED
  BY <1>1 DEF StoreStep, Store!Next

LEMMA StoreCommits ==
    ASSUME SeenMode = "open", SeenMode' = "committing",
           SeenSurvivors' \in {SeenSurvivors, SeenSurvivors \union {SeenView}},
           SeenStored' = SeenStored, SeenView' = SeenView
    PROVE  StoreStep
<1>1. Store!Commit
  BY DEF Store!Commit, SeenStored, SeenSurvivors, SeenView, SeenMode
<1> QED
  BY <1>1 DEF StoreStep, Store!Next

LEMMA StoreReturns ==
    ASSUME SeenMode = "committing", SeenMode' = "open",
           \/ SeenStored' = SeenView /\ SeenView' = SeenView
           \/ SeenView' \in {SeenView, SeenStored} /\ SeenStored' = SeenStored,
           SeenSurvivors' = {SeenStored'}
    PROVE  StoreStep
<1>1. Store!Return
  BY DEF Store!Return, SeenStored, SeenSurvivors, SeenView, SeenMode
<1> QED
  BY <1>1 DEF StoreStep, Store!Next

LEMMA StoreStops ==
    ASSUME SeenMode # "closed", SeenMode' = "closed",
           SeenStored' \in IF SeenMode = "committing" THEN {SeenStored, SeenView}
                                                      ELSE {SeenStored},
           SeenStored' \in SeenSurvivors,
           SeenView' = SeenStored', SeenSurvivors' = SeenSurvivors
    PROVE  StoreStep
<1>1. Store!Stop
  BY DEF Store!Stop, SeenStored, SeenSurvivors, SeenView, SeenMode
<1> QED
  BY <1>1 DEF StoreStep, Store!Next

LEMMA StoreLosesPower ==
    ASSUME SeenMode' = "closed", SeenStored' \in SeenSurvivors,
           SeenSurvivors' = {SeenStored'}, SeenView' = SeenStored'
    PROVE  StoreStep
<1>1. Store!LosePower
  BY DEF Store!LosePower, SeenStored, SeenSurvivors, SeenView, SeenMode
<1> QED
  BY <1>1 DEF StoreStep, Store!Next

LEMMA StoreInit == Init => Store!Init /\ RefInv
<1> SUFFICES ASSUME Init
             PROVE  Store!Init /\ RefInv
  OBVIOUS
<1>1. Recovered(<<>>) = {} /\ {Recovered(f) : f \in {<<>>}} = {{}}
  BY DEF Recovered
<1>2. Store!Init
  BY <1>1 DEF Init, Store!Init
<1>3. RefInv
  BY ExactInit DEF Init, RefInv, Busy
<1> QED
  BY <1>2, <1>3

\* Two files with the same entries store the same objects.
LEMMA SameRecovered ==
    ASSUME NEW f, NEW g, f # <<>>, g # <<>>, Entries(f) = Entries(g)
    PROVE  Recovered(f) = Recovered(g)
  BY DEF Recovered

LEMMA HeaderStoresNothing ==
    /\ Recovered(FileHeader) = {} /\ Recovered(<<>>) = {}
    /\ Recovered(SubSeq(FileHeader, 1, 1)) = {}
<1>1. Entries(FileHeader) = NoEntries /\ FileHeader # <<>>
  BY HeaderIs
<1>2. Recovered(FileHeader) = {h \in Hashes : NoEntries[h] # 0}
  <2> HIDE DEF FileHeader
  <2> QED
    BY <1>1 DEF Recovered
<1>3. ASSUME NEW f, Len(f) = 1
      PROVE  Recovered(f) = {}
  <2>1. Count(f) = -1
    BY <1>3 DEF Count
  <2>2. \A h : LastChange(f, h) = MaxIn({0})
    BY <2>1 DEF LastChange
  <2>3. MaxIn({0}) = 0
    BY DEF MaxIn
  <2>4. \A h \in Hashes : Entries(f)[h] = 0
    BY <2>2, <2>3, EntryIs
  <2> QED
    BY <2>4 DEF Recovered
<1>4. Recovered(SubSeq(FileHeader, 1, 1)) = {}
  BY <1>3, HeaderIs
<1> QED
  BY <1>2, <1>4 DEF Recovered, NoEntries

\* Between calls the file holds what the index shows.
LEMMA ReadyStores ==
    ASSUME ExactInv, pc = "ready"
    PROVE  Recovered(file) = Stored /\ Recovered(log) = Stored /\ file = log
<1>1. file = log /\ Sealed(log) /\ Entries(log) = entries
  BY DEF ExactInv, LogInv, Indexed
<1>2. log # <<>>
  BY <1>1, SealedIsReadable
<1> QED
  BY <1>1, <1>2 DEF Recovered, Stored

LEMMA BaseStores ==
    ASSUME LogInv, Busy
    PROVE  Recovered(Base) = Stored
<1>1. Sealed(Base) /\ Entries(Base) = entries
  BY DEF LogInv, Indexed
<1>2. Base # <<>>
  BY <1>1, SealedIsReadable
<1> QED
  BY <1>1, <1>2 DEF Recovered, Stored

\* A whole transaction stores what the owner of the batch sees.
LEMMA FramedStores ==
    ASSUME active \in Batch, NEW order \in SetToSeqs(Changed),
           NEW g, NEW base, Framed(g, base, order), Entries(base) = entries
    PROVE  Recovered(g) = Listed
<1>1. g # <<>> /\ active # NoBatch
  <2>1. Sealed(g)
    BY FramedSealed
  <2> QED
    BY <2>1, SealedIsReadable, BatchAssumption
<1>2. ASSUME NEW h \in Hashes
      PROVE  Entries(g)[h] # 0 <=> h \in Listed
  <2>1. active.changes[h] \in {"none", "put", "delete"}
    BY DEF Batch
  <2>2. CASE active.changes[h] = "put"
    <3>1. PICK i \in 1 .. Len(order) : order[i] = h
      BY <2>2, OrderIs DEF Changed
    <3>2. Entries(g)[h] = 2 * (Count(base) + 1 + i) + 2
      BY <2>2, <3>1, CommittedIs
    <3>3. Count(base) \in Nat /\ Len(order) \in Nat
      BY DEF Framed
    <3>4. Entries(g)[h] # 0
      BY <3>2, <3>3
    <3> QED
      BY <1>1, <2>2, <3>4 DEF Listed
  <2>3. CASE active.changes[h] = "delete"
    BY <1>1, <2>3, CommittedIs DEF Listed
  <2>4. CASE active.changes[h] = "none"
    BY <1>1, <2>4, CommittedIs DEF Listed, Changed, Stored
  <2> QED
    BY <2>1, <2>2, <2>3, <2>4
<1>3. Recovered(g) = {h \in Hashes : Entries(g)[h] # 0} /\ Listed \subseteq Hashes
  BY <1>1 DEF Recovered, Listed, Stored
<1> QED
  BY <1>2, <1>3

\* A torn one stores what was there before it.
LEMMA TornStores ==
    ASSUME active \in Batch, NEW order \in SetToSeqs(Changed),
           NEW g, NEW base, Framed(g, base, order), Entries(base) = entries,
           NEW f \in Log, Begins(g, f), Len(base) <= Len(f)
    PROVE  /\ Len(f) < Len(g) => Recovered(f) = Stored
           /\ Len(f) = Len(g) => Recovered(f) = Listed
<1>1. Readable(f) /\ f # <<>>
  BY TornIs
<1>2. Len(f) < Len(g) => Recovered(f) = Stored
  BY <1>1, TornIs DEF Recovered, Stored
<1>3. ASSUME Len(f) = Len(g)
      PROVE  Recovered(f) = Listed
  <2>1. g \in Log /\ Begins(g, g)
    BY DEF Framed, Begins, Log
  <2>2. f = g
    BY <1>3, <2>1, SameCut
  <2> QED
    BY <2>2, FramedStores
<1> QED
  BY <1>2, <1>3

\* What the file holds while a batch is being committed.
LEMMA BusyStores ==
    ASSUME ExactInv, Busy
    PROVE  Recovered(file) \in {Stored, Listed}
<1>1. LogInv /\ Begins(log, file) /\ file \in Log /\ Indexed(Base)
  BY DEF ExactInv, LogInv, TypeOK
<1>2. active \in Batch /\ Entries(Base) = entries /\ Len(Base) <= Len(file)
  BY <1>1, BusyIsFramed DEF Indexed, Begins
<1>3. PICK order \in SetToSeqs(Changed) : Framed(log, Base, order)
  BY <1>1, BusyIsFramed
<1>4. Len(file) < Len(log) \/ Len(file) = Len(log)
  BY <1>1, <1>3 DEF Begins, Framed, Log
<1> QED
  BY <1>1, <1>2, <1>3, <1>4, TornStores

\* The steps of the log, as the abstract store sees them.
LEMMA RefOpening ==
    ASSUME RefInv, Create \/ CreateStops \/ Recover \/ RecoverStops
    PROVE  RefInv' /\ StoreStep
<1>1. /\ ExactInv /\ ExactInv' /\ pc = "closed" /\ active = NoBatch /\ active' = NoBatch
      /\ file \in images /\ file \in Log
      /\ SeenMode = "closed" /\ SeenStored = Recovered(file) /\ SeenView = Recovered(file)
  BY ExactOpening DEF RefInv, ExactInv, LogInv, TypeOK, Create, CreateStops, Recover,
                      RecoverStops, Owns, SeenMode, SeenStored, SeenView
<1>2. ASSUME NEW f, NEW e, NEW n, Owns(f, e, n), Recovered(f) = Recovered(file)
      PROVE  RefInv' /\ StoreStep
  <2>1. /\ file' = f /\ pc' = "ready" /\ images' = IF f = file THEN images ELSE {f}
    BY <1>2 DEF Owns
  <2>2. RefInv'
    BY <1>1, <2>1 DEF RefInv, Busy
  <2>3. Recovered(file)' = Stored'
    <3>1. Sealed(file') /\ Entries(file') = entries'
      BY <1>1, <2>1 DEF ExactInv, LogInv, Indexed
    <3>2. file' # <<>>
      BY <3>1, SealedIsReadable
    <3> QED
      BY <3>1, <3>2 DEF Recovered, Stored
  <2>4. Recovered(file)' = Recovered(file)
    BY <1>2, <2>1 DEF Recovered, Entries, LastChange
  <2>5. SeenMode' = "open" /\ SeenStored' = SeenStored /\ SeenView' = SeenView
    BY <1>1, <2>1, <2>3, <2>4 DEF SeenMode, SeenStored, SeenView, Listed
  <2>6. SeenSurvivors' \in {SeenSurvivors, {SeenStored}}
    BY <1>1, <1>2, <2>1 DEF SeenSurvivors
  <2> QED
    BY <1>1, <2>2, <2>5, <2>6, StoreOpens
<1>3. ASSUME pc' = "closed", images' = images \union {file'},
             Recovered(file)' = Recovered(file)
      PROVE  RefInv' /\ StoreStep
  <2>1. RefInv'
    BY <1>1, <1>3 DEF RefInv, Busy
  <2>2. SeenMode' = "closed" /\ SeenStored' = SeenStored /\ SeenView' = SeenView
    BY <1>1, <1>3 DEF SeenMode, SeenStored, SeenView
  <2>3. SeenSurvivors' = SeenSurvivors
    BY <1>1, <1>3 DEF SeenSurvivors
  <2> QED
    BY <1>1, <2>1, <2>2, <2>3, StoreStays
<1>4. file # <<>> /\ Readable(file) =>
         Recovered(SubSeq(file, 1, ValidLen(file))) = Recovered(file)
  BY <1>1, CutIs, SealedIsReadable, SameRecovered
<1>5. CASE Create
  BY <1>2, <1>5, HeaderStoresNothing DEF Create
<1>6. CASE CreateStops
  BY <1>3, <1>6, HeaderStoresNothing DEF CreateStops
<1>7. CASE Recover
  BY <1>2, <1>4, <1>7 DEF Recover
<1>8. CASE RecoverStops
  BY <1>3, <1>4, <1>8 DEF RecoverStops
<1> QED
  BY <1>5, <1>6, <1>7, <1>8

LEMMA RefStopping ==
    ASSUME RefInv, WorkerStops \/ MachineStops
    PROVE  RefInv' /\ StoreStep
<1>1. /\ ExactInv /\ ExactInv' /\ pc' = "closed" /\ active' = NoBatch /\ file \in images
  BY ExactStopping DEF RefInv, ExactInv, LogInv, TypeOK, WorkerStops, MachineStops, Forget
<1>2. RefInv'
  BY <1>1 DEF RefInv, Busy
<1>3. SeenMode' = "closed" /\ SeenStored' = Recovered(file)' /\ SeenView' = Recovered(file)'
  BY <1>1 DEF SeenMode, SeenStored, SeenView
<1>4. CASE WorkerStops
  <2>1. pc # "closed" /\ file' = file /\ images' = images
    BY <1>4 DEF WorkerStops, disk
  <2>2. Recovered(file)' = Recovered(file)
    BY <2>1 DEF Recovered, Entries, LastChange
  <2>3. SeenSurvivors' = SeenSurvivors /\ Recovered(file) \in SeenSurvivors
    BY <1>1, <2>1 DEF SeenSurvivors
  <2>4. CASE pc = "ready"
    <3>1. SeenMode = "open" /\ SeenStored = Recovered(file)
      BY <1>1, <2>4, ReadyStores DEF SeenMode, SeenStored
    <3> QED
      BY <1>2, <1>3, <2>2, <2>3, <3>1, StoreStops
  <2>5. CASE Busy
    <3>1. SeenMode = "committing" /\ Recovered(file) \in {SeenStored, SeenView}
      BY <1>1, <2>5, BusyStores DEF SeenMode, SeenStored, SeenView, Busy
    <3> QED
      BY <1>2, <1>3, <2>2, <2>3, <3>1, StoreStops
  <2> QED
    BY <1>1, <2>1, <2>4, <2>5 DEF ExactInv, LogInv, TypeOK, Busy
<1>5. CASE MachineStops
  <2>1. file' \in images /\ images' = {file'}
    BY <1>5 DEF MachineStops
  <2>2. SeenSurvivors' = {Recovered(file)'} /\ Recovered(file') \in SeenSurvivors
    BY <2>1 DEF SeenSurvivors
  <2>3. Recovered(file)' = Recovered(file')
    BY DEF Recovered, Entries, LastChange
  <2> QED
    BY <1>2, <1>3, <2>2, <2>3, StoreLosesPower
<1> QED
  BY <1>4, <1>5

\* What changes show of the store.
Shown(c) == {h \in Hashes : \/ c[h] = "put"
                            \/ c[h] = "none" /\ h \in Stored}

LEMMA ListedIs ==
    ASSUME TypeOK
    PROVE  /\ Listed = Shown(Staged)
           /\ Staged \in [Hashes -> {"none", "put", "delete"}]
           /\ Shown(NoChanges) = Stored
<1>1. Shown(NoChanges) = Stored
  BY DEF Shown, NoChanges, Stored
<1>2. CASE active = NoBatch
  <2>1. Listed = Stored /\ Staged = NoChanges
    BY <1>2 DEF Listed, Staged
  <2>2. NoChanges \in [Hashes -> {"none", "put", "delete"}]
    BY DEF NoChanges
  <2> QED
    BY <1>1, <2>1, <2>2
<1>3. CASE active # NoBatch
  <2>1. Staged = active.changes
        /\ active.changes \in [Hashes -> {"none", "put", "delete"}]
    BY <1>3 DEF TypeOK, Batch, Staged
  <2>2. Listed = Shown(active.changes)
    BY <1>3 DEF Listed, Shown
  <2> QED
    BY <1>1, <2>1, <2>2
<1> QED
  BY <1>1, <1>2, <1>3

\* Staging a write or a delete shows it, and nothing else.
LEMMA ChangeShows ==
    ASSUME NEW c \in [Hashes -> {"none", "put", "delete"}],
           \A x \in Stored : c[x] # "put", NEW h \in Hashes
    PROVE  /\ Shown(PutChange(c, h)) = Shown(c) \union {h}
           /\ Shown(RemoveChange(c, h)) = Shown(c) \ {h}
           /\ \A x \in Stored : /\ PutChange(c, h)[x] # "put"
                                /\ RemoveChange(c, h)[x] # "put"
           /\ PutChange(c, h) \in [Hashes -> {"none", "put", "delete"}]
           /\ RemoveChange(c, h) \in [Hashes -> {"none", "put", "delete"}]
<1> DEFINE p == PutChange(c, h)
           r == RemoveChange(c, h)
<1>1. /\ p \in [Hashes -> {"none", "put", "delete"}]
      /\ \A x \in Hashes \ {h} : p[x] = c[x]
      /\ p[h] = IF c[h] # "put" /\ h \in Stored THEN "none" ELSE "put"
  BY DEF PutChange
<1>2. /\ r \in [Hashes -> {"none", "put", "delete"}]
      /\ \A x \in Hashes \ {h} : r[x] = c[x]
      /\ r[h] = CASE c[h] = "put" -> "none"
                  [] c[h] # "put" /\ h \in Stored -> "delete"
                  [] c[h] # "put" /\ h \notin Stored -> c[h]
  BY DEF RemoveChange
<1> HIDE DEF p, r
<1>3. Shown(p) = Shown(c) \union {h}
  <2>1. h \in Shown(p)
    BY <1>1 DEF Shown
  <2>2. \A x \in Hashes \ {h} : x \in Shown(p) <=> x \in Shown(c)
    BY <1>1 DEF Shown
  <2>3. Shown(p) \subseteq Hashes /\ Shown(c) \subseteq Hashes
    BY DEF Shown
  <2> QED
    BY <2>1, <2>2, <2>3
<1>4. h \notin Shown(r)
  BY <1>2 DEF Shown
<1>5. Shown(r) = Shown(c) \ {h}
  BY <1>2, <1>4 DEF Shown
<1>6. \A x \in Stored : p[x] # "put" /\ r[x] # "put"
  BY <1>1, <1>2 DEF Stored
<1> QED
  BY <1>1, <1>2, <1>3, <1>5, <1>6 DEF p, r

LEMMA RefBatch ==
    ASSUME RefInv, pc = "ready", UNCHANGED <<disk, pc, log, entries>>, ExactInv',
           active' # NoBatch => \A x \in Stored : active'.changes[x] # "put"
    PROVE  /\ RefInv'
           /\ SeenMode = "open" /\ SeenMode' = "open"
           /\ SeenStored' = SeenStored /\ SeenSurvivors' = SeenSurvivors
           /\ SeenStored = Stored /\ SeenView = Listed /\ SeenView' = Listed'
           /\ Stored' = Stored
<1>1. /\ file' = file /\ images' = images /\ pc' = "ready" /\ entries' = entries
  BY DEF disk
<1>2. Stored' = Stored
  BY <1>1 DEF Stored
<1>3. RefInv'
  BY <1>1, <1>2 DEF RefInv, Busy
<1> QED
  BY <1>1, <1>2, <1>3 DEF SeenMode, SeenStored, SeenSurvivors, SeenView

LEMMA RefStaging ==
    ASSUME RefInv, \/ Begin \/ Rollback \/ CommitNothing \/ CommitRefused
                   \/ \E h \in Hashes : Write(h) \/ Delete(h)
    PROVE  RefInv' /\ StoreStep
<1>1. /\ ExactInv /\ ExactInv' /\ TypeOK /\ TypeOK'
      /\ pc = "ready" /\ UNCHANGED <<disk, pc, log, entries>>
      /\ active \in Batch \union {NoBatch}
  BY ExactStaging DEF Begin, Rollback, CommitNothing, CommitRefused, Write, Delete, Stage,
                      index, RefInv, ExactInv, LogInv, TypeOK
<1>2. \A x \in Stored : Staged[x] # "put"
  BY DEF Staged, NoChanges, Stored, RefInv
<1>3. CASE Begin
  <2>1. active = NoBatch /\ active' # NoBatch /\ active'.changes = NoChanges
    BY <1>1, <1>3, NewBatchIs, BatchAssumption DEF Begin, NewBatch, NoChanges, ExactInv
  <2>2. \A x \in Stored : active'.changes[x] # "put"
    BY <2>1 DEF NoChanges, Stored
  <2>3. Listed = Stored /\ Listed' = Stored'
    BY <2>1 DEF Listed, NoChanges, Stored
  <2> QED
    BY <1>1, <2>2, <2>3, RefBatch, StoreStays
<1>4. CASE Rollback \/ CommitRefused
  <2>1. active' = NoBatch /\ Listed' = Stored'
    BY <1>4 DEF Rollback, CommitRefused, Listed
  <2> QED
    BY <1>1, <2>1, RefBatch, StoreRollsBack
<1>5. CASE CommitNothing
  <2>1. active' = NoBatch /\ Listed' = Stored'
    BY <1>5 DEF CommitNothing, Listed
  <2>2. Listed = Stored
    BY <1>5 DEF CommitNothing, Listed, Changed, Stored
  <2> QED
    BY <1>1, <2>1, <2>2, RefBatch, StoreStays
<1>6. ASSUME NEW c \in [Hashes -> {"none", "put", "delete"}], Stage(c),
             \A x \in Stored : c[x] # "put"
      PROVE  /\ Listed' = Shown(c)
             /\ active' # NoBatch => \A x \in Stored : active'.changes[x] # "put"
  <2>1. active' # NoBatch /\ active'.changes = c
    <3>1. CASE active # NoBatch /\ active' = [active EXCEPT !.changes = c]
      <4>1. active' \in Batch /\ active'.changes = c
        BY <1>1, <3>1 DEF Batch
      <4> QED
        BY <4>1, BatchAssumption
    <3>2. CASE next <= MaxTransactions /\ active' = NewBatch(TRUE, c)
      <4>1. active' \in Batch
        BY <1>1, <3>2, NewBatchIs DEF ExactInv
      <4>2. active'.changes = c
        BY <3>2 DEF NewBatch
      <4> QED
        BY <4>1, <4>2, BatchAssumption
    <3> QED
      BY <1>6, <3>1, <3>2 DEF Stage
  <2>2. Stored' = Stored
    BY <1>1 DEF Stored
  <2>3. Listed' = {x \in Hashes : \/ active'.changes[x] = "put"
                                  \/ active'.changes[x] = "none" /\ x \in Stored'}
    BY <2>1 DEF Listed
  <2>4. Listed' = Shown(c)
    BY <2>1, <2>2, <2>3 DEF Shown
  <2> QED
    BY <1>6, <2>1, <2>4
<1>7. Listed = Shown(Staged) /\ Staged \in [Hashes -> {"none", "put", "delete"}]
  BY <1>1, ListedIs
<1>8. ASSUME NEW h \in Hashes, Write(h)
      PROVE  RefInv' /\ StoreStep
  <2>1. /\ Listed' = Listed \union {h}
        /\ active' # NoBatch => \A x \in Stored : active'.changes[x] # "put"
    BY <1>2, <1>6, <1>7, <1>8, ChangeShows DEF Write
  <2> QED
    BY <1>1, <2>1, RefBatch, StoreWrites
<1>9. ASSUME NEW h \in Hashes, Delete(h)
      PROVE  RefInv' /\ StoreStep
  <2>1. /\ Listed' = Listed \ {h}
        /\ active' # NoBatch => \A x \in Stored : active'.changes[x] # "put"
    BY <1>2, <1>6, <1>7, <1>9, ChangeShows DEF Delete
  <2> QED
    BY <1>1, <2>1, RefBatch, StoreWrites
<1> QED
  BY <1>3, <1>4, <1>5, <1>8, <1>9

LEMMA RefAppending ==
    ASSUME RefInv, AppendTransaction \/ AppendStops
    PROVE  RefInv' /\ StoreStep
<1>1. /\ ExactInv /\ ExactInv' /\ LogInv
      /\ pc = "ready" /\ active # NoBatch /\ active \in Batch /\ file = log
      /\ file \in images /\ Sealed(log) /\ log \in Log /\ Entries(log) = entries
      /\ active.start = Len(log) /\ Len(log) \in Nat /\ Recovered(file) = Stored
  <2>1. ExactInv /\ ExactInv' /\ LogInv /\ pc = "ready" /\ active # NoBatch
    BY ExactAppending DEF RefInv, ExactInv, AppendTransaction, AppendStops
  <2>2. /\ active \in Batch /\ file \in images /\ Sealed(log) /\ Entries(log) = entries
        /\ active.start = Len(log)
    BY <2>1 DEF LogInv, TypeOK, Indexed
  <2>3. log \in Log /\ Len(log) \in Nat
    BY <2>2 DEF Sealed, Log
  <2>4. file = log /\ Recovered(file) = Stored
    BY <2>1, ReadyStores
  <2> QED
    BY <2>1, <2>2, <2>3, <2>4
<1>2. /\ SeenMode = "open" /\ SeenStored = Stored /\ SeenView = Listed
      /\ Stored \in SeenSurvivors
  BY <1>1 DEF SeenMode, SeenStored, SeenView, SeenSurvivors
<1>3. ASSUME NEW order \in SetToSeqs(Changed), NEW k \in Extents(Transaction(order))
      PROVE  /\ k \in 0 .. Len(Transaction(order))
             /\ Transaction(order) \in Log
             /\ k < Len(Transaction(order)) =>
                   Recovered(Written(file, active.start, Transaction(order), k)) = Stored
             /\ k = Len(Transaction(order)) =>
                   Recovered(Written(file, active.start, Transaction(order), k)) = Listed
  <2> DEFINE t == Transaction(order)
             w == Written(file, active.start, t, k)
             g == log \o t
  <2>1. t \in Log /\ Len(t) \in Nat
    BY <1>1, TransactionIs DEF Log
  <2>2. k \in 0 .. Len(t)
    BY <2>1, ExtentsIn
  <2>3. /\ w \in Log /\ Framed(g, log, order) /\ Len(w) = Len(log) + k /\ Begins(g, w)
        /\ Len(g) = Len(log) + Len(t)
    BY <1>1, <2>2, WrittenReadable
  <2> HIDE DEF w, g, t
  <2>4. /\ Len(log) <= Len(w)
        /\ k < Len(t) => Len(w) < Len(g)
        /\ k = Len(t) => Len(w) = Len(g)
    BY <1>1, <2>1, <2>2, <2>3
  <2>5. /\ Len(w) < Len(g) => Recovered(w) = Stored
        /\ Len(w) = Len(g) => Recovered(w) = Listed
    BY <1>1, <2>3, <2>4, TornStores
  <2> QED
    BY <2>1, <2>2, <2>4, <2>5 DEF w, t
<1>4. ASSUME NEW order \in SetToSeqs(Changed), NEW k \in Extents(Transaction(order)),
             NEW f \in Torn(file, active.start, Transaction(order), k)
      PROVE  /\ Recovered(f) \in {Stored, Listed}
             /\ k < Len(Transaction(order)) => Recovered(f) = Stored
  <2> DEFINE t == Transaction(order)
  <2>1. PICK j \in Extents(t) : j <= k /\ f = Written(file, active.start, t, j)
    BY DEF Torn
  <2>2. /\ Len(t) \in Nat /\ k \in 0 .. Len(t) /\ j \in 0 .. Len(t)
        /\ j < Len(t) => Recovered(f) = Stored
        /\ j = Len(t) => Recovered(f) = Listed
    BY <1>3, <2>1 DEF Log
  <2> HIDE DEF t
  <2>3. j < Len(t) \/ j = Len(t)
    BY <2>2
  <2>4. k < Len(t) => j < Len(t)
    BY <2>1, <2>2
  <2> QED
    BY <2>2, <2>3, <2>4 DEF t
<1>5. CASE AppendTransaction
  <2>1. PICK order \in SetToSeqs(Changed) :
           /\ log' = log \o Transaction(order)
           /\ \E k \in Extents(Transaction(order)) :
                 /\ images' = images \union Torn(file, active.start, Transaction(order), k)
                 /\ pc' \in {"written", "failed"}
    BY <1>5 DEF AppendTransaction
  <2>2. PICK k \in Extents(Transaction(order)) :
           /\ images' = images \union Torn(file, active.start, Transaction(order), k)
           /\ pc' \in {"written", "failed"}
    BY <2>1
  <2>3. entries' = entries /\ active' = active
    BY <1>5 DEF AppendTransaction
  <2>4. Stored' = Stored /\ Listed' = Listed
    BY <2>3 DEF Stored, Listed
  <2>5. Base' = log
    BY <1>1, <1>3, <2>1, <2>3, BaseIs DEF Base
  <2>6. RefInv'
    BY <1>1, <2>2, <2>3, <2>4, <2>5 DEF RefInv, Busy
  <2>7. SeenMode' = "committing" /\ SeenStored' = SeenStored /\ SeenView' = SeenView
    BY <1>2, <2>2, <2>4 DEF SeenMode, SeenStored, SeenView
  <2>8. SeenSurvivors' = SeenSurvivors
          \union {Recovered(f) : f \in Torn(file, active.start, Transaction(order), k)}
    BY <2>2 DEF SeenSurvivors
  <2>9. \A s \in {Recovered(f) : f \in Torn(file, active.start, Transaction(order), k)} :
           s \in {SeenStored, SeenView}
    BY <1>2, <1>4
  <2>10. SeenSurvivors' \in {SeenSurvivors, SeenSurvivors \union {SeenView}}
    BY <1>2, <2>8, <2>9
  <2> QED
    BY <1>2, <2>6, <2>7, <2>10, StoreCommits
<1>6. CASE AppendStops
  <2>1. PICK order \in SetToSeqs(Changed) :
           \E k \in Extents(Transaction(order)) \ {Len(Transaction(order))} :
              /\ file' = Written(file, active.start, Transaction(order), k)
              /\ images' = images \union Torn(file, active.start, Transaction(order), k)
    BY <1>6 DEF AppendStops
  <2>2. PICK k \in Extents(Transaction(order)) :
           /\ k # Len(Transaction(order))
           /\ file' = Written(file, active.start, Transaction(order), k)
           /\ images' = images \union Torn(file, active.start, Transaction(order), k)
    BY <2>1
  <2>3. k < Len(Transaction(order))
    <3>1. k \in 0 .. Len(Transaction(order)) /\ Len(Transaction(order)) \in Nat
      BY <1>3 DEF Log
    <3> HIDE DEF Transaction
    <3> QED
      BY <2>2, <3>1
  <2>4. pc' = "closed" /\ active' = NoBatch
    BY <1>6 DEF AppendStops, Forget
  <2>5. RefInv'
    BY <1>1, <2>4 DEF RefInv, Busy
  <2>6. Recovered(file') = Stored
    BY <1>3, <2>2, <2>3
  <2>7. SeenMode' = "closed" /\ SeenStored' = Stored /\ SeenView' = Stored
    <3>1. Recovered(file)' = Recovered(file')
      BY DEF Recovered, Entries, LastChange
    <3> QED
      BY <2>4, <2>6, <3>1 DEF SeenMode, SeenStored, SeenView
  <2>8. SeenSurvivors' = SeenSurvivors
          \union {Recovered(f) : f \in Torn(file, active.start, Transaction(order), k)}
    BY <2>2 DEF SeenSurvivors
  <2>9. \A s \in {Recovered(f) : f \in Torn(file, active.start, Transaction(order), k)} :
           s = Stored
    BY <1>4, <2>3
  <2>10. SeenSurvivors' = SeenSurvivors
    BY <1>2, <2>8, <2>9
  <2> QED
    BY <1>2, <2>5, <2>7, <2>10, StoreStops
<1> QED
  BY <1>5, <1>6

LEMMA RefFailing ==
    ASSUME RefInv, ~CleanupFaults, Flush \/ FlushFails \/ Truncate \/ CommitFails
    PROVE  RefInv' /\ StoreStep
<1>1. /\ ExactInv /\ ExactInv' /\ LogInv /\ Busy /\ Base \in images
      /\ active \in Batch /\ file \in images
      /\ Recovered(Base) = Stored
  BY ExactFailing, BusyIsFramed, BaseStores
     DEF RefInv, ExactInv, Busy, Flush, FlushFails, Truncate, CommitFails, LogInv, TypeOK
<1>2. /\ SeenMode = "committing" /\ SeenStored = Stored /\ SeenView = Listed
      /\ Stored \in SeenSurvivors
  BY <1>1 DEF SeenMode, SeenStored, SeenView, SeenSurvivors, Busy
<1>3. CASE Flush
  <2>1. pc' = "ready" /\ file' = file /\ images' = {file} /\ active' = NoBatch /\ log' = log
    BY <1>3 DEF Flush
  <2>2. entries' = Entries(log) /\ Indexed(Base)
    BY <1>1, <1>3, PublishedIs DEF LogInv
  <2>3. Recovered(log) = Listed
    <3>1. PICK order \in SetToSeqs(Changed) : Framed(log, Base, order)
      BY <1>1, BusyIsFramed
    <3> QED
      BY <1>1, <2>2, <3>1, FramedStores DEF Indexed
  <2>4. file = log /\ log # <<>>
    <3>1. file' = log' /\ Sealed(log')
      BY <1>1, <2>1 DEF ExactInv, LogInv, Indexed
    <3> QED
      BY <2>1, <3>1, SealedIsReadable
  <2>5. Stored' = Listed
    BY <2>2, <2>3, <2>4 DEF Stored, Recovered
  <2>6. RefInv'
    BY <1>1, <2>1 DEF RefInv, Busy
  <2>7. SeenMode' = "open" /\ SeenStored' = SeenView /\ SeenView' = SeenView
    BY <1>2, <2>1, <2>5 DEF SeenMode, SeenStored, SeenView, Listed
  <2>8. SeenSurvivors' = {SeenStored'}
    BY <1>2, <2>1, <2>3, <2>4, <2>7 DEF SeenSurvivors
  <2> QED
    BY <1>2, <2>6, <2>7, <2>8, StoreReturns
<1>4. CASE FlushFails \/ Truncate
  <2>1. /\ pc' \in {"failed", "truncated"} /\ log' = log /\ entries' = entries
        /\ active' = active
    BY <1>4 DEF FlushFails, Truncate, index
  <2>2. Base' = Base /\ Stored' = Stored /\ Listed' = Listed
    BY <2>1 DEF Base, Stored, Listed
  <2>3. SeenSurvivors' = SeenSurvivors /\ images \subseteq images'
    <3>1. CASE FlushFails
      BY <3>1 DEF FlushFails, disk, SeenSurvivors
    <3>2. CASE Truncate
      <4>1. images' = images \union {file'} /\ file' = Base
        <5>1. /\ file \in Log /\ Begins(file, Base) /\ Base \in Log /\ Len(Base) \in Nat
              /\ Len(Base) = active.start
          BY <1>1 DEF LogInv, Indexed, Sealed, Log
        <5>2. Len(Base) \in 0 .. Len(file)
          BY <5>1 DEF Begins, Log
        <5>3. file' = SubSeq(file, 1, Len(Base)) /\ images' = images \union {file'}
          BY <3>2, <5>1 DEF Truncate
        <5> QED
          BY <5>1, <5>2, <5>3, CutAt, SameCut
      <4> QED
        BY <1>1, <4>1 DEF SeenSurvivors
    <3> QED
      BY <1>4, <3>1, <3>2
  <2>4. RefInv'
    BY <1>1, <2>1, <2>2, <2>3 DEF RefInv, Busy
  <2>5. SeenMode' = "committing" /\ SeenStored' = SeenStored /\ SeenView' = SeenView
    BY <1>2, <2>1, <2>2 DEF SeenMode, SeenStored, SeenView
  <2> QED
    BY <1>2, <2>3, <2>4, <2>5, StoreStays
<1>5. CASE CommitFails
  <2>1. /\ pc' = "ready" /\ images' = {file} /\ file' = file /\ log' = Base
        /\ entries' = entries /\ active' \in {active, NoBatch}
    BY <1>5 DEF CommitFails, Base
  <2>2. Stored' = Stored
    BY <2>1 DEF Stored
  <2>3. file = Base
    BY <1>1, <2>1 DEF ExactInv
  <2>4. Listed' \in {Listed, Stored}
    <3>1. active' = NoBatch => Listed' = Stored
      BY <2>2 DEF Listed
    <3>2. active' = active => Listed' = Listed
      BY <2>2 DEF Listed
    <3> QED
      BY <2>1, <3>1, <3>2
  <2>5. RefInv'
    BY <1>1, <2>1, <2>2 DEF RefInv, Busy
  <2>6. SeenMode' = "open" /\ SeenStored' = SeenStored /\ SeenView' \in {SeenView, SeenStored}
    BY <1>2, <2>1, <2>2, <2>4 DEF SeenMode, SeenStored, SeenView
  <2>7. SeenSurvivors' = {SeenStored'}
    BY <1>1, <1>2, <2>1, <2>3, <2>6 DEF SeenSurvivors
  <2> QED
    BY <1>2, <2>5, <2>6, <2>7, StoreReturns
<1> QED
  BY <1>3, <1>4, <1>5

LEMMA RefNext ==
    ASSUME ~CleanupFaults
    PROVE  RefInv /\ [Next]_vars => RefInv' /\ [Store!Next]_(Store!vars)
<1> SUFFICES ASSUME RefInv, [Next]_vars
             PROVE  RefInv' /\ StoreStep
  BY DEF StoreStep
<1>1. CASE UNCHANGED vars
  <2>1. ExactInv'
    BY <1>1, ExactNext DEF RefInv
  <2>2. /\ file' = file /\ images' = images /\ pc' = pc /\ log' = log
        /\ entries' = entries /\ active' = active
    BY <1>1 DEF vars
  <2>3. Base' = Base /\ Stored' = Stored /\ Listed' = Listed
        /\ Recovered(file)' = Recovered(file)
    BY <2>2 DEF Base, Stored, Listed, Recovered, Entries, LastChange
  <2>4. RefInv'
    BY <2>1, <2>2, <2>3 DEF RefInv, Busy
  <2>5. /\ SeenMode' = SeenMode /\ SeenStored' = SeenStored /\ SeenView' = SeenView
        /\ SeenSurvivors' = SeenSurvivors
    BY <2>2, <2>3 DEF SeenMode, SeenStored, SeenView, SeenSurvivors
  <2> QED
    BY <2>4, <2>5, StoreStays
<1>2. CASE Next
  BY <1>2, RefOpening, RefStopping, RefStaging, RefAppending, RefFailing DEF Next
<1> QED
  BY <1>1, <1>2

\* Batches are atomic and durable, and their owner sees its own changes: when
\* the clean-up of a failed commit works, every step of the log is one step of
\* the abstract store, or nothing, for any number of addresses, any length of
\* log, records in any order and a crash at any cell of any write, the file
\* header's included (write, delete, commit_batch, rollback_batch, parse_log).
THEOREM LogIsATransactionalStore ==
    ASSUME ~CleanupFaults
    PROVE  Spec => ImplementsTransactionalStore
<1>1. Init => RefInv /\ Store!Init
  BY StoreInit
<1>2. RefInv /\ [Next]_vars => RefInv' /\ [Store!Next]_(Store!vars)
  BY RefNext
<1> QED
  BY <1>1, <1>2, PTL DEF Spec, ImplementsTransactionalStore, Store!Spec
====
