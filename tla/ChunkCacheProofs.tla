-------------------------- MODULE ChunkCacheProofs --------------------------
(***************************************************************************)
(* Proofs about VirtualDisk, for every disk, view, chunk size and cache    *)
(* size: every native backend of DiskReader delivers the bytes of the      *)
(* disk, so does every read through the cache, and the cache keeps the     *)
(* chunks used last.                                                       *)
(***************************************************************************)
EXTENDS ChunkCache, SequenceTheorems, WellFoundedInduction, TLAPS

Byte == Nat \X Nat

-----------------------------------------------------------------------------
(* Sequences, entry by entry. *)

\* The entry moved to the front pushes the ones before it back by one.
LEMMA ToFrontIs ==
  ASSUME NEW S, NEW s \in Seq(S), NEW p \in 1 .. Len(s)
  PROVE  ToFront(s, p) =
           [q \in 1 .. Len(s) |-> IF q = 1 THEN s[p] ELSE IF q <= p THEN s[q - 1] ELSE s[q]]
<1> DEFINE n == Len(s)
           a == SubSeq(s, 1, p - 1)
           b == SubSeq(s, p + 1, n)
<1>1. n \in Nat /\ p \in 1 .. n /\ s[p] \in S
  OBVIOUS
<1>2. a \in Seq(S) /\ Len(a) = p - 1 /\ \A i \in 1 .. p - 1 : a[i] = s[i]
  BY <1>1
<1>3. b \in Seq(S) /\ Len(b) = n - p /\ \A i \in 1 .. n - p : b[i] = s[p + i]
  BY <1>1
<1> HIDE DEF a, b, n
<1>4. /\ a \o b \in Seq(S) /\ Len(a \o b) = n - 1
      /\ \A i \in 1 .. n - 1 : (a \o b)[i] = IF i < p THEN s[i] ELSE s[i + 1]
  <2>1. /\ a \o b \in Seq(S) /\ Len(a \o b) = Len(a) + Len(b)
        /\ \A i \in 1 .. Len(a) + Len(b) :
             (a \o b)[i] = IF i <= Len(a) THEN a[i] ELSE b[i - Len(a)]
    BY <1>2, <1>3, ConcatProperties
  <2>2. Len(a) + Len(b) = n - 1
    BY <1>1, <1>2, <1>3
  <2>3. ASSUME NEW i \in 1 .. n - 1 PROVE (a \o b)[i] = IF i < p THEN s[i] ELSE s[i + 1]
    <3>1. CASE i < p
      <4>1. i \in 1 .. p - 1 /\ i <= Len(a)
        BY <1>1, <1>2, <3>1
      <4> QED BY <1>2, <2>1, <2>2, <3>1, <4>1
    <3>2. CASE ~(i < p)
      <4>1. i - (p - 1) \in 1 .. n - p /\ p + (i - (p - 1)) = i + 1
        BY <1>1, <3>2
      <4>2. (a \o b)[i] = b[i - (p - 1)]
        <5>1. ~(i <= Len(a))
          BY <1>1, <1>2, <3>2
        <5> QED BY <1>2, <2>1, <2>2, <5>1
      <4>3. b[i - (p - 1)] = s[p + (i - (p - 1))]
        BY <1>3, <4>1
      <4> QED BY <3>2, <4>1, <4>2, <4>3
    <3> QED BY <3>1, <3>2
  <2> QED BY <2>1, <2>2, <2>3
<1>5. /\ <<s[p]>> \o (a \o b) \in Seq(S) /\ Len(<<s[p]>> \o (a \o b)) = n
      /\ \A q \in 1 .. n : (<<s[p]>> \o (a \o b))[q] = IF q = 1 THEN s[p] ELSE (a \o b)[q - 1]
  <2> DEFINE c == a \o b
  <2>1. c \in Seq(S) /\ Len(c) = n - 1 /\ <<s[p]>> \in Seq(S) /\ Len(<<s[p]>>) = 1
        /\ <<s[p]>>[1] = s[p]
    BY <1>1, <1>4
  <2> HIDE DEF c
  <2>2. /\ <<s[p]>> \o c \in Seq(S) /\ Len(<<s[p]>> \o c) = 1 + (n - 1)
        /\ \A q \in 1 .. 1 + (n - 1) :
             (<<s[p]>> \o c)[q] = IF q <= 1 THEN <<s[p]>>[q] ELSE c[q - 1]
    BY <2>1, ConcatProperties
  <2>3. 1 + (n - 1) = n
    BY <1>1
  <2>4. \A q \in 1 .. n : q <= 1 <=> q = 1
    BY <1>1
  <2> QED BY <2>1, <2>2, <2>3, <2>4 DEF c
<1>6. \A q \in 1 .. n : (<<s[p]>> \o (a \o b))[q] =
                          IF q = 1 THEN s[p] ELSE IF q <= p THEN s[q - 1] ELSE s[q]
  <2> TAKE q \in 1 .. n
  <2>1. CASE q = 1
    BY <1>5, <2>1
  <2>2. CASE q # 1
    <3>1. q - 1 \in 1 .. n - 1 /\ (q - 1) + 1 = q /\ (q - 1 < p <=> q <= p)
      BY <1>1, <2>2
    <3>2. (a \o b)[q - 1] = IF q - 1 < p THEN s[q - 1] ELSE s[(q - 1) + 1]
      BY <1>4, <3>1
    <3> QED BY <1>5, <2>2, <3>1, <3>2
  <2> QED BY <2>1, <2>2
<1>7. ToFront(s, p) = <<s[p]>> \o (a \o b)
  BY DEF ToFront, a, b, n
<1>8. ToFront(s, p) \in Seq(S) /\ Len(ToFront(s, p)) = n
  BY <1>5, <1>7
<1>9. \A q \in 1 .. n : ToFront(s, p)[q] =
                          IF q = 1 THEN s[p] ELSE IF q <= p THEN s[q - 1] ELSE s[q]
  BY <1>6, <1>7
<1>10. ToFront(s, p) = [q \in 1 .. n |-> ToFront(s, p)[q]]
  BY <1>8
<1> QED BY <1>9, <1>10 DEF n

\* A new first entry pushes every other one back by one.
LEMMA PushFront ==
  ASSUME NEW S, NEW s \in Seq(S), NEW x \in S
  PROVE  <<x>> \o s = [q \in 1 .. Len(s) + 1 |-> IF q = 1 THEN x ELSE s[q - 1]]
<1>1. /\ Len(s) \in Nat /\ <<x>> \o s \in Seq(S) /\ Len(<<x>> \o s) = Len(s) + 1
      /\ \A q \in 1 .. Len(s) + 1 : (<<x>> \o s)[q] = IF q = 1 THEN x ELSE s[q - 1]
  OBVIOUS
<1> QED BY <1>1

-----------------------------------------------------------------------------
(* Induction, as far as the provers take it: the least counterexample. *)

\* A set of natural numbers that is not empty has a least member: the induction
\* that the recursive functions below need.
LEMMA Least ==
  ASSUME NEW T, T \subseteq Nat, T # {}
  PROVE  \E n \in T : \A m \in T : n <= m
<1> DEFINE R == OpToRel(<, Nat)
<1>1. IsWellFoundedOn(R, Nat)
  BY NatLessThanWellFounded
<1>2. \A x, y \in Nat : <<y, x>> \in R <=> y < x
  BY DEF OpToRel
<1> HIDE DEF R
<1>3. PICK x \in T : \A y \in T : ~(<<y, x>> \in R)
  BY <1>1, WFMin
<1>4. ASSUME NEW y \in T PROVE x <= y
  <2>1. x \in Nat /\ y \in Nat /\ ~(<<y, x>> \in R)
    BY <1>3
  <2>2. ~(y < x)
    BY <1>2, <2>1
  <2> QED BY <2>1, <2>2
<1> QED BY <1>4

\* Two functions that agree at the end of a loop, and before each step of it if
\* after it, agree at its start: what a recursive function is, it is alone.
LEMMA SameAtStart ==
  ASSUME NEW total \in Nat, NEW f, NEW h, f[total] = h[total],
         \A done \in 0 .. total : done # total =>
           \E then \in 0 .. total : then > done /\ (f[then] = h[then] => f[done] = h[done])
  PROVE  f[0] = h[0]
<1> DEFINE T == {k \in 0 .. total : f[total - k] # h[total - k]}
<1>1. T = {}
  <2> SUFFICES ASSUME T # {} PROVE FALSE
    OBVIOUS
  <2>1. PICK k \in T : \A m \in T : k <= m
    <3>1. T \subseteq Nat
      OBVIOUS
    <3> HIDE DEF T
    <3> QED BY <3>1, Least
  <2> DEFINE done == total - k
  <2>2. k \in 0 .. total /\ done \in 0 .. total /\ f[done] # h[done] /\ done # total
    OBVIOUS
  <2>3. PICK then \in 0 .. total : then > done /\ (f[then] = h[then] => f[done] = h[done])
    <3> HIDE DEF done
    <3> QED BY <2>2
  <2>4. total - then \in 0 .. total /\ total - (total - then) = then /\ ~(k <= total - then)
    BY <2>2, <2>3
  <2>5. total - then \notin T
    <3> HIDE DEF T
    <3> QED BY <2>1, <2>4
  <2>6. f[then] = h[then]
    BY <2>4, <2>5
  <2> QED BY <2>2, <2>3, <2>6
<1>2. total \in 0 .. total /\ total - total = 0
  OBVIOUS
<1> QED BY <1>1, <1>2

\* A function on 1 .. n is a sequence of n entries.
LEMMA FunctionIsSeq ==
  ASSUME NEW S, NEW n \in Nat, NEW f \in [1 .. n -> S]
  PROVE  f \in Seq(S) /\ Len(f) = n
OBVIOUS

\* Two pieces joined are a whole if each is equal to its part of it.
LEMMA JoinedBytes ==
  ASSUME NEW a \in Seq(Byte), NEW b \in Seq(Byte), NEW c \in Seq(Byte),
         Len(c) = Len(a) + Len(b),
         \A i \in 1 .. Len(a) : a[i] = c[i],
         \A i \in 1 .. Len(b) : b[i] = c[Len(a) + i]
  PROVE  a \o b = c
<1> DEFINE d == a \o b
<1>1. /\ d \in Seq(Byte) /\ Len(d) = Len(a) + Len(b)
      /\ \A i \in 1 .. Len(a) + Len(b) : d[i] = IF i <= Len(a) THEN a[i] ELSE b[i - Len(a)]
  BY ConcatProperties
<1> HIDE DEF d
<1>2. Len(a) \in Nat /\ Len(b) \in Nat
  OBVIOUS
<1>3. ASSUME NEW i \in 1 .. Len(c) PROVE d[i] = c[i]
  <2>1. CASE i <= Len(a)
    <3>1. i \in 1 .. Len(a) /\ i \in 1 .. Len(a) + Len(b)
      BY <1>2, <2>1
    <3> QED BY <1>1, <2>1, <3>1
  <2>2. CASE ~(i <= Len(a))
    <3>1. i - Len(a) \in 1 .. Len(b) /\ Len(a) + (i - Len(a)) = i /\ i \in 1 .. Len(a) + Len(b)
      BY <1>2, <2>2
    <3> QED BY <1>1, <2>2, <3>1
  <2> QED BY <2>1, <2>2
<1>4. d = c
  BY <1>1, <1>3
<1> QED BY <1>4 DEF d

-----------------------------------------------------------------------------
(* SparseExtent::read_at. *)

\* A position some bytes further in the same grain.
LEMMA SameGrain ==
  ASSUME NEW p \in Nat, NEW g \in Nat \ {0}, NEW j \in Nat, (p % g) + j < g
  PROVE  (p + j) \div g = p \div g /\ (p + j) % g = (p % g) + j
<1> DEFINE q == p \div g
           r == p % g
           a == (p + j) \div g
           b == (p + j) % g
<1>1. \A m \in Nat, n \in Nat \ {0} :
        m \div n \in Nat /\ m % n \in 0 .. n - 1 /\ m = (m \div n) * n + (m % n)
  OBVIOUS
<1>2. q \in Nat /\ r \in 0 .. g - 1 /\ p = q * g + r
  BY <1>1
<1>3. p + j \in Nat
  OBVIOUS
<1>4. a \in Nat /\ b \in 0 .. g - 1 /\ p + j = a * g + b
  BY <1>1, <1>3
<1>5. r + j \in Nat /\ r + j < g
  BY <1>2
<1> HIDE DEF q, r, a, b
<1>6. \A m, n \in Nat : m < n => m * g + g <= n * g
  <2> TAKE m, n \in Nat
  <2>1. m < n => n - m \in Nat /\ n - m >= 1
    OBVIOUS
  <2>2. \A k \in Nat : k >= 1 => k * g >= g
    OBVIOUS
  <2>3. (n - m) * g = n * g - m * g
    OBVIOUS
  <2>4. m * g \in Nat /\ n * g \in Nat
    OBVIOUS
  <2> QED BY <2>1, <2>2, <2>3, <2>4
<1>7. a * g + b = q * g + (r + j) /\ a * g \in Nat /\ q * g \in Nat
  <2>1. a * g \in Nat /\ q * g \in Nat
    BY <1>2, <1>4
  <2> QED BY <1>2, <1>4, <1>5, <2>1
<1>8. ~(a < q) /\ ~(q < a)
  <2>1. ~(a < q)
    <3>1. a < q => a * g + g <= q * g
      BY <1>2, <1>4, <1>6
    <3> DEFINE y == a * g
               z == q * g
    <3>2. y \in Nat /\ z \in Nat /\ y + b = z + (r + j) /\ (a < q => y + g <= z)
      BY <1>7, <3>1
    <3> HIDE DEF y, z
    <3> QED BY <1>4, <1>5, <3>2
  <2>2. ~(q < a)
    <3>1. q < a => q * g + g <= a * g
      BY <1>2, <1>4, <1>6
    <3> DEFINE y == a * g
               z == q * g
    <3>2. y \in Nat /\ z \in Nat /\ y + b = z + (r + j) /\ (q < a => z + g <= y)
      BY <1>7, <3>1
    <3> HIDE DEF y, z
    <3> QED BY <1>4, <1>5, <3>2
  <2> QED BY <2>1, <2>2
<1>9. a = q
  BY <1>2, <1>4, <1>8
<1>10. b = r + j
  <2> DEFINE y == q * g
  <2>1. y \in Nat /\ y + b = y + (r + j)
    BY <1>7, <1>9
  <2> HIDE DEF y
  <2> QED BY <1>4, <1>5, <2>1
<1> QED BY <1>9, <1>10 DEF q, r, a, b

\* A grain lies at a sector of the file, or nowhere (0 or 1).
LEMMA GrainSectorIs ==
  ASSUME NEW x, GoodSparse(x), NEW g \in Nat
  PROVE  GrainSector(x, g) \in Nat
<1>1. \A m \in Nat, n \in Nat \ {0} : m \div n \in Nat /\ m % n \in Nat
  OBVIOUS
<1>2. x.gtes \in Nat \ {0} /\ x.directory \in Seq(Nat)
  BY DEF GoodSparse
<1> DEFINE t == Table(x, g \div x.gtes)
           i == (g % x.gtes) + 1
<1>3. t \in Seq(Nat)
  BY <1>1, <1>2 DEF Table, GoodSparse
<1>4. GrainSector(x, g) = IF i \in DOMAIN t THEN t[i] ELSE 0
  BY DEF GrainSector
<1> HIDE DEF t, i
<1> QED BY <1>3, <1>4

\* What the reference says of a sparse extent is a byte.
LEMMA SparseByteIs ==
  ASSUME NEW x, GoodSparse(x), NEW at \in Nat
  PROVE  SparseByte(x, at) \in Byte
<1> DEFINE G == x.grain * SectorSize
           sector == GrainSector(x, at \div G)
           where == sector * SectorSize + (at % G)
<1>1. G \in Nat \ {0} /\ SectorSize \in Nat
  <2>1. \A m, n \in Nat \ {0} : m * n \in Nat \ {0}
    OBVIOUS
  <2> QED BY <2>1, SectorAssumption DEF GoodSparse
<1>2. at \div G \in Nat /\ at % G \in Nat
  <2>1. \A m \in Nat, n \in Nat \ {0} : m \div n \in Nat /\ m % n \in Nat
    OBVIOUS
  <2> QED BY <1>1, <2>1
<1>3. sector \in Nat
  BY <1>2, GrainSectorIs
<1>4. where \in Nat
  <2>1. \A m, n, k \in Nat : m * n + k \in Nat
    OBVIOUS
  <2> HIDE DEF sector, G
  <2> QED BY <1>1, <1>2, <1>3, <2>1
<1>5. SparseByte(x, at) = IF at < x.capacity * SectorSize /\ sector > 1
                          THEN FileByte(x.file, where) ELSE Zero
  BY DEF SparseByte
<1>6. x.file.id \in Nat /\ x.file.size \in Nat
  BY DEF GoodSparse, GoodFile
<1>7. FileByte(x.file, where) \in Byte
  <2> HIDE DEF where
  <2> QED BY <1>4, <1>6 DEF FileByte, Byte, Zero
<1> HIDE DEF sector, where
<1> QED BY <1>5, <1>7 DEF Byte, Zero

\* The bytes of a sparse extent from p on.
SparseBytes(x, p, n) == [i \in 1 .. n |-> SparseByte(x, p + i - 1)]

\* They are as many as asked for.
LEMMA SparseBytesAre ==
  ASSUME NEW x, GoodSparse(x), NEW p \in Nat, NEW n \in Nat
  PROVE  /\ SparseBytes(x, p, n) \in Seq(Byte) /\ Len(SparseBytes(x, p, n)) = n
         /\ \A i \in 1 .. n : SparseBytes(x, p, n)[i] = SparseByte(x, p + i - 1)
<1>1. \A i \in 1 .. n : p + i - 1 \in Nat
  OBVIOUS
<1>2. \A i \in 1 .. n : SparseByte(x, p + i - 1) \in Byte
  BY <1>1, SparseByteIs
<1> QED BY <1>2 DEF SparseBytes

\* What one pass of the loop of read_at copies lies in one grain.
LEMMA GrainBytes ==
  ASSUME NEW x, GoodSparse(x), NEW p \in Nat, NEW n \in Nat,
         p + n <= x.capacity * SectorSize,
         (p % (x.grain * SectorSize)) + n <= x.grain * SectorSize
  PROVE  LET sector == GrainSector(x, p \div (x.grain * SectorSize))
             within == p % (x.grain * SectorSize)
         IN  (IF sector > 1 THEN ReadOrZeros(x.file, sector * SectorSize + within, n)
                            ELSE Zeroes(n)) = SparseBytes(x, p, n)
<1> DEFINE G == x.grain * SectorSize
           C == x.capacity * SectorSize
           sector == GrainSector(x, p \div G)
           within == p % G
           y == sector * SectorSize
<1>1. G \in Nat \ {0} /\ SectorSize \in Nat /\ C \in Nat
  <2>1. \A m, n_1 \in Nat \ {0} : m * n_1 \in Nat \ {0}
    OBVIOUS
  <2>2. \A m, n_1 \in Nat : m * n_1 \in Nat
    OBVIOUS
  <2> QED BY <2>1, <2>2, SectorAssumption DEF GoodSparse
<1>2. p \div G \in Nat /\ within \in Nat
  <2>1. \A m \in Nat, n_1 \in Nat \ {0} : m \div n_1 \in Nat /\ m % n_1 \in Nat
    OBVIOUS
  <2> QED BY <1>1, <2>1
<1>3. sector \in Nat /\ y \in Nat
  <2>1. sector \in Nat
    BY <1>2, GrainSectorIs
  <2>2. \A m, n_1 \in Nat : m * n_1 \in Nat
    OBVIOUS
  <2> HIDE DEF sector
  <2> QED BY <1>1, <2>1, <2>2
<1>4. ASSUME NEW i \in 1 .. n
      PROVE  SparseByte(x, p + i - 1) =
               IF sector > 1 THEN (IF y + within + i - 1 < x.file.size
                                   THEN <<x.file.id, y + within + i - 1>> ELSE Zero)
                             ELSE Zero
  <2> DEFINE j == i - 1
  <2>1. j \in Nat /\ p + i - 1 = p + j /\ within + j < G /\ p + j < C
    <3> HIDE DEF G, C, within
    <3>1. p + n <= C /\ within + n <= G
      BY DEF G, C, within
    <3> QED BY <1>1, <1>2, <3>1
  <2>2. (p + j) \div G = p \div G /\ (p + j) % G = within + j
    <3>1. j \in Nat /\ (p % G) + j < G
      BY <2>1
    <3> HIDE DEF j
    <3> QED BY <1>1, <3>1, SameGrain
  <2>3. SparseByte(x, p + j) = IF p + j < C /\ sector > 1 THEN FileByte(x.file, y + (within + j)) ELSE Zero
    BY <2>2 DEF SparseByte
  <2>4. y + (within + j) = y + within + i - 1
    <3> HIDE DEF y, within
    <3> QED BY <1>2, <1>3, <2>1
  <2> HIDE DEF j, y, within, sector, C, G
  <2> QED BY <2>1, <2>3, <2>4 DEF FileByte
<1>5. SparseBytes(x, p, n) = [i \in 1 .. n |-> SparseByte(x, p + i - 1)]
  BY DEF SparseBytes
<1>6. CASE sector > 1
  <2>1. ReadOrZeros(x.file, y + within, n) =
          [i \in 1 .. n |-> IF y + within + i - 1 < x.file.size
                            THEN <<x.file.id, y + within + i - 1>> ELSE Zero]
    BY DEF ReadOrZeros
  <2> HIDE DEF y, within, sector
  <2>2. ReadOrZeros(x.file, y + within, n) = SparseBytes(x, p, n)
    BY <1>4, <1>5, <1>6, <2>1
  <2> QED BY <1>6, <2>2 DEF y, within, sector
<1>7. CASE ~(sector > 1)
  <2>1. Zeroes(n) = [i \in 1 .. n |-> Zero]
    BY DEF Zeroes
  <2> HIDE DEF y, within, sector
  <2>2. Zeroes(n) = SparseBytes(x, p, n)
    BY <1>4, <1>5, <1>7, <2>1
  <2> QED BY <1>7, <2>2 DEF y, within, sector
<1> QED BY <1>6, <1>7

\* SparseExtent::read_at delivers the bytes of the extent, up to its capacity.
LEMMA ReadAtIs ==
  ASSUME NEW x, GoodSparse(x), NEW offset \in Nat, NEW len \in Nat
  PROVE  ReadAt(x, offset, len) =
           SparseBytes(x, offset,
             IF offset >= x.capacity * SectorSize THEN 0
             ELSE Lesser(len, x.capacity * SectorSize - offset))
<1> DEFINE G == x.grain * SectorSize
           C == x.capacity * SectorSize
           total == Lesser(len, C - offset)
           Body(f, done) ==
             IF done = total THEN <<>>
             ELSE LET pos    == offset + done
                      within == pos % G
                      n      == Lesser(G - within, total - done)
                      sector == GrainSector(x, pos \div G)
                  IN (IF sector > 1
                      THEN ReadOrZeros(x.file, sector * SectorSize + within, n)
                      ELSE Zeroes(n)) \o f[done + n]
           Solves(f) == f = [done \in 0 .. total |-> Body(f, done)]
<1>1. G \in Nat \ {0} /\ C \in Nat
  <2>1. \A m, n \in Nat \ {0} : m * n \in Nat \ {0}
    OBVIOUS
  <2>2. \A m, n \in Nat : m * n \in Nat
    OBVIOUS
  <2> QED BY <2>1, <2>2, SectorAssumption DEF GoodSparse
<1>2. CASE offset >= C
  <2>1. ReadAt(x, offset, len) = <<>>
    BY <1>2 DEF ReadAt
  <2>2. SparseBytes(x, offset, 0) = <<>>
    <3>1. SparseBytes(x, offset, 0) \in Seq(Byte) /\ Len(SparseBytes(x, offset, 0)) = 0
      BY SparseBytesAre
    <3> QED BY <3>1
  <2> QED BY <1>2, <2>1, <2>2
<1>3. CASE ~(offset >= C)
  <2>1. ReadAt(x, offset, len) = (CHOOSE f : Solves(f))[0]
    BY <1>3 DEF ReadAt
  <2>2. total \in Nat /\ offset + total <= C
    <3> HIDE DEF C
    <3> QED BY <1>1, <1>3 DEF Lesser
  <2> DEFINE h == [done \in 0 .. total |-> SparseBytes(x, offset + done, total - done)]
  <2> HIDE DEF total
  <2>3. \A done \in 0 .. total : h[done] = SparseBytes(x, offset + done, total - done)
    OBVIOUS
  <2> HIDE DEF h
  <2>4. ASSUME NEW done \in 0 .. total, done # total
        PROVE  LET within == (offset + done) % G
                   n      == Lesser(G - within, total - done)
               IN /\ n \in Nat /\ n >= 1 /\ done + n \in 0 .. total
                  /\ \A f : f[done + n] = h[done + n] => Body(f, done) = h[done]
    <3> DEFINE pos == offset + done
               within == pos % G
               n == Lesser(G - within, total - done)
               sector == GrainSector(x, pos \div G)
               piece == IF sector > 1 THEN ReadOrZeros(x.file, sector * SectorSize + within, n)
                                      ELSE Zeroes(n)
    <3>1. within \in 0 .. G - 1
      <4>1. \A m \in Nat, k \in Nat \ {0} : m % k \in 0 .. k - 1
        OBVIOUS
      <4>2. pos \in Nat
        BY <2>2
      <4> QED BY <1>1, <4>1, <4>2
    <3>2. /\ n \in Nat /\ n >= 1 /\ done + n \in 0 .. total /\ within + n <= G
          /\ pos + n <= C /\ pos \in Nat /\ total - done \in Nat /\ total - (done + n) \in Nat
      <4> HIDE DEF within, G, C
      <4> QED BY <1>1, <2>2, <2>4, <3>1 DEF Lesser
    <3>3. piece = SparseBytes(x, pos, n)
      <4> HIDE DEF n, pos
      <4> QED BY <3>2, GrainBytes
    <3>4. ASSUME NEW f, f[done + n] = h[done + n] PROVE Body(f, done) = h[done]
      <4>1. Body(f, done) = piece \o f[done + n]
        BY <2>4
      <4> DEFINE a == SparseBytes(x, pos, n)
                 b == SparseBytes(x, offset + (done + n), total - (done + n))
                 c == SparseBytes(x, pos, total - done)
      <4>2. f[done + n] = b /\ h[done] = c
        <5> HIDE DEF n
        <5> QED BY <2>3, <3>2, <3>4
      <4> HIDE DEF n, within, sector
      <4>3. /\ a \in Seq(Byte) /\ Len(a) = n
            /\ \A i \in 1 .. n : a[i] = SparseByte(x, pos + i - 1)
        <5> HIDE DEF pos
        <5> QED BY <3>2, SparseBytesAre
      <4>4. /\ c \in Seq(Byte) /\ Len(c) = total - done
            /\ \A i \in 1 .. total - done : c[i] = SparseByte(x, pos + i - 1)
        <5> HIDE DEF pos
        <5> QED BY <3>2, SparseBytesAre
      <4>5. /\ b \in Seq(Byte) /\ Len(b) = total - (done + n)
            /\ \A i \in 1 .. total - (done + n) : b[i] = SparseByte(x, offset + (done + n) + i - 1)
        <5>1. offset + (done + n) \in Nat
          BY <3>2
        <5> QED BY <3>2, <5>1, SparseBytesAre
      <4> HIDE DEF a, b, c
      <4>6. Len(c) = Len(a) + Len(b)
        <5>1. Len(a) = n /\ Len(b) = total - (done + n) /\ Len(c) = total - done
          BY <4>3, <4>4, <4>5
        <5>2. total - done = n + (total - (done + n))
          BY <2>2, <3>2
        <5> QED BY <5>1, <5>2
      <4>7. \A i \in 1 .. Len(a) : a[i] = c[i]
        <5>1. \A i \in 1 .. n : i \in 1 .. total - done
          BY <2>2, <3>2
        <5> QED BY <4>3, <4>4, <5>1
      <4>8. ASSUME NEW i \in 1 .. Len(b) PROVE b[i] = c[Len(a) + i]
        <5>1. /\ i \in 1 .. total - (done + n) /\ n + i \in 1 .. total - done
              /\ offset + (done + n) + i - 1 = pos + (n + i) - 1
          BY <2>2, <3>2, <4>5
        <5> QED BY <4>3, <4>4, <4>5, <5>1
      <4>9. a \o b = c
        BY <4>3, <4>4, <4>5, <4>6, <4>7, <4>8, JoinedBytes
      <4> QED BY <3>3, <4>1, <4>2, <4>9 DEF a
    <3> HIDE DEF Body
    <3> QED BY <3>2, <3>4
  <2>5. \A f : Body(f, total) = h[total]
    <3>1. h[total] = SparseBytes(x, offset + total, total - total)
      BY <2>2, <2>3
    <3>2. total - total = 0 /\ offset + total \in Nat
      BY <2>2
    <3>3. SparseBytes(x, offset + total, 0) \in Seq(Byte) /\ Len(SparseBytes(x, offset + total, 0)) = 0
      BY <3>2, SparseBytesAre
    <3>4. h[total] = <<>>
      BY <3>1, <3>2, <3>3
    <3> QED BY <3>4
  <2> DEFINE Following(done) == done + Lesser(G - ((offset + done) % G), total - done)
  <2>6. \A done \in 0 .. total : done # total =>
          /\ Following(done) \in 0 .. total /\ Following(done) > done
          /\ \A f : f[Following(done)] = h[Following(done)] => Body(f, done) = h[done]
    <3> TAKE done \in 0 .. total
    <3> HAVE done # total
    <3> DEFINE n == Lesser(G - ((offset + done) % G), total - done)
    <3>1. /\ n \in Nat /\ n >= 1 /\ done + n \in 0 .. total
          /\ \A f : f[done + n] = h[done + n] => Body(f, done) = h[done]
      <4> HIDE DEF Body
      <4> QED BY <2>4
    <3> HIDE DEF n, Body
    <3>2. done + n > done
      BY <2>2, <3>1
    <3> QED BY <3>1, <3>2 DEF n
  <2> HIDE DEF Body, Following
  <2>7. Solves(h)
    <3>1. \A done \in 0 .. total : h[done] = Body(h, done)
      BY <2>5, <2>6
    <3>2. h = [done \in 0 .. total |-> h[done]]
      BY DEF h
    <3> QED BY <3>1, <3>2
  <2>8. ASSUME NEW f, Solves(f) PROVE f[0] = h[0]
    <3>1. \A done \in 0 .. total : f[done] = Body(f, done)
      BY <2>8
    <3>2. total \in 0 .. total
      BY <2>2
    <3>3. f[total] = h[total]
      BY <2>5, <3>1, <3>2
    <3>4. \A done \in 0 .. total : done # total =>
            \E then \in 0 .. total : then > done /\ (f[then] = h[then] => f[done] = h[done])
      BY <2>6, <3>1
    <3> QED BY <2>2, <3>3, <3>4, SameAtStart
  <2> HIDE DEF Solves
  <2>9. Solves(CHOOSE f : Solves(f))
    BY <2>7
  <2>10. ReadAt(x, offset, len) = h[0]
    BY <2>1, <2>8, <2>9
  <2>11. h[0] = SparseBytes(x, offset, total)
    <3>1. 0 \in 0 .. total /\ offset + 0 = offset /\ total - 0 = total
      BY <2>2
    <3>2. h[0] = SparseBytes(x, offset + 0, total - 0)
      BY <2>3, <3>1
    <3> QED BY <3>1, <3>2
  <2> QED BY <1>3, <2>10, <2>11 DEF total
<1> QED BY <1>2, <1>3

-----------------------------------------------------------------------------
(* read_from_extents. *)

\* Each extent starts where the one before it ends.
LEMMA StartIs ==
  ASSUME NEW ext, NEW N \in Nat, \A k \in 1 .. N : Length(ext[k]) \in Nat
  PROVE  /\ Start(ext, 1) = 0
         /\ \A k \in 1 .. N + 1 : Start(ext, k) \in Nat
         /\ \A k \in 1 .. N : Start(ext, k + 1) = Start(ext, k) + Length(ext[k])
<1> DEFINE L(k) == Length(ext[k])
           Sol(f, k) == f = [i \in 1 .. k |-> IF i = 1 THEN 0 ELSE f[i - 1] + L(i - 1)]
           F(k) == CHOOSE f : Sol(f, k)
<1>1. \A k : Start(ext, k) = F(k)[k]
  BY DEF Start
<1>2. \A k \in 1 .. N : L(k) \in Nat
  OBVIOUS
<1> HIDE DEF L
<1>3. \A f, k : Sol(f, k) => \A i \in 1 .. k : f[i] = IF i = 1 THEN 0 ELSE f[i - 1] + L(i - 1)
  OBVIOUS
<1>4. \A k \in 1 .. N + 1 : \E f : Sol(f, k) /\ \A i \in 1 .. k : f[i] \in Nat
  <2> DEFINE T == {k \in 1 .. N + 1 : ~(\E f : Sol(f, k) /\ \A i \in 1 .. k : f[i] \in Nat)}
  <2> SUFFICES ASSUME T # {} PROVE FALSE
    OBVIOUS
  <2>1. PICK k \in T : \A m \in T : k <= m
    <3>1. T \subseteq Nat
      OBVIOUS
    <3> HIDE DEF T
    <3> QED BY <3>1, Least
  <2>2. k \in 1 .. N + 1 /\ ~(\E f : Sol(f, k) /\ \A i \in 1 .. k : f[i] \in Nat)
    OBVIOUS
  <2>3. CASE k = 1
    <3> DEFINE f == [i \in 1 .. 1 |-> 0]
    <3>1. \A i \in 1 .. 1 : i = 1 /\ f[i] = 0
      OBVIOUS
    <3>2. Sol(f, 1)
      BY <3>1
    <3>3. \A i \in 1 .. 1 : f[i] \in Nat
      BY <3>1
    <3> HIDE DEF f, Sol
    <3> QED BY <2>2, <2>3, <3>2, <3>3
  <2>4. CASE k # 1
    <3>1. k - 1 \in 1 .. N + 1 /\ ~(k <= k - 1)
      BY <2>2, <2>4
    <3>2. k - 1 \notin T
      <4> HIDE DEF T
      <4> QED BY <2>1, <3>1
    <3>3. PICK g : Sol(g, k - 1) /\ \A i \in 1 .. k - 1 : g[i] \in Nat
      BY <3>1, <3>2
    <3>4. \A i \in 1 .. k - 1 : g[i] = IF i = 1 THEN 0 ELSE g[i - 1] + L(i - 1)
      BY <1>3, <3>3
    <3> DEFINE f == [i \in 1 .. k |-> IF i = 1 THEN 0 ELSE g[i - 1] + L(i - 1)]
    <3>5. \A i \in 1 .. k : f[i] = IF i = 1 THEN 0 ELSE g[i - 1] + L(i - 1)
      OBVIOUS
    <3>6. \A i \in 1 .. k - 1 : i \in 1 .. k
      BY <2>2
    <3>7. \A i \in 1 .. k - 1 : f[i] = g[i]
      <4> HIDE DEF f
      <4> QED BY <3>4, <3>5, <3>6
    <3>8. \A i \in 1 .. k : i # 1 => i - 1 \in 1 .. k - 1 /\ i - 1 \in 1 .. N
      BY <2>2
    <3>9. \A i \in 1 .. k : f[i] \in Nat
      <4> HIDE DEF f
      <4>1. \A m, n \in Nat : m + n \in Nat
        OBVIOUS
      <4> TAKE i \in 1 .. k
      <4>2. CASE i = 1
        BY <3>5, <4>2
      <4>3. CASE i # 1
        <5>1. g[i - 1] \in Nat /\ L(i - 1) \in Nat
          BY <1>2, <3>3, <3>8, <4>3
        <5>2. f[i] = g[i - 1] + L(i - 1)
          BY <3>5, <4>3
        <5> QED BY <4>1, <5>1, <5>2
      <4> QED BY <4>2, <4>3
    <3>10. Sol(f, k)
      <4>1. f = [i \in 1 .. k |-> f[i]]
        OBVIOUS
      <4> HIDE DEF f
      <4>2. \A i \in 1 .. k : f[i] = IF i = 1 THEN 0 ELSE f[i - 1] + L(i - 1)
        BY <3>5, <3>7, <3>8
      <4> QED BY <4>1, <4>2
    <3> HIDE DEF f, Sol
    <3> QED BY <2>2, <3>9, <3>10
  <2> QED BY <2>3, <2>4
<1> HIDE DEF Sol
<1>5. ASSUME NEW f, NEW g, NEW k \in 1 .. N + 1, NEW m \in 1 .. N + 1, k <= m,
             Sol(f, k), Sol(g, m)
      PROVE  \A i \in 1 .. k : f[i] = g[i]
  <2> DEFINE T == {i \in 1 .. k : f[i] # g[i]}
  <2> SUFFICES ASSUME T # {} PROVE FALSE
    OBVIOUS
  <2>1. PICK i \in T : \A j \in T : i <= j
    <3>1. T \subseteq Nat
      OBVIOUS
    <3> HIDE DEF T
    <3> QED BY <3>1, Least
  <2>2. i \in 1 .. k /\ i \in 1 .. m /\ f[i] # g[i]
    BY <1>5
  <2>3. /\ f[i] = IF i = 1 THEN 0 ELSE f[i - 1] + L(i - 1)
        /\ g[i] = IF i = 1 THEN 0 ELSE g[i - 1] + L(i - 1)
    BY <1>3, <1>5, <2>2
  <2>4. i # 1
    BY <2>2, <2>3
  <2>5. i - 1 \in 1 .. k /\ ~(i <= i - 1)
    BY <2>2, <2>4
  <2>6. i - 1 \notin T
    <3> HIDE DEF T
    <3> QED BY <2>1, <2>5
  <2>7. f[i - 1] = g[i - 1]
    BY <2>5, <2>6
  <2> QED BY <2>2, <2>3, <2>4, <2>7
<1>6. \A k \in 1 .. N + 1 : Sol(F(k), k) /\ \A i \in 1 .. k : F(k)[i] \in Nat
  <2> TAKE k \in 1 .. N + 1
  <2>1. PICK f : Sol(f, k) /\ \A i \in 1 .. k : f[i] \in Nat
    BY <1>4
  <2>2. Sol(F(k), k)
    BY <2>1
  <2> HIDE DEF F
  <2>3. k <= k
    OBVIOUS
  <2>4. \A i \in 1 .. k : f[i] = F(k)[i]
    BY <1>5, <2>1, <2>2, <2>3
  <2> QED BY <2>1, <2>2, <2>4
<1> HIDE DEF F
<1>7. Start(ext, 1) = 0
  <2>1. 1 \in 1 .. N + 1 /\ 1 \in 1 .. 1
    OBVIOUS
  <2>2. F(1)[1] = 0
    BY <1>3, <1>6, <2>1
  <2> QED BY <1>1, <2>2
<1>8. \A k \in 1 .. N + 1 : Start(ext, k) \in Nat
  <2> TAKE k \in 1 .. N + 1
  <2>1. k \in 1 .. k
    OBVIOUS
  <2> QED BY <1>1, <1>6, <2>1
<1>9. ASSUME NEW k \in 1 .. N PROVE Start(ext, k + 1) = Start(ext, k) + L(k)
  <2>1. /\ k \in 1 .. N + 1 /\ k + 1 \in 1 .. N + 1 /\ k <= k + 1 /\ k \in 1 .. k
        /\ k + 1 \in 1 .. k + 1 /\ k + 1 # 1 /\ (k + 1) - 1 = k
    OBVIOUS
  <2>2. Sol(F(k), k) /\ Sol(F(k + 1), k + 1)
    BY <1>6, <2>1
  <2>3. F(k)[k] = F(k + 1)[k]
    BY <1>5, <2>1, <2>2
  <2>4. F(k + 1)[k + 1] = F(k + 1)[k] + L(k)
    <3>1. F(k + 1)[k + 1] = IF k + 1 = 1 THEN 0 ELSE F(k + 1)[(k + 1) - 1] + L((k + 1) - 1)
      BY <1>3, <2>1, <2>2
    <3> QED BY <2>1, <3>1
  <2> QED BY <1>1, <2>3, <2>4
<1> QED BY <1>7, <1>8, <1>9 DEF L

\* A later extent starts no earlier.
LEMMA StartRises ==
  ASSUME NEW ext, NEW N \in Nat, \A k \in 1 .. N : Length(ext[k]) \in Nat
  PROVE  \A j, k \in 1 .. N + 1 : j <= k => Start(ext, j) <= Start(ext, k)
<1> SUFFICES ASSUME NEW j \in 1 .. N + 1
             PROVE  \A k \in 1 .. N + 1 : j <= k => Start(ext, j) <= Start(ext, k)
  OBVIOUS
<1> DEFINE T == {k \in 1 .. N + 1 : j <= k /\ ~(Start(ext, j) <= Start(ext, k))}
<1> SUFFICES ASSUME T # {} PROVE FALSE
  OBVIOUS
<1>1. PICK k \in T : \A m \in T : k <= m
  <2>1. T \subseteq Nat
    OBVIOUS
  <2> HIDE DEF T
  <2> QED BY <2>1, Least
<1>2. k \in 1 .. N + 1 /\ j <= k /\ ~(Start(ext, j) <= Start(ext, k))
  OBVIOUS
<1>3. \A m \in 1 .. N + 1 : Start(ext, m) \in Nat
  BY StartIs
<1>4. j # k
  <2>1. Start(ext, j) <= Start(ext, j)
    <3>1. \A m \in Nat : m <= m
      OBVIOUS
    <3> QED BY <1>3, <3>1
  <2> QED BY <1>2, <2>1
<1>5. k - 1 \in 1 .. N + 1 /\ k - 1 \in 1 .. N /\ j <= k - 1 /\ (k - 1) + 1 = k /\ ~(k <= k - 1)
  BY <1>2, <1>4
<1>6. k - 1 \notin T
  <2> HIDE DEF T
  <2> QED BY <1>1, <1>5
<1>7. Start(ext, j) <= Start(ext, k - 1)
  BY <1>5, <1>6
<1>8. Start(ext, k) = Start(ext, k - 1) + Length(ext[k - 1])
  <2>1. \A m \in 1 .. N : Start(ext, m + 1) = Start(ext, m) + Length(ext[m])
    BY StartIs
  <2>2. Start(ext, (k - 1) + 1) = Start(ext, k - 1) + Length(ext[k - 1])
    BY <1>5, <2>1
  <2> QED BY <1>5, <2>2
<1>9. \A a, b, c, n \in Nat : a <= b /\ c = b + n => a <= c
  OBVIOUS
<1> QED BY <1>2, <1>3, <1>5, <1>7, <1>8, <1>9

\* Extent k holds the position p of the disk.
Covers(ext, k, p) == p >= Start(ext, k) /\ p < Start(ext, k) + Length(ext[k])

\* Every position below the end of the last extent lies in exactly one of them.
LEMMA Covered ==
  ASSUME NEW ext, NEW N \in Nat, \A k \in 1 .. N : Length(ext[k]) \in Nat, NEW p \in Nat
  PROVE  /\ p < Start(ext, N + 1) => \E k \in 1 .. N : Covers(ext, k, p)
         /\ \A j, k \in 1 .. N : Covers(ext, j, p) /\ Covers(ext, k, p) => j = k
         /\ p >= Start(ext, N + 1) => \A k \in 1 .. N : ~Covers(ext, k, p)
<1>1. /\ Start(ext, 1) = 0
      /\ \A k \in 1 .. N + 1 : Start(ext, k) \in Nat
      /\ \A k \in 1 .. N : Start(ext, k + 1) = Start(ext, k) + Length(ext[k])
  BY StartIs
<1>2. \A j, k \in 1 .. N + 1 : j <= k => Start(ext, j) <= Start(ext, k)
  BY StartRises
<1>3. \A k \in 1 .. N : Covers(ext, k, p) <=> p >= Start(ext, k) /\ p < Start(ext, k + 1)
  BY <1>1 DEF Covers
<1>4. ASSUME p < Start(ext, N + 1) PROVE \E k \in 1 .. N : Covers(ext, k, p)
  <2> DEFINE T == {k \in 1 .. N + 1 : p < Start(ext, k)}
  <2>1. N + 1 \in T
    BY <1>4
  <2>2. PICK k \in T : \A m \in T : k <= m
    <3>1. T \subseteq Nat /\ T # {}
      BY <2>1
    <3> HIDE DEF T
    <3> QED BY <3>1, Least
  <2>3. k \in 1 .. N + 1 /\ p < Start(ext, k)
    OBVIOUS
  <2>4. k # 1
    BY <1>1, <2>3
  <2>5. k - 1 \in 1 .. N /\ k - 1 \in 1 .. N + 1 /\ (k - 1) + 1 = k /\ ~(k <= k - 1)
    BY <2>3, <2>4
  <2>6. k - 1 \notin T
    <3> HIDE DEF T
    <3> QED BY <2>2, <2>5
  <2>7. p >= Start(ext, k - 1)
    <3>1. ~(p < Start(ext, k - 1)) /\ Start(ext, k - 1) \in Nat
      BY <1>1, <2>5, <2>6
    <3>2. \A m \in Nat : ~(p < m) => p >= m
      OBVIOUS
    <3> QED BY <3>1, <3>2
  <2>8. Covers(ext, k - 1, p)
    BY <1>3, <2>3, <2>5, <2>7
  <2> QED BY <2>5, <2>8
<1>5. ASSUME NEW j \in 1 .. N, NEW k \in 1 .. N, j < k, Covers(ext, j, p), Covers(ext, k, p)
      PROVE  FALSE
  <2>1. j + 1 \in 1 .. N + 1 /\ k \in 1 .. N + 1 /\ j + 1 <= k
    BY <1>5
  <2>2. Start(ext, j + 1) <= Start(ext, k) /\ Start(ext, j + 1) \in Nat /\ Start(ext, k) \in Nat
    BY <1>1, <1>2, <2>1
  <2>3. p < Start(ext, j + 1) /\ p >= Start(ext, k)
    BY <1>3, <1>5
  <2>4. \A a, b \in Nat : a <= b /\ p < a /\ p >= b => FALSE
    OBVIOUS
  <2> QED BY <2>2, <2>3, <2>4
<1>6. \A j, k \in 1 .. N : Covers(ext, j, p) /\ Covers(ext, k, p) => j = k
  <2> TAKE j, k \in 1 .. N
  <2>1. j < k \/ k < j \/ j = k
    OBVIOUS
  <2> QED BY <1>5, <2>1
<1>7. ASSUME p >= Start(ext, N + 1), NEW k \in 1 .. N PROVE ~Covers(ext, k, p)
  <2>1. k + 1 \in 1 .. N + 1 /\ N + 1 \in 1 .. N + 1 /\ k + 1 <= N + 1
    OBVIOUS
  <2>2. Start(ext, k + 1) <= Start(ext, N + 1) /\ Start(ext, k + 1) \in Nat
        /\ Start(ext, N + 1) \in Nat
    BY <1>1, <1>2, <2>1
  <2>3. \A a, b \in Nat : a <= b /\ p >= b => ~(p < a)
    OBVIOUS
  <2> QED BY <1>3, <1>7, <2>2, <2>3
<1> QED BY <1>4, <1>6, <1>7

\* The byte of an extent at a position within it.
ExtentByte(e, at) ==
  CASE e.kind = "flat"   -> FileByte(e.file, e.offset * SectorSize + at)
    [] e.kind = "sparse" -> SparseByte(e, at)
    [] e.kind = "zero"   -> Zero

\* It depends on the kind of the extent.
LEMMA KindIs ==
  ASSUME NEW e, NEW at
  PROVE  /\ e.kind = "flat" =>
              ExtentByte(e, at) = FileByte(e.file, e.offset * SectorSize + at)
         /\ e.kind = "sparse" => ExtentByte(e, at) = SparseByte(e, at)
         /\ e.kind = "zero" => ExtentByte(e, at) = Zero
BY DEF ExtentByte

\* It is a byte.
LEMMA ExtentByteIs ==
  ASSUME NEW e, GoodExtent(e), NEW at \in Nat
  PROVE  ExtentByte(e, at) \in Byte
<1>1. CASE e.kind = "flat"
  <2> DEFINE where == e.offset * SectorSize + at
  <2>1. where \in Nat
    <3>1. \A m, n, k \in Nat : m * n + k \in Nat
      OBVIOUS
    <3> QED BY <1>1, <3>1, SectorAssumption DEF GoodExtent
  <2>2. e.file.id \in Nat /\ e.file.size \in Nat
    BY <1>1 DEF GoodExtent, GoodFile
  <2>3. ExtentByte(e, at) = FileByte(e.file, where)
    BY <1>1, KindIs
  <2> HIDE DEF where
  <2> QED BY <2>1, <2>2, <2>3 DEF FileByte, Byte, Zero
<1>2. CASE e.kind = "sparse"
  <2>1. GoodSparse(e) /\ ExtentByte(e, at) = SparseByte(e, at)
    BY <1>2, KindIs DEF GoodExtent
  <2> QED BY <2>1, SparseByteIs
<1>3. CASE e.kind = "zero"
  BY <1>3, KindIs DEF Byte, Zero
<1> QED BY <1>1, <1>2, <1>3 DEF GoodExtent

\* The reference lists these bytes.
LEMMA ExtentBytesAre ==
  ASSUME NEW e, GoodExtent(e)
  PROVE  ExtentBytes(e) = [i \in 1 .. Length(e) |-> ExtentByte(e, i - 1)]
<1>1. CASE e.kind = "flat"
  <2>1. ExtentBytes(e) = [i \in 1 .. Length(e) |-> FileByte(e.file, e.offset * SectorSize + i - 1)]
    BY <1>1 DEF ExtentBytes
  <2>2. \A i \in 1 .. Length(e) : ExtentByte(e, i - 1) = FileByte(e.file, e.offset * SectorSize + (i - 1))
    BY <1>1, KindIs
  <2>3. \A i \in 1 .. Length(e) : e.offset * SectorSize + (i - 1) = e.offset * SectorSize + i - 1
    <3>1. \A m, n \in Int : m + (n - 1) = m + n - 1
      OBVIOUS
    <3>2. e.offset * SectorSize \in Int
      BY <1>1, SectorAssumption DEF GoodExtent
    <3> QED BY <3>1, <3>2
  <2> QED BY <2>1, <2>2, <2>3
<1>2. CASE e.kind = "sparse"
  <2>1. ExtentBytes(e) = [i \in 1 .. Length(e) |-> SparseByte(e, i - 1)]
    BY <1>2 DEF ExtentBytes
  <2>2. \A i \in 1 .. Length(e) : ExtentByte(e, i - 1) = SparseByte(e, i - 1)
    BY <1>2, KindIs
  <2> QED BY <2>1, <2>2
<1>3. CASE e.kind = "zero"
  <2>1. ExtentBytes(e) = [i \in 1 .. Length(e) |-> Zero]
    BY <1>3 DEF ExtentBytes
  <2>2. \A i \in 1 .. Length(e) : ExtentByte(e, i - 1) = Zero
    BY <1>3, KindIs
  <2> QED BY <2>1, <2>2
<1> QED BY <1>1, <1>2, <1>3 DEF GoodExtent

\* The bytes of an extent from a position on.
ExtentRange(e, within, n) == [i \in 1 .. n |-> ExtentByte(e, within + i - 1)]

\* What is read of one extent: read_or_zeros, read_at filled up with zeroes (which
\* is what lies beyond the capacity of a sparse extent), or zeroes.
LEMMA ReadExtentIs ==
  ASSUME NEW e, GoodExtent(e), NEW within \in Nat, NEW n \in Nat
  PROVE  ReadExtent(e, within, n) = ExtentRange(e, within, n)
<1> USE DEF ExtentRange
<1>1. CASE e.kind = "flat"
  <2> DEFINE at == e.offset * SectorSize
  <2>1. at \in Nat
    <3>1. \A m, k \in Nat : m * k \in Nat
      OBVIOUS
    <3> QED BY <1>1, <3>1, SectorAssumption DEF GoodExtent
  <2>2. ReadExtent(e, within, n) = ReadOrZeros(e.file, at + within, n)
    BY <1>1 DEF ReadExtent
  <2>3. \A i \in 1 .. n : ExtentByte(e, within + i - 1) = FileByte(e.file, at + (within + i - 1))
    BY <1>1, KindIs
  <2> HIDE DEF at
  <2>4. \A i \in 1 .. n : at + (within + i - 1) = at + within + i - 1
    BY <2>1
  <2>5. \A i \in 1 .. n : ExtentByte(e, within + i - 1) =
          IF at + within + i - 1 < e.file.size THEN <<e.file.id, at + within + i - 1>> ELSE Zero
    BY <2>3, <2>4 DEF FileByte
  <2>6. ReadOrZeros(e.file, at + within, n) =
          [i \in 1 .. n |-> IF at + within + i - 1 < e.file.size
                            THEN <<e.file.id, at + within + i - 1>> ELSE Zero]
    BY DEF ReadOrZeros
  <2> QED BY <2>2, <2>5, <2>6
<1>2. CASE e.kind = "sparse"
  <2> DEFINE C == e.capacity * SectorSize
             m == IF within >= C THEN 0 ELSE Lesser(n, C - within)
             a == SparseBytes(e, within, m)
             b == Zeroes(n - m)
             c == SparseBytes(e, within, n)
  <2>1. GoodSparse(e)
    BY <1>2 DEF GoodExtent
  <2>2. C \in Nat
    <3>1. \A k, l \in Nat : k * l \in Nat
      OBVIOUS
    <3> QED BY <2>1, <3>1, SectorAssumption DEF GoodSparse
  <2>3. /\ m \in Nat /\ n - m \in Nat /\ m + (n - m) = n
        /\ \A i \in 1 .. n - m : ~(within + (m + i) - 1 < C)
    <3> HIDE DEF C
    <3> QED BY <2>2 DEF Lesser
  <2>4. ReadAt(e, within, n) = a
    BY <2>1, ReadAtIs
  <2>5. ReadExtent(e, within, n) = ZeroFill(a, n)
    BY <1>2, <2>4 DEF ReadExtent
  <2> HIDE DEF m
  <2>6. a \in Seq(Byte) /\ Len(a) = m /\ \A i \in 1 .. m : a[i] = SparseByte(e, within + i - 1)
    BY <2>1, <2>3, SparseBytesAre
  <2>7. c \in Seq(Byte) /\ Len(c) = n /\ \A i \in 1 .. n : c[i] = SparseByte(e, within + i - 1)
    BY <2>1, SparseBytesAre
  <2>8. b \in Seq(Byte) /\ Len(b) = n - m /\ \A i \in 1 .. n - m : b[i] = Zero
    <3>1. b \in [1 .. n - m -> Byte] /\ \A i \in 1 .. n - m : b[i] = Zero
      BY DEF Zeroes, Byte, Zero
    <3> HIDE DEF b
    <3> QED BY <2>3, <3>1, FunctionIsSeq
  <2> HIDE DEF a, b, c
  <2>9. Len(c) = Len(a) + Len(b)
    BY <2>3, <2>6, <2>7, <2>8
  <2>10. \A i \in 1 .. Len(a) : a[i] = c[i]
    <3>1. \A i \in 1 .. m : i \in 1 .. n
      BY <2>3
    <3> QED BY <2>6, <2>7, <3>1
  <2>11. ASSUME NEW i \in 1 .. Len(b) PROVE b[i] = c[Len(a) + i]
    <3>1. i \in 1 .. n - m /\ m + i \in 1 .. n
      BY <2>3, <2>8
    <3>2. ~(within + (m + i) - 1 < C)
      BY <2>3, <3>1
    <3>3. SparseByte(e, within + (m + i) - 1) = Zero
      BY <3>2 DEF SparseByte
    <3> QED BY <2>6, <2>7, <2>8, <3>1, <3>3
  <2>12. a \o b = c
    BY <2>6, <2>7, <2>8, <2>9, <2>10, <2>11, JoinedBytes
  <2>13. ReadExtent(e, within, n) = c
    BY <2>5, <2>6, <2>12 DEF ZeroFill, b
  <2>14. c = [i \in 1 .. n |-> SparseByte(e, within + i - 1)]
    BY DEF c, SparseBytes
  <2>15. \A i \in 1 .. n : ExtentByte(e, within + i - 1) = SparseByte(e, within + i - 1)
    BY <1>2, KindIs
  <2> QED BY <2>13, <2>14, <2>15
<1>3. CASE e.kind = "zero"
  <2>1. ReadExtent(e, within, n) = [i \in 1 .. n |-> Zero]
    BY <1>3 DEF ReadExtent, Zeroes
  <2>2. \A i \in 1 .. n : ExtentByte(e, within + i - 1) = Zero
    BY <1>3, KindIs
  <2> QED BY <2>1, <2>2
<1> QED BY <1>1, <1>2, <1>3 DEF GoodExtent

\* The extents have lengths.
LEMMA Lengths ==
  ASSUME NEW ext, GoodExtents(ext)
  PROVE  /\ Len(ext) \in Nat /\ DOMAIN ext = 1 .. Len(ext)
         /\ \A k \in 1 .. Len(ext) : Length(ext[k]) \in Nat /\ GoodExtent(ext[k])
<1>1. \A m, n \in Nat : m * n \in Nat
  OBVIOUS
<1> QED BY <1>1, SectorAssumption DEF GoodExtents, GoodExtent, Length

\* The byte of the disk at p: that of the extent that holds p, or a zero.
WholeByte(ext, p) ==
  IF \E k \in DOMAIN ext : Covers(ext, k, p)
  THEN LET k == CHOOSE j \in DOMAIN ext : Covers(ext, j, p)
       IN ExtentByte(ext[k], p - Start(ext, k))
  ELSE Zero

\* The bytes of the disk from p on.
WholeBytes(ext, p, n) == [i \in 1 .. n |-> WholeByte(ext, p + i - 1)]

\* There is one extent that holds p, or p lies behind them all.
LEMMA WholeByteIs ==
  ASSUME NEW ext, GoodExtents(ext), NEW p \in Nat
  PROVE  /\ \A k \in 1 .. Len(ext) : Covers(ext, k, p) =>
              WholeByte(ext, p) = ExtentByte(ext[k], p - Start(ext, k))
         /\ p >= Start(ext, Len(ext) + 1) => WholeByte(ext, p) = Zero
         /\ WholeByte(ext, p) \in Byte
<1> DEFINE N == Len(ext)
<1>1. N \in Nat /\ DOMAIN ext = 1 .. N /\ \A k \in 1 .. N : Length(ext[k]) \in Nat /\ GoodExtent(ext[k])
  BY Lengths
<1> HIDE DEF N
<1>2. /\ \A j, k \in 1 .. N : Covers(ext, j, p) /\ Covers(ext, k, p) => j = k
      /\ p >= Start(ext, N + 1) => \A k \in 1 .. N : ~Covers(ext, k, p)
  BY <1>1, Covered
<1>3. ASSUME NEW k \in 1 .. N, Covers(ext, k, p)
      PROVE  WholeByte(ext, p) = ExtentByte(ext[k], p - Start(ext, k))
  <2>1. (CHOOSE j \in DOMAIN ext : Covers(ext, j, p)) = k
    BY <1>1, <1>2, <1>3
  <2> QED BY <1>1, <1>3, <2>1 DEF WholeByte
<1>4. (\A k \in 1 .. N : ~Covers(ext, k, p)) => WholeByte(ext, p) = Zero
  BY <1>1 DEF WholeByte
<1>5. WholeByte(ext, p) \in Byte
  <2>1. CASE \A k \in 1 .. N : ~Covers(ext, k, p)
    BY <1>4, <2>1 DEF Byte, Zero
  <2>2. ASSUME NEW k \in 1 .. N, Covers(ext, k, p) PROVE WholeByte(ext, p) \in Byte
    <3>1. p >= Start(ext, k) /\ Start(ext, k) \in Nat
      <4>1. k \in 1 .. N + 1
        BY <1>1
      <4>2. Start(ext, k) \in Nat
        BY <1>1, <4>1, StartIs
      <4> QED BY <2>2, <4>2 DEF Covers
    <3>2. p - Start(ext, k) \in Nat
      BY <3>1
    <3> QED BY <1>1, <1>3, <2>2, <3>2, ExtentByteIs
  <2> QED BY <2>1, <2>2
<1> QED BY <1>2, <1>3, <1>4, <1>5 DEF N

\* They are as many as asked for.
LEMMA WholeBytesAre ==
  ASSUME NEW ext, GoodExtents(ext), NEW p \in Nat, NEW n \in Nat
  PROVE  /\ WholeBytes(ext, p, n) \in Seq(Byte) /\ Len(WholeBytes(ext, p, n)) = n
         /\ \A i \in 1 .. n : WholeBytes(ext, p, n)[i] = WholeByte(ext, p + i - 1)
<1>1. \A i \in 1 .. n : p + i - 1 \in Nat
  OBVIOUS
<1>2. \A i \in 1 .. n : WholeByte(ext, p + i - 1) \in Byte
  BY <1>1, WholeByteIs
<1> QED BY <1>2 DEF WholeBytes

\* Neighbouring ranges of the disk make up one range.
LEMMA PiecesFit ==
  ASSUME NEW ext, GoodExtents(ext),
         NEW p \in Nat, NEW q \in Nat, NEW m \in Nat, NEW n \in Nat, NEW t \in Nat,
         q = p + m, t = m + n,
         NEW a, NEW b, NEW c,
         a = WholeBytes(ext, p, m), b = WholeBytes(ext, q, n), c = WholeBytes(ext, p, t)
  PROVE  /\ a \in Seq(Byte) /\ b \in Seq(Byte) /\ c \in Seq(Byte)
         /\ Len(c) = Len(a) + Len(b)
         /\ \A i \in 1 .. Len(a) : a[i] = c[i]
         /\ \A i \in 1 .. Len(b) : b[i] = c[Len(a) + i]
<1>1. a \in Seq(Byte) /\ Len(a) = m /\ \A i \in 1 .. m : a[i] = WholeByte(ext, p + i - 1)
  BY WholeBytesAre, ZenonT(30)
<1>2. b \in Seq(Byte) /\ Len(b) = n /\ \A i \in 1 .. n : b[i] = WholeByte(ext, q + i - 1)
  BY WholeBytesAre, ZenonT(30)
<1>3. c \in Seq(Byte) /\ Len(c) = t /\ \A i \in 1 .. t : c[i] = WholeByte(ext, p + i - 1)
  BY WholeBytesAre, ZenonT(30)
<1>4. \A i \in 1 .. Len(a) : a[i] = c[i]
  <2>1. \A i \in 1 .. m : i \in 1 .. t
    OBVIOUS
  <2> QED BY <1>1, <1>3, <2>1
<1>5. ASSUME NEW i \in 1 .. Len(b) PROVE b[i] = c[Len(a) + i]
  <2>1. i \in 1 .. n /\ m + i \in 1 .. t /\ q + i - 1 = p + (m + i) - 1
    BY <1>2
  <2>2. b[i] = WholeByte(ext, q + i - 1)
    BY <1>2, <2>1
  <2>3. c[m + i] = WholeByte(ext, p + (m + i) - 1)
    BY <1>3, <2>1
  <2> QED BY <1>1, <2>1, <2>2, <2>3
<1> QED BY <1>1, <1>2, <1>3, <1>4, <1>5

\* What is read of the extent that holds p is a range of the disk.
LEMMA PieceIs ==
  ASSUME NEW ext, GoodExtents(ext), NEW p \in Nat, NEW n \in Nat, NEW k \in 1 .. Len(ext),
         Covers(ext, k, p), n <= Length(ext[k]) - (p - Start(ext, k))
  PROVE  ReadExtent(ext[k], p - Start(ext, k), n) = WholeBytes(ext, p, n)
<1> DEFINE N == Len(ext)
           s == Start(ext, k)
           l == Length(ext[k])
<1>1. N \in Nat /\ GoodExtent(ext[k]) /\ l \in Nat /\ \A j \in 1 .. N : Length(ext[j]) \in Nat
  BY Lengths
<1>2. s \in Nat
  <2> HIDE DEF N
  <2>1. k \in 1 .. N + 1 /\ k \in 1 .. N
    BY <1>1 DEF N
  <2> QED BY <1>1, <2>1, StartIs
<1>3. p >= s /\ p < s + l /\ n <= l - (p - s)
  BY DEF Covers
<1> HIDE DEF s, l
<1>4. p - s \in Nat
  BY <1>2, <1>3
<1>5. ReadExtent(ext[k], p - s, n) = [i \in 1 .. n |-> ExtentByte(ext[k], (p - s) + i - 1)]
  <2>1. GoodExtent(ext[k]) /\ p - s \in Nat
    BY <1>1, <1>4
  <2>2. ReadExtent(ext[k], p - s, n) = ExtentRange(ext[k], p - s, n)
    BY <2>1, ReadExtentIs
  <2> QED BY <2>2 DEF ExtentRange
<1>6. ASSUME NEW i \in 1 .. n PROVE WholeByte(ext, p + i - 1) = ExtentByte(ext[k], (p - s) + i - 1)
  <2>1. /\ p + i - 1 \in Nat /\ p + i - 1 >= s /\ p + i - 1 < s + l
        /\ (p + i - 1) - s = (p - s) + i - 1
    BY <1>1, <1>2, <1>3
  <2>2. Covers(ext, k, p + i - 1)
    BY <2>1 DEF Covers, s, l
  <2>3. WholeByte(ext, p + i - 1) = ExtentByte(ext[k], (p + i - 1) - s)
    BY <2>1, <2>2, WholeByteIs DEF s
  <2> QED BY <2>1, <2>3
<1> QED BY <1>5, <1>6 DEF WholeBytes, s

\* read_from_extents delivers a range of the disk, from however many extents.
LEMMA ReadFromExtentsIs ==
  ASSUME NEW ext, GoodExtents(ext), NEW offset \in Nat, NEW len \in Nat
  PROVE  ReadFromExtents(ext, offset, len) = WholeBytes(ext, offset, len)
<1> DEFINE N == Len(ext)
           Covering(p) == {k \in DOMAIN ext : Covers(ext, k, p)}
           First(p) == CHOOSE j \in Covering(p) : \A i \in Covering(p) : j <= i
           Body(f, done) ==
             IF done = len THEN <<>>
             ELSE IF Covering(offset + done) = {} THEN Zeroes(len - done)
             ELSE LET k == First(offset + done)
                      within == (offset + done) - Start(ext, k)
                      n == Lesser(Length(ext[k]) - within, len - done)
                  IN ReadExtent(ext[k], within, n) \o f[done + n]
           Solves(f) == f = [done \in 0 .. len |-> Body(f, done)]
           h == [done \in 0 .. len |-> WholeBytes(ext, offset + done, len - done)]
<1>1. ReadFromExtents(ext, offset, len) = (CHOOSE f : Solves(f))[0]
  BY DEF ReadFromExtents, Covers
<1>2. /\ N \in Nat /\ DOMAIN ext = 1 .. N
      /\ \A k \in 1 .. N : Length(ext[k]) \in Nat
  BY Lengths
<1>3. \A k \in 1 .. N : Start(ext, k) \in Nat
  <2> HIDE DEF N
  <2>1. \A k \in 1 .. N + 1 : Start(ext, k) \in Nat
    BY <1>2, StartIs
  <2>2. \A k \in 1 .. N : k \in 1 .. N + 1
    BY <1>2
  <2> QED BY <2>1, <2>2
<1>4. \A done \in 0 .. len : h[done] = WholeBytes(ext, offset + done, len - done)
  OBVIOUS
<1>5. h = [done \in 0 .. len |-> h[done]]
  OBVIOUS
<1> HIDE DEF h
<1>6. \A f : Body(f, len) = h[len]
  <2>1. len \in 0 .. len /\ len - len = 0 /\ offset + len \in Nat
    OBVIOUS
  <2>2. h[len] = WholeBytes(ext, offset + len, 0)
    BY <1>4, <2>1
  <2>3. WholeBytes(ext, offset + len, 0) \in Seq(Byte) /\ Len(WholeBytes(ext, offset + len, 0)) = 0
    BY <2>1, WholeBytesAre
  <2>4. h[len] = <<>>
    BY <2>2, <2>3
  <2> QED BY <2>4
<1>7. ASSUME NEW done \in 0 .. len, done # len
      PROVE  \E then \in 0 .. len :
               then > done /\ \A f : f[then] = h[then] => Body(f, done) = h[done]
  <2> DEFINE pos == offset + done
  <2>1. pos \in Nat /\ len - done \in Nat
    OBVIOUS
  <2>2. CASE Covering(pos) = {}
    <3>1. \A f : Body(f, done) = Zeroes(len - done)
      BY <1>7, <2>2
    <3>2. pos >= Start(ext, N + 1)
      <4> HIDE DEF N, pos
      <4>1. pos < Start(ext, N + 1) => \E k \in 1 .. N : Covers(ext, k, pos)
        BY <1>2, <2>1, Covered
      <4>2. ~(pos < Start(ext, N + 1))
        BY <1>2, <2>2, <4>1
      <4>3. N + 1 \in 1 .. N + 1
        BY <1>2
      <4>4. Start(ext, N + 1) \in Nat
        BY <1>2, <4>3, StartIs
      <4> QED BY <2>1, <4>2, <4>4
    <3>3. ASSUME NEW i \in 1 .. len - done PROVE WholeByte(ext, pos + i - 1) = Zero
      <4> HIDE DEF N, pos
      <4>1. N + 1 \in 1 .. N + 1
        BY <1>2
      <4>2. Start(ext, N + 1) \in Nat
        BY <1>2, <4>1, StartIs
      <4>3. pos + i - 1 \in Nat /\ pos + i - 1 >= Start(ext, N + 1)
        BY <2>1, <3>2, <4>2
      <4> QED BY <4>3, WholeByteIs DEF N
    <3>4. WholeBytes(ext, pos, len - done) = Zeroes(len - done)
      <4> HIDE DEF pos
      <4> QED BY <3>3 DEF WholeBytes, Zeroes
    <3>5. h[done] = Zeroes(len - done)
      BY <1>4, <3>4
    <3>6. len \in 0 .. len /\ len > done
      BY <1>7
    <3> HIDE DEF Body
    <3> QED BY <3>1, <3>5, <3>6
  <2>3. CASE Covering(pos) # {}
    <3> DEFINE k == First(pos)
               s == Start(ext, k)
               l == Length(ext[k])
               within == pos - s
               n == Lesser(l - within, len - done)
    <3>1. k \in 1 .. N /\ Covers(ext, k, pos)
      <4>1. PICK j \in Covering(pos) : TRUE
        BY <2>3
      <4>2. \A i \in Covering(pos) : i = j
        <5> HIDE DEF N, pos
        <5>1. \A a, b \in 1 .. N : Covers(ext, a, pos) /\ Covers(ext, b, pos) => a = b
          BY <1>2, <2>1, Covered
        <5> QED BY <1>2, <4>1, <5>1
      <4>3. j \in 1 .. N /\ Covers(ext, j, pos)
        BY <1>2, <4>1
      <4>4. j <= j
        BY <1>2, <4>3
      <4> DEFINE S == Covering(pos)
      <4>5. j \in S /\ \A i \in S : i = j
        BY <4>2
      <4> HIDE DEF S, pos
      <4>6. (CHOOSE m \in S : \A i \in S : m <= i) = j
        BY <4>4, <4>5
      <4>7. k = j
        BY <4>6 DEF S
      <4> QED BY <4>3, <4>7
    <3>2. \A f : Body(f, done) = ReadExtent(ext[k], within, n) \o f[done + n]
      BY <1>7, <2>3
    <3>3. s \in Nat /\ l \in Nat /\ pos >= s /\ pos < s + l
      <4> HIDE DEF k, pos
      <4> QED BY <1>2, <1>3, <3>1 DEF Covers
    <3> HIDE DEF s, l, k
    <3>4. /\ n \in Nat /\ n >= 1 /\ n <= l - (pos - s) /\ done + n \in 0 .. len
          /\ done + n > done /\ len - (done + n) \in Nat /\ pos + n = offset + (done + n)
          /\ n + (len - (done + n)) = len - done
      BY <1>7, <2>1, <3>3 DEF Lesser
    <3> HIDE DEF n
    <3>5. ReadExtent(ext[k], within, n) = WholeBytes(ext, pos, n)
      <4> HIDE DEF pos
      <4> QED BY <2>1, <3>1, <3>4, PieceIs DEF s, l
    <3>6. h[done + n] = WholeBytes(ext, pos + n, len - (done + n))
      BY <1>4, <3>4
    <3>7. WholeBytes(ext, pos, n) \o WholeBytes(ext, pos + n, len - (done + n))
            = WholeBytes(ext, pos, len - done)
      <4> DEFINE q == pos + n
                 r == len - (done + n)
                 t == len - done
                 a == WholeBytes(ext, pos, n)
                 b == WholeBytes(ext, q, r)
                 c == WholeBytes(ext, pos, t)
      <4>1. q \in Nat /\ r \in Nat /\ n \in Nat /\ t \in Nat /\ t = n + r /\ q = pos + n
        BY <2>1, <3>4
      <4> HIDE DEF q, r, t, pos
      <4>2. /\ a \in Seq(Byte) /\ b \in Seq(Byte) /\ c \in Seq(Byte)
            /\ Len(c) = Len(a) + Len(b)
            /\ \A i \in 1 .. Len(a) : a[i] = c[i]
            /\ \A i \in 1 .. Len(b) : b[i] = c[Len(a) + i]
        BY <2>1, <4>1, PiecesFit
      <4> HIDE DEF a, b, c
      <4>3. a \o b = c
        BY <4>2, JoinedBytes
      <4> QED BY <4>3 DEF a, b, c, q, r, t
    <3>8. h[done] = WholeBytes(ext, pos, len - done)
      BY <1>4
    <3> HIDE DEF Body, pos, within
    <3>9. \A f : f[done + n] = h[done + n] => Body(f, done) = h[done]
      BY <3>2, <3>5, <3>6, <3>7, <3>8
    <3> QED BY <3>4, <3>9
  <2> QED BY <2>2, <2>3
<1> HIDE DEF Body
<1>8. Solves(h)
  <2>1. \A done \in 0 .. len : h[done] = Body(h, done)
    BY <1>6, <1>7
  <2> QED BY <1>5, <2>1
<1>9. ASSUME NEW f, Solves(f) PROVE f[0] = h[0]
  <2>1. \A done \in 0 .. len : f[done] = Body(f, done)
    BY <1>9
  <2>2. f[len] = h[len]
    BY <1>6, <2>1
  <2>3. \A done \in 0 .. len : done # len =>
          \E then \in 0 .. len : then > done /\ (f[then] = h[then] => f[done] = h[done])
    BY <1>7, <2>1
  <2> QED BY <2>2, <2>3, SameAtStart
<1> HIDE DEF Solves
<1>10. Solves(CHOOSE f : Solves(f))
  BY <1>8
<1>11. h[0] = WholeBytes(ext, offset, len)
  <2>1. 0 \in 0 .. len /\ offset + 0 = offset /\ len - 0 = len
    OBVIOUS
  <2>2. h[0] = WholeBytes(ext, offset + 0, len - 0)
    BY <1>4, <2>1
  <2> QED BY <2>1, <2>2
<1> QED BY <1>1, <1>9, <1>10, <1>11

\* The reference puts the extents one behind the other.
LEMMA JoinedIs ==
  ASSUME NEW ext, GoodExtents(ext)
  PROVE  (CHOOSE f : f = [k \in 0 .. Len(ext) |->
            IF k = 0 THEN <<>> ELSE f[k - 1] \o ExtentBytes(ext[k])])[Len(ext)]
           = WholeBytes(ext, 0, Start(ext, Len(ext) + 1))
<1> DEFINE N == Len(ext)
           Solves(f) == f = [k \in 0 .. N |->
                               IF k = 0 THEN <<>> ELSE f[k - 1] \o ExtentBytes(ext[k])]
           h == [k \in 0 .. N |-> WholeBytes(ext, 0, Start(ext, k + 1))]
<1>1. N \in Nat /\ \A k \in 1 .. N : Length(ext[k]) \in Nat /\ GoodExtent(ext[k])
  BY Lengths
<1>2. /\ Start(ext, 1) = 0
      /\ \A k \in 1 .. N + 1 : Start(ext, k) \in Nat
      /\ \A k \in 1 .. N : Start(ext, k + 1) = Start(ext, k) + Length(ext[k])
  <2> HIDE DEF N
  <2> QED BY <1>1, StartIs
<1>3. h = [k \in 0 .. N |-> h[k]] /\ \A k \in 0 .. N : h[k] = WholeBytes(ext, 0, Start(ext, k + 1))
  OBVIOUS
<1> HIDE DEF h
<1>4. h[0] = <<>>
  <2>1. 0 \in 0 .. N /\ 0 + 1 = 1
    BY <1>1
  <2>2. h[0] = WholeBytes(ext, 0, 0)
    BY <1>2, <1>3, <2>1
  <2>3. WholeBytes(ext, 0, 0) \in Seq(Byte) /\ Len(WholeBytes(ext, 0, 0)) = 0
    BY WholeBytesAre
  <2> QED BY <2>2, <2>3
<1>5. ASSUME NEW k \in 1 .. N PROVE h[k - 1] \o ExtentBytes(ext[k]) = h[k]
  <2> DEFINE s == Start(ext, k)
             l == Length(ext[k])
             t == Start(ext, k + 1)
             a == WholeBytes(ext, 0, s)
             b == WholeBytes(ext, s, l)
             c == WholeBytes(ext, 0, t)
  <2>1. /\ k \in 1 .. N + 1 /\ k + 1 \in 1 .. N + 1 /\ k - 1 \in 0 .. N /\ k \in 0 .. N
        /\ (k - 1) + 1 = k
    <3> HIDE DEF N
    <3> QED BY <1>1
  <2>2. s \in Nat /\ l \in Nat /\ t \in Nat /\ t = s + l /\ s = 0 + s
    BY <1>1, <1>2, <2>1
  <2>3. h[k - 1] = a /\ h[k] = c
    BY <1>3, <2>1
  <2>4. ExtentBytes(ext[k]) = b
    <3>1. ExtentBytes(ext[k]) = [i \in 1 .. l |-> ExtentByte(ext[k], i - 1)]
      BY <1>1, ExtentBytesAre
    <3> HIDE DEF s, l
    <3>2. ASSUME NEW i \in 1 .. l PROVE WholeByte(ext, s + i - 1) = ExtentByte(ext[k], i - 1)
      <4>1. s + i - 1 \in Nat /\ s + i - 1 >= s /\ s + i - 1 < s + l /\ (s + i - 1) - s = i - 1
        BY <2>2
      <4>2. Covers(ext, k, s + i - 1)
        BY <4>1 DEF Covers, s, l
      <4>3. WholeByte(ext, s + i - 1) = ExtentByte(ext[k], (s + i - 1) - s)
        BY <4>1, <4>2, WholeByteIs DEF s
      <4> QED BY <4>1, <4>3
    <3>3. b = [i \in 1 .. l |-> WholeByte(ext, s + i - 1)]
      BY DEF WholeBytes
    <3> QED BY <3>1, <3>2, <3>3
  <2> HIDE DEF s, l, t
  <2>5. /\ a \in Seq(Byte) /\ b \in Seq(Byte) /\ c \in Seq(Byte)
        /\ Len(c) = Len(a) + Len(b)
        /\ \A i \in 1 .. Len(a) : a[i] = c[i]
        /\ \A i \in 1 .. Len(b) : b[i] = c[Len(a) + i]
    BY <2>2, PiecesFit
  <2> HIDE DEF a, b, c
  <2>6. a \o b = c
    BY <2>5, JoinedBytes
  <2> QED BY <2>3, <2>4, <2>6
<1>6. Solves(h)
  <2>1. \A k \in 0 .. N : h[k] = IF k = 0 THEN <<>> ELSE h[k - 1] \o ExtentBytes(ext[k])
    <3> TAKE k \in 0 .. N
    <3>1. CASE k = 0
      BY <1>4, <3>1
    <3>2. CASE k # 0
      <4>1. k \in 1 .. N
        BY <1>1, <3>2
      <4>2. h[k - 1] \o ExtentBytes(ext[k]) = h[k]
        BY <1>5, <4>1
      <4> QED BY <3>2, <4>2
    <3> QED BY <3>1, <3>2
  <2> QED BY <1>3, <2>1
<1>7. ASSUME NEW f, Solves(f) PROVE f[N] = h[N]
  <2>1. \A k \in 0 .. N : f[k] = IF k = 0 THEN <<>> ELSE f[k - 1] \o ExtentBytes(ext[k])
    BY <1>7
  <2> DEFINE T == {k \in 0 .. N : f[k] # h[k]}
  <2>2. T = {}
    <3> SUFFICES ASSUME T # {} PROVE FALSE
      OBVIOUS
    <3>1. PICK k \in T : \A m \in T : k <= m
      <4>1. T \subseteq Nat
        BY <1>1
      <4> HIDE DEF T
      <4> QED BY <4>1, Least
    <3>2. k \in 0 .. N /\ f[k] # h[k]
      OBVIOUS
    <3>3. k # 0
      BY <1>4, <2>1, <3>2
    <3>4. k \in 1 .. N /\ k - 1 \in 0 .. N /\ ~(k <= k - 1)
      BY <1>1, <3>2, <3>3
    <3>5. k - 1 \notin T
      <4> HIDE DEF T
      <4> QED BY <3>1, <3>4
    <3>6. f[k - 1] = h[k - 1]
      BY <3>4, <3>5
    <3>7. f[k] = f[k - 1] \o ExtentBytes(ext[k])
      BY <2>1, <3>2, <3>3
    <3>8. h[k - 1] \o ExtentBytes(ext[k]) = h[k]
      BY <1>5, <3>4
    <3> QED BY <3>2, <3>6, <3>7, <3>8
  <2>3. N \in 0 .. N
    BY <1>1
  <2> QED BY <2>2, <2>3
<1>8. h[N] = WholeBytes(ext, 0, Start(ext, N + 1))
  <2>1. N \in 0 .. N
    BY <1>1
  <2> QED BY <1>3, <2>1
<1> HIDE DEF Solves
<1>9. Solves(CHOOSE f : Solves(f))
  BY <1>6
<1>10. (CHOOSE f : Solves(f))[N] = WholeBytes(ext, 0, Start(ext, N + 1))
  BY <1>7, <1>8, <1>9
<1> QED BY <1>10 DEF Solves

-----------------------------------------------------------------------------
(* Every native backend is faithful. *)

\* A disk whose read_range delivers its content is served faithfully: the zeroes
\* that VmDriver::read_range fills up with are never needed within the disk.
LEMMA ServedWhole ==
  ASSUME NEW d, VirtualSize(d) \in Nat, Content(d) \in [1 .. VirtualSize(d) -> Byte],
         \A at, n \in 0 .. VirtualSize(d) :
           at < VirtualSize(d) /\ n > 0 /\ at + n <= VirtualSize(d) =>
             ReadRange(d, at, n) = [i \in 1 .. n |-> Content(d)[at + i]]
  PROVE  Faithful(d)
<1> DEFINE size == VirtualSize(d)
           whole == Content(d)
<1>2. size \in Nat /\ whole \in [1 .. size -> Byte]
  OBVIOUS
<1>3. \A at, n \in 0 .. size : at < size /\ n > 0 /\ at + n <= size =>
           ReadRange(d, at, n) = [i \in 1 .. n |-> whole[at + i]]
  OBVIOUS
<1> HIDE DEF size, whole
<1>1. ASSUME NEW at \in 0 .. size, NEW n \in 0 .. size, at + n <= size
      PROVE  DriverBytes(d, at, n) = SubSeq(whole, at + 1, at + n)
  <2> DEFINE part == [i \in 1 .. n |-> whole[at + i]]
             piece == SubSeq(whole, at + 1, at + n)
  <2>1. at \in Nat /\ n \in Nat /\ size \in Nat /\ Zeroes(0) = <<>>
    BY <1>2 DEF Zeroes
  <2>2. \A i \in 1 .. n : at + i \in 1 .. size /\ whole[at + i] \in Byte
    <3>1. \A i \in 1 .. n : at + i \in 1 .. size
      BY <1>1, <1>2, <2>1
    <3> QED BY <1>2, <3>1
  <2>3. part \in Seq(Byte) /\ Len(part) = n /\ \A i \in 1 .. n : part[i] = whole[at + i]
    <3>1. part \in [1 .. n -> Byte]
      BY <2>2
    <3>2. part \in Seq(Byte) /\ Len(part) = n
      <4> HIDE DEF part
      <4> QED BY <2>1, <3>1, FunctionIsSeq
    <3> QED BY <3>2
  <2> HIDE DEF part
  <2>4. ReadRange(d, at, n) = part
    <3>1. CASE at >= size \/ n = 0
      <4>1. n = 0 /\ ReadRange(d, at, n) = <<>>
        BY <1>1, <1>2, <2>1, <3>1 DEF ReadRange, size
      <4> QED BY <2>3, <4>1
    <3>2. CASE ~(at >= size \/ n = 0)
      <4>1. at < size /\ n > 0
        BY <1>2, <2>1, <3>2
      <4> QED BY <1>1, <1>3, <4>1 DEF part
    <3> QED BY <3>1, <3>2
  <2>5. DriverBytes(d, at, n) = part
    <3>1. DriverBytes(d, at, n) = part \o Zeroes(n - n)
      BY <2>3, <2>4 DEF DriverBytes, ZeroFill
    <3>2. n - n = 0
      BY <2>1
    <3> QED BY <2>1, <2>3, <3>1, <3>2
  <2>6. /\ at + 1 \in Int /\ at + n \in Int
        /\ \A i \in at + 1 .. at + n : whole[i] \in Byte
    <3>1. at + 1 .. at + n \subseteq 1 .. size
      BY <1>1, <1>2, <2>1
    <3>2. \A i \in 1 .. size : whole[i] \in Byte
      BY <1>2
    <3>3. \A i \in at + 1 .. at + n : whole[i] \in Byte
      BY <3>1, <3>2, Zenon
    <3> QED BY <2>1, <3>3
  <2>7. /\ piece \in Seq(Byte)
        /\ Len(piece) = IF at + 1 <= at + n THEN (at + n) - (at + 1) + 1 ELSE 0
        /\ \A i \in 1 .. (at + n) - (at + 1) + 1 : piece[i] = whole[(at + 1) + i - 1]
    BY <2>6, SubSeqProperties
  <2> HIDE DEF piece
  <2>8. Len(piece) = n /\ (at + n) - (at + 1) + 1 = n
    BY <2>1, <2>7
  <2>9. ASSUME NEW i \in 1 .. n PROVE piece[i] = part[i]
    <3>1. (at + 1) + i - 1 = at + i
      BY <2>1
    <3> QED BY <2>3, <2>7, <2>8, <3>1
  <2>10. piece = part
    BY <2>3, <2>7, <2>8, <2>9
  <2> QED BY <2>5, <2>10 DEF piece
<1> QED BY <1>1, <1>2 DEF Byte, Faithful, size, whole

\* A raw image is served as it is.
LEMMA RawIsFaithful ==
  ASSUME NEW d, d.backend = "raw", GoodFile(d.file)
  PROVE  Faithful(d)
<1> DEFINE size == d.file.size
           id == d.file.id
           whole == [i \in 1 .. size |-> <<id, i - 1>>]
<1>1. VirtualSize(d) = size /\ Content(d) = whole /\ size \in Nat /\ id \in Nat
  BY DEF VirtualSize, Content, GoodFile
<1>2. whole \in [1 .. size -> Byte] /\ \A i \in 1 .. size : whole[i] = <<id, i - 1>>
  BY <1>1 DEF Byte
<1> HIDE DEF whole
<1>3. ASSUME NEW at \in 0 .. size, NEW n \in 0 .. size, at < size, n > 0, at + n <= size
      PROVE  ReadRange(d, at, n) = [i \in 1 .. n |-> whole[at + i]]
  <2>1. Lesser(n, size - at) = n /\ ~(at >= size) /\ n # 0
    BY <1>1, <1>3 DEF Lesser
  <2>2. ReadRange(d, at, n) = ReadOrZeros(d.file, at, n)
    BY <1>1, <2>1 DEF ReadRange
  <2>3. \A i \in 1 .. n : (at + i) - 1 < size /\ at + i \in 1 .. size
    BY <1>1, <1>3
  <2>4. ReadOrZeros(d.file, at, n) =
          [i \in 1 .. n |-> IF (at + i) - 1 < size THEN <<id, (at + i) - 1>> ELSE Zero]
    BY DEF ReadOrZeros
  <2> QED BY <1>2, <2>2, <2>3, <2>4
<1> HIDE DEF size
<1> QED BY <1>1, <1>2, <1>3, ServedWhole

\* A sparse VMDK is served through its directory and tables.
LEMMA SparseIsFaithful ==
  ASSUME NEW d, d.backend = "sparse", GoodSparse(d.extent)
  PROVE  Faithful(d)
<1> DEFINE x == d.extent
           size == x.capacity * SectorSize
           whole == [i \in 1 .. size |-> SparseByte(x, i - 1)]
<1>1. VirtualSize(d) = size /\ Content(d) = whole
  BY DEF VirtualSize, Content
<1>2. size \in Nat
  <2>1. \A m, n \in Nat : m * n \in Nat
    OBVIOUS
  <2> QED BY <2>1, SectorAssumption DEF GoodSparse
<1> HIDE DEF size, x
<1>3. GoodSparse(x)
  BY DEF x
<1>4. whole \in [1 .. size -> Byte] /\ \A i \in 1 .. size : whole[i] = SparseByte(x, i - 1)
  <2>1. \A i \in 1 .. size : i - 1 \in Nat
    BY <1>2
  <2>2. \A i \in 1 .. size : SparseByte(x, i - 1) \in Byte
    BY <1>3, <2>1, SparseByteIs
  <2> QED BY <2>2
<1> HIDE DEF whole
<1>5. ASSUME NEW at \in 0 .. size, NEW n \in 0 .. size, at < size, n > 0, at + n <= size
      PROVE  ReadRange(d, at, n) = [i \in 1 .. n |-> whole[at + i]]
  <2>1. Lesser(n, size - at) = n /\ ~(at >= size) /\ n # 0 /\ at \in Nat /\ n \in Nat
    BY <1>2, <1>5 DEF Lesser
  <2>2. ReadRange(d, at, n) = ReadAt(x, at, n)
    BY <1>1, <2>1 DEF ReadRange, x
  <2>3. ReadAt(x, at, n) = SparseBytes(x, at, IF at >= size THEN 0 ELSE Lesser(n, size - at))
    BY <1>3, <2>1, ReadAtIs DEF size
  <2>4. ReadAt(x, at, n) = [i \in 1 .. n |-> SparseByte(x, at + i - 1)]
    BY <2>1, <2>3 DEF SparseBytes
  <2>5. \A i \in 1 .. n : at + i \in 1 .. size /\ (at + i) - 1 = at + i - 1
    BY <1>2, <1>5
  <2> QED BY <1>4, <2>2, <2>4, <2>5
<1>6. \A at, n \in 0 .. size : at < size /\ n > 0 /\ at + n <= size =>
        ReadRange(d, at, n) = [i \in 1 .. n |-> whole[at + i]]
  BY <1>5
<1>7. VirtualSize(d) \in Nat /\ Content(d) \in [1 .. VirtualSize(d) -> Byte]
  BY <1>1, <1>2, <1>4
<1>8. \A at, n \in 0 .. VirtualSize(d) :
        at < VirtualSize(d) /\ n > 0 /\ at + n <= VirtualSize(d) =>
          ReadRange(d, at, n) = [i \in 1 .. n |-> Content(d)[at + i]]
  BY <1>1, <1>6
<1> QED BY <1>7, <1>8, ServedWhole

\* The extents of a descriptor are served faithfully, those of a descriptor that
\* declares no sectors too.
LEMMA ExtentsAreFaithful ==
  ASSUME NEW d, d.backend = "extents", GoodFile(d.file), GoodExtents(d.extents)
  PROVE  Faithful(d)
<1> DEFINE ext == d.extents
           total == Start(ext, Len(ext) + 1)
           size == VirtualSize(d)
           joined == CHOOSE f : f = [k \in 0 .. Len(ext) |->
                       IF k = 0 THEN <<>> ELSE f[k - 1] \o ExtentBytes(ext[k])]
<1>1. GoodExtents(ext) /\ d.file.size \in Nat
  BY DEF GoodFile
<1>2. size = IF total > 0 THEN total ELSE d.file.size
  BY DEF VirtualSize
<1>3. Content(d) = ZeroFill(joined[Len(ext)], size)
  BY DEF Content
<1>4. joined[Len(ext)] = WholeBytes(ext, 0, total)
  BY <1>1, JoinedIs
<1>5. total \in Nat
  <2>1. Len(ext) \in Nat /\ \A k \in 1 .. Len(ext) : Length(ext[k]) \in Nat
    BY <1>1, Lengths
  <2> DEFINE N == Len(ext)
  <2> HIDE DEF N
  <2>2. N + 1 \in 1 .. N + 1 /\ N \in Nat
    BY <2>1 DEF N
  <2>3. \A k \in 1 .. N + 1 : Start(ext, k) \in Nat
    BY <2>1, StartIs DEF N
  <2> QED BY <2>2, <2>3 DEF N
<1>6. size \in Nat
  BY <1>1, <1>2, <1>5
<1> HIDE DEF ext, total, size, joined
<1>7. \A p \in Nat : p >= total => WholeByte(ext, p) = Zero
  BY <1>1, WholeByteIs DEF total
<1>8. Content(d) = WholeBytes(ext, 0, size)
  <2> DEFINE a == WholeBytes(ext, 0, total)
  <2>1. a \in Seq(Byte) /\ Len(a) = total
    BY <1>1, <1>5, WholeBytesAre
  <2>2. Content(d) = a \o Zeroes(size - total)
    BY <1>3, <1>4, <2>1 DEF ZeroFill
  <2>3. CASE total > 0
    <3>1. size - total = 0 /\ size = total
      BY <1>2, <1>5, <2>3
    <3>2. Zeroes(0) = <<>>
      BY DEF Zeroes
    <3> HIDE DEF a
    <3>3. Content(d) = a
      BY <2>1, <2>2, <3>1, <3>2
    <3> QED BY <3>1, <3>3 DEF a
  <2>4. CASE ~(total > 0)
    <3>1. total = 0 /\ size - total = size
      BY <1>5, <1>6, <2>4
    <3>2. a = <<>>
      <4> HIDE DEF a
      <4> QED BY <2>1, <3>1
    <3> DEFINE z == Zeroes(size)
    <3>3. z \in Seq(Byte)
      <4>1. z \in [1 .. size -> Byte]
        BY DEF Zeroes, Byte, Zero
      <4> HIDE DEF z
      <4> QED BY <1>6, <4>1, FunctionIsSeq
    <3>4. Content(d) = z
      <4> HIDE DEF z, a
      <4>1. Content(d) = <<>> \o z
        BY <2>2, <3>1, <3>2 DEF z
      <4> QED BY <3>3, <4>1
    <3>5. \A i \in 1 .. size : WholeByte(ext, 0 + i - 1) = Zero
      <4>1. \A i \in 1 .. size : 0 + i - 1 \in Nat /\ 0 + i - 1 >= total
        BY <1>6, <3>1
      <4> QED BY <1>7, <4>1
    <3>6. WholeBytes(ext, 0, size) = z
      BY <3>5 DEF WholeBytes, Zeroes
    <3> QED BY <3>4, <3>6
  <2> QED BY <2>3, <2>4
<1>9. /\ Content(d) \in [1 .. size -> Byte]
      /\ \A i \in 1 .. size : Content(d)[i] = WholeByte(ext, 0 + i - 1)
  <2> DEFINE c == WholeBytes(ext, 0, size)
  <2>1. c \in Seq(Byte) /\ Len(c) = size /\ \A i \in 1 .. size : c[i] = WholeByte(ext, 0 + i - 1)
    BY <1>1, <1>6, WholeBytesAre, ZenonT(30)
  <2> HIDE DEF c
  <2>2. c \in [1 .. size -> Byte]
    BY <2>1
  <2> QED BY <1>8, <2>1, <2>2 DEF c
<1>10. ASSUME NEW at \in 0 .. size, NEW n \in 0 .. size, at < size, n > 0, at + n <= size
       PROVE  ReadRange(d, at, n) = [i \in 1 .. n |-> Content(d)[at + i]]
  <2>1. Lesser(n, size - at) = n /\ ~(at >= size) /\ n # 0 /\ at \in Nat /\ n \in Nat
    BY <1>6, <1>10 DEF Lesser
  <2>2. ReadRange(d, at, n) = ReadFromExtents(ext, at, n)
    BY <2>1 DEF ReadRange, ext, size
  <2>3. ReadFromExtents(ext, at, n) = WholeBytes(ext, at, n)
    BY <1>1, <2>1, ReadFromExtentsIs
  <2>4. \A i \in 1 .. n : at + i \in 1 .. size /\ 0 + (at + i) - 1 = at + i - 1
    BY <1>6, <1>10
  <2>5. \A i \in 1 .. n : Content(d)[at + i] = WholeByte(ext, at + i - 1)
    BY <1>9, <2>4
  <2> QED BY <2>2, <2>3, <2>5 DEF WholeBytes
<1>11. VirtualSize(d) \in Nat /\ Content(d) \in [1 .. VirtualSize(d) -> Byte]
  BY <1>6, <1>9 DEF size
<1>12. \A at, n \in 0 .. VirtualSize(d) :
        at < VirtualSize(d) /\ n > 0 /\ at + n <= VirtualSize(d) =>
          ReadRange(d, at, n) = [i \in 1 .. n |-> Content(d)[at + i]]
  BY <1>10 DEF size
<1> QED BY <1>11, <1>12, ServedWhole

\* DiskReader delivers the bytes of every disk it can open natively.
LEMMA DriverIsFaithful == DriverFaithful
<1> SUFFICES ASSUME NEW v \in Views PROVE Faithful(Disks[v.disk])
  BY DEF DriverFaithful
<1>1. GoodDisk(Disks[v.disk])
  BY DiskAssumption
<1> QED BY <1>1, RawIsFaithful, SparseIsFaithful, ExtentsAreFaithful DEF GoodDisk

-----------------------------------------------------------------------------
(* What the driver and the view give. *)

\* The open view is one of the views, on a disk that the driver serves.
LEMMA ViewFacts ==
  ASSUME DriverFaithful, CacheInv
  PROVE  /\ base \in Nat /\ length \in Nat /\ DiskSize \in Nat
         /\ Content(Disks[disk]) \in [1 .. DiskSize -> Byte]
         /\ \A at, n \in 0 .. DiskSize : at + n <= DiskSize =>
              DriverBytes(Disks[disk], at, n) = SubSeq(Content(Disks[disk]), at + 1, at + n)
<1>1. PICK v \in Views : disk = v.disk /\ base = v.base /\ length = v.length
  BY DEF CacheInv
<1>2. base \in Nat /\ length \in Nat
  BY <1>1, ChunkAssumption
<1>3. /\ VirtualSize(Disks[v.disk]) \in Nat
      /\ Content(Disks[v.disk]) \in [1 .. VirtualSize(Disks[v.disk]) -> Nat \X Nat]
      /\ \A at, n \in 0 .. VirtualSize(Disks[v.disk]) :
           at + n <= VirtualSize(Disks[v.disk]) =>
             DriverBytes(Disks[v.disk], at, n) =
               SubSeq(Content(Disks[v.disk]), at + 1, at + n)
  BY DEF DriverFaithful, Faithful
<1> QED BY <1>1, <1>2, <1>3 DEF DiskSize, Byte

\* A chunk is a piece of the disk that ends with the disk if not before.
LEMMA ChunkIs ==
  ASSUME DriverFaithful, CacheInv, NEW k \in Nat
  PROVE  /\ ChunkBytes(k) \in Seq(Byte) /\ k * ChunkSize \in Nat
         /\ base + k * ChunkSize >= DiskSize => Len(ChunkBytes(k)) = 0
         /\ base + k * ChunkSize < DiskSize =>
              Len(ChunkBytes(k)) = Lesser(ChunkSize, DiskSize - (base + k * ChunkSize))
         /\ \A i \in 1 .. Len(ChunkBytes(k)) :
              ChunkBytes(k)[i] = Content(Disks[disk])[base + k * ChunkSize + i]
<1> DEFINE abs == base + k * ChunkSize
           whole == Content(Disks[disk])
<1>1. /\ base \in Nat /\ DiskSize \in Nat /\ whole \in [1 .. DiskSize -> Byte]
      /\ \A at, n \in 0 .. DiskSize : at + n <= DiskSize =>
           DriverBytes(Disks[disk], at, n) = SubSeq(whole, at + 1, at + n)
  BY ViewFacts
<1>2. k * ChunkSize \in Nat
  BY ChunkAssumption
<1>3. abs \in Nat
  BY <1>1, <1>2
<1>4. ChunkBytes(k) = IF abs < DiskSize
                      THEN DriverBytes(Disks[disk], abs, Lesser(ChunkSize, DiskSize - abs))
                      ELSE <<>>
  BY DEF ChunkBytes
<1> HIDE DEF abs, whole
<1>5. CASE abs < DiskSize
  <2> DEFINE n == Lesser(ChunkSize, DiskSize - abs)
  <2>1. n \in 0 .. DiskSize /\ abs \in 0 .. DiskSize /\ abs + n <= DiskSize
    <3>1. ChunkSize \in Nat /\ DiskSize \in Nat
      BY <1>1, ChunkAssumption
    <3> DEFINE sz == DiskSize
    <3> HIDE DEF sz
    <3>2. ChunkSize \in Nat /\ sz \in Nat /\ abs \in Nat /\ abs < sz
      BY <1>3, <1>5, <3>1 DEF sz
    <3>3. Lesser(ChunkSize, sz - abs) \in 0 .. sz /\ abs \in 0 .. sz
          /\ abs + Lesser(ChunkSize, sz - abs) <= sz
      BY <3>2 DEF Lesser
    <3> QED BY <3>3 DEF sz
  <2>2. ChunkBytes(k) = SubSeq(whole, abs + 1, abs + n)
    BY <1>1, <1>4, <1>5, <2>1
  <2> HIDE DEF n
  <2>3. /\ abs + 1 \in Int /\ abs + n \in Int
        /\ \A i \in abs + 1 .. abs + n : whole[i] \in Byte
    <3>1. abs + 1 .. abs + n \subseteq 1 .. DiskSize
      BY <1>1, <1>3, <2>1
    <3> QED BY <1>1, <1>3, <2>1, <3>1
  <2>4. /\ ChunkBytes(k) \in Seq(Byte)
        /\ Len(ChunkBytes(k)) = IF abs + 1 <= abs + n THEN (abs + n) - (abs + 1) + 1 ELSE 0
        /\ \A i \in 1 .. (abs + n) - (abs + 1) + 1 :
             ChunkBytes(k)[i] = whole[(abs + 1) + i - 1]
    BY <2>2, <2>3, SubSeqProperties
  <2>5. Len(ChunkBytes(k)) = n /\ (abs + n) - (abs + 1) + 1 = n
    BY <1>3, <2>1, <2>4
  <2>6. \A i \in 1 .. n : (abs + 1) + i - 1 = abs + i
    BY <1>3, <2>1
  <2>7. \A i \in 1 .. n : ChunkBytes(k)[i] = whole[abs + i]
    BY <2>4, <2>5, <2>6
  <2>8. ~(abs >= DiskSize)
    BY <1>1, <1>3, <1>5
  <2>9. Len(ChunkBytes(k)) = Lesser(ChunkSize, DiskSize - abs)
    BY <2>5 DEF n
  <2>10. \A i \in 1 .. Len(ChunkBytes(k)) : ChunkBytes(k)[i] = whole[abs + i]
    BY <2>5, <2>7
  <2> QED BY <1>2, <2>4, <2>8, <2>9, <2>10 DEF abs, whole
<1>6. CASE ~(abs < DiskSize)
  <2>1. ChunkBytes(k) = <<>>
    BY <1>4, <1>6
  <2>2. ChunkBytes(k) \in Seq(Byte) /\ Len(ChunkBytes(k)) = 0
    BY <2>1
  <2> QED BY <1>1, <1>2, <1>3, <1>6, <2>2 DEF abs, whole
<1> QED BY <1>5, <1>6

\* Where the loop stands in the chunks.
LEMMA HereIs ==
  ASSUME DriverFaithful, CacheInv
  PROVE  /\ Here \in Nat /\ ChunkIndex \in Nat /\ WithinChunk \in 0 .. ChunkSize - 1
         /\ Here = ChunkIndex * ChunkSize + WithinChunk
<1>1. Here \in Nat /\ ChunkSize \in Nat \ {0}
  BY ChunkAssumption DEF CacheInv, Here
<1> DEFINE x == Here
<1> HIDE DEF x
<1>2. \A m \in Nat, n \in Nat \ {0} :
        m \div n \in Nat /\ m % n \in 0 .. n - 1 /\ m = (m \div n) * n + (m % n)
  OBVIOUS
<1> QED BY <1>1, <1>2 DEF ChunkIndex, WithinChunk

-----------------------------------------------------------------------------
(* The cache and its history. *)

\* A use of chunk k moves it to the front of the history.
LEMMA TouchIs ==
  ASSUME uses \in Seq(Nat), \A p, q \in DOMAIN uses : uses[p] = uses[q] => p = q,
         NEW k \in Nat
  PROVE  /\ LastUse(k) \in 1 .. Len(uses) + 1 /\ Len(uses) \in Nat
         /\ LastUse(k) <= Len(uses) => uses[LastUse(k)] = k
         /\ LastUse(k) > Len(uses) => \A q \in 1 .. Len(uses) : uses[q] # k
         /\ Touch(k) \in Seq(Nat)
         /\ Len(Touch(k)) = IF LastUse(k) > Len(uses) THEN Len(uses) + 1 ELSE Len(uses)
         /\ \A i \in 1 .. Len(Touch(k)) :
              Touch(k)[i] = IF i = 1 THEN k ELSE IF i <= LastUse(k) THEN uses[i - 1] ELSE uses[i]
         /\ \A i, j \in DOMAIN Touch(k) : Touch(k)[i] = Touch(k)[j] => i = j
<1> DEFINE p == LastUse(k)
           n == Len(uses)
           m == IF p > n THEN p ELSE n
<1>1. n \in Nat /\ DOMAIN uses = 1 .. n /\ \A i \in 1 .. n : uses[i] \in Nat
  OBVIOUS
<1>4. /\ p \in 1 .. n + 1
      /\ p <= n => uses[p] = k
      /\ p > n => \A q \in 1 .. n : uses[q] # k
  <2>1. CASE \E q \in DOMAIN uses : uses[q] = k
    <3>1. p = CHOOSE q \in DOMAIN uses : uses[q] = k
      BY <2>1 DEF LastUse
    <3>2. p \in DOMAIN uses /\ uses[p] = k
      BY <2>1, <3>1
    <3> QED BY <1>1, <3>2
  <2>2. CASE ~\E q \in DOMAIN uses : uses[q] = k
    <3>1. p = n + 1
      BY <2>2 DEF LastUse
    <3> QED BY <1>1, <2>2, <3>1
  <2> QED BY <2>1, <2>2
<1>5. Touch(k) = [i \in 1 .. m |->
                    IF i = 1 THEN k ELSE IF i <= p THEN uses[i - 1] ELSE uses[i]]
  BY DEF Touch
<1> HIDE DEF p, n
<1>6. m \in Nat /\ m = IF p > n THEN n + 1 ELSE n
  BY <1>1, <1>4
<1>7. \A i \in 1 .. m : /\ i # 1 /\ i <= p => i - 1 \in 1 .. n
                        /\ i # 1 /\ ~(i <= p) => i \in 1 .. n
  BY <1>1, <1>4, <1>6
<1>8. \A i \in 1 .. m :
        (IF i = 1 THEN k ELSE IF i <= p THEN uses[i - 1] ELSE uses[i]) \in Nat
  BY <1>1, <1>7
<1> HIDE DEF m
<1>9. Touch(k) \in [1 .. m -> Nat]
  BY <1>5, <1>8
<1>10. Touch(k) \in Seq(Nat) /\ Len(Touch(k)) = m /\ DOMAIN Touch(k) = 1 .. m
  BY <1>6, <1>9
<1>11. \A i \in 1 .. m :
        Touch(k)[i] = IF i = 1 THEN k ELSE IF i <= p THEN uses[i - 1] ELSE uses[i]
  BY <1>5
<1>12. \A q \in 1 .. n : uses[q] = k => q = p
  BY <1>1, <1>4
<1>13. \A i, j \in 1 .. m : Touch(k)[i] = Touch(k)[j] => i = j
  <2> SUFFICES ASSUME NEW i \in 1 .. m, NEW j \in 1 .. m, i < j
               PROVE  Touch(k)[i] # Touch(k)[j]
    BY <1>6
  <2> DEFINE old(x) == IF x <= p THEN x - 1 ELSE x
  <2>1. old(j) \in 1 .. n /\ Touch(k)[j] = uses[old(j)] /\ old(j) # p
    BY <1>4, <1>6, <1>7, <1>11
  <2>2. CASE i = 1
    BY <1>11, <1>12, <2>1, <2>2
  <2>3. CASE i # 1
    <3>1. old(i) \in 1 .. n /\ Touch(k)[i] = uses[old(i)] /\ old(i) # old(j)
      BY <1>4, <1>6, <1>7, <1>11, <2>3
    <3> QED BY <1>1, <2>1, <3>1
  <2> QED BY <2>2, <2>3
<1> QED BY <1>1, <1>4, <1>6, <1>10, <1>11, <1>13 DEF p, n

\* What the history says of the cache, entry by entry.
LEMMA CacheIs ==
  ASSUME CacheInv
  PROVE  LET L == Lesser(MaxChunks, Len(uses)) IN
         /\ Len(uses) \in Nat /\ MaxChunks \in Nat \ {0} /\ L \in Nat
         /\ L <= MaxChunks /\ L <= Len(uses) /\ (L = MaxChunks \/ L = Len(uses))
         /\ cache \in Seq({Entry(j) : j \in Nat})
         /\ Len(cache) = L /\ DOMAIN cache = 1 .. L
         /\ \A p \in 1 .. L :
              uses[p] \in Nat /\ cache[p] = Entry(uses[p]) /\ cache[p].chunk = uses[p]
<1> DEFINE L == Lesser(MaxChunks, Len(uses))
<1>1. Len(uses) \in Nat /\ MaxChunks \in Nat \ {0} /\ \A p \in 1 .. Len(uses) : uses[p] \in Nat
  BY ChunkAssumption DEF CacheInv
<1>2. L \in Nat /\ L <= MaxChunks /\ L <= Len(uses) /\ (L = MaxChunks \/ L = Len(uses))
  BY <1>1 DEF Lesser
<1>3. cache = [p \in 1 .. L |-> Entry(uses[p])]
  BY DEF CacheInv
<1> HIDE DEF L
<1>4. \A p \in 1 .. L : uses[p] \in Nat
  BY <1>1, <1>2
<1>5. cache \in [1 .. L -> {Entry(j) : j \in Nat}]
  BY <1>3, <1>4
<1>6. cache \in Seq({Entry(j) : j \in Nat}) /\ Len(cache) = L /\ DOMAIN cache = 1 .. L
  BY <1>2, <1>5
<1>7. \A p \in 1 .. L : cache[p] = Entry(uses[p]) /\ cache[p].chunk = uses[p]
  BY <1>3 DEF Entry
<1> QED BY <1>1, <1>2, <1>4, <1>6, <1>7 DEF L

\* The entry of the chunk that was hit, moved to the front.
LEMMA HitCache ==
  ASSUME CacheInv, NEW k \in Nat, NEW h \in DOMAIN cache, cache[h].chunk = k
  PROVE  ToFront(cache, h) =
           [q \in 1 .. Lesser(MaxChunks, Len(Touch(k))) |-> Entry(Touch(k)[q])]
<1> DEFINE L == Lesser(MaxChunks, Len(uses))
<1>1. /\ Len(uses) \in Nat /\ L \in Nat /\ L <= Len(uses)
      /\ cache \in Seq({Entry(j) : j \in Nat}) /\ Len(cache) = L /\ DOMAIN cache = 1 .. L
      /\ \A p \in 1 .. L : cache[p] = Entry(uses[p]) /\ cache[p].chunk = uses[p]
  BY CacheIs
<1>2. /\ LastUse(k) \in 1 .. Len(uses) + 1
      /\ LastUse(k) <= Len(uses) => uses[LastUse(k)] = k
      /\ LastUse(k) > Len(uses) => \A q \in 1 .. Len(uses) : uses[q] # k
      /\ Len(Touch(k)) = IF LastUse(k) > Len(uses) THEN Len(uses) + 1 ELSE Len(uses)
      /\ \A i \in 1 .. Len(Touch(k)) :
           Touch(k)[i] = IF i = 1 THEN k ELSE IF i <= LastUse(k) THEN uses[i - 1] ELSE uses[i]
  <2>1. uses \in Seq(Nat) /\ \A p, q \in DOMAIN uses : uses[p] = uses[q] => p = q
    BY DEF CacheInv
  <2> QED BY <2>1, TouchIs
<1> HIDE DEF L
<1>3. h \in 1 .. L /\ h \in 1 .. Len(uses) /\ uses[h] = k
  BY <1>1
<1>4. LastUse(k) \in 1 .. Len(uses) /\ LastUse(k) <= Len(uses)
  BY <1>1, <1>2, <1>3
<1>5. LastUse(k) = h
  <2>1. \A p, q \in DOMAIN uses : uses[p] = uses[q] => p = q
    BY DEF CacheInv
  <2>2. DOMAIN uses = 1 .. Len(uses)
    BY DEF CacheInv
  <2>3. uses[LastUse(k)] = uses[h]
    BY <1>2, <1>3, <1>4
  <2> QED BY <1>3, <1>4, <2>1, <2>2, <2>3
<1>6. Len(Touch(k)) = Len(uses)
  BY <1>1, <1>2, <1>4
<1>7. ToFront(cache, h) =
        [q \in 1 .. L |-> IF q = 1 THEN cache[h] ELSE IF q <= h THEN cache[q - 1] ELSE cache[q]]
  BY <1>1, <1>3, ToFrontIs
<1>8. ASSUME NEW q \in 1 .. L
      PROVE  (IF q = 1 THEN cache[h] ELSE IF q <= h THEN cache[q - 1] ELSE cache[q])
               = Entry(Touch(k)[q])
  <2>1. Touch(k)[q] = IF q = 1 THEN k ELSE IF q <= h THEN uses[q - 1] ELSE uses[q]
    BY <1>1, <1>2, <1>5, <1>6
  <2>2. CASE q = 1
    BY <1>1, <1>3, <2>1, <2>2
  <2>3. CASE q # 1
    <3>1. q - 1 \in 1 .. L
      BY <1>1, <2>3
    <3> QED BY <1>1, <2>1, <2>3, <3>1
  <2> QED BY <2>2, <2>3
<1>9. ToFront(cache, h) = [q \in 1 .. L |-> Entry(Touch(k)[q])]
  BY <1>7, <1>8
<1> QED BY <1>6, <1>9 DEF L

\* The chunk that was missed, in front of what a full cache keeps.
LEMMA MissCache ==
  ASSUME CacheInv, NEW k \in Nat, \A p \in DOMAIN cache : cache[p].chunk # k
  PROVE  LET kept == IF Len(cache) >= MaxChunks
                     THEN SubSeq(cache, 1, Len(cache) - 1) ELSE cache IN
         <<Entry(k)>> \o kept =
           [q \in 1 .. Lesser(MaxChunks, Len(Touch(k))) |-> Entry(Touch(k)[q])]
<1> DEFINE L == Lesser(MaxChunks, Len(uses))
           kept == IF Len(cache) >= MaxChunks THEN SubSeq(cache, 1, Len(cache) - 1) ELSE cache
           S == {Entry(j) : j \in Nat}
           M == Lesser(MaxChunks, Len(Touch(k)))
<1>1. /\ Len(uses) \in Nat /\ MaxChunks \in Nat \ {0} /\ L \in Nat
      /\ L <= MaxChunks /\ L <= Len(uses) /\ (L = MaxChunks \/ L = Len(uses))
      /\ cache \in Seq(S) /\ Len(cache) = L /\ DOMAIN cache = 1 .. L
      /\ \A p \in 1 .. L : cache[p] = Entry(uses[p]) /\ cache[p].chunk = uses[p]
  BY CacheIs
<1>2. /\ LastUse(k) \in 1 .. Len(uses) + 1
      /\ LastUse(k) <= Len(uses) => uses[LastUse(k)] = k
      /\ Len(Touch(k)) = IF LastUse(k) > Len(uses) THEN Len(uses) + 1 ELSE Len(uses)
      /\ \A i \in 1 .. Len(Touch(k)) :
           Touch(k)[i] = IF i = 1 THEN k ELSE IF i <= LastUse(k) THEN uses[i - 1] ELSE uses[i]
  <2>1. uses \in Seq(Nat) /\ \A p, q \in DOMAIN uses : uses[p] = uses[q] => p = q
    BY DEF CacheInv
  <2> QED BY <2>1, TouchIs
<1> HIDE DEF L, S
<1>3. LastUse(k) > L
  <2> SUFFICES ASSUME LastUse(k) <= L PROVE FALSE
    BY <1>1, <1>2
  <2>1. LastUse(k) \in 1 .. L /\ uses[LastUse(k)] = k
    BY <1>1, <1>2
  <2> QED BY <1>1, <2>1
<1>4. kept \in Seq(S) /\ M \in Nat /\ Len(kept) = M - 1 /\ M >= 1 /\ M - 1 <= L /\ M <= Len(Touch(k))
      /\ \A q \in 1 .. M - 1 : kept[q] = cache[q]
  <2>1. CASE L >= MaxChunks
    <3>1. L = MaxChunks /\ kept = SubSeq(cache, 1, L - 1)
      BY <1>1, <2>1
    <3>2. kept \in Seq(S) /\ Len(kept) = L - 1 /\ \A q \in 1 .. L - 1 : kept[q] = cache[q]
      <4> HIDE DEF kept
      <4> QED BY <1>1, <3>1
    <3>3. M = MaxChunks /\ MaxChunks <= Len(Touch(k))
      BY <1>1, <1>2, <2>1 DEF Lesser
    <3> HIDE DEF kept, M
    <3> QED BY <1>1, <3>1, <3>2, <3>3
  <2>2. CASE ~(L >= MaxChunks)
    <3>1. L = Len(uses) /\ kept = cache
      BY <1>1, <2>2
    <3>2. Len(Touch(k)) = L + 1
      BY <1>1, <1>2, <1>3, <3>1
    <3>3. M = L + 1
      BY <1>1, <2>2, <3>2 DEF Lesser
    <3> HIDE DEF kept, M
    <3> QED BY <1>1, <3>1, <3>2, <3>3
  <2> QED BY <2>1, <2>2
<1> HIDE DEF kept, M
<1>5. Entry(k) \in S
  BY DEF S
<1>6. <<Entry(k)>> \o kept = [q \in 1 .. Len(kept) + 1 |-> IF q = 1 THEN Entry(k) ELSE kept[q - 1]]
  BY <1>4, <1>5, PushFront
<1>7. Len(kept) + 1 = M
  BY <1>4
<1>8. ASSUME NEW q \in 1 .. M
      PROVE  (IF q = 1 THEN Entry(k) ELSE kept[q - 1]) = Entry(Touch(k)[q])
  <2>1. q \in 1 .. Len(Touch(k))
    BY <1>1, <1>2, <1>4
  <2>2. CASE q = 1
    BY <1>2, <2>1, <2>2
  <2>3. CASE q # 1
    <3>1. q - 1 \in 1 .. M - 1 /\ q - 1 \in 1 .. L /\ q <= LastUse(k)
      BY <1>1, <1>2, <1>3, <1>4, <2>3
    <3>2. Touch(k)[q] = uses[q - 1]
      BY <1>2, <2>1, <2>3, <3>1
    <3>3. kept[q - 1] = Entry(uses[q - 1])
      BY <1>1, <1>4, <3>1
    <3> QED BY <2>3, <3>2, <3>3
  <2> QED BY <2>2, <2>3
<1>9. <<Entry(k)>> \o kept = [q \in 1 .. M |-> Entry(Touch(k)[q])]
  BY <1>6, <1>7, <1>8
<1> QED BY <1>9 DEF M, kept

\* Found or loaded, the chunk ends up in front of the chunks used last.
LEMMA Loaded ==
  ASSUME DriverFaithful, CacheInv, CacheHit \/ CacheMiss
  PROVE  /\ uses' = Touch(ChunkIndex)
         /\ cache' = [q \in 1 .. Lesser(MaxChunks, Len(uses')) |-> Entry(uses'[q])]
         /\ Len(cache') > 0 /\ cache'[1].chunk = ChunkIndex
<1>1. ChunkIndex \in Nat
  BY HereIs
<1>2. uses' = Touch(ChunkIndex)
  BY DEF CacheHit, CacheMiss
<1> DEFINE k == ChunkIndex
<1>3. cache' = [q \in 1 .. Lesser(MaxChunks, Len(Touch(k))) |-> Entry(Touch(k)[q])]
  <2>1. CASE CacheHit
    <3> DEFINE ok(q) == /\ cache[q].chunk = ChunkIndex
                        /\ \A r \in 1 .. q - 1 : cache[r].chunk # ChunkIndex
               h == CHOOSE q \in DOMAIN cache : ok(q)
    <3>1. cache' = ToFront(cache, h) /\ \E q \in DOMAIN cache : cache[q].chunk = k
      BY <2>1 DEF CacheHit, Hit
    <3>2. PICK q \in DOMAIN cache : cache[q].chunk = k
      BY <3>1
    <3>3. ok(q)
      <4>1. /\ Len(uses) \in Nat /\ DOMAIN cache \subseteq 1 .. Len(uses) /\ DOMAIN cache = 1 .. Len(cache)
            /\ Len(cache) \in Nat
            /\ \A i \in DOMAIN cache : cache[i].chunk = uses[i]
        BY CacheIs
      <4>2. DOMAIN uses = 1 .. Len(uses) /\ \A i, j \in DOMAIN uses : uses[i] = uses[j] => i = j
        BY DEF CacheInv
      <4>3. ASSUME NEW r \in 1 .. q - 1 PROVE cache[r].chunk # ChunkIndex
        <5>1. r \in DOMAIN cache /\ r # q
          BY <4>1
        <5> QED BY <3>2, <4>1, <4>2, <5>1
      <4> QED BY <3>2, <4>3
    <3>4. h \in DOMAIN cache /\ cache[h].chunk = k
      <4> HIDE DEF ok
      <4>1. h \in DOMAIN cache /\ ok(h)
        BY <3>3
      <4> QED BY <4>1 DEF ok
    <3> HIDE DEF h
    <3> QED BY <1>1, <3>1, <3>4, HitCache
  <2>2. CASE CacheMiss
    <3>1. \A q \in DOMAIN cache : cache[q].chunk # k
      BY <2>2 DEF CacheMiss, Hit
    <3>2. cache' = <<Entry(k)>> \o (IF Len(cache) >= MaxChunks
                                    THEN SubSeq(cache, 1, Len(cache) - 1) ELSE cache)
      BY <2>2 DEF CacheMiss, Entry
    <3> QED BY <1>1, <3>1, <3>2, MissCache
  <2> QED BY <2>1, <2>2
<1>4. Touch(k)[1] = k /\ Len(Touch(k)) \in Nat \ {0}
  <2>1. uses \in Seq(Nat) /\ \A p, q \in DOMAIN uses : uses[p] = uses[q] => p = q
    BY DEF CacheInv
  <2>2. /\ LastUse(k) \in 1 .. Len(uses) + 1 /\ Len(uses) \in Nat
        /\ Len(Touch(k)) = IF LastUse(k) > Len(uses) THEN Len(uses) + 1 ELSE Len(uses)
        /\ \A i \in 1 .. Len(Touch(k)) :
             Touch(k)[i] = IF i = 1 THEN k ELSE IF i <= LastUse(k) THEN uses[i - 1] ELSE uses[i]
    BY <1>1, <2>1, TouchIs
  <2>3. Len(Touch(k)) \in Nat \ {0}
    BY <2>2
  <2> QED BY <2>2, <2>3
<1>5. Lesser(MaxChunks, Len(Touch(k))) \in Nat \ {0}
  BY <1>4, ChunkAssumption DEF Lesser
<1> DEFINE L == Lesser(MaxChunks, Len(Touch(k)))
<1> HIDE DEF L
<1>6. cache' = [q \in 1 .. L |-> Entry(Touch(k)[q])] /\ L \in Nat \ {0}
  BY <1>3, <1>5 DEF L
<1>7. Len(cache') = L /\ cache'[1] = Entry(k)
  BY <1>4, <1>6
<1>8. cache' = [q \in 1 .. Lesser(MaxChunks, Len(uses')) |-> Entry(uses'[q])]
  BY <1>2, <1>3
<1>9. Len(cache') > 0
  BY <1>6, <1>7
<1>10. cache'[1].chunk = ChunkIndex
  BY <1>7 DEF Entry
<1> QED BY <1>2, <1>8, <1>9, <1>10

-----------------------------------------------------------------------------
(* The bytes. *)

\* What a read that stops here has delivered: it has all it wants, or the disk
\* ends here.
LEMMA SliceIs ==
  ASSUME DriverFaithful, CacheInv, ReadInv, pc # "idle",
         Len(buf) = Want \/ base + from + Len(buf) >= DiskSize
  PROVE  buf = Slice(from, asked)
<1> DEFINE whole == Content(Disks[disk])
           l == Len(buf)
           x == base + from
           size == DiskSize
           w == Want
           E == Lesser(DiskSize, base + from + Lesser(asked, length - from))
<1>1. /\ x \in Nat /\ l \in Nat /\ length \in Nat /\ asked \in Nat /\ from \in Nat
      /\ size \in Nat /\ whole \in [1 .. size -> Byte]
  BY ViewFacts DEF CacheInv
<1>2. /\ buf \in Seq(Byte) /\ l <= w /\ (l > 0 => x + l <= size) /\ (l = w \/ x + l >= size)
      /\ \A i \in 1 .. l : buf[i] = whole[x + i]
  BY DEF ReadInv, Byte
<1>3. CASE from >= length
  <2>1. w = 0 /\ Slice(from, asked) = <<>>
    BY <1>3 DEF Want, Slice
  <2>2. l = 0
    BY <1>1, <1>2, <2>1
  <2> QED BY <1>2, <2>1, <2>2
<1>4. CASE ~(from >= length)
  <2>1. Slice(from, asked) = SubSeq(whole, x + 1, E)
    BY <1>4 DEF Slice
  <2>2. /\ w \in Nat /\ w = Lesser(length - from, asked)
        /\ Lesser(length - from, asked) = Lesser(asked, length - from)
    BY <1>1, <1>4 DEF Want, Lesser
  <2>3. E = Lesser(size, x + w)
    BY <2>2
  <2> HIDE DEF l, x, size, w, whole, E
  <2>4. E \in Nat /\ ((l = 0 /\ E <= x) \/ (l > 0 /\ E = x + l /\ E <= size))
    BY <1>1, <1>2, <2>2, <2>3 DEF Lesser
  <2>5. x + 1 .. E \subseteq 1 .. size
    BY <1>1, <2>4
  <2>6. \A i \in x + 1 .. E : whole[i] \in Byte
    BY <1>1, <2>5
  <2>7. x + 1 \in Int /\ E \in Int
    BY <1>1, <2>4
  <2> DEFINE piece == SubSeq(whole, x + 1, E)
  <2>8. /\ piece \in Seq(Byte)
        /\ Len(piece) = IF x + 1 <= E THEN E - (x + 1) + 1 ELSE 0
        /\ \A i \in 1 .. E - (x + 1) + 1 : piece[i] = whole[(x + 1) + i - 1]
    BY <2>6, <2>7, SubSeqProperties
  <2> HIDE DEF piece
  <2>9. Len(piece) = l
    BY <1>1, <2>4, <2>8
  <2>10. ASSUME NEW i \in 1 .. l PROVE piece[i] = buf[i]
    <3>1. i \in 1 .. E - (x + 1) + 1 /\ (x + 1) + i - 1 = x + i
      BY <1>1, <2>4
    <3> QED BY <1>2, <2>8, <3>1
  <2>11. buf = piece
    <3>1. Len(buf) = l
      BY DEF l
    <3> QED BY <1>2, <2>8, <2>9, <2>10, <3>1
  <2> QED BY <2>1, <2>11 DEF piece
<1> QED BY <1>3, <1>4

\* What Copy takes from the chunk in front.
LEMMA CopyGives ==
  ASSUME DriverFaithful, CacheInv, ReadInv, pc = "copy"
  PROVE  LET data == cache[1].data
             n == Lesser(Want - Len(buf), Len(data) - WithinChunk)
             more == buf \o SubSeq(data, WithinChunk + 1, WithinChunk + n)
         IN /\ WithinChunk >= Len(data) => base + from + Len(buf) >= DiskSize
            /\ WithinChunk < Len(data) =>
                 /\ more \in Seq(Byte) /\ Len(more) <= Want
                 /\ base + from + Len(more) <= DiskSize
                 /\ \A i \in 1 .. Len(more) : more[i] = Content(Disks[disk])[base + from + i]
<1> DEFINE whole == Content(Disks[disk])
           data == cache[1].data
           k == ChunkIndex
           W == WithinChunk
           l == Len(buf)
           x == base + from
           A == base + k * ChunkSize
           D == Len(data)
           n == Lesser(Want - l, D - W)
           size == DiskSize
           w == Want
           piece == SubSeq(data, W + 1, W + n)
           more == buf \o piece
<1>1. /\ base \in Nat /\ from \in Nat /\ asked \in Nat /\ length \in Nat
      /\ x \in Nat /\ l \in Nat /\ size \in Nat
  BY ViewFacts DEF CacheInv
<1>2. /\ buf \in Seq(Byte) /\ l < w /\ Len(cache) > 0 /\ cache[1].chunk = k
      /\ \A i \in 1 .. l : buf[i] = whole[x + i]
  BY DEF ReadInv, Byte
<1>3. w \in Nat
  BY <1>1 DEF Want, Lesser
<1>4. data = ChunkBytes(k)
  <2>1. Len(cache) \in Nat /\ \A p \in 1 .. Len(cache) : cache[p] = Entry(uses[p]) /\ cache[p].chunk = uses[p]
    BY CacheIs
  <2>2. 1 \in 1 .. Len(cache)
    BY <1>2, <2>1
  <2>3. cache[1] = Entry(k)
    BY <1>2, <2>1, <2>2
  <2> QED BY <2>3 DEF Entry
<1>5. k \in Nat /\ W \in 0 .. ChunkSize - 1 /\ from + l = k * ChunkSize + W
  BY HereIs DEF Here
<1>6. /\ data \in Seq(Byte) /\ k * ChunkSize \in Nat
      /\ A >= size => D = 0
      /\ A < size => D = Lesser(ChunkSize, size - A)
      /\ \A i \in 1 .. D : data[i] = whole[A + i]
  BY <1>4, <1>5, ChunkIs
<1>7. ChunkSize \in Nat /\ D \in Nat /\ A \in Nat /\ x + l = A + W /\ W \in Nat /\ W < ChunkSize
  <2>1. ChunkSize \in Nat /\ D \in Nat
    BY <1>6, ChunkAssumption
  <2> DEFINE y == k * ChunkSize
  <2>2. y \in Nat /\ from + l = y + W
    BY <1>5, <1>6
  <2> HIDE DEF y, W, l, D
  <2> QED BY <1>1, <1>5, <2>1, <2>2 DEF y
<1> HIDE DEF whole, data, k, W, l, x, A, D, size, w
<1>8. W >= D => x + l >= size
  BY <1>1, <1>6, <1>7 DEF Lesser
<1>9. ASSUME W < D
      PROVE  /\ more \in Seq(Byte) /\ Len(more) <= w /\ x + Len(more) <= size
             /\ \A i \in 1 .. Len(more) : more[i] = whole[x + i]
  <2>1. n = Lesser(w - l, D - W)
    BY DEF w
  <2> HIDE DEF n
  <2>2. n \in Nat /\ n >= 1 /\ W + n <= D /\ l + n <= w
    BY <1>1, <1>2, <1>3, <1>7, <1>9, <2>1 DEF Lesser
  <2>3. A + D <= size
    BY <1>1, <1>6, <1>7, <1>9 DEF Lesser
  <2>4. /\ W + 1 \in Int /\ W + n \in Int
        /\ \A i \in W + 1 .. W + n : data[i] \in Byte
    <3>1. W + 1 .. W + n \subseteq 1 .. Len(data)
      BY <1>7, <2>2 DEF D
    <3> QED BY <1>6, <1>7, <2>2, <3>1
  <2>5. /\ piece \in Seq(Byte)
        /\ Len(piece) = IF W + 1 <= W + n THEN (W + n) - (W + 1) + 1 ELSE 0
        /\ \A i \in 1 .. (W + n) - (W + 1) + 1 : piece[i] = data[(W + 1) + i - 1]
    BY <2>4, SubSeqProperties
  <2> HIDE DEF piece
  <2>6. Len(piece) = n /\ \A i \in 1 .. n : piece[i] = data[W + i]
    <3>1. (W + n) - (W + 1) + 1 = n /\ \A i \in 1 .. n : (W + 1) + i - 1 = W + i
      BY <1>7, <2>2
    <3>2. W + 1 <= W + n
      BY <1>7, <2>2
    <3> QED BY <2>5, <3>1, <3>2
  <2>7. /\ more \in Seq(Byte) /\ Len(more) = l + n
        /\ \A i \in 1 .. l + n : more[i] = IF i <= l THEN buf[i] ELSE piece[i - l]
    <3>1. /\ more \in Seq(Byte) /\ Len(more) = Len(buf) + Len(piece)
          /\ \A i \in 1 .. Len(buf) + Len(piece) :
               more[i] = IF i <= Len(buf) THEN buf[i] ELSE piece[i - Len(buf)]
      BY <1>2, <2>5, ConcatProperties
    <3> QED BY <2>6, <3>1 DEF l
  <2> HIDE DEF more
  <2>8. ASSUME NEW i \in 1 .. l + n PROVE more[i] = whole[x + i]
    <3>1. CASE i <= l
      <4>1. more[i] = buf[i]
        BY <2>7, <3>1
      <4>2. i \in 1 .. l
        BY <1>1, <2>2, <3>1
      <4> QED BY <1>2, <4>1, <4>2
    <3>2. CASE ~(i <= l)
      <4>1. /\ i - l \in 1 .. n /\ W + (i - l) \in 1 .. D
            /\ A + (W + (i - l)) = x + i
        BY <1>1, <1>7, <2>2, <3>2
      <4>2. more[i] = piece[i - l]
        BY <2>7, <3>2
      <4>3. piece[i - l] = data[W + (i - l)]
        BY <2>6, <4>1
      <4>4. data[W + (i - l)] = whole[A + (W + (i - l))]
        BY <1>6, <4>1
      <4> QED BY <4>1, <4>2, <4>3, <4>4
    <3> QED BY <3>1, <3>2
  <2>9. l + n <= w /\ x + (l + n) <= size
    BY <1>1, <1>7, <2>2, <2>3
  <2> QED BY <2>7, <2>8, <2>9
<1> QED BY <1>8, <1>9 DEF whole, data, W, l, x, D, size, w

-----------------------------------------------------------------------------
(* Every step keeps the cache and the bytes right. *)

\* A view is opened once: no step changes it, nor what a read of it should give.
LEMMA ViewKept ==
  ASSUME [Next]_vars
  PROVE  /\ UNCHANGED view
         /\ disk' = disk /\ base' = base /\ length' = length /\ DiskSize' = DiskSize
         /\ UNCHANGED <<from, asked>> => Want' = Want /\ Slice(from, asked)' = Slice(from, asked)
         /\ UNCHANGED <<from, buf>> => ChunkIndex' = ChunkIndex
<1>1. UNCHANGED view
  BY DEF Next, Step, Done, CacheHit, CacheMiss, DriverFails, Copy, Seek, Finished, BeginRead, vars
<1>2. disk' = disk /\ base' = base /\ length' = length
  BY <1>1 DEF view
<1>3. DiskSize' = DiskSize
  BY <1>2 DEF DiskSize
<1>4. UNCHANGED <<from, asked>> => Want' = Want
  BY <1>2 DEF Want
<1>5. UNCHANGED <<from, asked>> => Slice(from, asked)' = Slice(from, asked)
  BY <1>2, <1>3 DEF Slice
<1>6. UNCHANGED <<from, buf>> => ChunkIndex' = ChunkIndex
  BY DEF ChunkIndex, Here
<1> QED BY <1>1, <1>2, <1>3, <1>4, <1>5, <1>6

\* The cache is changed by a hit and by a miss, and by nothing else.
LEMMA CacheStep ==
  ASSUME DriverFaithful, CacheInv, ReadInv, [Next]_vars, Len(buf') \in Nat
  PROVE  CacheInv'
<1>1. UNCHANGED view
  BY ViewKept
<1>2. \E v \in Views : disk' = v.disk /\ base' = v.base /\ length' = v.length
  BY ViewKept DEF CacheInv
<1>3. /\ base \in Nat /\ length \in Nat /\ from \in Nat /\ asked \in Nat /\ position \in Nat
      /\ Len(buf) \in Nat /\ MaxSeek \in Nat /\ MaxRead \in Nat
  BY ViewFacts, ChunkAssumption DEF CacheInv
<1>4. from' \in Nat /\ asked' \in Nat /\ position' \in Nat
  <2>1. CASE Step
    BY <1>3, <2>1 DEF Step, Done, CacheHit, CacheMiss, DriverFails, Copy, Deliver
  <2>2. CASE Seek
    <3>1. PICK whence \in {0, length, position}, d \in -MaxSeek .. MaxSeek :
            whence + d >= 0 /\ position' = whence + d
      BY <2>2 DEF Seek
    <3>2. position' \in Nat
      BY <1>3, <3>1
    <3> QED BY <1>3, <2>2, <3>2 DEF Seek
  <2>3. CASE Finished \/ UNCHANGED vars
    BY <1>3, <2>3 DEF Finished, vars
  <2>4. ASSUME NEW n \in 0 .. MaxRead, NEW moves \in BOOLEAN,
               NEW pos \in 0 .. length + 1 \cup {position}, BeginRead(pos, n, moves)
        PROVE  from' \in Nat /\ asked' \in Nat /\ position' \in Nat
    BY <1>3, <2>4 DEF BeginRead
  <2> QED BY <2>1, <2>2, <2>3, <2>4 DEF Next
<1>5. /\ uses' \in Seq(Nat)
      /\ \A p, q \in DOMAIN uses' : uses'[p] = uses'[q] => p = q
      /\ cache' = [p \in 1 .. Lesser(MaxChunks, Len(uses')) |-> Entry(uses'[p])]
  <2>1. CASE CacheHit \/ CacheMiss
    <3>1. ChunkIndex \in Nat
      BY HereIs
    <3>2. uses \in Seq(Nat) /\ \A p, q \in DOMAIN uses : uses[p] = uses[q] => p = q
      BY DEF CacheInv
    <3>3. /\ Touch(ChunkIndex) \in Seq(Nat)
          /\ \A i, j \in DOMAIN Touch(ChunkIndex) :
               Touch(ChunkIndex)[i] = Touch(ChunkIndex)[j] => i = j
      BY <3>1, <3>2, TouchIs
    <3>4. /\ uses' = Touch(ChunkIndex)
          /\ cache' = [q \in 1 .. Lesser(MaxChunks, Len(uses')) |-> Entry(uses'[q])]
      BY <2>1, Loaded
    <3> QED BY <3>3, <3>4
  <2>2. CASE UNCHANGED <<cache, uses>>
    BY <2>2 DEF CacheInv
  <2> QED BY <2>1, <2>2
    DEF Next, Step, Done, DriverFails, Copy, Seek, Finished, BeginRead, vars
<1>6. \A p : Entry(uses[p])' = Entry(uses'[p])
  BY <1>1 DEF Entry, ChunkBytes, DiskSize, view
<1>7. cache' = [p \in 1 .. Lesser(MaxChunks, Len(uses')) |-> Entry(uses[p])']
  BY <1>5, <1>6
<1> QED BY <1>2, <1>4, <1>5, <1>7 DEF CacheInv

\* A read that goes on has copied what lies on the disk, and one that stops has
\* copied all of it.
LEMMA ReadStep ==
  ASSUME DriverFaithful, CacheInv, ReadInv, [Next]_vars
  PROVE  ReadInv'
<1> DEFINE Copied(b) ==
             /\ b \in Seq(Byte) /\ Len(b) <= Want
             /\ Len(b) > 0 => base + from + Len(b) <= DiskSize
             /\ \A i \in 1 .. Len(b) : b[i] = Content(Disks[disk])[base + from + i]
<1>1. /\ disk' = disk /\ base' = base /\ length' = length /\ DiskSize' = DiskSize
      /\ UNCHANGED <<from, asked>> => Want' = Want /\ Slice(from, asked)' = Slice(from, asked)
      /\ UNCHANGED <<from, buf>> => ChunkIndex' = ChunkIndex
  BY ViewKept
<1>2. pc \in {"idle", "load", "copy"} /\ buf \in Seq(Byte) /\ ReadsTheDisk
  BY DEF ReadInv, Byte
<1>3. pc # "idle" => answer = "none" /\ Copied(buf)
  BY DEF ReadInv, Byte
<1>4. CASE UNCHANGED <<pc, buf, from, asked, answer>> /\ pc = "idle"
  BY <1>1, <1>2, <1>4 DEF ReadInv, ReadsTheDisk, Byte
<1>5. ASSUME NEW n \in 0 .. MaxRead, NEW moves \in BOOLEAN,
             NEW pos \in 0 .. length + 1 \cup {position}, BeginRead(pos, n, moves)
      PROVE  ReadInv'
  <2>1. pc' = "load" /\ buf' = <<>> /\ answer' = "none" /\ from' = pos /\ asked' = n
    BY <1>5 DEF BeginRead
  <2>2. length \in Nat /\ position \in Nat /\ MaxRead \in Nat
    BY ViewFacts, ChunkAssumption DEF CacheInv
  <2>3. from' \in Nat /\ asked' \in Nat
    BY <2>1, <2>2
  <2>4. Want' \in Nat
    <3>1. \A a, b, c \in Nat : (IF a >= b THEN 0 ELSE Lesser(b - a, c)) \in Nat
      BY DEF Lesser
    <3>2. Want' = IF from' >= length THEN 0 ELSE Lesser(length - from', asked')
      BY <1>1 DEF Want
    <3> QED BY <2>2, <2>3, <3>1, <3>2
  <2>5. buf' \in Seq(Byte) /\ Len(buf') = 0
    BY <2>1
  <2>6. Len(buf') <= Want' /\ ~(Len(buf') > 0) /\ 1 .. Len(buf') = {}
    BY <2>4, <2>5
  <2> QED BY <2>1, <2>5, <2>6 DEF ReadInv, ReadsTheDisk, Byte
<1>6. CASE Seek
  BY <1>2, <1>6 DEF Seek, ReadInv, ReadsTheDisk, Byte
<1>7. ASSUME UNCHANGED <<from, asked, buf>>, pc' = "idle", buf = Slice(from, asked)
      PROVE  ReadInv'
  BY <1>1, <1>2, <1>7 DEF ReadInv, ReadsTheDisk, Byte
<1>8. CASE Done
  <2>1. pc # "idle" /\ Len(buf) = Want /\ UNCHANGED <<from, asked, buf>> /\ pc' = "idle"
    BY <1>8 DEF Done, Deliver
  <2> QED BY <1>7, <2>1, SliceIs
<1>9. CASE DriverFails
  <2>1. UNCHANGED buf /\ pc' = "idle" /\ answer' = "error"
    BY <1>9 DEF DriverFails
  <2> QED BY <1>2, <2>1 DEF ReadInv, ReadsTheDisk, Byte
<1>10. CASE CacheHit \/ CacheMiss
  <2>1. /\ pc = "load" /\ Len(buf) < Want /\ pc' = "copy"
        /\ UNCHANGED <<from, asked, buf, answer>>
    BY <1>10 DEF CacheHit, CacheMiss
  <2>2. Len(cache') > 0 /\ cache'[1].chunk = ChunkIndex'
    BY <1>1, <1>10, <2>1, Loaded
  <2>3. answer' = "none" /\ buf' = buf /\ from' = from /\ Want' = Want /\ Copied(buf)
    BY <1>1, <1>3, <2>1
  <2> QED BY <1>1, <2>1, <2>2, <2>3 DEF ReadInv, ReadsTheDisk, Byte
<1>11. CASE Copy
  <2> DEFINE data == cache[1].data
             n == Lesser(Want - Len(buf), Len(data) - WithinChunk)
             more == buf \o SubSeq(data, WithinChunk + 1, WithinChunk + n)
  <2>1. pc = "copy" /\ UNCHANGED <<from, asked>>
    BY <1>11 DEF Copy
  <2>2. /\ WithinChunk >= Len(data) => base + from + Len(buf) >= DiskSize
        /\ WithinChunk < Len(data) =>
             /\ more \in Seq(Byte) /\ Len(more) <= Want
             /\ base + from + Len(more) <= DiskSize
             /\ \A i \in 1 .. Len(more) : more[i] = Content(Disks[disk])[base + from + i]
    BY <2>1, CopyGives
  <2>3. CASE WithinChunk >= Len(data) /\ Deliver /\ UNCHANGED buf
    <3>1. pc' = "idle" /\ UNCHANGED <<from, asked, buf>>
      BY <2>1, <2>3 DEF Deliver
    <3>2. buf = Slice(from, asked)
      BY <2>1, <2>2, <2>3, SliceIs
    <3> QED BY <1>7, <3>1, <3>2
  <2>4. CASE WithinChunk < Len(data) /\ buf' = more /\ pc' = "load" /\ UNCHANGED <<position, answer>>
    <3> HIDE DEF more
    <3>1. answer' = "none" /\ from' = from /\ Want' = Want
      BY <1>1, <1>3, <2>1, <2>4
    <3> QED BY <1>1, <2>2, <2>4, <3>1 DEF ReadInv, ReadsTheDisk, Byte
  <2> QED BY <1>11, <2>3, <2>4 DEF Copy
<1>12. CASE Finished
  BY <1>4, <1>12 DEF Finished, vars
<1>13. CASE UNCHANGED vars
  <2>1. UNCHANGED <<pc, buf, from, asked, answer, cache>>
    BY <1>13 DEF vars
  <2> QED BY <1>1, <2>1 DEF ReadInv, ReadsTheDisk
<1> QED BY <1>5, <1>6, <1>8, <1>9, <1>10, <1>11, <1>12, <1>13 DEF Next, Step

-----------------------------------------------------------------------------

\* For every disk the driver serves faithfully: the history tells what the
\* cache holds, and what a read has copied is what lies on the disk.
THEOREM DiskInvariant == Spec => [](CacheInv /\ ReadInv)
<1>1. ASSUME Init PROVE CacheInv /\ ReadInv
  <2>1. uses = <<>> /\ cache = <<>> /\ buf = <<>> /\ MaxChunks \in Nat
    BY <1>1, ChunkAssumption DEF Init
  <2>2. uses \in Seq(Nat) /\ Len(uses) = 0 /\ DOMAIN uses = {} /\ Lesser(MaxChunks, Len(uses)) = 0
        /\ 1 .. 0 = {}
    BY <2>1 DEF Lesser
  <2>3. cache = [p \in 1 .. Lesser(MaxChunks, Len(uses)) |-> Entry(uses[p])]
    BY <2>1, <2>2
  <2>4. CacheInv
    BY <1>1, <2>1, <2>2, <2>3 DEF Init, CacheInv
  <2>5. ReadInv
    BY <1>1, <2>1 DEF Init, ReadInv, ReadsTheDisk
  <2> QED BY <2>4, <2>5
<1>2. ASSUME CacheInv, ReadInv, [Next]_vars PROVE CacheInv' /\ ReadInv'
  <2>1. ReadInv'
    BY <1>2, DriverIsFaithful, ReadStep
  <2>2. Len(buf') \in Nat
    <3>1. buf' \in Seq(Nat \X Nat)
      BY <2>1 DEF ReadInv
    <3> QED BY <3>1
  <2> QED BY <1>2, <2>1, <2>2, DriverIsFaithful, CacheStep
<1> QED BY <1>1, <1>2, PTL DEF Spec

\* A read through the cache delivers exactly the bytes of the disk it asks for
\* (read_with_cache), for every chunk size, cache size, view and disk.
THEOREM ReadsAreTheDisk == Spec => []ReadsTheDisk
<1>1. ReadInv => ReadsTheDisk
  BY DEF ReadInv
<1> QED BY <1>1, DiskInvariant, PTL

\* The cache holds the chunks used last, each once and with its bytes, for every
\* chunk size, cache size, view and disk.
THEOREM CacheIsLeastRecentlyUsed == Spec => []LeastRecentlyUsed
<1>1. ASSUME CacheInv PROVE LeastRecentlyUsed
  <2>1. /\ Len(cache) = Lesser(MaxChunks, Len(uses)) /\ DOMAIN cache = 1 .. Len(cache)
        /\ \A p \in 1 .. Len(cache) : cache[p] = Entry(uses[p]) /\ cache[p].chunk = uses[p]
    BY <1>1, CacheIs
  <2> QED BY <2>1 DEF LeastRecentlyUsed, Entry
<1> QED BY <1>1, DiskInvariant, PTL
=============================================================================
