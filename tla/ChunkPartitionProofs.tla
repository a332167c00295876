------------------------ MODULE ChunkPartitionProofs ------------------------
(***************************************************************************)
(* The ranges chunk_range hands out partition [0, count), for every count, *)
(* thread count and min_per_chunk; and the arithmetic of ranges and of     *)
(* indices in rows, for the other proofs.                                  *)
(***************************************************************************)
EXTENDS ChunkPartition, WellFoundedInduction, TLAPS

\* A set of naturals that is not empty has a least element.
LEMMA LeastNatural ==
  ASSUME NEW T \in SUBSET Nat, T # {}
  PROVE  \E x \in T : \A y \in T : x <= y
<1> DEFINE R == {ss \in Nat \X Nat : ss[1] < ss[2]}
<1>1. IsWellFoundedOn(R, Nat)
  BY NatLessThanWellFounded DEF OpToRel
<1>2. PICK x \in T : \A y \in T : <<y, x>> \notin R
  <2> HIDE DEF R
  <2> QED BY <1>1, WFMin
<1>3. x \in Nat
  OBVIOUS
<1>4. ASSUME NEW y \in T PROVE x <= y
  <2>1. y \in Nat /\ <<y, x>> \in Nat \X Nat
    BY <1>3
  <2>2. ~(y < x)
    BY <1>2, <2>1
  <2> QED BY <1>3, <2>1, <2>2
<1> QED BY <1>4

\* Quotient and remainder of naturals.
LEMMA DivMod ==
  ASSUME NEW a \in Nat, NEW b \in Nat \ {0}
  PROVE  /\ a \div b \in Nat
         /\ a % b \in 0 .. (b - 1)
         /\ a = b * (a \div b) + (a % b)
  OBVIOUS

\* Multiplication by a natural is monotone.
LEMMA ProductMonotone ==
  ASSUME NEW i \in Int, NEW j \in Int, NEW b \in Nat, i <= j
  PROVE  i * b <= j * b
<1>1. ASSUME NEW m \in Nat PROVE m * b \in Nat
  OBVIOUS
<1>2. (j - i) * b \in Nat
  BY <1>1
<1>3. (j - i) * b = j * b - i * b
  OBVIOUS
<1> QED BY <1>2, <1>3

\* The only quotient a remainder below the divisor leaves.
LEMMA DivUnique ==
  ASSUME NEW q \in Nat, NEW r \in Nat, NEW b \in Nat \ {0}, r < b
  PROVE  (b * q + r) \div b = q
<1> DEFINE a == b * q + r
           d == a \div b
<1>1. b * q \in Nat
  OBVIOUS
<1>2. a \in Nat
  BY <1>1
<1>3. d \in Nat /\ a % b \in 0 .. (b - 1) /\ a = b * d + (a % b)
  BY <1>2, DivMod
<1>4. ASSUME d < q PROVE FALSE
  <2>1. (d + 1) * b <= q * b
    BY <1>3, <1>4, ProductMonotone
  <2>2. (d + 1) * b = b * d + b /\ q * b = b * q
    BY <1>3
  <2>3. b * d \in Nat
    BY <1>3
  <2> HIDE DEF d
  <2> QED BY <1>1, <1>3, <2>1, <2>2, <2>3
<1>5. ASSUME q < d PROVE FALSE
  <2>1. (q + 1) * b <= d * b
    BY <1>3, <1>5, ProductMonotone
  <2>2. (q + 1) * b = b * q + b /\ d * b = b * d
    BY <1>3
  <2>3. b * d \in Nat
    BY <1>3
  <2> HIDE DEF d
  <2> QED BY <1>1, <1>3, <2>1, <2>2, <2>3
<1> QED BY <1>3, <1>4, <1>5

\* The quotient and the remainder that a sum has been put together from.
LEMMA DivModUnique ==
  ASSUME NEW q \in Nat, NEW b \in Nat \ {0}, NEW r \in 0 .. (b - 1)
  PROVE  (b * q + r) \div b = q /\ (b * q + r) % b = r
<1>1. b * q \in Nat /\ b * q + r \in Nat /\ r \in Nat /\ r < b
  OBVIOUS
<1>2. (b * q + r) \div b = q
  BY <1>1, DivUnique
<1> DEFINE a == b * q + r
<1>3. a % b \in 0 .. (b - 1) /\ a = b * (a \div b) + (a % b)
  BY <1>1, DivMod
<1>4. a = b * q + (a % b)
  BY <1>2, <1>3
<1> QED BY <1>1, <1>2, <1>3, <1>4

\* A quotient is bounded as the dividend is.
LEMMA DivBounds ==
  ASSUME NEW a \in Nat, NEW b \in Nat \ {0}, NEW q \in Nat
  PROVE  /\ a < b * q => a \div b < q
         /\ b * q <= a => q <= a \div b
<1> DEFINE d == a \div b
           r == a % b
<1>1. d \in Nat /\ r \in 0 .. (b - 1) /\ a = b * d + r /\ b * d \in Nat /\ b * q \in Nat
  <2>1. \A i, j \in Nat : i * j \in Nat
    OBVIOUS
  <2> QED BY <2>1, DivMod
<1> HIDE DEF d, r
<1>2. ASSUME a < b * q PROVE d < q
  <2> SUFFICES ASSUME q <= d PROVE FALSE
    BY <1>1
  <2>1. q * b <= d * b
    BY <1>1, ProductMonotone
  <2>2. q * b = b * q /\ d * b = b * d
    BY <1>1
  <2> QED BY <1>1, <1>2, <2>1, <2>2
<1>3. ASSUME b * q <= a PROVE q <= d
  <2> SUFFICES ASSUME d + 1 <= q PROVE FALSE
    BY <1>1
  <2>1. (d + 1) * b <= q * b
    BY <1>1, ProductMonotone
  <2>2. (d + 1) * b = b * d + b /\ q * b = b * q
    BY <1>1
  <2> QED BY <1>1, <1>3, <2>1, <2>2
<1> QED BY <1>2, <1>3 DEF d

\* The product of two numbers that are not zero.
LEMMA ProductPositive ==
  ASSUME NEW a \in Nat \ {0}, NEW b \in Nat \ {0}
  PROVE  a * b \in Nat \ {0}
OBVIOUS

\* Multiplication by a positive number is strictly monotone.
LEMMA ProductStrict ==
  ASSUME NEW i \in Int, NEW j \in Int, NEW b \in Nat \ {0}, i < j
  PROVE  i * b < j * b
<1>1. (i + 1) * b <= j * b
  BY ProductMonotone
<1>2. (i + 1) * b = i * b + b /\ i * b \in Int /\ j * b \in Int
  OBVIOUS
<1> QED BY <1>1, <1>2

\* A task is its token and its head.
LEMMA TaskParts ==
  ASSUME NEW count \in Nat, NEW heads \in Nat \ {0},
         NEW task \in 0 .. (count * heads - 1)
  PROVE  /\ task \in Nat
         /\ task \div heads \in 0 .. (count - 1) /\ task % heads \in 0 .. (heads - 1)
         /\ task = heads * (task \div heads) + (task % heads)
<1>0. count * heads \in Nat
  OBVIOUS
<1>1. task \in Nat /\ task < count * heads
  BY <1>0
<1> DEFINE q == task \div heads
<1>2. q \in Nat /\ task % heads \in 0 .. (heads - 1)
      /\ task = heads * q + (task % heads)
  BY <1>1, DivMod
<1>3. q < count
  <2> SUFFICES ASSUME count <= q PROVE FALSE
    BY <1>2
  <2>1. count * heads <= q * heads
    BY <1>2, ProductMonotone
  <2>2. q * heads = heads * q /\ q * heads \in Int
    BY <1>2
  <2> QED BY <1>0, <1>1, <1>2, <2>1, <2>2
<1> QED BY <1>1, <1>2, <1>3

\* Tasks whose tokens have different slots, or that differ in the head, are on
\* different rows of slot * heads + head.
LEMMA SlotRowsDiffer ==
  ASSUME NEW heads \in Nat \ {0}, NEW s \in Nat, NEW t \in Nat,
         NEW g \in 0 .. (heads - 1), NEW h \in 0 .. (heads - 1),
         s # t \/ g # h
  PROVE  /\ s * heads + g \in Nat /\ t * heads + h \in Nat
         /\ s * heads + g # t * heads + h
<1>1. s * heads \in Nat /\ t * heads \in Nat
  OBVIOUS
<1>2. ASSUME NEW m \in Nat, NEW n \in Nat, m < n PROVE m * heads + heads <= n * heads
  <2>1. (m + 1) * heads <= n * heads
    BY <1>2, ProductMonotone
  <2>2. (m + 1) * heads = m * heads + heads
    OBVIOUS
  <2> QED BY <2>1, <2>2
<1>3. CASE s < t
  BY <1>1, <1>2, <1>3
<1>4. CASE t < s
  BY <1>1, <1>2, <1>4
<1>5. CASE s = t
  BY <1>1, <1>5
<1> QED BY <1>1, <1>3, <1>4, <1>5

\* A cell of a matrix has one row and one column.
LEMMA TileIndexDiffers ==
  ASSUME NEW n \in Nat \ {0},
         NEW a \in Nat, NEW b \in Nat, NEW x \in 0 .. (n - 1), NEW y \in 0 .. (n - 1),
         a * n + x = b * n + y
  PROVE  a = b /\ x = y
BY SlotRowsDiffer

\* The task of a token and a head.
TaskNumber(heads, t, h) == t * heads + h

\* It is one of the tasks ...
LEMMA TaskInRange ==
  ASSUME NEW count \in Nat, NEW heads \in Nat \ {0},
         NEW t \in 0 .. (count - 1), NEW h \in 0 .. (heads - 1)
  PROVE  TaskNumber(heads, t, h) \in 0 .. (count * heads - 1)
<1>1. (t + 1) * heads <= count * heads
  BY ProductMonotone
<1>2. (t + 1) * heads = t * heads + heads /\ t * heads \in Nat /\ count * heads \in Nat
  OBVIOUS
<1> QED BY <1>1, <1>2 DEF TaskNumber

\* ... and has that token and that head.
LEMMA PartsOfTask ==
  ASSUME NEW heads \in Nat \ {0}, NEW t \in Nat, NEW h \in 0 .. (heads - 1)
  PROVE  /\ TaskNumber(heads, t, h) \div heads = t
         /\ TaskNumber(heads, t, h) % heads = h
<1> DEFINE i == TaskNumber(heads, t, h)
           d == i \div heads
           r == i % heads
<1>1. i = t * heads + h /\ i \in Nat
  <2>1. t * heads \in Nat
    OBVIOUS
  <2> QED BY <2>1 DEF TaskNumber
<1>2. d \in Nat /\ r \in 0 .. (heads - 1) /\ i = heads * d + r
  <2> HIDE DEF i
  <2> QED BY <1>1, DivMod
<1>3. d * heads + r = t * heads + h
  <2> HIDE DEF i, d, r
  <2> QED BY <1>1, <1>2
<1>4. d = t /\ r = h
  <2> HIDE DEF i, d, r
  <2> QED BY <1>2, <1>3, TileIndexDiffers
<1> QED BY <1>4

\* run() cuts a region into at least one part and at most one per thread.
THEOREM PartsBounds ==
  ASSUME NEW count \in Nat \ {0}, NEW m \in Int, NEW total \in Nat \ {0}
  PROVE  /\ Parts(count, m, total) \in 1 .. total
         /\ Parts(count, m, total) <= count
<1> DEFINE d == EffectiveMin(m)
           q == count \div d
<1>1. d \in Nat \ {0}
  BY DEF EffectiveMin
<1>2. q \in Nat /\ count >= d * q
  BY <1>1, DivMod, SMTT(30)
<1>3. q <= d * q
  <2>1. 1 * q <= d * q
    BY <1>1, <1>2, ProductMonotone
  <2> QED BY <2>1, <1>1, <1>2
<1>4. d * q \in Nat
  BY <1>1, <1>2
<1>5. q <= count
  BY <1>1, <1>2, <1>3, <1>4
<1> HIDE DEF q
<1> QED BY <1>2, <1>5 DEF Parts, Clamp, q

-----------------------------------------------------------------------------
\* The parts begin at 0, follow one another without gap, and end at count.
LEMMA ChunksAdjacent ==
  ASSUME NEW count \in Nat, NEW parts \in Nat \ {0}
  PROVE  /\ ChunkBegin(count, parts, 0) = 0
         /\ ChunkEnd(count, parts, parts - 1) = count
         /\ \A i \in 0 .. (parts - 1) :
              /\ ChunkBegin(count, parts, i) \in Nat
              /\ ChunkEnd(count, parts, i) = ChunkBegin(count, parts, i + 1)
              /\ ChunkBegin(count, parts, i) <= ChunkEnd(count, parts, i)
<1> DEFINE q == Base(count, parts)
           r == Rem(count, parts)
<1>1. q \in Nat /\ r \in 0 .. (parts - 1) /\ count = parts * q + r
  BY DivMod DEF Base, Rem
<1> HIDE DEF q, r
<1>2. ChunkBegin(count, parts, 0) = 0
  BY <1>1 DEF ChunkBegin, q, r
<1>3. ASSUME NEW i \in 0 .. (parts - 1)
      PROVE  /\ ChunkBegin(count, parts, i) \in Nat
             /\ ChunkEnd(count, parts, i) = ChunkBegin(count, parts, i + 1)
             /\ ChunkBegin(count, parts, i) <= ChunkEnd(count, parts, i)
  <2>1. i * q \in Nat
    BY <1>1
  <2>2. (i + 1) * q = i * q + q
    BY <1>1
  <2>3. ChunkBegin(count, parts, i) = i * q + (IF i < r THEN i ELSE r)
    BY DEF ChunkBegin, q, r
  <2>4. ChunkBegin(count, parts, i + 1)
          = (i + 1) * q + (IF i + 1 < r THEN i + 1 ELSE r)
    BY DEF ChunkBegin, q, r
  <2>5. ChunkEnd(count, parts, i)
          = ChunkBegin(count, parts, i) + q + (IF i < r THEN 1 ELSE 0)
    BY DEF ChunkEnd, q, r
  <2> QED BY <1>1, <2>1, <2>2, <2>3, <2>4, <2>5
<1>4. ChunkEnd(count, parts, parts - 1) = count
  <2>1. ChunkEnd(count, parts, parts - 1) = (parts - 1) * q + r + q
    BY <1>1 DEF ChunkEnd, ChunkBegin, q, r
  <2>2. (parts - 1) * q + q = parts * q
    BY <1>1
  <2> QED BY <1>1, <2>1, <2>2
<1> QED BY <1>2, <1>3, <1>4

\* A part ends before every later one begins.
LEMMA ChunksOrdered ==
  ASSUME NEW count \in Nat, NEW parts \in Nat \ {0},
         NEW i \in 0 .. (parts - 1), NEW j \in 0 .. (parts - 1), i < j
  PROVE  /\ ChunkBegin(count, parts, i) \in Nat
         /\ ChunkEnd(count, parts, i) \in Nat
         /\ ChunkBegin(count, parts, j) \in Nat
         /\ ChunkEnd(count, parts, i) <= ChunkBegin(count, parts, j)
<1> DEFINE q == Base(count, parts)
           r == Rem(count, parts)
<1>1. q \in Nat /\ r \in 0 .. (parts - 1)
  BY DivMod DEF Base, Rem
<1> HIDE DEF q, r
<1>2. (i + 1) * q <= j * q
  BY <1>1, ProductMonotone
<1>3. ChunkEnd(count, parts, i) = ChunkBegin(count, parts, i + 1)
  BY ChunksAdjacent
<1>4. ChunkBegin(count, parts, i + 1)
        = (i + 1) * q + (IF i + 1 < r THEN i + 1 ELSE r)
  BY DEF ChunkBegin, q, r
<1>5. ChunkBegin(count, parts, j) = j * q + (IF j < r THEN j ELSE r)
  BY DEF ChunkBegin, q, r
<1>6. ChunkBegin(count, parts, i) \in Nat /\ ChunkBegin(count, parts, j) \in Nat
  BY ChunksAdjacent
<1>7. j * q \in Int /\ (i + 1) * q \in Nat
  BY <1>1
<1> QED BY <1>1, <1>2, <1>3, <1>4, <1>5, <1>6, <1>7

\* Two parts never share an item: the ranges handed to two workers are
\* disjoint (thread_pool.h:19).
THEOREM ChunksDisjoint ==
  ASSUME NEW count \in Nat, NEW parts \in Nat \ {0},
         NEW i \in 0 .. (parts - 1), NEW j \in 0 .. (parts - 1), i # j
  PROVE  Chunk(count, parts, i) \cap Chunk(count, parts, j) = {}
<1>1. ASSUME NEW a \in 0 .. (parts - 1), NEW b \in 0 .. (parts - 1), a < b
      PROVE  Chunk(count, parts, a) \cap Chunk(count, parts, b) = {}
  BY <1>1, ChunksOrdered DEF Chunk
<1>2. CASE i < j
  BY <1>1, <1>2
<1>3. CASE j < i
  BY <1>1, <1>3
<1> QED BY <1>2, <1>3

\* The parts are inside [0, count) and every item is in one of them.  The part
\* of item k is computed, not found by induction: the first Rem parts hold
\* Base + 1 items each, the others Base.
THEOREM ChunksCover ==
  ASSUME NEW count \in Nat, NEW parts \in Nat \ {0}
  PROVE  /\ \A i \in 0 .. (parts - 1) : Chunk(count, parts, i) \subseteq 0 .. (count - 1)
         /\ \A k \in 0 .. (count - 1) :
              \E i \in 0 .. (parts - 1) : k \in Chunk(count, parts, i)
<1> DEFINE q == Base(count, parts)
           r == Rem(count, parts)
<1>1. q \in Nat /\ r \in 0 .. (parts - 1) /\ count = parts * q + r
  BY DivMod DEF Base, Rem
<1> HIDE DEF q, r
<1>2. ASSUME NEW i \in 0 .. (parts - 1)
      PROVE  Chunk(count, parts, i) \subseteq 0 .. (count - 1)
  <2>1. ChunkBegin(count, parts, i) \in Nat
    BY ChunksAdjacent
  <2>2. ChunkEnd(count, parts, i) \in Nat /\ ChunkEnd(count, parts, i) <= count
    <3>1. CASE i = parts - 1
      BY <3>1, ChunksAdjacent
    <3>2. CASE i < parts - 1
      <4>1. ChunkEnd(count, parts, i) <= ChunkBegin(count, parts, parts - 1)
        BY <3>2, ChunksOrdered
      <4>2. /\ ChunkBegin(count, parts, parts - 1) <= count
            /\ ChunkBegin(count, parts, parts - 1) \in Nat
        BY ChunksAdjacent
      <4>3. ChunkEnd(count, parts, i) \in Nat
        <5>1. parts - 1 \in 0 .. (parts - 1) /\ i < parts - 1
          BY <3>2
        <5> QED BY <5>1, ChunksOrdered
      <4> QED BY <4>1, <4>2, <4>3
    <3> QED BY <3>1, <3>2
  <2> QED BY <2>1, <2>2 DEF Chunk
<1>3. ASSUME NEW k \in 0 .. (count - 1)
      PROVE  \E i \in 0 .. (parts - 1) : k \in Chunk(count, parts, i)
  <2> DEFINE long == r * (q + 1)
  <2>1. long \in Nat /\ long = r * q + r
    BY <1>1
  <2>2. CASE k < long
    <3> DEFINE b == q + 1
               i == k \div b
               s == k % b
    <3>1. i \in Nat /\ s \in 0 .. q /\ k = (q + 1) * i + s
      <4>1. k \in Nat /\ b \in Nat \ {0}
        BY <1>1
      <4> HIDE DEF b
      <4>2. i \in Nat /\ s \in 0 .. (b - 1) /\ k = b * i + s
        BY <4>1, DivMod
      <4> QED BY <4>2, <1>1 DEF b
    <3> HIDE DEF i, s
    <3>2. i < r
      <4>1. SUFFICES ASSUME r <= i PROVE FALSE
        BY <1>1, <3>1
      <4>2. r * (q + 1) <= i * (q + 1)
        BY <4>1, <1>1, <3>1, ProductMonotone
      <4> QED BY <4>2, <3>1, <2>2, <1>1
    <3>3. ChunkBegin(count, parts, i) = i * q + i
      BY <3>2, <1>1, <3>1 DEF ChunkBegin, q, r
    <3>4. ChunkEnd(count, parts, i) = i * q + i + q + 1
      BY <3>2, <3>3 DEF ChunkEnd, q, r
    <3>5. (q + 1) * i = i * q + i /\ i * q \in Nat
      BY <1>1, <3>1
    <3>6. i \in 0 .. (parts - 1)
      BY <3>1, <3>2, <1>1
    <3>7. k \in Chunk(count, parts, i)
      BY <3>1, <3>3, <3>4, <3>5, <1>1 DEF Chunk
    <3> QED BY <3>6, <3>7
  <2>3. CASE k >= long
    <3>1. q # 0
      BY <2>3, <2>1, <1>1
    <3> DEFINE e == k - long
               t == e \div q
               s == e % q
               i == r + t
    <3>2. e \in Nat /\ k = e + long
      BY <2>1, <2>3
    <3>3. t \in Nat /\ s \in 0 .. (q - 1) /\ e = q * t + s
      BY <3>1, <3>2, <1>1, DivMod
    <3> HIDE DEF t, s, e
    <3>4. i < parts
      <4>1. SUFFICES ASSUME parts <= i PROVE FALSE
        BY <1>1, <3>3
      <4>2. parts * q <= i * q
        BY <4>1, <1>1, <3>3, ProductMonotone
      <4>3. i * q = r * q + t * q /\ t * q = q * t
        BY <1>1, <3>3
      <4>4. r * q \in Nat /\ t * q \in Nat /\ parts * q \in Nat
        BY <1>1, <3>3
      <4>5. k = r * q + r + t * q + s
        BY <2>1, <3>2, <3>3, <4>3, <4>4, <1>1
      <4>6. k < parts * q + r
        BY <1>1
      <4> QED BY <4>2, <4>3, <4>4, <4>5, <4>6, <1>1, <3>3
    <3>5. i \in Nat /\ i * q = r * q + t * q /\ t * q = q * t /\ r * q \in Nat
          /\ t * q \in Nat
      BY <1>1, <3>3
    <3> HIDE DEF i
    <3>6. ~(i < r)
      BY <1>1, <3>3 DEF i
    <3>7. ChunkBegin(count, parts, i) = i * q + r
      BY <3>6, <3>5, <1>1 DEF ChunkBegin, q, r
    <3>8. ChunkEnd(count, parts, i) = i * q + r + q
      BY <3>6, <3>7, <3>5, <1>1 DEF ChunkEnd, q, r
    <3>9. k = i * q + r + s
      BY <2>1, <3>2, <3>3, <3>5, <1>1
    <3> QED BY <3>3, <3>4, <3>5, <3>7, <3>8, <3>9, <1>1 DEF Chunk
  <2> QED BY <2>1, <2>2, <2>3
<1> QED BY <1>2, <1>3

\* No part is empty when there are at most as many parts as items.
LEMMA ChunksNotEmpty ==
  ASSUME NEW count \in Nat \ {0}, NEW parts \in Nat \ {0}, parts <= count,
         NEW i \in 0 .. (parts - 1)
  PROVE  Chunk(count, parts, i) # {}
<1> DEFINE q == Base(count, parts)
           r == Rem(count, parts)
<1>1. q \in Nat /\ r \in 0 .. (parts - 1) /\ count = parts * q + r
  BY DivMod DEF Base, Rem
<1> HIDE DEF q, r
<1>2. q # 0
  BY <1>1
<1>3. ChunkBegin(count, parts, i) \in Nat
  BY ChunksAdjacent
<1>4. ChunkEnd(count, parts, i)
        = ChunkBegin(count, parts, i) + q + (IF i < r THEN 1 ELSE 0)
  BY DEF ChunkEnd, q, r
<1>5. ChunkBegin(count, parts, i) \in Chunk(count, parts, i)
  BY <1>1, <1>2, <1>3, <1>4 DEF Chunk
<1> QED BY <1>5

\* No part is finer than min_per_chunk, except the only one of a region that is
\* smaller than that altogether (thread_pool.h:21).
THEOREM ChunksNotTooFine ==
  ASSUME NEW count \in Nat \ {0}, NEW m \in Int, NEW total \in Nat \ {0},
         NEW i \in 0 .. (Parts(count, m, total) - 1),
         Parts(count, m, total) > 1
  PROVE  LET p == Parts(count, m, total)
         IN ChunkEnd(count, p, i) - ChunkBegin(count, p, i) >= m
<1> DEFINE d == EffectiveMin(m)
           x == count \div d
           p == Parts(count, m, total)
           q == Base(count, p)
           r == Rem(count, p)
<1>1. d \in Nat \ {0} /\ d >= m
  BY DEF EffectiveMin
<1>2. x \in Nat /\ count >= d * x /\ d * x \in Nat
  <2> HIDE DEF d
  <2>1. x \in Nat /\ count % d \in 0 .. (d - 1) /\ count = d * x + (count % d)
    BY <1>1, DivMod
  <2> HIDE DEF x
  <2> QED BY <2>1, <1>1
<1>3. p \in Nat \ {0} /\ p <= x
  <2> HIDE DEF x
  <2> QED BY <1>2 DEF Parts, Clamp, x
<1> HIDE DEF p, x, d
<1>4. q \in Nat /\ r \in 0 .. (p - 1) /\ count = p * q + r
  BY <1>3, DivMod DEF Base, Rem
<1> HIDE DEF q, r
<1>5. d <= q
  <2>1. SUFFICES ASSUME q + 1 <= d PROVE FALSE
    BY <1>1, <1>4
  <2>2. (q + 1) * p <= d * p
    BY <2>1, <1>1, <1>3, <1>4, ProductMonotone
  <2>3. p * d <= x * d
    BY <1>1, <1>2, <1>3, ProductMonotone
  <2>4. (q + 1) * p = p * q + p /\ d * p = p * d /\ x * d = d * x
    BY <1>1, <1>2, <1>3, <1>4
  <2>5. p * q \in Nat /\ p * d \in Nat
    BY <1>1, <1>3, <1>4
  <2> QED BY <2>2, <2>3, <2>4, <2>5, <1>1, <1>2, <1>3, <1>4
<1>6. ChunkEnd(count, p, i) - ChunkBegin(count, p, i) = q + (IF i < r THEN 1 ELSE 0)
  <2>1. ChunkBegin(count, p, i) \in Nat
    BY <1>3, ChunksAdjacent DEF p
  <2> QED BY <2>1, <1>4 DEF ChunkEnd, q, r
<1> QED BY <1>1, <1>4, <1>5, <1>6 DEF p
=============================================================================
