-------------------------- MODULE PagedDecodingProofs --------------------------
(***************************************************************************)
(* Proofs about PagedDecoding, for every number of rows, beams, blocks and *)
(* drafts, and all models: the invariant IInv is kept by every step, and   *)
(* from it follow that the cache holds the rows' histories, what the       *)
(* metadata says of the next pass, that drafts spare what is computed, and *)
(* that decoding implements TokenStreams.                                  *)
(***************************************************************************)
EXTENDS PagedDecoding, ChunkPartitionProofs, FiniteSetTheorems, FunctionTheorems, SequenceTheorems

-----------------------------------------------------------------------------
(* Sequences of tokens and their prefixes.                                 *)

\* A prefix of a sequence.
LEMMA Prefix ==
  ASSUME NEW S, NEW s \in Seq(S), NEW k \in 0 .. Len(s)
  PROVE  /\ SubSeq(s, 1, k) \in Seq(S)
         /\ Len(SubSeq(s, 1, k)) = k
         /\ \A i \in 1 .. k : SubSeq(s, 1, k)[i] = s[i]
         /\ SubSeq(s, 1, Len(s)) = s
<1>1. Len(s) \in Nat /\ k \in Nat /\ \A i \in 1 .. k : s[i] \in S
  BY LenProperties, ElementOfSeq
<1>2. /\ SubSeq(s, 1, k) \in Seq(S)
      /\ Len(SubSeq(s, 1, k)) = IF 1 <= k THEN k - 1 + 1 ELSE 0
      /\ \A i \in 1 .. k - 1 + 1 : SubSeq(s, 1, k)[i] = s[1 + i - 1]
  BY <1>1, SubSeqProperties
<1> QED BY <1>1, <1>2, SubSeqFull

\* A prefix of a prefix.
LEMMA PrefixOfPrefix ==
  ASSUME NEW S, NEW s \in Seq(S), NEW n \in 0 .. Len(s), NEW k \in 0 .. n
  PROVE  SubSeq(SubSeq(s, 1, n), 1, k) = SubSeq(s, 1, k)
<1>1. Len(s) \in Nat /\ n \in Nat /\ k \in 0 .. Len(s)
  BY LenProperties
<1> DEFINE t == SubSeq(s, 1, n)
<1>2. t \in Seq(S) /\ Len(t) = n /\ \A i \in 1 .. n : t[i] = s[i]
  BY Prefix
<1>3. SubSeq(s, 1, k) \in Seq(S) /\ Len(SubSeq(s, 1, k)) = k
      /\ \A i \in 1 .. k : SubSeq(s, 1, k)[i] = s[i]
  BY <1>1, Prefix
<1> HIDE DEF t
<1>4. SubSeq(t, 1, k) \in Seq(S) /\ Len(SubSeq(t, 1, k)) = k
      /\ \A i \in 1 .. k : SubSeq(t, 1, k)[i] = t[i]
  BY <1>2, Prefix
<1>5. \A i \in 1 .. k : i \in 1 .. n
  BY <1>1
<1> HIDE DEF t
<1>6. SubSeq(t, 1, k) = SubSeq(s, 1, k)
  BY <1>2, <1>3, <1>4, <1>5, SeqEqual
<1> QED BY <1>6 DEF t

\* Prefixes of two sequences, one after the other.
LEMMA PrefixOfConcat ==
  ASSUME NEW S, NEW s \in Seq(S), NEW t \in Seq(S)
  PROVE  /\ \A k \in 0 .. Len(s) : SubSeq(s \o t, 1, k) = SubSeq(s, 1, k)
         /\ \A k \in 0 .. Len(t) : SubSeq(s \o t, 1, Len(s) + k) = s \o SubSeq(t, 1, k)
<1>1. Len(s) \in Nat /\ Len(t) \in Nat
  BY LenProperties
<1> DEFINE u == s \o t
<1>2. /\ u \in Seq(S) /\ Len(u) = Len(s) + Len(t)
      /\ \A i \in 1 .. Len(s) + Len(t) : u[i] = IF i <= Len(s) THEN s[i] ELSE t[i - Len(s)]
  BY ConcatProperties
<1> HIDE DEF u
<1>3. ASSUME NEW k \in 0 .. Len(s) PROVE SubSeq(u, 1, k) = SubSeq(s, 1, k)
  <2>1. k \in 0 .. Len(u) /\ k \in Nat /\ \A i \in 1 .. k : i \in 1 .. Len(s) + Len(t) /\ i <= Len(s)
    BY <1>1, <1>2
  <2>2. SubSeq(u, 1, k) \in Seq(S) /\ Len(SubSeq(u, 1, k)) = k
        /\ \A i \in 1 .. k : SubSeq(u, 1, k)[i] = u[i]
    BY <1>2, <2>1, Prefix
  <2>3. SubSeq(s, 1, k) \in Seq(S) /\ Len(SubSeq(s, 1, k)) = k
        /\ \A i \in 1 .. k : SubSeq(s, 1, k)[i] = s[i]
    BY Prefix
  <2>4. \A i \in 1 .. k : SubSeq(u, 1, k)[i] = SubSeq(s, 1, k)[i]
    BY <1>2, <2>1, <2>2, <2>3
  <2> QED BY <2>2, <2>3, <2>4, SeqEqual
<1>4. ASSUME NEW k \in 0 .. Len(t) PROVE SubSeq(u, 1, Len(s) + k) = s \o SubSeq(t, 1, k)
  <2> DEFINE n == Len(s) + k  p == SubSeq(t, 1, k)
  <2>1. n \in 0 .. Len(u) /\ n \in Nat /\ k \in Nat /\ \A i \in 1 .. n : i \in 1 .. Len(s) + Len(t)
    BY <1>1, <1>2
  <2>2. SubSeq(u, 1, n) \in Seq(S) /\ Len(SubSeq(u, 1, n)) = n
        /\ \A i \in 1 .. n : SubSeq(u, 1, n)[i] = u[i]
    <3> HIDE DEF n
    <3> QED BY <1>2, <2>1, Prefix
  <2>3. p \in Seq(S) /\ Len(p) = k /\ \A i \in 1 .. k : p[i] = t[i]
    BY Prefix
  <2>4. s \o p \in Seq(S) /\ Len(s \o p) = Len(s) + Len(p)
        /\ \A i \in 1 .. Len(s) + Len(p) : (s \o p)[i] = IF i <= Len(s) THEN s[i] ELSE p[i - Len(s)]
    <3> HIDE DEF p
    <3> QED BY <2>3, ConcatProperties
  <2> HIDE DEF p
  <2>5. \A i \in 1 .. n : i > Len(s) => i - Len(s) \in 1 .. k
    BY <1>1, <2>1
  <2>6. \A i \in 1 .. n : SubSeq(u, 1, n)[i] = (s \o p)[i]
    <3> SUFFICES ASSUME NEW i \in 1 .. n PROVE SubSeq(u, 1, n)[i] = (s \o p)[i]
      OBVIOUS
    <3>1. SubSeq(u, 1, n)[i] = IF i <= Len(s) THEN s[i] ELSE t[i - Len(s)]
      BY <1>2, <2>1, <2>2
    <3>2. (s \o p)[i] = IF i <= Len(s) THEN s[i] ELSE p[i - Len(s)]
      BY <2>3, <2>4
    <3> HIDE DEF n
    <3>3. i \in Int /\ Len(s) \in Int
      BY <1>1, <2>1
    <3>4. CASE i <= Len(s)
      BY <3>1, <3>2, <3>4
    <3>5. CASE ~(i <= Len(s))
      <4>1. p[i - Len(s)] = t[i - Len(s)]
        BY <2>3, <2>5, <3>3, <3>5
      <4> QED BY <3>1, <3>2, <3>5, <4>1
    <3> QED BY <3>4, <3>5
  <2>7. SubSeq(u, 1, n) = s \o p
    <3>1. Len(s \o p) = n
      BY <2>3, <2>4
    <3> HIDE DEF n
    <3> QED BY <2>2, <2>4, <2>6, <3>1, SeqEqual
  <2> QED BY <2>7 DEF p
<1> QED BY <1>3, <1>4 DEF u

\* A prefix, and then what follows it.
LEMMA PrefixJoins ==
  ASSUME NEW S, NEW s \in Seq(S), NEW a \in 0 .. Len(s), NEW b \in a .. Len(s)
  PROVE  SubSeq(s, 1, a) \o SubSeq(s, a + 1, b) = SubSeq(s, 1, b)
<1>1. Len(s) \in Nat
  BY LenProperties
<1>2. 1 \in 1 .. (Len(s) + 1) /\ a \in (1 - 1) .. Len(s)
  BY <1>1
<1> DEFINE p == SubSeq(s, 1, a)  q == SubSeq(s, a + 1, b)  r == SubSeq(s, 1, b)
<1>3. \A i \in (a + 1) .. b : s[i] \in S
  <2>1. \A i \in (a + 1) .. b : i \in 1 .. Len(s)
    BY <1>1
  <2> QED BY <2>1, ElementOfSeq
<1>4. q \in Seq(S) /\ Len(q) = b - a /\ \A i \in 1 .. (b - a) : q[i] = s[a + i]
  <2>1. a + 1 \in Int /\ b \in Int /\ a \in Int
    BY <1>1
  <2>2. /\ q \in Seq(S)
        /\ Len(q) = IF a + 1 <= b THEN b - (a + 1) + 1 ELSE 0
        /\ \A i \in 1 .. b - (a + 1) + 1 : q[i] = s[a + 1 + i - 1]
    BY <1>3, <2>1, SubSeqProperties
  <2> HIDE DEF q
  <2> QED BY <1>1, <2>1, <2>2
<1>5. p \in Seq(S) /\ Len(p) = a /\ \A i \in 1 .. a : p[i] = s[i]
  BY Prefix
<1>6. r \in Seq(S) /\ Len(r) = b /\ \A i \in 1 .. b : r[i] = s[i]
  <2>1. b \in 0 .. Len(s)
    BY <1>1
  <2> QED BY <2>1, Prefix
<1> HIDE DEF p, q, r
<1>7. p \o q \in Seq(S) /\ Len(p \o q) = Len(p) + Len(q)
      /\ \A i \in 1 .. Len(p) + Len(q) : (p \o q)[i] = IF i <= Len(p) THEN p[i] ELSE q[i - Len(p)]
  BY <1>4, <1>5, ConcatProperties, ZenonT(60)
<1>8. ASSUME NEW i \in 1 .. b PROVE (p \o q)[i] = r[i]
  <2>1. i \in 1 .. Len(p) + Len(q) /\ i \in Int /\ a \in Int
    BY <1>1, <1>4, <1>5
  <2>2. CASE i <= a
    BY <1>5, <1>6, <1>7, <2>1, <2>2
  <2>3. CASE i > a
    <3>1. i - a \in 1 .. (b - a) /\ a + (i - a) = i
      BY <1>1, <2>1, <2>3
    <3>2. (p \o q)[i] = q[i - a] /\ r[i] = s[i]
      BY <1>5, <1>6, <1>7, <2>1, <2>3
    <3>3. q[i - a] = s[a + (i - a)]
      BY <1>4, <3>1
    <3> QED BY <3>1, <3>2, <3>3
  <2> QED BY <2>1, <2>2, <2>3
<1>9. p \o q = r
  <2>1. Len(p \o q) = b
    BY <1>1, <1>4, <1>5, <1>7
  <2> QED BY <1>6, <1>7, <1>8, <2>1, SeqEqual
<1> QED BY <1>9 DEF p, q, r

-----------------------------------------------------------------------------
(* Induction and recursion up to a bound.                                  *)

\* A set that has a number whenever it has all smaller ones.
LEMMA StrongInduction ==
  ASSUME NEW N \in Nat, NEW T, \A n \in 0 .. N : (0 .. (n - 1)) \subseteq T => n \in T
  PROVE  (0 .. N) \subseteq T
<1> DEFINE U == {n \in Nat : n <= N /\ n \notin T}
<1>1. SUFFICES ASSUME U # {} PROVE FALSE
  <2>1. \A n \in 0 .. N : n \in Nat /\ n <= N
    OBVIOUS
  <2> QED BY <1>1, <2>1
<1>2. PICK n \in U : \A y \in U : n <= y
  <2>1. U \in SUBSET Nat
    OBVIOUS
  <2> HIDE DEF U
  <2> QED BY <1>1, <2>1, LeastNatural
<1>3. n \in 0 .. N /\ n \notin T /\ n \in Nat
  OBVIOUS
<1>4. \A y \in 0 .. (n - 1) : y \in Nat /\ y <= N /\ ~(n <= y)
  BY <1>3
<1>5. \A y \in 0 .. (n - 1) : y \notin U
  <2> HIDE DEF U
  <2> QED BY <1>2, <1>4
<1>6. (0 .. (n - 1)) \subseteq T
  BY <1>4, <1>5
<1> QED BY <1>3, <1>6

\* A set that has zero and with each number the next.
LEMMA Induction ==
  ASSUME NEW N \in Nat, NEW T, 0 \in T, \A n \in 0 .. (N - 1) : n \in T => n + 1 \in T
  PROVE  (0 .. N) \subseteq T
<1>1. ASSUME NEW n \in 0 .. N, (0 .. (n - 1)) \subseteq T PROVE n \in T
  <2>1. CASE n = 0
    BY <2>1
  <2>2. CASE n # 0
    <3>1. n - 1 \in 0 .. (N - 1) /\ n - 1 \in 0 .. (n - 1) /\ (n - 1) + 1 = n
      BY <2>2
    <3>2. n - 1 \in T
      BY <1>1, <3>1
    <3>3. (n - 1) + 1 \in T
      BY <3>1, <3>2
    <3> QED BY <3>1, <3>3
  <2> QED BY <2>1, <2>2
<1> QED BY <1>1, StrongInduction

\* A function may be defined by what each number makes of the value at an earlier one.
Recurrence(N, V, b, prev, next) ==
  /\ N \in Nat /\ b \in V
  /\ \A n \in 1 .. N : prev[n] \in 0 .. (n - 1)
  /\ \A n \in 1 .. N, v \in V : next[<<n, v>>] \in V
Solves(f, N, V, b, prev, next) ==
  f \in [0 .. N -> V] /\ f[0] = b /\ \A n \in 1 .. N : f[n] = next[<<n, f[prev[n]]>>]

\* What is defined, at each number, from what it is at one that is less.
LEMMA Recursion ==
  ASSUME NEW N, NEW V, NEW b, NEW prev, NEW next, Recurrence(N, V, b, prev, next)
  PROVE  \E f : Solves(f, N, V, b, prev, next)
<1>0. /\ N \in Nat /\ b \in V
      /\ \A n \in 1 .. N : prev[n] \in 0 .. (n - 1)
      /\ \A n \in 1 .. N, v \in V : next[<<n, v>>] \in V
  BY DEF Recurrence
<1> USE <1>0
<1> DEFINE Good(f, n) == f \in [0 .. n -> V] /\ f[0] = b /\ \A m \in 1 .. n : f[m] = next[<<m, f[prev[m]]>>]
           T == {n \in Nat : \E f : Good(f, n)}
<1>1. 0 \in T
  <2>1. Good([m \in 0 .. 0 |-> b], 0)
    OBVIOUS
  <2> HIDE DEF Good
  <2> QED BY <2>1
<1>2. ASSUME NEW n \in 0 .. (N - 1), n \in T PROVE n + 1 \in T
  <2>1. PICK f : Good(f, n)
    BY <1>2
  <2>2. n \in Nat /\ n + 1 \in Nat /\ n + 1 \in 1 .. N /\ prev[n + 1] \in 0 .. n
    <3>1. n \in Nat /\ n + 1 \in Nat /\ n + 1 \in 1 .. N /\ (n + 1) - 1 = n
      OBVIOUS
    <3>2. prev[n + 1] \in 0 .. ((n + 1) - 1)
      BY <3>1
    <3> QED BY <3>1, <3>2
  <2> DEFINE v == next[<<n + 1, f[prev[n + 1]]>>]
             g == [m \in 0 .. (n + 1) |-> IF m = n + 1 THEN v ELSE f[m]]
  <2>3. f[prev[n + 1]] \in V
    BY <2>1, <2>2
  <2>4. v \in V
    BY <2>2, <2>3
  <2>5. \A m \in 0 .. n : m # n + 1 /\ m \in 0 .. (n + 1) /\ f[m] \in V
    BY <2>1, <2>2
  <2>6. n + 1 \in 0 .. (n + 1) /\ 0 \in 0 .. n /\ \A m \in 0 .. (n + 1) : m = n + 1 \/ m \in 0 .. n
    BY <2>2
  <2> HIDE DEF v
  <2>7. g \in [0 .. (n + 1) -> V]
    BY <2>4, <2>5, <2>6
  <2>8. g[n + 1] = v /\ \A m \in 0 .. n : g[m] = f[m]
    BY <2>5, <2>6
  <2> HIDE DEF g
  <2>9. ASSUME NEW m \in 1 .. (n + 1) PROVE g[m] = next[<<m, g[prev[m]]>>]
    <3>1. CASE m = n + 1
      BY <2>2, <2>8, <3>1 DEF v
    <3>2. CASE m # n + 1
      <4>1. m \in 1 .. n /\ m \in 0 .. n /\ m \in 1 .. N /\ m - 1 \in 0 .. n
        BY <2>2, <3>2
      <4>2. prev[m] \in 0 .. n
        <5>1. prev[m] \in 0 .. (m - 1)
          BY <4>1
        <5> QED BY <2>2, <4>1, <5>1
      <4>3. f[m] = next[<<m, f[prev[m]]>>]
        BY <2>1, <4>1
      <4> QED BY <2>8, <4>1, <4>2, <4>3
    <3> QED BY <3>1, <3>2
  <2>10. Good(g, n + 1)
    BY <2>1, <2>6, <2>7, <2>8, <2>9
  <2> HIDE DEF Good
  <2> QED BY <2>2, <2>10
<1>3. N \in T
  <2> HIDE DEF T
  <2>1. (0 .. N) \subseteq T
    BY <1>1, <1>2, Induction
  <2>2. N \in 0 .. N
    OBVIOUS
  <2> QED BY <2>1, <2>2
<1> QED BY <1>3 DEF Solves

-----------------------------------------------------------------------------
(* Sets in order.                                                          *)

\* Less[x] are the members that come before x: as many as its place in the order.
LEMMA Ranks ==
  ASSUME NEW S, IsFiniteSet(S), NEW less \in [S -> SUBSET S],
         \A x \in S : x \notin less[x],
         \A x, y, z \in S : x \in less[y] /\ y \in less[z] => x \in less[z],
         \A x, y \in S : x # y => x \in less[y] \/ y \in less[x]
  PROVE  /\ Cardinality(S) \in Nat
         /\ \A x \in S : Cardinality(less[x]) \in 0 .. (Cardinality(S) - 1)
         /\ \A x, y \in S : x \in less[y] <=> Cardinality(less[x]) < Cardinality(less[y])
         /\ \A k \in 0 .. (Cardinality(S) - 1) : \E x \in S : Cardinality(less[x]) = k
<1>1. ASSUME NEW A, NEW B, IsFiniteSet(B), A \subseteq B, A # B
      PROVE  Cardinality(A) < Cardinality(B)
  <2>1. Cardinality(A) <= Cardinality(B) /\ Cardinality(A) # Cardinality(B)
    BY <1>1, FS_Subset
  <2>2. Cardinality(A) \in Nat /\ Cardinality(B) \in Nat
    BY <1>1, FS_Subset, FS_CardinalityType
  <2> QED BY <2>1, <2>2
<1>2. \A x \in S : less[x] \subseteq S /\ IsFiniteSet(less[x]) /\ Cardinality(less[x]) \in Nat
  <2> SUFFICES ASSUME NEW x \in S
               PROVE  less[x] \subseteq S /\ IsFiniteSet(less[x]) /\ Cardinality(less[x]) \in Nat
    OBVIOUS
  <2>1. less[x] \subseteq S
    OBVIOUS
  <2> QED BY <2>1, FS_Subset, FS_CardinalityType
<1> DEFINE n == Cardinality(S)
<1>3. n \in Nat
  BY FS_CardinalityType
<1>4. ASSUME NEW x \in S PROVE Cardinality(less[x]) \in 0 .. (n - 1)
  <2>1. less[x] # S
    OBVIOUS
  <2>2. Cardinality(less[x]) < n
    BY <1>1, <1>2, <2>1
  <2> HIDE DEF n
  <2> QED BY <1>2, <1>3, <2>2
<1>5. ASSUME NEW x \in S, NEW y \in S, x \in less[y]
      PROVE  Cardinality(less[x]) < Cardinality(less[y])
  <2>1. less[x] \subseteq less[y]
    BY <1>2, <1>5
  <2>2. less[x] # less[y]
    BY <1>5
  <2> QED BY <1>1, <1>2, <2>1, <2>2
<1>6. ASSUME NEW x \in S, NEW y \in S, Cardinality(less[x]) < Cardinality(less[y])
      PROVE  x \in less[y]
  <2> SUFFICES ASSUME x \notin less[y] PROVE FALSE
    OBVIOUS
  <2>1. CASE x = y
    BY <1>2, <1>6, <2>1
  <2>2. CASE y \in less[x]
    <3>1. Cardinality(less[y]) < Cardinality(less[x])
      BY <1>5, <2>2
    <3> QED BY <1>2, <1>6, <3>1
  <2> QED BY <2>1, <2>2
<1>7. \A k \in 0 .. (n - 1) : \E x \in S : Cardinality(less[x]) = k
  <2> DEFINE rank == [x \in S |-> Cardinality(less[x])]  K == 0 .. (n - 1)
  <2>1. rank \in [S -> K]
    BY <1>4
  <2>2. \A x, y \in S : x # y => rank[x] # rank[y]
    <3> SUFFICES ASSUME NEW x \in S, NEW y \in S, x # y PROVE Cardinality(less[x]) # Cardinality(less[y])
      OBVIOUS
    <3>1. Cardinality(less[x]) < Cardinality(less[y]) \/ Cardinality(less[y]) < Cardinality(less[x])
      BY <1>5
    <3> QED BY <1>2, <3>1
  <2>3. rank \in Injection(S, K)
    BY <2>1, <2>2, Fun_IsInj
  <2>4. IsFiniteSet(K) /\ Cardinality(K) = n
    <3>1. 0 \in Int /\ n - 1 \in Int
      BY <1>3
    <3>2. IsFiniteSet(K) /\ Cardinality(K) = IF 0 > n - 1 THEN 0 ELSE (n - 1) - 0 + 1
      <4> HIDE DEF n
      <4> QED BY <3>1, FS_Interval
    <3> HIDE DEF n, K
    <3> QED BY <1>3, <3>2
  <2> DEFINE I == {rank[x] : x \in S}
  <2>5. I \subseteq K
    BY <2>1
  <2>6. Cardinality(I) = n
    <3>1. rank \in Bijection(S, I)
      <4> HIDE DEF K
      <4> QED BY <2>1, <2>3, Fun_InjMeansBijImage DEF Range
    <3> HIDE DEF I, rank, K
    <3>2. ExistsBijection(S, I)
      BY <3>1 DEF ExistsBijection
    <3> QED BY <3>2, FS_Bijection
  <2>7. I = K
    <3> HIDE DEF I, K, rank, n
    <3> QED BY <1>3, <2>4, <2>5, <2>6, FS_Subset
  <2> QED BY <2>7
<1> QED BY <1>3, <1>4, <1>5, <1>6, <1>7

\* A function from 1 is a sequence.
LEMMA FunctionSeq ==
  ASSUME NEW S, NEW n \in Nat, NEW s \in [1 .. n -> S]
  PROVE  s \in Seq(S) /\ Len(s) = n
<1>1. s \in Seq(S)
  BY SeqDef
<1>2. Len(s) \in Nat /\ DOMAIN s = 1 .. Len(s) /\ DOMAIN s = 1 .. n
  BY <1>1, LenProperties
<1>3. \A k \in Nat : (1 .. k) = (1 .. n) => k = n
  <2> SUFFICES ASSUME NEW k \in Nat, (1 .. k) = (1 .. n) PROVE k = n
    OBVIOUS
  <2>1. k \in 1 .. k \/ k = 0
    OBVIOUS
  <2>2. n \in 1 .. n \/ n = 0
    OBVIOUS
  <2>3. k <= n
    BY <2>1
  <2>4. n <= k
    BY <2>2
  <2> QED BY <2>3, <2>4
<1> QED BY <1>1, <1>2, <1>3

\* A set of numbers in order: each once, and none twice.
LEMMA NumbersInOrder ==
  ASSUME NEW S \in SUBSET Int, IsFiniteSet(S)
  PROVE  /\ Cardinality(S) \in Nat
         /\ InOrder(S, <) \in [1 .. Cardinality(S) -> S]
         /\ \A i, j \in 1 .. Cardinality(S) : i # j => InOrder(S, <)[i] # InOrder(S, <)[j]
         /\ \A x \in S : \E i \in 1 .. Cardinality(S) : InOrder(S, <)[i] = x
<1> DEFINE less == [x \in S |-> {y \in S : y < x}]
           n == Cardinality(S)
           s == InOrder(S, <)
<1>1. less \in [S -> SUBSET S]
  OBVIOUS
<1>2. /\ \A x \in S : x \notin less[x]
      /\ \A x, y, z \in S : x \in less[y] /\ y \in less[z] => x \in less[z]
      /\ \A x, y \in S : x # y => x \in less[y] \/ y \in less[x]
  OBVIOUS
<1>3. /\ n \in Nat
      /\ \A x \in S : Cardinality(less[x]) \in 0 .. (n - 1)
      /\ \A x, y \in S : x \in less[y] <=> Cardinality(less[x]) < Cardinality(less[y])
      /\ \A k \in 0 .. (n - 1) : \E x \in S : Cardinality(less[x]) = k
  <2> HIDE DEF less
  <2> QED BY <1>1, <1>2, Ranks
<1>4. ASSUME NEW i \in 1 .. n
      PROVE  s[i] \in S /\ Cardinality(less[s[i]]) = i - 1
  <2>1. s[i] = CHOOSE x \in S : Cardinality({y \in S : y < x}) = i - 1
    BY <1>4 DEF InOrder
  <2>2. i - 1 \in 0 .. (n - 1)
    BY <1>3
  <2>3. \E x \in S : Cardinality({y \in S : y < x}) = i - 1
    BY <1>3, <2>2
  <2>4. s[i] \in S /\ Cardinality({y \in S : y < s[i]}) = i - 1
    <3> HIDE DEF s, n
    <3> QED BY <2>1, <2>3
  <2> QED BY <2>4
<1>5. s \in [1 .. n -> S]
  BY <1>4 DEF InOrder
<1>6. \A i, j \in 1 .. n : i # j => s[i] # s[j]
  <2> HIDE DEF s, n, less
  <2>1. \A i, j \in 1 .. n : i # j => i - 1 # j - 1
    BY <1>3
  <2> QED BY <1>4, <2>1
<1>7. ASSUME NEW x \in S PROVE \E i \in 1 .. n : s[i] = x
  <2> DEFINE k == Cardinality(less[x])
  <2>1. k \in 0 .. (n - 1) /\ k + 1 \in 1 .. n /\ (k + 1) - 1 = k
    <3> HIDE DEF less, n
    <3> QED BY <1>3
  <2>2. s[k + 1] \in S /\ Cardinality(less[s[k + 1]]) = k
    <3> HIDE DEF k, s, n
    <3> QED BY <1>4, <2>1
  <2>3. s[k + 1] = x
    <3> DEFINE z == s[k + 1]
    <3>1. z \in S /\ Cardinality(less[z]) = Cardinality(less[x]) /\ Cardinality(less[x]) \in Int
      <4>1. k \in Int /\ Cardinality(less[x]) = k
        <5> HIDE DEF n, less
        <5> QED BY <1>3, <2>1 DEF k
      <4> HIDE DEF k, s, less
      <4> QED BY <2>2, <4>1
    <3> HIDE DEF z, s, n, less
    <3>2. ~(z \in less[x]) /\ ~(x \in less[z])
      <4> DEFINE a == Cardinality(less[z])  b == Cardinality(less[x])
      <4>1. (z \in less[x] <=> a < b) /\ (x \in less[z] <=> b < a)
        BY <1>3, <3>1
      <4>2. a = b /\ b \in Int
        BY <3>1
      <4> HIDE DEF a, b
      <4>3. ~(a < b) /\ ~(b < a)
        BY ONLY <4>2
      <4> QED BY <4>1, <4>3
    <3>3. z = x
      <4>1. z # x => z \in less[x] \/ x \in less[z]
        BY <1>2, <3>1
      <4> QED BY ONLY <3>2, <4>1
    <3> QED BY <3>3 DEF z
  <2> HIDE DEF s, k, n, less
  <2> QED BY <2>1, <2>3
<1>8. n \in Nat
  BY <1>3
<1> HIDE DEF less
<1> QED BY <1>5, <1>6, <1>7, <1>8, Zenon

-----------------------------------------------------------------------------
(* Sums.                                                                   *)

Pick(s) == CHOOSE x \in s : TRUE
Sum(f, S) == FoldFunctionOnSet(+, 0, f, S)

\* What folding a function with + is: the recursion over subsets has a solution.
LEMMA SumRecursion ==
  ASSUME NEW S, IsFiniteSet(S), NEW f \in [S -> Nat]
  PROVE  \E g \in [SUBSET S -> Nat] :
           /\ g[{}] = 0
           /\ \A s \in SUBSET S : s # {} => g[s] = f[Pick(s)] + g[s \ {Pick(s)}]
           /\ Sum(f, S) = g[S]
<1> DEFINE Small(n) == {s \in SUBSET S : Cardinality(s) <= n}
           Law(g, n) == /\ g \in [Small(n) -> Nat]
                        /\ g[{}] = 0
                        /\ \A s \in Small(n) : s # {} => g[s] = f[Pick(s)] + g[s \ {Pick(s)}]
           T == {n \in Nat : \E g : Law(g, n)}
           N == Cardinality(S)
<1>1. N \in Nat /\ \A s \in SUBSET S : IsFiniteSet(s) /\ Cardinality(s) \in Nat /\ Cardinality(s) <= N
  BY FS_Subset, FS_CardinalityType
<1>2. \A s \in SUBSET S : s # {} => /\ Pick(s) \in s /\ Pick(s) \in S
                                     /\ s \ {Pick(s)} \in SUBSET S
                                     /\ Cardinality(s \ {Pick(s)}) = Cardinality(s) - 1
  <2> SUFFICES ASSUME NEW s \in SUBSET S, s # {}
               PROVE  /\ Pick(s) \in s /\ Pick(s) \in S /\ s \ {Pick(s)} \in SUBSET S
                      /\ Cardinality(s \ {Pick(s)}) = Cardinality(s) - 1
    OBVIOUS
  <2>1. Pick(s) \in s
    BY DEF Pick
  <2>2. Cardinality(s \ {Pick(s)}) = Cardinality(s) - 1
    BY <1>1, <2>1, FS_RemoveElement
  <2> QED BY <2>1, <2>2
<1>3. {} \in SUBSET S /\ Cardinality({}) = 0 /\ \A s \in SUBSET S : Cardinality(s) = 0 => s = {}
  BY <1>1, FS_EmptySet
<1>4. 0 \in T
  <2>1. \A s \in Small(0) : s = {}
    BY <1>1, <1>3
  <2>2. {} \in Small(0)
    BY <1>3
  <2>3. Law([s \in Small(0) |-> 0], 0)
    <3> HIDE DEF Small
    <3> QED BY <2>1, <2>2
  <2> HIDE DEF Law
  <2> QED BY <2>3
<1>5. ASSUME NEW n \in 0 .. (N - 1), n \in T PROVE n + 1 \in T
  <2>1. PICK g : Law(g, n)
    BY <1>5
  <2>2. n \in Nat /\ n + 1 \in Nat
    BY <1>1
  <2> DEFINE h == [s \in Small(n + 1) |-> IF s = {} THEN 0 ELSE f[Pick(s)] + g[s \ {Pick(s)}]]
  <2>3. \A s \in Small(n + 1) : s \in SUBSET S /\ (s # {} => s \ {Pick(s)} \in Small(n) /\ Pick(s) \in S)
    <3> SUFFICES ASSUME NEW s \in Small(n + 1), s # {}
                 PROVE  s \ {Pick(s)} \in Small(n) /\ Pick(s) \in S
      OBVIOUS
    <3>1. s \in SUBSET S /\ Cardinality(s) <= n + 1 /\ Cardinality(s) \in Nat
      BY <1>1
    <3>2. Cardinality(s \ {Pick(s)}) = Cardinality(s) - 1 /\ s \ {Pick(s)} \in SUBSET S /\ Pick(s) \in S
      BY <1>2, <3>1
    <3>3. Cardinality(s \ {Pick(s)}) <= n
      BY <2>2, <3>1, <3>2
    <3> QED BY <3>2, <3>3
  <2>4. \A s \in Small(n) : s \in Small(n + 1) /\ s \in SUBSET S
    <3> SUFFICES ASSUME NEW s \in Small(n) PROVE s \in Small(n + 1)
      OBVIOUS
    <3>1. s \in SUBSET S /\ Cardinality(s) <= n /\ Cardinality(s) \in Nat
      BY <1>1
    <3> QED BY <2>2, <3>1
  <2>5. {} \in Small(n) /\ g \in [Small(n) -> Nat] /\ g[{}] = 0
        /\ \A s \in Small(n) : s # {} => g[s] = f[Pick(s)] + g[s \ {Pick(s)}]
    <3>1. {} \in Small(n)
      BY <1>3, <2>2
    <3> HIDE DEF Small
    <3> QED BY <2>1, <3>1
  <2> HIDE DEF Small
  <2>6. h \in [Small(n + 1) -> Nat]
    <3> SUFFICES ASSUME NEW s \in Small(n + 1), s # {} PROVE f[Pick(s)] + g[s \ {Pick(s)}] \in Nat
      OBVIOUS
    <3>1. f[Pick(s)] \in Nat /\ g[s \ {Pick(s)}] \in Nat
      BY <2>3, <2>5
    <3> QED BY <3>1
  <2>7. \A s \in Small(n) : h[s] = g[s]
    BY <2>4, <2>5
  <2>8. Law(h, n + 1)
    <3>1. h[{}] = 0
      BY <2>5, <2>7
    <3>2. \A s \in Small(n + 1) : s # {} => h[s] = f[Pick(s)] + g[s \ {Pick(s)}]
      OBVIOUS
    <3> HIDE DEF h
    <3>3. \A s \in Small(n + 1) : s # {} => h[s] = f[Pick(s)] + h[s \ {Pick(s)}]
      BY <2>3, <2>7, <3>2
    <3> QED BY <2>6, <3>1, <3>3
  <2> HIDE DEF Law
  <2> QED BY <2>2, <2>8
<1>6. PICK g : Law(g, N)
  <2> HIDE DEF T, N
  <2>1. (0 .. N) \subseteq T
    BY <1>1, <1>4, <1>5, Induction
  <2>2. N \in 0 .. N
    BY <1>1
  <2> QED BY <2>1, <2>2 DEF T
<1>7. Small(N) = SUBSET S
  BY <1>1
<1>8. /\ g \in [SUBSET S -> Nat] /\ g[{}] = 0
      /\ \A s \in SUBSET S : s # {} => g[s] = f[Pick(s)] + g[s \ {Pick(s)}]
  <2> HIDE DEF Small
  <2> QED BY <1>6, <1>7
<1> DEFINE Is(i) == i = [s \in SUBSET S |-> IF s = {} THEN 0 ELSE f[Pick(s)] + i[s \ {Pick(s)}]]
           iter == CHOOSE i : Is(i)
<1>9. Is(g)
  <2> DEFINE r == [s \in SUBSET S |-> IF s = {} THEN 0 ELSE f[Pick(s)] + g[s \ {Pick(s)}]]
  <2>1. \A s \in SUBSET S : g[s] = r[s]
    BY <1>8
  <2>2. g = r
    <3>1. DOMAIN g = SUBSET S /\ DOMAIN r = SUBSET S
          /\ g = [s \in SUBSET S |-> g[s]] /\ r = [s \in SUBSET S |-> r[s]]
      BY <1>8
    <3> HIDE DEF r
    <3> QED BY <2>1, <3>1
  <2> QED BY <2>2
<1>10. Is(iter)
  <2> HIDE DEF Is
  <2> QED BY <1>9
<1>11. Sum(f, S) = iter[S]
  BY DEF Sum, FoldFunctionOnSet, MapThenFoldSet, Pick
<1>12. ASSUME NEW n \in Nat, \A s \in SUBSET S : Cardinality(s) <= n => iter[s] = g[s],
              NEW s \in SUBSET S, Cardinality(s) <= n + 1
       PROVE  iter[s] = g[s]
  <2> HIDE DEF iter
  <2>1. iter[s] = IF s = {} THEN 0 ELSE f[Pick(s)] + iter[s \ {Pick(s)}]
    BY <1>10
  <2>2. CASE s = {}
    BY <1>8, <2>1, <2>2
  <2>3. CASE s # {}
    <3>1. s \ {Pick(s)} \in SUBSET S /\ Cardinality(s \ {Pick(s)}) = Cardinality(s) - 1 /\ Cardinality(s) \in Nat
      BY <1>1, <1>2, <2>3
    <3>2. Cardinality(s \ {Pick(s)}) <= n
      BY <1>12, <3>1
    <3> QED BY <1>8, <1>12, <2>1, <2>3, <3>1, <3>2
  <2> QED BY <2>2, <2>3
<1> DEFINE U == {n \in Nat : \A s \in SUBSET S : Cardinality(s) <= n => iter[s] = g[s]}
<1>13. N \in U
  <2> HIDE DEF N, iter, Is
  <2>1. 0 \in U
    <3> SUFFICES ASSUME NEW s \in SUBSET S, Cardinality(s) <= 0 PROVE iter[s] = g[s]
      OBVIOUS
    <3>1. s = {}
      BY <1>1, <1>3
    <3>2. iter[{}] = 0
      BY <1>3, <1>10 DEF Is
    <3> QED BY <1>8, <3>1, <3>2
  <2>2. \A n \in 0 .. (N - 1) : n \in U => n + 1 \in U
    BY <1>12
  <2> HIDE DEF U
  <2>3. (0 .. N) \subseteq U
    BY <1>1, <2>1, <2>2, Induction
  <2> QED BY <1>1, <2>3
<1>14. iter[S] = g[S]
  <2> HIDE DEF N, iter, Is
  <2>1. N <= N
    BY <1>1
  <2> QED BY <1>13, <2>1 DEF N
<1> QED BY <1>8, <1>11, <1>14

\* Functions that differ at one place have sums that differ by as much.
LEMMA SumChange ==
  ASSUME NEW S, IsFiniteSet(S), NEW f \in [S -> Nat], NEW h \in [S -> Nat], NEW d \in S,
         \A x \in S : x # d => f[x] = h[x]
  PROVE  Sum(f, S) \in Nat /\ Sum(h, S) \in Nat /\ Sum(f, S) + h[d] = Sum(h, S) + f[d]
<1>1. PICK a \in [SUBSET S -> Nat] :
        /\ a[{}] = 0
        /\ \A s \in SUBSET S : s # {} => a[s] = f[Pick(s)] + a[s \ {Pick(s)}]
        /\ Sum(f, S) = a[S]
  BY SumRecursion
<1>2. PICK b \in [SUBSET S -> Nat] :
        /\ b[{}] = 0
        /\ \A s \in SUBSET S : s # {} => b[s] = h[Pick(s)] + b[s \ {Pick(s)}]
        /\ Sum(h, S) = b[S]
  BY SumRecursion
<1> DEFINE Law(s) == IF d \in s THEN a[s] + h[d] = b[s] + f[d] ELSE a[s] = b[s]
           N == Cardinality(S)
           U == {n \in Nat : \A s \in SUBSET S : Cardinality(s) <= n => Law(s)}
<1>3. N \in Nat /\ \A s \in SUBSET S : IsFiniteSet(s) /\ Cardinality(s) \in Nat /\ Cardinality(s) <= N
  BY FS_Subset, FS_CardinalityType
<1>4. {} \in SUBSET S /\ Cardinality({}) = 0 /\ \A s \in SUBSET S : Cardinality(s) = 0 => s = {}
  BY <1>3, FS_EmptySet
<1>5. ASSUME NEW n \in Nat, n \in U, NEW s \in SUBSET S, Cardinality(s) <= n + 1
      PROVE  Law(s)
  <2>1. CASE s = {}
    BY <1>1, <1>2, <2>1
  <2>2. CASE s # {}
    <3> DEFINE e == Pick(s)  r == s \ {e}
    <3>1. e \in s
      BY <2>2 DEF Pick
    <3>2. r \in SUBSET S /\ Cardinality(r) = Cardinality(s) - 1 /\ Cardinality(s) \in Nat
      BY <1>3, <3>1, FS_RemoveElement
    <3>3. Cardinality(r) <= n
      BY <1>5, <3>2
    <3>4. Law(r)
      BY <1>5, <3>2, <3>3
    <3>5. a[s] = f[e] + a[r] /\ b[s] = h[e] + b[r]
      BY <1>1, <1>2, <2>2
    <3>6. a[r] \in Nat /\ b[r] \in Nat /\ f[e] \in Nat /\ h[e] \in Nat /\ f[d] \in Nat /\ h[d] \in Nat
      BY <3>1, <3>2
    <3>7. /\ d \in s => d = e \/ (d # e /\ d \in r)
          /\ d \notin s => d # e /\ d \notin r
          /\ d = e => d \notin r
      BY <3>1
    <3>8. e # d => f[e] = h[e]
      BY <3>1
    <3> HIDE DEF e, r
    <3>9. CASE d \in s /\ d = e
      BY <3>4, <3>5, <3>6, <3>7, <3>9
    <3>10. CASE d \in s /\ d # e
      BY <3>4, <3>5, <3>6, <3>7, <3>8, <3>10
    <3>11. CASE d \notin s
      BY <3>4, <3>5, <3>6, <3>7, <3>8, <3>11
    <3> QED BY <3>9, <3>10, <3>11
  <2> QED BY <2>1, <2>2
<1>6. N \in U
  <2> HIDE DEF N
  <2>1. 0 \in U
    <3> SUFFICES ASSUME NEW s \in SUBSET S, Cardinality(s) <= 0 PROVE Law(s)
      OBVIOUS
    <3>1. s = {}
      BY <1>3, <1>4
    <3> QED BY <1>1, <1>2, <3>1
  <2>2. \A n \in 0 .. (N - 1) : n \in U => n + 1 \in U
    <3> SUFFICES ASSUME NEW n \in 0 .. (N - 1), n \in U PROVE n + 1 \in U
      OBVIOUS
    <3>1. n \in Nat /\ n + 1 \in Nat
      BY <1>3
    <3> HIDE DEF Law
    <3> QED BY <1>5, <3>1
  <2> HIDE DEF U
  <2>3. (0 .. N) \subseteq U
    BY <1>3, <2>1, <2>2, Induction
  <2> QED BY <1>3, <2>3
<1>7. Law(S)
  <2> HIDE DEF N, Law
  <2>1. N <= N
    BY <1>3
  <2> QED BY <1>6, <2>1 DEF N
<1>8. S \in SUBSET S
  OBVIOUS
<1> QED BY <1>1, <1>2, <1>7, <1>8

\* A sum of nothing.
LEMMA SumZero ==
  ASSUME NEW S, IsFiniteSet(S)
  PROVE  Sum([x \in S |-> 0], S) = 0
<1> DEFINE f == [x \in S |-> 0]
<1>1. f \in [S -> Nat]
  OBVIOUS
<1>2. PICK a \in [SUBSET S -> Nat] :
        /\ a[{}] = 0
        /\ \A s \in SUBSET S : s # {} => a[s] = f[Pick(s)] + a[s \ {Pick(s)}]
        /\ Sum(f, S) = a[S]
  <2> HIDE DEF f
  <2> QED BY <1>1, SumRecursion
<1> DEFINE N == Cardinality(S)
           U == {n \in Nat : \A s \in SUBSET S : Cardinality(s) <= n => a[s] = 0}
<1>3. N \in Nat /\ \A s \in SUBSET S : IsFiniteSet(s) /\ Cardinality(s) \in Nat /\ Cardinality(s) <= N
  BY FS_Subset, FS_CardinalityType
<1>4. {} \in SUBSET S /\ Cardinality({}) = 0 /\ \A s \in SUBSET S : Cardinality(s) = 0 => s = {}
  BY <1>3, FS_EmptySet
<1>5. ASSUME NEW n \in Nat, n \in U, NEW s \in SUBSET S, Cardinality(s) <= n + 1
      PROVE  a[s] = 0
  <2>1. CASE s = {}
    BY <1>2, <2>1
  <2>2. CASE s # {}
    <3> DEFINE e == Pick(s)  r == s \ {e}
    <3>1. e \in s
      BY <2>2 DEF Pick
    <3>2. r \in SUBSET S /\ Cardinality(r) = Cardinality(s) - 1 /\ Cardinality(s) \in Nat
      BY <1>3, <3>1, FS_RemoveElement
    <3>3. Cardinality(r) <= n
      BY <1>5, <3>2
    <3>4. a[r] = 0
      BY <1>5, <3>2, <3>3
    <3>5. a[s] = f[e] + a[r] /\ f[e] = 0
      BY <1>2, <2>2, <3>1
    <3> QED BY <3>4, <3>5
  <2> QED BY <2>1, <2>2
<1>6. N \in U
  <2> HIDE DEF N
  <2>1. 0 \in U
    <3> SUFFICES ASSUME NEW s \in SUBSET S, Cardinality(s) <= 0 PROVE a[s] = 0
      OBVIOUS
    <3>1. s = {}
      BY <1>3, <1>4
    <3> QED BY <1>2, <3>1
  <2>2. \A n \in 0 .. (N - 1) : n \in U => n + 1 \in U
    <3> SUFFICES ASSUME NEW n \in 0 .. (N - 1), n \in U PROVE n + 1 \in U
      OBVIOUS
    <3>1. n \in Nat /\ n + 1 \in Nat
      BY <1>3
    <3> QED BY <1>5, <3>1
  <2> HIDE DEF U
  <2>3. (0 .. N) \subseteq U
    BY <1>3, <2>1, <2>2, Induction
  <2> QED BY <1>3, <2>3
<1>7. a[S] = 0
  <2> HIDE DEF N
  <2>1. N <= N
    BY <1>3
  <2> QED BY <1>6, <2>1 DEF N
<1> QED BY <1>2, <1>7

\* What is zero but in one place sums to its value there.
LEMMA SumOfOne ==
  ASSUME NEW S, IsFiniteSet(S), NEW f \in [S -> Nat], NEW d \in S, \A x \in S : x # d => f[x] = 0
  PROVE  Sum(f, S) = f[d]
<1> DEFINE zero == [x \in S |-> 0]
<1>1. zero \in [S -> Nat] /\ \A x \in S : zero[x] = 0
  OBVIOUS
<1>2. Sum(zero, S) = 0
  BY SumZero
<1> HIDE DEF zero
<1>3. Sum(f, S) \in Nat /\ Sum(f, S) + zero[d] = Sum(zero, S) + f[d]
  BY <1>1, SumChange
<1>4. f[d] \in Nat
  OBVIOUS
<1> QED BY <1>1, <1>2, <1>3, <1>4

\* Sums along a list of places.
Accumulates(sum, f, at, n) ==
  sum \in [0 .. n -> Nat] /\ sum[0] = 0 /\ \A i \in 1 .. n : sum[i] = sum[i - 1] + f[at[i]]

\* The sum of a function is no more than its values at a list of places that has all
\* where it is positive.
LEMMA SumCovered ==
  ASSUME NEW S, IsFiniteSet(S), NEW f \in [S -> Nat],
         NEW n \in Nat, NEW at \in [1 .. n -> S],
         \A x \in S : f[x] > 0 => \E i \in 1 .. n : at[i] = x,
         NEW sum, Accumulates(sum, f, at, n)
  PROVE  Sum(f, S) <= sum[n]
<1> DEFINE part(i) == [x \in S |-> IF \E j \in 1 .. i : at[j] = x THEN f[x] ELSE 0]
           U == {i \in Nat : i <= n => Sum(part(i), S) \in Nat /\ Sum(part(i), S) <= sum[i]}
<1>1. \A i : part(i) \in [S -> Nat]
  OBVIOUS
<1>2. 0 \in U
  <2>1. part(0) = [x \in S |-> 0]
    OBVIOUS
  <2>2. Sum(part(0), S) = 0
    BY <2>1, SumZero
  <2> QED BY <2>2 DEF Accumulates
<1>3. ASSUME NEW i \in 0 .. (n - 1), i \in U PROVE i + 1 \in U
  <2>1. i \in Nat /\ i + 1 \in 1 .. n /\ i <= n /\ (i + 1) - 1 = i /\ i \in 0 .. n
    OBVIOUS
  <2> DEFINE d == at[i + 1]  u == part(i)  v == part(i + 1)
  <2>2. d \in S
    BY <2>1
  <2>3. \A x \in S : x # d => v[x] = u[x]
    <3> SUFFICES ASSUME NEW x \in S, x # d PROVE v[x] = u[x]
      OBVIOUS
    <3>1. (\E j \in 1 .. (i + 1) : at[j] = x) <=> (\E j \in 1 .. i : at[j] = x)
      <4>1. \A j \in 1 .. (i + 1) : j \in 1 .. i \/ j = i + 1
        BY <2>1
      <4>2. \A j \in 1 .. i : j \in 1 .. (i + 1)
        BY <2>1
      <4> QED BY <4>1, <4>2
    <3> QED BY <3>1
  <2>4. v[d] <= f[d] /\ u[d] \in Nat /\ v[d] \in Nat /\ f[d] \in Nat
    BY <2>2
  <2>5. u \in [S -> Nat] /\ v \in [S -> Nat]
    OBVIOUS
  <2> HIDE DEF u, v, d
  <2>6. Sum(v, S) \in Nat /\ Sum(u, S) \in Nat /\ Sum(v, S) + u[d] = Sum(u, S) + v[d]
    BY <2>2, <2>3, <2>5, SumChange
  <2>7. Sum(u, S) <= sum[i] /\ sum[i] \in Nat
    BY <1>3, <2>1 DEF u, Accumulates
  <2>8. sum[i + 1] = sum[i] + f[d]
    <3>1. sum[i + 1] = sum[(i + 1) - 1] + f[at[i + 1]]
      BY <2>1 DEF Accumulates
    <3> QED BY <2>1, <3>1 DEF d
  <2>9. Sum(v, S) <= sum[i + 1]
    <3> DEFINE a == Sum(v, S)  b == Sum(u, S)  c == v[d]  e == u[d]  g == f[d]  before == sum[i]  after == sum[i + 1]
    <3>1. a \in Nat /\ b \in Nat /\ a + e = b + c
      BY <2>6
    <3>2. c <= g /\ e \in Nat /\ c \in Nat /\ g \in Nat
      BY <2>4
    <3>3. b <= before /\ before \in Nat /\ after = before + g
      BY <2>7, <2>8
    <3> HIDE DEF a, b, c, e, g, before, after
    <3>4. a <= after
      BY ONLY <3>1, <3>2, <3>3
    <3> QED BY <3>4 DEF a, after
  <2>10. Sum(part(i + 1), S) \in Nat /\ Sum(part(i + 1), S) <= sum[i + 1]
    BY <2>6, <2>9 DEF v
  <2>11. i + 1 \in Nat
    BY <2>1
  <2> HIDE DEF part
  <2> QED BY <2>10, <2>11
<1>4. n \in U
  <2> HIDE DEF U
  <2>1. (0 .. n) \subseteq U
    BY <1>2, <1>3, Induction
  <2> QED BY <2>1
<1>5. part(n) = f
  <2>1. \A x \in S : part(n)[x] = f[x]
    <3> SUFFICES ASSUME NEW x \in S PROVE part(n)[x] = f[x]
      OBVIOUS
    <3>1. f[x] \in Nat
      OBVIOUS
    <3> QED BY <3>1
  <2>2. DOMAIN f = S /\ f = [x \in S |-> f[x]] /\ part(n) = [x \in S |-> part(n)[x]]
    OBVIOUS
  <2> HIDE DEF part
  <2> QED BY <2>1, <2>2
<1>6. n <= n
  OBVIOUS
<1> QED BY <1>4, <1>5, <1>6

-----------------------------------------------------------------------------
(* Rows of different lengths in one array.                                 *)

\* How many numbers there are below N.
LEMMA IntervalSize ==
  ASSUME NEW N \in Nat
  PROVE  IsFiniteSet(0 .. (N - 1)) /\ Cardinality(0 .. (N - 1)) = N
<1>1. 0 \in Int /\ N - 1 \in Int
  OBVIOUS
<1>2. IsFiniteSet(0 .. (N - 1)) /\ Cardinality(0 .. (N - 1)) = IF 0 > N - 1 THEN 0 ELSE (N - 1) - 0 + 1
  BY <1>1, FS_Interval
<1> QED BY <1>2

\* Each row starts where the one before it ends.
Stacked(start, count, N) ==
  start \in [0 .. N -> Nat] /\ start[0] = 0 /\ \A r \in 0 .. (N - 1) : start[r + 1] = start[r] + count[r]

\* A function that follows the law of the recursion has numbers.
LEMMA StackedNumbers ==
  ASSUME NEW N \in Nat, NEW count \in [0 .. (N - 1) -> Nat], NEW start,
         start = [row \in 0 .. N |-> IF row = 0 THEN 0 ELSE start[row - 1] + count[row - 1]]
  PROVE  Stacked(start, count, N)
<1> DEFINE T == {r \in Nat : start[r] \in Nat}
<1>1. start[0] = 0
  OBVIOUS
<1>2. ASSUME NEW r \in 0 .. (N - 1) PROVE start[r + 1] = start[r] + count[r]
  <2>1. r + 1 \in 0 .. N /\ r + 1 # 0 /\ (r + 1) - 1 = r
    OBVIOUS
  <2>2. start[r + 1] = start[(r + 1) - 1] + count[(r + 1) - 1]
    BY <2>1
  <2> QED BY <2>1, <2>2
<1>3. \A r \in 0 .. (N - 1) : r \in T => r + 1 \in T
  BY <1>2
<1>4. (0 .. N) \subseteq T
  <2> HIDE DEF T
  <2>1. 0 \in T
    BY <1>1 DEF T
  <2> QED BY <1>3, <2>1, Induction
<1> QED BY <1>1, <1>2, <1>4 DEF Stacked

\* There is such a function of the rows.
LEMMA StackedExists ==
  ASSUME NEW N \in Nat, NEW count \in [0 .. (N - 1) -> Nat]
  PROVE  \E start : start = [row \in 0 .. N |-> IF row = 0 THEN 0 ELSE start[row - 1] + count[row - 1]]
<1> DEFINE prev == [n \in 1 .. N |-> n - 1]
           next == [x \in (1 .. N) \X Nat |-> x[2] + count[x[1] - 1]]
<1>1. \A n \in 1 .. N : prev[n] \in 0 .. (n - 1)
  OBVIOUS
<1>2. \A n \in 1 .. N, v \in Nat : next[<<n, v>>] = v + count[n - 1] /\ next[<<n, v>>] \in Nat
  <2> SUFFICES ASSUME NEW n \in 1 .. N, NEW v \in Nat
               PROVE  next[<<n, v>>] = v + count[n - 1] /\ next[<<n, v>>] \in Nat
    OBVIOUS
  <2>1. n - 1 \in 0 .. (N - 1)
    OBVIOUS
  <2>2. count[n - 1] \in Nat
    BY <2>1
  <2> QED BY <2>2, SMTT(30)
<1>3. PICK f \in [0 .. N -> Nat] : f[0] = 0 /\ \A n \in 1 .. N : f[n] = next[<<n, f[prev[n]]>>]
  <2>1. Recurrence(N, Nat, 0, prev, next)
    <3> HIDE DEF prev, next
    <3> QED BY <1>1, <1>2 DEF Recurrence
  <2> HIDE DEF prev, next
  <2>2. PICK f : Solves(f, N, Nat, 0, prev, next)
    BY <2>1, Recursion
  <2> QED BY <2>2 DEF Solves
<1>4. \A n \in 0 .. N : f[n] = IF n = 0 THEN 0 ELSE f[n - 1] + count[n - 1]
  <2> SUFFICES ASSUME NEW n \in 0 .. N, n # 0 PROVE f[n] = f[n - 1] + count[n - 1]
    BY <1>3
  <2>1. n \in 1 .. N /\ n - 1 \in 0 .. N
    OBVIOUS
  <2>2. prev[n] = n - 1 /\ f[n - 1] \in Nat
    BY <2>1
  <2>3. f[n] = next[<<n, f[n - 1]>>]
    BY <1>3, <2>1, <2>2
  <2> HIDE DEF next
  <2> QED BY <1>2, <2>1, <2>2, <2>3
<1>5. f = [n \in 0 .. N |-> f[n]]
  OBVIOUS
<1>6. f = [row \in 0 .. N |-> IF row = 0 THEN 0 ELSE f[row - 1] + count[row - 1]]
  BY <1>4, <1>5
<1> DEFINE Is(g) == g = [row \in 0 .. N |-> IF row = 0 THEN 0 ELSE g[row - 1] + count[row - 1]]
<1>7. Is(f)
  BY <1>6
<1>8. \E g : Is(g)
  <2> HIDE DEF Is
  <2> QED BY <1>7
<1> QED BY <1>8

\* Starts gives where each row begins.
LEMMA StartsLaw ==
  ASSUME NEW N \in Nat, NEW count \in [0 .. (N - 1) -> Nat]
  PROVE  Stacked(Starts(count), count, N)
<1> DEFINE Is(f) == f = [row \in 0 .. N |-> IF row = 0 THEN 0 ELSE f[row - 1] + count[row - 1]]
           start == CHOOSE f : Is(f)
<1>1. Cardinality(DOMAIN count) = N
  BY IntervalSize
<1>2. Starts(count) = start
  BY <1>1 DEF Starts
<1>3. Is(start)
  <2>1. \E f : Is(f)
    BY StackedExists
  <2> HIDE DEF Is
  <2> QED BY <2>1
<1>4. Stacked(start, count, N)
  <2> HIDE DEF start
  <2> QED BY <1>3, StackedNumbers
<1> QED BY <1>2, <1>4

\* A place belongs to one row only.
LEMMA StackedRows ==
  ASSUME NEW N \in Nat, NEW count \in [0 .. (N - 1) -> Nat], NEW start, Stacked(start, count, N)
  PROVE  /\ \A r, s \in 0 .. N : r <= s => start[r] <= start[s]
         /\ \A r \in 0 .. (N - 1), i \in Int : start[r] <= i /\ i < start[r + 1] =>
              /\ (CHOOSE row \in 0 .. (N - 1) : start[row] <= i /\ i < start[row + 1]) = r
              /\ i \in 0 .. (start[N] - 1)
         /\ start[0] = 0 /\ start \in [0 .. N -> Nat]
         /\ \A r \in 0 .. (N - 1) : start[r + 1] = start[r] + count[r]
<1>1. /\ start[0] = 0 /\ \A r \in 0 .. N : start[r] \in Nat
      /\ \A r \in 0 .. (N - 1) : start[r + 1] = start[r] + count[r] /\ count[r] \in Nat
                               /\ r \in 0 .. N /\ r + 1 \in 0 .. N
  BY DEF Stacked
<1>2. ASSUME NEW r \in 0 .. N, NEW s \in 0 .. N, r <= s PROVE start[r] <= start[s]
  <2> DEFINE T == {d \in Nat : r + d <= N => start[r] <= start[r + d]}
  <2>1. r \in Nat /\ s \in Nat /\ N - r \in Nat
    OBVIOUS
  <2>2. 0 \in T
    BY <1>1
  <2>3. ASSUME NEW d \in 0 .. (N - r - 1), d \in T PROVE d + 1 \in T
    <3>1. d \in Nat /\ r + d \in 0 .. (N - 1) /\ r + (d + 1) = (r + d) + 1 /\ r + d <= N
      BY <2>1
    <3>2. start[r] <= start[r + d] /\ start[(r + d) + 1] = start[r + d] + count[r + d]
          /\ start[r + d] \in Nat /\ count[r + d] \in Nat /\ start[r] \in Nat
      BY <1>1, <2>3, <3>1
    <3> QED BY <3>1, <3>2
  <2>4. (0 .. (N - r)) \subseteq T
    <3> HIDE DEF T
    <3>1. \A d \in 0 .. ((N - r) - 1) : d \in T => d + 1 \in T
      BY <2>3
    <3> QED BY <2>1, <2>2, <3>1, Induction
  <2>5. s - r \in 0 .. (N - r) /\ r + (s - r) = s
    BY <1>2, <2>1
  <2>6. s - r \in T
    BY <2>4, <2>5
  <2> QED BY <2>5, <2>6
<1>3. ASSUME NEW r \in 0 .. (N - 1), NEW i \in Int, start[r] <= i, i < start[r + 1]
      PROVE  /\ (CHOOSE row \in 0 .. (N - 1) : start[row] <= i /\ i < start[row + 1]) = r
             /\ i \in 0 .. (start[N] - 1)
  <2> DEFINE q == CHOOSE row \in 0 .. (N - 1) : start[row] <= i /\ i < start[row + 1]
  <2>1. q \in 0 .. (N - 1) /\ start[q] <= i /\ i < start[q + 1]
    BY <1>3
  <2> HIDE DEF q
  <2>2. ~(q + 1 <= r) /\ ~(r + 1 <= q)
    <3>1. q \in 0 .. N /\ q + 1 \in 0 .. N /\ r \in 0 .. N /\ r + 1 \in 0 .. N
      BY <1>1, <2>1
    <3>2. q + 1 <= r => start[q + 1] <= start[r]
      BY <1>2, <3>1
    <3>3. r + 1 <= q => start[r + 1] <= start[q]
      BY <1>2, <3>1
    <3>4. start[q] \in Int /\ start[r] \in Int /\ start[q + 1] \in Int /\ start[r + 1] \in Int
      BY <1>1, <3>1, SMTT(30)
    <3>5. ASSUME q + 1 <= r PROVE FALSE
      BY ONLY <1>3, <2>1, <3>2, <3>4, <3>5
    <3>6. ASSUME r + 1 <= q PROVE FALSE
      BY ONLY <1>3, <2>1, <3>3, <3>4, <3>6
    <3> QED BY <3>5, <3>6
  <2>3. q = r
    BY <2>1, <2>2
  <2>4. start[r + 1] <= start[N] /\ start[N] \in Nat /\ start[r + 1] \in Nat /\ start[r] \in Nat
    <3>1. r + 1 \in 0 .. N /\ N \in 0 .. N /\ r + 1 <= N /\ r \in 0 .. N
      OBVIOUS
    <3> QED BY <1>1, <1>2, <3>1
  <2> QED BY <1>3, <2>3, <2>4, SMTT(30) DEF q
<1>4. start \in [0 .. N -> Nat]
  BY DEF Stacked
<1> HIDE DEF Stacked
<1> QED BY <1>1, <1>2, <1>3, <1>4

\* What is at a place of a row.
LEMMA RaggedItems ==
  ASSUME NEW N \in Nat, NEW count \in [0 .. (N - 1) -> Nat], NEW items
  PROVE  /\ DOMAIN Ragged(count, items) = 0 .. (Starts(count)[N] - 1)
         /\ \A r \in 0 .. (N - 1), i \in Int : i \in 0 .. (count[r] - 1) =>
              /\ Starts(count)[r] + i \in 0 .. (Starts(count)[N] - 1)
              /\ Ragged(count, items)[Starts(count)[r] + i] = items[r][i + 1]
<1> DEFINE start == Starts(count)
           RowOf(i) == CHOOSE row \in 0 .. (N - 1) : start[row] <= i /\ i < start[row + 1]
<1>1. Cardinality(DOMAIN count) = N /\ DOMAIN count = 0 .. (N - 1)
  BY IntervalSize
<1>2. Ragged(count, items) = [i \in 0 .. (start[N] - 1) |-> items[RowOf(i)][i - start[RowOf(i)] + 1]]
  BY <1>1 DEF Ragged
<1>3. ASSUME NEW r \in 0 .. (N - 1), NEW i \in Int, i \in 0 .. (count[r] - 1)
      PROVE  start[r] + i \in 0 .. (start[N] - 1) /\ RowOf(start[r] + i) = r /\ (start[r] + i) - start[r] = i
  <2>1. Stacked(start, count, N)
    BY StartsLaw
  <2> HIDE DEF start
  <2>2. start[r + 1] = start[r] + count[r] /\ start[r] \in Nat
    BY <2>1 DEF Stacked
  <2>3. start[r] + i \in Int /\ start[r] <= start[r] + i /\ start[r] + i < start[r + 1]
        /\ (start[r] + i) - start[r] = i
    BY <1>3, <2>2
  <2> QED BY <2>1, <2>3, StackedRows, ZenonT(100)
<1> HIDE DEF RowOf, start
<1>4. ASSUME NEW r \in 0 .. (N - 1), NEW i \in Int, i \in 0 .. (count[r] - 1)
      PROVE  Ragged(count, items)[start[r] + i] = items[r][i + 1]
  <2> DEFINE j == start[r] + i
  <2>1. j \in 0 .. (start[N] - 1) /\ RowOf(j) = r /\ j - start[r] = i
    BY <1>3, <1>4
  <2> HIDE DEF j
  <2>2. Ragged(count, items)[j] = items[RowOf(j)][(j - start[RowOf(j)]) + 1]
    BY <1>2, <2>1
  <2> QED BY <2>1, <2>2 DEF j
<1>5. DOMAIN Ragged(count, items) = 0 .. (start[N] - 1)
  BY <1>2
<1> QED BY <1>3, <1>4, <1>5 DEF start

-----------------------------------------------------------------------------
(* Verification.                                                           *)

\* The longest run of accepted drafts, and what the row holds then.
LEMMA LeadingLaw ==
  ASSUME NEW count \in Nat, NEW accepts
  PROVE  /\ Leading(count, accepts) \in 0 .. count
         /\ \A i \in 0 .. (Leading(count, accepts) - 1) : accepts[i]
         /\ Leading(count, accepts) < count => ~accepts[Leading(count, accepts)]
<1> DEFINE U == {i \in Nat : i = count \/ (i < count /\ ~accepts[i])}
<1>1. count \in U /\ U \in SUBSET Nat
  OBVIOUS
<1>2. PICK n \in U : \A y \in U : n <= y
  <2> HIDE DEF U
  <2> QED BY <1>1, LeastNatural
<1>3. n \in 0 .. count /\ (n < count => ~accepts[n])
  OBVIOUS
<1>4. ASSUME NEW i \in 0 .. (n - 1) PROVE accepts[i]
  <2>1. i \in Nat /\ ~(n <= i) /\ i < count
    BY <1>3
  <2>2. i \notin U
    <3> HIDE DEF U
    <3> QED BY <1>2, <2>1
  <2> QED BY <2>1, <2>2
<1> HIDE DEF U
<1> QED BY <1>3, <1>4 DEF Leading

\* A verified row holds the drafts up to the first that is refused, the token that takes
\* its place, or after all of them the bonus, and nothing more.
LEMMA VerifiedRowLaw ==
  ASSUME NEW stride \in Nat, NEW count \in Nat, count < stride,
         NEW accepts, NEW taken, NEW instead, NEW bonus
  PROVE  \E n \in 0 .. count :
           LET row == VerifiedRow(stride, count, accepts, taken, instead, bonus)
           IN /\ row = [i \in 0 .. (stride - 1) |-> row[i]]
              /\ \A i \in 0 .. (n - 1) : accepts[i] /\ row[i] = taken[i]
              /\ n < count => ~accepts[n] /\ row[n] = instead[n]
              /\ n = count => row[n] = bonus
              /\ \A i \in (n + 1) .. (stride - 1) : row[i] = None
<1> DEFINE n == Leading(count, accepts)
           row == VerifiedRow(stride, count, accepts, taken, instead, bonus)
<1>1. n \in 0 .. count /\ (\A i \in 0 .. (n - 1) : accepts[i]) /\ (n < count => ~accepts[n])
  BY LeadingLaw
<1>2. row = [i \in 0 .. (stride - 1) |->
        CASE i < n -> taken[i]
          [] i = n /\ n < count -> instead[i]
          [] i = n /\ n = count -> bonus
          [] i > n -> None]
  BY DEF VerifiedRow
<1> HIDE DEF n, row
<1>3. ASSUME NEW i \in 0 .. (stride - 1)
      PROVE  /\ i < n => row[i] = taken[i]
             /\ i = n /\ n < count => row[i] = instead[i]
             /\ i = n /\ n = count => row[i] = bonus
             /\ i > n => row[i] = None
  <2>1. row[i] = CASE i < n -> taken[i]
                   [] i = n /\ n < count -> instead[i]
                   [] i = n /\ n = count -> bonus
                   [] i > n -> None
    BY <1>2
  <2>2. i \in Int /\ n \in Int
    BY <1>1
  <2>3. CASE i < n
    BY <2>1, <2>2, <2>3
  <2>4. CASE i = n
    BY <2>1, <2>2, <2>4
  <2>5. CASE i > n
    BY <2>1, <2>2, <2>5
  <2> QED BY <2>2, <2>3, <2>4, <2>5
<1>4. /\ \A i \in 0 .. (n - 1) : i \in 0 .. (stride - 1) /\ i < n
      /\ \A i \in (n + 1) .. (stride - 1) : i \in 0 .. (stride - 1) /\ i > n
      /\ n \in 0 .. (stride - 1)
  <2>1. n \in Nat /\ n <= count /\ n < stride
    BY <1>1
  <2>2. \A i \in 0 .. (n - 1) : i \in 0 .. (stride - 1) /\ i < n
    BY <2>1
  <2>3. \A i \in (n + 1) .. (stride - 1) : i \in 0 .. (stride - 1) /\ i > n
    BY <2>1
  <2> QED BY <2>1, <2>2, <2>3
<1>5. row = [i \in 0 .. (stride - 1) |-> row[i]]
  <2> DEFINE at(i) == CASE i < n -> taken[i]
                        [] i = n /\ n < count -> instead[i]
                        [] i = n /\ n = count -> bonus
                        [] i > n -> None
  <2>1. row = [i \in 0 .. (stride - 1) |-> at(i)]
    BY <1>2
  <2> HIDE DEF at
  <2> QED BY <2>1
<1>6. /\ \A i \in 0 .. (n - 1) : accepts[i] /\ row[i] = taken[i]
      /\ n < count => ~accepts[n] /\ row[n] = instead[n]
      /\ n = count => row[n] = bonus
      /\ \A i \in (n + 1) .. (stride - 1) : row[i] = None
  BY <1>1, <1>3, <1>4
<1> QED BY <1>1, <1>5, <1>6 DEF row

\* The best token: the most probable, and of these the first.
LEMMA ArgmaxLaw ==
  ASSUME NEW p \in [Tokens -> 0 .. Unit]
  PROVE  /\ Argmax(p) \in Tokens
         /\ \A u \in Tokens : p[Argmax(p)] > p[u] \/ (p[Argmax(p)] = p[u] /\ Argmax(p) <= u)
<1> USE PagedDecodingAssumption
<1>1. Unit \in Nat /\ Tokens \subseteq Nat /\ 0 \in Tokens
  OBVIOUS
<1> DEFINE K == {Unit - p[t] : t \in Tokens}
<1>2. K \in SUBSET Nat /\ K # {}
  BY <1>1
<1>3. PICK k \in K : \A y \in K : k <= y
  <2> HIDE DEF K
  <2> QED BY <1>2, LeastNatural
<1>4. k \in Nat
  BY <1>2, <1>3
<1> DEFINE B == {t \in Tokens : Unit - p[t] = k}
<1>5. B \in SUBSET Nat /\ B # {}
  BY <1>1, <1>3
<1>6. PICK t \in B : \A y \in B : t <= y
  <2> HIDE DEF B
  <2> QED BY <1>5, LeastNatural
<1>7. t \in Tokens /\ \A u \in Tokens : p[t] > p[u] \/ (p[t] = p[u] /\ t <= u)
  <2> SUFFICES ASSUME NEW u \in Tokens PROVE p[t] > p[u] \/ (p[t] = p[u] /\ t <= u)
    OBVIOUS
  <2>1. p[t] \in Nat /\ p[u] \in Nat /\ Unit - p[t] = k /\ k <= Unit - p[u]
    BY <1>1, <1>3
  <2>2. CASE Unit - p[u] = k
    BY <1>1, <1>6, <2>1, <2>2
  <2>3. CASE Unit - p[u] # k
    BY <1>1, <1>4, <2>1, <2>3
  <2> QED BY <2>2, <2>3
<1> HIDE DEF B, K
<1> QED BY <1>7 DEF Argmax

-----------------------------------------------------------------------------
(* Beam search.                                                            *)

\* The order of the candidates.
Earlier(total, c, d) ==
  \/ total[c[1]][c[2]] > total[d[1]][d[2]]
  \/ total[c[1]][c[2]] = total[d[1]][d[2]] /\ c[1] < d[1]
  \/ total[c[1]][c[2]] = total[d[1]][d[2]] /\ c[1] = d[1] /\ c[2] < d[2]

\* The beams are the first candidates, in order.
LEMMA BeamLaw ==
  ASSUME NEW width \in Nat \ {0}, NEW tokens \in SUBSET Nat, IsFiniteSet(tokens), tokens # {},
         NEW total, \A r \in 0 .. (width - 1), t \in tokens : total[r][t] \in Int
  PROVE  LET rows == 0 .. (width - 1)
             beams == BeamSearchStep(width, tokens, total)
             Chosen(row) == <<beams[row].parent, beams[row].token>>
         IN /\ \A row \in rows : /\ beams[row].parent \in rows /\ beams[row].token \in tokens
                                 /\ beams[row].score = total[beams[row].parent][beams[row].token]
            /\ \A a, b \in rows : a < b => Earlier(total, Chosen(a), Chosen(b))
            /\ \A c \in rows \X tokens : (\A row \in rows : c # Chosen(row)) =>
                 \A row \in rows : Earlier(total, Chosen(row), c)
<1> DEFINE rows == 0 .. (width - 1)
           beams == BeamSearchStep(width, tokens, total)
           Chosen(row) == <<beams[row].parent, beams[row].token>>
           S == rows \X tokens
           less == [c \in S |-> {d \in S : Earlier(total, d, c)}]
           N == Cardinality(S)
<1>1. IsFiniteSet(S) /\ N \in Nat /\ width <= N
  <2>1. IsFiniteSet(rows) /\ Cardinality(rows) = width
    BY IntervalSize
  <2>2. Cardinality(tokens) \in Nat /\ Cardinality(tokens) # 0
    BY FS_CardinalityType, FS_EmptySet
  <2>3. IsFiniteSet(S) /\ N = width * Cardinality(tokens)
    <3> HIDE DEF rows
    <3> QED BY <2>1, FS_Product
  <2>4. \A n, m \in Nat : m # 0 => n * m \in Nat /\ n <= n * m
    OBVIOUS
  <2> QED BY <2>2, <2>3, <2>4
<1>2. \A c \in S : c[1] \in Int /\ c[2] \in Int /\ total[c[1]][c[2]] \in Int /\ c = <<c[1], c[2]>>
                   /\ c[1] \in rows /\ c[2] \in tokens
  <2> SUFFICES ASSUME NEW c \in S
               PROVE  /\ c[1] \in Int /\ c[2] \in Int /\ total[c[1]][c[2]] \in Int /\ c = <<c[1], c[2]>>
                      /\ c[1] \in rows /\ c[2] \in tokens
    OBVIOUS
  <2>1. c[1] \in rows /\ c[2] \in tokens /\ c = <<c[1], c[2]>>
    <3> HIDE DEF rows
    <3> QED BY DEF S
  <2> HIDE DEF S
  <2>2. c[1] \in Int /\ c[2] \in Int
    <3>1. \A r \in rows : r \in Int
      OBVIOUS
    <3>2. \A t \in tokens : t \in Int
      BY ONLY tokens \in SUBSET Nat
    <3> QED BY <2>1, <3>1, <3>2
  <2>3. total[c[1]][c[2]] \in Int
    BY <2>1
  <2> QED BY <2>1, <2>2, <2>3
<1>3. /\ \A c \in S : ~Earlier(total, c, c)
      /\ \A c, d, e \in S : Earlier(total, c, d) /\ Earlier(total, d, e) => Earlier(total, c, e)
      /\ \A c, d \in S : c # d => Earlier(total, c, d) \/ Earlier(total, d, c)
  <2> HIDE DEF S
  <2>1. \A c \in S : ~Earlier(total, c, c)
    BY <1>2 DEF Earlier
  <2>2. \A c, d, e \in S : Earlier(total, c, d) /\ Earlier(total, d, e) => Earlier(total, c, e)
    BY <1>2 DEF Earlier
  <2>3. \A c, d \in S : c # d => Earlier(total, c, d) \/ Earlier(total, d, c)
    <3> SUFFICES ASSUME NEW c \in S, NEW d \in S, c # d
                 PROVE  Earlier(total, c, d) \/ Earlier(total, d, c)
      OBVIOUS
    <3>1. c[1] # d[1] \/ c[2] # d[2]
      BY <1>2
    <3> QED BY <1>2, <3>1 DEF Earlier
  <2> QED BY <2>1, <2>2, <2>3
<1>4. /\ less \in [S -> SUBSET S]
      /\ \A x \in S : x \notin less[x]
      /\ \A x, y, z \in S : x \in less[y] /\ y \in less[z] => x \in less[z]
      /\ \A x, y \in S : x # y => x \in less[y] \/ y \in less[x]
      /\ \A x, y \in S : x \in less[y] <=> Earlier(total, x, y)
  <2> HIDE DEF S
  <2> QED BY <1>3
<1>5. /\ \A x \in S : Cardinality(less[x]) \in 0 .. (N - 1)
      /\ \A x, y \in S : x \in less[y] <=> Cardinality(less[x]) < Cardinality(less[y])
      /\ \A k \in 0 .. (N - 1) : \E x \in S : Cardinality(less[x]) = k
  <2> HIDE DEF S, less
  <2> QED BY <1>1, <1>4, Ranks
<1> DEFINE sorted == [i \in 1 .. N |-> CHOOSE x \in S : Cardinality({y \in S : Earlier(total, y, x)}) = i - 1]
<1>6. beams = [slot \in rows |->
                 [parent |-> sorted[slot + 1][1], token |-> sorted[slot + 1][2],
                  score |-> total[sorted[slot + 1][1]][sorted[slot + 1][2]]]]
  BY DEF BeamSearchStep, InOrder, Earlier
<1>7. ASSUME NEW row \in rows
      PROVE  sorted[row + 1] \in S /\ Cardinality(less[sorted[row + 1]]) = row
  <2>1. row + 1 \in 1 .. N /\ row \in 0 .. (N - 1) /\ (row + 1) - 1 = row
    <3> HIDE DEF N, S
    <3> QED BY <1>1
  <2>2. sorted[row + 1] = CHOOSE x \in S : Cardinality({y \in S : Earlier(total, y, x)}) = row
    <3> HIDE DEF S, N
    <3> QED BY <2>1
  <2>3. \A x \in S : less[x] = {y \in S : Earlier(total, y, x)}
    <3> HIDE DEF S
    <3> QED OBVIOUS
  <2>4. \E x \in S : Cardinality({y \in S : Earlier(total, y, x)}) = row
    <3> HIDE DEF S, less, N
    <3> QED BY <1>5, <2>1, <2>3
  <2>5. sorted[row + 1] \in S /\ Cardinality({y \in S : Earlier(total, y, sorted[row + 1])}) = row
    <3> HIDE DEF S, sorted
    <3> QED BY <2>2, <2>4
  <2> HIDE DEF S, sorted, less
  <2> QED BY <2>3, <2>5
<1>8. ASSUME NEW row \in rows
      PROVE  /\ Chosen(row) = sorted[row + 1]
             /\ beams[row].parent \in rows /\ beams[row].token \in tokens
             /\ beams[row].score = total[beams[row].parent][beams[row].token]
  <2> HIDE DEF sorted, S, rows, beams, less
  <2>1. beams[row].parent = sorted[row + 1][1] /\ beams[row].token = sorted[row + 1][2]
        /\ beams[row].score = total[sorted[row + 1][1]][sorted[row + 1][2]]
    BY <1>6
  <2> QED BY <1>2, <1>7, <2>1
<1> HIDE DEF sorted, beams, less, S, N
<1>9. ASSUME NEW a \in rows, NEW b \in rows, a < b PROVE Earlier(total, Chosen(a), Chosen(b))
  <2>1. Chosen(a) \in S /\ Chosen(b) \in S
        /\ Cardinality(less[Chosen(a)]) = a /\ Cardinality(less[Chosen(b)]) = b
    BY <1>7, <1>8
  <2> HIDE DEF Chosen
  <2>2. Chosen(a) \in less[Chosen(b)]
    BY <1>5, <1>9, <2>1
  <2> QED BY <1>4, <2>1, <2>2
<1>10. ASSUME NEW c \in S, \A row \in rows : c # Chosen(row), NEW row \in rows
       PROVE  Earlier(total, Chosen(row), c)
  <2>1. Cardinality(less[c]) \in 0 .. (N - 1) /\ N \in Nat
    BY <1>1, <1>5
  <2>2. ~(Cardinality(less[c]) < width)
    <3> SUFFICES ASSUME Cardinality(less[c]) < width PROVE FALSE
      OBVIOUS
    <3>1. PICK r \in rows : r = Cardinality(less[c])
      BY <2>1
    <3>2. sorted[r + 1] \in S /\ Cardinality(less[sorted[r + 1]]) = Cardinality(less[c]) /\ r \in Int
      BY <1>7, <3>1
    <3>3. sorted[r + 1] = c
      BY <1>4, <1>5, <2>1, <3>2
    <3> QED BY <1>8, <1>10, <3>3
  <2>3. Cardinality(less[Chosen(row)]) = row /\ Chosen(row) \in S
    BY <1>7, <1>8
  <2>4. Cardinality(less[Chosen(row)]) < Cardinality(less[c])
    BY <2>1, <2>2, <2>3
  <2> QED BY <1>4, <1>5, <2>3, <2>4
<1> QED BY <1>8, <1>9, <1>10 DEF S, beams

-----------------------------------------------------------------------------
(* Slots and blocks.                                                       *)

\* What is assumed of the numbers and the tokens.
LEMMA Numbers ==
  /\ Unit \in Nat \ {0} /\ Requests \in Nat \ {0} /\ Beams \in Nat \ {0}
  /\ BlockSize \in Nat \ {0} /\ MaxBlocks \in Nat \ {0}
  /\ PoolBlocks \in Nat /\ MaxLength \in Nat /\ MaxDraft \in Nat /\ DraftSteps \in Nat
  /\ Tokens \subseteq Nat /\ 0 \in Tokens /\ IsFiniteSet(Tokens) /\ -1 \notin Tokens
  /\ MaxLength <= MaxBlocks * BlockSize
BY PagedDecodingAssumption

\* What the types say of a row.
LEMMA RowTypes ==
  ASSUME ITypes
  PROVE  /\ Count \in Nat \ {0} /\ Rows = 0 .. (Count - 1)
         /\ \A row \in Rows :
              /\ row \in Nat
              /\ history[row] \in Seq(Tokens) /\ lengths[row] = Len(history[row]) /\ lengths[row] \in Nat
              /\ scores[row] \in Int
              /\ computed[row] \in 0 .. MaxLength /\ computed[row] \in Nat
              /\ \A column \in Columns : table[row][column] \in Int /\ table[row][column] \in -1 .. (PoolBlocks - 1)
<1>1. Count \in Nat \ {0}
  BY Numbers DEF Count
<1>2. Rows = 0 .. (Count - 1)
  BY DEF ITypes, Rows
<1>3. ASSUME NEW row \in Rows
      PROVE  /\ row \in Nat
             /\ history[row] \in Seq(Tokens) /\ lengths[row] = Len(history[row]) /\ lengths[row] \in Nat
             /\ scores[row] \in Int
             /\ computed[row] \in 0 .. MaxLength /\ computed[row] \in Nat
             /\ \A column \in Columns : table[row][column] \in Int /\ table[row][column] \in -1 .. (PoolBlocks - 1)
  <2>1. row \in Nat
    BY <1>1, <1>2
  <2>2. history[row] \in Seq(Tokens)
    BY <1>2 DEF ITypes
  <2>3. lengths[row] = Len(history[row])
    BY DEF ITypes
  <2>4. lengths[row] \in Nat
    BY <2>2, <2>3, LenProperties
  <2>5. scores[row] \in Int /\ computed[row] \in 0 .. MaxLength
    BY DEF ITypes
  <2>6. computed[row] \in Nat
    BY <2>5, Numbers
  <2>7. table[row] \in [Columns -> None .. (PoolBlocks - 1)]
    BY DEF ITypes
  <2>8. None = -1 /\ PoolBlocks - 1 \in Int
    BY Numbers DEF None
  <2> QED BY <2>1, <2>2, <2>3, <2>4, <2>5, <2>6, <2>7, <2>8
<1> QED BY <1>1, <1>2, <1>3

\* A smaller position is in no later column.
LEMMA DivMonotone ==
  ASSUME NEW p \in Nat, NEW q \in Nat, q <= p
  PROVE  q \div BlockSize <= p \div BlockSize
<1> DEFINE B == BlockSize  c == p \div B
<1>1. B \in Nat \ {0}
  BY Numbers
<1>2. c \in Nat /\ p % B \in 0 .. (B - 1) /\ p = B * c + (p % B)
  BY <1>1, DivMod
<1>3. c + 1 \in Nat /\ B * (c + 1) = B * c + B /\ B * c \in Nat
  BY <1>1, <1>2
<1>4. p < B * (c + 1)
  BY <1>1, <1>2, <1>3
<1> HIDE DEF B
<1>5. q < B * (c + 1)
  BY <1>1, <1>3, <1>4
<1>6. q \div B < c + 1 /\ q \div B \in Nat
  <2> HIDE DEF c
  <2>1. q \div B \in Nat
    BY <1>1, DivMod
  <2>2. q \div B < c + 1
    BY <1>1, <1>3, <1>5, DivBounds
  <2> QED BY <2>1, <2>2
<1>7. q \div B <= c
  <2> HIDE DEF c
  <2> QED BY <1>2, <1>6
<1> QED BY <1>7 DEF B

\* The positions of a column.
LEMMA ColumnPositions ==
  ASSUME NEW p \in Nat
  PROVE  /\ p \div BlockSize \in Nat /\ p % BlockSize \in 0 .. (BlockSize - 1)
         /\ (p \div BlockSize) * BlockSize <= p /\ p < (p \div BlockSize + 1) * BlockSize
         /\ p = (p \div BlockSize) * BlockSize + (p % BlockSize)
         /\ p < MaxLength => p \div BlockSize \in Columns
<1> DEFINE B == BlockSize  c == p \div B  r == p % B
<1>1. B \in Nat \ {0}
  BY Numbers
<1>2. c \in Nat /\ r \in 0 .. (B - 1) /\ p = B * c + r
  BY <1>1, DivMod
<1>3. B * c \in Nat /\ c * B = B * c /\ (c + 1) * B = c * B + B
  BY <1>1, <1>2
<1>4. p < MaxLength => c \in Columns
  <2> SUFFICES ASSUME p < MaxLength PROVE c \in Columns
    OBVIOUS
  <2>1. MaxBlocks \in Nat /\ MaxLength \in Nat /\ MaxLength <= MaxBlocks * B
    BY Numbers
  <2> HIDE DEF B
  <2>2. MaxBlocks * B = B * MaxBlocks /\ B * MaxBlocks \in Nat
    BY <1>1, <2>1
  <2>3. p < B * MaxBlocks
    BY <2>1, <2>2
  <2>4. c < MaxBlocks
    BY <1>1, <2>1, <2>3, DivBounds
  <2> HIDE DEF c
  <2> QED BY <1>2, <2>1, <2>4 DEF Columns
<1> HIDE DEF c, r, B
<1>5. c * B <= p /\ p < (c + 1) * B /\ p = c * B + r
  BY <1>1, <1>2, <1>3
<1> QED BY <1>2, <1>4, <1>5 DEF c, r, B

\* A slot is a block and a place in it.
LEMMA SlotParts ==
  ASSUME NEW t, NEW row, NEW p \in Nat, t[row][p \div BlockSize] \in Nat
  PROVE  /\ Slot(t, row, p) \in Nat
         /\ Slot(t, row, p) \div BlockSize = t[row][p \div BlockSize]
         /\ Slot(t, row, p) % BlockSize = p % BlockSize
<1> DEFINE B == BlockSize  r == p % B  b == t[row][p \div B]
<1>1. B \in Nat \ {0} /\ b \in Nat
  BY Numbers
<1>2. r \in 0 .. (B - 1) /\ r \in Nat
  BY <1>1, DivMod
<1>3. Slot(t, row, p) = b * B + r
  BY DEF Slot
<1> HIDE DEF B, b, r
<1>4. b * B = B * b /\ B * b \in Nat
  BY <1>1
<1>5. (B * b + r) \div B = b /\ (B * b + r) % B = r
  BY <1>1, <1>2, DivModUnique
<1>6. b * B + r = B * b + r /\ B * b + r \in Nat
  BY <1>1, <1>2, <1>4
<1> QED BY <1>3, <1>5, <1>6 DEF B, b, r

\* A slot of an allocated block is in the cache.
LEMMA SlotInCache ==
  ASSUME NEW b \in 0 .. (PoolBlocks - 1), NEW r \in 0 .. (BlockSize - 1)
  PROVE  b * BlockSize + r \in 0 .. (PoolBlocks * BlockSize - 1)
<1> DEFINE B == BlockSize
<1>1. B \in Nat \ {0} /\ PoolBlocks \in Nat /\ b \in Nat /\ r \in Nat /\ r < B /\ b + 1 <= PoolBlocks
  BY Numbers
<1> HIDE DEF B
<1>2. (b + 1) * B <= PoolBlocks * B
  BY <1>1, ProductMonotone
<1>3. (b + 1) * B = b * B + B /\ b * B \in Nat /\ PoolBlocks * B \in Nat
  BY <1>1
<1>4. b * B + r \in 0 .. (PoolBlocks * B - 1)
  BY <1>1, <1>2, <1>3
<1> QED BY <1>4 DEF B

\* Where a position of a row is, if it has a block.
LEMMA SlotOfRow ==
  ASSUME ITypes, NEW row \in Rows, NEW p \in Nat, p \div BlockSize \in Columns, ~Lacks(row, p)
  PROVE  /\ Slot(table, row, p) \in DOMAIN cache /\ Slot(table, row, p) \in Nat
         /\ Slot(table, row, p) \div BlockSize = table[row][p \div BlockSize]
         /\ Slot(table, row, p) % BlockSize = p % BlockSize
         /\ table[row][p \div BlockSize] \in 0 .. (PoolBlocks - 1)
<1> DEFINE c == p \div BlockSize  b == table[row][c]
<1>1. b \in Int /\ b \in -1 .. (PoolBlocks - 1) /\ ~(b < 0)
  BY RowTypes DEF Lacks
<1>2. b \in 0 .. (PoolBlocks - 1) /\ b \in Nat
  BY <1>1, Numbers
<1>3. Slot(table, row, p) \in Nat /\ Slot(table, row, p) \div BlockSize = b
      /\ Slot(table, row, p) % BlockSize = p % BlockSize
  <2> HIDE DEF b
  <2> QED BY <1>2, SlotParts DEF b
<1>4. p % BlockSize \in 0 .. (BlockSize - 1)
  BY ColumnPositions
<1>5. Slot(table, row, p) = b * BlockSize + (p % BlockSize)
  BY DEF Slot
<1>6. Slot(table, row, p) \in 0 .. (PoolBlocks * BlockSize - 1)
  <2> HIDE DEF b
  <2> QED BY <1>2, <1>4, <1>5, SlotInCache
<1>7. DOMAIN cache = 0 .. (PoolBlocks * BlockSize - 1)
  BY DEF ITypes
<1> QED BY <1>2, <1>3, <1>6, <1>7

\* A row that has a position's block has those before it.
LEMMA BlocksBefore ==
  ASSUME ITypes, IBlocks, NEW row \in Rows, NEW p \in Nat, p \div BlockSize \in Columns, ~Lacks(row, p),
         NEW q \in Nat, q <= p
  PROVE  ~Lacks(row, q) /\ q \div BlockSize \in Columns
<1> DEFINE c == p \div BlockSize  d == q \div BlockSize
<1>1. d <= c /\ c \in Nat /\ d \in Nat
  BY DivMonotone, ColumnPositions
<1>2. d \in Columns
  BY <1>1, Numbers DEF Columns
<1>3. table[row][c] \in Int /\ table[row][d] \in Int /\ table[row][c] >= 0
  BY <1>2, RowTypes DEF Lacks
<1>4. d < c => table[row][d] >= 0
  BY <1>2, <1>3 DEF IBlocks
<1>5. table[row][d] >= 0
  BY <1>1, <1>3, <1>4
<1> QED BY <1>2, <1>3, <1>5 DEF Lacks

\* Two positions have the same slot only if they are the same, of the same row or of rows
\* that share what both have computed.
LEMMA SlotsDiffer ==
  ASSUME ITypes, IBlocks,
         NEW row \in Rows, NEW p \in Nat, p \div BlockSize \in Columns, ~Lacks(row, p),
         NEW other \in Rows, NEW q \in Nat, q \div BlockSize \in Columns, ~Lacks(other, q),
         Slot(table, row, p) = Slot(table, other, q)
  PROVE  /\ p = q
         /\ row = other \/ (kind = "remap" /\ p < computed[row] /\ p < computed[other])
<1> DEFINE c == p \div BlockSize  d == q \div BlockSize
<1>1. table[row][c] = table[other][d] /\ p % BlockSize = q % BlockSize /\ table[row][c] >= 0
  <2>1. Slot(table, row, p) \div BlockSize = table[row][c] /\ Slot(table, row, p) % BlockSize = p % BlockSize
        /\ table[row][c] \in 0 .. (PoolBlocks - 1)
    BY SlotOfRow
  <2>2. Slot(table, other, q) \div BlockSize = table[other][d] /\ Slot(table, other, q) % BlockSize = q % BlockSize
    BY SlotOfRow
  <2>3. table[row][c] >= 0
    BY <2>1, Numbers
  <2> QED BY <2>1, <2>2, <2>3
<1>2. c = d /\ (row = other \/ (kind = "remap" /\ Full(row, c) /\ Full(other, c)))
  BY <1>1 DEF IBlocks
<1>3. p = c * BlockSize + (p % BlockSize) /\ q = d * BlockSize + (q % BlockSize)
      /\ p < (c + 1) * BlockSize
  BY ColumnPositions
<1>4. p = q
  BY <1>1, <1>2, <1>3
<1>5. CASE row = other
  BY <1>4, <1>5
<1>6. CASE kind = "remap" /\ Full(row, c) /\ Full(other, c)
  <2>1. computed[row] \in Nat /\ computed[other] \in Nat
    BY RowTypes
  <2>2. (c + 1) * BlockSize <= computed[row] /\ (c + 1) * BlockSize <= computed[other]
    BY <1>6 DEF Full
  <2>3. (c + 1) * BlockSize \in Int
    <3>1. c \in Nat /\ BlockSize \in Nat
      BY ColumnPositions, Numbers
    <3> HIDE DEF c
    <3> QED BY <3>1
  <2> HIDE DEF c
  <2> QED BY <1>3, <1>4, <1>6, <2>1, <2>2, <2>3
<1> QED BY <1>2, <1>5, <1>6

-----------------------------------------------------------------------------
(* Steps that leave the rows and the cache alone.                          *)

\* The invariant holds of the initial states.
LEMMA InitHolds == Init => IInv
<1> SUFFICES ASSUME Init PROVE IInv
  OBVIOUS
<1> USE DEF Init
<1> DEFINE rows == 0 .. (Count - 1)
<1>1. Rows = rows
  BY DEF Rows
<1>2. \A row \in rows : Prompts(row) \in Seq(Tokens) /\ Len(Prompts(row)) \in Nat /\ Len(Prompts(row)) > 0
  <2>1. 0 \in Tokens /\ 1 \in Tokens
    BY PagedDecodingAssumption
  <2>2. <<0>> \in Seq(Tokens) /\ Len(<<0>>) = 1 /\ <<1, 0>> \in Seq(Tokens) /\ Len(<<1, 0>>) = 2
    BY <2>1
  <2> QED BY <2>2 DEF Prompts
<1>3. history \in [rows -> Seq(Tokens)]
  BY <1>2
<1>4. scores \in [Rows -> Int]
  BY <1>1 DEF Unreached
<1>5. policy \in [Rows -> CASE IsBeam -> {"beam"}
                           [] kind = "rejection" -> {"greedy", "random"}
                           [] kind \in {"verify", "tree"} -> {"random"}]
  BY <1>1
<1>6. computed \in [Rows -> 0 .. MaxLength]
  BY <1>1, Numbers
<1>7. table \in [Rows -> [Columns -> None .. (PoolBlocks - 1)]]
  <2>1. None \in None .. (PoolBlocks - 1)
    BY Numbers DEF None
  <2> QED BY <1>1, <2>1 DEF Columns
<1>8. model \in Models
  BY PagedDecodingAssumption
<1>9. ITypes
  <2>1. cache = [slot \in DOMAIN cache |-> cache[slot]] /\ DOMAIN cache = 0 .. (PoolBlocks * BlockSize - 1)
    OBVIOUS
  <2> QED BY <1>3, <1>4, <1>5, <1>6, <1>7, <1>8, <2>1 DEF ITypes
<1>10. \A row \in Rows : computed[row] = 0 /\ history[row] = Prompts(row) /\ lengths[row] = Len(Prompts(row))
                         /\ \A c \in Columns : table[row][c] = -1
  <2>1. \A row \in Rows : \A c \in Columns : table[row][c] = -1
    BY <1>1 DEF None, Columns
  <2> QED BY <1>1, <2>1
<1>11. ILengths
  <2>1. \A row \in Rows : computed[row] < lengths[row]
    BY <1>1, <1>2, <1>10
  <2>2. kind \in {"verify", "tree"} => \A row \in Rows : computed[row] + 1 = lengths[row]
    <3> SUFFICES ASSUME kind \in {"verify", "tree"}, NEW row \in Rows PROVE computed[row] + 1 = lengths[row]
      OBVIOUS
    <3>1. Prompts(row) = <<0>>
      BY DEF Prompts
    <3>2. lengths[row] = 1 /\ computed[row] = 0
      BY ONLY <1>10, <3>1, row \in Rows
    <3> QED BY ONLY <3>2
  <2>3. IsBeam => \A row, other \in Rows : computed[row] = computed[other] /\ lengths[row] = lengths[other]
    BY <1>10, ZenonT(60) DEF Prompts, IsBeam
  <2> QED BY <2>1, <2>2, <2>3 DEF ILengths
<1>12. IBlocks
  BY ONLY <1>10 DEF IBlocks
<1>13. CacheHoldsHistory
  <2>1. \A row \in Rows : (0 .. (computed[row] - 1)) = {}
    BY ONLY <1>10
  <2> QED BY ONLY <2>1 DEF CacheHoldsHistory
<1>14. step = "ready"
  OBVIOUS
<1> QED BY <1>9, <1>11, <1>12, <1>13, <1>14
        DEF IInv, ISteps, IPlanned, InPass, IFed, IChosen, IOut, IDrafts

data == <<streams, history, scores, lengths, computed, table, cache>>

\* A step that leaves the rows, the tables and the cache alone keeps what is said of them.
LEMMA DataUnchanged ==
  ASSUME IInv, UNCHANGED data
  PROVE  ITypes' /\ ILengths' /\ IBlocks' /\ CacheHoldsHistory'
<1>1. /\ kind' = kind /\ model' = model /\ policy' = policy /\ history' = history /\ scores' = scores
      /\ lengths' = lengths /\ computed' = computed /\ table' = table /\ cache' = cache
  BY DEF data, streams
<1>2. ITypes'
  BY <1>1 DEF IInv, ITypes, Rows, Count, IsBeam, Columns, Kinds
<1>3. ILengths'
  BY <1>1 DEF IInv, ILengths, Rows, IsBeam
<1>4. IBlocks'
  BY <1>1 DEF IInv, IBlocks, Rows, Full, Columns
<1>5. CacheHoldsHistory'
  BY <1>1 DEF IInv, CacheHoldsHistory, Rows, Lacks, Slot
<1> QED BY <1>2, <1>3, <1>4, <1>5

\* So does one that goes back to "ready".
LEMMA BackToReady ==
  ASSUME IInv, UNCHANGED data, step' = "ready"
  PROVE  IInv'
BY DataUnchanged DEF IInv, ISteps, IPlanned, InPass, IFed, IChosen, IOut, IDrafts

\* A pass of any kind is planned.
LEMMA PlanStep ==
  ASSUME IInv, NEW fed \in [Rows -> 1 .. MaxLength], NEW drafts \in [Rows -> Seq(Tokens)],
         NEW parents, Plan(fed, drafts, parents),
         \A row \in Rows : Len(drafts[row]) <= MaxDraft,
         IsBeam => \A row \in Rows : fed[row] = lengths[row] - computed[row] /\ drafts[row] = <<>>,
         kind \in {"verify", "tree"} => \A row \in Rows : fed[row] = 1 /\ Len(drafts[row]) = MaxDraft,
         kind = "tree" => parents \in Trees
  PROVE  IInv'
<1>1. UNCHANGED data
  BY DEF Plan, data
<1>2. /\ kind' = kind /\ history' = history /\ lengths' = lengths /\ computed' = computed
  BY DEF Plan, streams
<1>3. step' = "planned" /\ work'.fed = fed /\ work'.drafts = drafts /\ work'.parents = parents
      /\ work'.query = [row \in Rows |->
           SubSeq(history[row], computed[row] + 1, computed[row] + fed[row]) \o drafts[row]]
  BY DEF Plan
<1>4. \A row \in Rows :
        /\ lengths[row] + Len(drafts[row]) < MaxLength
        /\ computed[row] + fed[row] <= lengths[row]
        /\ drafts[row] # <<>> => computed[row] + fed[row] = lengths[row]
  BY DEF Plan
<1>5. IPlanned'
  <2>1. Rows' = Rows /\ IsBeam' = IsBeam
    BY <1>2 DEF Rows, IsBeam
  <2> QED BY <1>2, <1>3, <1>4, <2>1 DEF IPlanned, Trees
<1>6. ISteps' /\ IFed' /\ IChosen' /\ IOut' /\ IDrafts'
  BY <1>3 DEF ISteps, IFed, IChosen, IOut, IDrafts
<1> QED BY <1>1, <1>5, <1>6, DataUnchanged DEF IInv

\* Beams compute all that is left of each row.
LEMMA PlanBeamsStep == ASSUME IInv, PlanBeams PROVE IInv'
<1> DEFINE fed == [row \in Rows |-> lengths[row] - computed[row]]
           drafts == [row \in Rows |-> <<>>]
<1>1. IsBeam /\ Plan(fed, drafts, <<>>)
  BY DEF PlanBeams
<1>2. ITypes /\ ILengths
  BY DEF IInv
<1>3. fed \in [Rows -> 1 .. MaxLength]
  <2> SUFFICES ASSUME NEW row \in Rows PROVE lengths[row] - computed[row] \in 1 .. MaxLength
    OBVIOUS
  <2>1. lengths[row] \in Nat /\ computed[row] \in Nat /\ computed[row] < lengths[row] /\ MaxLength \in Nat
    BY <1>2, RowTypes, Numbers DEF ILengths
  <2>2. lengths[row] < MaxLength
    BY <1>1, <2>1 DEF Plan
  <2> QED BY <2>1, <2>2
<1>4. drafts \in [Rows -> Seq(Tokens)] /\ \A row \in Rows : Len(drafts[row]) <= MaxDraft
  BY Numbers
<1>5. kind \notin {"verify", "tree"} /\ kind # "tree"
  BY <1>1 DEF IsBeam
<1>6. \A row \in Rows : fed[row] = lengths[row] - computed[row] /\ drafts[row] = <<>>
  OBVIOUS
<1> HIDE DEF fed, drafts
<1> QED BY <1>1, <1>3, <1>4, <1>5, <1>6, PlanStep

\* A bounded sequence.
LEMMA BoundedSequences ==
  ASSUME NEW S, NEW n \in Nat, NEW s \in BoundedSeq(S, n)
  PROVE  s \in Seq(S) /\ Len(s) <= n
<1>1. BoundedSeq(S, n) = UNION {[1 .. m -> S] : m \in 0 .. n}
  BY DEF BoundedSeq, SeqOf
<1>2. PICK m \in 0 .. n : s \in [1 .. m -> S]
  BY <1>1
<1>3. m \in Nat /\ m <= n
  OBVIOUS
<1> QED BY <1>2, <1>3, FunctionSeq

\* Rows of different lengths are planned, with or without drafts.
LEMMA PlanRaggedStep == ASSUME IInv, PlanRagged PROVE IInv'
<1>1. kind = "rejection"
  BY DEF PlanRagged
<1>2. PICK fed \in [Rows -> 1 .. MaxLength], drafts \in [Rows -> BoundedSeq(Tokens, MaxDraft)] :
        Plan(fed, drafts, <<>>)
  BY DEF PlanRagged
<1>3. \A row \in Rows : drafts[row] \in Seq(Tokens) /\ Len(drafts[row]) <= MaxDraft
  BY Numbers, BoundedSequences
<1>4. drafts \in [Rows -> Seq(Tokens)]
  BY <1>3
<1>5. ~IsBeam
  BY <1>1 DEF IsBeam
<1> QED BY <1>1, <1>2, <1>3, <1>4, <1>5, PlanStep

\* Drafts of one length.
LEMMA FixedDrafts ==
  ASSUME ITypes, NEW drafts \in [Rows -> [1 .. MaxDraft -> Tokens]]
  PROVE  /\ drafts \in [Rows -> Seq(Tokens)]
         /\ \A row \in Rows : Len(drafts[row]) = MaxDraft
         /\ Len(drafts[0]) <= MaxDraft
<1>1. \A row \in Rows : drafts[row] \in Seq(Tokens) /\ Len(drafts[row]) = MaxDraft
  BY Numbers, FunctionSeq
<1>2. 0 \in Rows
  BY RowTypes
<1>3. MaxDraft <= MaxDraft
  BY Numbers
<1> QED BY <1>1, <1>2, <1>3

\* A pass that is planned has room for one token of each row.
LEMMA OneFed ==
  ASSUME ITypes, ILengths, NEW drafts, NEW parents, Plan([row \in Rows |-> 1], drafts, parents),
         \A row \in Rows : Len(drafts[row]) \in Nat
  PROVE  [row \in Rows |-> 1] \in [Rows -> 1 .. MaxLength]
<1>1. 0 \in Rows
  BY RowTypes
<1>2. lengths[0] + Len(drafts[0]) < MaxLength /\ Len(drafts[0]) \in Nat /\ lengths[0] \in Nat /\ MaxLength \in Nat
  BY <1>1, RowTypes, Numbers DEF Plan
<1>3. 1 \in 1 .. MaxLength
  BY <1>2
<1> QED BY <1>3

\* Every row computes its last token and its drafts.
LEMMA PlanVerifyStep == ASSUME IInv, PlanVerify PROVE IInv'
<1>1. kind = "verify" /\ ITypes /\ ILengths
  BY DEF PlanVerify, IInv
<1>2. PICK drafts \in [Rows -> [1 .. MaxDraft -> Tokens]] : Plan([row \in Rows |-> 1], drafts, <<>>)
  BY DEF PlanVerify
<1> DEFINE fed == [row \in Rows |-> 1]
<1>3. drafts \in [Rows -> Seq(Tokens)] /\ \A row \in Rows : Len(drafts[row]) = MaxDraft
  BY <1>1, FixedDrafts
<1>4. fed \in [Rows -> 1 .. MaxLength]
  BY <1>1, <1>2, <1>3, OneFed, Numbers
<1>5. ~IsBeam /\ kind # "tree"
  BY <1>1 DEF IsBeam
<1>6. \A row \in Rows : fed[row] = 1 /\ Len(drafts[row]) = MaxDraft /\ Len(drafts[row]) <= MaxDraft
  BY <1>3, Numbers
<1>7. Plan(fed, drafts, <<>>)
  BY <1>2
<1> HIDE DEF fed
<1> QED BY <1>3, <1>4, <1>5, <1>6, <1>7, PlanStep

\* Every row computes its last token and a tree of drafts.
LEMMA PlanTreeStep == ASSUME IInv, PlanTree PROVE IInv'
<1>1. kind = "tree" /\ ITypes /\ ILengths
  BY DEF PlanTree, IInv
<1>2. PICK drafts \in [Rows -> [1 .. MaxDraft -> Tokens]], parents \in Trees :
        Plan([row \in Rows |-> 1], drafts, parents)
  BY DEF PlanTree
<1> DEFINE fed == [row \in Rows |-> 1]
<1>3. drafts \in [Rows -> Seq(Tokens)] /\ \A row \in Rows : Len(drafts[row]) = MaxDraft
  BY <1>1, FixedDrafts
<1>4. fed \in [Rows -> 1 .. MaxLength]
  BY <1>1, <1>2, <1>3, OneFed, Numbers
<1>5. ~IsBeam
  BY <1>1 DEF IsBeam
<1>6. \A row \in Rows : fed[row] = 1 /\ Len(drafts[row]) = MaxDraft /\ Len(drafts[row]) <= MaxDraft
  BY <1>3, Numbers
<1>7. Plan(fed, drafts, parents)
  BY <1>2
<1> HIDE DEF fed
<1> QED BY <1>3, <1>4, <1>5, <1>6, <1>7, PlanStep

\* Nothing changes.
LEMMA StutterStep == ASSUME IInv, UNCHANGED vars PROVE IInv'
<1>1. /\ kind' = kind /\ model' = model /\ policy' = policy /\ history' = history /\ scores' = scores
      /\ lengths' = lengths /\ computed' = computed /\ table' = table /\ cache' = cache
      /\ step' = step /\ work' = work
  BY DEF vars
<1>2. UNCHANGED data
  BY <1>1 DEF data, streams
<1>3. ISteps'
  BY <1>1 DEF IInv, ISteps, IsBeam
<1>4. IPlanned'
  BY <1>1 DEF IInv, IPlanned, InPass, IsBeam, Rows
<1>5. IFed'
  <2>1. IFed
    BY DEF IInv
  <2>2. Rows' = Rows /\ \A row : /\ \A p : Lacks(row, p)' <=> Lacks(row, p)
                                /\ LastFed(row)' = LastFed(row)
    BY <1>1 DEF Rows, Lacks, LastFed
  <2>3. \A row : Seen(row)' = Seen(row)
    BY <1>1 DEF Seen, Reached
  <2>4. \A row, tokens : Holds(row, tokens)' <=> Holds(row, tokens)
    BY <1>1, <2>2 DEF Holds
  <2>5. \A row, node : Branch(row, node)' = Branch(row, node)
    BY <1>1 DEF Branch
  <2>6. ASSUME step = "fed", NEW row \in Rows
        PROVE  /\ ~Lacks(row, LastFed(row))'
               /\ kind # "tree" => Holds(row, Seen(row))'
    BY ONLY <2>1, <2>2, <2>3, <2>4, <2>6 DEF IFed
  <2>7. ASSUME step = "fed", kind # "tree", NEW row \in Rows
        PROVE  work'.context[row] = [i \in DOMAIN work'.query[row] |-> SubSeq(Seen(row)', 1, computed'[row] + i)]
    <3>1. work.context[row] = [i \in DOMAIN work.query[row] |-> SubSeq(Seen(row), 1, computed[row] + i)]
      BY ONLY <2>1, <2>7 DEF IFed
    <3> QED BY ONLY <1>1, <2>3, <3>1
  <2>8. ASSUME step = "fed", kind = "tree", NEW row \in Rows, NEW node \in 0 .. MaxDraft
        PROVE  /\ cache'[Slot(table', row, computed'[row] + node)] = Branch(row, node)'
               /\ work'.context[row][node + 1] = Branch(row, node)'
    BY ONLY <1>1, <2>1, <2>5, <2>8 DEF IFed
  <2> QED BY ONLY <1>1, <2>2, <2>6, <2>7, <2>8 DEF IFed
<1>7. IChosen'
  <2>1. IChosen
    BY DEF IInv
  <2>2. Rows' = Rows /\ IsBeam' = IsBeam /\ \A row : Choice(row)' = Choice(row)
    BY <1>1 DEF Rows, IsBeam, Choice
  <2>3. \A row, tokens : Holds(row, tokens)' <=> Holds(row, tokens)
    BY <1>1 DEF Holds, Lacks
  <2>4. \A c : Streams!Total(c)' = Streams!Total(c)
    BY <1>1 DEF Streams!Total
  <2>5. \A c, d : Streams!Before(c, d)' <=> Streams!Before(c, d)
    BY <2>4 DEF Streams!Before
  <2> QED BY ONLY <1>1, <2>1, <2>2, <2>3, <2>4, <2>5 DEF IChosen
<1>8. IOut'
  <2>1. ASSUME NEW row, NEW n, Accepted(row, n) PROVE Accepted(row, n)'
    <3>1. \A i : Taken(row, i)' = Taken(row, i)
      BY <1>1 DEF Taken, Reached
    <3>2. Holds(row, Taken(row, n))'
      BY <1>1, <2>1 DEF Accepted, Holds, Lacks, Taken, Reached
    <3>3. ~Discarded(row) => \A i \in 0 .. n : Streams!Emits(row, Taken(row, i), work.out[row][i])'
      BY <1>1, <2>1, ZenonT(100) DEF Accepted, Discarded, Streams!Emits, Streams!Best, Taken, Reached
    <3> QED BY <1>1, <2>1, <3>2, <3>3 DEF Accepted, Discarded
  <2>2. ASSUME NEW row, NEW n, Prepared(row, n) PROVE Prepared(row, n)'
    BY <1>1, <2>2 DEF Prepared, Discarded
  <2> QED BY <1>1, <2>1, <2>2 DEF IInv, IOut, IsBeam, Rows
<1>6. IDrafts'
  BY <1>1 DEF IInv, IDrafts, Rows, Lacks
<1> QED BY <1>2, <1>3, <1>4, <1>5, <1>6, <1>7, <1>8, DataUnchanged DEF IInv

-----------------------------------------------------------------------------
(* The allocation of blocks.                                               *)

\* While an entry of the tables lacks its block, some block is free.
LEMMA FreeBlock ==
  ASSUME ITypes, NEW row \in Rows, NEW c \in Columns, table[row][c] < 0
  PROVE  /\ Free # {} /\ Free \in SUBSET Nat
         /\ (CHOOSE b \in Free : \A other \in Free : b <= other) \in Free
<1> DEFINE D == Rows \X Columns  E == D \ {<<row, c>>}  blocks == 0 .. (PoolBlocks - 1)
<1>1. Count \in Nat \ {0} /\ Rows = 0 .. (Count - 1)
  BY RowTypes
<1>2. IsFiniteSet(E) /\ Cardinality(E) = Count * MaxBlocks - 1
  <2>1. IsFiniteSet(Rows) /\ Cardinality(Rows) = Count
    BY <1>1, IntervalSize
  <2>2. IsFiniteSet(Columns) /\ Cardinality(Columns) = MaxBlocks
    BY IntervalSize, Numbers DEF Columns
  <2>3. IsFiniteSet(D) /\ Cardinality(D) = Count * MaxBlocks
    BY <2>1, <2>2, FS_Product
  <2>4. <<row, c>> \in D
    OBVIOUS
  <2> HIDE DEF D
  <2> QED BY <2>3, <2>4, FS_RemoveElement
<1>3. Count * MaxBlocks <= PoolBlocks /\ Count * MaxBlocks \in Nat
  <2> DEFINE most == IF Beams > Requests THEN Beams ELSE Requests
  <2>1. most \in Nat /\ Count <= most /\ MaxBlocks \in Nat
    BY Numbers DEF Count
  <2>2. MaxBlocks * most <= PoolBlocks
    BY PagedDecodingAssumption
  <2> HIDE DEF most
  <2>3. Count * MaxBlocks <= most * MaxBlocks
    BY <1>1, <2>1, ProductMonotone
  <2>4. most * MaxBlocks = MaxBlocks * most /\ MaxBlocks * most \in Nat /\ Count * MaxBlocks \in Nat
    BY <1>1, <2>1
  <2> QED BY <2>2, <2>3, <2>4, Numbers
<1>4. Free \in SUBSET Nat
  BY Numbers DEF Free
<1>5. ASSUME Free = {} PROVE FALSE
  <2>1. \A b \in blocks : \E e \in E : table[e[1]][e[2]] = b
    <3> SUFFICES ASSUME NEW b \in blocks PROVE \E e \in E : table[e[1]][e[2]] = b
      OBVIOUS
    <3>1. b \in {table[r][column] : r \in Rows, column \in 0 .. (MaxBlocks - 1)}
      BY <1>5 DEF Free
    <3>2. PICK r \in Rows, d \in Columns : b = table[r][d]
      BY <3>1 DEF Columns
    <3>3. <<r, d>> \in D /\ <<r, d>>[1] = r /\ <<r, d>>[2] = d
      OBVIOUS
    <3>4. <<r, d>> # <<row, c>>
      <4>1. ~(b < 0)
        BY Numbers
      <4> QED BY <3>2, <4>1
    <3> HIDE DEF D
    <3>5. <<r, d>> \in E
      BY <3>3, <3>4
    <3> HIDE DEF E
    <3> QED BY <3>2, <3>3, <3>5
  <2> DEFINE f == [b \in blocks |-> CHOOSE e \in E : table[e[1]][e[2]] = b]
  <2>2. \A b \in blocks : f[b] \in E /\ table[f[b][1]][f[b][2]] = b
    <3> HIDE DEF E, blocks
    <3> QED BY <2>1
  <2>3. f \in Injection(blocks, E)
    <3> HIDE DEF E, blocks
    <3>1. f \in [blocks -> E]
      BY <2>2
    <3>2. \A a, b \in blocks : a # b => f[a] # f[b]
      <4> HIDE DEF f
      <4> QED BY <2>2
    <3> HIDE DEF f
    <3> QED BY <3>1, <3>2, Fun_IsInj
  <2>4. Cardinality(blocks) <= Cardinality(E)
    <3> HIDE DEF E, blocks, f
    <3> QED BY <1>2, <2>3, FS_Injection
  <2>5. Cardinality(blocks) = PoolBlocks
    BY IntervalSize, Numbers
  <2> HIDE DEF E, blocks
  <2> QED BY <1>2, <1>3, <2>4, <2>5, Numbers
<1>6. \E b \in Free : \A other \in Free : b <= other
  BY <1>4, <1>5, LeastNatural
<1> QED BY <1>4, <1>5, <1>6

\* The column of which Allocate fills the entry.
LEMMA FirstMissing ==
  ASSUME ITypes, NEW row \in Rows, NEW p \in Nat, p \div BlockSize \in Columns, Lacks(row, p)
  PROVE  LET c == CHOOSE c \in 0 .. (p \div BlockSize) :
                    /\ table[row][c] < 0
                    /\ \A d \in 0 .. (c - 1) : table[row][d] >= 0
         IN /\ c \in Columns /\ c <= p \div BlockSize /\ table[row][c] < 0
            /\ \A d \in 0 .. (c - 1) : table[row][d] >= 0
<1> DEFINE k == p \div BlockSize
           U == {c \in Nat : c <= k /\ table[row][c] < 0}
<1>1. k \in Nat /\ table[row][k] < 0 /\ k <= MaxBlocks - 1
  BY ColumnPositions, Numbers DEF Lacks, Columns
<1> HIDE DEF k
<1>2. k \in U /\ U \in SUBSET Nat
  BY <1>1
<1>3. PICK c \in U : \A y \in U : c <= y
  <2> HIDE DEF U
  <2> QED BY <1>2, LeastNatural
<1>4. c \in 0 .. k /\ table[row][c] < 0
  BY <1>1
<1>5. \A d \in 0 .. (c - 1) : table[row][d] >= 0
  <2> SUFFICES ASSUME NEW d \in 0 .. (c - 1) PROVE table[row][d] >= 0
    OBVIOUS
  <2>1. d \in Nat /\ d <= k /\ ~(c <= d) /\ d \in Columns
    BY <1>1, Numbers DEF Columns
  <2>2. d \notin U
    <3> HIDE DEF U
    <3> QED BY <1>3, <2>1
  <2>3. ~(table[row][d] < 0)
    BY <2>1, <2>2
  <2>4. table[row][d] \in Int
    BY <2>1, RowTypes
  <2> QED BY <2>3, <2>4
<1>6. \A c2 \in 0 .. k : c2 \in Columns /\ c2 <= k
  BY <1>1, Numbers DEF Columns
<1> DEFINE e == CHOOSE c2 \in 0 .. k : table[row][c2] < 0 /\ \A d \in 0 .. (c2 - 1) : table[row][d] >= 0
<1> HIDE DEF U
<1>7. e \in 0 .. k /\ table[row][e] < 0 /\ \A d \in 0 .. (e - 1) : table[row][d] >= 0
  BY <1>4, <1>5
<1> HIDE DEF e
<1>8. e \in Columns /\ e <= k
  BY <1>6, <1>7
<1> QED BY <1>7, <1>8 DEF e, k

\* Allocation keeps what the rows have and adds a block that none has.
LEMMA AllocateStep ==
  ASSUME IInv, NEW row \in Rows, NEW p \in Nat, p \div BlockSize \in Columns,
         kind = "remap" => p < lengths[row],
         Allocate(row, p), UNCHANGED <<streams, history, scores, lengths, computed, cache>>
  PROVE  /\ ITypes' /\ ILengths' /\ IBlocks' /\ CacheHoldsHistory'
         /\ \A r \in Rows, q \in Nat : q \div BlockSize \in Columns /\ ~Lacks(r, q) =>
              ~Lacks(r, q)' /\ Slot(table', r, q) = Slot(table, r, q)
<1> DEFINE c == CHOOSE c \in 0 .. (p \div BlockSize) :
                    /\ table[row][c] < 0
                    /\ \A d \in 0 .. (c - 1) : table[row][d] >= 0
           b == CHOOSE b \in Free : \A other \in Free : b <= other
<1>1. ITypes /\ ILengths /\ IBlocks /\ CacheHoldsHistory
  BY DEF IInv
<1>2. Lacks(row, p) /\ table' = [table EXCEPT ![row][c] = b]
  BY DEF Allocate
<1>3. /\ c \in Columns /\ c <= p \div BlockSize /\ table[row][c] < 0
      /\ \A d \in 0 .. (c - 1) : table[row][d] >= 0
  BY <1>1, <1>2, FirstMissing
<1> HIDE DEF c
<1>4. b \in Free
  BY <1>1, <1>3, FreeBlock
<1> HIDE DEF b
<1>5. b \in 0 .. (PoolBlocks - 1) /\ \A r \in Rows, x \in Columns : table[r][x] # b
  BY <1>4 DEF Free, Columns
<1>6. b \in Int /\ b >= 0 /\ b \in None .. (PoolBlocks - 1)
  BY <1>5, Numbers DEF None
<1>7. /\ kind' = kind /\ model' = model /\ policy' = policy /\ history' = history /\ scores' = scores
      /\ lengths' = lengths /\ computed' = computed /\ cache' = cache /\ Rows' = Rows
  BY DEF streams, Rows
<1>8. \A r \in Rows, x \in Columns :
        table'[r][x] = IF r = row /\ x = c THEN b ELSE table[r][x]
  BY <1>1, <1>2, <1>3 DEF ITypes
<1>9. table' \in [Rows -> [Columns -> None .. (PoolBlocks - 1)]]
  BY <1>1, <1>2, <1>3, <1>6 DEF ITypes
<1>10. ITypes'
  BY <1>1, <1>7, <1>9 DEF ITypes, Count, IsBeam, Columns, Kinds
<1>11. ILengths'
  BY <1>1, <1>7 DEF ILengths, IsBeam
<1>12. \A r \in Rows, x \in Columns : table[r][x] \in Int /\ x \in Int
  BY <1>1, RowTypes, Numbers DEF Columns
<1>13. IBlocks'
  <2>1. ASSUME NEW r \in Rows, NEW x \in Columns, NEW y \in Columns, x < y, table'[r][y] >= 0
        PROVE  table'[r][x] >= 0
    <3>1. CASE r = row /\ x = c
      BY <1>6, <1>8, <3>1
    <3>2. CASE r = row /\ y = c
      <4>1. x \in 0 .. (c - 1) /\ x # c
        BY <1>12, <2>1, <3>2, Numbers DEF Columns
      <4> QED BY <1>3, <1>8, <4>1, <3>2
    <3>3. CASE ~(r = row /\ x = c) /\ ~(r = row /\ y = c)
      BY <1>1, <1>8, <2>1, <3>3 DEF IBlocks
    <3> QED BY <3>1, <3>2, <3>3
  <2>2. ASSUME NEW r \in Rows, NEW o \in Rows, NEW x \in Columns, NEW y \in Columns,
               table'[r][x] >= 0, table'[r][x] = table'[o][y]
        PROVE  x = y /\ (r = o \/ (kind = "remap" /\ Full(r, x) /\ Full(o, x)))
    <3>1. CASE r = row /\ x = c
      <4>1. o = row /\ y = c
        BY <1>5, <1>8, <2>2, <3>1
      <4> QED BY <3>1, <4>1
    <3>2. CASE o = row /\ y = c
      <4>1. r = row /\ x = c
        BY <1>5, <1>8, <2>2, <3>2
      <4> QED BY <3>2, <4>1
    <3>3. CASE ~(r = row /\ x = c) /\ ~(o = row /\ y = c)
      BY <1>1, <1>8, <2>2, <3>3 DEF IBlocks
    <3> QED BY <3>1, <3>2, <3>3
  <2>3. ASSUME kind = "remap", NEW r \in Rows, NEW x \in Columns, table'[r][x] >= 0
        PROVE  x * BlockSize < lengths[r]
    <3>1. CASE r = row /\ x = c
      <4>1. p \div BlockSize \in Nat /\ (p \div BlockSize) * BlockSize <= p /\ BlockSize \in Nat /\ p < lengths[row]
        BY <2>3, ColumnPositions, Numbers
      <4>2. x * BlockSize <= (p \div BlockSize) * BlockSize
        BY <1>3, <1>12, <3>1, <4>1, ProductMonotone
      <4>3. x * BlockSize \in Int /\ (p \div BlockSize) * BlockSize \in Int /\ lengths[row] \in Int
        BY <1>1, <1>12, <4>1, RowTypes
      <4> QED BY <3>1, <4>1, <4>2, <4>3
    <3>2. CASE ~(r = row /\ x = c)
      BY <1>1, <1>8, <2>3, <3>2 DEF IBlocks
    <3> QED BY <3>1, <3>2
  <2> QED BY <1>7, <2>1, <2>2, <2>3 DEF IBlocks, Full, Columns
<1>14. ASSUME NEW r \in Rows, NEW q \in Nat, q \div BlockSize \in Columns, ~Lacks(r, q)
       PROVE  ~Lacks(r, q)' /\ Slot(table', r, q) = Slot(table, r, q)
  <2>1. ~(r = row /\ q \div BlockSize = c)
    BY <1>3, <1>14 DEF Lacks
  <2>2. table'[r][q \div BlockSize] = table[r][q \div BlockSize]
    BY <1>8, <1>14, <2>1
  <2> QED BY <1>14, <2>2 DEF Lacks, Slot
<1>15. CacheHoldsHistory'
  <2> SUFFICES ASSUME NEW r \in Rows, NEW q \in 0 .. (computed[r] - 1)
               PROVE  ~Lacks(r, q)' /\ cache[Slot(table', r, q)] = SubSeq(history[r], 1, q + 1)
    BY <1>7 DEF CacheHoldsHistory
  <2>1. q \in Nat /\ q < MaxLength
    <3>1. computed[r] \in Nat /\ computed[r] \in 0 .. MaxLength
      BY <1>1, RowTypes
    <3>2. MaxLength \in Nat
      BY Numbers
    <3> QED BY <3>1, <3>2
  <2>2. q \div BlockSize \in Columns
    BY <2>1, ColumnPositions
  <2>3. ~Lacks(r, q) /\ cache[Slot(table, r, q)] = SubSeq(history[r], 1, q + 1)
    BY <1>1 DEF CacheHoldsHistory
  <2> QED BY <1>14, <2>1, <2>2, <2>3
<1> QED BY <1>10, <1>11, <1>13, <1>14, <1>15

-----------------------------------------------------------------------------
(* A pass that is planned, and what is drafted after it.                   *)

\* The tokens of a row in a pass.
LEMMA PassLengths ==
  ASSUME ITypes, IPlanned, InPass, NEW row \in Rows
  PROVE  /\ work.fed[row] \in Nat /\ work.fed[row] > 0
         /\ computed[row] + work.fed[row] <= lengths[row]
         /\ work.drafts[row] \in Seq(Tokens)
         /\ Len(work.drafts[row]) \in Nat /\ Len(work.drafts[row]) <= MaxDraft
         /\ lengths[row] + Len(work.drafts[row]) < MaxLength
         /\ Reached(row) \in Seq(Tokens) /\ Len(Reached(row)) = computed[row] + work.fed[row]
         /\ Seen(row) \in Seq(Tokens) /\ Len(Seen(row)) = computed[row] + work.fed[row] + Len(work.drafts[row])
         /\ work.query[row] \in Seq(Tokens) /\ Len(work.query[row]) = work.fed[row] + Len(work.drafts[row])
         /\ SubSeq(history[row], 1, computed[row]) \in Seq(Tokens)
         /\ SubSeq(history[row], 1, computed[row]) \o work.query[row] = Seen(row)
         /\ Len(SubSeq(history[row], 1, computed[row])) = computed[row]
         /\ LastFed(row) = Len(Seen(row)) - 1 /\ LastFed(row) \in Nat /\ LastFed(row) < MaxLength
         /\ LastFed(row) \div BlockSize \in Columns
<1> DEFINE h == history[row]  c == computed[row]  f == work.fed[row]  d == work.drafts[row]
           chunk == SubSeq(h, c + 1, c + f)  before == SubSeq(h, 1, c)
<1>1. /\ h \in Seq(Tokens) /\ Len(h) \in Nat /\ lengths[row] = Len(h) /\ c \in Nat
  BY RowTypes
<1>2. f \in 1 .. MaxLength /\ d \in Seq(Tokens) /\ c + f <= Len(h) /\ Len(d) <= MaxDraft
      /\ lengths[row] + Len(d) < MaxLength /\ work.query[row] = chunk \o d
  BY <1>1 DEF IPlanned
<1>3. f \in Nat /\ f > 0 /\ c + f \in 0 .. Len(h) /\ c \in 0 .. Len(h) /\ c + f \in c .. Len(h) /\ MaxLength \in Nat
  <2> HIDE DEF c, f, h
  <2>1. MaxLength \in Nat /\ f \in Nat /\ f > 0
    BY <1>2, Numbers
  <2> QED BY <1>1, <1>2, <2>1
<1>4. Len(d) \in Nat
  BY <1>2, LenProperties
<1>5. Reached(row) \in Seq(Tokens) /\ Len(Reached(row)) = c + f /\ before \in Seq(Tokens) /\ Len(before) = c
  <2> HIDE DEF h, c, f
  <2> QED BY <1>1, <1>3, Prefix DEF Reached, h, c, f
<1>6. before \o chunk = Reached(row)
  <2> HIDE DEF h, c, f
  <2> QED BY <1>1, <1>3, PrefixJoins DEF Reached, h, c, f
<1>7. chunk \in Seq(Tokens) /\ Len(chunk) = f
  <2>1. \A i \in (c + 1) .. (c + f) : h[i] \in Tokens
    <3>1. \A i \in (c + 1) .. (c + f) : i \in 1 .. Len(h)
      <4> HIDE DEF h, c, f
      <4> QED BY <1>1, <1>3
    <3> HIDE DEF h, c, f
    <3> QED BY <1>1, <3>1, ElementOfSeq
  <2>2. c + 1 \in Int /\ c + f \in Int
    BY <1>1, <1>3
  <2> HIDE DEF h, c, f
  <2>3. chunk \in Seq(Tokens) /\ Len(chunk) = IF c + 1 <= c + f THEN (c + f) - (c + 1) + 1 ELSE 0
    BY <2>1, <2>2, SubSeqProperties
  <2> HIDE DEF chunk
  <2> QED BY <1>1, <1>3, <2>3
<1>8. Seen(row) = Reached(row) \o d /\ Seen(row) \in Seq(Tokens) /\ Len(Seen(row)) = c + f + Len(d)
  <2> HIDE DEF d, c, f
  <2>1. Seen(row) = Reached(row) \o d
    BY DEF Seen, d
  <2>2. Reached(row) \o d \in Seq(Tokens) /\ Len(Reached(row) \o d) = Len(Reached(row)) + Len(d)
    BY <1>2, <1>5, ConcatProperties, SMTT(30)
  <2> QED BY <1>5, <2>1, <2>2
<1>9. work.query[row] \in Seq(Tokens) /\ Len(work.query[row]) = f + Len(d)
  <2> HIDE DEF d, chunk, f
  <2>1. chunk \o d \in Seq(Tokens) /\ Len(chunk \o d) = Len(chunk) + Len(d)
    <3>1. chunk \in Seq(Tokens) /\ d \in Seq(Tokens)
      BY <1>2, <1>7
    <3> QED BY ONLY <3>1, ConcatProperties, SMT
  <2> QED BY <1>2, <1>7, <2>1
<1>10. before \o work.query[row] = Seen(row)
  <2> HIDE DEF d, chunk, before, h, c, f
  <2>1. before \o (chunk \o d) = (before \o chunk) \o d
    <3>1. before \in Seq(Tokens) /\ chunk \in Seq(Tokens) /\ d \in Seq(Tokens)
      BY <1>2, <1>5, <1>7
    <3>2. (before \o chunk) \o d = before \o (chunk \o d)
      BY ONLY <3>1, ConcatAssociative, SMT
    <3> QED BY ONLY <3>2
  <2> QED BY <1>2, <1>6, <1>8, <2>1
<1>11. LastFed(row) = Len(Seen(row)) - 1 /\ LastFed(row) \in Nat /\ LastFed(row) < MaxLength
  <2> HIDE DEF d, h, f
  <2>1. LastFed(row) = c + (f + Len(d)) - 1
    BY <1>9 DEF LastFed
  <2> HIDE DEF c
  <2> QED BY <1>1, <1>2, <1>3, <1>4, <1>8, <2>1, SMTT(30)
<1>12. LastFed(row) \div BlockSize \in Columns
  BY <1>11, ColumnPositions
<1> QED BY <1>1, <1>2, <1>3, <1>4, <1>5, <1>8, <1>9, <1>10, <1>11, <1>12

\* A block is taken for a row that lacks one.
LEMMA AllocateForPassStep == ASSUME IInv, AllocateForPass PROVE IInv'
<1>1. step = "planned" /\ ITypes /\ ILengths /\ IBlocks /\ IPlanned /\ InPass
  BY DEF AllocateForPass, IInv, InPass
<1>2. PICK row \in Rows : Allocate(row, LastFed(row))
  BY DEF AllocateForPass
<1>3. UNCHANGED <<streams, history, scores, lengths, computed, cache>> /\ step' = step /\ work' = work
  BY DEF AllocateForPass
<1>4. LastFed(row) \in Nat /\ LastFed(row) \div BlockSize \in Columns
  BY <1>1, PassLengths
<1>5. kind = "remap" => LastFed(row) < lengths[row]
  <2> SUFFICES ASSUME kind = "remap" PROVE LastFed(row) < lengths[row]
    OBVIOUS
  <2>1. work.fed[row] = lengths[row] - computed[row] /\ work.drafts[row] = <<>>
    BY <1>1 DEF IPlanned, IsBeam
  <2>2. Len(Seen(row)) = computed[row] + work.fed[row] + Len(work.drafts[row]) /\ LastFed(row) = Len(Seen(row)) - 1
    BY <1>1, PassLengths
  <2>3. computed[row] \in Nat /\ lengths[row] \in Nat
    BY <1>1, RowTypes
  <2>4. Len(work.drafts[row]) = 0
    BY <2>1
  <2> QED BY <2>1, <2>2, <2>3, <2>4
<1>6. ITypes' /\ ILengths' /\ IBlocks' /\ CacheHoldsHistory'
  BY <1>2, <1>3, <1>4, <1>5, AllocateStep
<1>7. kind' = kind /\ history' = history /\ lengths' = lengths /\ computed' = computed
  BY <1>3 DEF streams
<1>8. IPlanned'
  BY <1>1, <1>3, <1>7 DEF IPlanned, InPass, IsBeam, Rows
<1>9. ISteps' /\ IFed' /\ IChosen' /\ IOut' /\ IDrafts'
  BY <1>1, <1>3 DEF ISteps, IFed, IChosen, IOut, IDrafts
<1> QED BY <1>6, <1>8, <1>9 DEF IInv

\* The position that a step of the draft model writes.
LEMMA DraftPositions ==
  ASSUME IInv, step = "drafting", NEW row \in Rows
  PROVE  /\ kind = "rejection" /\ work.rounds \in Nat /\ computed[row] \in Nat
         /\ work.positions[row] \in Int
         /\ work.positions[row] + 1 = computed[row] + work.rounds /\ work.positions[row] + 1 \in Nat
         /\ work.positions[row] + 1 < MaxLength =>
              /\ (work.positions[row] + 1) \div BlockSize \in Columns
              /\ Smaller((work.positions[row] + 1) \div BlockSize, MaxBlocks - 1) =
                   (work.positions[row] + 1) \div BlockSize
<1> DEFINE p == work.positions[row] + 1
<1>1. ITypes /\ IDrafts /\ kind = "rejection"
  BY DEF IInv, ISteps
<1>2. work.rounds \in Nat /\ computed[row] \in Nat /\ work.positions[row] = computed[row] - 1 + work.rounds
  BY <1>1, RowTypes DEF IDrafts
<1>3. work.positions[row] \in Int /\ p = computed[row] + work.rounds /\ p \in Nat
  BY <1>2
<1>4. ASSUME p < MaxLength
      PROVE  p \div BlockSize \in Columns /\ Smaller(p \div BlockSize, MaxBlocks - 1) = p \div BlockSize
  <2> HIDE DEF p
  <2>1. p \div BlockSize \in Columns
    BY <1>3, <1>4, ColumnPositions
  <2>2. p \div BlockSize <= MaxBlocks - 1
    BY <2>1, Numbers DEF Columns
  <2> QED BY <2>1, <2>2 DEF Smaller
<1> QED BY <1>1, <1>2, <1>3, <1>4

\* What the draft model's step returns.
LEMMA DraftSlots ==
  ASSUME IInv, step = "drafting"
  PROVE  LET result == EagleStepSlotMapping(work.positions, table, work.lengths, MaxBlocks,
                                            BlockSize, MaxLength, Pad)
         IN /\ result.ok => \A row \in Rows :
                 LET p == work.positions[row] + 1
                 IN /\ p >= MaxLength => result.slots[row] = Pad /\ result.lengths[row] = 1
                    /\ p < MaxLength => /\ ~Lacks(row, p) /\ result.slots[row] = Slot(table, row, p)
                                        /\ result.lengths[row] = p + 1
            /\ ~result.ok => /\ result.reached \in Rows
                             /\ work.positions[result.reached] + 1 < MaxLength
<1> DEFINE result == EagleStepSlotMapping(work.positions, table, work.lengths, MaxBlocks,
                                          BlockSize, MaxLength, Pad)
           Exceeds(row) == work.positions[row] + 1 >= MaxLength
           Clamped(row) == IF Exceeds(row) THEN 0 ELSE work.positions[row] + 1
           Block(row) == table[row][Smaller(Clamped(row) \div BlockSize, MaxBlocks - 1)]
           missing == {row \in Rows : ~Exceeds(row) /\ Block(row) < 0}
<1>1. ITypes /\ IDrafts
  BY DEF IInv
<1>2. DOMAIN work.positions = Rows
  BY <1>1 DEF IDrafts
<1>3. result = [ok |-> missing = {},
                reached |-> IF missing = {} THEN Cardinality(Rows)
                            ELSE CHOOSE row \in missing : \A other \in missing : row <= other,
                positions |-> [row \in Rows |-> Clamped(row)],
                slots |-> [row \in Rows |->
                             IF Exceeds(row) THEN Pad
                             ELSE Block(row) * BlockSize + (Clamped(row) % BlockSize)],
                lengths |-> [row \in Rows |->
                               IF Exceeds(row) THEN 1 ELSE Smaller(work.lengths[row] + 1, MaxLength)]]
  BY <1>2 DEF EagleStepSlotMapping
<1> HIDE DEF result
<1>4. result.ok = (missing = {})
      /\ result.reached = (IF missing = {} THEN Cardinality(Rows)
                            ELSE CHOOSE row \in missing : \A other \in missing : row <= other)
      /\ \A row \in Rows :
           /\ result.slots[row] = IF Exceeds(row) THEN Pad
                                  ELSE Block(row) * BlockSize + (Clamped(row) % BlockSize)
           /\ result.lengths[row] = IF Exceeds(row) THEN 1 ELSE Smaller(work.lengths[row] + 1, MaxLength)
  <2> HIDE DEF missing, Exceeds, Block, Clamped
  <2> QED BY <1>3
<1>5. ASSUME missing # {}
      PROVE  (CHOOSE row \in missing : \A other \in missing : row <= other) \in missing
  <2>1. missing \in SUBSET Nat
    <3>1. \A row \in Rows : row \in Nat
      BY <1>1, RowTypes
    <3> QED BY <3>1
  <2> HIDE DEF missing
  <2> QED BY <1>5, <2>1, LeastNatural
<1>6. \A row \in Rows : work.positions[row] + 1 \in Nat
  BY DraftPositions
<1>7. ASSUME ~result.ok PROVE result.reached \in Rows /\ work.positions[result.reached] + 1 < MaxLength
  <2>1. missing # {} /\ result.reached \in missing
    <3> HIDE DEF missing, Exceeds, Block, Clamped
    <3> QED BY <1>4, <1>5, <1>7
  <2>2. result.reached \in Rows /\ ~(work.positions[result.reached] + 1 >= MaxLength)
    BY <2>1
  <2> QED BY <1>6, <2>2, Numbers
<1>8. ASSUME result.ok, NEW row \in Rows
      PROVE  LET p == work.positions[row] + 1
             IN /\ p >= MaxLength => result.slots[row] = Pad /\ result.lengths[row] = 1
                /\ p < MaxLength => /\ ~Lacks(row, p) /\ result.slots[row] = Slot(table, row, p)
                                    /\ result.lengths[row] = p + 1
  <2> DEFINE p == work.positions[row] + 1
  <2>1. CASE p >= MaxLength
    <3>1. Exceeds(row) /\ ~(p < MaxLength)
      BY <1>6, <2>1, Numbers
    <3>2. result.slots[row] = Pad /\ result.lengths[row] = 1
      <4> HIDE DEF Block, Exceeds, Clamped, p, missing
      <4> QED BY <1>4, <3>1
    <3> HIDE DEF Block, Exceeds, Clamped, missing
    <3> QED BY <3>1, <3>2
  <2>2. CASE p < MaxLength
    <3>1. ~Exceeds(row) /\ Clamped(row) = p
      BY <1>6, <2>2, Numbers
    <3>2. Smaller(p \div BlockSize, MaxBlocks - 1) = p \div BlockSize
      BY <2>2, DraftPositions
    <3>3. Block(row) = table[row][p \div BlockSize]
      BY <3>1, <3>2
    <3>4. ~(Block(row) < 0)
      <4> HIDE DEF Block, Exceeds, Clamped, p
      <4> QED BY <1>4, <1>8, <3>1
    <3>5. result.slots[row] = Block(row) * BlockSize + (p % BlockSize)
      <4> HIDE DEF Block, Exceeds, Clamped, p, missing
      <4> QED BY <1>4, <3>1
    <3>6. ~Lacks(row, p) /\ result.slots[row] = Slot(table, row, p)
      <4> HIDE DEF Block, p
      <4> QED BY <3>3, <3>4, <3>5 DEF Lacks, Slot
    <3>7. result.lengths[row] = Smaller(work.lengths[row] + 1, MaxLength)
      <4> HIDE DEF Block, Exceeds, Clamped, p, missing
      <4> QED BY <1>4, <3>1
    <3>8. work.lengths[row] = work.positions[row] + 1
      <4>1. work.lengths[row] = IF work.rounds > 0 /\ work.positions[row] >= MaxLength THEN 1
                                ELSE work.positions[row] + 1
        BY <1>1 DEF IDrafts
      <4>2. ~(work.positions[row] >= MaxLength)
        BY <2>2, DraftPositions, Numbers
      <4> QED BY <4>1, <4>2
    <3>9. result.lengths[row] = p + 1
      <4>1. p + 1 <= MaxLength /\ work.lengths[row] + 1 = p + 1
        BY <1>6, <2>2, <3>8, Numbers
      <4> QED BY <3>7, <4>1 DEF Smaller
    <3> QED BY <1>6, <2>2, <3>6, <3>9, Numbers
  <2> QED BY <1>6, <2>1, <2>2, Numbers
<1> QED BY <1>7, <1>8 DEF result

\* A step of the draft model advances every row by a position.
LEMMA DraftStepStep == ASSUME IInv, DraftStep PROVE IInv'
<1> DEFINE result == EagleStepSlotMapping(work.positions, table, work.lengths, MaxBlocks,
                                          BlockSize, MaxLength, Pad)
<1>1. step = "drafting" /\ step' = step /\ kind = "rejection" /\ ITypes /\ IDrafts /\ result.ok
  BY DEF DraftStep, IInv, ISteps
<1>2. UNCHANGED data
  BY DEF DraftStep, data
<1>3. kind' = kind /\ history' = history /\ computed' = computed /\ table' = table /\ Rows' = Rows
  BY DEF DraftStep, streams, Rows
<1>4. /\ work'.rounds = work.rounds + 1
      /\ work'.positions = [row \in Rows |-> work.positions[row] + 1]
      /\ work'.lengths = result.lengths
      /\ work'.slots = [row \in Rows |-> Append(work.slots[row], result.slots[row])]
  BY DEF DraftStep
<1>5. \A row \in Rows :
        LET p == work.positions[row] + 1
        IN /\ p >= MaxLength => result.slots[row] = Pad /\ result.lengths[row] = 1
           /\ p < MaxLength => /\ ~Lacks(row, p) /\ result.slots[row] = Slot(table, row, p)
                               /\ result.lengths[row] = p + 1
  BY <1>1, DraftSlots
<1> HIDE DEF result
<1>6. work.rounds \in Nat
  BY <1>1 DEF IDrafts
<1>7. ASSUME NEW row \in Rows
      PROVE  /\ work'.positions[row] = computed[row] - 1 + work'.rounds
             /\ work'.lengths[row] = IF work'.rounds > 0 /\ work'.positions[row] >= MaxLength THEN 1
                                     ELSE work'.positions[row] + 1
             /\ work'.slots[row] \in Seq(Int) /\ Len(work'.slots[row]) = work'.rounds
             /\ \A i \in 1 .. work'.rounds :
                  LET position == computed[row] + i - 1
                  IN IF position >= MaxLength THEN work'.slots[row][i] = Pad
                     ELSE ~Lacks(row, position) /\ work'.slots[row][i] = Slot(table, row, position)
  <2> DEFINE p == work.positions[row] + 1
  <2>1. p \in Nat /\ p = computed[row] + work.rounds /\ computed[row] \in Nat /\ work'.positions[row] = p
    BY <1>1, <1>4, DraftPositions
  <2>2. work'.positions[row] = computed[row] - 1 + work'.rounds
    BY <1>4, <1>6, <2>1, SMTT(30)
  <2>3. work'.rounds > 0 /\ work'.rounds \in Nat
    BY <1>4, <1>6
  <2>4. work'.lengths[row] = result.lengths[row]
    BY <1>4
  <2>5. /\ p >= MaxLength => result.slots[row] = Pad /\ result.lengths[row] = 1
        /\ p < MaxLength => /\ ~Lacks(row, p) /\ result.slots[row] = Slot(table, row, p)
                            /\ result.lengths[row] = p + 1
    BY <1>5
  <2> HIDE DEF p
  <2>6. work'.lengths[row] = IF work'.rounds > 0 /\ work'.positions[row] >= MaxLength THEN 1
                             ELSE work'.positions[row] + 1
    BY <2>1, <2>3, <2>4, <2>5, Numbers
  <2>7. /\ work.slots[row] \in Seq(Int) /\ Len(work.slots[row]) = work.rounds
        /\ \A i \in 1 .. work.rounds :
             LET position == computed[row] + i - 1
             IN IF position >= MaxLength THEN work.slots[row][i] = Pad
                ELSE ~Lacks(row, position) /\ work.slots[row][i] = Slot(table, row, position)
    BY <1>1 DEF IDrafts
  <2>8. result.slots[row] \in Int
    <3>1. CASE p >= MaxLength
      BY <2>5, <3>1 DEF Pad
    <3>2. CASE p < MaxLength
      <4>1. p \div BlockSize \in Columns
        BY <2>1, <3>2, ColumnPositions
      <4>2. Slot(table, row, p) \in Nat
        BY <1>1, <2>1, <2>5, <3>2, <4>1, SlotOfRow
      <4> QED BY <2>5, <3>2, <4>2
    <3> QED BY <2>1, <3>1, <3>2, Numbers
  <2>9. /\ work'.slots[row] \in Seq(Int) /\ Len(work'.slots[row]) = work.rounds + 1
        /\ \A i \in 1 .. work.rounds : work'.slots[row][i] = work.slots[row][i]
        /\ work'.slots[row][work.rounds + 1] = result.slots[row]
    <3>1. work'.slots[row] = Append(work.slots[row], result.slots[row])
      BY <1>4
    <3> QED BY <2>7, <2>8, <3>1, AppendProperties
  <2>10. ASSUME NEW i \in 1 .. work'.rounds
         PROVE  LET position == computed[row] + i - 1
                IN IF position >= MaxLength THEN work'.slots[row][i] = Pad
                   ELSE ~Lacks(row, position) /\ work'.slots[row][i] = Slot(table, row, position)
    <3>1. CASE i \in 1 .. work.rounds
      BY <2>7, <2>9, <3>1
    <3>2. CASE i = work.rounds + 1
      <4>1. computed[row] + i - 1 = p
        BY <1>6, <2>1, <3>2
      <4>2. work'.slots[row][i] = result.slots[row]
        BY <2>9, <3>2
      <4>3. p \in Int /\ MaxLength \in Int
        BY <2>1, Numbers
      <4> QED BY <2>5, <4>1, <4>2, <4>3
    <3>3. i \in 1 .. work.rounds \/ i = work.rounds + 1
      BY <1>4, <1>6
    <3> QED BY <3>1, <3>2, <3>3
  <2>11. Len(work'.slots[row]) = work'.rounds
    BY <1>4, <2>9
  <2> QED BY <2>2, <2>6, <2>9, <2>10, <2>11
<1>8. DOMAIN work'.positions = Rows /\ work'.rounds \in Nat
  BY <1>4, <1>6
<1>9. IDrafts'
  BY <1>3, <1>7, <1>8 DEF IDrafts, Lacks
<1>10. ISteps' /\ IPlanned' /\ IFed' /\ IChosen' /\ IOut'
  BY <1>1, <1>3 DEF ISteps, IPlanned, InPass, IFed, IChosen, IOut
<1> QED BY <1>2, <1>9, <1>10, DataUnchanged DEF IInv

\* A step of the draft model that fails takes the block that it lacks.
LEMMA DraftStepFailsStep == ASSUME IInv, DraftStepFails PROVE IInv'
<1> DEFINE result == EagleStepSlotMapping(work.positions, table, work.lengths, MaxBlocks,
                                          BlockSize, MaxLength, Pad)
           row == result.reached
           p == work.positions[row] + 1
<1>1. step = "drafting" /\ step' = step /\ work' = work /\ kind = "rejection" /\ ITypes /\ IDrafts /\ ~result.ok
      /\ UNCHANGED <<streams, history, scores, lengths, computed, cache>> /\ Allocate(row, p)
  BY DEF DraftStepFails, IInv, ISteps
<1>2. row \in Rows /\ p < MaxLength
  BY <1>1, DraftSlots
<1> HIDE DEF row
<1>3. p \in Nat /\ p \div BlockSize \in Columns
  BY <1>1, <1>2, DraftPositions
<1> HIDE DEF p
<1>4. /\ ITypes' /\ ILengths' /\ IBlocks' /\ CacheHoldsHistory'
      /\ \A r \in Rows, q \in Nat : q \div BlockSize \in Columns /\ ~Lacks(r, q) =>
           ~(table'[r][q \div BlockSize] < 0) /\ Slot(table', r, q) = Slot(table, r, q)
  <2> HIDE DEF result
  <2>1. \A r \in Rows, q \in Nat : q \div BlockSize \in Columns /\ ~Lacks(r, q) =>
          ~Lacks(r, q)' /\ Slot(table', r, q) = Slot(table, r, q)
    BY <1>1, <1>2, <1>3, AllocateStep
  <2>2. ITypes' /\ ILengths' /\ IBlocks' /\ CacheHoldsHistory'
    BY <1>1, <1>2, <1>3, AllocateStep
  <2> QED BY <2>1, <2>2 DEF Lacks
<1>5. kind' = kind /\ history' = history /\ computed' = computed /\ Rows' = Rows
  BY <1>1 DEF streams, Rows
<1>6. ASSUME NEW r \in Rows, NEW i \in 1 .. work.rounds
      PROVE  LET position == computed[r] + i - 1
             IN IF position >= MaxLength THEN work.slots[r][i] = Pad
                ELSE ~(table'[r][position \div BlockSize] < 0) /\ work.slots[r][i] = Slot(table', r, position)
  <2> DEFINE q == computed[r] + i - 1
  <2>1. q \in Nat /\ (~(q >= MaxLength) => q \div BlockSize \in Columns)
    <3>1. computed[r] \in Nat /\ i \in Nat /\ i >= 1 /\ MaxLength \in Nat
      BY <1>1, RowTypes, Numbers DEF IDrafts
    <3>2. q \in Nat
      BY <3>1
    <3>3. ~(q >= MaxLength) => q < MaxLength
      BY <3>1, <3>2
    <3> HIDE DEF q
    <3> QED BY <3>2, <3>3, ColumnPositions
  <2>2. IF q >= MaxLength THEN work.slots[r][i] = Pad
        ELSE ~Lacks(r, q) /\ work.slots[r][i] = Slot(table, r, q)
    <3>1. \A j \in 1 .. work.rounds :
            LET position == computed[r] + j - 1
            IN IF position >= MaxLength THEN work.slots[r][j] = Pad
               ELSE ~Lacks(r, position) /\ work.slots[r][j] = Slot(table, r, position)
      BY <1>1 DEF IDrafts
    <3> QED BY <3>1
  <2> HIDE DEF q
  <2>3. IF q >= MaxLength THEN work.slots[r][i] = Pad
        ELSE ~(table'[r][q \div BlockSize] < 0) /\ work.slots[r][i] = Slot(table', r, q)
    BY <1>4, <2>1, <2>2
  <2> QED BY <2>3 DEF q
<1>7. IDrafts'
  BY <1>1, <1>5, <1>6 DEF IDrafts, Lacks
<1>8. ISteps' /\ IPlanned' /\ IFed' /\ IChosen' /\ IOut'
  BY <1>1, <1>5 DEF ISteps, IPlanned, InPass, IFed, IChosen, IOut
<1> QED BY <1>4, <1>7, <1>8 DEF IInv

\* The drafts are there.
LEMMA DraftingEndsStep == ASSUME IInv, DraftingEnds PROVE IInv'
<1>1. UNCHANGED data /\ step' = "ready"
  BY DEF DraftingEnds, data
<1> QED BY <1>1, BackToReady

-----------------------------------------------------------------------------
(* The forward pass.                                                       *)

\* What a row has computed is found.
LEMMA FoundPrefix ==
  ASSUME ITypes, ILengths, CacheHoldsHistory, NEW row \in Rows
  PROVE  Found(row) = SubSeq(history[row], 1, computed[row])
<1>1. computed[row] \in Nat /\ history[row] \in Seq(Tokens)
  BY RowTypes
<1>2. CASE computed[row] = 0
  <2>1. 0 \in 0 .. Len(history[row])
    BY <1>1, LenProperties
  <2>2. SubSeq(history[row], 1, 0) \in Seq(Tokens) /\ Len(SubSeq(history[row], 1, 0)) = 0
    BY <1>1, <2>1, Prefix
  <2>3. SubSeq(history[row], 1, 0) = <<>>
    BY <2>2, EmptySeq
  <2> QED BY <1>2, <2>3 DEF Found
<1>3. CASE computed[row] # 0
  <2>1. computed[row] - 1 \in 0 .. (computed[row] - 1) /\ (computed[row] - 1) + 1 = computed[row]
    BY <1>1, <1>3
  <2>2. cache[Slot(table, row, computed[row] - 1)] = SubSeq(history[row], 1, (computed[row] - 1) + 1)
    BY <2>1 DEF CacheHoldsHistory
  <2> QED BY <1>3, <2>1, <2>2 DEF Found
<1> QED BY <1>2, <1>3

\* Each entry of the pass is written to its own slot, and no other slot of a row is.
LEMMA ForwardWrites ==
  ASSUME IInv, Forward
  PROVE  /\ DOMAIN cache' = DOMAIN cache /\ cache' = [slot \in DOMAIN cache' |-> cache'[slot]]
         /\ \A row \in Rows : \A i \in 1 .. Len(work.query[row]) :
              /\ cache'[Slot(table, row, computed[row] + i - 1)] = Entry(row, i)
              /\ ~Lacks(row, computed[row] + i - 1)
         /\ \A row \in Rows : \A p \in 0 .. (computed[row] - 1) :
              cache'[Slot(table, row, p)] = cache[Slot(table, row, p)]
<1> DEFINE Writer(slot) == CHOOSE e \in Writers(slot) : \A other \in Writers(slot) : other[1] <= e[1]
<1>1. step = "planned" /\ ITypes /\ ILengths /\ IBlocks /\ IPlanned /\ InPass /\ CacheHoldsHistory
  BY DEF Forward, IInv, InPass
<1>2. \A row \in Rows : ~Lacks(row, LastFed(row))
  BY DEF Forward
<1>3. cache' = [slot \in DOMAIN cache |->
                  IF Writers(slot) = {} THEN cache[slot] ELSE Entry(Writer(slot)[1], Writer(slot)[2])]
  BY DEF Forward, Written
<1>4. \A slot, e : e \in Writers(slot) <=>
        /\ e[1] \in Rows /\ e[2] \in 1 .. MaxLength /\ e = <<e[1], e[2]>>
        /\ e[2] <= Len(work.query[e[1]])
        /\ Slot(table, e[1], computed[e[1]] + e[2] - 1) = slot
  BY DEF Writers
<1>5. ASSUME NEW row \in Rows, NEW i \in 1 .. Len(work.query[row])
      PROVE  LET p == computed[row] + i - 1
             IN /\ p \in Nat /\ p >= computed[row] /\ p \div BlockSize \in Columns /\ ~Lacks(row, p)
                /\ i \in 1 .. MaxLength /\ p - computed[row] + 1 = i
  <2> DEFINE p == computed[row] + i - 1
  <2>1. computed[row] \in Nat /\ LastFed(row) = computed[row] + Len(work.query[row]) - 1 /\ LastFed(row) \in Nat
        /\ LastFed(row) < MaxLength /\ Len(work.query[row]) \in Nat /\ LastFed(row) \div BlockSize \in Columns
        /\ MaxLength \in Nat
    BY <1>1, RowTypes, PassLengths, LenProperties, Numbers DEF LastFed
  <2>2. p \in Nat /\ p <= LastFed(row) /\ p >= computed[row] /\ i \in 1 .. MaxLength /\ p - computed[row] + 1 = i
    BY <2>1, SMTT(30)
  <2> HIDE DEF p
  <2>3. ~Lacks(row, p) /\ p \div BlockSize \in Columns
    BY <1>1, <1>2, <2>1, <2>2, BlocksBefore
  <2> QED BY <2>2, <2>3 DEF p
<1>6. ASSUME NEW row \in Rows, NEW i \in 1 .. Len(work.query[row])
      PROVE  Writers(Slot(table, row, computed[row] + i - 1)) = {<<row, i>>}
  <2> DEFINE p == computed[row] + i - 1
  <2>1. p \in Nat /\ p >= computed[row] /\ p \div BlockSize \in Columns /\ ~Lacks(row, p) /\ i \in 1 .. MaxLength
        /\ computed[row] \in Nat
    BY <1>1, <1>5, RowTypes
  <2>2. <<row, i>> \in Writers(Slot(table, row, p))
    BY <1>4, <2>1
  <2>3. ASSUME NEW e \in Writers(Slot(table, row, p))
        PROVE  e = <<row, i>>
    <3>1. /\ e[1] \in Rows /\ e[2] \in 1 .. Len(work.query[e[1]]) /\ e = <<e[1], e[2]>>
          /\ Slot(table, e[1], computed[e[1]] + e[2] - 1) = Slot(table, row, p)
      BY <1>1, <1>4, PassLengths
    <3> DEFINE q == computed[e[1]] + e[2] - 1
    <3>2. q \in Nat /\ q >= computed[e[1]] /\ q \div BlockSize \in Columns /\ ~Lacks(e[1], q)
      BY <1>5, <3>1
    <3>3. Slot(table, row, p) = Slot(table, e[1], q)
      BY <3>1
    <3> HIDE DEF p, q
    <3>4. p = q /\ (row = e[1] \/ (p < computed[row] /\ p < computed[e[1]]))
      BY <1>1, <2>1, <3>1, <3>2, <3>3, SlotsDiffer
    <3>5. row = e[1]
      BY <2>1, <3>4
    <3>6. e[2] = i
      BY <2>1, <3>1, <3>4, <3>5 DEF p, q
    <3> QED BY <3>1, <3>5, <3>6
  <2> QED BY <2>2, <2>3
<1>7. ASSUME NEW row \in Rows, NEW i \in 1 .. Len(work.query[row])
      PROVE  /\ cache'[Slot(table, row, computed[row] + i - 1)] = Entry(row, i)
             /\ ~Lacks(row, computed[row] + i - 1)
  <2> DEFINE p == computed[row] + i - 1  s == Slot(table, row, p)
  <2>1. p \in Nat /\ p \div BlockSize \in Columns /\ ~Lacks(row, p)
    BY <1>5
  <2>2. s \in DOMAIN cache
    <3> HIDE DEF p
    <3> QED BY <1>1, <2>1, SlotOfRow
  <2>3. Writers(s) = {<<row, i>>}
    BY <1>6
  <2>4. Writer(s) = <<row, i>>
    <3>1. row <= row
      BY <1>1, RowTypes
    <3> HIDE DEF s
    <3> QED BY <2>3, <3>1
  <2> HIDE DEF Writer, s
  <2>5. cache'[s] = Entry(row, i)
    <3>1. cache'[s] = Entry(Writer(s)[1], Writer(s)[2])
      BY <1>3, <2>2, <2>3
    <3> QED BY <2>4, <3>1
  <2> QED BY <2>1, <2>5 DEF s
<1>8. ASSUME NEW row \in Rows, NEW p \in 0 .. (computed[row] - 1)
      PROVE  cache'[Slot(table, row, p)] = cache[Slot(table, row, p)]
  <2> DEFINE s == Slot(table, row, p)
  <2>1. p \in Nat /\ p < MaxLength /\ computed[row] \in Nat /\ p < computed[row]
    BY <1>1, RowTypes, Numbers
  <2>2. p \div BlockSize \in Columns /\ ~Lacks(row, p)
    BY <1>1, <2>1, ColumnPositions DEF CacheHoldsHistory
  <2>3. s \in DOMAIN cache
    BY <1>1, <2>1, <2>2, SlotOfRow
  <2>4. ASSUME NEW e \in Writers(s) PROVE FALSE
    <3>1. Slot(table, e[1], computed[e[1]] + e[2] - 1) = s
      BY <1>4
    <3>2. e[1] \in Rows /\ e[2] \in 1 .. Len(work.query[e[1]])
      BY <1>1, <1>4, PassLengths
    <3> DEFINE q == computed[e[1]] + e[2] - 1
    <3>3. q \in Nat /\ q >= computed[e[1]] /\ q \div BlockSize \in Columns /\ ~Lacks(e[1], q)
          /\ computed[e[1]] \in Nat
      BY <1>1, <1>5, <3>2, RowTypes
    <3>4. Slot(table, row, p) = Slot(table, e[1], q)
      BY <3>1
    <3> HIDE DEF q
    <3>5. p = q /\ (row = e[1] \/ (p < computed[row] /\ p < computed[e[1]]))
      BY <1>1, <2>1, <2>2, <3>2, <3>3, <3>4, SlotsDiffer
    <3> QED BY <2>1, <3>3, <3>5
  <2>5. Writers(s) = {}
    BY <2>4
  <2> HIDE DEF s
  <2> QED BY <1>3, <2>3, <2>5 DEF s
<1>9. DOMAIN cache' = DOMAIN cache /\ cache' = [slot \in DOMAIN cache' |-> cache'[slot]]
  BY <1>3
<1> QED BY <1>7, <1>8, <1>9

\* What an entry is computed from, outside trees.
LEMMA EntryPrefix ==
  ASSUME IInv, step = "planned", kind # "tree", NEW row \in Rows, NEW i \in 0 .. Len(work.query[row])
  PROVE  Entry(row, i) = SubSeq(Seen(row), 1, computed[row] + i)
<1> DEFINE before == SubSeq(history[row], 1, computed[row])
<1>1. ITypes /\ ILengths /\ IPlanned /\ InPass /\ CacheHoldsHistory
  BY DEF IInv, InPass
<1>2. before \in Seq(Tokens) /\ Len(before) = computed[row] /\ before \o work.query[row] = Seen(row)
      /\ work.query[row] \in Seq(Tokens)
  BY <1>1, PassLengths
<1>3. Found(row) = before
  BY <1>1, FoundPrefix
<1>4. Entry(row, i) = Found(row) \o SubSeq(work.query[row], 1, i)
  BY DEF Entry
<1> HIDE DEF before
<1>5. SubSeq(before \o work.query[row], 1, Len(before) + i) = before \o SubSeq(work.query[row], 1, i)
  <2>1. \A t \in Seq(Tokens) : \A k \in 0 .. Len(t) : SubSeq(before \o t, 1, Len(before) + k) = before \o SubSeq(t, 1, k)
    <3>1. before \in Seq(Tokens)
      BY <1>2
    <3> QED BY ONLY <3>1, PrefixOfConcat
  <2> QED BY <1>2, <2>1
<1> QED BY <1>2, <1>3, <1>4, <1>5

\* The tokens of a row that are computed are those that it has seen.
LEMMA SeenPrefix ==
  ASSUME IInv, InPass, NEW row \in Rows
  PROVE  /\ \A k \in 0 .. computed[row] : SubSeq(Seen(row), 1, k) = SubSeq(history[row], 1, k)
         /\ \A k \in 0 .. (computed[row] + work.fed[row]) : SubSeq(Seen(row), 1, k) = SubSeq(history[row], 1, k)
         /\ \A k \in 0 .. (computed[row] + work.fed[row]) : SubSeq(Reached(row), 1, k) = SubSeq(history[row], 1, k)
<1>1. ITypes /\ IPlanned
  BY DEF IInv
<1> DEFINE n == computed[row] + work.fed[row]
<1>2. history[row] \in Seq(Tokens) /\ n \in 0 .. Len(history[row]) /\ computed[row] <= n /\ computed[row] \in Nat
      /\ n \in Nat
  <2>1. history[row] \in Seq(Tokens) /\ Len(history[row]) \in Nat /\ computed[row] \in Nat /\ lengths[row] = Len(history[row])
    BY <1>1, RowTypes
  <2>2. work.fed[row] \in Nat /\ n <= lengths[row]
    BY <1>1, PassLengths
  <2> QED BY <2>1, <2>2
<1>3. Reached(row) = SubSeq(history[row], 1, n) /\ Reached(row) \in Seq(Tokens) /\ Len(Reached(row)) = n
      /\ work.drafts[row] \in Seq(Tokens)
  BY <1>1, PassLengths DEF Reached
<1> HIDE DEF n
<1>4. \A k \in 0 .. n : SubSeq(Reached(row), 1, k) = SubSeq(history[row], 1, k)
  BY <1>2, <1>3, PrefixOfPrefix
<1>5. \A k \in 0 .. n : SubSeq(Seen(row), 1, k) = SubSeq(Reached(row), 1, k)
  BY <1>3, PrefixOfConcat DEF Seen
<1>6. \A k \in 0 .. computed[row] : k \in 0 .. n
  BY <1>2
<1> QED BY <1>4, <1>5, <1>6 DEF n

\* After a pass every row's slots hold what it has computed, and each entry has seen the
\* tokens before it.
LEMMA ForwardStep == ASSUME IInv, Forward PROVE IInv'
<1>1. step = "planned" /\ step' = "fed" /\ ITypes /\ ILengths /\ IBlocks /\ IPlanned /\ InPass /\ CacheHoldsHistory
  BY DEF Forward, IInv, InPass
<1>2. /\ kind' = kind /\ model' = model /\ policy' = policy /\ history' = history /\ scores' = scores
      /\ lengths' = lengths /\ computed' = computed /\ table' = table /\ Rows' = Rows
  <2>1. UNCHANGED <<streams, history, scores, lengths, computed, table>>
    BY DEF Forward
  <2> QED BY <2>1 DEF streams, Rows
<1>3. /\ work'.fed = work.fed /\ work'.drafts = work.drafts /\ work'.parents = work.parents
      /\ work'.query = work.query
      /\ \A row \in Rows : work'.context[row] =
           [i \in DOMAIN work.query[row] |->
              IF \/ kind = "tree" /\ Intact(cache', row, Found(row))
                 \/ kind # "tree" /\ Intact(cache', row, Entry(row, i))
              THEN Entry(row, i) ELSE Garbage]
  <2>1. work' = [fed |-> work.fed, drafts |-> work.drafts, parents |-> work.parents,
                 query |-> work.query,
                 context |-> [row \in Rows |-> [i \in DOMAIN work.query[row] |-> Context(row, i)]]]
    BY DEF Forward
  <2> QED BY <2>1 DEF Context
<1>4. \A row \in Rows : ~Lacks(row, LastFed(row))
  BY DEF Forward
<1>5. /\ DOMAIN cache' = DOMAIN cache /\ cache' = [slot \in DOMAIN cache' |-> cache'[slot]]
      /\ \A row \in Rows : \A i \in 1 .. Len(work.query[row]) :
           /\ cache'[Slot(table, row, computed[row] + i - 1)] = Entry(row, i)
           /\ ~Lacks(row, computed[row] + i - 1)
      /\ \A row \in Rows : \A p \in 0 .. (computed[row] - 1) :
           cache'[Slot(table, row, p)] = cache[Slot(table, row, p)]
  BY ForwardWrites
<1>6. ITypes'
  BY <1>1, <1>2, <1>5 DEF ITypes, Count, IsBeam, Columns, Kinds
<1>7. ILengths' /\ IBlocks'
  BY <1>1, <1>2 DEF ILengths, IBlocks, IsBeam, Full, Columns
<1>8. CacheHoldsHistory'
  BY <1>1, <1>2, <1>5 DEF CacheHoldsHistory, Lacks
<1>9. IPlanned'
  BY <1>1, <1>2, <1>3 DEF IPlanned, InPass, IsBeam
<1>10. ASSUME NEW row \in Rows, kind # "tree"
       PROVE  \A p \in 0 .. (Len(Seen(row)) - 1) :
                ~Lacks(row, p) /\ cache'[Slot(table, row, p)] = SubSeq(Seen(row), 1, p + 1)
  <2> SUFFICES ASSUME NEW p \in 0 .. (Len(Seen(row)) - 1)
               PROVE  ~Lacks(row, p) /\ cache'[Slot(table, row, p)] = SubSeq(Seen(row), 1, p + 1)
    OBVIOUS
  <2>1. computed[row] \in Nat /\ Len(Seen(row)) = computed[row] + Len(work.query[row]) /\ Len(work.query[row]) \in Nat
        /\ Len(Seen(row)) \in Nat
    <3>1. LastFed(row) = Len(Seen(row)) - 1 /\ Seen(row) \in Seq(Tokens) /\ work.query[row] \in Seq(Tokens)
      BY <1>1, PassLengths
    <3>2. Len(Seen(row)) \in Nat /\ Len(work.query[row]) \in Nat /\ computed[row] \in Nat
      BY <1>1, <3>1, RowTypes, LenProperties
    <3> DEFINE a == Len(Seen(row))  b == Len(work.query[row])  c == computed[row]
    <3>3. a \in Nat /\ b \in Nat /\ c \in Nat /\ c + b - 1 = a - 1
      BY <3>1, <3>2 DEF LastFed
    <3> HIDE DEF a, b, c
    <3>4. a = c + b
      BY ONLY <3>3
    <3> QED BY <3>3, <3>4 DEF a, b, c
  <2>2. CASE p < computed[row]
    <3>1. p \in 0 .. (computed[row] - 1) /\ p + 1 \in 0 .. computed[row]
      BY <2>1, <2>2
    <3>2. ~Lacks(row, p) /\ cache[Slot(table, row, p)] = SubSeq(history[row], 1, p + 1)
      BY <1>1, <3>1 DEF CacheHoldsHistory
    <3>3. SubSeq(Seen(row), 1, p + 1) = SubSeq(history[row], 1, p + 1)
      BY <1>1, <3>1, SeenPrefix
    <3> QED BY <1>5, <3>1, <3>2, <3>3
  <2>3. CASE ~(p < computed[row])
    <3> DEFINE i == p - computed[row] + 1
    <3>1. i \in 1 .. Len(work.query[row]) /\ i \in 0 .. Len(work.query[row])
          /\ computed[row] + i - 1 = p /\ computed[row] + i = p + 1
      BY <2>1, <2>3, SMTT(30)
    <3> HIDE DEF i
    <3>2. cache'[Slot(table, row, p)] = Entry(row, i) /\ ~Lacks(row, p)
      BY <1>5, <3>1
    <3>3. Entry(row, i) = SubSeq(Seen(row), 1, p + 1)
      BY <1>1, <1>10, <3>1, EntryPrefix
    <3> QED BY <3>2, <3>3
  <2> QED BY <2>2, <2>3
<1>11. ASSUME NEW row \in Rows, kind # "tree"
       PROVE  work'.context[row] = [i \in DOMAIN work.query[row] |-> SubSeq(Seen(row), 1, computed[row] + i)]
  <2>1. ASSUME NEW i \in DOMAIN work.query[row]
        PROVE  /\ Entry(row, i) = SubSeq(Seen(row), 1, computed[row] + i)
               /\ Intact(cache', row, Entry(row, i))
    <3>1. work.query[row] \in Seq(Tokens) /\ Seen(row) \in Seq(Tokens) /\ computed[row] \in Nat
          /\ Len(Seen(row)) - 1 = computed[row] + Len(work.query[row]) - 1
      BY <1>1, PassLengths, RowTypes DEF LastFed
    <3>2. DOMAIN work.query[row] = 1 .. Len(work.query[row]) /\ Len(work.query[row]) \in Nat /\ Len(Seen(row)) \in Nat
      BY <3>1, LenProperties
    <3> DEFINE n == computed[row] + i
    <3>3. i \in 0 .. Len(work.query[row]) /\ n \in 0 .. Len(Seen(row)) /\ n \in Nat
      BY <3>1, <3>2
    <3>4. Entry(row, i) = SubSeq(Seen(row), 1, n)
      BY <1>1, <1>11, <3>3, EntryPrefix
    <3> HIDE DEF n
    <3>5. Len(SubSeq(Seen(row), 1, n)) = n
      BY <3>1, <3>3, Prefix
    <3>6. ASSUME NEW p \in 0 .. (n - 1)
          PROVE  cache'[Slot(table, row, p)] = SubSeq(SubSeq(Seen(row), 1, n), 1, p + 1)
      <4>1. p + 1 \in 0 .. n /\ p \in 0 .. (Len(Seen(row)) - 1)
        BY <3>2, <3>3
      <4>2. cache'[Slot(table, row, p)] = SubSeq(Seen(row), 1, p + 1)
        BY <1>10, <1>11, <4>1
      <4>3. SubSeq(SubSeq(Seen(row), 1, n), 1, p + 1) = SubSeq(Seen(row), 1, p + 1)
        BY <3>1, <3>3, <4>1, PrefixOfPrefix
      <4> QED BY <4>2, <4>3
    <3>7. Intact(cache', row, Entry(row, i))
      BY <3>4, <3>5, <3>6 DEF Intact
    <3> QED BY <3>4, <3>7 DEF n
  <2>2. work'.context[row] = [i \in DOMAIN work.query[row] |->
              IF \/ kind = "tree" /\ Intact(cache', row, Found(row))
                 \/ kind # "tree" /\ Intact(cache', row, Entry(row, i))
              THEN Entry(row, i) ELSE Garbage]
    BY <1>3
  <2> QED BY <1>11, <2>1, <2>2
<1>12. ASSUME NEW row \in Rows, kind = "tree", NEW node \in 0 .. MaxDraft
       PROVE  /\ cache'[Slot(table, row, computed[row] + node)] = Branch(row, node)
              /\ work'.context[row][node + 1] = Branch(row, node)
  <2>1. work.fed[row] = 1 /\ Len(work.drafts[row]) = MaxDraft /\ computed[row] + 1 = lengths[row]
    BY <1>1, <1>12 DEF IPlanned, ILengths
  <2>2. work.query[row] \in Seq(Tokens) /\ Len(work.query[row]) = 1 + MaxDraft
    BY <1>1, <2>1, PassLengths
  <2>3. DOMAIN work.query[row] = 1 .. (MaxDraft + 1)
    BY <2>2, LenProperties, Numbers
  <2>4. node + 1 \in 1 .. Len(work.query[row]) /\ node + 1 \in DOMAIN work.query[row] /\ (node + 1) - 1 = node
        /\ computed[row] + (node + 1) - 1 = computed[row] + node
    BY <1>1, <2>2, <2>3, RowTypes, Numbers
  <2> DEFINE h == history[row]  c == computed[row]  before == SubSeq(h, 1, c)
  <2>5. h \in Seq(Tokens) /\ c \in Nat /\ c + 1 = Len(h) /\ Len(h) \in Nat /\ c \in 0 .. Len(h)
    BY <1>1, <2>1, RowTypes
  <2>6. Found(row) = before /\ before \in Seq(Tokens) /\ Len(before) = c
    <3>1. Found(row) = before
      BY <1>1, FoundPrefix
    <3> HIDE DEF h, c
    <3> QED BY <2>5, <3>1, Prefix
  <2>7. Found(row) \o <<work.query[row][1]>> = h
    <3> DEFINE chunk == SubSeq(h, c + 1, c + 1)
    <3>1. work.query[row] = chunk \o work.drafts[row] /\ work.drafts[row] \in Seq(Tokens)
      <4>1. work.query = [r \in Rows |->
               SubSeq(history[r], computed[r] + 1, computed[r] + work.fed[r]) \o work.drafts[r]]
            /\ work.drafts \in [Rows -> Seq(Tokens)]
        BY <1>1 DEF IPlanned
      <4>2. work.query[row] = SubSeq(h, c + 1, c + work.fed[row]) \o work.drafts[row]
        BY <4>1, Zenon
      <4> QED BY <2>1, <4>1, <4>2, Zenon
    <3>2. h[c + 1] \in Tokens
      <4> HIDE DEF h, c
      <4>1. c + 1 \in 1 .. Len(h)
        BY <2>5
      <4> QED BY <2>5, <4>1, ElementOfSeq
    <3>3. chunk = <<h[c + 1]>>
      <4> HIDE DEF h, c
      <4>1. \A i \in (c + 1) .. (c + 1) : h[i] \in Tokens
        BY <2>5, <3>2
      <4>2. c + 1 \in Int /\ c + 1 <= c + 1 /\ (c + 1) - (c + 1) + 1 = 1 /\ (c + 1) + 1 - 1 = c + 1
        BY <2>5
      <4>3. chunk \in Seq(Tokens) /\ Len(chunk) = 1 /\ \A i \in 1 .. ((c + 1) - (c + 1) + 1) : chunk[i] = h[(c + 1) + i - 1]
        BY <4>1, <4>2, SubSeqProperties
      <4>4. chunk[1] = h[c + 1]
        BY <4>2, <4>3
      <4> HIDE DEF chunk
      <4> QED BY <4>3, <4>4
    <3>4. work.query[row][1] = h[c + 1]
      <4> HIDE DEF h, c
      <4>1. <<h[c + 1]>> \in Seq(Tokens) /\ Len(<<h[c + 1]>>) = 1 /\ <<h[c + 1]>>[1] = h[c + 1]
        BY <3>2
      <4>2. Len(work.drafts[row]) = MaxDraft /\ 1 \in 1 .. (1 + MaxDraft)
        BY <2>1, Numbers
      <4>3. (<<h[c + 1]>> \o work.drafts[row])[1] = <<h[c + 1]>>[1]
        BY <3>1, <4>1, <4>2, ConcatProperties
      <4> QED BY <3>1, <3>3, <4>1, <4>3
    <3>5. before \o chunk = SubSeq(h, 1, c + 1)
      <4> HIDE DEF h, c
      <4>1. c + 1 \in c .. Len(h)
        BY <2>5, SMTT(30)
      <4> QED BY <2>5, <4>1, PrefixJoins, SMTT(30)
    <3>6. SubSeq(h, 1, c + 1) = h
      <4> HIDE DEF h, c
      <4> QED BY <2>5, SubSeqFull
    <3> QED BY <2>6, <3>3, <3>4, <3>5, <3>6
  <2>8. Entry(row, node + 1) = Branch(row, node)
    <3>1. Entry(row, node + 1) =
            Found(row) \o <<work.query[row][1]>> \o
              [j \in DOMAIN Path(work.parents, (node + 1) - 1) |->
                 work.drafts[row][Path(work.parents, (node + 1) - 1)[j]]]
      BY <1>12 DEF Entry
    <3> QED BY <2>4, <2>7, <3>1 DEF Branch
  <2>9. Intact(cache', row, Found(row))
    <3>1. ASSUME NEW p \in 0 .. (c - 1) PROVE cache'[Slot(table, row, p)] = SubSeq(before, 1, p + 1)
      <4>1. p + 1 \in 0 .. c
        BY <2>5
      <4>2. cache'[Slot(table, row, p)] = SubSeq(h, 1, p + 1)
        BY <1>1, <1>5 DEF CacheHoldsHistory
      <4>3. SubSeq(before, 1, p + 1) = SubSeq(h, 1, p + 1)
        <5> HIDE DEF h, c
        <5> QED BY <2>5, <4>1, PrefixOfPrefix
      <4> QED BY <4>2, <4>3
    <3> HIDE DEF before, c
    <3> QED BY <2>6, <3>1 DEF Intact
  <2>10. cache'[Slot(table, row, computed[row] + node)] = Entry(row, node + 1)
    BY <1>5, <2>4
  <2>11. work'.context[row][node + 1] = Entry(row, node + 1)
    BY <1>3, <1>12, <2>4, <2>9
  <2> QED BY <2>8, <2>10, <2>11
<1>13. IFed'
  <2>1. ASSUME NEW row \in Rows PROVE LastFed(row)' = LastFed(row) /\ Seen(row)' = Seen(row)
    BY <1>2, <1>3 DEF LastFed, Seen, Reached
  <2>2. ASSUME NEW row \in Rows, kind # "tree"
        PROVE  /\ Holds(row, Seen(row))'
               /\ work'.context[row] = [i \in DOMAIN work'.query[row] |-> SubSeq(Seen(row)', 1, computed'[row] + i)]
    <3>1. Holds(row, Seen(row))'
      BY <1>2, <1>10, <2>1, <2>2 DEF Holds, Lacks
    <3> QED BY <1>2, <1>3, <1>11, <2>1, <2>2, <3>1
  <2>3. ASSUME NEW row \in Rows, NEW node PROVE Branch(row, node)' = Branch(row, node)
    BY <1>2, <1>3 DEF Branch
  <2>4. ASSUME NEW row \in Rows PROVE ~Lacks(row, LastFed(row))'
    BY <1>2, <1>4, <2>1 DEF Lacks
  <2>5. ASSUME NEW row \in Rows, kind = "tree", NEW node \in 0 .. MaxDraft
        PROVE  cache'[Slot(table', row, computed'[row] + node)] = Branch(row, node)'
               /\ work'.context[row][node + 1] = Branch(row, node)'
    BY <1>2, <1>12, <2>3, <2>5
  <2> QED BY <1>2, <2>2, <2>4, <2>5 DEF IFed
<1>14. ISteps' /\ IChosen' /\ IOut' /\ IDrafts'
  BY <1>1 DEF ISteps, IChosen, IOut, IDrafts
<1> QED BY <1>6, <1>7, <1>8, <1>9, <1>13, <1>14 DEF IInv

-----------------------------------------------------------------------------
(* The model, and beams.                                                   *)

\* What is assumed of a model, for a context that can occur.
LEMMA ModelLaw ==
  ASSUME ITypes, NEW context \in Seq(Tokens), Len(context) <= MaxLength
  PROVE  /\ \A token \in Tokens : Weight(model, context, token) \in 0 .. Unit
                                  /\ Score(model, context, token) \in Int
         /\ Sum([token \in Tokens |-> Weight(model, context, token)], Tokens) = Unit
<1>1. Len(context) \in 0 .. MaxLength /\ context \in [1 .. Len(context) -> Tokens]
  <2>1. Len(context) \in Nat /\ context \in [1 .. Len(context) -> Tokens]
    BY LenProperties
  <2> QED BY <2>1, Numbers
<1>2. context \in BoundedSeq(Tokens, MaxLength)
  <2>1. BoundedSeq(Tokens, MaxLength) = UNION {[1 .. m -> Tokens] : m \in 0 .. MaxLength}
    BY DEF BoundedSeq, SeqOf
  <2> QED BY <1>1, <2>1
<1>3. model \in Models
  BY DEF ITypes
<1> QED BY <1>2, <1>3, ModelsAssumption DEF Sum

\* A beam has computed all that it has.
LEMMA BeamSeen ==
  ASSUME IInv, IsBeam, step \in {"planned", "fed"}, NEW row \in Rows
  PROVE  /\ Seen(row) = history[row]
         /\ Len(work.query[row]) \in DOMAIN work.query[row]
         /\ computed[row] + Len(work.query[row]) = Len(history[row])
<1>1. ITypes /\ IPlanned /\ InPass /\ ILengths
  BY DEF IInv, InPass
<1>2. work.fed[row] = lengths[row] - computed[row] /\ work.drafts[row] = <<>>
  BY <1>1 DEF IPlanned
<1>3. computed[row] \in Nat /\ lengths[row] = Len(history[row]) /\ lengths[row] \in Nat /\ history[row] \in Seq(Tokens)
  BY <1>1, RowTypes
<1>4. /\ work.fed[row] \in Nat /\ work.fed[row] > 0 /\ work.query[row] \in Seq(Tokens)
      /\ Len(work.query[row]) = work.fed[row] + Len(work.drafts[row]) /\ Reached(row) \in Seq(Tokens)
  BY <1>1, PassLengths
<1>5. Len(work.drafts[row]) = 0
  BY <1>2
<1>6. computed[row] + work.fed[row] = Len(history[row]) /\ Len(work.query[row]) = work.fed[row]
  BY <1>2, <1>3, <1>4, <1>5
<1>7. Reached(row) = history[row]
  <2>1. Reached(row) = SubSeq(history[row], 1, Len(history[row]))
    BY <1>6 DEF Reached
  <2> QED BY <1>3, <2>1, Prefix, LenProperties
<1>8. Reached(row) \o <<>> = Reached(row)
  BY <1>4, ConcatEmptySeq
<1>9. DOMAIN work.query[row] = 1 .. Len(work.query[row])
  BY <1>4, LenProperties
<1> QED BY <1>2, <1>3, <1>4, <1>6, <1>7, <1>8, <1>9 DEF Seen

\* The beams that are chosen are the best continuations.
LEMMA BeamStepStep == ASSUME IInv, BeamStep PROVE IInv'
<1> DEFINE Logits(row) == work.context[row][Len(work.query[row])]
           total == [row \in Rows |-> [token \in Tokens |->
                      IF scores[row] = Unreached THEN Unreached
                      ELSE scores[row] + Score(model, Logits(row), token)]]
           beams == BeamSearchStep(Beams, Tokens, total)
           Chosen(row) == <<beams[row].parent, beams[row].token>>
<1>1. step = "fed" /\ step' = "sampled" /\ IsBeam /\ ITypes /\ ILengths /\ IPlanned /\ IFed /\ InPass
  BY DEF BeamStep, IInv, InPass
<1>2. UNCHANGED data
  BY DEF BeamStep, data
<1>3. work'.beams = beams
  BY DEF BeamStep
<1>4. /\ kind' = kind /\ model' = model /\ history' = history /\ scores' = scores
      /\ lengths' = lengths /\ computed' = computed /\ table' = table /\ cache' = cache
  BY <1>2 DEF data, streams
<1>5. Rows = 0 .. (Beams - 1) /\ Beams \in Nat \ {0}
  BY <1>1, RowTypes, Numbers DEF Count
<1>6. ASSUME NEW row \in Rows
      PROVE  /\ Logits(row) = history[row] /\ Holds(row, history[row]) /\ lengths[row] < MaxLength
  <2>1. Seen(row) = history[row] /\ Len(work.query[row]) \in DOMAIN work.query[row]
        /\ computed[row] + Len(work.query[row]) = Len(history[row])
    BY <1>1, BeamSeen
  <2>2. kind # "tree"
    BY <1>1 DEF IsBeam
  <2>3. Holds(row, Seen(row))
        /\ work.context[row] = [i \in DOMAIN work.query[row] |-> SubSeq(Seen(row), 1, computed[row] + i)]
    BY <1>1, <2>2 DEF IFed
  <2>4. Logits(row) = SubSeq(history[row], 1, Len(history[row]))
    BY <2>1, <2>3
  <2>5. history[row] \in Seq(Tokens)
    BY <1>1, RowTypes
  <2>6. Logits(row) = history[row]
    BY <2>4, <2>5, Prefix, LenProperties
  <2>7. lengths[row] + Len(work.drafts[row]) < MaxLength /\ work.drafts[row] = <<>> /\ lengths[row] \in Nat
    BY <1>1, RowTypes DEF IPlanned
  <2>8. lengths[row] < MaxLength
    <3>1. Len(work.drafts[row]) = 0
      BY <2>7
    <3> QED BY <2>7, <3>1
  <2> QED BY <2>1, <2>3, <2>6, <2>8
<1>7. ASSUME NEW row \in Rows, NEW token \in Tokens
      PROVE  total[row][token] = Streams!Total(<<row, token>>) /\ total[row][token] \in Int
  <2>1. history[row] \in Seq(Tokens) /\ Len(history[row]) <= MaxLength /\ scores[row] \in Int
    <3>1. lengths[row] = Len(history[row]) /\ lengths[row] \in Nat /\ history[row] \in Seq(Tokens) /\ scores[row] \in Int
      BY <1>1, RowTypes
    <3> QED BY <1>6, <3>1, Numbers
  <2>2. Score(model, history[row], token) \in Int
    BY <1>1, <2>1, ModelLaw
  <2>3. total[row][token] = IF scores[row] = Unreached THEN Unreached
                            ELSE scores[row] + Score(model, history[row], token)
    BY <1>6
  <2>4. Streams!Total(<<row, token>>) = IF scores[row] = Unreached THEN Unreached
                            ELSE scores[row] + Score(model, history[row], token)
    BY DEF Streams!Total, Streams!Plus, Streams!Unreached, Unreached
  <2> QED BY <2>1, <2>2, <2>3, <2>4 DEF Unreached
<1> HIDE DEF total
<1>8. /\ \A row \in Rows : /\ beams[row].parent \in Rows /\ beams[row].token \in Tokens
                           /\ beams[row].score = total[beams[row].parent][beams[row].token]
      /\ \A a, b \in Rows : a < b => Earlier(total, Chosen(a), Chosen(b))
      /\ \A c \in Rows \X Tokens : (\A row \in Rows : c # Chosen(row)) =>
           \A row \in Rows : Earlier(total, Chosen(row), c)
  <2>1. Tokens \in SUBSET Nat /\ IsFiniteSet(Tokens) /\ Tokens # {}
    BY Numbers
  <2>2. \A r \in 0 .. (Beams - 1), t \in Tokens : total[r][t] \in Int
    BY <1>5, <1>7
  <2> QED BY <1>5, <2>1, <2>2, BeamLaw
<1> HIDE DEF beams
<1>9. \A c, d \in Rows \X Tokens : Earlier(total, c, d) => Streams!Before(c, d)
  <2> SUFFICES ASSUME NEW c \in Rows \X Tokens, NEW d \in Rows \X Tokens, Earlier(total, c, d)
               PROVE  Streams!Before(c, d)
    OBVIOUS
  <2>1. c = <<c[1], c[2]>> /\ d = <<d[1], d[2]>> /\ c[1] \in Rows /\ d[1] \in Rows /\ c[2] \in Tokens /\ d[2] \in Tokens
    OBVIOUS
  <2>2. total[c[1]][c[2]] = Streams!Total(c) /\ total[d[1]][d[2]] = Streams!Total(d)
    BY <1>7, <2>1
  <2> QED BY <2>2 DEF Earlier, Streams!Before
<1>10. \A row \in Rows : Chosen(row) \in Rows \X Tokens
  BY <1>8
<1>11. \A row \in Rows : Choice(row)' = Chosen(row)
  BY <1>3 DEF Choice
<1>12. \A c, d : Streams!Before(c, d)' <=> Streams!Before(c, d)
  BY <1>4 DEF Streams!Before, Streams!Total, Streams!Plus
<1>13. \A c : Streams!Total(c)' = Streams!Total(c)
  BY <1>4 DEF Streams!Total, Streams!Plus
<1>14. \A row \in Rows : Holds(row, history[row])'
  BY <1>4, <1>6 DEF Holds, Lacks
<1>15. IChosen'
  <2>1. Rows' = Rows
    BY <1>4 DEF Rows
  <2>2. \A row \in Rows : work'.beams[row].score = Streams!Total(Chosen(row))
    <3> SUFFICES ASSUME NEW row \in Rows PROVE work'.beams[row].score = Streams!Total(Chosen(row))
      OBVIOUS
    <3>1. beams[row].parent \in Rows /\ beams[row].token \in Tokens
          /\ beams[row].score = total[beams[row].parent][beams[row].token]
      BY <1>8
    <3> QED BY <1>3, <1>7, <3>1
  <2>3. \A row \in Rows : Holds(row, history[row])' /\ lengths'[row] < MaxLength
    BY <1>4, <1>6, <1>14
  <2>4. ASSUME NEW row \in Rows
        PROVE  Choice(row)' \in Rows \X Tokens /\ work'.beams[row].score = Streams!Total(Choice(row))'
    <3>1. Streams!Total(Choice(row))' = Streams!Total(Choice(row)')
      BY <1>4 DEF Streams!Total, Streams!Plus
    <3> QED BY <1>10, <1>11, <2>2, <3>1
  <2>5. \A a, b \in Rows : a < b => Streams!Before(Choice(a), Choice(b))'
    <3> SUFFICES ASSUME NEW a \in Rows, NEW b \in Rows, a < b PROVE Streams!Before(Choice(a), Choice(b))'
      OBVIOUS
    <3>1. Streams!Before(Chosen(a), Chosen(b))
      BY <1>8, <1>9, <1>10
    <3>2. Streams!Before(Choice(a)', Choice(b)')
      BY <1>11, <3>1
    <3> QED BY <1>4, <3>2 DEF Streams!Before, Streams!Total, Streams!Plus
  <2>6. \A c \in Rows \X Tokens : (\A row \in Rows : c # Choice(row)') =>
           \A row \in Rows : Streams!Before(Choice(row), c)'
    <3> SUFFICES ASSUME NEW c \in Rows \X Tokens, \A row \in Rows : c # Choice(row)', NEW row \in Rows
                 PROVE  Streams!Before(Choice(row), c)'
      OBVIOUS
    <3>1. Streams!Before(Chosen(row), c)
      BY <1>8, <1>9, <1>10, <1>11, SMTT(30)
    <3>2. Streams!Before(Choice(row)', c)
      BY <1>11, <3>1
    <3> QED BY <1>4, <3>2 DEF Streams!Before, Streams!Total, Streams!Plus
  <2> QED BY <2>1, <2>3, <2>4, <2>5, <2>6 DEF IChosen
<1>16. ISteps' /\ IPlanned' /\ IFed' /\ IOut' /\ IDrafts'
  <2>1. IsBeam'
    BY <1>1, <1>4 DEF IsBeam
  <2> QED BY <1>1, <2>1 DEF ISteps, IPlanned, InPass, IFed, IOut, IDrafts
<1> QED BY <1>2, <1>15, <1>16, DataUnchanged DEF IInv

\* Copies of blocks keep the slots there are.
LEMMA CopyDomain ==
  ASSUME NEW c, NEW pairs, NEW size
  PROVE  /\ DOMAIN KvCacheCopyBlocks(c, pairs, size) = DOMAIN c
         /\ KvCacheCopyBlocks(c, pairs, size)
              = [slot \in DOMAIN KvCacheCopyBlocks(c, pairs, size) |->
                   KvCacheCopyBlocks(c, pairs, size)[slot]]
BY DEF KvCacheCopyBlocks

\* Copies of blocks: a slot that no pair names is kept, and one that a single pair names
\* takes what is at the same place of its source.
LEMMA CopyLaw ==
  ASSUME NEW c, NEW pairs, NEW slot \in DOMAIN c
  PROVE  LET copies == {i \in DOMAIN pairs : pairs[i][1] >= 0 /\ pairs[i][2] = slot \div BlockSize}
         IN /\ copies = {} => KvCacheCopyBlocks(c, pairs, BlockSize)[slot] = c[slot]
            /\ \A i \in Int : copies = {i} =>
                 KvCacheCopyBlocks(c, pairs, BlockSize)[slot] =
                   c[pairs[i][1] * BlockSize + (slot % BlockSize)]
<1> DEFINE copies == {i \in DOMAIN pairs : pairs[i][1] >= 0 /\ pairs[i][2] = slot \div BlockSize}
           last == CHOOSE i \in copies : \A j \in copies : j <= i
<1>1. KvCacheCopyBlocks(c, pairs, BlockSize)[slot] =
        IF copies = {} THEN c[slot] ELSE c[pairs[last][1] * BlockSize + (slot % BlockSize)]
  BY DEF KvCacheCopyBlocks
<1>2. ASSUME NEW i \in Int, copies = {i} PROVE last = i
  <2> HIDE DEF copies
  <2> QED BY <1>2
<1> HIDE DEF copies, last
<1>3. ASSUME NEW i \in Int, copies = {i}
      PROVE  KvCacheCopyBlocks(c, pairs, BlockSize)[slot] = c[pairs[i][1] * BlockSize + (slot % BlockSize)]
  BY <1>1, <1>2, <1>3
<1> QED BY <1>1, <1>3 DEF copies

\* What the beams continue.
LEMMA ParentLaw ==
  ASSUME IInv, step = "sampled", IsBeam
  PROVE  /\ Parent \in [Rows -> Rows]
         /\ \A row \in Rows :
              /\ Parent[row] = work.beams[row].parent
              /\ work.beams[row].token \in Tokens /\ work.beams[row].score \in Int
              /\ lengths[Parent[row]] = lengths[row] /\ lengths[row] \in Nat /\ lengths[row] < MaxLength
              /\ computed[Parent[row]] = computed[row] /\ computed[row] < lengths[row]
              /\ Len(history[row]) = lengths[row]
              /\ Holds(row, history[row])
<1>1. ITypes /\ ILengths /\ IChosen
  BY DEF IInv
<1>2. \A row \in Rows : Holds(row, history[row]) /\ lengths[row] < MaxLength
  BY <1>1 DEF IChosen
<1>3. ASSUME NEW row \in Rows
      PROVE  /\ work.beams[row].parent \in Rows /\ work.beams[row].token \in Tokens
             /\ work.beams[row].score \in Int
  <2>1. Choice(row) \in Rows \X Tokens /\ work.beams[row].score = Streams!Total(Choice(row))
    BY <1>1 DEF IChosen
  <2>2. work.beams[row].parent \in Rows /\ work.beams[row].token \in Tokens
    BY <2>1 DEF Choice
  <2> DEFINE r == work.beams[row].parent  t == work.beams[row].token
  <2>3. scores[r] \in Int /\ history[r] \in Seq(Tokens) /\ Len(history[r]) <= MaxLength
    <3>1. lengths[r] = Len(history[r]) /\ lengths[r] \in Nat /\ history[r] \in Seq(Tokens) /\ scores[r] \in Int
      BY <1>1, <2>2, RowTypes
    <3> QED BY <1>2, <2>2, <3>1, Numbers
  <2>4. Score(model, history[r], t) \in Int
    <3> HIDE DEF r
    <3> QED BY <1>1, <2>2, <2>3, ModelLaw
  <2>5. Streams!Total(Choice(row)) = IF scores[r] = Unreached THEN Unreached
                                     ELSE scores[r] + Score(model, history[r], t)
    BY DEF Choice, Streams!Total, Streams!Plus, Streams!Unreached, Unreached
  <2> HIDE DEF r, t
  <2>6. work.beams[row].score \in Int
    BY <2>1, <2>3, <2>4, <2>5 DEF Unreached
  <2> QED BY <2>2, <2>6
<1>4. Parent \in [Rows -> Rows] /\ \A row \in Rows : Parent[row] = work.beams[row].parent
  BY <1>3 DEF Parent
<1>5. ASSUME NEW row \in Rows
      PROVE  /\ lengths[Parent[row]] = lengths[row] /\ lengths[row] \in Nat
             /\ computed[Parent[row]] = computed[row] /\ computed[row] < lengths[row]
             /\ Len(history[row]) = lengths[row]
  BY <1>1, <1>4, RowTypes DEF ILengths
<1> QED BY <1>2, <1>3, <1>4, <1>5

\* Beams go on when every row's blocks hold what it continues.
LEMMA ContinuedStep ==
  ASSUME IInv, step = "sampled", IsBeam, Continued, IBlocks',
         table' \in [Rows -> [Columns -> None .. (PoolBlocks - 1)]],
         DOMAIN cache' = DOMAIN cache, cache' = [slot \in DOMAIN cache' |-> cache'[slot]],
         \A row \in Rows : \A p \in 0 .. (lengths[row] - 1) :
           /\ ~(table'[row][p \div BlockSize] < 0)
           /\ cache'[Slot(table', row, p)] = cache[Slot(table, Parent[row], p)]
  PROVE  IInv'
<1>1. ITypes /\ ILengths
  BY DEF IInv
<1>2. /\ history' = [row \in Rows |-> Append(history[Parent[row]], work.beams[row].token)]
      /\ scores' = [row \in Rows |-> work.beams[row].score]
      /\ computed' = lengths
      /\ lengths' = [row \in Rows |-> lengths[row] + 1]
      /\ step' = "ready" /\ kind' = kind /\ model' = model /\ policy' = policy
  BY DEF Continued, streams
<1>3. Rows' = Rows /\ IsBeam' = IsBeam /\ Count' = Count
  BY <1>2 DEF Rows, IsBeam, Count
<1>4. ASSUME NEW row \in Rows
      PROVE  /\ Parent[row] \in Rows
             /\ history'[row] \in Seq(Tokens) /\ Len(history'[row]) = lengths[row] + 1
             /\ \A k \in 0 .. lengths[row] : SubSeq(history'[row], 1, k) = SubSeq(history[Parent[row]], 1, k)
             /\ lengths[row] \in 0 .. MaxLength
  <2> DEFINE h == history[Parent[row]]  t == work.beams[row].token
  <2>1. Parent[row] \in Rows /\ t \in Tokens /\ Len(h) = lengths[row] /\ lengths[row] \in Nat /\ lengths[row] < MaxLength
    BY ParentLaw
  <2>2. h \in Seq(Tokens)
    BY <1>1, <2>1, RowTypes
  <2>3. history'[row] = Append(h, t)
    BY <1>2
  <2> HIDE DEF h, t
  <2>4. Append(h, t) \in Seq(Tokens) /\ Len(Append(h, t)) = Len(h) + 1
    BY <2>1, <2>2, AppendProperties
  <2>5. Append(h, t) = h \o <<t>> /\ <<t>> \in Seq(Tokens)
    BY <2>1, <2>2, AppendIsConcat
  <2>6. \A k \in 0 .. Len(h) : SubSeq(h \o <<t>>, 1, k) = SubSeq(h, 1, k)
    BY <2>2, <2>5, PrefixOfConcat
  <2>7. \A k \in 0 .. lengths[row] : SubSeq(history'[row], 1, k) = SubSeq(h, 1, k)
    BY ONLY <2>1, <2>3, <2>5, <2>6
  <2>8. history'[row] \in Seq(Tokens) /\ Len(history'[row]) = lengths[row] + 1
    BY ONLY <2>1, <2>3, <2>4
  <2>9. lengths[row] \in 0 .. MaxLength
    BY <2>1, Numbers, SMTT(30)
  <2> QED BY <2>1, <2>7, <2>8, <2>9 DEF h
<1>5. ITypes'
  <2>1. history' \in [0 .. (Count - 1) -> Seq(Tokens)]
    <3>1. Rows = 0 .. (Count - 1)
      BY <1>1, RowTypes
    <3>2. history' \in [Rows -> Seq(Tokens)]
      BY <1>2, <1>4
    <3> QED BY <3>1, <3>2
  <2>2. scores' \in [Rows -> Int]
    BY <1>2, ParentLaw
  <2>3. computed' \in [Rows -> 0 .. MaxLength]
    <3>1. lengths = [row \in Rows |-> Len(history[row])]
      BY <1>1 DEF ITypes
    <3>2. \A row \in Rows : lengths[row] \in 0 .. MaxLength
      BY <1>4
    <3> QED BY <1>2, <3>1, <3>2
  <2>4. lengths' = [row \in Rows |-> Len(history'[row])]
    BY <1>2, <1>4
  <2>5. /\ kind' \in Kinds /\ model' \in Models
        /\ policy' \in [Rows -> CASE IsBeam -> {"beam"}
                           [] kind = "rejection" -> {"greedy", "random"}
                           [] kind \in {"verify", "tree"} -> {"random"}]
    BY <1>1, <1>2 DEF ITypes
  <2>6. DOMAIN cache' = 0 .. (PoolBlocks * BlockSize - 1)
    BY <1>1 DEF ITypes
  <2> QED BY <1>2, <1>3, <2>1, <2>2, <2>3, <2>4, <2>5, <2>6 DEF ITypes, Columns, Kinds
<1>6. ILengths'
  <2>1. \A row \in Rows : computed'[row] = lengths[row] /\ lengths'[row] = lengths[row] + 1 /\ lengths[row] \in Nat
    BY <1>2, ParentLaw
  <2>2. \A row, other \in Rows : lengths[row] = lengths[other]
    BY <1>1 DEF ILengths
  <2>3. kind \notin {"verify", "tree"}
    BY DEF IsBeam
  <2>4. \A row \in Rows : computed'[row] < lengths'[row]
    BY <2>1
  <2>5. \A row, other \in Rows : computed'[row] = computed'[other] /\ lengths'[row] = lengths'[other]
    BY <2>1, <2>2
  <2> QED BY <1>2, <1>3, <2>3, <2>4, <2>5 DEF ILengths
<1>7. CacheHoldsHistory'
  <2>1. ASSUME NEW row \in Rows, NEW p \in 0 .. (lengths[row] - 1)
        PROVE  cache'[Slot(table', row, p)] = SubSeq(history'[row], 1, p + 1)
    <3>1. Parent[row] \in Rows /\ Len(history[Parent[row]]) = lengths[row] /\ Holds(Parent[row], history[Parent[row]])
          /\ lengths[row] \in Nat
      BY ParentLaw
    <3>2. p \in 0 .. (Len(history[Parent[row]]) - 1) /\ p + 1 \in 0 .. lengths[row]
      BY <3>1
    <3>3. cache[Slot(table, Parent[row], p)] = SubSeq(history[Parent[row]], 1, p + 1)
      BY <3>1, <3>2 DEF Holds
    <3> QED BY <1>4, <3>2, <3>3
  <2> QED BY <1>2, <1>3, <2>1 DEF CacheHoldsHistory, Lacks
<1>8. ISteps' /\ IPlanned' /\ IFed' /\ IChosen' /\ IOut' /\ IDrafts'
  BY <1>2 DEF ISteps, IPlanned, InPass, IFed, IChosen, IOut, IDrafts
<1> QED BY <1>5, <1>6, <1>7, <1>8 DEF IInv

\* A number of pairs is a row and a column.
LEMMA PairParts ==
  ASSUME NEW row \in Nat, NEW column \in Columns
  PROVE  /\ row * MaxBlocks + column \in Nat
         /\ (row * MaxBlocks + column) \div MaxBlocks = row
         /\ (row * MaxBlocks + column) % MaxBlocks = column
         /\ \A n \in Nat : row < n => row * MaxBlocks + column \in 0 .. (n * MaxBlocks - 1)
         /\ \A pair \in Nat : pair \div MaxBlocks = row /\ pair % MaxBlocks = column =>
              pair = row * MaxBlocks + column
<1> DEFINE m == MaxBlocks
<1>1. m \in Nat \ {0} /\ column \in 0 .. (m - 1)
  BY Numbers DEF Columns
<1> HIDE DEF m
<1>2. row * m \in Nat /\ row * m + column \in Nat
  BY <1>1
<1>3. (row * m + column) \div m = row /\ (row * m + column) % m = column
  <2>1. (m * row + column) \div m = row /\ (m * row + column) % m = column
    BY <1>1, DivModUnique
  <2>2. m * row = row * m
    BY <1>1
  <2> QED BY <2>1, <2>2
<1>4. ASSUME NEW n \in Nat, row < n PROVE row * m + column \in 0 .. (n * m - 1)
  <2>1. (row + 1) * m <= n * m
    BY <1>1, <1>4, ProductMonotone
  <2>2. (row + 1) * m = row * m + m /\ n * m \in Nat
    BY <1>1
  <2> QED BY <1>1, <1>2, <2>1, <2>2
<1>5. ASSUME NEW pair \in Nat, pair \div m = row, pair % m = column PROVE pair = row * m + column
  <2>1. pair = m * (pair \div m) + (pair % m)
    BY <1>1, DivMod
  <2>2. m * row = row * m
    BY <1>1
  <2> QED BY <1>5, <2>1, <2>2
<1> QED BY <1>2, <1>3, <1>4, <1>5 DEF m

\* A position of a row is in one of the columns that are copied.
LEMMA CeilingLaw ==
  ASSUME NEW p \in Nat, NEW n \in Nat, p < n
  PROVE  p \div BlockSize < Ceiling(n, BlockSize)
<1> DEFINE B == BlockSize  c == p \div B
<1>1. B \in Nat \ {0} /\ c \in Nat /\ c * B <= p
  BY Numbers, ColumnPositions
<1> HIDE DEF B, c
<1>2. B * (c + 1) = c * B + B /\ c * B \in Nat /\ c + 1 \in Nat
  BY <1>1
<1>3. B * (c + 1) <= n + B - 1 /\ n + B - 1 \in Nat
  BY <1>1, <1>2 DEF B, c
<1>4. c + 1 <= (n + B - 1) \div B
  BY <1>1, <1>2, <1>3, DivBounds
<1>5. (n + B - 1) \div B \in Nat
  BY <1>1, <1>3, DivMod
<1>6. c < (n + B - 1) \div B
  BY <1>1, <1>4, <1>5
<1> QED BY <1>6 DEF Ceiling, B, c

\* The pairs of blocks that are copied.
LEMMA PairsLaw ==
  ASSUME IInv, step = "sampled", IsBeam
  PROVE  LET pairs == BeamBuildCopyPairs(Parent, table, lengths, MaxBlocks, BlockSize)
         IN /\ \A pair \in DOMAIN pairs :
                 pair \in Nat /\ pair \div MaxBlocks \in Rows /\ pair % MaxBlocks \in Columns
            /\ \A row \in Rows, column \in Columns :
                 /\ row * MaxBlocks + column \in DOMAIN pairs
                 /\ pairs[row * MaxBlocks + column] =
                      IF /\ Parent[row] # row /\ column < Ceiling(lengths[row], BlockSize)
                         /\ table[Parent[row]][column] >= 0 /\ table[row][column] >= 0
                      THEN <<table[Parent[row]][column], table[row][column]>> ELSE <<None, None>>
<1> DEFINE pairs == BeamBuildCopyPairs(Parent, table, lengths, MaxBlocks, BlockSize)
           m == MaxBlocks
<1>1. m \in Nat \ {0} /\ Count \in Nat \ {0} /\ Rows = 0 .. (Count - 1) /\ Columns = 0 .. (m - 1)
  BY Numbers, RowTypes DEF IInv, Columns
<1>2. DOMAIN Parent = Rows
  BY DEF Parent
<1>3. Cardinality(DOMAIN Parent) = Count
  BY <1>1, <1>2, IntervalSize
<1>4. pairs = [pair \in 0 .. (Count * m - 1) |->
       IF /\ Parent[pair \div m] # pair \div m
          /\ pair % m < Ceiling(lengths[pair \div m], BlockSize)
          /\ table[Parent[pair \div m]][pair % m] >= 0 /\ table[pair \div m][pair % m] >= 0
       THEN <<table[Parent[pair \div m]][pair % m], table[pair \div m][pair % m]>> ELSE <<None, None>>]
  BY <1>3 DEF BeamBuildCopyPairs
<1> HIDE DEF pairs
<1>5. ASSUME NEW pair \in DOMAIN pairs
      PROVE  pair \in Nat /\ pair \div m \in Rows /\ pair % m \in Columns
  <2> HIDE DEF m
  <2>1. Count * m \in Nat /\ Count * m = m * Count
    BY <1>1
  <2>2. pair \in Nat /\ pair < m * Count
    BY <1>4, <2>1
  <2>3. pair \div m < Count /\ pair \div m \in Nat /\ pair % m \in 0 .. (m - 1)
    BY <1>1, <2>2, DivBounds, DivMod
  <2> QED BY <1>1, <2>2, <2>3
<1>6. ASSUME NEW row \in Rows, NEW column \in Columns
      PROVE  /\ row * m + column \in DOMAIN pairs
             /\ pairs[row * m + column] =
                      IF /\ Parent[row] # row /\ column < Ceiling(lengths[row], BlockSize)
                         /\ table[Parent[row]][column] >= 0 /\ table[row][column] >= 0
                      THEN <<table[Parent[row]][column], table[row][column]>> ELSE <<None, None>>
  <2>1. row \in Nat /\ row < Count
    BY <1>1
  <2>2. row * m + column \in 0 .. (Count * m - 1) /\ (row * m + column) \div m = row /\ (row * m + column) % m = column
    BY <1>1, <2>1, PairParts
  <2> HIDE DEF m
  <2> QED BY <1>4, <2>2
<1> QED BY <1>5, <1>6 DEF pairs

\* The copies leave every row with what it continues, though the source of one may be the
\* destination of another.
LEMMA ReorderByCopyStep == ASSUME IInv, ReorderByCopy PROVE IInv'
<1> DEFINE pairs == BeamBuildCopyPairs(Parent, table, lengths, MaxBlocks, BlockSize)
<1>1. /\ step = "sampled" /\ kind = "copy" /\ Continued /\ table' = table /\ kind' = kind
      /\ cache' = KvCacheCopyBlocks(cache, pairs, BlockSize)
  BY DEF ReorderByCopy, Continued, streams
<1>2. IsBeam
  BY <1>1 DEF IsBeam
<1>3. ITypes /\ ILengths /\ IBlocks
  BY DEF IInv
<1>4. /\ \A pair \in DOMAIN pairs :
           pair \in Nat /\ pair \div MaxBlocks \in Rows /\ pair % MaxBlocks \in Columns
      /\ \A row \in Rows, column \in Columns :
           /\ row * MaxBlocks + column \in DOMAIN pairs
           /\ pairs[row * MaxBlocks + column] =
                IF /\ Parent[row] # row /\ column < Ceiling(lengths[row], BlockSize)
                   /\ table[Parent[row]][column] >= 0 /\ table[row][column] >= 0
                THEN <<table[Parent[row]][column], table[row][column]>> ELSE <<None, None>>
  BY <1>1, <1>2, PairsLaw
<1> HIDE DEF pairs
<1>5. IBlocks'
  <2>1. \A row, other \in Rows, c, d \in Columns : table[row][c] >= 0 /\ table[row][c] = table[other][d] =>
          c = d /\ row = other
    BY <1>1, <1>3 DEF IBlocks
  <2>2. \A row \in Rows, c, d \in Columns : c < d /\ table[row][d] >= 0 => table[row][c] >= 0
    BY <1>3 DEF IBlocks
  <2>3. Rows' = Rows
    BY <1>1 DEF Continued, Rows
  <2>4. kind' # "remap"
    BY <1>1
  <2> QED BY <1>1, <2>1, <2>2, <2>3, <2>4 DEF IBlocks, Columns
<1>6. table' \in [Rows -> [Columns -> None .. (PoolBlocks - 1)]]
  BY <1>1, <1>3 DEF ITypes
<1>7. DOMAIN cache' = DOMAIN cache /\ cache' = [slot \in DOMAIN cache' |-> cache'[slot]]
  <2> DEFINE copied == KvCacheCopyBlocks(cache, pairs, BlockSize)
  <2>1. DOMAIN copied = DOMAIN cache /\ copied = [slot \in DOMAIN copied |-> copied[slot]]
    BY CopyDomain, Zenon
  <2>2. cache' = copied
    BY <1>1
  <2> HIDE DEF copied
  <2> QED BY <2>1, <2>2
<1>8. ASSUME NEW row \in Rows, NEW p \in 0 .. (lengths[row] - 1)
      PROVE  /\ ~(table'[row][p \div BlockSize] < 0)
             /\ cache'[Slot(table', row, p)] = cache[Slot(table, Parent[row], p)]
  <2> DEFINE c == p \div BlockSize  s == Slot(table, row, p)  parent == Parent[row]
             copies == {i \in DOMAIN pairs : pairs[i][1] >= 0 /\ pairs[i][2] = s \div BlockSize}
             i == row * MaxBlocks + c
  <2>1. /\ parent \in Rows /\ lengths[row] \in Nat /\ lengths[row] < MaxLength
        /\ Len(history[row]) = lengths[row] /\ Len(history[parent]) = lengths[row]
        /\ Holds(row, history[row]) /\ Holds(parent, history[parent])
    <3>1. Parent \in [Rows -> Rows]
      BY <1>1, <1>2, ParentLaw
    <3>2. \A r \in Rows : lengths[Parent[r]] = lengths[r] /\ lengths[r] \in Nat /\ lengths[r] < MaxLength
                          /\ Len(history[r]) = lengths[r] /\ Holds(r, history[r])
      BY <1>1, <1>2, ParentLaw
    <3>3. parent \in Rows
      BY <3>1
    <3> QED BY <3>2, <3>3
  <2>2. p \in Nat /\ p < MaxLength /\ p < lengths[row]
    BY <2>1, Numbers, SMTT(30)
  <2>3. c \in Columns
    BY <2>2, ColumnPositions
  <2>4. ~Lacks(row, p) /\ ~Lacks(parent, p)
    <3> HIDE DEF parent
    <3> QED BY <2>1 DEF Holds
  <2>5. /\ s \in DOMAIN cache /\ s \div BlockSize = table[row][c] /\ s % BlockSize = p % BlockSize
        /\ table[row][c] >= 0 /\ table[parent][c] >= 0
    <3>1. s \in DOMAIN cache /\ s \div BlockSize = table[row][c] /\ s % BlockSize = p % BlockSize
      BY <1>3, <2>2, <2>3, <2>4, SlotOfRow
    <3>2. table[row][c] \in Int /\ table[parent][c] \in Int
      <4> HIDE DEF c, parent
      <4> QED BY <1>3, <2>1, <2>3, RowTypes
    <3>3. ~(table[row][c] < 0) /\ ~(table[parent][c] < 0)
      BY <2>4 DEF Lacks
    <3> HIDE DEF c, parent
    <3> QED BY <3>1, <3>2, <3>3
  <2>6. ~(table'[row][c] < 0)
    BY <1>1, <2>4 DEF Lacks
  <2> HIDE DEF c, parent, s
  <2>7. ASSUME NEW j \in copies
        PROVE  j = i /\ parent # row
    <3>1. j \in DOMAIN pairs /\ pairs[j][1] >= 0 /\ pairs[j][2] = table[row][c]
      BY <2>5
    <3> DEFINE beam == j \div MaxBlocks  column == j % MaxBlocks
    <3>2. j \in Nat /\ beam \in Rows /\ column \in Columns /\ beam \in Nat
      BY <1>3, <1>4, <3>1, RowTypes
    <3>3. j = beam * MaxBlocks + column
      <4>1. beam \in Nat /\ column \in Columns
        BY <3>2
      <4> QED BY <3>2, <4>1, PairParts
    <3> HIDE DEF beam, column
    <3>4. pairs[j] = IF /\ Parent[beam] # beam /\ column < Ceiling(lengths[beam], BlockSize)
                        /\ table[Parent[beam]][column] >= 0 /\ table[beam][column] >= 0
                     THEN <<table[Parent[beam]][column], table[beam][column]>> ELSE <<None, None>>
      BY <1>4, <3>2, <3>3
    <3>5. Parent[beam] # beam /\ table[beam][column] = table[row][c]
      BY <3>1, <3>4 DEF None
    <3>6. beam = row /\ column = c
      BY <1>1, <1>3, <2>3, <2>5, <3>2, <3>5 DEF IBlocks
    <3> QED BY <3>3, <3>5, <3>6 DEF parent
  <2> HIDE DEF copies
  <2>8. CASE parent = row
    <3>1. copies = {}
      BY <2>7, <2>8
    <3>2. KvCacheCopyBlocks(cache, pairs, BlockSize)[s] = cache[s]
      BY <2>5, <3>1, CopyLaw DEF copies
    <3> QED BY <1>1, <2>6, <2>8, <3>2 DEF s, c, parent
  <2>9. CASE parent # row
    <3>1. i \in DOMAIN pairs /\ i \in Int
      <4>1. i \in DOMAIN pairs
        BY <1>4, <2>3
      <4>2. row \in Nat
        BY <1>3, RowTypes
      <4>3. i \in Nat
        BY <2>3, <4>2, PairParts
      <4> QED BY <4>1, <4>3
    <3>2. c < Ceiling(lengths[row], BlockSize)
      BY <2>1, <2>2, CeilingLaw DEF c
    <3>3. pairs[i] = <<table[parent][c], table[row][c]>>
      BY <1>4, <2>3, <2>5, <2>9, <3>2 DEF parent
    <3>4. i \in copies
      BY <2>5, <3>1, <3>3 DEF copies
    <3>5. copies = {i}
      BY <2>7, <3>4
    <3> HIDE DEF i
    <3>6. KvCacheCopyBlocks(cache, pairs, BlockSize)[s] = cache[pairs[i][1] * BlockSize + (s % BlockSize)]
      <4>1. s \in DOMAIN cache
        BY <2>5
      <4> QED BY <3>1, <3>5, <4>1, CopyLaw DEF copies
    <3>7. pairs[i][1] * BlockSize + (s % BlockSize) = Slot(table, parent, p)
      BY <2>5, <3>3 DEF Slot, c
    <3> QED BY <1>1, <2>6, <3>6, <3>7 DEF s, c, parent
  <2> QED BY <2>8, <2>9
<1> QED BY <1>1, <1>2, <1>5, <1>6, <1>7, <1>8, ContinuedStep

\* The blocks that no row has after its table is taken over, and those of them that the
\* rows are given which must not share their last block.
Unused == (0 .. (PoolBlocks - 1)) \
            {Remapped[row][column] : row \in Rows, column \in 0 .. (MaxBlocks - 1)}
SplitNumber(row) == Cardinality({other \in SplitRows : other <= row})
Fresh(row) == InOrder(Unused, <)[SplitNumber(row)]

\* The last block of every hypothesis is left to one row, the first that continues it.
\* There is a block for each of the others.
LEMMA EnoughBlocks ==
  ASSUME IInv, step = "sampled", kind = "remap"
  PROVE  /\ IsFiniteSet(Unused) /\ IsFiniteSet(SplitRows) /\ SplitRows \in SUBSET Rows
         /\ Cardinality(SplitRows) <= Cardinality(Unused)
<1> DEFINE blocks == 0 .. (PoolBlocks - 1)
           First == {row \in Rows : \A other \in Rows : other < row => Parent[other] # Parent[row]}
           used == {Remapped[row][column] : row \in Rows, column \in Columns}
           taken == used \cap blocks
           E == First \X Columns
<1>1. ITypes /\ IsBeam
  BY DEF IInv, IsBeam
<1>2. Beams \in Nat \ {0} /\ Rows = 0 .. (Beams - 1) /\ Parent \in [Rows -> Rows]
  BY <1>1, RowTypes, ParentLaw, Numbers DEF Count
<1>3. IsFiniteSet(Rows) /\ Cardinality(Rows) = Beams
  BY <1>2, IntervalSize
<1>4. SplitRows \in SUBSET Rows /\ First \in SUBSET Rows /\ SplitRows \cap First = {}
  BY <1>2 DEF SplitRows
<1>5. IsFiniteSet(SplitRows) /\ IsFiniteSet(First) /\ Cardinality(SplitRows) \in Nat /\ Cardinality(First) \in Nat
      /\ Cardinality(SplitRows) + Cardinality(First) <= Beams
  <2> HIDE DEF First
  <2>1. IsFiniteSet(SplitRows) /\ IsFiniteSet(First)
    BY <1>3, <1>4, FS_Subset
  <2>2. Cardinality(SplitRows) \in Nat /\ Cardinality(First) \in Nat
    BY <2>1, FS_CardinalityType
  <2>3. Cardinality(SplitRows \cup First) = Cardinality(SplitRows) + Cardinality(First) - Cardinality(SplitRows \cap First)
    BY <2>1, FS_Union
  <2>4. Cardinality(SplitRows \cap First) = 0
    BY <1>4, FS_EmptySet
  <2>5. Cardinality(SplitRows \cup First) <= Beams
    BY <1>3, <1>4, FS_Subset
  <2> QED BY <2>1, <2>2, <2>3, <2>4, <2>5
<1>6. IsFiniteSet(Columns) /\ Cardinality(Columns) = MaxBlocks /\ MaxBlocks \in Nat \ {0}
  BY IntervalSize, Numbers DEF Columns
<1>7. IsFiniteSet(E) /\ Cardinality(E) = Cardinality(First) * MaxBlocks
  <2> HIDE DEF First
  <2> QED BY <1>5, <1>6, FS_Product
<1>8. \A row \in Rows : \E first \in First : Parent[first] = Parent[row]
  <2> SUFFICES ASSUME NEW row \in Rows PROVE \E first \in First : Parent[first] = Parent[row]
    OBVIOUS
  <2> DEFINE same == {r \in Rows : Parent[r] = Parent[row]}
  <2>1. same \in SUBSET Nat /\ same # {}
    BY <1>2, SMTT(30)
  <2>2. PICK first \in same : \A r \in same : first <= r
    <3> HIDE DEF same
    <3> QED BY <2>1, LeastNatural
  <2>3. first \in Rows /\ Parent[first] = Parent[row]
    OBVIOUS
  <2>4. ASSUME NEW other \in Rows, other < first PROVE Parent[other] # Parent[first]
    <3>1. other \in Nat /\ first \in Nat /\ ~(first <= other)
      BY <1>2, <2>3, <2>4
    <3>2. other \notin same
      BY <2>2, <3>1
    <3> QED BY <2>3, <3>2
  <2>5. first \in First
    BY <2>3, <2>4
  <2> QED BY <2>3, <2>5
<1>9. \A b \in used : \E e \in E : Remapped[e[1]][e[2]] = b
  <2> SUFFICES ASSUME NEW b \in used PROVE \E e \in E : Remapped[e[1]][e[2]] = b
    OBVIOUS
  <2>1. PICK row \in Rows, column \in Columns : b = Remapped[row][column]
    OBVIOUS
  <2>2. PICK first \in First : Parent[first] = Parent[row]
    BY <1>8
  <2>3. Remapped[first] = Remapped[row]
    <3>1. DOMAIN Parent = Rows /\ first \in Rows
      BY <1>2, <1>4
    <3> QED BY <2>2, <3>1 DEF Remapped, BeamRemapBlockTable
  <2>4. <<first, column>> \in E /\ <<first, column>>[1] = first /\ <<first, column>>[2] = column
    OBVIOUS
  <2> HIDE DEF E
  <2> QED BY <2>1, <2>3, <2>4
<1>10. IsFiniteSet(blocks) /\ Cardinality(blocks) = PoolBlocks /\ PoolBlocks \in Nat
  BY IntervalSize, Numbers
<1>11. IsFiniteSet(taken) /\ Cardinality(taken) \in Nat /\ Cardinality(taken) <= Cardinality(E)
  <2> DEFINE f == [b \in taken |-> CHOOSE e \in E : Remapped[e[1]][e[2]] = b]
  <2>1. IsFiniteSet(taken)
    <3> HIDE DEF used, blocks
    <3>1. taken \in SUBSET blocks
      OBVIOUS
    <3> HIDE DEF taken
    <3> QED BY <1>10, <3>1, FS_Subset
  <2>2. \A b \in taken : f[b] \in E /\ Remapped[f[b][1]][f[b][2]] = b
    <3> HIDE DEF E, used, blocks
    <3> QED BY <1>9
  <2>3. f \in Injection(taken, E)
    <3> HIDE DEF E, taken
    <3>1. f \in [taken -> E]
      BY <2>2
    <3>2. \A a, b \in taken : a # b => f[a] # f[b]
      <4> HIDE DEF f
      <4> QED BY <2>2
    <3> HIDE DEF f
    <3> QED BY <3>1, <3>2, Fun_IsInj
  <2>4. Cardinality(taken) <= Cardinality(E)
    <3> HIDE DEF E, taken, f
    <3> QED BY <1>7, <2>3, FS_Injection
  <2> HIDE DEF taken
  <2> QED BY <2>1, <2>4, FS_CardinalityType
<1>12. IsFiniteSet(Unused) /\ Cardinality(Unused) = PoolBlocks - Cardinality(taken)
  <2>1. Unused = blocks \ used
    BY DEF Unused, Columns
  <2>2. blocks \cap used = taken
    OBVIOUS
  <2> HIDE DEF blocks, used, taken
  <2>3. IsFiniteSet(blocks \ used) /\ Cardinality(blocks \ used) = Cardinality(blocks) - Cardinality(blocks \cap used)
    BY <1>10, FS_Difference
  <2> QED BY <1>10, <2>1, <2>2, <2>3
<1>13. Beams * MaxBlocks <= PoolBlocks
  <2> DEFINE most == IF Beams > Requests THEN Beams ELSE Requests
  <2>1. most \in Nat /\ Beams <= most /\ MaxBlocks \in Nat
    BY Numbers
  <2>2. MaxBlocks * most <= PoolBlocks
    BY PagedDecodingAssumption
  <2> HIDE DEF most
  <2>3. Beams * MaxBlocks <= most * MaxBlocks
    BY <1>2, <2>1, ProductMonotone
  <2>4. most * MaxBlocks = MaxBlocks * most /\ MaxBlocks * most \in Nat /\ Beams * MaxBlocks \in Nat
    BY <1>2, <2>1
  <2> QED BY <1>10, <2>2, <2>3, <2>4
<1>14. Cardinality(SplitRows) <= Cardinality(Unused)
  <2> HIDE DEF taken, E, First, blocks, used
  <2> DEFINE s == Cardinality(SplitRows)  f == Cardinality(First)  m == MaxBlocks  t == Cardinality(taken)
  <2>1. s \in Nat /\ f \in Nat /\ m \in Nat \ {0} /\ t \in Nat /\ t <= f * m /\ s + f <= Beams /\ Beams \in Nat
    BY <1>2, <1>5, <1>6, <1>7, <1>11
  <2> HIDE DEF s, f, m, t
  <2>2. (s + f) * m <= Beams * m
    BY <2>1, ProductMonotone
  <2>3. (s + f) * m = s * m + f * m /\ s * m \in Nat /\ f * m \in Nat /\ Beams * m \in Nat
    BY <2>1
  <2>4. 1 * s <= m * s
    <3>1. 1 <= m /\ m \in Int
      BY <2>1
    <3> QED BY <2>1, <3>1, ProductMonotone
  <2>5. m * s = s * m /\ 1 * s = s
    BY <2>1
  <2>6. Beams * m <= PoolBlocks
    BY <1>13 DEF m
  <2>7. s <= PoolBlocks - t
    BY <1>10, <2>1, <2>2, <2>3, <2>4, <2>5, <2>6
  <2> QED BY <1>12, <2>7 DEF s, t
<1> QED BY <1>4, <1>5, <1>12, <1>14

\* Each is given a block of its own.
LEMMA FreshBlocks ==
  ASSUME IInv, step = "sampled", kind = "remap"
  PROVE  /\ \A row \in SplitRows : Fresh(row) \in Unused
         /\ \A row, other \in SplitRows : row # other => Fresh(row) # Fresh(other)
<1> DEFINE S == SplitRows  N == Cardinality(Unused)
           less == [x \in S |-> {y \in S : y < x}]
<1>1. IsFiniteSet(Unused) /\ IsFiniteSet(S) /\ S \in SUBSET Rows /\ Cardinality(S) <= N
  BY EnoughBlocks
<1>2. \A x \in S : x \in Nat
  <2>1. \A row \in Rows : row \in Nat
    BY RowTypes DEF IInv
  <2> HIDE DEF S
  <2> QED BY <1>1, <2>1
<1>3. /\ less \in [S -> SUBSET S]
      /\ \A x \in S : x \notin less[x]
      /\ \A x, y, z \in S : x \in less[y] /\ y \in less[z] => x \in less[z]
      /\ \A x, y \in S : x # y => x \in less[y] \/ y \in less[x]
  <2> HIDE DEF S
  <2> QED BY <1>2
<1>4. /\ Cardinality(S) \in Nat
      /\ \A x \in S : Cardinality(less[x]) \in 0 .. (Cardinality(S) - 1)
      /\ \A x, y \in S : x \in less[y] <=> Cardinality(less[x]) < Cardinality(less[y])
  <2> HIDE DEF S, less
  <2> QED BY <1>1, <1>3, Ranks
<1>5. ASSUME NEW x \in S PROVE SplitNumber(x) = Cardinality(less[x]) + 1
  <2>1. {y \in S : y <= x} = less[x] \cup {x} /\ x \notin less[x] /\ less[x] \in SUBSET S
    <3> HIDE DEF S
    <3> QED BY <1>2
  <2> HIDE DEF less
  <2>2. IsFiniteSet(less[x])
    <3> HIDE DEF S
    <3> QED BY <1>1, <2>1, FS_Subset
  <2>3. Cardinality(less[x] \cup {x}) = Cardinality(less[x]) + 1
    BY <2>1, <2>2, FS_AddElement
  <2> QED BY <2>1, <2>3 DEF SplitNumber
<1>6. Unused \in SUBSET Int
  BY DEF Unused
<1>7. /\ N \in Nat /\ InOrder(Unused, <) \in [1 .. N -> Unused]
      /\ \A i, j \in 1 .. N : i # j => InOrder(Unused, <)[i] # InOrder(Unused, <)[j]
  BY <1>1, <1>6, NumbersInOrder
<1> HIDE DEF N, S, less
<1>8. ASSUME NEW x \in S PROVE SplitNumber(x) \in 1 .. N
  <2>1. SplitNumber(x) = Cardinality(less[x]) + 1
    BY <1>5
  <2>2. Cardinality(less[x]) \in 0 .. (Cardinality(S) - 1) /\ Cardinality(S) \in Nat
    BY <1>4
  <2>3. \A k \in Int, n \in Nat, m \in Nat : k \in 0 .. (n - 1) /\ n <= m => k + 1 \in 1 .. m
    OBVIOUS
  <2>4. Cardinality(less[x]) \in Int
    BY <2>2
  <2>5. Cardinality(less[x]) + 1 \in 1 .. N
    BY ONLY <1>1, <1>7, <2>2, <2>3, <2>4
  <2> QED BY <2>1, <2>5
<1>9. \A x \in S : Fresh(x) \in Unused
  BY <1>7, <1>8 DEF Fresh
<1>10. ASSUME NEW x \in S, NEW y \in S, x # y PROVE Fresh(x) # Fresh(y)
  <2>1. SplitNumber(x) # SplitNumber(y)
    BY <1>3, <1>4, <1>5, <1>10
  <2> QED BY <1>7, <1>8, <2>1 DEF Fresh
<1> QED BY <1>9, <1>10 DEF S

\* Where the last block of a beam ends.
LEMMA LastColumnLaw ==
  ASSUME NEW n \in Nat, n > 0, n < MaxLength
  PROVE  LET last == (n - 1) \div BlockSize
         IN /\ last \in Columns /\ last * BlockSize < n
            /\ \A c \in Nat : c * BlockSize < n =>
                 /\ c <= last
                 /\ c < last => (c + 1) * BlockSize <= n
                 /\ n % BlockSize = 0 => (c + 1) * BlockSize <= n
<1> DEFINE B == BlockSize  last == (n - 1) \div B
<1>1. B \in Nat \ {0} /\ n - 1 \in Nat /\ n - 1 < MaxLength
  BY Numbers
<1>2. last \in Columns /\ last * B <= n - 1 /\ last \in Nat
  BY <1>1, ColumnPositions
<1>3. last * B < n /\ last * B \in Nat
  <2> HIDE DEF last, B
  <2>1. last * B \in Nat
    BY <1>1, <1>2
  <2> QED BY <1>1, <1>2, <2>1
<1>4. ASSUME NEW c \in Nat, c * B < n
      PROVE  c <= last /\ (c < last => (c + 1) * B <= n) /\ (n % B = 0 => (c + 1) * B <= n)
  <2> HIDE DEF B
  <2>1. c * B \in Nat /\ B * c = c * B
    BY <1>1
  <2>2. B * c <= n - 1
    BY <1>1, <1>4, <2>1
  <2>3. c <= last
    BY <1>1, <2>2, DivBounds
  <2>4. c < last => (c + 1) * B <= n
    <3> SUFFICES ASSUME c < last PROVE (c + 1) * B <= n
      OBVIOUS
    <3> HIDE DEF last
    <3>1. c + 1 <= last /\ c + 1 \in Int /\ last \in Int /\ B \in Nat
      BY <1>1, <1>2
    <3>2. (c + 1) * B <= last * B
      BY <3>1, ProductMonotone
    <3>3. (c + 1) * B \in Int
      BY <1>1
    <3> QED BY <1>3, <3>2, <3>3
  <2>5. n % B = 0 => (c + 1) * B <= n
    <3> SUFFICES ASSUME n % B = 0 PROVE (c + 1) * B <= n
      OBVIOUS
    <3> DEFINE q == n \div B
    <3>1. q \in Nat /\ n = B * q + (n % B)
      BY <1>1, DivMod
    <3>2. n = B * q
      <4> HIDE DEF q
      <4>1. B * q \in Nat
        BY <1>1, <3>1
      <4> QED BY <3>1, <4>1
    <3> HIDE DEF q
    <3>3. ~(q <= c)
      <4> SUFFICES ASSUME q <= c PROVE FALSE
        OBVIOUS
      <4>1. q * B <= c * B
        BY <1>1, <3>1, ProductMonotone
      <4>2. q * B = B * q /\ q * B \in Int
        BY <1>1, <3>1
      <4> QED BY <1>4, <2>1, <3>2, <4>1, <4>2
    <3>4. c + 1 <= q /\ c + 1 \in Int
      BY <3>1, <3>3
    <3>5. (c + 1) * B <= q * B
      BY <1>1, <3>1, <3>4, ProductMonotone
    <3>6. q * B = B * q
      BY <1>1, <3>1
    <3> QED BY <3>2, <3>5, <3>6
  <2> QED BY <2>3, <2>4, <2>5
<1> QED BY <1>2, <1>3, <1>4

\* The tables that the rows take over, and what is copied.
LEMMA RemapLaw ==
  ASSUME IInv, ReorderByRemap
  PROVE  /\ table' = [row \in Rows |->
                        IF row \in SplitRows
                        THEN [table[Parent[row]] EXCEPT ![LastColumn(row)] = Fresh(row)]
                        ELSE table[Parent[row]]]
         /\ cache' = KvCacheCopyBlocks(cache,
              [row \in Rows |-> IF row \in SplitRows
                                THEN <<table[Parent[row]][LastColumn(row)], Fresh(row)>>
                                ELSE <<None, None>>], BlockSize)
         /\ \A row \in Rows, column \in Columns : table[Parent[row]][column] \notin Unused
         /\ \A row \in Rows : row \in SplitRows <=>
              /\ lengths[row] % BlockSize # 0
              /\ \E other \in Rows : other < row /\ Parent[other] = Parent[row]
<1>1. DOMAIN Parent = Rows
  BY DEF Parent
<1>2. \A row \in Rows : Remapped[row] = table[Parent[row]]
  BY <1>1 DEF Remapped, BeamRemapBlockTable
<1>3. /\ table' = [row \in Rows |->
                        IF row \in SplitRows
                        THEN [Remapped[row] EXCEPT ![LastColumn(row)] =
                               [r \in Rows |-> IF r \in SplitRows
                                                 THEN <<Remapped[r][LastColumn(r)], Fresh(r)>>
                                                 ELSE <<None, None>>][row][2]]
                        ELSE Remapped[row]]
      /\ cache' = KvCacheCopyBlocks(cache,
              [row \in Rows |-> IF row \in SplitRows
                                THEN <<Remapped[row][LastColumn(row)], Fresh(row)>>
                                ELSE <<None, None>>], BlockSize)
  <2> DEFINE unused == (0 .. (PoolBlocks - 1)) \
                         {Remapped[row][column] : row \in Rows, column \in 0 .. (MaxBlocks - 1)}
             blocks == InOrder(unused, <)
             Number(row) == Cardinality({other \in SplitRows : other <= row})
             pairs == [row \in Rows |->
                         IF row \in SplitRows
                         THEN <<Remapped[row][LastColumn(row)], blocks[Number(row)]>>
                         ELSE <<None, None>>]
  <2>1. /\ table' = [row \in Rows |->
                       IF row \in SplitRows
                       THEN [Remapped[row] EXCEPT ![LastColumn(row)] = pairs[row][2]]
                       ELSE Remapped[row]]
        /\ cache' = KvCacheCopyBlocks(cache, pairs, BlockSize)
    BY DEF ReorderByRemap, InOrder
  <2>2. \A row : blocks[Number(row)] = Fresh(row)
    BY DEF Fresh, Unused, SplitNumber, InOrder
  <2>3. pairs = [row \in Rows |-> IF row \in SplitRows
                                  THEN <<Remapped[row][LastColumn(row)], Fresh(row)>>
                                  ELSE <<None, None>>]
    <3> HIDE DEF blocks, Number
    <3> QED BY <2>2
  <2> HIDE DEF pairs
  <2> QED BY <2>1, <2>3
<1>4. table' = [row \in Rows |->
                        IF row \in SplitRows
                        THEN [table[Parent[row]] EXCEPT ![LastColumn(row)] = Fresh(row)]
                        ELSE table[Parent[row]]]
  BY <1>2, <1>3
<1>5. [row \in Rows |-> IF row \in SplitRows
                        THEN <<Remapped[row][LastColumn(row)], Fresh(row)>>
                        ELSE <<None, None>>]
      = [row \in Rows |-> IF row \in SplitRows
                          THEN <<table[Parent[row]][LastColumn(row)], Fresh(row)>>
                          ELSE <<None, None>>]
  BY <1>2
<1>6. \A row \in Rows, column \in Columns : table[Parent[row]][column] \notin Unused
  BY <1>2 DEF Unused, Columns
<1>7. \A row \in Rows : row \in SplitRows <=>
              /\ lengths[row] % BlockSize # 0
              /\ \E other \in Rows : other < row /\ Parent[other] = Parent[row]
  BY DEF SplitRows
<1> QED BY <1>3, <1>4, <1>5, <1>6, <1>7, SMTT(30)

\* The entries of the tables that the rows take over: those of their parents, or the block
\* that a row is given in place of one that it must not share.
LEMMA RemapEntries ==
  ASSUME IInv, ReorderByRemap
  PROVE  \A row \in Rows :
           LET last == LastColumn(row)
           IN /\ Parent[row] \in Rows /\ last \in Columns /\ table[Parent[row]][last] >= 0
              /\ \A c \in Columns :
                   table'[row][c] = IF row \in SplitRows /\ c = last THEN Fresh(row) ELSE table[Parent[row]][c]
<1>1. step = "sampled" /\ kind = "remap" /\ IsBeam /\ ITypes
  BY DEF ReorderByRemap, IsBeam, IInv
<1>2. SUFFICES ASSUME NEW row \in Rows
               PROVE  LET last == LastColumn(row)
                      IN /\ Parent[row] \in Rows /\ last \in Columns /\ table[Parent[row]][last] >= 0
                         /\ \A c \in Columns :
                              table'[row][c] = IF row \in SplitRows /\ c = last THEN Fresh(row)
                                               ELSE table[Parent[row]][c]
  OBVIOUS
<1> DEFINE last == LastColumn(row)  parent == Parent[row]
<1>3. /\ parent \in Rows /\ lengths[row] \in Nat /\ lengths[row] < MaxLength /\ 0 < lengths[row]
      /\ Len(history[parent]) = lengths[row] /\ Holds(parent, history[parent])
  <2>1. Parent \in [Rows -> Rows]
    BY <1>1, ParentLaw
  <2>2. \A r \in Rows : /\ lengths[Parent[r]] = lengths[r] /\ lengths[r] \in Nat /\ lengths[r] < MaxLength
                        /\ Len(history[r]) = lengths[r] /\ Holds(r, history[r]) /\ computed[r] < lengths[r]
    BY <1>1, ParentLaw
  <2>3. parent \in Rows /\ computed[row] \in Nat
    BY <1>1, <2>1, RowTypes
  <2>4. 0 < lengths[row]
    BY <2>2, <2>3
  <2> QED BY <2>2, <2>3, <2>4
<1>4. last \in Columns
  BY <1>3, LastColumnLaw DEF LastColumn
<1> HIDE DEF parent
<1>5. table[parent][last] >= 0
  <2>1. lengths[row] - 1 \in 0 .. (Len(history[parent]) - 1)
    BY <1>3
  <2>2. ~Lacks(parent, lengths[row] - 1)
    BY <1>3, <2>1 DEF Holds
  <2>3. table[parent][last] \in Int
    BY <1>1, <1>3, <1>4, RowTypes
  <2>4. ~(table[parent][last] < 0)
    BY <2>2 DEF Lacks, LastColumn
  <2> QED BY <2>3, <2>4
<1>6. ASSUME NEW c \in Columns
      PROVE  table'[row][c] = IF row \in SplitRows /\ c = last THEN Fresh(row) ELSE table[parent][c]
  <2>1. table'[row] = IF row \in SplitRows
                      THEN [table[parent] EXCEPT ![last] = Fresh(row)] ELSE table[parent]
    BY RemapLaw DEF parent
  <2>2. DOMAIN table[parent] = Columns
    BY <1>1, <1>3 DEF ITypes
  <2> HIDE DEF last
  <2> QED BY <2>1, <2>2
<1> QED BY <1>3, <1>4, <1>5, <1>6 DEF parent

\* The tables are of blocks, and two rows share one only if it is full.
LEMMA RemapBlocks ==
  ASSUME IInv, ReorderByRemap
  PROVE  table' \in [Rows -> [Columns -> None .. (PoolBlocks - 1)]] /\ IBlocks'
<1>1. step = "sampled" /\ kind = "remap" /\ IsBeam /\ ITypes /\ ILengths /\ IBlocks
  BY DEF ReorderByRemap, IsBeam, IInv
<1>2. /\ Rows' = Rows /\ kind' = kind /\ computed' = lengths
      /\ lengths' = [row \in Rows |-> lengths[row] + 1]
  BY DEF ReorderByRemap, Continued, streams, Rows
<1> DEFINE last(row) == LastColumn(row)  parent(row) == Parent[row]
           split(row, c) == row \in SplitRows /\ c = last(row)
<1>3. \A row \in Rows :
         /\ parent(row) \in Rows /\ last(row) \in Columns /\ table[parent(row)][last(row)] >= 0
         /\ \A c \in Columns : table'[row][c] = IF split(row, c) THEN Fresh(row) ELSE table[parent(row)][c]
  BY RemapEntries
<1>4. \A row \in SplitRows : Fresh(row) \in Unused
  BY <1>1, FreshBlocks
<1>5. \A row, other \in SplitRows : row # other => Fresh(row) # Fresh(other)
  BY <1>1, FreshBlocks
<1>6. \A b \in Unused : b \in 0 .. (PoolBlocks - 1) /\ b \in None .. (PoolBlocks - 1) /\ b >= 0
  BY Numbers DEF Unused, None
<1>7. table' \in [Rows -> [Columns -> None .. (PoolBlocks - 1)]]
  <2>1. table' = [row \in Rows |->
                        IF row \in SplitRows
                        THEN [table[Parent[row]] EXCEPT ![LastColumn(row)] = Fresh(row)]
                        ELSE table[Parent[row]]]
    BY RemapLaw
  <2>2. \A row \in Rows : table[parent(row)] \in [Columns -> None .. (PoolBlocks - 1)]
    BY <1>1, <1>3 DEF ITypes
  <2>3. \A row \in SplitRows : Fresh(row) \in None .. (PoolBlocks - 1)
    BY <1>4, <1>6
  <2>4. ASSUME NEW row \in Rows PROVE table'[row] \in [Columns -> None .. (PoolBlocks - 1)]
    <3>1. CASE row \in SplitRows
      <4>1. table'[row] = [table[parent(row)] EXCEPT ![LastColumn(row)] = Fresh(row)]
        BY <2>1, <3>1
      <4>2. Fresh(row) \in None .. (PoolBlocks - 1)
        BY <2>3, <3>1
      <4> QED BY <2>2, <4>1, <4>2, ZenonT(100)
    <3>2. CASE row \notin SplitRows
      BY <2>1, <2>2, <3>2
    <3> QED BY <3>1, <3>2
  <2>5. table' = [row \in Rows |-> table'[row]]
    BY <2>1
  <2> QED BY <2>4, <2>5
<1>8. ASSUME NEW row \in Rows
      PROVE  /\ lengths[row] \in Nat /\ 0 < lengths[row] /\ lengths[row] < MaxLength
             /\ computed[parent(row)] <= lengths[row] /\ lengths[parent(row)] = lengths[row]
             /\ computed[row] \in Nat
  <2>1. Parent \in [Rows -> Rows]
    BY <1>1, ParentLaw
  <2>2. \A r \in Rows : /\ lengths[Parent[r]] = lengths[r] /\ lengths[r] \in Nat /\ lengths[r] < MaxLength
                        /\ computed[Parent[r]] = computed[r] /\ computed[r] < lengths[r]
    BY <1>1, ParentLaw
  <2>3. computed[row] \in Nat
    BY <1>1, RowTypes
  <2> QED BY <2>2, <2>3
<1>9. \A row \in Rows, c \in Columns : c \in Nat /\ table[row][c] \in Int
  BY <1>1, RowTypes, Numbers DEF Columns
<1> HIDE DEF last, parent
<1>10. ASSUME NEW row \in Rows, NEW c \in Columns, table'[row][c] >= 0
       PROVE  table[parent(row)][c] >= 0 /\ c * BlockSize < lengths[row] /\ c <= last(row)
  <2>1. table[parent(row)][c] >= 0
    BY <1>3, <1>10
  <2>2. c * BlockSize < lengths[row]
    <3>1. c * BlockSize < lengths[parent(row)]
      BY <1>1, <1>3, <2>1 DEF IBlocks
    <3> QED BY <1>8, <3>1
  <2>3. c <= last(row)
    BY <1>8, <1>9, <2>2, LastColumnLaw DEF last, LastColumn
  <2> QED BY <2>1, <2>2, <2>3
<1>11. ASSUME NEW row \in Rows, NEW c \in Columns, NEW d \in Columns, c < d, table'[row][d] >= 0
       PROVE  table'[row][c] >= 0
  <2>1. table[parent(row)][d] >= 0
    BY <1>10, <1>11
  <2>2. table[parent(row)][c] >= 0
    BY <1>1, <1>3, <1>11, <2>1 DEF IBlocks
  <2> QED BY <1>3, <1>4, <1>6, <2>2
<1>12. ASSUME NEW row \in Rows, NEW c \in Columns, table'[row][c] >= 0
       PROVE  c * BlockSize < lengths'[row]
  <2>1. c * BlockSize < lengths[row] /\ c \in Nat /\ BlockSize \in Nat /\ lengths'[row] = lengths[row] + 1 /\ lengths[row] \in Nat
    BY <1>2, <1>8, <1>9, <1>10, <1>12, Numbers
  <2>2. c * BlockSize \in Int
    BY <2>1
  <2> QED BY <2>1, <2>2
<1>13. ASSUME NEW row \in Rows, NEW c \in Columns, table'[row][c] >= 0,
              NEW other \in Rows, NEW d \in Columns, table'[row][c] = table'[other][d]
       PROVE  c = d /\ (row = other \/ ((c + 1) * BlockSize <= lengths[row] /\ (c + 1) * BlockSize <= lengths[other]))
  <2>1. CASE split(row, c) /\ split(other, d)
    <3>1. Fresh(row) = Fresh(other)
      BY <1>3, <1>13, <2>1
    <3>2. row = other
      BY <1>5, <2>1, <3>1
    <3> QED BY <2>1, <3>2
  <2>2. ASSUME NEW r \in Rows, NEW o \in Rows, NEW a \in Columns, NEW b \in Columns,
               split(r, a), ~split(o, b), table'[r][a] = table'[o][b]
        PROVE  FALSE
    <3>1. table[parent(o)][b] \notin Unused
      BY RemapLaw DEF parent
    <3>2. table[parent(o)][b] \in Unused
      BY <1>3, <1>4, <2>2
    <3> QED BY <3>1, <3>2
  <2>3. CASE ~split(row, c) /\ ~split(other, d)
    <3>1. table[parent(row)][c] = table[parent(other)][d] /\ table[parent(row)][c] >= 0
      BY <1>3, <1>13, <2>3
    <3>2. c = d /\ (parent(row) = parent(other) \/ (Full(parent(row), c) /\ Full(parent(other), c)))
      BY <1>1, <1>3, <3>1 DEF IBlocks
    <3>3. CASE Full(parent(row), c) /\ Full(parent(other), c)
      <4>1. (c + 1) * BlockSize \in Int
        <5>1. c \in Nat /\ BlockSize \in Nat
          BY <1>9, Numbers
        <5> QED BY <5>1
      <4>2. computed[parent(row)] \in Nat /\ computed[parent(other)] \in Nat
        BY <1>1, <1>3, RowTypes
      <4> QED BY <1>8, <3>2, <3>3, <4>1, <4>2 DEF Full
    <3>4. CASE parent(row) = parent(other) /\ row # other
      <4>1. lengths[row] = lengths[other] /\ last(row) = last(other)
        BY <1>1 DEF ILengths, last, LastColumn
      <4>2. c * BlockSize < lengths[row] /\ c <= last(row)
        BY <1>10, <1>13
      <4>3. CASE lengths[row] % BlockSize = 0
        BY <1>8, <1>9, <3>2, <4>1, <4>2, <4>3, LastColumnLaw
      <4>4. CASE lengths[row] % BlockSize # 0
        <5>1. row < other \/ other < row
          <6>1. row \in Nat /\ other \in Nat
            BY <1>1, RowTypes
          <6> QED BY <3>4, <6>1
        <5>2. row \in SplitRows \/ other \in SplitRows
          <6>1. \A r \in Rows : r \in SplitRows <=>
              /\ lengths[r] % BlockSize # 0
              /\ \E o \in Rows : o < r /\ parent(o) = parent(r)
            BY RemapLaw DEF parent
          <6> QED BY <3>4, <4>1, <4>4, <5>1, <6>1
        <5>3. c # last(row)
          BY <2>3, <3>2, <4>1, <5>2
        <5>4. c < last(row)
          <6>1. last(row) \in Nat
            BY <1>3, <1>9
          <6> QED BY <1>9, <4>2, <5>3, <6>1
        <5>5. (c + 1) * BlockSize <= lengths[row]
          BY <1>8, <1>9, <4>2, <5>4, LastColumnLaw DEF last, LastColumn
        <5> QED BY <3>2, <4>1, <5>5
      <4> QED BY <4>3, <4>4
    <3> QED BY <3>2, <3>3, <3>4
  <2> QED BY <1>13, <2>1, <2>2, <2>3
<1>14. IBlocks'
  <2>1. ASSUME NEW row \in Rows, NEW other \in Rows, NEW c \in Columns, NEW d \in Columns,
               table'[row][c] >= 0, table'[row][c] = table'[other][d]
        PROVE  c = d /\ (row = other \/ (kind' = "remap" /\ Full(row, c)' /\ Full(other, c)'))
    BY <1>1, <1>2, <1>13, <2>1 DEF Full
  <2>2. Columns' = Columns
    BY DEF Columns
  <2> QED BY <1>2, <1>11, <1>12, <2>1, <2>2 DEF IBlocks
<1> QED BY <1>7, <1>14

\* Every row finds what it continues in the table it takes over.
LEMMA ReorderByRemapStep == ASSUME IInv, ReorderByRemap PROVE IInv'
<1> DEFINE pairs == [row \in Rows |-> IF row \in SplitRows
                                THEN <<table[Parent[row]][LastColumn(row)], Fresh(row)>>
                                ELSE <<None, None>>]
<1>1. step = "sampled" /\ kind = "remap" /\ IsBeam /\ ITypes /\ ILengths /\ IBlocks /\ Continued
  BY DEF ReorderByRemap, IsBeam, IInv
<1>2. table' \in [Rows -> [Columns -> None .. (PoolBlocks - 1)]] /\ IBlocks'
  BY RemapBlocks
<1>3. cache' = KvCacheCopyBlocks(cache, pairs, BlockSize)
  BY RemapLaw
<1>4. DOMAIN cache' = DOMAIN cache /\ cache' = [slot \in DOMAIN cache' |-> cache'[slot]]
  <2> HIDE DEF pairs
  <2> DEFINE copied == KvCacheCopyBlocks(cache, pairs, BlockSize)
  <2>1. DOMAIN copied = DOMAIN cache /\ copied = [slot \in DOMAIN copied |-> copied[slot]]
    BY CopyDomain, Zenon
  <2>2. cache' = copied
    BY <1>3
  <2> HIDE DEF copied
  <2> QED BY <2>1, <2>2
<1>5. ASSUME NEW row \in Rows, NEW p \in 0 .. (lengths[row] - 1)
      PROVE  /\ ~(table'[row][p \div BlockSize] < 0)
             /\ cache'[Slot(table', row, p)] = cache[Slot(table, Parent[row], p)]
  <2> DEFINE c == p \div BlockSize  s == Slot(table', row, p)  parent == Parent[row]  last == LastColumn(row)
             copies == {i \in DOMAIN pairs : pairs[i][1] >= 0 /\ pairs[i][2] = s \div BlockSize}
  <2>1. /\ parent \in Rows /\ lengths[row] \in Nat /\ lengths[row] < MaxLength
        /\ Len(history[parent]) = lengths[row] /\ Holds(parent, history[parent])
    <3>1. Parent \in [Rows -> Rows]
      BY <1>1, ParentLaw
    <3>2. \A r \in Rows : lengths[Parent[r]] = lengths[r] /\ lengths[r] \in Nat /\ lengths[r] < MaxLength
                          /\ Len(history[r]) = lengths[r] /\ Holds(r, history[r])
      BY <1>1, ParentLaw
    <3>3. parent \in Rows
      BY <3>1
    <3> QED BY <3>2, <3>3
  <2>2. p \in Nat /\ p < MaxLength
    BY <2>1, Numbers
  <2>3. c \in Columns /\ p % BlockSize \in 0 .. (BlockSize - 1)
    BY <2>2, ColumnPositions
  <2>4. ~Lacks(parent, p)
    <3> HIDE DEF parent
    <3> QED BY <2>1 DEF Holds
  <2>5. table'[row][c] = IF row \in SplitRows /\ c = last THEN Fresh(row) ELSE table[parent][c]
    BY <2>3, RemapEntries
  <2>6. /\ table[parent][c] \in 0 .. (PoolBlocks - 1) /\ table[parent][c] \notin Unused
        /\ Slot(table, parent, p) \in DOMAIN cache
    <3>1. table[parent][c] \in 0 .. (PoolBlocks - 1) /\ Slot(table, parent, p) \in DOMAIN cache
      <4> HIDE DEF parent
      <4> QED BY <1>1, <2>1, <2>2, <2>3, <2>4, SlotOfRow
    <3>2. table[parent][c] \notin Unused
      BY <2>3, RemapLaw
    <3> QED BY <3>1, <3>2
  <2>7. \A r \in SplitRows : Fresh(r) \in Unused
    BY <1>1, FreshBlocks
  <2>8. \A r, o \in SplitRows : r # o => Fresh(r) # Fresh(o)
    BY <1>1, FreshBlocks
  <2>9. Unused \subseteq 0 .. (PoolBlocks - 1)
    BY DEF Unused
  <2> HIDE DEF c, parent, last
  <2>10. table'[row][c] \in 0 .. (PoolBlocks - 1) /\ table'[row][c] \in Nat
    <3>1. table'[row][c] \in 0 .. (PoolBlocks - 1)
      <4>1. CASE row \in SplitRows /\ c = last
        BY ONLY <2>5, <2>7, <2>9, <4>1
      <4>2. CASE ~(row \in SplitRows /\ c = last)
        BY ONLY <2>5, <2>6, <4>2
      <4> QED BY <4>1, <4>2
    <3>2. \A b \in 0 .. (PoolBlocks - 1) : b \in Nat
      BY Numbers
    <3> QED BY ONLY <3>1, <3>2
  <2>11. s \div BlockSize = table'[row][c] /\ s % BlockSize = p % BlockSize
    BY <2>2, <2>10, SlotParts DEF c
  <2>12. s \in DOMAIN cache
    <3>1. s = table'[row][c] * BlockSize + (p % BlockSize)
      BY DEF Slot, c
    <3>2. s \in 0 .. (PoolBlocks * BlockSize - 1)
      BY <2>3, <2>10, <3>1, SlotInCache
    <3> QED BY <1>1, <3>2 DEF ITypes
  <2> HIDE DEF s
  <2>13. ~(table'[row][c] < 0)
    BY <2>10
  <2>14. DOMAIN pairs = Rows /\ SplitRows \subseteq Rows
    BY DEF SplitRows
  <2>15. \A r \in Rows : pairs[r] = IF r \in SplitRows
                                    THEN <<table[Parent[r]][LastColumn(r)], Fresh(r)>> ELSE <<None, None>>
    OBVIOUS
  <2> HIDE DEF pairs
  <2>16. ASSUME NEW r \in copies PROVE r \in SplitRows /\ Fresh(r) = table'[row][c]
    <3>1. r \in Rows /\ pairs[r][1] >= 0 /\ pairs[r][2] = table'[row][c]
      BY <2>11, <2>14
    <3>2. CASE r \notin SplitRows
      <4>1. pairs[r] = <<-1, -1>>
        BY <2>15, <3>1, <3>2 DEF None
      <4>2. pairs[r][1] = -1 /\ ~(-1 >= 0)
        BY <4>1
      <4> QED BY ONLY <3>1, <4>2
    <3>3. CASE r \in SplitRows
      <4> DEFINE source == table[Parent[r]][LastColumn(r)]
      <4>2. pairs[r] = <<source, Fresh(r)>>
        BY <2>15, <3>1, <3>3
      <4> HIDE DEF source
      <4>1. pairs[r][2] = Fresh(r)
        BY ONLY <4>2
      <4> QED BY ONLY <3>1, <3>3, <4>1
    <3> QED BY <3>2, <3>3
  <2>17. CASE row \in SplitRows /\ c = last
    <3>1. table[parent][last] >= 0
      BY <2>6, <2>17, Numbers
    <3>2. pairs[row] = <<table[parent][last], Fresh(row)>>
      BY <2>15, <2>17 DEF parent, last
    <3>3. row \in copies
      BY <2>5, <2>11, <2>14, <2>17, <3>1, <3>2
    <3>4. \A r \in copies : r = row
      BY <2>5, <2>8, <2>16, <2>17
    <3> HIDE DEF copies
    <3>5. copies = {row}
      BY <3>3, <3>4
    <3>6. row \in Int
      BY <1>1, RowTypes
    <3>7. KvCacheCopyBlocks(cache, pairs, BlockSize)[s] = cache[pairs[row][1] * BlockSize + (s % BlockSize)]
      BY <2>12, <3>5, <3>6, CopyLaw DEF copies
    <3>8. pairs[row][1] * BlockSize + (s % BlockSize) = Slot(table, parent, p)
      BY <2>11, <2>17, <3>2 DEF Slot, c
    <3> QED BY <1>3, <2>13, <3>7, <3>8 DEF s, c, parent
  <2>18. CASE ~(row \in SplitRows /\ c = last)
    <3>1. copies = {}
      BY <2>5, <2>6, <2>7, <2>16, <2>18
    <3> HIDE DEF copies
    <3>2. KvCacheCopyBlocks(cache, pairs, BlockSize)[s] = cache[s]
      BY <2>12, <3>1, CopyLaw DEF copies
    <3>3. s = Slot(table, parent, p)
      BY <2>5, <2>18 DEF s, Slot, c
    <3> QED BY <1>3, <2>13, <3>2, <3>3 DEF s, c, parent
  <2> QED BY <2>17, <2>18
<1> QED BY <1>1, <1>2, <1>4, <1>5, ContinuedStep

-----------------------------------------------------------------------------
(* Verification of drafts.                                                 *)

\* What a row may be given: n of its drafts and one token more, which the model allows, and
\* of which a cache holds all but the last.
Outcome(row, out, n, c) ==
  /\ out \in [0 .. MaxDraft -> Tokens \cup {None}]
  /\ \A i \in 0 .. n : out[i] \in Tokens
  /\ \A i \in (n + 1) .. MaxDraft : out[i] = None
  /\ kind # "tree" => \A i \in 0 .. (n - 1) : out[i] = work.drafts[row][i + 1]
  /\ \A p \in 0 .. (Len(Reached(row) \o [j \in 1 .. n |-> out[j - 1]]) - 1) :
       /\ ~Lacks(row, p)
       /\ c[Slot(table, row, p)] = SubSeq(Reached(row) \o [j \in 1 .. n |-> out[j - 1]], 1, p + 1)
  /\ ~Discarded(row) => \A i \in 0 .. n :
       Streams!Emits(row, Reached(row) \o [j \in 1 .. i |-> out[j - 1]], out[i])

\* The invariant after verification, of the outcomes of the rows.
LEMMA SampledStep ==
  ASSUME IInv, step = "fed", ~IsBeam, step' = "sampled",
         UNCHANGED <<streams, history, scores, lengths, computed, table>>,
         work'.fed = work.fed, work'.drafts = work.drafts, work'.query = work.query,
         work'.out = [row \in Rows |-> work'.out[row]],
         \A row \in Rows : \E n \in 0 .. Len(work.drafts[row]) : Outcome(row, work'.out[row], n, cache'),
         DOMAIN cache' = DOMAIN cache, cache' = [slot \in DOMAIN cache' |-> cache'[slot]],
         \A row \in Rows : \A p \in 0 .. (computed[row] - 1) :
           cache'[Slot(table, row, p)] = cache[Slot(table, row, p)]
  PROVE  IInv'
<1>1. ITypes /\ ILengths /\ IBlocks /\ IPlanned /\ InPass /\ CacheHoldsHistory
  BY DEF IInv, InPass
<1>2. /\ kind' = kind /\ model' = model /\ policy' = policy /\ history' = history /\ scores' = scores
      /\ lengths' = lengths /\ computed' = computed /\ table' = table /\ Rows' = Rows /\ IsBeam' = IsBeam
  BY DEF streams, Rows, IsBeam
<1>3. ITypes'
  BY <1>1, <1>2 DEF ITypes, Count, Columns, Kinds
<1>4. ILengths' /\ IBlocks'
  BY <1>1, <1>2 DEF ILengths, IBlocks, Full, Columns
<1>5. CacheHoldsHistory'
  BY <1>1, <1>2 DEF CacheHoldsHistory, Lacks
<1>6. IPlanned'
  BY <1>1, <1>2 DEF IPlanned, InPass
<1>7. ISteps' /\ IFed' /\ IChosen' /\ IDrafts'
  BY <1>2 DEF ISteps, IFed, IChosen, IDrafts
<1>8. \A row \in Rows : Reached(row)' = Reached(row) /\ Discarded(row)' = Discarded(row)
  BY <1>2 DEF Reached, Discarded
<1>9. \A row, context, token : Streams!Emits(row, context, token)' <=> Streams!Emits(row, context, token)
  BY <1>2 DEF Streams!Emits, Streams!Best
<1>10. ASSUME NEW row \in Rows, NEW n \in 0 .. Len(work.drafts[row]), Outcome(row, work'.out[row], n, cache')
       PROVE  Accepted(row, n)'
  <2> DEFINE out == work'.out[row]
             t == Reached(row) \o [j \in 1 .. n |-> out[j - 1]]
  <2>1. \A i : Taken(row, i)' = Reached(row) \o [j \in 1 .. i |-> out[j - 1]]
    BY <1>8 DEF Taken
  <2>2. Holds(row, Taken(row, n))'
    <3>1. \A p \in 0 .. (Len(t) - 1) : ~Lacks(row, p)' /\ cache'[Slot(table', row, p)] = SubSeq(t, 1, p + 1)
      BY <1>2, <1>10 DEF Outcome, Lacks
    <3> HIDE DEF t
    <3>2. Taken(row, n)' = t
      BY <2>1 DEF t
    <3> QED BY <3>1, <3>2 DEF Holds
  <2>3. ~Discarded(row)' => \A i \in 0 .. n : Streams!Emits(row, Taken(row, i), work.out[row][i])'
    <3> SUFFICES ASSUME ~Discarded(row)', NEW i \in 0 .. n
                 PROVE  Streams!Emits(row, Taken(row, i), work.out[row][i])'
      OBVIOUS
    <3> DEFINE context == Reached(row) \o [j \in 1 .. i |-> out[j - 1]]
    <3>1. Streams!Emits(row, context, out[i])
      BY <1>8, <1>10 DEF Outcome
    <3>2. Taken(row, i)' = context
      BY <2>1
    <3> HIDE DEF context
    <3> QED BY <1>2, <3>1, <3>2 DEF Streams!Emits, Streams!Best
  <2>4. /\ \A i \in 0 .. n : out[i] \in Tokens
        /\ \A i \in (n + 1) .. MaxDraft : out[i] = None
        /\ kind' # "tree" => \A i \in 0 .. (n - 1) : out[i] = work'.drafts[row][i + 1]
    BY <1>2, <1>10 DEF Outcome
  <2> QED BY <2>2, <2>3, <2>4 DEF Accepted
<1>11. IOut'
  <2>1. \A row \in Rows : \E n \in 0 .. Len(work'.drafts[row]) : Accepted(row, n)'
    BY <1>10
  <2>2. \A row \in Rows : work'.out[row] \in [0 .. MaxDraft -> Tokens \cup {None}]
    BY DEF Outcome
  <2>3. work'.out \in [Rows -> [0 .. MaxDraft -> Tokens \cup {None}]]
    BY <2>2
  <2> QED BY <1>2, <2>1, <2>3 DEF IOut
<1> QED BY <1>3, <1>4, <1>5, <1>6, <1>7, <1>11 DEF IInv

\* The drafts that are accepted are a prefix of what is computed.
LEMMA TakenPrefix ==
  ASSUME IInv, InPass, NEW row \in Rows, NEW n \in 0 .. Len(work.drafts[row]), NEW out,
         \A i \in 0 .. (n - 1) : out[i] = work.drafts[row][i + 1]
  PROVE  Reached(row) \o [j \in 1 .. n |-> out[j - 1]] = SubSeq(Seen(row), 1, computed[row] + work.fed[row] + n)
<1> DEFINE d == work.drafts[row]  t == [j \in 1 .. n |-> out[j - 1]]
<1>1. ITypes /\ IPlanned
  BY DEF IInv
<1>2. d \in Seq(Tokens) /\ Reached(row) \in Seq(Tokens) /\ Len(Reached(row)) = computed[row] + work.fed[row]
      /\ Seen(row) = Reached(row) \o d
  BY <1>1, PassLengths DEF Seen
<1>3. n \in Nat /\ Len(d) \in Nat
  BY <1>2, LenProperties
<1> HIDE DEF d
<1>4. \A j \in 1 .. n : t[j] = d[j] /\ j \in 1 .. Len(d)
  <2> SUFFICES ASSUME NEW j \in 1 .. n PROVE t[j] = d[j] /\ j \in 1 .. Len(d)
    OBVIOUS
  <2>1. j - 1 \in 0 .. (n - 1) /\ (j - 1) + 1 = j /\ j \in 1 .. Len(d)
    BY <1>3 DEF d
  <2>2. out[j - 1] = d[(j - 1) + 1]
    BY <2>1 DEF d
  <2> QED BY <2>1, <2>2
<1>5. t \in Seq(Tokens) /\ Len(t) = n
  <2>1. \A j \in 1 .. n : t[j] \in Tokens
    BY <1>2, <1>4, ElementOfSeq
  <2>2. t \in [1 .. n -> Tokens]
    BY <2>1
  <2> HIDE DEF t
  <2> QED BY <1>3, <2>2, FunctionSeq
<1>6. n \in 0 .. Len(d)
  BY DEF d
<1>7. SubSeq(d, 1, n) = t
  <2>1. SubSeq(d, 1, n) \in Seq(Tokens) /\ Len(SubSeq(d, 1, n)) = n /\ \A i \in 1 .. n : SubSeq(d, 1, n)[i] = d[i]
    BY <1>2, <1>6, Prefix
  <2>2. \A i \in 1 .. n : SubSeq(d, 1, n)[i] = t[i]
    BY <1>4, <2>1
  <2> HIDE DEF t
  <2> QED BY <1>5, <2>1, <2>2, SeqEqual
<1>8. SubSeq(Reached(row) \o d, 1, Len(Reached(row)) + n) = Reached(row) \o SubSeq(d, 1, n)
  <2>1. \A s \in Seq(Tokens) : \A k \in 0 .. Len(d) : SubSeq(s \o d, 1, Len(s) + k) = s \o SubSeq(d, 1, k)
    <3>1. d \in Seq(Tokens)
      BY <1>2
    <3> QED BY ONLY <3>1, PrefixOfConcat, SMTT(30)
  <2> QED BY <1>2, <1>6, <2>1
<1> QED BY <1>2, <1>7, <1>8

\* What the entry after i drafts predicts from is those before it, and what its
\* probabilities are.
LEMMA ContextLaw ==
  ASSUME IInv, step = "fed", kind # "tree", NEW row \in Rows, NEW i \in 0 .. Len(work.drafts[row])
  PROVE  LET context == SubSeq(Seen(row), 1, computed[row] + work.fed[row] + i)
         IN /\ Predicts(row, i) = context /\ context \in Seq(Tokens) /\ Len(context) <= MaxLength
            /\ P(row, i) \in [Tokens -> 0 .. Unit]
            /\ \A t \in Tokens : P(row, i)[t] = Weight(model, context, t)
            /\ Sum(P(row, i), Tokens) = Unit
<1>1. ITypes /\ IPlanned /\ IFed /\ InPass
  BY DEF IInv, InPass
<1> DEFINE n == computed[row] + work.fed[row] + i  context == SubSeq(Seen(row), 1, n)
<1>2. /\ work.fed[row] \in Nat /\ work.fed[row] > 0 /\ Len(work.drafts[row]) \in Nat
      /\ work.query[row] \in Seq(Tokens) /\ Len(work.query[row]) = work.fed[row] + Len(work.drafts[row])
      /\ Seen(row) \in Seq(Tokens) /\ Len(Seen(row)) = computed[row] + work.fed[row] + Len(work.drafts[row])
      /\ LastFed(row) = Len(Seen(row)) - 1 /\ LastFed(row) < MaxLength /\ computed[row] \in Nat
  BY <1>1, PassLengths, RowTypes
<1>3. work.fed[row] + i \in 1 .. Len(work.query[row]) /\ DOMAIN work.query[row] = 1 .. Len(work.query[row])
  BY <1>2, LenProperties, SMTT(30)
<1>4. work.context[row] = [k \in DOMAIN work.query[row] |-> SubSeq(Seen(row), 1, computed[row] + k)]
  BY <1>1 DEF IFed
<1>5. Predicts(row, i) = SubSeq(Seen(row), 1, computed[row] + (work.fed[row] + i))
  BY <1>3, <1>4 DEF Predicts
<1>6. n \in 0 .. Len(Seen(row)) /\ n = computed[row] + (work.fed[row] + i) /\ n <= MaxLength
  <2> DEFINE c == computed[row]  f == work.fed[row]  d == Len(work.drafts[row])  s == Len(Seen(row))
  <2>1. c \in Nat /\ f \in Nat /\ d \in Nat /\ s = c + f + d /\ s - 1 < MaxLength /\ i \in 0 .. d /\ MaxLength \in Nat
    BY <1>2, Numbers
  <2> HIDE DEF c, f, d, s
  <2>2. c + f + i \in 0 .. s /\ c + f + i = c + (f + i) /\ c + f + i <= MaxLength
    BY ONLY <2>1
  <2> QED BY <2>2 DEF c, f, d, s
<1> HIDE DEF n
<1>7. context \in Seq(Tokens) /\ Len(context) = n
  BY <1>2, <1>6, Prefix
<1>8. Predicts(row, i) = context
  BY <1>5, <1>6
<1> HIDE DEF context
<1>9. /\ \A token \in Tokens : Weight(model, context, token) \in 0 .. Unit
      /\ Sum([token \in Tokens |-> Weight(model, context, token)], Tokens) = Unit
  BY <1>1, <1>6, <1>7, ModelLaw
<1>10. P(row, i) = [token \in Tokens |-> Weight(model, context, token)]
  BY <1>8 DEF P
<1>11. P(row, i) \in [Tokens -> 0 .. Unit] /\ \A t \in Tokens : P(row, i)[t] = Weight(model, context, t)
  BY <1>9, <1>10
<1>12. Sum(P(row, i), Tokens) = Unit
  BY <1>9, <1>10
<1> QED BY <1>6, <1>7, <1>8, <1>11, <1>12 DEF context, n

\* A row of which drafts are verified.
LEMMA VerifiedOutcome ==
  ASSUME IInv, step = "fed", kind # "tree", ~IsBeam, NEW row \in Rows,
         NEW accepts, NEW taken, NEW instead, NEW bonus \in Tokens,
         \A i \in 0 .. (Len(work.drafts[row]) - 1) :
           accepts[i] => /\ taken[i] = work.drafts[row][i + 1]
                         /\ Streams!Emits(row, Predicts(row, i), taken[i]),
         \A i \in 0 .. (Len(work.drafts[row]) - 1) :
           ~accepts[i] => instead[i] \in Tokens /\ Streams!Emits(row, Predicts(row, i), instead[i]),
         Streams!Emits(row, Predicts(row, Len(work.drafts[row])), bonus)
  PROVE  \E n \in 0 .. Len(work.drafts[row]) :
           Outcome(row, VerifiedRow(Stride, Len(work.drafts[row]), accepts, taken, instead, bonus), n, cache)
<1> DEFINE count == Len(work.drafts[row])
           out == VerifiedRow(Stride, count, accepts, taken, instead, bonus)
           d == work.drafts[row]
<1>1. ITypes /\ IPlanned /\ IFed /\ InPass
  BY DEF IInv, InPass
<1>2. count \in Nat /\ count <= MaxDraft /\ count < Stride /\ Stride \in Nat /\ Stride - 1 = MaxDraft /\ d \in Seq(Tokens)
      /\ MaxDraft \in Nat
  BY <1>1, PassLengths, Numbers, SMTT(30) DEF Stride
<1>3. PICK n \in 0 .. count :
        /\ out = [i \in 0 .. (Stride - 1) |-> out[i]]
        /\ \A i \in 0 .. (n - 1) : accepts[i] /\ out[i] = taken[i]
        /\ n < count => ~accepts[n] /\ out[n] = instead[n]
        /\ n = count => out[n] = bonus
        /\ \A i \in (n + 1) .. (Stride - 1) : out[i] = None
  <2> HIDE DEF count
  <2> QED BY <1>2, VerifiedRowLaw, SMTT(30)
<1> HIDE DEF out, count
<1>4. n \in Nat /\ n <= count /\ \A i \in 0 .. (n - 1) : i \in 0 .. (count - 1)
  BY <1>2
<1>5. \A i \in 0 .. (n - 1) : out[i] = d[i + 1] /\ out[i] \in Tokens /\ Streams!Emits(row, Predicts(row, i), out[i])
  <2> SUFFICES ASSUME NEW i \in 0 .. (n - 1)
               PROVE  out[i] = d[i + 1] /\ out[i] \in Tokens /\ Streams!Emits(row, Predicts(row, i), out[i])
    OBVIOUS
  <2>1. out[i] = d[i + 1] /\ Streams!Emits(row, Predicts(row, i), out[i])
    BY <1>3, <1>4 DEF count
  <2>2. i + 1 \in 1 .. Len(d)
    BY <1>2, <1>4 DEF count
  <2>3. d[i + 1] \in Tokens
    <3> HIDE DEF d
    <3> QED BY <1>2, <2>2, ElementOfSeq
  <2> QED BY <2>1, <2>3
<1>6. out[n] \in Tokens /\ Streams!Emits(row, Predicts(row, n), out[n])
  <2>1. CASE n < count
    <3>1. n \in 0 .. (count - 1)
      BY <1>2, <1>4, <2>1
    <3> QED BY <1>3, <2>1, <3>1 DEF count
  <2>2. CASE n = count
    BY <1>3, <2>2 DEF count
  <2> QED BY <1>2, <1>4, <2>1, <2>2
<1>7. \A i \in 0 .. n : i \in 0 .. (n - 1) \/ i = n
  BY <1>4
<1>8. \A i \in 0 .. n : out[i] \in Tokens /\ Streams!Emits(row, Predicts(row, i), out[i])
  BY <1>5, <1>6, <1>7
<1>9. \A i \in (n + 1) .. MaxDraft : out[i] = None
  BY <1>2, <1>3
<1>10. out \in [0 .. MaxDraft -> Tokens \cup {None}]
  <2>1. \A i \in 0 .. MaxDraft : i \in 0 .. n \/ i \in (n + 1) .. MaxDraft
    BY <1>2, <1>4
  <2>2. \A i \in 0 .. MaxDraft : out[i] \in Tokens \cup {None}
    BY <1>8, <1>9, <2>1
  <2>3. out = [i \in 0 .. MaxDraft |-> out[i]]
    BY <1>2, <1>3
  <2> QED BY <2>2, <2>3
<1>11. \A i \in 0 .. n : Reached(row) \o [j \in 1 .. i |-> out[j - 1]] = SubSeq(Seen(row), 1, computed[row] + work.fed[row] + i)
                         /\ i \in 0 .. Len(work.drafts[row])
  <2> SUFFICES ASSUME NEW i \in 0 .. n
               PROVE  /\ Reached(row) \o [j \in 1 .. i |-> out[j - 1]] = SubSeq(Seen(row), 1, computed[row] + work.fed[row] + i)
                      /\ i \in 0 .. Len(work.drafts[row])
    OBVIOUS
  <2>1. i \in 0 .. Len(work.drafts[row])
    BY <1>2, <1>4 DEF count
  <2>2. \A k \in 0 .. (i - 1) : k \in 0 .. (n - 1)
    BY <1>4
  <2>3. \A k \in 0 .. (i - 1) : out[k] = work.drafts[row][k + 1]
    BY <1>5, <2>2
  <2> QED BY <1>1, <2>1, <2>3, TakenPrefix
<1>12. ASSUME NEW i \in 0 .. n
       PROVE  Streams!Emits(row, Reached(row) \o [j \in 1 .. i |-> out[j - 1]], out[i])
  <2> DEFINE context == Reached(row) \o [j \in 1 .. i |-> out[j - 1]]
  <2>1. i \in 0 .. Len(work.drafts[row]) /\ context = SubSeq(Seen(row), 1, computed[row] + work.fed[row] + i)
    BY <1>11
  <2> HIDE DEF context
  <2>2. Predicts(row, i) = context
    BY <2>1, ContextLaw
  <2>3. Streams!Emits(row, Predicts(row, i), out[i])
    BY <1>8
  <2> QED BY <2>2, <2>3 DEF context
<1>13. \A p \in 0 .. (Len(Reached(row) \o [j \in 1 .. n |-> out[j - 1]]) - 1) :
         /\ ~Lacks(row, p)
         /\ cache[Slot(table, row, p)] = SubSeq(Reached(row) \o [j \in 1 .. n |-> out[j - 1]], 1, p + 1)
  <2> DEFINE t == Reached(row) \o [j \in 1 .. n |-> out[j - 1]]  m == computed[row] + work.fed[row] + n
  <2>1. n \in 0 .. n
    BY <1>4
  <2>2. t = SubSeq(Seen(row), 1, m)
    BY <1>11, <2>1
  <2>3. m \in 0 .. Len(Seen(row)) /\ Seen(row) \in Seq(Tokens) /\ Len(Seen(row)) \in Nat
    <3>1. /\ work.fed[row] \in Nat /\ Seen(row) \in Seq(Tokens) /\ computed[row] \in Nat
          /\ Len(Seen(row)) = computed[row] + work.fed[row] + Len(work.drafts[row])
      BY <1>1, PassLengths, RowTypes
    <3> QED BY <1>2, <1>4, <3>1, SMTT(30) DEF count
  <2> HIDE DEF t, m
  <2>4. Len(t) = m
    BY <2>2, <2>3, Prefix
  <2>5. Holds(row, Seen(row))
    BY <1>1 DEF IFed
  <2>6. ASSUME NEW p \in 0 .. (m - 1) PROVE ~Lacks(row, p) /\ cache[Slot(table, row, p)] = SubSeq(t, 1, p + 1)
    <3>1. p \in 0 .. (Len(Seen(row)) - 1) /\ p + 1 \in 0 .. m
      BY <2>3
    <3>2. ~Lacks(row, p) /\ cache[Slot(table, row, p)] = SubSeq(Seen(row), 1, p + 1)
      BY <2>5, <3>1 DEF Holds
    <3>3. SubSeq(t, 1, p + 1) = SubSeq(Seen(row), 1, p + 1)
      BY <2>2, <2>3, <3>1, PrefixOfPrefix
    <3> QED BY <3>2, <3>3
  <2> QED BY <2>4, <2>6 DEF t
<1>14. n \in 0 .. Len(work.drafts[row])
  BY DEF count
<1>15. Outcome(row, out, n, cache)
  BY <1>5, <1>8, <1>9, <1>10, <1>12, <1>13 DEF Outcome
<1> QED BY <1>14, <1>15 DEF out, count

\* The best token is what a greedy row takes, and a random one takes any that is probable.
LEMMA EmitsLaw ==
  ASSUME IInv, step = "fed", kind # "tree", NEW row \in Rows, NEW i \in 0 .. Len(work.drafts[row])
  PROVE  /\ policy[row] = "greedy" =>
              /\ Argmax(P(row, i)) \in Tokens
              /\ Streams!Emits(row, Predicts(row, i), Argmax(P(row, i)))
         /\ policy[row] = "random" => \A t \in Tokens : P(row, i)[t] > 0 =>
              Streams!Emits(row, Predicts(row, i), t)
<1> DEFINE p == P(row, i)  context == Predicts(row, i)
<1>1. p \in [Tokens -> 0 .. Unit] /\ \A t \in Tokens : p[t] = Weight(model, context, t)
  BY ContextLaw
<1> HIDE DEF p, context
<1>2. /\ Argmax(p) \in Tokens
      /\ \A u \in Tokens : p[Argmax(p)] > p[u] \/ (p[Argmax(p)] = p[u] /\ Argmax(p) <= u)
  BY <1>1, ArgmaxLaw
<1>3. Streams!Best(context, Argmax(p))
  <2> HIDE DEF p
  <2> QED BY <1>1, <1>2 DEF Streams!Best
<1>4. policy[row] = "greedy" => Streams!Emits(row, context, Argmax(p))
  BY <1>3 DEF Streams!Emits
<1>5. policy[row] = "random" => \A t \in Tokens : p[t] > 0 => Streams!Emits(row, context, t)
  BY <1>1 DEF Streams!Emits
<1> QED BY <1>2, <1>4, <1>5 DEF p, context

\* A row follows one of the two policies.
LEMMA Policies ==
  ASSUME ITypes, ~IsBeam, NEW row \in Rows
  PROVE  (policy[row] = "greedy" /\ kind = "rejection") \/ policy[row] = "random"
<1>1. kind \in {"rejection", "verify", "tree"}
  BY DEF ITypes, Kinds, IsBeam
<1>2. CASE kind = "rejection"
  BY <1>2 DEF ITypes, IsBeam
<1>3. CASE kind \in {"verify", "tree"}
  BY <1>3 DEF ITypes, IsBeam
<1> QED BY <1>1, <1>2, <1>3

\* What follows all drafts.
LEMMA BonusLaw ==
  ASSUME IInv, step = "fed", kind # "tree", ~IsBeam, NEW row \in Rows, NEW bonus \in Bonuses(row)
  PROVE  bonus \in Tokens /\ Streams!Emits(row, Predicts(row, Len(work.drafts[row])), bonus)
<1> DEFINE n == Len(work.drafts[row])
<1>1. ITypes /\ IPlanned /\ InPass
  BY DEF IInv, InPass
<1>2. n \in Nat /\ n \in 0 .. n
  BY <1>1, PassLengths
<1>3. policy[row] = "greedy" \/ policy[row] = "random"
  BY <1>1, Policies
<1>4. bonus \in IF policy[row] = "greedy" THEN {Argmax(P(row, n))} ELSE {t \in Tokens : P(row, n)[t] > 0}
  BY DEF Bonuses
<1>5. /\ policy[row] = "greedy" => Argmax(P(row, n)) \in Tokens /\ Streams!Emits(row, Predicts(row, n), Argmax(P(row, n)))
      /\ policy[row] = "random" => \A t \in Tokens : P(row, n)[t] > 0 => Streams!Emits(row, Predicts(row, n), t)
  BY <1>2, EmitsLaw
<1> HIDE DEF n
<1> QED BY <1>3, <1>4, <1>5 DEF n

\* The test of the random rows: a draft of no probability is refused, and one that is
\* certain is accepted.
LEMMA RandomTest ==
  ASSUME NEW weight \in 0 .. Unit, NEW uniform \in 1 .. Unit
  PROVE  /\ weight * Unit >= uniform * Unit => weight > 0
         /\ weight = Unit => weight * Unit >= uniform * Unit
<1>1. Unit \in Nat \ {0}
  BY Numbers
<1>2. weight \in Nat /\ uniform \in Nat /\ 1 <= uniform /\ uniform <= Unit
  BY <1>1
<1>3. weight * Unit >= uniform * Unit => weight > 0
  <2> SUFFICES ASSUME weight = 0 PROVE ~(weight * Unit >= uniform * Unit)
    BY <1>2
  <2>1. weight * Unit = 0
    BY <1>1
  <2>2. 1 * Unit <= uniform * Unit
    BY <1>1, <1>2, ProductMonotone
  <2>3. 1 * Unit = Unit /\ uniform * Unit \in Int
    BY <1>1, <1>2
  <2> QED BY <1>1, <2>1, <2>2, <2>3
<1>4. weight = Unit => weight * Unit >= uniform * Unit
  <2> SUFFICES ASSUME weight = Unit PROVE Unit * Unit >= uniform * Unit
    OBVIOUS
  <2>1. uniform * Unit <= Unit * Unit
    BY <1>1, <1>2, ProductMonotone
  <2>2. uniform * Unit \in Int /\ Unit * Unit \in Int
    BY <1>1, <1>2
  <2> QED BY <2>1, <2>2
<1> QED BY <1>3, <1>4

\* What is recovered for a draft that was refused is probable.
LEMMA RecoveredLaw ==
  ASSUME NEW p \in [Tokens -> 0 .. Unit], Sum(p, Tokens) = Unit, NEW draft \in Tokens,
         NEW uniform \in 1 .. Unit, ~(p[draft] * Unit >= uniform * Unit),
         NEW t \in RecoveredTokens(Tokens, draft, p, p, TRUE)
  PROVE  t \in Tokens /\ p[t] > 0
<1> DEFINE residual == {u \in Tokens : u # draft /\ p[u] > 0}
<1>1. t \in IF residual = {} THEN {0} ELSE residual
  BY DEF RecoveredTokens
<1>2. residual # {}
  <2> SUFFICES ASSUME residual = {} PROVE FALSE
    OBVIOUS
  <2>1. IsFiniteSet(Tokens) /\ p \in [Tokens -> Nat] /\ Unit \in Nat
    BY Numbers
  <2>2. \A u \in Tokens : u # draft => p[u] = 0
    <3>1. \A u \in Tokens : p[u] \in Nat
      BY <2>1
    <3>2. \A u \in Tokens : u # draft => ~(p[u] > 0)
      OBVIOUS
    <3> QED BY ONLY <3>1, <3>2
  <2>3. Sum(p, Tokens) = p[draft]
    BY <2>1, <2>2, SumOfOne
  <2>4. p[draft] \in 0 .. Unit /\ p[draft] = Unit
    BY <2>3
  <2> QED BY <2>4, RandomTest
<1> QED BY <1>1, <1>2

\* What is at a place of a row of the drafts.
LEMMA RaggedCounts ==
  ASSUME Requests \in Nat, Counts \in [0 .. (Requests - 1) -> Nat]
  PROVE  \A a : /\ DOMAIN Ragged(Counts, a) = 0 .. (Starts(Counts)[Requests] - 1)
                /\ \A r \in 0 .. (Requests - 1), i \in Int : i \in 0 .. (Counts[r] - 1) =>
                     /\ Starts(Counts)[r] + i \in 0 .. (Starts(Counts)[Requests] - 1)
                     /\ Ragged(Counts, a)[Starts(Counts)[r] + i] = a[r][i + 1]
BY RaggedItems, Zenon

\* Rejection sampling gives every row an outcome: the greedy rows from the best tokens, the
\* random ones from the test and what is recovered.
LEMMA RejectionSampleStep == ASSUME IInv, RejectionSample PROVE IInv'
<1> DEFINE cumulative == Starts(Counts)
           total == cumulative[Requests]
           drafts == Ragged(Counts, work.drafts)
           items == [row \in Rows |-> [i \in 1 .. Counts[row] |-> P(row, i - 1)]]
           p == Ragged(Counts, items)
           mask == [row \in Rows |-> policy[row] = "greedy"]
           best == [i \in DOMAIN p |-> Argmax(p[i])]
           chance == [i \in DOMAIN p |-> p[i][drafts[i]]]
           certain == [i \in DOMAIN p |-> Unit]
<1>1. step = "fed" /\ kind = "rejection" /\ step' = "sampled" /\ ITypes /\ IPlanned /\ InPass
  BY DEF RejectionSample, IInv, InPass
<1>2. UNCHANGED <<streams, history, scores, lengths, computed, table, cache>>
  BY SMTT(30) DEF RejectionSample
<1>3. ~IsBeam /\ kind # "tree"
  BY <1>1 DEF IsBeam
<1>4. PICK bonus \in [Rows -> Tokens], uniform \in [0 .. (total - 1) -> 1 .. Unit],
           recovered \in [0 .. (total - 1) -> Tokens] :
        LET greedy == RejectionGreedySample(cumulative, drafts, best, bonus, mask, Stride)
            random == RejectionRandomSample(cumulative, drafts, chance, certain,
                        bonus, recovered, uniform, mask, Stride, Unit)
        IN /\ \A row \in Rows : bonus[row] \in Bonuses(row)
           /\ \A i \in DOMAIN p : recovered[i] \in RecoveredTokens(Tokens, drafts[i], p[i], p[i], TRUE)
           /\ work' = [fed |-> work.fed, drafts |-> work.drafts, query |-> work.query,
                       out |-> [row \in Rows |-> IF mask[row] THEN greedy[row] ELSE random[row]]]
  BY DEF RejectionSample
<1> DEFINE greedy == RejectionGreedySample(cumulative, drafts, best, bonus, mask, Stride)
           random == RejectionRandomSample(cumulative, drafts, chance, certain,
                        bonus, recovered, uniform, mask, Stride, Unit)
<1>5. Rows = 0 .. (Requests - 1) /\ Requests \in Nat /\ Counts \in [0 .. (Requests - 1) -> Nat]
      /\ DOMAIN Counts = Rows
  <2>1. Rows = 0 .. (Requests - 1) /\ Requests \in Nat
    BY <1>1, <1>3, RowTypes, Numbers DEF Count
  <2>2. \A row \in Rows : Len(work.drafts[row]) \in Nat
    BY <1>1, PassLengths
  <2> QED BY <2>1, <2>2 DEF Counts
<1>6. /\ DOMAIN p = 0 .. (total - 1)
      /\ \A r \in Rows, i \in Int : i \in 0 .. (Counts[r] - 1) =>
           /\ cumulative[r] + i \in 0 .. (total - 1)
           /\ drafts[cumulative[r] + i] = work.drafts[r][i + 1]
           /\ p[cumulative[r] + i] = items[r][i + 1]
  <2>1. \A a : /\ DOMAIN Ragged(Counts, a) = 0 .. (Starts(Counts)[Requests] - 1)
               /\ \A r \in Rows, i \in Int : i \in 0 .. (Counts[r] - 1) =>
                    /\ Starts(Counts)[r] + i \in 0 .. (Starts(Counts)[Requests] - 1)
                    /\ Ragged(Counts, a)[Starts(Counts)[r] + i] = a[r][i + 1]
    BY <1>5, RaggedCounts, Zenon
  <2> HIDE DEF items
  <2> QED BY <2>1
<1>7. \A r \in Rows : cumulative[r + 1] = cumulative[r] + Counts[r] /\ cumulative[r] \in Nat
                      /\ cumulative[r + 1] - cumulative[r] = Counts[r]
  <2>1. Stacked(Starts(Counts), Counts, Requests)
    BY <1>5, StartsLaw
  <2>2. ASSUME NEW r \in Rows PROVE cumulative[r + 1] = cumulative[r] + Counts[r] /\ cumulative[r] \in Nat /\ Counts[r] \in Nat
    <3>1. r \in 0 .. Requests /\ r \in 0 .. (Requests - 1)
      BY <1>5
    <3> QED BY <1>5, <2>1, <3>1 DEF Stacked
  <2> HIDE DEF cumulative
  <2> QED BY <2>2
<1> HIDE DEF cumulative, drafts, items, p, total
<1>8. ASSUME NEW row \in Rows
      PROVE  LET n == Len(work.drafts[row])
             IN /\ n \in Nat /\ Counts[row] = n /\ bonus[row] \in Tokens
                /\ Streams!Emits(row, Predicts(row, n), bonus[row])
                /\ \A i \in 0 .. (n - 1) :
                     /\ cumulative[row] + i \in DOMAIN p /\ i \in 0 .. n
                     /\ drafts[cumulative[row] + i] = work.drafts[row][i + 1]
                     /\ work.drafts[row][i + 1] \in Tokens
                     /\ p[cumulative[row] + i] = P(row, i)
                     /\ best[cumulative[row] + i] = Argmax(P(row, i))
                     /\ chance[cumulative[row] + i] = P(row, i)[work.drafts[row][i + 1]]
                     /\ certain[cumulative[row] + i] = Unit
                     /\ uniform[cumulative[row] + i] \in 1 .. Unit
                     /\ recovered[cumulative[row] + i] \in RecoveredTokens(Tokens, work.drafts[row][i + 1], P(row, i), P(row, i), TRUE)
  <2> DEFINE n == Len(work.drafts[row])
  <2>1. n \in Nat /\ Counts[row] = n /\ work.drafts[row] \in Seq(Tokens)
    BY <1>1, PassLengths DEF Counts
  <2>2. bonus[row] \in Tokens /\ Streams!Emits(row, Predicts(row, n), bonus[row])
    <3>1. bonus[row] \in Bonuses(row)
      BY <1>4
    <3> QED BY <1>1, <1>3, <3>1, BonusLaw
  <2>3. ASSUME NEW i \in 0 .. (n - 1)
        PROVE  /\ cumulative[row] + i \in DOMAIN p /\ i \in 0 .. n
               /\ drafts[cumulative[row] + i] = work.drafts[row][i + 1]
               /\ work.drafts[row][i + 1] \in Tokens
               /\ p[cumulative[row] + i] = P(row, i)
    <3>1. i \in Int /\ i \in 0 .. (Counts[row] - 1) /\ i \in 0 .. n /\ i + 1 \in 1 .. n /\ (i + 1) - 1 = i
      BY <2>1
    <3>2. cumulative[row] + i \in 0 .. (total - 1) /\ drafts[cumulative[row] + i] = work.drafts[row][i + 1]
          /\ p[cumulative[row] + i] = items[row][i + 1]
      BY <1>6, <3>1
    <3>3. items[row][i + 1] = P(row, i)
      <4>1. items[row] = [k \in 1 .. Counts[row] |-> P(row, k - 1)]
        BY DEF items
      <4> QED BY <2>1, <3>1, <4>1
    <3>4. work.drafts[row][i + 1] \in Tokens
      BY <2>1, <3>1, ElementOfSeq
    <3> QED BY <1>6, <3>1, <3>2, <3>3, <3>4
  <2>4. ASSUME NEW i \in 0 .. (n - 1)
        PROVE  /\ best[cumulative[row] + i] = Argmax(P(row, i))
               /\ chance[cumulative[row] + i] = P(row, i)[work.drafts[row][i + 1]]
               /\ certain[cumulative[row] + i] = Unit
               /\ uniform[cumulative[row] + i] \in 1 .. Unit
               /\ recovered[cumulative[row] + i] \in RecoveredTokens(Tokens, work.drafts[row][i + 1], P(row, i), P(row, i), TRUE)
    <3>1. cumulative[row] + i \in DOMAIN p /\ drafts[cumulative[row] + i] = work.drafts[row][i + 1]
          /\ p[cumulative[row] + i] = P(row, i) /\ cumulative[row] + i \in 0 .. (total - 1)
      BY <1>6, <2>3
    <3>2. uniform[cumulative[row] + i] \in 1 .. Unit
      BY <1>4, <3>1
    <3>3. recovered[cumulative[row] + i] \in
            RecoveredTokens(Tokens, drafts[cumulative[row] + i], p[cumulative[row] + i], p[cumulative[row] + i], TRUE)
      BY <1>4, <3>1
    <3>4. best[cumulative[row] + i] = Argmax(P(row, i))
      BY <3>1
    <3>5. chance[cumulative[row] + i] = P(row, i)[work.drafts[row][i + 1]]
      BY <3>1
    <3>6. certain[cumulative[row] + i] = Unit
      BY <3>1
    <3> QED BY <3>1, <3>2, <3>3, <3>4, <3>5, <3>6
  <2> HIDE DEF best, chance, certain
  <2> QED BY <2>1, <2>2, <2>3, <2>4
<1> HIDE DEF best, chance, certain
<1>9. ASSUME NEW row \in Rows, policy[row] = "greedy"
      PROVE  \E n \in 0 .. Len(work.drafts[row]) : Outcome(row, greedy[row], n, cache)
  <2> DEFINE count == Len(work.drafts[row])
             target == [i \in 0 .. (count - 1) |-> best[cumulative[row] + i]]
             accepts == [i \in 0 .. (count - 1) |-> drafts[cumulative[row] + i] = best[cumulative[row] + i]]
  <2>1. greedy[row] = VerifiedRow(Stride, count, accepts, target, target, bonus[row])
    <3>1. Counts[row] = count /\ cumulative[row + 1] - cumulative[row] = count
      BY <1>7, <1>8
    <3>2. mask[row] /\ row \in DOMAIN mask
      BY <1>9
    <3> DEFINE draft == Own(cumulative, row, drafts)
    <3>3. Own(cumulative, row, best) = target /\ draft = [i \in 0 .. (count - 1) |-> drafts[cumulative[row] + i]]
      BY <3>1 DEF Own
    <3>4. [i \in DOMAIN draft |-> draft[i] = target[i]] = accepts
      <4> HIDE DEF draft, count
      <4> QED BY <3>3
    <3>5. greedy[row] = VerifiedRow(Stride, cumulative[row + 1] - cumulative[row],
                         [i \in DOMAIN draft |-> draft[i] = Own(cumulative, row, best)[i]],
                         Own(cumulative, row, best), Own(cumulative, row, best), bonus[row])
      <4> HIDE DEF count, mask
      <4> QED BY <3>2 DEF RejectionGreedySample
    <3> HIDE DEF greedy, draft, target, accepts, count
    <3> QED BY <3>1, <3>3, <3>4, <3>5
  <2>2. ASSUME NEW i \in 0 .. (count - 1)
        PROVE  /\ accepts[i] => target[i] = work.drafts[row][i + 1]
               /\ target[i] \in Tokens /\ Streams!Emits(row, Predicts(row, i), target[i])
    <3>1. i \in 0 .. count /\ drafts[cumulative[row] + i] = work.drafts[row][i + 1]
          /\ best[cumulative[row] + i] = Argmax(P(row, i))
      BY <1>8
    <3>2. Argmax(P(row, i)) \in Tokens /\ Streams!Emits(row, Predicts(row, i), Argmax(P(row, i)))
      BY <1>1, <1>3, <1>9, <3>1, EmitsLaw
    <3> QED BY <3>1, <3>2
  <2>3. bonus[row] \in Tokens /\ Streams!Emits(row, Predicts(row, count), bonus[row])
    BY <1>8
  <2> HIDE DEF greedy, target, accepts
  <2>4. \E n \in 0 .. count :
          Outcome(row, VerifiedRow(Stride, count, accepts, target, target, bonus[row]), n, cache)
    BY <1>1, <1>3, <2>2, <2>3, VerifiedOutcome
  <2> QED BY <2>1, <2>4
<1>10. ASSUME NEW row \in Rows, policy[row] # "greedy"
       PROVE  \E n \in 0 .. Len(work.drafts[row]) : Outcome(row, random[row], n, cache)
  <2> DEFINE count == Len(work.drafts[row])  first == cumulative[row]
             draft == [i \in 0 .. (count - 1) |-> drafts[first + i]]
             accepts == [i \in 0 .. (count - 1) |->
                           certain[first + i] > 0 /\ chance[first + i] * Unit >= uniform[first + i] * certain[first + i]]
             instead == [i \in 0 .. (count - 1) |-> recovered[first + i]]
  <2>1. random[row] = VerifiedRow(Stride, count, accepts, draft, instead, bonus[row])
    <3>1. Counts[row] = count /\ cumulative[row + 1] - cumulative[row] = count
      BY <1>7, <1>8
    <3>2. ~mask[row] /\ row \in DOMAIN mask
      BY <1>10
    <3>3. Own(cumulative, row, drafts) = draft /\ Own(cumulative, row, recovered) = instead /\ DOMAIN draft = 0 .. (count - 1)
      BY <3>1 DEF Own
    <3>4. random[row] = VerifiedRow(Stride, cumulative[row + 1] - first,
               [i \in DOMAIN Own(cumulative, row, drafts) |->
                  certain[first + i] > 0 /\ chance[first + i] * Unit >= uniform[first + i] * certain[first + i]],
               Own(cumulative, row, drafts), Own(cumulative, row, recovered), bonus[row])
      <4> HIDE DEF count, mask
      <4> QED BY <3>2 DEF RejectionRandomSample
    <3> HIDE DEF random, draft, instead, count
    <3> QED BY <3>1, <3>3, <3>4
  <2>2. policy[row] = "random"
    BY <1>1, <1>3, <1>10, Policies
  <2>3. ASSUME NEW i \in 0 .. (count - 1)
        PROVE  /\ accepts[i] => /\ draft[i] = work.drafts[row][i + 1]
                                /\ Streams!Emits(row, Predicts(row, i), draft[i])
               /\ ~accepts[i] => instead[i] \in Tokens /\ Streams!Emits(row, Predicts(row, i), instead[i])
    <3> DEFINE d == work.drafts[row][i + 1]  q == P(row, i)  u == uniform[first + i]
    <3>1. /\ i \in 0 .. count /\ drafts[first + i] = d /\ d \in Tokens
          /\ chance[first + i] = q[d] /\ certain[first + i] = Unit /\ u \in 1 .. Unit
          /\ recovered[first + i] \in RecoveredTokens(Tokens, d, q, q, TRUE)
      BY <1>8
    <3>2. q \in [Tokens -> 0 .. Unit] /\ Sum(q, Tokens) = Unit
      BY <1>1, <1>3, <3>1, ContextLaw
    <3>3. \A t \in Tokens : q[t] > 0 => Streams!Emits(row, Predicts(row, i), t)
      BY <1>1, <1>3, <2>2, <3>1, EmitsLaw
    <3> HIDE DEF d, q, u, count
    <3>4. accepts[i] <=> Unit > 0 /\ q[d] * Unit >= u * Unit
      BY <3>1 DEF u
    <3>5. Unit > 0
      BY Numbers
    <3> HIDE DEF accepts
    <3>6. accepts[i] => q[d] > 0
      <4>1. q[d] \in 0 .. Unit
        BY <3>1, <3>2
      <4> QED BY <3>1, <3>4, <4>1, RandomTest
    <3>7. ~accepts[i] => recovered[first + i] \in Tokens /\ q[recovered[first + i]] > 0
      <4> SUFFICES ASSUME ~accepts[i] PROVE recovered[first + i] \in Tokens /\ q[recovered[first + i]] > 0
        OBVIOUS
      <4>1. ~(q[d] * Unit >= u * Unit)
        BY <3>4, <3>5
      <4> QED BY <3>1, <3>2, <4>1, RecoveredLaw
    <3>8. draft[i] = d /\ instead[i] = recovered[first + i]
      BY <3>1
    <3> HIDE DEF draft, instead
    <3> QED BY <3>1, <3>3, <3>6, <3>7, <3>8 DEF d
  <2>4. bonus[row] \in Tokens /\ Streams!Emits(row, Predicts(row, count), bonus[row])
    BY <1>8
  <2> HIDE DEF random, draft, accepts, instead
  <2>5. \E n \in 0 .. count :
          Outcome(row, VerifiedRow(Stride, count, accepts, draft, instead, bonus[row]), n, cache)
    BY <1>1, <1>3, <2>3, <2>4, VerifiedOutcome
  <2> QED BY <2>1, <2>5
<1>11. work' = [fed |-> work.fed, drafts |-> work.drafts, query |-> work.query,
                out |-> [row \in Rows |-> IF mask[row] THEN greedy[row] ELSE random[row]]]
  BY <1>4
<1> HIDE DEF greedy, random
<1>12. work'.fed = work.fed /\ work'.drafts = work.drafts /\ work'.query = work.query
       /\ work'.out = [row \in Rows |-> work'.out[row]]
       /\ \A row \in Rows : work'.out[row] = IF policy[row] = "greedy" THEN greedy[row] ELSE random[row]
  BY <1>11
<1>13. cache' = cache
  BY <1>2
<1>14. \A row \in Rows : \E n \in 0 .. Len(work.drafts[row]) : Outcome(row, work'.out[row], n, cache')
  BY <1>9, <1>10, <1>12, <1>13
<1>15. cache' = [slot \in DOMAIN cache' |-> cache'[slot]]
  BY <1>1, <1>13 DEF ITypes
<1> QED BY <1>1, <1>2, <1>3, <1>12, <1>13, <1>14, <1>15, SampledStep

\* The test of speculative_verify accepts no draft that has no probability.
LEMMA VerifyTest ==
  ASSUME NEW weight \in 0 .. Unit, NEW drafted \in 0 .. Unit, NEW uniform \in 1 .. Unit,
         VerifyAccepts(weight, drafted, uniform, Unit)
  PROVE  weight > 0
<1>1. Unit \in Nat \ {0}
  BY Numbers
<1>2. weight \in Nat /\ drafted \in Nat /\ uniform \in Nat /\ 1 <= uniform
  BY <1>1
<1>3. CASE ~(drafted > 0)
  BY <1>3 DEF VerifyAccepts
<1>4. CASE drafted > 0
  <2> SUFFICES ASSUME weight = 0 PROVE FALSE
    BY <1>2
  <2>1. uniform * drafted <= Smaller(Unit * drafted, weight * Unit)
    BY <1>4 DEF VerifyAccepts
  <2>2. weight * Unit = 0 /\ Unit * drafted \in Int /\ uniform * drafted \in Int
    BY <1>1, <1>2
  <2>3. Smaller(Unit * drafted, weight * Unit) <= 0
    <3> DEFINE a == Unit * drafted  b == weight * Unit
    <3>1. a \in Int /\ b = 0
      BY <2>2
    <3> HIDE DEF a, b
    <3>2. Smaller(a, b) <= 0
      BY <3>1 DEF Smaller
    <3> QED BY <3>2 DEF a, b
  <2>4. 1 * drafted <= uniform * drafted
    BY <1>2, ProductMonotone
  <2>5. 1 * drafted = drafted
    BY <1>2
  <2>6. Smaller(Unit * drafted, weight * Unit) \in Int
    BY <2>2 DEF Smaller
  <2> QED BY <1>2, <1>4, <2>1, <2>2, <2>3, <2>4, <2>5, <2>6
<1> QED BY <1>3, <1>4

\* What it samples in place of a draft is probable.
LEMMA InsteadLaw ==
  ASSUME NEW p \in [Tokens -> 0 .. Unit], NEW q \in [Tokens -> 0 .. Unit],
         NEW t \in VerifyInstead(Tokens, p, q)
  PROVE  t \in Tokens /\ p[t] > 0
<1>1. Unit \in Nat
  BY Numbers
<1>2. t \in Tokens /\ (p[t] > q[t] \/ p[t] > 0)
  BY DEF VerifyInstead
<1>3. p[t] \in 0 .. Unit /\ q[t] \in 0 .. Unit
  BY <1>2
<1>4. p[t] \in Nat /\ q[t] \in Nat
  BY <1>1, <1>3
<1> QED BY <1>2, <1>4

\* speculative_verify gives every row an outcome, whatever the draft model's distribution.
LEMMA SpeculativeVerifyStep == ASSUME IInv, SpeculativeVerify PROVE IInv'
<1>1. step = "fed" /\ kind = "verify" /\ step' = "sampled" /\ ITypes /\ IPlanned /\ InPass
  BY DEF SpeculativeVerify, IInv, InPass
<1>2. UNCHANGED <<streams, history, scores, lengths, computed, table, cache>>
  BY DEF SpeculativeVerify
<1>3. ~IsBeam /\ kind # "tree"
  BY <1>1 DEF IsBeam
<1>4. PICK out : /\ out \in [Rows -> UNION {VerifyOutcomes(row) : row \in Rows}]
                 /\ \A row \in Rows : out[row] \in VerifyOutcomes(row)
                 /\ work' = [fed |-> work.fed, drafts |-> work.drafts, query |-> work.query, out |-> out]
  BY DEF SpeculativeVerify, EachRow
<1>5. ASSUME NEW row \in Rows
      PROVE  \E n \in 0 .. Len(work.drafts[row]) : Outcome(row, out[row], n, cache)
  <2>1. PICK q \in Distributions :
          out[row] \in {VerifyOutcome(row, q, uniform, instead, bonus) :
            uniform \in [0 .. (MaxDraft - 1) -> 1 .. Unit],
            instead \in Rejected(row, q), bonus \in Bonuses(row)}
    BY <1>4 DEF VerifyOutcomes
  <2>10. PICK uniform \in [0 .. (MaxDraft - 1) -> 1 .. Unit],
             instead \in Rejected(row, q), bonus \in Bonuses(row) :
          out[row] = VerifyOutcome(row, q, uniform, instead, bonus)
    BY <2>1
  <2> DEFINE items == 0 .. (MaxDraft - 1)
             drafts == [i \in items |-> work.drafts[row][i + 1]]
             accepts == [i \in items |-> VerifyAccepts(P(row, i)[drafts[i]], q[drafts[i]], uniform[i], Unit)]
  <2>2. out[row] = VerifiedRow(Stride, MaxDraft, accepts, drafts, instead, bonus)
    BY <2>10, Zenon DEF VerifyOutcome
  <2>3. Len(work.drafts[row]) = MaxDraft /\ work.drafts[row] \in Seq(Tokens) /\ MaxDraft \in Nat
    BY <1>1, PassLengths, Numbers DEF IPlanned
  <2>4. bonus \in Tokens /\ Streams!Emits(row, Predicts(row, Len(work.drafts[row])), bonus)
    BY <1>1, <1>3, BonusLaw
  <2>5. q \in [Tokens -> 0 .. Unit]
    BY DEF Distributions
  <2>6. policy[row] = "random"
    BY <1>1, <1>3, Policies
  <2>7. ASSUME NEW i \in items
        PROVE  /\ accepts[i] => /\ drafts[i] = work.drafts[row][i + 1]
                                /\ Streams!Emits(row, Predicts(row, i), drafts[i])
               /\ ~accepts[i] => instead[i] \in Tokens /\ Streams!Emits(row, Predicts(row, i), instead[i])
    <3>1. i \in 0 .. Len(work.drafts[row]) /\ i + 1 \in 1 .. Len(work.drafts[row])
      BY <2>3
    <3>2. drafts[i] = work.drafts[row][i + 1] /\ drafts[i] \in Tokens
      <4>1. work.drafts[row][i + 1] \in Tokens
        BY <2>3, <3>1, ElementOfSeq
      <4> QED BY <4>1
    <3>3. P(row, i) \in [Tokens -> 0 .. Unit]
      BY <1>1, <3>1, <3>2, ContextLaw
    <3>4. \A t \in Tokens : P(row, i)[t] > 0 => Streams!Emits(row, Predicts(row, i), t)
      BY <1>1, <2>6, <3>1, <3>2, EmitsLaw
    <3>5. accepts[i] => P(row, i)[drafts[i]] > 0
      <4>1. uniform[i] \in 1 .. Unit /\ P(row, i)[drafts[i]] \in 0 .. Unit /\ q[drafts[i]] \in 0 .. Unit
        BY <2>5, <3>2, <3>3
      <4>2. accepts[i] => VerifyAccepts(P(row, i)[drafts[i]], q[drafts[i]], uniform[i], Unit)
        OBVIOUS
      <4> QED BY <4>1, <4>2, VerifyTest
    <3>6. instead[i] \in Tokens /\ P(row, i)[instead[i]] > 0
      <4>1. instead[i] \in VerifyInstead(Tokens, P(row, i), q)
        BY DEF Rejected
      <4> QED BY <2>5, <3>3, <4>1, InsteadLaw
    <3> HIDE DEF accepts
    <3> QED BY <3>2, <3>4, <3>5, <3>6
  <2> HIDE DEF accepts, drafts
  <2>8. \E n \in 0 .. Len(work.drafts[row]) :
          Outcome(row, VerifiedRow(Stride, Len(work.drafts[row]), accepts, drafts, instead, bonus), n, cache)
    BY <1>1, <1>3, <2>3, <2>4, <2>7, VerifiedOutcome
  <2>9. out[row] = VerifiedRow(Stride, Len(work.drafts[row]), accepts, drafts, instead, bonus)
    BY <2>2, <2>3 
  <2> QED BY <2>8, <2>9
<1>6. work'.fed = work.fed /\ work'.drafts = work.drafts /\ work'.query = work.query
       /\ work'.out = [row \in Rows |-> work'.out[row]] /\ \A row \in Rows : work'.out[row] = out[row]
  BY <1>4
<1>7. cache' = cache
  BY <1>2
<1>8. \A row \in Rows : \E n \in 0 .. Len(work.drafts[row]) : Outcome(row, work'.out[row], n, cache')
  BY <1>5, <1>6, <1>7
<1>9. cache' = [slot \in DOMAIN cache' |-> cache'[slot]]
  BY <1>1, <1>7 DEF ITypes
<1> QED BY <1>1, <1>2, <1>3, <1>6, <1>7, <1>8, <1>9, SampledStep

-----------------------------------------------------------------------------
(* The metadata of the next pass.                                          *)

\* The tokens of a row are counted, and the last of them is found.
LEMMA PresentLaw ==
  ASSUME NEW n \in 0 .. MaxDraft, NEW o, DOMAIN o = 0 .. MaxDraft,
         \A i \in 0 .. n : o[i] \in Tokens, \A i \in (n + 1) .. MaxDraft : o[i] = None
  PROVE  LET present == {i \in DOMAIN o : o[i] # None}
         IN /\ Cardinality(present) = n + 1
            /\ (CHOOSE i \in present : \A j \in present : j <= i) = n
<1>1. n \in Nat /\ MaxDraft \in Nat /\ n <= MaxDraft /\ None \notin Tokens
  BY Numbers DEF None
<1>2. {i \in DOMAIN o : o[i] # None} = 0 .. n
  <2>1. \A i \in 0 .. MaxDraft : i \in 0 .. n \/ i \in (n + 1) .. MaxDraft
    BY <1>1
  <2>2. \A i \in 0 .. n : i \in 0 .. MaxDraft /\ o[i] # None
    BY <1>1
  <2> QED BY <2>1, <2>2
<1>3. Cardinality(0 .. n) = n + 1
  <2>1. n + 1 \in Nat /\ (n + 1) - 1 = n
    BY <1>1
  <2>2. Cardinality(0 .. ((n + 1) - 1)) = n + 1
    BY <2>1, IntervalSize
  <2> QED BY <2>1, <2>2
<1>4. (CHOOSE i \in 0 .. n : \A j \in 0 .. n : j <= i) = n
  <2>1. n \in 0 .. n /\ \A j \in 0 .. n : j <= n
    BY <1>1
  <2>2. \A i \in 0 .. n : (\A j \in 0 .. n : j <= i) => i = n
    BY <1>1
  <2> QED BY <2>1, <2>2
<1> QED BY <1>2, <1>3, <1>4

\* Every row's tokens are counted, unless it is discarded, and its entry is the last of its
\* own that was accepted.
LEMMA PrepareNextTokensStep == ASSUME IInv, PrepareNextTokens PROVE IInv'
<1> DEFINE discard == [row \in Rows |-> Discarded(row)]
           backup == [row \in Rows |->
                        IF Discarded(row) THEN history[row][computed[row] + work.fed[row] + 1] ELSE 0]
           sizes == [row \in Rows |-> Len(work.query[row])]
           next == EaglePrepareNextTokenPadded(work.out, discard, backup)
           starts == Starts(sizes)
           valid == [row \in Rows |-> next[row].valid]
           inputs == EaglePrepareInputsPadded(Starts(Counts), valid, starts)
<1>1. step = "sampled" /\ ~IsBeam /\ step' = "prepared" /\ ITypes /\ IPlanned /\ InPass /\ IOut
  BY ZenonT(30) DEF PrepareNextTokens, IInv, InPass
<1>2. UNCHANGED <<streams, history, scores, lengths, computed, table, cache>>
  BY DEF PrepareNextTokens
<1>3. work' = [fed |-> work.fed, drafts |-> work.drafts, query |-> work.query, out |-> work.out,
               next |-> next, starts |-> starts, entry |-> [row \in Rows |-> inputs[row].index]]
  BY DEF PrepareNextTokens
<1>4. Rows = 0 .. (Count - 1) /\ Count \in Nat
      /\ sizes \in [0 .. (Count - 1) -> Nat] /\ Counts \in [0 .. (Count - 1) -> Nat]
  <2>1. Rows = 0 .. (Count - 1) /\ Count \in Nat
    BY <1>1, RowTypes
  <2>2. \A row \in Rows : Len(work.drafts[row]) \in Nat /\ Len(work.query[row]) \in Nat
    BY <1>1, PassLengths
  <2> QED BY <2>1, <2>2 DEF Counts
<1>5. \A row \in Rows : /\ starts[row] \in Nat /\ starts[row + 1] = starts[row] + sizes[row]
                        /\ Starts(Counts)[row + 1] - Starts(Counts)[row] = Counts[row]
  <2>1. Stacked(Starts(Counts), Counts, Count) /\ Stacked(starts, sizes, Count)
    <3> HIDE DEF sizes
    <3> QED BY <1>4, StartsLaw
  <2> HIDE DEF starts, sizes
  <2>2. ASSUME NEW row \in Rows
        PROVE  /\ starts[row] \in Nat /\ starts[row + 1] = starts[row] + sizes[row]
               /\ Starts(Counts)[row] \in Nat /\ Starts(Counts)[row + 1] = Starts(Counts)[row] + Counts[row]
               /\ Counts[row] \in Nat
    <3>1. row \in 0 .. Count /\ row \in 0 .. (Count - 1)
      BY <1>4
    <3> QED BY <1>4, <2>1, <3>1, SMTT(30) DEF Stacked
  <2> DEFINE s == Starts(Counts)  k == Counts
  <2>3. \A row \in Rows : s[row] \in Nat /\ s[row + 1] = s[row] + k[row] /\ k[row] \in Nat
    BY <2>2
  <2> HIDE DEF s, k
  <2>4. \A row \in Rows : s[row + 1] - s[row] = k[row]
    BY <2>3
  <2> QED BY <2>2, <2>4 DEF s, k
<1>6. ASSUME NEW row \in Rows, NEW n \in 0 .. Len(work.drafts[row]), Accepted(row, n)
      PROVE  /\ next[row].valid = IF Discarded(row) THEN 0 ELSE n + 1
             /\ next[row].next = IF Discarded(row) THEN history[row][computed[row] + work.fed[row] + 1]
                                 ELSE work.out[row][n]
             /\ inputs[row].index = starts[row] + work.fed[row] + n - 1
  <2> DEFINE o == work.out[row]  count == Len(work.drafts[row])
             present == {i \in DOMAIN o : o[i] # None}
  <2>1. count \in Nat /\ count <= MaxDraft /\ MaxDraft \in Nat /\ n \in 0 .. MaxDraft /\ n \in Nat /\ n <= count
        /\ work.fed[row] \in Nat /\ sizes[row] = work.fed[row] + count /\ Counts[row] = count
    BY <1>1, PassLengths, Numbers DEF Counts
  <2>2. o \in [0 .. MaxDraft -> Tokens \cup {None}] /\ DOMAIN work.out = Rows
    BY <1>1 DEF IOut
  <2>3. Cardinality(present) = n + 1 /\ (CHOOSE i \in present : \A j \in present : j <= i) = n
    <3> HIDE DEF o
    <3>1. DOMAIN o = 0 .. MaxDraft
      BY <2>2
    <3>2. (\A i \in 0 .. n : o[i] \in Tokens) /\ \A i \in (n + 1) .. MaxDraft : o[i] = None
      BY <1>6 DEF Accepted, o
    <3> QED BY <2>1, <3>1, <3>2, PresentLaw
  <2>4. next[row] = LET size == IF discard[row] THEN 0 ELSE Cardinality(present)
                    IN [valid |-> size,
                        next |-> IF size > 0 THEN o[CHOOSE i \in present : \A j \in present : j <= i]
                                 ELSE backup[row]]
    BY <2>2 DEF EaglePrepareNextTokenPadded
  <2>5. /\ discard[row] = Discarded(row)
        /\ Discarded(row) => backup[row] = history[row][computed[row] + work.fed[row] + 1]
    OBVIOUS
  <2> HIDE DEF next, o, present, discard, backup
  <2>6. n + 1 > 0
    BY <2>1
  <2> DEFINE size == IF discard[row] THEN 0 ELSE Cardinality(present)
             last == CHOOSE i \in present : \A j \in present : j <= i
  <2>14. next[row].valid = size /\ next[row].next = (IF size > 0 THEN o[last] ELSE backup[row])
    <3> HIDE DEF size, last
    <3> QED BY <2>4 DEF size, last
  <2>15. last = n /\ size = IF Discarded(row) THEN 0 ELSE n + 1
    BY <2>3, <2>5
  <2> HIDE DEF size, last
  <2>7. next[row].valid = IF Discarded(row) THEN 0 ELSE n + 1
    BY <2>14, <2>15
  <2>8. next[row].next = IF Discarded(row) THEN history[row][computed[row] + work.fed[row] + 1] ELSE o[n]
    <3>1. CASE Discarded(row)
      BY <2>5, <2>14, <2>15, <3>1
    <3>2. CASE ~Discarded(row)
      BY <2>6, <2>14, <2>15, <3>2
    <3> QED BY <3>1, <3>2
  <2>9. inputs[row].index = starts[row + 1] - 1 - (IF Counts[row] > 0 THEN Counts[row] + 1 - valid[row] ELSE 0)
    <3>1. row \in DOMAIN valid
      OBVIOUS
    <3>2. Starts(Counts)[row + 1] - Starts(Counts)[row] = Counts[row]
      BY <1>5
    <3> DEFINE d == Starts(Counts)[row + 1] - Starts(Counts)[row]
    <3>3. inputs[row].index = starts[row + 1] - 1 - (IF d > 0 THEN d + 1 - valid[row] ELSE 0)
      <4> HIDE DEF starts, valid
      <4> QED BY <3>1 DEF EaglePrepareInputsPadded
    <3> HIDE DEF inputs, starts, valid
    <3> QED BY <3>2, <3>3
  <2>10. valid[row] = next[row].valid
    OBVIOUS
  <2>11. starts[row] \in Nat /\ starts[row + 1] = starts[row] + sizes[row]
    BY <1>5
  <2>12. count > 0 => valid[row] = n + 1
    <3>1. count > 0 => ~Discarded(row)
      <4>1. count > 0 => work.drafts[row] # <<>>
        OBVIOUS
      <4>2. computed[row] + work.fed[row] = lengths[row] => ~Discarded(row)
        <5>1. computed[row] \in Nat /\ lengths[row] \in Nat
          BY <1>1, RowTypes
        <5> QED BY <2>1, <5>1 DEF Discarded
      <4> QED BY <1>1, <4>1, <4>2 DEF IPlanned
    <3> HIDE DEF valid, count
    <3> QED BY <2>7, <2>10, <3>1
  <2>13. inputs[row].index = starts[row] + work.fed[row] + n - 1
    <3> DEFINE a == starts[row]  f == work.fed[row]  b == starts[row + 1]  v == valid[row]
    <3> HIDE DEF valid, starts, inputs, sizes, count
    <3>1. a \in Nat /\ f \in Nat /\ n \in Nat /\ count \in Nat /\ n <= count /\ b = a + (f + count)
          /\ (count > 0 => v = n + 1)
          /\ inputs[row].index = b - 1 - (IF count > 0 THEN count + 1 - v ELSE 0)
      BY <2>1, <2>9, <2>11, <2>12
    <3> HIDE DEF a, b, f, v
    <3>4. inputs[row].index = a + f + n - 1
      <4>1. CASE count > 0
        BY <3>1, <4>1
      <4>2. CASE ~(count > 0)
        BY <3>1, <4>2
      <4> QED BY <4>1, <4>2
    <3> QED BY <3>4 DEF a, f
  <2> QED BY <2>7, <2>8, <2>13 DEF o
<1> HIDE DEF next, inputs, starts, sizes, valid, discard, backup
<1>7. /\ kind' = kind /\ model' = model /\ policy' = policy /\ history' = history
      /\ lengths' = lengths /\ computed' = computed /\ table' = table /\ cache' = cache
      /\ Rows' = Rows /\ IsBeam' = IsBeam
      /\ work'.fed = work.fed /\ work'.drafts = work.drafts /\ work'.query = work.query /\ work'.out = work.out
      /\ work'.next = next /\ work'.starts = starts
      /\ \A row \in Rows : work'.entry[row] = inputs[row].index
  BY <1>2, <1>3 DEF streams, Rows, IsBeam
<1>8. UNCHANGED data
  BY <1>2 DEF data
<1>9. ITypes' /\ ILengths' /\ IBlocks' /\ CacheHoldsHistory'
  BY <1>8, DataUnchanged
<1>10. IPlanned'
  BY <1>1, <1>7 DEF IPlanned, InPass
<1>11. ISteps' /\ IFed' /\ IChosen' /\ IDrafts'
  BY <1>1, <1>7 DEF ISteps, IFed, IChosen, IDrafts
<1>12. ASSUME NEW row \in Rows
       PROVE  \E n \in 0 .. Len(work.drafts[row]) : Accepted(row, n)' /\ Prepared(row, n)'
  <2>1. PICK n \in 0 .. Len(work.drafts[row]) : Accepted(row, n)
    BY <1>1 DEF IOut
  <2>2. Accepted(row, n)'
    BY <1>7, <2>1, ZenonT(100) DEF Accepted, Taken, Reached, Holds, Lacks, Discarded, Streams!Emits, Streams!Best
  <2>3. Discarded(row)' = Discarded(row)
    BY <1>7 DEF Discarded
  <2>4. sizes[row] = Len(work.query[row]) /\ starts[row] \in Nat /\ starts[row + 1] = starts[row] + sizes[row]
    BY <1>5 DEF sizes
  <2>5. Prepared(row, n)'
    BY <1>6, <1>7, <2>1, <2>3, <2>4 DEF Prepared
  <2> QED BY <2>2, <2>5
<1>13. IOut'
  BY <1>1, <1>7, <1>12 DEF IOut
<1> QED BY <1>9, <1>10, <1>11, <1>13, SMTT(30) DEF IInv

\* The rows of speculative_compact: each begins where the one before it ends, with a token
\* more than it has accepted drafts.
LEMMA CompactStarts ==
  ASSUME NEW N \in Nat, NEW accepted \in [0 .. (N - 1) -> Nat]
  PROVE  Stacked(CHOOSE f : f = [row \in 0 .. N |-> IF row = 0 THEN 0 ELSE f[row - 1] + accepted[row - 1] + 1],
                 [row \in 0 .. (N - 1) |-> accepted[row] + 1], N)
<1> DEFINE Is(f) == f = [row \in 0 .. N |-> IF row = 0 THEN 0 ELSE f[row - 1] + accepted[row - 1] + 1]
           count == [row \in 0 .. (N - 1) |-> accepted[row] + 1]
           start == CHOOSE f : Is(f)
<1>1. count \in [0 .. (N - 1) -> Nat] /\ \A r \in 0 .. (N - 1) : count[r] = accepted[r] + 1 /\ accepted[r] \in Nat
  OBVIOUS
<1> HIDE DEF count
<1>2. \E f : Is(f)
  <2> DEFINE s == Starts(count)
  <2>1. Stacked(s, count, N)
    BY <1>1, StartsLaw
  <2> HIDE DEF s
  <2>2. ASSUME NEW r \in 0 .. N PROVE s[r] = IF r = 0 THEN 0 ELSE s[r - 1] + accepted[r - 1] + 1
    <3>1. CASE r = 0
      BY <2>1, <3>1 DEF Stacked
    <3>2. CASE r # 0
      <4>1. r - 1 \in 0 .. (N - 1) /\ (r - 1) + 1 = r /\ r - 1 \in 0 .. N
        BY <3>2
      <4>2. s[(r - 1) + 1] = s[r - 1] + count[r - 1] /\ s[r - 1] \in Nat
        BY <2>1, <4>1 DEF Stacked
      <4>3. count[r - 1] = accepted[r - 1] + 1 /\ accepted[r - 1] \in Nat
        BY <1>1, <4>1
      <4>4. s[r] = s[r - 1] + count[r - 1] /\ s[r - 1] \in Nat
        BY <4>1, <4>2
      <4>5. s[r] = s[r - 1] + accepted[r - 1] + 1
        BY ONLY <4>3, <4>4
      <4> QED BY <3>2, <4>5
    <3> QED BY <3>1, <3>2
  <2>3. s = [r \in 0 .. N |-> s[r]]
    BY <2>1 DEF Stacked
  <2>4. Is(s)
    BY <2>2, <2>3
  <2> HIDE DEF Is
  <2> QED BY <2>4
<1>3. Is(start)
  <2> HIDE DEF Is
  <2> QED BY <1>2
<1> DEFINE T == {r \in Nat : start[r] \in Nat}
<1>4. start[0] = 0
  <2> HIDE DEF start
  <2> QED BY <1>3
<1>5. ASSUME NEW r \in 0 .. (N - 1) PROVE start[r + 1] = start[r] + accepted[r] + 1
  <2>1. r + 1 \in 0 .. N /\ r + 1 # 0 /\ (r + 1) - 1 = r
    OBVIOUS
  <2> HIDE DEF start
  <2>2. start[r + 1] = start[(r + 1) - 1] + accepted[(r + 1) - 1] + 1
    BY <1>3, <2>1
  <2> QED BY <2>1, <2>2
<1> HIDE DEF start
<1>6. \A r \in 0 .. (N - 1) : r \in T => r + 1 \in T
  <2> SUFFICES ASSUME NEW r \in 0 .. (N - 1), r \in T PROVE r + 1 \in T
    OBVIOUS
  <2>1. start[r] \in Nat /\ accepted[r] \in Nat /\ r + 1 \in Nat
    BY <1>1
  <2> QED BY <1>5, <2>1
<1>7. (0 .. N) \subseteq T
  <2> HIDE DEF T
  <2>1. 0 \in T
    BY <1>4 DEF T
  <2> QED BY <1>6, <2>1, Induction
<1>8. \A r \in 0 .. (N - 1) : start[r + 1] = start[r] + count[r]
  <2> SUFFICES ASSUME NEW r \in 0 .. (N - 1) PROVE start[r + 1] = start[r] + count[r]
    OBVIOUS
  <2>1. r \in 0 .. N
    OBVIOUS
  <2>2. start[r] \in Nat
    BY <1>7, <2>1
  <2> QED BY <1>1, <1>5, <2>2
<1>9. start = [r \in 0 .. N |-> start[r]]
  BY <1>3
<1>10. start \in [0 .. N -> Nat]
  BY <1>7, <1>9
<1>11. Stacked(start, count, N)
  BY <1>4, <1>8, <1>10 DEF Stacked
<1> QED BY <1>11 DEF start, count

\* They end before as many places as there are for all rows.
LEMMA StackedBound ==
  ASSUME NEW N \in Nat, NEW count \in [0 .. (N - 1) -> Nat], NEW start, Stacked(start, count, N),
         NEW most \in Nat, \A r \in 0 .. (N - 1) : count[r] <= most
  PROVE  start[N] <= N * most
<1> DEFINE T == {r \in Nat : start[r] <= r * most}
<1>1. start \in [0 .. N -> Nat] /\ start[0] = 0
      /\ \A r \in 0 .. (N - 1) : start[r + 1] = start[r] + count[r] /\ start[r] \in Nat /\ count[r] \in Nat
  <2>1. \A r \in 0 .. (N - 1) : r \in 0 .. N
    OBVIOUS
  <2> QED BY <2>1 DEF Stacked
<1>2. 0 \in T
  BY <1>1
<1>3. \A r \in 0 .. (N - 1) : r \in T => r + 1 \in T
  <2> SUFFICES ASSUME NEW r \in 0 .. (N - 1), r \in T PROVE r + 1 \in T
    OBVIOUS
  <2>1. start[r + 1] = start[r] + count[r] /\ start[r] \in Nat /\ count[r] \in Nat /\ count[r] <= most
        /\ r \in Nat /\ start[r] <= r * most
    BY <1>1
  <2>2. (r + 1) * most = r * most + most /\ r * most \in Nat
    BY <2>1
  <2>3. start[r + 1] <= (r + 1) * most /\ r + 1 \in Nat
    BY <2>1, <2>2
  <2> QED BY <2>3
<1>4. (0 .. N) \subseteq T
  <2> HIDE DEF T
  <2> QED BY <1>2, <1>3, Induction
<1>5. N \in 0 .. N
  OBVIOUS
<1> QED BY <1>4, <1>5

\* A row's tokens and their positions, from the place where the row begins.
Packs(packed, k, n, o, length) ==
  \E first \in Nat :
    /\ packed.cumulative[k] = first /\ packed.cumulative[k + 1] = first + n + 1
    /\ \A j \in 0 .. n : packed.tokens[first + j] = o[j] /\ packed.positions[first + j] = length + j

\* What speculative_compact packs for a row.
LEMMA CompactLaw ==
  ASSUME NEW N \in Nat, NEW accepted \in [0 .. (N - 1) -> Nat], NEW stride \in Nat,
         \A r \in 0 .. (N - 1) : accepted[r] < stride,
         NEW out, NEW lens, NEW k \in 0 .. (N - 1), lens[k] \in Nat
  PROVE  Packs(SpeculativeCompact(out, accepted, lens, stride), k, accepted[k], out[k], lens[k])
<1> DEFINE start == CHOOSE f : f = [row \in 0 .. N |-> IF row = 0 THEN 0 ELSE f[row - 1] + accepted[row - 1] + 1]
           count == [row \in 0 .. (N - 1) |-> accepted[row] + 1]
           RowOf(i) == CHOOSE row \in 0 .. (N - 1) : start[row] <= i /\ i < start[row + 1]
           packed == SpeculativeCompact(out, accepted, lens, stride)
           tokens == [i \in 0 .. (N * stride - 1) |-> IF i < start[N] THEN out[RowOf(i)][i - start[RowOf(i)]] ELSE None]
           positions == [i \in 0 .. (N * stride - 1) |-> IF i < start[N] THEN lens[RowOf(i)] + i - start[RowOf(i)] ELSE None]
<1>1. Cardinality(DOMAIN accepted) = N /\ DOMAIN accepted = 0 .. (N - 1)
  BY IntervalSize
<1> DEFINE Form(batch, rows) ==
             LET first == CHOOSE f : f = [row \in 0 .. batch |-> IF row = 0 THEN 0 ELSE f[row - 1] + accepted[row - 1] + 1]
                 Of(i) == CHOOSE row \in rows : first[row] <= i /\ i < first[row + 1]
             IN [tokens |-> [i \in 0 .. (batch * stride - 1) |->
                               IF i < first[batch] THEN out[Of(i)][i - first[Of(i)]] ELSE None],
                 positions |-> [i \in 0 .. (batch * stride - 1) |->
                                  IF i < first[batch] THEN lens[Of(i)] + i - first[Of(i)] ELSE None],
                 cumulative |-> first]
<1>12. packed = Form(Cardinality(DOMAIN accepted), DOMAIN accepted)
  BY Zenon DEF SpeculativeCompact
<1>13. Form(N, 0 .. (N - 1)) = [tokens |-> tokens, positions |-> positions, cumulative |-> start]
  BY Zenon
<1> HIDE DEF Form
<1>2. packed = [tokens |-> tokens, positions |-> positions, cumulative |-> start]
  BY <1>1, <1>12, <1>13
<1>3. Stacked(start, count, N)
  BY CompactStarts
<1>4. count \in [0 .. (N - 1) -> Nat] /\ (\A r \in 0 .. (N - 1) : count[r] <= stride) /\ count[k] = accepted[k] + 1
      /\ accepted[k] \in Nat
  OBVIOUS
<1> HIDE DEF start, count
<1>5. start[N] <= N * stride
  BY <1>3, <1>4, StackedBound
<1>6. /\ \A i \in Int : start[k] <= i /\ i < start[k + 1] => RowOf(i) = k /\ i \in 0 .. (start[N] - 1)
      /\ start \in [0 .. N -> Nat] /\ start[k + 1] = start[k] + count[k]
  BY <1>3, <1>4, StackedRows, ZenonT(100)
<1>7. start[k] \in Nat /\ start[N] \in Nat /\ N * stride \in Nat
  <2>1. k \in 0 .. N /\ N \in 0 .. N
    OBVIOUS
  <2> QED BY <1>6, <2>1
<1>8. ASSUME NEW j \in 0 .. accepted[k]
      PROVE  tokens[start[k] + j] = out[k][j] /\ positions[start[k] + j] = lens[k] + j
  <2> DEFINE i == start[k] + j
  <2>1. i \in Int /\ start[k] <= i /\ i < start[k + 1] /\ i - start[k] = j
    <3>1. j \in Nat /\ j <= accepted[k]
      BY <1>4
    <3>2. start[k + 1] = start[k] + count[k]
      BY <1>6
    <3> QED BY ONLY <1>4, <1>7, <3>1, <3>2, SMTT(30)
  <2>2. RowOf(i) = k /\ i \in 0 .. (start[N] - 1)
    BY <1>6, <2>1
  <2>3. i \in 0 .. (N * stride - 1) /\ i < start[N]
    BY <1>5, <1>7, <2>2, SMTT(30)
  <2> HIDE DEF i, RowOf
  <2>4. tokens[i] = out[k][i - start[k]] /\ positions[i] = lens[k] + i - start[k]
    BY <2>2, <2>3
  <2>5. lens[k] + i - start[k] = lens[k] + j
    BY <1>7, <2>1 DEF i
  <2> QED BY <2>1, <2>4, <2>5 DEF i
<1> HIDE DEF tokens, positions
<1>9. start[k + 1] = start[k] + accepted[k] + 1
  BY <1>4, <1>6, <1>7
<1>10. packed.tokens = tokens /\ packed.positions = positions /\ packed.cumulative = start
  BY <1>2
<1> HIDE DEF packed
<1>11. /\ packed.cumulative[k] = start[k] /\ packed.cumulative[k + 1] = start[k] + accepted[k] + 1
       /\ \A j \in 0 .. accepted[k] :
            packed.tokens[start[k] + j] = out[k][j] /\ packed.positions[start[k] + j] = lens[k] + j
  BY <1>8, <1>9, <1>10
<1>14. Packs(packed, k, accepted[k], out[k], lens[k])
  BY <1>7, <1>11 DEF Packs
<1> QED BY <1>14 DEF packed

\* The rows that are compacted, by their places.
LEMMA LiveLaw ==
  ASSUME ITypes
  PROVE  /\ Len(Live) \in Nat
         /\ \A i \in 0 .. (Len(Live) - 1) : Live[i + 1] \in Rows /\ ~Discarded(Live[i + 1])
         /\ \A row \in Rows : ~Discarded(row) =>
              LiveIndex(row) \in 0 .. (Len(Live) - 1) /\ Live[LiveIndex(row) + 1] = row
<1> DEFINE S == {row \in Rows : ~Discarded(row)}  n == Cardinality(S)
<1>1. S \in SUBSET Int /\ IsFiniteSet(S)
  <2>1. Rows = 0 .. (Count - 1) /\ Count \in Nat
    BY RowTypes
  <2>2. IsFiniteSet(Rows)
    BY <2>1, IntervalSize
  <2> QED BY <2>1, <2>2, FS_Subset
<1> HIDE DEF S
<1>2. /\ n \in Nat /\ InOrder(S, <) \in [1 .. n -> S]
      /\ \A x \in S : \E i \in 1 .. n : InOrder(S, <)[i] = x
  BY <1>1, NumbersInOrder DEF InOrder
<1>3. Live = InOrder(S, <)
  BY DEF Live, S, InOrder
<1>4. Live \in [1 .. n -> S] /\ \A x \in S : \E i \in 1 .. n : Live[i] = x
  BY <1>2, <1>3 DEF InOrder
<1>8. n \in Nat
  BY <1>1, NumbersInOrder
<1> HIDE DEF n
<1>5. Len(Live) = n /\ DOMAIN Live = 1 .. n
  BY <1>4, <1>8, FunctionSeq
<1>6. \A i \in 0 .. (n - 1) : Live[i + 1] \in Rows /\ ~Discarded(Live[i + 1])
  <2> SUFFICES ASSUME NEW i \in 0 .. (n - 1) PROVE Live[i + 1] \in Rows /\ ~Discarded(Live[i + 1])
    OBVIOUS
  <2>1. i + 1 \in 1 .. n
    BY <1>8
  <2>2. Live[i + 1] \in S
    <3>1. \A f, m, T : f \in [1 .. m -> T] => \A j \in 1 .. m : f[j] \in T
      OBVIOUS
    <3> QED BY <1>4, <2>1, <3>1
  <2> QED BY <2>2 DEF S
<1>7. \A row \in Rows : ~Discarded(row) => LiveIndex(row) \in 0 .. (n - 1) /\ Live[LiveIndex(row) + 1] = row
  <2> SUFFICES ASSUME NEW row \in Rows, ~Discarded(row)
               PROVE  LiveIndex(row) \in 0 .. (n - 1) /\ Live[LiveIndex(row) + 1] = row
    OBVIOUS
  <2> DEFINE i == CHOOSE j \in DOMAIN Live : Live[j] = row
  <2>1. row \in S
    BY DEF S
  <2>2. i \in 1 .. n /\ Live[i] = row
    <3>1. \E j \in DOMAIN Live : Live[j] = row
      BY <1>4, <1>5, <2>1
    <3> QED BY ONLY <1>5, <3>1
  <2>3. LiveIndex(row) = i - 1
    BY DEF LiveIndex
  <2> HIDE DEF i
  <2>4. i - 1 \in 0 .. (n - 1) /\ (i - 1) + 1 = i
    BY <1>8, <2>2
  <2> QED BY <2>2, <2>3, <2>4
<1> QED BY <1>5, <1>6, <1>7, <1>8

\* The first tokens of a row's output.
Added(o, n) == [j \in 1 .. n |-> o[j - 1]]

\* The engine appends to a row what was packed for it.
LEMMA AppendedLaw ==
  ASSUME NEW row, NEW packed, NEW n \in Nat, NEW o,
         history[row] \in Seq(Tokens), Len(history[row]) + n + 1 <= MaxLength + Stride,
         Packs(packed, LiveIndex(row), n, o, Len(history[row])),
         \A j \in 0 .. n : o[j] \in Tokens
  PROVE  /\ Added(o, n + 1) \in Seq(Tokens) /\ Len(Added(o, n + 1)) = n + 1
         /\ Appended(row, packed) = history[row] \o Added(o, n + 1)
<1>13. PICK first \in Nat :
         /\ packed.cumulative[LiveIndex(row)] = first /\ packed.cumulative[LiveIndex(row) + 1] = first + n + 1
         /\ \A j \in 0 .. n : packed.tokens[first + j] = o[j] /\ packed.positions[first + j] = Len(history[row]) + j
  BY DEF Packs
<1> DEFINE h == history[row]  L == Len(h)
           mine == packed.cumulative[LiveIndex(row)] .. (packed.cumulative[LiveIndex(row) + 1] - 1)
           At(position) == {i \in mine : packed.positions[i] = position}
           end == CHOOSE m \in 0 .. MaxLength + Stride :
                    \A i \in mine : packed.positions[i] < m /\ \E j \in mine : packed.positions[j] + 1 >= m
           value(m) == IF At(m - 1) = {} THEN (IF m <= Len(history[row]) THEN history[row][m] ELSE None)
                       ELSE packed.tokens[CHOOSE i \in At(m - 1) : TRUE]
           added == Added(o, n + 1)
           e == L + n + 1
<1>1. Appended(row, packed) = [m \in 1 .. end |-> value(m)]
  BY DEF Appended
<1>2. L \in Nat /\ e \in Nat /\ MaxLength + Stride \in Nat
  BY LenProperties, Numbers DEF Stride
<1>3. mine = first .. (first + n)
  <2>1. (first + n + 1) - 1 = first + n
    OBVIOUS
  <2> QED BY <1>13, <2>1
<1> HIDE DEF mine
<1>4. \A i \in mine : /\ i - first \in 0 .. n /\ packed.positions[i] = L + (i - first) /\ packed.tokens[i] = o[i - first]
                      /\ i \in Nat
  <2> SUFFICES ASSUME NEW i \in mine
               PROVE  /\ i - first \in 0 .. n /\ packed.positions[i] = L + (i - first)
                      /\ packed.tokens[i] = o[i - first] /\ i \in Nat
    OBVIOUS
  <2>1. i \in Nat /\ i - first \in 0 .. n /\ first + (i - first) = i
    BY <1>3
  <2> QED BY <1>13, <2>1
<1>5. first \in mine /\ first + n \in mine
  BY <1>3
<1>12. packed.positions[first + n] = L + n
  <2>1. n \in 0 .. n
    OBVIOUS
  <2> QED BY <1>13, <2>1
<1>6. end = e
  <2> DEFINE Good(m) == \A i \in mine : packed.positions[i] < m /\ \E j \in mine : packed.positions[j] + 1 >= m
  <2>1. e \in 0 .. MaxLength + Stride
    BY <1>2
  <2>2. Good(e)
    <3> SUFFICES ASSUME NEW i \in mine
                 PROVE  packed.positions[i] < e /\ \E j \in mine : packed.positions[j] + 1 >= e
      OBVIOUS
    <3>1. packed.positions[i] < e
      BY <1>2, <1>4
    <3>2. packed.positions[first + n] = L + n
      BY <1>12
    <3>3. packed.positions[first + n] + 1 >= e
      BY <1>2, <3>2
    <3> QED BY <1>5, <3>1, <3>3
  <2>3. ASSUME NEW m \in 0 .. MaxLength + Stride, Good(m) PROVE m = e
    <3>1. packed.positions[first + n] < m /\ packed.positions[first + n] = L + n
      BY <1>5, <1>12, <2>3
    <3>2. PICK j \in mine : packed.positions[j] + 1 >= m
      BY <1>5, <2>3
    <3>3. packed.positions[j] = L + (j - first) /\ j - first \in 0 .. n /\ m \in Nat
      BY <1>2, <1>4
    <3>4. \A x, y \in Nat : y \in 0 .. n /\ L + n < x /\ (L + y) + 1 >= x => x = L + n + 1
      BY <1>2
    <3>5. L + n < m /\ (L + (j - first)) + 1 >= m
      BY <3>1, <3>2, <3>3
    <3>6. j - first \in Nat
      BY <3>3
    <3> QED BY ONLY <3>3, <3>4, <3>5, <3>6
  <2>4. end = CHOOSE m \in 0 .. MaxLength + Stride : Good(m)
    OBVIOUS
  <2> HIDE DEF Good, e, end
  <2> QED BY <2>1, <2>2, <2>3, <2>4
<1>7. added \in Seq(Tokens) /\ Len(added) = n + 1
  <2>1. \A j \in 1 .. (n + 1) : j - 1 \in 0 .. n
    OBVIOUS
  <2>2. added \in [1 .. (n + 1) -> Tokens]
    BY <2>1 DEF Added
  <2>3. n + 1 \in Nat
    OBVIOUS
  <2> HIDE DEF added
  <2> QED BY <2>2, <2>3, FunctionSeq
<1>8. /\ h \o added \in Seq(Tokens) /\ Len(h \o added) = e
      /\ \A m \in 1 .. e : (h \o added)[m] = IF m <= L THEN h[m] ELSE added[m - L]
  <2> DEFINE a == added  g == h
  <2>1. g \in Seq(Tokens) /\ a \in Seq(Tokens) /\ Len(a) = n + 1 /\ Len(g) = L
    BY <1>7
  <2> HIDE DEF a, g, L
  <2>2. /\ g \o a \in Seq(Tokens) /\ Len(g \o a) = Len(g) + Len(a)
        /\ \A i \in 1 .. Len(g) + Len(a) : (g \o a)[i] = IF i <= Len(g) THEN g[i] ELSE a[i - Len(g)]
    BY ONLY <2>1, ConcatProperties
  <2>3. Len(g) + Len(a) = e
    BY <1>2, <2>1
  <2> QED BY <2>1, <2>2, <2>3 DEF a, g
<1>9. ASSUME NEW m \in 1 .. e PROVE value(m) = (h \o added)[m]
  <2>1. m \in Nat /\ m >= 1 /\ m <= e
    BY <1>2
  <2>2. CASE m <= L
    <3>1. At(m - 1) = {}
      <4> SUFFICES ASSUME NEW i \in mine, packed.positions[i] = m - 1 PROVE FALSE
        OBVIOUS
      <4>5. packed.positions[i] = m - 1
        OBVIOUS
      <4>1. i - first \in 0 .. n /\ packed.positions[i] = L + (i - first)
        BY <1>4
      <4>2. i - first \in Nat
        BY <4>1
      <4>3. \A x, y \in Nat : x <= L => ~(L + y = x - 1)
        BY <1>2
      <4> QED BY ONLY <2>1, <2>2, <4>1, <4>2, <4>3, <4>5
    <3> HIDE DEF At, added
    <3> QED BY <1>8, <2>2, <3>1
  <2>3. CASE ~(m <= L)
    <3> DEFINE j == m - 1 - L
    <3>1. j \in 0 .. n /\ j = (m - L) - 1 /\ m - L \in 1 .. (n + 1) /\ m - 1 = L + j
      BY <1>2, <2>1, <2>3
    <3>2. At(m - 1) = {first + j}
      <4>1. first + j \in mine /\ packed.positions[first + j] = m - 1
        <5>1. first + j \in first .. (first + n)
          <6>1. j \in 0 .. n
            BY <3>1
          <6> HIDE DEF j
          <6> QED BY <6>1
        <5> QED BY <1>3, <1>13, <3>1, <5>1
      <4>2. ASSUME NEW i \in mine, packed.positions[i] = m - 1 PROVE i = first + j
        <5>1. i \in Nat /\ packed.positions[i] = L + (i - first)
          BY <1>4
        <5> HIDE DEF j
        <5>2. L + (i - first) = L + j
          BY <3>1, <4>2, <5>1
        <5>3. j \in Int
          BY <3>1
        <5> QED BY ONLY <1>2, <5>1, <5>2, <5>3, first \in Nat
      <4> HIDE DEF j
      <4> QED BY <4>1, <4>2
    <3>3. added[m - L] = o[j]
      BY <3>1 DEF Added
    <3>4. packed.tokens[first + j] = o[j]
      BY <1>13, <3>1
    <3>5. (CHOOSE i \in At(m - 1) : TRUE) = first + j
      <4> HIDE DEF At, j
      <4> QED BY <3>2
    <3> HIDE DEF At, added, j
    <3>6. value(m) = packed.tokens[first + j]
      BY <3>2, <3>5
    <3> QED BY <1>8, <2>3, <3>3, <3>4, <3>6
  <2> QED BY <2>2, <2>3
<1> HIDE DEF value, added, end, e
<1>10. Appended(row, packed) = [m \in 1 .. e |-> (h \o added)[m]]
  BY <1>1, <1>6, <1>9
<1>11. h \o added = [m \in 1 .. Len(h \o added) |-> (h \o added)[m]]
  <2> DEFINE t == h \o added
  <2>1. t \in Seq(Tokens)
    BY <1>8
  <2> HIDE DEF t
  <2> QED BY <2>1, SeqDef, SMTT(30) DEF t
<1> QED BY <1>7, <1>8, <1>10, <1>11 DEF added

\* What a row that has sampled goes on with.
LEMMA CommitRow ==
  ASSUME IInv, Commit, NEW row \in Rows, ~Discarded(row),
         NEW n \in 0 .. Len(work.drafts[row]), Accepted(row, n), Prepared(row, n)
  PROVE  LET added == Added(work.out[row], n + 1)
         IN /\ added \in Seq(Tokens) /\ Len(added) = n + 1
            /\ history'[row] = history[row] \o added
            /\ lengths'[row] = lengths[row] + n + 1
            /\ computed'[row] = lengths[row] + n
<1> DEFINE N == Len(Live)  k == LiveIndex(row)
           less == [r \in Rows |-> work.next[r].valid - 1]
           accepted == OfLive(less)
           packed == SpeculativeCompact(OfLive(work.out), accepted, OfLive(lengths), Stride)
           updated == SpeculativeUpdateKvMeta(OfLive(lengths), accepted)
           added == Added(work.out[row], n + 1)
<1>1. step = "prepared" /\ ~IsBeam /\ ITypes /\ IPlanned /\ InPass /\ IOut
  BY DEF Commit, IInv, InPass, ISteps
<1>2. /\ history' = [r \in Rows |-> IF Discarded(r) THEN history[r] ELSE Appended(r, packed)]
      /\ lengths' = [r \in Rows |-> IF Discarded(r) THEN lengths[r] ELSE updated[LiveIndex(r)]]
      /\ computed' = [r \in Rows |-> IF Discarded(r) THEN computed[r] + work.fed[r]
                                                         ELSE updated[LiveIndex(r)] - 1]
  BY DEF Commit
<1>3. /\ N \in Nat /\ k \in 0 .. (N - 1) /\ Live[k + 1] = row
      /\ \A i \in 0 .. (N - 1) : Live[i + 1] \in Rows /\ ~Discarded(Live[i + 1])
  BY <1>1, LiveLaw
<1>4. \A a : OfLive(a) = [i \in 0 .. (N - 1) |-> a[Live[i + 1]]]
  BY DEF OfLive
<1>5. accepted \in [0 .. (N - 1) -> Nat] /\ \A i \in 0 .. (N - 1) : accepted[i] < Stride
  <2>1. ASSUME NEW i \in 0 .. (N - 1) PROVE less[Live[i + 1]] \in Nat /\ less[Live[i + 1]] < Stride
    <3> DEFINE r == Live[i + 1]
    <3>1. r \in Rows /\ ~Discarded(r)
      BY <1>3
    <3> HIDE DEF r
    <3>2. PICK m \in 0 .. Len(work.drafts[r]) : Prepared(r, m)
      BY <1>1, <3>1 DEF IOut
    <3>3. work.next[r].valid = m + 1
      BY <3>1, <3>2 DEF Prepared
    <3>4. m \in Nat /\ m <= MaxDraft /\ MaxDraft \in Nat
      <4> DEFINE d == Len(work.drafts[r])
      <4>1. d \in Nat /\ d <= MaxDraft /\ MaxDraft \in Nat /\ m \in 0 .. d
        BY <1>1, <3>1, PassLengths, Numbers
      <4> HIDE DEF d
      <4> QED BY ONLY <4>1
    <3>5. less[r] = m
      BY <3>1, <3>3, <3>4
    <3> QED BY <3>4, <3>5 DEF r, Stride
  <2> HIDE DEF less, N
  <2>2. accepted = [i \in 0 .. (N - 1) |-> less[Live[i + 1]]]
    BY <1>4
  <2> HIDE DEF accepted
  <2> QED BY <2>1, <2>2
<1>6. n \in Nat /\ n <= MaxDraft /\ n <= Len(work.drafts[row]) /\ MaxDraft \in Nat /\ Len(work.drafts[row]) \in Nat
      /\ history[row] \in Seq(Tokens) /\ lengths[row] = Len(history[row]) /\ lengths[row] \in Nat
      /\ lengths[row] + Len(work.drafts[row]) < MaxLength /\ MaxLength \in Nat /\ Stride = MaxDraft + 1
  <2> DEFINE d == Len(work.drafts[row])
  <2>1. d \in Nat /\ d <= MaxDraft /\ MaxDraft \in Nat /\ n \in 0 .. d
    BY <1>1, PassLengths, Numbers
  <2>2. history[row] \in Seq(Tokens) /\ lengths[row] = Len(history[row]) /\ lengths[row] \in Nat
    BY <1>1, RowTypes
  <2>3. lengths[row] + d < MaxLength /\ MaxLength \in Nat /\ Stride = MaxDraft + 1
    BY <1>1, PassLengths, Numbers DEF Stride
  <2> HIDE DEF d
  <2>4. n \in Nat /\ n <= MaxDraft /\ n <= d
    BY ONLY <2>1
  <2> QED BY <2>1, <2>2, <2>3, <2>4 DEF d
<1>7. accepted[k] = n
  <2>1. accepted[k] = less[Live[k + 1]]
    <3> HIDE DEF less, k
    <3> QED BY <1>3, <1>4
  <2>2. work.next[row].valid = n + 1
    BY DEF Prepared
  <2>3. less[row] = n
    BY <1>6, <2>2
  <2> HIDE DEF less, accepted
  <2> QED BY <1>3, <2>1, <2>3
<1>8. OfLive(work.out)[k] = work.out[row] /\ OfLive(lengths)[k] = lengths[row] /\ DOMAIN OfLive(lengths) = 0 .. (N - 1)
  <2> HIDE DEF k, N
  <2> QED BY <1>3, <1>4
<1> HIDE DEF less, accepted, N, k
<1>9. Packs(packed, k, accepted[k], OfLive(work.out)[k], OfLive(lengths)[k])
  <2> DEFINE out == OfLive(work.out)  lens == OfLive(lengths)
  <2>1. Stride \in Nat /\ lens[k] \in Nat /\ N \in Nat /\ k \in 0 .. (N - 1)
    BY <1>3, <1>6, <1>8
  <2> HIDE DEF out, lens
  <2>2. Packs(SpeculativeCompact(out, accepted, lens, Stride), k, accepted[k], out[k], lens[k])
    BY <1>5, <2>1, CompactLaw
  <2> QED BY <2>2 DEF out, lens
<1> HIDE DEF packed
<1>10. Packs(packed, LiveIndex(row), n, work.out[row], Len(history[row])) /\ \A j \in 0 .. n : work.out[row][j] \in Tokens
  <2>1. Packs(packed, k, n, work.out[row], Len(history[row]))
    BY <1>6, <1>7, <1>8, <1>9
  <2>2. \A j \in 0 .. n : work.out[row][j] \in Tokens
    BY DEF Accepted
  <2> QED BY <2>1, <2>2 DEF k
<1>11. Len(history[row]) + n + 1 <= MaxLength + Stride
  <2> DEFINE d == Len(work.drafts[row])  h == Len(history[row])
  <2>1. d \in Nat /\ h \in Nat /\ n \in Nat /\ n <= d /\ h + d < MaxLength /\ MaxLength \in Nat
        /\ MaxDraft \in Nat /\ Stride = MaxDraft + 1
    BY <1>6
  <2> HIDE DEF d, h
  <2>2. h + n + 1 <= MaxLength + Stride
    BY ONLY <2>1
  <2> QED BY <2>2 DEF h
<1>12. added \in Seq(Tokens) /\ Len(added) = n + 1 /\ Appended(row, packed) = history[row] \o added
  <2>1. history[row] \in Seq(Tokens) /\ n \in Nat
    BY <1>6
  <2> QED BY <1>10, <1>11, <2>1, AppendedLaw
<1>13. updated[k] = lengths[row] + n + 1
  <2>1. updated[k] = OfLive(lengths)[k] + accepted[k] + 1
    BY <1>3, <1>8 DEF SpeculativeUpdateKvMeta
  <2> HIDE DEF updated
  <2> QED BY <1>7, <1>8, <2>1
<1>14. history'[row] = Appended(row, packed) /\ lengths'[row] = updated[k] /\ computed'[row] = updated[k] - 1
  BY <1>2 DEF k
<1> HIDE DEF updated, added
<1>15. (lengths[row] + n + 1) - 1 = lengths[row] + n
  BY <1>6
<1> QED BY <1>12, <1>13, <1>14, <1>15 DEF added

\* After a commit, the cache holds what every row has computed of its new history.
LEMMA CommitStep == ASSUME IInv, Commit PROVE IInv'
<1>1. step = "prepared" /\ ~IsBeam /\ ITypes /\ IPlanned /\ InPass /\ IOut /\ ILengths /\ IBlocks
  BY DEF Commit, IInv, InPass, ISteps
<1>2. /\ kind' = kind /\ model' = model /\ policy' = policy /\ scores' = scores /\ table' = table /\ cache' = cache
      /\ DOMAIN history' = Rows /\ DOMAIN lengths' = Rows /\ DOMAIN computed' = Rows
      /\ history' = [r \in Rows |-> history'[r]] /\ lengths' = [r \in Rows |-> lengths'[r]]
      /\ computed' = [r \in Rows |-> computed'[r]]
  BY DEF Commit, streams
<1>3. \A r \in Rows : Discarded(r) => /\ history'[r] = history[r] /\ lengths'[r] = lengths[r]
                                      /\ computed'[r] = computed[r] + work.fed[r]
  BY DEF Commit
<1>4. IsBeam' = IsBeam /\ Count' = Count /\ Rows' = Rows /\ Columns' = Columns
  BY <1>2 DEF IsBeam, Count, Rows, Columns
<1>5. ASSUME NEW row \in Rows
      PROVE  /\ history'[row] \in Seq(Tokens) /\ lengths'[row] = Len(history'[row])
             /\ computed'[row] \in 0 .. MaxLength /\ computed'[row] < lengths'[row]
             /\ kind \in {"verify", "tree"} => computed'[row] + 1 = lengths'[row]
             /\ \A p \in 0 .. (computed'[row] - 1) :
                  ~Lacks(row, p) /\ cache[Slot(table, row, p)] = SubSeq(history'[row], 1, p + 1)
             /\ kind # "tree" => EntryPosition(row) = computed'[row] - 1
  <2>1. PICK n \in 0 .. Len(work.drafts[row]) : Accepted(row, n) /\ Prepared(row, n)
    BY <1>1 DEF IOut
  <2> DEFINE added == [j \in 1 .. n |-> work.out[row][j - 1]]
  <2>2. /\ n \in Nat /\ n <= Len(work.drafts[row]) /\ Len(work.drafts[row]) \in Nat /\ work.fed[row] \in Nat
        /\ computed[row] \in Nat /\ MaxLength \in Nat /\ lengths[row] \in Nat /\ history[row] \in Seq(Tokens)
        /\ lengths[row] = Len(history[row]) /\ lengths[row] + Len(work.drafts[row]) < MaxLength
        /\ computed[row] + work.fed[row] <= lengths[row]
        /\ Reached(row) \in Seq(Tokens) /\ Len(Reached(row)) = computed[row] + work.fed[row]
    BY <1>1, PassLengths, RowTypes, Numbers
  <2>3. added \in Seq(Tokens) /\ Len(added) = n
    <3>1. \A j \in 1 .. n : j - 1 \in 0 .. n
      BY <2>2
    <3>2. added \in [1 .. n -> Tokens]
      BY <2>1, <3>1 DEF Accepted
    <3> HIDE DEF added
    <3> QED BY <2>2, <3>2, FunctionSeq
  <2>4. Taken(row, n) = Reached(row) \o added /\ Holds(row, Taken(row, n))
    BY <2>1 DEF Taken, Accepted
  <2> HIDE DEF added
  <2>5. Taken(row, n) \in Seq(Tokens) /\ Len(Taken(row, n)) = computed[row] + work.fed[row] + n
    <3> DEFINE r == Reached(row)
    <3>1. r \in Seq(Tokens) /\ Len(r) = computed[row] + work.fed[row]
      BY <2>2
    <3> HIDE DEF r
    <3>2. r \o added \in Seq(Tokens) /\ Len(r \o added) = Len(r) + Len(added)
      BY <2>3, <3>1, ConcatProperties
    <3> QED BY <2>3, <2>4, <3>1, <3>2 DEF r
  <2>6. kind # "tree" => EntryPosition(row) = computed[row] + work.fed[row] + n - 1
    <3> DEFINE s == work.starts[row]  f == work.fed[row]  c == computed[row]
    <3>1. kind # "tree" => s \in Nat /\ work.entry[row] = s + f + n - 1
      BY <2>1 DEF Prepared
    <3>2. EntryPosition(row) = c + work.entry[row] - s
      BY DEF EntryPosition
    <3>3. c \in Nat /\ f \in Nat /\ n \in Nat
      BY <2>2
    <3> HIDE DEF s, f, c
    <3>4. kind # "tree" => EntryPosition(row) = c + f + n - 1
      BY <3>1, <3>2, <3>3
    <3> QED BY <3>4 DEF c, f
  <2>7. CASE Discarded(row)
    <3>1. computed[row] + work.fed[row] < lengths[row]
      BY <2>7 DEF Discarded
    <3>2. work.drafts[row] = <<>>
      <4>1. ~(computed[row] + work.fed[row] = lengths[row])
        BY <2>2, <3>1
      <4> QED BY <1>1, <4>1 DEF IPlanned
    <3>3. n = 0
      BY <2>2, <3>2
    <3>4. kind \notin {"verify", "tree"}
      <4> SUFFICES ASSUME kind \in {"verify", "tree"} PROVE FALSE
        OBVIOUS
      <4>1. work.fed[row] = 1 /\ computed[row] + 1 = lengths[row]
        BY <1>1 DEF IPlanned, ILengths
      <4> QED BY <2>2, <3>1, <4>1
    <3> DEFINE c == computed[row] + work.fed[row]
    <3>5. history'[row] = history[row] /\ lengths'[row] = lengths[row] /\ computed'[row] = c
      BY <1>3, <2>7
    <3>6. ASSUME NEW p \in 0 .. (c - 1)
          PROVE  ~Lacks(row, p) /\ cache[Slot(table, row, p)] = SubSeq(history[row], 1, p + 1)
      <4>1. p \in 0 .. (Len(Taken(row, n)) - 1) /\ p + 1 \in 0 .. c /\ c \in 0 .. Len(history[row])
        BY <2>2, <2>5, <3>3
      <4>2. ~Lacks(row, p) /\ cache[Slot(table, row, p)] = SubSeq(Taken(row, n), 1, p + 1)
        BY <2>4, <4>1 DEF Holds
      <4>3. SubSeq(Taken(row, n), 1, p + 1) = SubSeq(Reached(row), 1, p + 1)
        <5>1. \A s \in Seq(Tokens), t \in Seq(Tokens) : \A m \in 0 .. Len(s) : SubSeq(s \o t, 1, m) = SubSeq(s, 1, m)
          BY ONLY PrefixOfConcat
        <5> QED BY <2>2, <2>3, <2>4, <4>1, <5>1
      <4>4. SubSeq(Reached(row), 1, p + 1) = SubSeq(history[row], 1, p + 1)
        BY <2>2, <4>1, PrefixOfPrefix DEF Reached
      <4> QED BY <4>2, <4>3, <4>4
    <3>7. c \in 0 .. MaxLength /\ c < lengths[row]
      <4> DEFINE d == Len(work.drafts[row])  f == work.fed[row]
      <4>1. d \in Nat /\ f \in Nat /\ computed[row] \in Nat /\ MaxLength \in Nat /\ lengths[row] \in Nat
            /\ lengths[row] + d < MaxLength /\ computed[row] + f < lengths[row]
        BY <2>2, <3>1
      <4> HIDE DEF d, f
      <4>2. computed[row] + f \in 0 .. MaxLength /\ computed[row] + f < lengths[row]
        BY ONLY <4>1
      <4> QED BY <4>2 DEF f
    <3>8. kind # "tree" => EntryPosition(row) = c - 1
      BY <2>2, <2>6, <3>3
    <3> HIDE DEF c
    <3> QED BY <2>2, <3>4, <3>5, <3>6, <3>7, <3>8
  <2>8. CASE ~Discarded(row)
    <3> DEFINE more == Added(work.out[row], n + 1)  c == lengths[row] + n
    <3>1. /\ more \in Seq(Tokens) /\ Len(more) = n + 1 /\ history'[row] = history[row] \o more
          /\ lengths'[row] = c + 1 /\ computed'[row] = c
      BY <2>1, <2>8, CommitRow
    <3>2. computed[row] + work.fed[row] = lengths[row]
      BY <2>2, <2>8 DEF Discarded
    <3>3. Reached(row) = history[row]
      <4>1. SubSeq(history[row], 1, Len(history[row])) = history[row]
        BY <2>2, SubSeqFull
      <4> QED BY <2>2, <3>2, <4>1 DEF Reached
    <3>4. SubSeq(more, 1, n) = added
      <4>1. n \in 0 .. Len(more)
        BY <2>2, <3>1
      <4>2. SubSeq(more, 1, n) \in Seq(Tokens) /\ Len(SubSeq(more, 1, n)) = n
            /\ \A i \in 1 .. n : SubSeq(more, 1, n)[i] = more[i]
        <5> HIDE DEF more
        <5> QED BY <3>1, <4>1, Prefix
      <4>3. \A i \in 1 .. n : more[i] = added[i]
        BY <2>2 DEF added, Added
      <4>4. \A i \in 1 .. n : SubSeq(more, 1, n)[i] = added[i]
        BY <4>2, <4>3
      <4> HIDE DEF more
      <4> QED BY <2>3, <4>2, <4>4, SeqEqual
    <3> HIDE DEF more
    <3>5. history'[row] \in Seq(Tokens) /\ Len(history'[row]) = c + 1
      BY <2>2, <3>1, ConcatProperties
    <3>6. SubSeq(history'[row], 1, c) = Taken(row, n)
      <4>1. \A s \in Seq(Tokens), t \in Seq(Tokens) : \A m \in 0 .. Len(t) :
              SubSeq(s \o t, 1, Len(s) + m) = s \o SubSeq(t, 1, m)
        BY ONLY PrefixOfConcat, SMTT(30)
      <4>2. n \in 0 .. Len(more)
        BY <2>2, <3>1
      <4> QED BY <2>2, <2>4, <3>1, <3>3, <3>4, <4>1, <4>2, ZenonT(30)
    <3>7. ASSUME NEW p \in 0 .. (c - 1)
          PROVE  ~Lacks(row, p) /\ cache[Slot(table, row, p)] = SubSeq(history'[row], 1, p + 1)
      <4>1. p \in 0 .. (Len(Taken(row, n)) - 1) /\ p + 1 \in 0 .. c /\ c \in 0 .. Len(history'[row])
        BY <2>2, <2>5, <3>2, <3>5, SMTT(30)
      <4>2. ~Lacks(row, p) /\ cache[Slot(table, row, p)] = SubSeq(Taken(row, n), 1, p + 1)
        BY <2>4, <4>1 DEF Holds
      <4>3. SubSeq(Taken(row, n), 1, p + 1) = SubSeq(history'[row], 1, p + 1)
        BY <3>5, <3>6, <4>1, PrefixOfPrefix
      <4> QED BY <4>2, <4>3
    <3>8. c \in 0 .. MaxLength /\ c < c + 1 /\ c \in Nat
      <4> DEFINE d == Len(work.drafts[row])  l == lengths[row]
      <4>1. d \in Nat /\ n \in Nat /\ n <= d /\ MaxLength \in Nat /\ l \in Nat /\ l + d < MaxLength
        BY <2>2
      <4> HIDE DEF d, l
      <4>2. l + n \in 0 .. MaxLength /\ l + n < l + n + 1 /\ l + n \in Nat
        BY ONLY <4>1
      <4> QED BY <4>2 DEF l
    <3>9. kind # "tree" => EntryPosition(row) = c - 1
      <4> DEFINE a == computed[row] + work.fed[row]  l == lengths[row]  x == EntryPosition(row)
      <4>1. a = l /\ (kind # "tree" => x = a + n - 1) /\ l \in Int /\ n \in Int
        BY <2>2, <2>6, <3>2
      <4> HIDE DEF a, l, x
      <4>2. kind # "tree" => x = (l + n) - 1
        BY ONLY <4>1
      <4> QED BY <4>2 DEF l, x
    <3> HIDE DEF c
    <3> QED BY <3>1, <3>5, <3>7, <3>8, <3>9
  <2> QED BY <2>7, <2>8
<1>6. ITypes'
  <2>1. history' \in [0 .. (Count - 1) -> Seq(Tokens)] /\ lengths' = [r \in Rows |-> Len(history'[r])]
        /\ computed' \in [Rows -> 0 .. MaxLength]
    <3>1. Rows = 0 .. (Count - 1)
      BY <1>1, RowTypes
    <3> QED BY <1>2, <1>5, <3>1
  <2> QED BY <1>1, <1>2, <1>4, <2>1 DEF ITypes, Kinds
<1>7. ILengths'
  BY <1>1, <1>2, <1>4, <1>5 DEF ILengths
<1>8. kind # "remap"
  BY <1>1 DEF IsBeam
<1>9. IBlocks'
  BY <1>1, <1>2, <1>4, <1>8 DEF IBlocks
<1>10. CacheHoldsHistory'
  <2>1. \A row, p : Lacks(row, p)' <=> Lacks(row, p)
    BY <1>2 DEF Lacks
  <2>2. \A row, p : Slot(table, row, p)' = Slot(table, row, p)
    BY <1>2
  <2> QED BY <1>2, <1>4, <1>5, <2>1, <2>2 DEF CacheHoldsHistory
<1>11. CASE kind = "rejection"
  <2>1. /\ step' = "drafting"
        /\ work' = [rounds |-> 0,
                    positions |-> [row \in Rows |-> EntryPosition(row)],
                    lengths |-> [row \in Rows |-> EntryPosition(row) + 1],
                    slots |-> [row \in Rows |-> <<>>]]
    BY <1>11 DEF Commit
  <2>2. /\ work'.rounds = 0 /\ DOMAIN work'.positions = Rows
        /\ \A row \in Rows : /\ work'.positions[row] = EntryPosition(row)
                             /\ work'.lengths[row] = EntryPosition(row) + 1 /\ work'.slots[row] = <<>>
    BY <2>1
  <2>3. IDrafts'
    <3>1. ASSUME NEW row \in Rows
          PROVE  /\ work'.positions[row] = computed'[row] - 1 + work'.rounds
                 /\ work'.lengths[row] = IF work'.rounds > 0 /\ work'.positions[row] >= MaxLength THEN 1
                                         ELSE work'.positions[row] + 1
                 /\ work'.slots[row] \in Seq(Int) /\ Len(work'.slots[row]) = work'.rounds
                 /\ \A i \in 1 .. work'.rounds : FALSE
      <4>1. EntryPosition(row) = computed'[row] - 1 /\ computed'[row] \in 0 .. MaxLength /\ MaxLength \in Nat
        BY <1>5, <1>11, Numbers
      <4>2. <<>> \in Seq(Int) /\ Len(<<>>) = 0
        OBVIOUS
      <4>3. work'.positions[row] = (computed'[row] - 1) + 0 /\ work'.lengths[row] = work'.positions[row] + 1
        BY <2>2, <4>1
      <4>4. ~(0 > 0) /\ \A i \in 1 .. 0 : FALSE
        OBVIOUS
      <4> QED BY <2>2, <4>2, <4>3, <4>4
    <3>2. work'.rounds \in Nat
      BY <2>2
    <3> QED BY <1>4, <2>2, <3>1, <3>2 DEF IDrafts
  <2>4. ISteps'
    BY <1>2, <1>11, <2>1 DEF ISteps
  <2>5. IPlanned' /\ IFed' /\ IChosen' /\ IOut'
    BY <2>1 DEF IPlanned, InPass, IFed, IChosen, IOut
  <2> QED BY <1>6, <1>7, <1>9, <1>10, <2>3, <2>4, <2>5 DEF IInv
<1>12. CASE kind # "rejection"
  <2>1. step' = "ready"
    BY <1>12 DEF Commit
  <2>2. IPlanned' /\ IFed' /\ IChosen' /\ IOut' /\ IDrafts' /\ ISteps'
    BY <2>1 DEF IPlanned, InPass, IFed, IChosen, IOut, IDrafts, ISteps
  <2> QED BY <1>6, <1>7, <1>9, <1>10, <2>2 DEF IInv
<1> QED BY <1>11, <1>12

-----------------------------------------------------------------------------
(* Trees of drafts.                                                        *)

\* Every node but the root follows an earlier one.
Tree(parents, N) ==
  /\ N \in Nat /\ parents = [n \in 0 .. N |-> parents[n]] /\ parents[0] = None
  /\ \A n \in 1 .. N : parents[n] \in 0 .. (n - 1)

\* What the nodes of a tree have, each from its parent's.
FromParents(f, parents, N, V, b, next) ==
  /\ f \in [0 .. N -> V] /\ f[0] = b
  /\ \A n \in 1 .. N : f[n] = next[<<n, f[parents[n]]>>]

\* Such a function exists.
LEMMA ParentRecursion ==
  ASSUME NEW parents, NEW N, Tree(parents, N), NEW V, NEW b \in V, NEW next,
         \A n \in 1 .. N, v \in V : next[<<n, v>>] \in V
  PROVE  \E f : FromParents(f, parents, N, V, b, next)
<1>1. Recurrence(N, V, b, parents, next)
  BY DEF Tree, Recurrence
<1>2. PICK f : Solves(f, N, V, b, parents, next)
  BY <1>1, Recursion
<1> QED BY <1>2 DEF Solves, FromParents

\* Depths counts the steps from the root.
LEMMA DepthsLaw ==
  ASSUME NEW parents, NEW N, Tree(parents, N)
  PROVE  /\ Depths(parents)[0] = 0
         /\ \A n \in 1 .. N : Depths(parents)[n] = Depths(parents)[parents[n]] + 1
<1> DEFINE next == [x \in (1 .. N) \X Nat |-> x[2] + 1]
           Is(f) == f = [node \in DOMAIN parents |-> IF node = 0 THEN 0 ELSE f[parents[node]] + 1]
<1>0. N \in Nat /\ DOMAIN parents = 0 .. N /\ \A n \in 1 .. N : parents[n] \in 0 .. N
  BY DEF Tree
<1>1. \A n \in 1 .. N, v \in Nat : next[<<n, v>>] = v + 1 /\ next[<<n, v>>] \in Nat
  OBVIOUS
<1>2. PICK f : FromParents(f, parents, N, Nat, 0, next)
  <2> HIDE DEF next
  <2> QED BY <1>1, ParentRecursion
<1>3. ASSUME NEW n \in 0 .. N PROVE f[n] = IF n = 0 THEN 0 ELSE f[parents[n]] + 1
  <2>1. CASE n = 0
    BY <1>2, <2>1 DEF FromParents
  <2>2. CASE n # 0
    <3>1. n \in 1 .. N /\ parents[n] \in 0 .. N
      BY <1>0, <2>2
    <3>2. f[n] = next[<<n, f[parents[n]]>>] /\ f[parents[n]] \in Nat
      BY <1>2, <3>1 DEF FromParents
    <3> HIDE DEF next
    <3> QED BY <1>1, <2>2, <3>1, <3>2
  <2> QED BY <2>1, <2>2
<1>4. Is(f)
  <2>1. f = [n \in 0 .. N |-> f[n]]
    BY <1>2 DEF FromParents
  <2> HIDE DEF next
  <2> QED BY <1>0, <1>3, <2>1
<1> DEFINE depth == CHOOSE g : Is(g)
<1>5. Is(depth)
  <2> HIDE DEF Is
  <2> QED BY <1>4
<1>6. Depths(parents) = depth
  BY DEF Depths
<1> HIDE DEF depth
<1>7. \A n \in 0 .. N : depth[n] = IF n = 0 THEN 0 ELSE depth[parents[n]] + 1
  BY <1>0, <1>5
<1>8. \A n \in 1 .. N : n \in 0 .. N /\ n # 0
  BY <1>0
<1>9. 0 \in 0 .. N
  BY <1>0
<1> QED BY ONLY <1>6, <1>7, <1>8, <1>9

\* Path lists the nodes from the root, which it leaves out.
LEMMA PathLaw ==
  ASSUME NEW parents, NEW N, Tree(parents, N)
  PROVE  /\ Path(parents, 0) = <<>>
         /\ \A n \in 1 .. N : Path(parents, n) = Append(Path(parents, parents[n]), n)
<1> DEFINE V == Seq(Nat)
           next == [x \in (1 .. N) \X V |-> Append(x[2], x[1])]
           Is(f) == f = [n \in DOMAIN parents |-> IF n = 0 THEN <<>> ELSE Append(f[parents[n]], n)]
<1>0. N \in Nat /\ DOMAIN parents = 0 .. N /\ \A n \in 1 .. N : parents[n] \in 0 .. N
  BY DEF Tree
<1>1. \A n \in 1 .. N, v \in V : next[<<n, v>>] = Append(v, n) /\ next[<<n, v>>] \in V
  OBVIOUS
<1>2. PICK f : FromParents(f, parents, N, V, <<>>, next)
  <2>1. <<>> \in V
    OBVIOUS
  <2> HIDE DEF next, V
  <2> QED BY <1>1, <2>1, ParentRecursion
<1>3. ASSUME NEW n \in 0 .. N PROVE f[n] = IF n = 0 THEN <<>> ELSE Append(f[parents[n]], n)
  <2>1. CASE n = 0
    BY <1>2, <2>1 DEF FromParents
  <2>2. CASE n # 0
    <3>1. n \in 1 .. N /\ parents[n] \in 0 .. N
      BY <1>0, <2>2
    <3>2. f[n] = next[<<n, f[parents[n]]>>] /\ f[parents[n]] \in V
      BY <1>2, <3>1 DEF FromParents
    <3> HIDE DEF next, V
    <3> QED BY <1>1, <2>2, <3>1, <3>2
  <2> QED BY <2>1, <2>2
<1>4. Is(f)
  <2>1. f = [n \in 0 .. N |-> f[n]]
    BY <1>2 DEF FromParents
  <2> HIDE DEF next
  <2> QED BY <1>0, <1>3, <2>1
<1> DEFINE path == CHOOSE g : Is(g)
<1>5. Is(path)
  <2> HIDE DEF Is
  <2> QED BY <1>4
<1>6. \A n : Path(parents, n) = path[n]
  BY DEF Path
<1> HIDE DEF path
<1> QED BY <1>0, <1>5, <1>6

\* A path from the root, which is its first node.
Descends(v, parents, N) ==
  /\ v \in Seq(0 .. N) /\ Len(v) >= 1 /\ v[1] = 0
  /\ \A i \in 1 .. (Len(v) - 1) : v[i + 1] \in 1 .. N /\ parents[v[i + 1]] = v[i]

\* A node's depth and its path, where a path from the root reaches it; no path is longer
\* than the tree.
LEMMA DescentLaw ==
  ASSUME NEW parents, NEW N, Tree(parents, N), NEW v, Descends(v, parents, N)
  PROVE  /\ Len(v) <= N + 1
         /\ \A i \in 0 .. (Len(v) - 1) :
              /\ v[i + 1] \in 0 .. N /\ Depths(parents)[v[i + 1]] = i
              /\ Path(parents, v[i + 1]) = [j \in 1 .. i |-> v[j + 1]]
<1> DEFINE T == {i \in Nat : /\ v[i + 1] \in 0 .. N /\ v[i + 1] >= i /\ Depths(parents)[v[i + 1]] = i
                             /\ Path(parents, v[i + 1]) = [j \in 1 .. i |-> v[j + 1]]}
           last == Len(v) - 1
<1>0. N \in Nat /\ v \in Seq(0 .. N) /\ Len(v) \in Nat /\ Len(v) >= 1 /\ last \in Nat
  BY LenProperties DEF Tree, Descends
<1>1. 0 \in T
  <2>1. v[0 + 1] = 0 /\ 0 \in 0 .. N
    BY <1>0 DEF Descends
  <2>2. Path(parents, 0) = [j \in 1 .. 0 |-> v[j + 1]]
    <3>1. <<>> = [j \in 1 .. 0 |-> v[j + 1]]
      OBVIOUS
    <3> QED BY <3>1, PathLaw
  <2>3. Depths(parents)[0] = 0
    BY DepthsLaw
  <2> QED BY <2>1, <2>2, <2>3
<1>2. ASSUME NEW i \in 0 .. (last - 1), i \in T PROVE i + 1 \in T
  <2> DEFINE a == v[i + 1]  c == v[(i + 1) + 1]  q == [j \in 1 .. i |-> v[j + 1]]
  <2>1. i \in Nat /\ i + 1 \in 1 .. (Len(v) - 1) /\ i + 1 \in Nat
    BY <1>0
  <2>2. c \in 1 .. N /\ parents[c] = a /\ c \in 0 .. N
    BY <1>0, <2>1 DEF Descends
  <2>3. a \in 0 .. (c - 1)
    BY <2>2 DEF Tree
  <2>4. a >= i /\ Depths(parents)[a] = i /\ Path(parents, a) = q
    BY <1>2
  <2>5. c >= i + 1
    BY <1>0, <2>1, <2>2, <2>3, <2>4, SMTT(30)
  <2>6. Depths(parents)[c] = i + 1
    BY <2>2, <2>4, DepthsLaw
  <2>7. Path(parents, c) = [j \in 1 .. (i + 1) |-> v[j + 1]]
    <3>1. Path(parents, c) = Append(q, c)
      BY <2>2, <2>4, PathLaw
    <3>2. q \in Seq(0 .. N) /\ Len(q) = i
      <4>1. \A j \in 1 .. i : v[j + 1] \in 0 .. N
        <5> SUFFICES ASSUME NEW j \in 1 .. i PROVE v[j + 1] \in 0 .. N
          OBVIOUS
        <5>1. j + 1 \in 1 .. Len(v)
          BY <1>0, <2>1
        <5> QED BY <1>0, <5>1, ElementOfSeq
      <4>2. q \in [1 .. i -> 0 .. N]
        BY <4>1
      <4> HIDE DEF q
      <4> QED BY <2>1, <4>2, FunctionSeq
    <3>3. Append(q, c) = [j \in 1 .. (i + 1) |-> v[j + 1]]
      <4>1. Append(q, c) = [j \in 1 .. (i + 1) |-> IF j <= i THEN q[j] ELSE c]
        <5> DEFINE w == Append(q, c)
        <5> HIDE DEF q, c
        <5>1. w \in Seq(0 .. N) /\ Len(w) = i + 1 /\ (\A j \in 1 .. i : w[j] = q[j]) /\ w[i + 1] = c
          BY <2>1, <2>2, <3>2
        <5> HIDE DEF w
        <5>2. \A j \in 1 .. (i + 1) : w[j] = IF j <= i THEN q[j] ELSE c
          <6> SUFFICES ASSUME NEW j \in 1 .. (i + 1) PROVE w[j] = IF j <= i THEN q[j] ELSE c
            OBVIOUS
          <6>1. CASE j <= i
            <7>1. j \in 1 .. i
              BY <2>1, <6>1
            <7> QED BY <5>1, <6>1, <7>1
          <6>2. CASE ~(j <= i)
            <7>1. j = i + 1
              BY <2>1, <6>2
            <7> QED BY <5>1, <6>2, <7>1
          <6> QED BY <6>1, <6>2
        <5>3. w = [j \in 1 .. (i + 1) |-> w[j]]
          BY <5>1, SeqDef, LenProperties
        <5> QED BY <5>2, <5>3 DEF w
      <4>2. \A j \in 1 .. (i + 1) : (IF j <= i THEN q[j] ELSE c) = v[j + 1]
        <5> SUFFICES ASSUME NEW j \in 1 .. (i + 1) PROVE (IF j <= i THEN q[j] ELSE c) = v[j + 1]
          OBVIOUS
        <5>1. CASE j <= i
          BY <2>1, <5>1
        <5>2. CASE ~(j <= i)
          <6>1. j = i + 1
            BY <2>1, <5>2
          <6> QED BY <5>2, <6>1
        <5> QED BY <5>1, <5>2
      <4> HIDE DEF q, c
      <4> QED BY <4>1, <4>2
    <3> HIDE DEF q, c
    <3> QED BY <3>1, <3>3
  <2> QED BY <2>1, <2>2, <2>5, <2>6, <2>7
<1>3. (0 .. last) \subseteq T
  <2> HIDE DEF T, last
  <2> QED BY <1>0, <1>1, <1>2, Induction
<1>4. Len(v) <= N + 1
  <2>1. last \in T
    <3> HIDE DEF T
    <3> QED BY <1>0, <1>3
  <2>2. v[last + 1] \in 0 .. N /\ v[last + 1] >= last
    BY <2>1
  <2> QED BY <1>0, <2>2
<1> QED BY <1>3, <1>4

\* A path goes on at a child of its last node.
LEMMA DescentGoesOn ==
  ASSUME NEW parents, NEW N, Tree(parents, N), NEW v, Descends(v, parents, N),
         NEW c \in 1 .. N, parents[c] = v[Len(v)]
  PROVE  /\ Descends(Append(v, c), parents, N) /\ Len(Append(v, c)) = Len(v) + 1
         /\ \A i \in 1 .. Len(v) : Append(v, c)[i] = v[i]
         /\ Append(v, c)[Len(v) + 1] = c
<1> DEFINE w == Append(v, c)
<1>1. N \in Nat /\ v \in Seq(0 .. N) /\ Len(v) \in Nat /\ Len(v) >= 1 /\ c \in 0 .. N /\ v[1] = 0
  BY LenProperties DEF Tree, Descends
<1>2. w \in Seq(0 .. N) /\ Len(w) = Len(v) + 1 /\ \A i \in 1 .. Len(v) : w[i] = v[i]
  BY <1>1
<1>3. w[Len(v) + 1] = c
  BY <1>1
<1> HIDE DEF w
<1>4. ASSUME NEW i \in 1 .. (Len(w) - 1) PROVE w[i + 1] \in 1 .. N /\ parents[w[i + 1]] = w[i]
  <2>1. i \in 1 .. Len(v) /\ i \in Nat
    BY <1>1, <1>2
  <2>2. CASE i = Len(v)
    BY <1>2, <1>3, <2>1, <2>2
  <2>3. CASE i # Len(v)
    <3>1. i \in 1 .. (Len(v) - 1) /\ i + 1 \in 1 .. Len(v)
      BY <1>1, <2>1, <2>3
    <3> QED BY <1>2, <2>1, <3>1 DEF Descends
  <2> QED BY <2>2, <2>3
<1>5. w[1] = 0
  BY <1>1, <1>2
<1> QED BY <1>1, <1>2, <1>3, <1>4, <1>5, SMTT(30) DEF Descends, w

\* The least of some numbers.
LEMMA LeastLaw ==
  ASSUME NEW T \in SUBSET Nat, T # {}
  PROVE  LET least == CHOOSE c \in T : \A d \in T : c <= d
         IN least \in T /\ \A d \in T : least <= d
<1>1. \E c \in T : \A d \in T : c <= d
  BY LeastNatural
<1> QED BY <1>1

\* The links of a tree: the first of a node's children, and the next child of its parent.
Links(first, next, parents, N) ==
  /\ DOMAIN first = 0 .. N /\ DOMAIN next = 0 .. N
  /\ \A n \in 0 .. N :
       \/ first[n] = None /\ \A c \in 1 .. N : parents[c] # n
       \/ first[n] \in 1 .. N /\ parents[first[n]] = n /\ \A c \in 1 .. N : parents[c] = n => first[n] <= c
  /\ next[0] = None
  /\ \A n \in 1 .. N :
       \/ next[n] = None /\ \A c \in 1 .. N : c > n => parents[c] # parents[n]
       \/ /\ next[n] \in 1 .. N /\ next[n] > n /\ parents[next[n]] = parents[n]
          /\ \A c \in 1 .. N : c > n /\ parents[c] = parents[n] => next[n] <= c

\* The first child and the next sibling of every node are the least ones.
LEMMA LinksLaw ==
  ASSUME NEW parents, NEW N, Tree(parents, N)
  PROVE  Links(FirstChild(parents), NextSibling(parents), parents, N)
<1> DEFINE first == FirstChild(parents)  next == NextSibling(parents)
<1>0. N \in Nat /\ DOMAIN parents = 0 .. N /\ parents[0] = -1
      /\ \A n \in 1 .. N : parents[n] \in 0 .. (n - 1)
  BY DEF Tree, None
<1>1. DOMAIN first = 0 .. N /\ DOMAIN next = 0 .. N
  BY <1>0 DEF FirstChild, NextSibling
<1>2. ASSUME NEW n \in 0 .. N
      PROVE  \/ first[n] = None /\ \A c \in 1 .. N : parents[c] # n
             \/ first[n] \in 1 .. N /\ parents[first[n]] = n /\ \A c \in 1 .. N : parents[c] = n => first[n] <= c
  <2> DEFINE T == {c \in DOMAIN parents : parents[c] = n}
             least == CHOOSE c \in T : \A d \in T : c <= d
  <2>1. first[n] = IF T = {} THEN None ELSE least
    BY <1>0 DEF FirstChild
  <2>2. \A c : c \in T <=> c \in 1 .. N /\ parents[c] = n
    <3>1. \A c \in 0 .. N : c \in 1 .. N \/ c = 0
      BY <1>0
    <3>2. \A c \in 1 .. N : c \in 0 .. N
      BY <1>0
    <3>3. parents[0] # n
      BY <1>0
    <3> QED BY <1>0, <3>1, <3>2, <3>3
  <2>3. T \in SUBSET Nat
    BY <1>0
  <2> HIDE DEF T
  <2>4. T # {} => least \in T /\ \A d \in T : least <= d
    BY <2>3, LeastLaw
  <2> HIDE DEF least
  <2>5. CASE T = {}
    BY <2>1, <2>2, <2>5
  <2>6. CASE T # {}
    BY <2>1, <2>2, <2>4, <2>6
  <2> QED BY <2>5, <2>6
<1>3. next[0] = None
  <2>1. {c \in DOMAIN parents : c > 0 /\ 0 > 0 /\ parents[c] = parents[0]} = {}
    OBVIOUS
  <2>2. 0 \in DOMAIN parents
    BY <1>0
  <2> QED BY <2>1, <2>2 DEF NextSibling
<1>4. ASSUME NEW n \in 1 .. N
      PROVE  \/ next[n] = None /\ \A c \in 1 .. N : c > n => parents[c] # parents[n]
             \/ /\ next[n] \in 1 .. N /\ next[n] > n /\ parents[next[n]] = parents[n]
                /\ \A c \in 1 .. N : c > n /\ parents[c] = parents[n] => next[n] <= c
  <2> DEFINE T == {c \in DOMAIN parents : c > n /\ n > 0 /\ parents[c] = parents[n]}
             least == CHOOSE c \in T : \A d \in T : c <= d
  <2>0. n \in DOMAIN parents
    BY <1>0
  <2>1. next[n] = IF T = {} THEN None ELSE least
    BY <2>0 DEF NextSibling
  <2>2. \A c : c \in T <=> c \in 1 .. N /\ c > n /\ parents[c] = parents[n]
    <3>1. \A c \in 0 .. N : c > n => c \in 1 .. N
      BY <1>0
    <3>2. \A c \in 1 .. N : c \in 0 .. N
      BY <1>0
    <3>3. n > 0
      BY <1>0
    <3> QED BY <1>0, <3>1, <3>2, <3>3
  <2>3. T \in SUBSET Nat
    BY <1>0
  <2> HIDE DEF T
  <2>4. T # {} => least \in T /\ \A d \in T : least <= d
    BY <2>3, LeastLaw
  <2> HIDE DEF least
  <2>5. CASE T = {}
    BY <2>1, <2>2, <2>5
  <2>6. CASE T # {}
    BY <2>1, <2>2, <2>4, <2>6
  <2> QED BY <2>5, <2>6
<1> HIDE DEF first, next
<1>5. Links(first, next, parents, N)
  BY <1>1, <1>2, <1>3, <1>4 DEF Links
<1> QED BY <1>5 DEF first, next

\* The lists of what follows each node along the links, from the last to the first.
Lists(list, next, N) ==
  /\ list[None] = <<>>
  /\ \A c \in 0 .. N : list[c] = <<c>> \o list[next[c]]

\* Children collects such a list.
LEMMA ListsLaw ==
  ASSUME NEW first, NEW next, NEW parents, NEW N \in Nat, Links(first, next, parents, N)
  PROVE  \E list : Lists(list, next, N) /\ \A node : Children(first, next, node) = list[first[node]]
<1> DEFINE V == Seq(Nat)
           Place(c) == IF c = None THEN 0 ELSE N + 1 - c
           prev == [k \in 1 .. (N + 1) |-> Place(next[N + 1 - k])]
           make == [x \in (1 .. (N + 1)) \X V |-> <<N + 1 - x[1]>> \o x[2]]
           Is(f) == f = [c \in DOMAIN first \cup {None} |-> IF c = None THEN <<>> ELSE <<c>> \o f[next[c]]]
<1>1. \A c \in 0 .. N : next[c] = None \/ (next[c] \in 1 .. N /\ next[c] > c)
  <2>1. \A c \in 0 .. N : c = 0 \/ c \in 1 .. N
    OBVIOUS
  <2>2. next[0] = None /\ \A c \in 1 .. N : next[c] = None \/ (next[c] \in 1 .. N /\ next[c] > c)
    BY DEF Links
  <2> QED BY <2>1, <2>2
<1>2. \A k \in 1 .. (N + 1) : prev[k] = Place(next[N + 1 - k]) /\ prev[k] \in 0 .. (k - 1)
  <2> SUFFICES ASSUME NEW k \in 1 .. (N + 1) PROVE Place(next[N + 1 - k]) \in 0 .. (k - 1)
    OBVIOUS
  <2> DEFINE c == N + 1 - k
  <2>1. c \in 0 .. N /\ k = N + 1 - c
    OBVIOUS
  <2>2. next[c] = None \/ (next[c] \in 1 .. N /\ next[c] > c)
    BY <1>1, <2>1
  <2>3. CASE next[c] = None
    BY <2>1, <2>3
  <2>4. CASE next[c] \in 1 .. N /\ next[c] > c
    <3>1. next[c] # None
      BY <2>4 DEF None
    <3> QED BY <2>1, <2>4, <3>1
  <2> QED BY <2>2, <2>3, <2>4
<1>3. \A k \in 1 .. (N + 1), v \in V : make[<<k, v>>] = <<N + 1 - k>> \o v /\ make[<<k, v>>] \in V
  <2> SUFFICES ASSUME NEW k \in 1 .. (N + 1), NEW v \in V
               PROVE  make[<<k, v>>] = <<N + 1 - k>> \o v /\ make[<<k, v>>] \in V
    OBVIOUS
  <2>1. N + 1 - k \in Nat
    OBVIOUS
  <2>2. <<N + 1 - k>> \o v \in V
    BY <2>1
  <2> QED BY <2>2
<1>4. PICK g : /\ g \in [0 .. (N + 1) -> V] /\ g[0] = <<>>
               /\ \A k \in 1 .. (N + 1) : g[k] = make[<<k, g[prev[k]]>>]
  <2>1. <<>> \in V /\ N + 1 \in Nat
    OBVIOUS
  <2> HIDE DEF prev, make, V
  <2>2. Recurrence(N + 1, V, <<>>, prev, make)
    BY <1>2, <1>3, <2>1 DEF Recurrence
  <2>3. PICK g : Solves(g, N + 1, V, <<>>, prev, make)
    BY <2>2, Recursion
  <2> QED BY <2>3 DEF Solves
<1> DEFINE f == [c \in DOMAIN first \cup {None} |-> g[Place(c)]]
<1>5. DOMAIN first \cup {None} = (0 .. N) \cup {None}
  BY DEF Links
<1>6. ASSUME NEW c \in 0 .. N PROVE g[Place(c)] = <<c>> \o g[Place(next[c])]
  <2> DEFINE k == N + 1 - c
  <2>1. k \in 1 .. (N + 1) /\ N + 1 - k = c
    OBVIOUS
  <2>2. Place(c) = k
    BY DEF None
  <2>3. prev[k] = Place(next[c]) /\ prev[k] \in 0 .. (N + 1)
    <3> HIDE DEF prev, Place, k
    <3>1. prev[k] = Place(next[N + 1 - k]) /\ prev[k] \in 0 .. (k - 1)
      BY <1>2, <2>1
    <3>2. \A i \in 0 .. (k - 1) : i \in 0 .. (N + 1)
      BY <2>1
    <3> QED BY ONLY <2>1, <3>1, <3>2
  <2>4. g[k] = make[<<k, g[prev[k]]>>] /\ g[prev[k]] \in V
    BY <1>4, <2>1, <2>3
  <2> HIDE DEF make, prev, V, k
  <2>5. g[k] = <<N + 1 - k>> \o g[prev[k]]
    BY <1>3, <2>1, <2>4
  <2>6. <<N + 1 - k>> = <<c>>
    BY <2>1
  <2> HIDE DEF Place
  <2> QED BY ONLY <2>2, <2>3, <2>5, <2>6
<1>7. Is(f)
  <2>1. ASSUME NEW c \in DOMAIN first \cup {None}
        PROVE  f[c] = IF c = None THEN <<>> ELSE <<c>> \o f[next[c]]
    <3>1. CASE c = None
      BY <1>4, <3>1
    <3>2. CASE c # None
      <4>1. c \in 0 .. N
        BY <1>5, <3>2
      <4>2. next[c] \in DOMAIN first \cup {None}
        BY <1>1, <1>5, <4>1
      <4>3. f[next[c]] = g[Place(next[c])] /\ f[c] = g[Place(c)]
        BY <4>2
      <4> HIDE DEF f, Place
      <4> QED BY <1>6, <3>2, <4>1, <4>3
    <3> QED BY <3>1, <3>2
  <2>2. f = [c \in DOMAIN first \cup {None} |-> f[c]]
    OBVIOUS
  <2> HIDE DEF f
  <2> QED BY <2>1, <2>2
<1> DEFINE list == CHOOSE h : Is(h)
<1>8. Is(list)
  <2> HIDE DEF Is, f
  <2> QED BY <1>7
<1>9. \A node : Children(first, next, node) = list[first[node]]
  BY DEF Children
<1> HIDE DEF list, f
<1>10. Lists(list, next, N)
  <2>1. \A c \in DOMAIN first \cup {None} : list[c] = IF c = None THEN <<>> ELSE <<c>> \o list[next[c]]
    BY <1>8
  <2>2. \A c \in 0 .. N : c \in DOMAIN first \cup {None} /\ c # None
    BY <1>5 DEF None
  <2>3. None \in DOMAIN first \cup {None}
    OBVIOUS
  <2> HIDE DEF Is
  <2> QED BY ONLY <2>1, <2>2, <2>3 DEF Lists
<1> QED BY <1>9, <1>10

\* A node's list has a node and its later siblings.
SiblingsFrom(s, c, parents, N) ==
  /\ s \in Seq(1 .. N) /\ \A i \in 1 .. Len(s) : parents[s[i]] = parents[c]
  /\ \A d \in 1 .. N : d >= c /\ parents[d] = parents[c] => \E i \in 1 .. Len(s) : s[i] = d

\* The list of a node has its later siblings, all of them.
LEMMA SiblingsLaw ==
  ASSUME NEW parents, NEW N, Tree(parents, N), NEW first, NEW next, Links(first, next, parents, N),
         NEW list, Lists(list, next, N), NEW c \in 1 .. N
  PROVE  SiblingsFrom(list[c], c, parents, N)
<1> DEFINE T == {k \in Nat : N - k \in 1 .. N => SiblingsFrom(list[N - k], N - k, parents, N)}
<1>0. N \in Nat
  BY DEF Tree
<1>1. ASSUME NEW k \in 0 .. N, (0 .. (k - 1)) \subseteq T PROVE k \in T
  <2> SUFFICES ASSUME N - k \in 1 .. N PROVE SiblingsFrom(list[N - k], N - k, parents, N)
    OBVIOUS
  <2> DEFINE a == N - k  s == list[a]  t == list[next[a]]
  <2>1. a \in 1 .. N /\ a \in 0 .. N
    BY <1>0
  <2>2. s = <<a>> \o t
    BY <2>1 DEF Lists
  <2>3. CASE next[a] = None
    <3>1. t = <<>>
      BY <2>3 DEF Lists
    <3>2. \A d \in 1 .. N : d > a => parents[d] # parents[a]
      <4> HIDE DEF a
      <4>1. None \notin 1 .. N
        BY DEF None
      <4> QED BY <2>1, <2>3, <4>1 DEF Links
    <3> HIDE DEF a, s, t
    <3>3. s = <<a>>
      BY <2>1, <2>2, <3>1
    <3>4. s \in Seq(1 .. N) /\ Len(s) = 1 /\ s[1] = a
      BY <2>1, <3>3
    <3>5. \A d \in 1 .. N : d >= a /\ parents[d] = parents[a] => d = a
      BY <2>1, <3>2
    <3>6. SiblingsFrom(s, a, parents, N)
      BY <3>4, <3>5 DEF SiblingsFrom
    <3> QED BY <3>6 DEF s, a
  <2>4. CASE next[a] # None
    <3> DEFINE b == next[a]
    <3>1. /\ b \in 1 .. N /\ b > a /\ parents[b] = parents[a]
          /\ \A d \in 1 .. N : d > a /\ parents[d] = parents[a] => b <= d
      <4> HIDE DEF a
      <4> QED BY <2>1, <2>4 DEF Links
    <3>2. SiblingsFrom(t, b, parents, N)
      <4> DEFINE m == N - b
      <4>1. m \in 0 .. (k - 1) /\ N - m = b
        BY <1>0, <3>1
      <4>2. m \in T
        BY <1>1, <4>1
      <4> QED BY <3>1, <4>1, <4>2
    <3> HIDE DEF a, s, t, b
    <3>3. t \in Seq(1 .. N) /\ Len(t) \in Nat
      BY <3>2, LenProperties DEF SiblingsFrom
    <3>4. s \in Seq(1 .. N) /\ Len(s) = 1 + Len(t) /\ s[1] = a /\ \A i \in 1 .. Len(t) : s[i + 1] = t[i]
      <4>1. <<a>> \in Seq(1 .. N) /\ Len(<<a>>) = 1 /\ <<a>>[1] = a
        BY <2>1
      <4>2. /\ <<a>> \o t \in Seq(1 .. N) /\ Len(<<a>> \o t) = 1 + Len(t)
            /\ \A i \in 1 .. (1 + Len(t)) : (<<a>> \o t)[i] = IF i <= 1 THEN <<a>>[i] ELSE t[i - 1]
        BY <3>3, <4>1, ConcatProperties
      <4>3. s \in Seq(1 .. N) /\ Len(s) = 1 + Len(t)
            /\ \A i \in 1 .. (1 + Len(t)) : s[i] = IF i <= 1 THEN <<a>>[i] ELSE t[i - 1]
        BY ONLY <2>2, <4>2
      <4>4. s[1] = <<a>>[1]
        BY <3>3, <4>3
      <4>5. \A i \in 1 .. Len(t) : s[i + 1] = t[i]
        BY <3>3, <4>3
      <4> QED BY <4>1, <4>3, <4>4, <4>5
    <3>5. ASSUME NEW i \in 1 .. Len(s) PROVE parents[s[i]] = parents[a]
      <4>1. CASE i = 1
        BY <3>4, <4>1
      <4>2. CASE i # 1
        <5>1. i - 1 \in 1 .. Len(t) /\ (i - 1) + 1 = i
          BY <3>3, <3>4, <4>2
        <5>2. s[i] = t[i - 1]
          BY <3>4, <5>1
        <5> QED BY <3>1, <3>2, <5>1, <5>2 DEF SiblingsFrom
      <4> QED BY <4>1, <4>2
    <3>6. ASSUME NEW d \in 1 .. N, d >= a, parents[d] = parents[a] PROVE \E i \in 1 .. Len(s) : s[i] = d
      <4>1. CASE d = a
        BY <3>3, <3>4, <4>1
      <4>2. CASE d # a
        <5>1. d >= b /\ parents[d] = parents[b]
          BY <2>1, <3>1, <3>6, <4>2
        <5>2. PICK i \in 1 .. Len(t) : t[i] = d
          BY <3>2, <5>1 DEF SiblingsFrom
        <5>3. i + 1 \in 1 .. Len(s) /\ s[i + 1] = d
          BY <3>3, <3>4, <5>2
        <5> QED BY <5>3
      <4> QED BY <4>1, <4>2
    <3>7. SiblingsFrom(s, a, parents, N)
      BY <3>4, <3>5, <3>6 DEF SiblingsFrom
    <3> QED BY <3>7 DEF s, a
  <2> QED BY <2>3, <2>4
<1>2. (0 .. N) \subseteq T
  <2> HIDE DEF T
  <2> QED BY <1>0, <1>1, StrongInduction
<1>3. N - c \in 0 .. N /\ N - (N - c) = c
  BY <1>0
<1>4. N - c \in T
  BY <1>2, <1>3
<1> QED BY <1>3, <1>4

\* Along the links, a node's children are found, all of them and no others.
LEMMA ChildrenLaw ==
  ASSUME NEW parents, NEW N, Tree(parents, N), NEW node \in 0 .. N
  PROVE  LET children == Children(FirstChild(parents), NextSibling(parents), node)
         IN /\ children \in Seq(1 .. N)
            /\ \A i \in 1 .. Len(children) : parents[children[i]] = node
            /\ \A c \in 1 .. N : parents[c] = node => \E i \in 1 .. Len(children) : children[i] = c
            /\ FirstChild(parents)[node] = None => \A c \in 1 .. N : parents[c] # node
<1> DEFINE first == FirstChild(parents)  next == NextSibling(parents)
           children == Children(first, next, node)
<1>1. Links(first, next, parents, N) /\ N \in Nat
  BY LinksLaw DEF Tree
<1> HIDE DEF first, next
<1>2. PICK list : Lists(list, next, N) /\ \A n : Children(first, next, n) = list[first[n]]
  BY <1>1, ListsLaw
<1>3. children = list[first[node]]
  BY <1>2
<1> HIDE DEF children
<1>4. CASE first[node] = None
  <2>1. children = <<>>
    BY <1>2, <1>3, <1>4 DEF Lists
  <2>2. \A c \in 1 .. N : parents[c] # node
    <3>1. None \notin 1 .. N
      BY DEF None
    <3> QED BY <1>1, <1>4, <3>1 DEF Links
  <2>3. children \in Seq(1 .. N) /\ Len(children) = 0
    BY <2>1
  <2> QED BY <2>2, <2>3 DEF children, first, next
<1>5. CASE first[node] # None
  <2> DEFINE c == first[node]
  <2>1. c \in 1 .. N /\ parents[c] = node /\ \A d \in 1 .. N : parents[d] = node => c <= d
    BY <1>1, <1>5 DEF Links
  <2>2. SiblingsFrom(list[c], c, parents, N)
    BY <1>1, <1>2, <2>1, SiblingsLaw
  <2>3. children = list[c]
    BY <1>3
  <2>4. \A d \in 1 .. N : parents[d] = node => d >= c
    BY <1>1, <2>1
  <2> HIDE DEF c
  <2>5. /\ children \in Seq(1 .. N) /\ \A i \in 1 .. Len(children) : parents[children[i]] = node
        /\ \A d \in 1 .. N : parents[d] = node => \E i \in 1 .. Len(children) : children[i] = d
    BY <2>1, <2>2, <2>3, <2>4 DEF SiblingsFrom
  <2> QED BY <1>5, <2>5 DEF children, first, next
<1> QED BY <1>4, <1>5

\* A coin takes a child of positive probability.  It refuses all only if a token that is
\* not theirs is probable, for else their sum is all there is.
LEMMA SelectedLaw ==
  ASSUME NEW S, NEW children \in Seq(S), NEW token, NEW p \in [Tokens -> 0 .. Unit], NEW coin \in 1 .. Unit,
         \A i \in 1 .. Len(children) : token[children[i]] \in Tokens
  PROVE  LET s == Selected(children, token, p, coin)
         IN \/ \E i \in 1 .. Len(children) : s = children[i] /\ p[token[children[i]]] > 0
            \/ /\ s = None
               /\ Sum(p, Tokens) = Unit =>
                    \E t \in Tokens : p[t] > 0 /\ \A i \in 1 .. Len(children) : token[children[i]] # t
<1> DEFINE n == Len(children)
           Is(f) == f = [i \in 0 .. Len(children) |-> IF i = 0 THEN 0 ELSE f[i - 1] + p[token[children[i]]]]
           sum == CHOOSE f : Is(f)
           at == [i \in 1 .. n |-> token[children[i]]]
           count == [i \in 0 .. (n - 1) |-> p[at[i + 1]]]
           reached == {i \in 1 .. Len(children) : coin <= sum[i]}
           least == CHOOSE i \in reached : \A j \in reached : i <= j
           s == Selected(children, token, p, coin)
<1>1. n \in Nat /\ Unit \in Nat /\ IsFiniteSet(Tokens) /\ coin \in Nat /\ coin >= 1 /\ coin <= Unit
  BY Numbers, LenProperties
<1>2. at \in [1 .. n -> Tokens] /\ p \in [Tokens -> Nat]
  BY <1>1
<1>3. count \in [0 .. (n - 1) -> Nat]
  <2>1. \A i \in 0 .. (n - 1) : i + 1 \in 1 .. n
    BY <1>1
  <2> HIDE DEF at, n
  <2> QED BY <1>2, <2>1
<1>4. s = IF reached = {} THEN None ELSE children[least]
  BY DEF Selected
<1>5. \A i \in 1 .. n : p[token[children[i]]] = count[i - 1] /\ p[token[children[i]]] = p[at[i]]
  <2> SUFFICES ASSUME NEW i \in 1 .. n
               PROVE  p[token[children[i]]] = count[i - 1] /\ p[token[children[i]]] = p[at[i]]
    OBVIOUS
  <2>1. i - 1 \in 0 .. (n - 1) /\ (i - 1) + 1 = i
    BY <1>1
  <2>2. at[i] = token[children[i]]
    OBVIOUS
  <2>3. count[i - 1] = p[at[(i - 1) + 1]]
    BY <2>1
  <2> QED BY <2>1, <2>2, <2>3
<1> DEFINE StackIs(f) == f = [row \in 0 .. n |-> IF row = 0 THEN 0 ELSE f[row - 1] + count[row - 1]]
<1>6. \A f : Is(f) <=> StackIs(f)
  <2> SUFFICES ASSUME NEW f PROVE Is(f) <=> StackIs(f)
    OBVIOUS
  <2>1. \A i \in 0 .. n : (IF i = 0 THEN 0 ELSE f[i - 1] + p[token[children[i]]]) =
                          (IF i = 0 THEN 0 ELSE f[i - 1] + count[i - 1])
    <3> SUFFICES ASSUME NEW i \in 0 .. n, i # 0 PROVE p[token[children[i]]] = count[i - 1]
      OBVIOUS
    <3>1. i \in 1 .. n
      BY <1>1
    <3> HIDE DEF count, at, n
    <3> QED BY <1>5, <3>1
  <2>2. [i \in 0 .. n |-> IF i = 0 THEN 0 ELSE f[i - 1] + p[token[children[i]]]] =
        [i \in 0 .. n |-> IF i = 0 THEN 0 ELSE f[i - 1] + count[i - 1]]
    <3> HIDE DEF count, at, n
    <3> QED BY <2>1
  <2> QED BY <2>2
<1> HIDE DEF count
<1>7. Stacked(sum, count, n)
  <2>1. \E f : StackIs(f)
    <3> HIDE DEF n
    <3> QED BY <1>1, <1>3, StackedExists
  <2>2. \E f : Is(f)
    <3> HIDE DEF Is, StackIs
    <3> QED BY <1>6, <2>1
  <2>3. Is(sum)
    <3> HIDE DEF Is
    <3> QED BY <2>2
  <2>4. StackIs(sum)
    <3> HIDE DEF Is, StackIs, sum
    <3> QED BY <1>6, <2>3
  <2> HIDE DEF n, sum
  <2> QED BY <1>1, <1>3, <2>4, StackedNumbers
<1> HIDE DEF sum
<1>8. Accumulates(sum, p, at, n)
  <2>1. \A i \in 1 .. n : sum[i] = sum[i - 1] + p[at[i]]
    <3> SUFFICES ASSUME NEW i \in 1 .. n PROVE sum[i] = sum[i - 1] + p[at[i]]
      OBVIOUS
    <3>1. i - 1 \in 0 .. (n - 1) /\ (i - 1) + 1 = i
      BY <1>1
    <3>2. sum[(i - 1) + 1] = sum[i - 1] + count[i - 1]
      BY <1>7, <3>1 DEF Stacked
    <3>3. count[i - 1] = p[at[i]]
      <4> HIDE DEF n, at
      <4> QED BY <1>5
    <3> HIDE DEF at, n
    <3> QED BY <3>1, <3>2, <3>3
  <2> HIDE DEF at, n
  <2> QED BY <1>7, <2>1 DEF Stacked, Accumulates
<1> HIDE DEF s
<1>9. CASE reached = {}
  <2>1. s = None
    BY <1>4, <1>9
  <2>2. ASSUME Sum(p, Tokens) = Unit
        PROVE  \E t \in Tokens : p[t] > 0 /\ \A i \in 1 .. Len(children) : token[children[i]] # t
    <3> SUFFICES ASSUME \A t \in Tokens : p[t] > 0 => \E i \in 1 .. n : at[i] = t PROVE FALSE
      OBVIOUS
    <3>1. Sum(p, Tokens) <= sum[n]
      <4> HIDE DEF at, n
      <4> QED BY <1>1, <1>2, <1>8, SumCovered
    <3>2. n >= 1 => ~(coin <= sum[n])
      BY <1>1, <1>9
    <3>3. sum[n] \in Nat /\ (n = 0 => sum[n] = 0)
      <4> HIDE DEF at, n
      <4> QED BY <1>1, <1>8 DEF Accumulates
    <3> HIDE DEF n
    <3> QED BY <1>1, <2>2, <3>1, <3>2, <3>3
  <2> QED BY <2>1, <2>2 DEF s
<1>10. CASE reached # {}
  <2>1. reached \in SUBSET Nat
    OBVIOUS
  <2>2. least \in reached /\ \A j \in reached : least <= j
    <3> HIDE DEF reached
    <3> QED BY <1>10, <2>1, LeastLaw
  <2> DEFINE i == least
  <2>3. i \in 1 .. n /\ coin <= sum[i] /\ \A j \in 1 .. n : coin <= sum[j] => i <= j
    <3> HIDE DEF least
    <3> QED BY <2>2
  <2>4. s = children[i]
    BY <1>4, <1>10
  <2> HIDE DEF i, reached
  <2>5. p[at[i]] > 0
    <3> HIDE DEF at, n
    <3>1. sum[i] = sum[i - 1] + p[at[i]] /\ sum[i - 1] \in Nat /\ sum[0] = 0
      <4>1. i - 1 \in 0 .. n
        BY <1>1, <2>3
      <4> QED BY <1>8, <2>3, <4>1 DEF Accumulates
    <3>2. ~(coin <= sum[i - 1])
      <4>1. CASE i = 1
        BY <1>1, <3>1, <4>1
      <4>2. CASE i # 1
        <5>1. i - 1 \in 1 .. n /\ ~(i <= i - 1)
          BY <1>1, <2>3, <4>2
        <5> QED BY <2>3, <5>1
      <4> QED BY <4>1, <4>2
    <3>3. p[at[i]] \in Nat
      BY <1>2, <2>3
    <3> QED BY <1>1, <2>3, <3>1, <3>2, <3>3
  <2>6. p[token[children[i]]] > 0
    <3> HIDE DEF at, n
    <3> QED BY <1>5, <2>3, <2>5
  <2> QED BY <2>3, <2>4, <2>6 DEF s
<1> QED BY <1>9, <1>10

\* A path whose nodes after the root hold tokens that are probable where they are.
Followed(v, parents, N, token, p) ==
  /\ Descends(v, parents, N)
  /\ \A i \in 1 .. (Len(v) - 1) : p[v[i]][token[v[i + 1]]] > 0
\* A token that no child of a node has is probable there.
Untried(children, token, p) ==
  \E t \in Tokens : p[t] > 0 /\ \A i \in 1 .. Len(children) : token[children[i]] # t
\* The tokens of a tree and their probabilities.
TreeTokens(N, token, p) ==
  /\ \A c \in 1 .. N : token[c] \in Tokens
  /\ \A node \in 0 .. N : p[node] \in [Tokens -> 0 .. Unit] /\ Sum(p[node], Tokens) = Unit

\* What the coin at a node takes.
LEMMA PickLaw ==
  ASSUME NEW parents, NEW N, Tree(parents, N), NEW token, NEW p, TreeTokens(N, token, p),
         NEW node \in 0 .. N, NEW coin \in 1 .. Unit
  PROVE  LET children == Children(FirstChild(parents), NextSibling(parents), node)
             pick == Selected(children, token, p[node], coin)
         IN \/ pick \in 1 .. N /\ parents[pick] = node /\ p[node][token[pick]] > 0
            \/ pick = None /\ Untried(children, token, p[node])
<1> DEFINE children == Children(FirstChild(parents), NextSibling(parents), node)
           pick == Selected(children, token, p[node], coin)
           q == p[node]
<1>1. children \in Seq(1 .. N) /\ \A i \in 1 .. Len(children) : parents[children[i]] = node
  BY ChildrenLaw
<1> HIDE DEF children
<1>2. \A i \in 1 .. Len(children) : children[i] \in 1 .. N
  BY <1>1, ElementOfSeq
<1>3. \A i \in 1 .. Len(children) : token[children[i]] \in Tokens
  BY <1>2 DEF TreeTokens
<1>4. q \in [Tokens -> 0 .. Unit] /\ Sum(q, Tokens) = Unit
  BY DEF TreeTokens
<1> HIDE DEF q
<1>5. \/ \E i \in 1 .. Len(children) : Selected(children, token, q, coin) = children[i] /\ q[token[children[i]]] > 0
      \/ Selected(children, token, q, coin) = None /\ Untried(children, token, q)
  BY <1>1, <1>3, <1>4, SelectedLaw DEF Untried
<1> QED BY <1>1, <1>2, <1>5 DEF q, children

\* TreePath follows the tree, and where it ends because every child was refused, a token
\* that none of them has is probable.
LEMMA TreePathLaw ==
  ASSUME NEW parents, NEW N, Tree(parents, N), NEW token, NEW p, TreeTokens(N, token, p),
         NEW valid \in BOOLEAN, NEW coins \in [0 .. N -> 1 .. Unit]
  PROVE  LET first == FirstChild(parents)
             next == NextSibling(parents)
             path == TreePath(valid, first, next, token, p, coins)
             last == path.nodes[Len(path.nodes)]
         IN /\ Followed(path.nodes, parents, N, token, p)
            /\ path.residual => Untried(Children(first, next, last), token, p[last])
<1> DEFINE first == FirstChild(parents)
           next == NextSibling(parents)
           PickAt(node) == Selected(Children(first, next, node), token, p[node], coins[node])
           Stops(v) == ~valid \/ first[v[Len(v)]] = None \/ PickAt(v[Len(v)]) = None
           Follow(v) == IF Stops(v) THEN v ELSE Append(v, PickAt(v[Len(v)]))
           V == {v \in Seq(0 .. N) : Followed(v, parents, N, token, p)}
           M == N + 1
           Is(f) == f = [n \in 0 .. Cardinality(DOMAIN first) |->
                           IF n = 0 THEN <<0>>
                           ELSE LET last == f[n - 1][Len(f[n - 1])]
                                IN IF ~valid \/ first[last] = None \/ PickAt(last) = None THEN f[n - 1]
                                   ELSE Append(f[n - 1], PickAt(last))]
           path == CHOOSE f : Is(f)
           whole == path[Cardinality(DOMAIN first)]
<1>0. N \in Nat /\ M \in Nat /\ None \notin 1 .. N
  BY DEF Tree, None
<1>1. Cardinality(DOMAIN first) = M
  <2>1. DOMAIN first = 0 .. (M - 1)
    BY <1>0, LinksLaw DEF Links
  <2> HIDE DEF M, first
  <2> QED BY <1>0, <2>1, IntervalSize
<1>2. TreePath(valid, first, next, token, p, coins) =
        [nodes |-> whole, residual |-> valid /\ first[whole[Len(whole)]] # None]
  BY DEF TreePath
<1>3. ASSUME NEW node \in 0 .. N
      PROVE  \/ PickAt(node) \in 1 .. N /\ parents[PickAt(node)] = node /\ p[node][token[PickAt(node)]] > 0
             \/ PickAt(node) = None /\ Untried(Children(first, next, node), token, p[node])
  <2>1. coins[node] \in 1 .. Unit
    OBVIOUS
  <2> QED BY <2>1, PickLaw
<1> HIDE DEF PickAt, first, next
<1>4. \A v \in V : Descends(v, parents, N) /\ v[Len(v)] \in 0 .. N /\ Len(v) \in Nat /\ Len(v) >= 1
  <2> SUFFICES ASSUME NEW v \in V
               PROVE  Descends(v, parents, N) /\ v[Len(v)] \in 0 .. N /\ Len(v) \in Nat /\ Len(v) >= 1
    OBVIOUS
  <2>1. v \in Seq(0 .. N) /\ Descends(v, parents, N) /\ Len(v) >= 1
    BY DEF Followed, Descends
  <2>2. Len(v) \in Nat /\ Len(v) \in 1 .. Len(v)
    BY <2>1, LenProperties
  <2> QED BY <2>1, <2>2, ElementOfSeq
<1>5. ASSUME NEW v \in V
      PROVE  Follow(v) \in V /\ (Stops(v) => Follow(v) = v) /\ (~Stops(v) => Len(Follow(v)) = Len(v) + 1)
  <2>1. CASE Stops(v)
    BY <2>1
  <2>2. CASE ~Stops(v)
    <3> DEFINE a == v[Len(v)]  c == PickAt(a)  w == Append(v, c)
    <3>1. Follow(v) = w
      BY <2>2
    <3>2. a \in 0 .. N /\ Descends(v, parents, N) /\ Len(v) \in Nat
      BY <1>4
    <3>3. c \in 1 .. N /\ parents[c] = a /\ p[a][token[c]] > 0
      <4>1. c # None
        BY <2>2
      <4> HIDE DEF a
      <4> QED BY <1>3, <3>2, <4>1
    <3> HIDE DEF c
    <3>4. Descends(w, parents, N) /\ Len(w) = Len(v) + 1 /\ (\A i \in 1 .. Len(v) : w[i] = v[i]) /\ w[Len(v) + 1] = c
      BY <3>2, <3>3, DescentGoesOn
    <3> HIDE DEF w
    <3>5. ASSUME NEW i \in 1 .. (Len(w) - 1) PROVE p[w[i]][token[w[i + 1]]] > 0
      <4>1. i \in 1 .. Len(v)
        BY <3>2, <3>4
      <4>2. CASE i = Len(v)
        BY <3>3, <3>4, <4>1, <4>2
      <4>3. CASE i # Len(v)
        <5>1. i \in 1 .. (Len(v) - 1) /\ i + 1 \in 1 .. Len(v)
          BY <3>2, <4>1, <4>3
        <5>2. p[v[i]][token[v[i + 1]]] > 0
          BY <5>1 DEF Followed
        <5>3. w[i] = v[i] /\ w[i + 1] = v[i + 1]
          BY <3>4, <4>1, <5>1
        <5> QED BY <5>2, <5>3
      <4> QED BY <4>2, <4>3
    <3>6. w \in Seq(0 .. N)
      BY <3>4 DEF Descends
    <3>7. w \in V
      BY <3>4, <3>5, <3>6 DEF Followed
    <3> QED BY <2>2, <3>1, <3>4, <3>7
  <2> QED BY <2>1, <2>2
<1>6. <<0>> \in V /\ Len(<<0>>) = 1
  <2>1. <<0>> \in Seq(0 .. N) /\ Len(<<0>>) = 1 /\ <<0>>[1] = 0
    BY <1>0
  <2>2. \A i \in 1 .. (Len(<<0>>) - 1) : FALSE
    BY <2>1
  <2> QED BY <2>1, <2>2 DEF Followed, Descends
<1> HIDE DEF V, Stops
<1>7. \E f : f = [n \in 0 .. M |-> IF n = 0 THEN <<0>> ELSE Follow(f[n - 1])]
  <2> DEFINE prev == [n \in 1 .. M |-> n - 1]
             make == [x \in (1 .. M) \X V |-> Follow(x[2])]
             FollowIs(f) == f = [n \in 0 .. M |-> IF n = 0 THEN <<0>> ELSE Follow(f[n - 1])]
  <2>1. \A n \in 1 .. M : prev[n] \in 0 .. (n - 1) /\ prev[n] = n - 1
    BY <1>0
  <2>2. \A n \in 1 .. M, v \in V : make[<<n, v>>] = Follow(v) /\ make[<<n, v>>] \in V
    <3> HIDE DEF Follow, M
    <3> QED BY <1>5
  <2> HIDE DEF prev, make, M
  <2>3. Recurrence(M, V, <<0>>, prev, make)
    BY <1>0, <1>6, <2>1, <2>2 DEF Recurrence
  <2>4. PICK f : Solves(f, M, V, <<0>>, prev, make)
    BY <2>3, Recursion
  <2>5. \A n \in 0 .. M : f[n] = IF n = 0 THEN <<0>> ELSE Follow(f[n - 1])
    <3> SUFFICES ASSUME NEW n \in 0 .. M, n # 0 PROVE f[n] = Follow(f[n - 1])
      BY <2>4 DEF Solves
    <3>1. n \in 1 .. M /\ n - 1 \in 0 .. M
      BY <1>0
    <3>2. f[n] = make[<<n, f[n - 1]>>] /\ f[n - 1] \in V
      BY <2>1, <2>4, <3>1 DEF Solves
    <3> HIDE DEF Follow
    <3> QED BY <2>2, <3>1, <3>2
  <2>6. FollowIs(f)
    <3>1. f = [n \in 0 .. M |-> f[n]]
      BY <2>4 DEF Solves
    <3> HIDE DEF Follow
    <3> QED BY <2>5, <3>1
  <2>7. \E g : FollowIs(g)
    <3> HIDE DEF FollowIs
    <3> QED BY <2>6
  <2> QED BY <2>7 DEF M
<1>8. \A f : Is(f) <=> f = [n \in 0 .. M |-> IF n = 0 THEN <<0>> ELSE Follow(f[n - 1])]
  BY <1>1 DEF Stops
<1>9. path = [n \in 0 .. M |-> IF n = 0 THEN <<0>> ELSE Follow(path[n - 1])]
  <2>1. \E f : Is(f)
    <3> HIDE DEF Is, Follow
    <3> QED BY <1>7, <1>8
  <2>2. Is(path)
    <3> HIDE DEF Is
    <3> QED BY <2>1
  <2> HIDE DEF Is, Follow, path
  <2> QED BY <1>8, <2>2
<1>10. whole = path[M]
  BY <1>1
<1> HIDE DEF path, Follow, whole
<1> DEFINE T == {n \in Nat : n <= M => path[n] \in V /\ (Stops(path[n]) \/ Len(path[n]) = n + 1)}
<1>11. 0 \in T
  <2>1. path[0] = <<0>>
    BY <1>0, <1>9
  <2> QED BY <1>6, <2>1
<1>12. ASSUME NEW n \in 0 .. (M - 1), n \in T PROVE n + 1 \in T
  <2>1. n + 1 \in 0 .. M /\ n + 1 # 0 /\ (n + 1) - 1 = n /\ n <= M /\ n \in Nat /\ n + 1 \in Nat
    BY <1>0
  <2>2. path[n + 1] = Follow(path[n])
    BY <1>9, <2>1
  <2>3. path[n] \in V /\ (Stops(path[n]) \/ Len(path[n]) = n + 1)
    BY <1>12, <2>1
  <2>4. Follow(path[n]) \in V /\ (Stops(path[n]) => Follow(path[n]) = path[n])
        /\ (~Stops(path[n]) => Len(Follow(path[n])) = Len(path[n]) + 1)
    BY <1>5, <2>3
  <2> QED BY <2>1, <2>2, <2>3, <2>4
<1>13. M \in T
  <2> HIDE DEF T, M
  <2>1. (0 .. M) \subseteq T
    BY <1>0, <1>11, <1>12, Induction
  <2> QED BY <1>0, <2>1
<1>14. whole \in V /\ Stops(whole)
  <2>1. path[M] \in V /\ (Stops(path[M]) \/ Len(path[M]) = M + 1)
    BY <1>0, <1>13
  <2>2. Len(path[M]) <= M
    BY <1>4, <2>1, DescentLaw
  <2>3. Len(path[M]) # M + 1
    BY <1>0, <1>4, <2>1, <2>2
  <2> QED BY <1>10, <2>1, <2>3
<1> DEFINE last == whole[Len(whole)]
<1>15. (valid /\ first[last] # None) => Untried(Children(first, next, last), token, p[last])
  <2> SUFFICES ASSUME valid, first[last] # None PROVE Untried(Children(first, next, last), token, p[last])
    OBVIOUS
  <2>1. PickAt(last) = None
    BY <1>14 DEF Stops
  <2>2. last \in 0 .. N
    BY <1>4, <1>14
  <2> HIDE DEF last
  <2> QED BY <1>0, <1>3, <2>1, <2>2
<1>16. Followed(whole, parents, N, token, p)
  BY <1>14 DEF V
<1> DEFINE followed == TreePath(valid, first, next, token, p, coins)
<1>17. followed.nodes = whole /\ followed.residual = (valid /\ first[last] # None)
  BY <1>2
<1> HIDE DEF followed
<1>18. /\ Followed(followed.nodes, parents, N, token, p)
       /\ followed.residual =>
            Untried(Children(first, next, followed.nodes[Len(followed.nodes)]), token,
                    p[followed.nodes[Len(followed.nodes)]])
  BY <1>15, <1>16, <1>17
<1> QED BY <1>18 DEF followed, first, next

\* What follows the path is probable: its end has a token that was not tried.
LEMMA TreeBonusLaw ==
  ASSUME NEW parents, NEW N, Tree(parents, N), NEW token, NEW p, TreeTokens(N, token, p),
         NEW path, Followed(path.nodes, parents, N, token, p),
         path.residual => Untried(Children(FirstChild(parents), NextSibling(parents), path.nodes[Len(path.nodes)]),
                                  token, p[path.nodes[Len(path.nodes)]]),
         NEW bonus \in TreeBonus(Tokens, FirstChild(parents), NextSibling(parents), token, p, path)
  PROVE  /\ path.nodes[Len(path.nodes)] \in 0 .. N
         /\ bonus \in Tokens /\ p[path.nodes[Len(path.nodes)]][bonus] > 0
<1> DEFINE last == path.nodes[Len(path.nodes)]
           children == Children(FirstChild(parents), NextSibling(parents), last)
           tried == IF path.residual THEN {token[children[i]] : i \in DOMAIN children} ELSE {}
           left == {t \in Tokens : p[last][t] > 0} \ tried
           q == p[last]
<1>1. last \in 0 .. N
  <2>1. path.nodes \in Seq(0 .. N) /\ Len(path.nodes) >= 1
    BY DEF Followed, Descends
  <2>2. Len(path.nodes) \in 1 .. Len(path.nodes)
    BY <2>1, LenProperties
  <2> QED BY <2>1, <2>2, ElementOfSeq
<1>2. bonus \in IF left = {} THEN {None} ELSE left
  BY DEF TreeBonus
<1>3. q \in [Tokens -> 0 .. Unit] /\ Sum(q, Tokens) = Unit
  BY <1>1 DEF TreeTokens
<1>4. DOMAIN children = 1 .. Len(children)
  <2>1. children \in Seq(1 .. N)
    BY <1>1, ChildrenLaw
  <2> QED BY <2>1, LenProperties
<1>5. left # {}
  <2>1. CASE path.residual
    <3>1. PICK t \in Tokens : q[t] > 0 /\ \A i \in 1 .. Len(children) : token[children[i]] # t
      BY <2>1 DEF Untried
    <3> HIDE DEF children
    <3>2. t \notin tried
      BY <1>4, <3>1
    <3> QED BY <3>1, <3>2
  <2>2. CASE ~path.residual
    <3> SUFFICES ASSUME \A t \in Tokens : ~(q[t] > 0) PROVE FALSE
      BY <2>2
    <3> HIDE DEF q
    <3>1. Unit \in Nat \ {0} /\ IsFiniteSet(Tokens)
      BY Numbers
    <3>2. \A t \in Tokens : q[t] = 0
      <4>1. \A t \in Tokens : q[t] \in Nat
        BY <1>3, <3>1
      <4> QED BY <4>1
    <3>3. q = [t \in Tokens |-> 0]
      <4>1. q = [t \in Tokens |-> q[t]]
        BY <1>3
      <4> QED BY <3>2, <4>1
    <3>4. Sum(q, Tokens) = 0
      BY <3>1, <3>3, SumZero
    <3> QED BY <1>3, <3>1, <3>4
  <2> QED BY <2>1, <2>2
<1>6. bonus \in left
  <2> HIDE DEF left
  <2> QED BY <1>2, <1>5
<1> QED BY <1>1, <1>6

\* A path has only nodes after the root, and no more than there are up to its own.
LEMMA PathBound ==
  ASSUME NEW parents, NEW N, Tree(parents, N), NEW node \in 0 .. N
  PROVE  Path(parents, node) \in Seq(1 .. N) /\ Len(Path(parents, node)) <= node
<1> DEFINE T == {n \in Nat : n <= N => Path(parents, n) \in Seq(1 .. N) /\ Len(Path(parents, n)) <= n}
<1>0. N \in Nat
  BY DEF Tree
<1>1. ASSUME NEW n \in 0 .. N, (0 .. (n - 1)) \subseteq T PROVE n \in T
  <2>1. CASE n = 0
    <3>1. Path(parents, 0) = <<>>
      BY PathLaw
    <3>2. <<>> \in Seq(1 .. N) /\ Len(<<>>) <= 0
      OBVIOUS
    <3> QED BY <2>1, <3>1, <3>2
  <2>2. CASE n # 0
    <3> DEFINE a == parents[n]
    <3>1. n \in 1 .. N
      BY <1>0, <2>2
    <3>2. a \in 0 .. (n - 1) /\ Path(parents, n) = Append(Path(parents, a), n)
      BY <3>1, PathLaw DEF Tree
    <3>3. a \in T /\ a <= N /\ a <= n - 1
      BY <1>0, <1>1, <3>1, <3>2
    <3>4. Path(parents, a) \in Seq(1 .. N) /\ Len(Path(parents, a)) <= a
      BY <3>3
    <3> DEFINE v == Path(parents, a)
    <3> HIDE DEF v, a
    <3>5. v \in Seq(1 .. N) /\ Len(v) <= a /\ Len(v) \in Nat
      BY <3>4, LenProperties DEF v
    <3>6. Append(v, n) \in Seq(1 .. N) /\ Len(Append(v, n)) = Len(v) + 1
      BY <3>1, <3>5
    <3>7. Path(parents, n) = Append(v, n)
      BY <3>2 DEF v
    <3>8. Path(parents, n) \in Seq(1 .. N) /\ Len(Path(parents, n)) <= n
      BY <1>0, <3>1, <3>2, <3>3, <3>5, <3>6, <3>7
    <3> QED BY <3>1, <3>8
  <2> QED BY <2>1, <2>2
<1>2. (0 .. N) \subseteq T
  <2> HIDE DEF T
  <2> QED BY <1>0, <1>1, StrongInduction, SMTT(30)
<1>3. node \in T
  <2> HIDE DEF T
  <2> QED BY <1>2
<1> QED BY <1>0, <1>3

\* In a pass over a tree: what each node is computed from, and its probabilities.
LEMMA BranchLaw ==
  ASSUME IInv, step = "fed", kind = "tree", NEW row \in Rows
  PROVE  /\ Tree(work.parents, MaxDraft)
         /\ computed[row] + 1 = lengths[row] /\ Reached(row) = history[row] /\ ~Discarded(row)
         /\ LastFed(row) = computed[row] + MaxDraft /\ Len(work.drafts[row]) = MaxDraft
         /\ \A node \in 0 .. MaxDraft :
              /\ Predicts(row, node) = Branch(row, node)
              /\ \A t \in Tokens : P(row, node)[t] = Weight(model, Branch(row, node), t)
         /\ TreeTokens(MaxDraft, work.drafts[row], [node \in 0 .. MaxDraft |-> P(row, node)])
<1>1. ITypes /\ ILengths /\ IPlanned /\ IFed /\ InPass
  BY DEF IInv, InPass
<1>2. /\ work.fed[row] = 1 /\ Len(work.drafts[row]) = MaxDraft /\ computed[row] + 1 = lengths[row]
      /\ work.parents \in Trees /\ MaxDraft \in Nat
  BY <1>1, Numbers DEF IPlanned, ILengths
<1>3. Tree(work.parents, MaxDraft)
  <2> DEFINE parents == work.parents
  <2>1. /\ parents \in [0 .. MaxDraft -> None .. (MaxDraft - 1)] /\ parents[0] = None
        /\ \A n \in 1 .. MaxDraft : 0 <= parents[n] /\ parents[n] < n
    BY <1>2 DEF Trees
  <2> HIDE DEF parents
  <2>2. \A n \in 1 .. MaxDraft : parents[n] \in 0 .. (n - 1)
    <3> SUFFICES ASSUME NEW n \in 1 .. MaxDraft PROVE parents[n] \in 0 .. (n - 1)
      OBVIOUS
    <3>1. n \in 0 .. MaxDraft
      BY <1>2
    <3>2. parents[n] \in None .. (MaxDraft - 1)
      BY <2>1, <3>1
    <3> QED BY <1>2, <2>1, <3>2 DEF None
  <2>3. Tree(parents, MaxDraft)
    BY <1>2, <2>1, <2>2 DEF Tree
  <2> QED BY <2>3 DEF parents
<1>4. /\ history[row] \in Seq(Tokens) /\ Len(history[row]) = computed[row] + 1 /\ computed[row] \in Nat
      /\ Len(history[row]) \in Nat
      /\ work.drafts[row] \in Seq(Tokens) /\ Len(history[row]) + MaxDraft < MaxLength
      /\ LastFed(row) = computed[row] + MaxDraft
  <2>1. /\ history[row] \in Seq(Tokens) /\ Len(history[row]) = lengths[row] /\ computed[row] \in Nat /\ lengths[row] \in Nat
    BY <1>1, RowTypes
  <2>2. /\ work.drafts[row] \in Seq(Tokens) /\ lengths[row] + Len(work.drafts[row]) < MaxLength
        /\ Len(work.query[row]) = work.fed[row] + Len(work.drafts[row])
    BY <1>1, PassLengths
  <2>3. LastFed(row) = computed[row] + (1 + MaxDraft) - 1
    BY <1>2, <2>2 DEF LastFed
  <2>4. LastFed(row) = computed[row] + MaxDraft
    BY <1>2, <2>1, <2>3
  <2> QED BY <1>2, <2>1, <2>2, <2>4
<1>5. Reached(row) = history[row]
  <2>1. Reached(row) = SubSeq(history[row], 1, Len(history[row]))
    BY <1>2, <1>4 DEF Reached
  <2> QED BY <1>4, <2>1, Prefix
<1>6. ~Discarded(row)
  <2>1. ~(computed[row] + 1 < lengths[row])
    BY <1>2, <1>4
  <2> QED BY <1>2, <2>1 DEF Discarded
<1>7. ASSUME NEW node \in 0 .. MaxDraft
      PROVE  /\ Predicts(row, node) = Branch(row, node)
             /\ \A t \in Tokens : P(row, node)[t] = Weight(model, Branch(row, node), t)
             /\ P(row, node) \in [Tokens -> 0 .. Unit] /\ Sum(P(row, node), Tokens) = Unit
  <2> DEFINE d == work.drafts[row]  path == Path(work.parents, node)  s == [j \in DOMAIN path |-> d[path[j]]]
             b == Branch(row, node)
  <2>1. path \in Seq(1 .. MaxDraft) /\ Len(path) <= node
    BY <1>3, PathBound
  <2>2. b = history[row] \o s
    BY DEF Branch
  <2> HIDE DEF path
  <2>3. DOMAIN path = 1 .. Len(path) /\ Len(path) \in Nat
    BY <2>1, LenProperties
  <2>4. s \in Seq(Tokens) /\ Len(s) = Len(path)
    <3>1. \A j \in 1 .. Len(path) : d[path[j]] \in Tokens
      <4> SUFFICES ASSUME NEW j \in 1 .. Len(path) PROVE d[path[j]] \in Tokens
        OBVIOUS
      <4>1. path[j] \in 1 .. Len(d)
        BY <1>2, <2>1, ElementOfSeq
      <4> HIDE DEF d
      <4>2. d \in Seq(Tokens)
        BY <1>4 DEF d
      <4> QED BY <4>1, <4>2, ElementOfSeq
    <3>2. s \in [1 .. Len(path) -> Tokens]
      <4> HIDE DEF d
      <4> QED BY <2>3, <3>1
    <3> HIDE DEF s
    <3> QED BY <2>3, <3>2, FunctionSeq
  <2> HIDE DEF s, b
  <2>5. b \in Seq(Tokens) /\ Len(b) = Len(history[row]) + Len(s)
    BY <1>4, <2>2, <2>4, ConcatProperties
  <2>6. Len(b) <= MaxLength
    BY <1>2, <1>4, <2>1, <2>3, <2>4, <2>5, Numbers, SMTT(30)
  <2>7. /\ \A token \in Tokens : Weight(model, b, token) \in 0 .. Unit
        /\ Sum([token \in Tokens |-> Weight(model, b, token)], Tokens) = Unit
    BY <1>1, <2>5, <2>6, ModelLaw
  <2>8. Predicts(row, node) = b
    <3>1. work.context[row][node + 1] = b
      BY <1>1 DEF IFed, b
    <3>2. work.fed[row] + node = node + 1
      BY <1>2
    <3> QED BY <3>1, <3>2 DEF Predicts
  <2>9. P(row, node) = [token \in Tokens |-> Weight(model, b, token)]
    BY <2>8 DEF P
  <2>10. P(row, node) \in [Tokens -> 0 .. Unit] /\ \A t \in Tokens : P(row, node)[t] = Weight(model, b, t)
    BY <2>7, <2>9
  <2>11. Sum(P(row, node), Tokens) = Unit
    BY <2>7, <2>9
  <2> QED BY <2>8, <2>10, <2>11 DEF b
<1>8. TreeTokens(MaxDraft, work.drafts[row], [node \in 0 .. MaxDraft |-> P(row, node)])
  <2> DEFINE d == work.drafts[row]
  <2>1. \A c \in 1 .. MaxDraft : d[c] \in Tokens
    <3>1. d \in Seq(Tokens) /\ Len(d) = MaxDraft
      BY <1>2, <1>4
    <3> HIDE DEF d
    <3> QED BY <3>1, ElementOfSeq
  <2> HIDE DEF d
  <2>2. TreeTokens(MaxDraft, d, [node \in 0 .. MaxDraft |-> P(row, node)])
    BY <1>7, <2>1 DEF TreeTokens
  <2> QED BY <2>2 DEF d
<1> QED BY <1>2, <1>3, <1>4, <1>5, <1>6, <1>7, <1>8

\* A prefix of a stream with tokens after it.
LEMMA OutPrefix ==
  ASSUME NEW h \in Seq(Tokens), NEW n \in Nat, NEW out, \A i \in 0 .. (n - 1) : out[i] \in Tokens,
         NEW i \in 0 .. n
  PROVE  /\ h \o [j \in 1 .. n |-> out[j - 1]] \in Seq(Tokens)
         /\ Len(h \o [j \in 1 .. n |-> out[j - 1]]) = Len(h) + n
         /\ SubSeq(h \o [j \in 1 .. n |-> out[j - 1]], 1, Len(h) + i) = h \o [j \in 1 .. i |-> out[j - 1]]
         /\ \A k \in 0 .. Len(h) : SubSeq(h \o [j \in 1 .. n |-> out[j - 1]], 1, k) = SubSeq(h, 1, k)
<1> DEFINE t(m) == [j \in 1 .. m |-> out[j - 1]]
<1>1. ASSUME NEW m \in 0 .. n PROVE t(m) \in Seq(Tokens) /\ Len(t(m)) = m /\ \A j \in 1 .. m : t(m)[j] = out[j - 1]
  <2>1. \A j \in 1 .. m : out[j - 1] \in Tokens
    <3> SUFFICES ASSUME NEW j \in 1 .. m PROVE out[j - 1] \in Tokens
      OBVIOUS
    <3>1. j - 1 \in 0 .. (n - 1)
      OBVIOUS
    <3> QED BY <3>1
  <2>2. t(m) \in [1 .. m -> Tokens] /\ m \in Nat
    BY <2>1
  <2>3. \A j \in 1 .. m : t(m)[j] = out[j - 1]
    OBVIOUS
  <2> HIDE DEF t
  <2> QED BY <2>2, <2>3, FunctionSeq
<1>2. n \in 0 .. n
  OBVIOUS
<1> HIDE DEF t
<1>3. SubSeq(t(n), 1, i) = t(i)
  <2>1. i \in 0 .. Len(t(n)) /\ i \in Nat /\ \A j \in 1 .. i : j \in 1 .. n
    BY <1>1, <1>2
  <2>2. SubSeq(t(n), 1, i) \in Seq(Tokens) /\ Len(SubSeq(t(n), 1, i)) = i
        /\ \A j \in 1 .. i : SubSeq(t(n), 1, i)[j] = t(n)[j]
    BY <1>1, <1>2, <2>1, Prefix
  <2>3. \A j \in 1 .. i : SubSeq(t(n), 1, i)[j] = t(i)[j]
    BY <1>1, <1>2, <2>1, <2>2
  <2>4. t(i) \in Seq(Tokens) /\ Len(t(i)) = i
    BY <1>1
  <2> QED BY <2>2, <2>3, <2>4, SeqEqual
<1>4. t(n) \in Seq(Tokens) /\ Len(t(n)) = n
  BY <1>1, <1>2
<1>5. h \o t(n) \in Seq(Tokens) /\ Len(h \o t(n)) = Len(h) + n
  BY <1>4, ConcatProperties
<1>6. SubSeq(h \o t(n), 1, Len(h) + i) = h \o SubSeq(t(n), 1, i)
  BY <1>4, PrefixOfConcat, SMTT(30)
<1>7. \A k \in 0 .. Len(h) : SubSeq(h \o t(n), 1, k) = SubSeq(h, 1, k)
  BY <1>4, PrefixOfConcat
<1> QED BY <1>3, <1>5, <1>6, <1>7 DEF t

\* A row's outcome: a path in the tree, the drafts on it, and one token more.
TreeResult(row, nodes, out) ==
  /\ Descends(nodes, work.parents, MaxDraft)
  /\ out \in [0 .. MaxDraft -> Tokens \cup {None}]
  /\ \A i \in 0 .. (Len(nodes) - 1) :
       /\ out[i] \in Tokens
       /\ Reached(row) \o [j \in 1 .. i |-> out[j - 1]] = Branch(row, nodes[i + 1])
       /\ Streams!Emits(row, Branch(row, nodes[i + 1]), out[i])
  /\ \A i \in Len(nodes) .. MaxDraft : out[i] = None

\* Every outcome of the verification is such a path, of tokens that the model emits.
LEMMA TreeOutcomeLaw ==
  ASSUME IInv, step = "fed", kind = "tree", NEW row \in Rows, NEW o \in TreeOutcomes(row)
  PROVE  TreeResult(row, o.nodes, o.out)
<1> DEFINE p == [node \in 0 .. MaxDraft |-> P(row, node)]
           d == work.drafts[row]
<1>0. ITypes /\ InPass /\ MaxDraft \in Nat
  BY Numbers DEF IInv, InPass
<1>1. /\ Tree(work.parents, MaxDraft) /\ Reached(row) = history[row] /\ Len(d) = MaxDraft
      /\ \A node \in 0 .. MaxDraft : \A t \in Tokens : p[node][t] = Weight(model, Branch(row, node), t)
      /\ TreeTokens(MaxDraft, d, p)
  BY BranchLaw
<1> HIDE DEF d
<1> DEFINE Ends(path) == {TreeOutcome(row, path, bonus) : bonus \in TreeBonuses(row, path)}
<1>2. PICK path \in TreePaths(row) : o \in Ends(path)
  <2>1. o \in UNION {Ends(path) : path \in TreePaths(row)}
    BY DEF TreeOutcomes
  <2> HIDE DEF Ends
  <2> QED BY <2>1
<1>3. PICK bonus \in TreeBonuses(row, path) : o = TreeOutcome(row, path, bonus)
  BY <1>2
<1>4. PICK valid \in BOOLEAN, coins \in [0 .. MaxDraft -> 1 .. Unit] :
        path = TreePath(valid, FirstChild(work.parents), NextSibling(work.parents), d, p, coins)
  <2> DEFINE Walk(valid, coins) ==
               TreePath(valid, FirstChild(work.parents), NextSibling(work.parents), d, p, coins)
  <2>1. path \in {Walk(valid, coins) : valid \in BOOLEAN, coins \in [0 .. MaxDraft -> 1 .. Unit]}
    <3>1. path \in TreePaths(row)
      BY <1>2
    <3>2. TreePaths(row) = {Walk(valid, coins) : valid \in BOOLEAN, coins \in [0 .. MaxDraft -> 1 .. Unit]}
      BY DEF TreePaths, d
    <3> HIDE DEF Walk
    <3> QED BY <3>1, <3>2
  <2> HIDE DEF Walk
  <2>2. PICK valid \in BOOLEAN, coins \in [0 .. MaxDraft -> 1 .. Unit] : path = Walk(valid, coins)
    BY <2>1
  <2> QED BY <2>2 DEF Walk
<1>5. bonus \in TreeBonus(Tokens, FirstChild(work.parents), NextSibling(work.parents), d, p, path)
  BY <1>3 DEF TreeBonuses, d
<1> HIDE DEF p
<1> DEFINE v == path.nodes  n == Len(v) - 1
<1>6. /\ Followed(v, work.parents, MaxDraft, d, p)
      /\ path.residual =>
           Untried(Children(FirstChild(work.parents), NextSibling(work.parents), v[Len(v)]), d, p[v[Len(v)]])
  BY <1>1, <1>4, TreePathLaw
<1>7. v[Len(v)] \in 0 .. MaxDraft /\ bonus \in Tokens /\ p[v[Len(v)]][bonus] > 0
  BY <1>1, <1>5, <1>6, TreeBonusLaw
<1>8. Descends(v, work.parents, MaxDraft)
  BY <1>6 DEF Followed
<1>9. v \in Seq(0 .. MaxDraft) /\ Len(v) \in Nat /\ n \in Nat /\ n <= MaxDraft /\ Len(v) = n + 1
  <2>1. v \in Seq(0 .. MaxDraft) /\ Len(v) >= 1
    BY <1>8 DEF Descends
  <2>2. Len(v) <= MaxDraft + 1
    BY <1>1, <1>8, DescentLaw
  <2>3. Len(v) \in Nat
    BY <2>1, LenProperties
  <2> QED BY <1>0, <2>1, <2>2, <2>3
<1>10. o = [nodes |-> v, out |-> [i \in 0 .. MaxDraft |-> CASE i < n -> d[v[i + 2]]
                                                            [] i = n -> bonus
                                                            [] i > n -> None]]
  BY <1>3 DEF TreeOutcome, d
<1> DEFINE out == o.out
<1>11. /\ o.nodes = v /\ DOMAIN out = 0 .. MaxDraft /\ out = [i \in 0 .. MaxDraft |-> out[i]]
       /\ \A i \in 0 .. MaxDraft : /\ i < n => out[i] = d[v[i + 2]]
                                   /\ i = n => out[i] = bonus
                                   /\ i > n => out[i] = None
  <2> DEFINE g == [i \in 0 .. MaxDraft |-> CASE i < n -> d[v[i + 2]]
                                             [] i = n -> bonus
                                             [] i > n -> None]
  <2>1. o.nodes = v /\ out = g
    BY <1>10
  <2>2. \A i \in 0 .. MaxDraft : /\ i < n => g[i] = d[v[i + 2]]
                                 /\ i = n => g[i] = bonus
                                 /\ i > n => g[i] = None
    <3> SUFFICES ASSUME NEW i \in 0 .. MaxDraft
                 PROVE  /\ i < n => g[i] = d[v[i + 2]]
                        /\ i = n => g[i] = bonus
                        /\ i > n => g[i] = None
      OBVIOUS
    <3>1. i \in Int /\ n \in Int
      BY <1>9
    <3> HIDE DEF n
    <3> QED BY <3>1
  <2>3. DOMAIN g = 0 .. MaxDraft /\ g = [i \in 0 .. MaxDraft |-> g[i]]
    OBVIOUS
  <2> HIDE DEF g
  <2> QED BY <2>1, <2>2, <2>3
<1> HIDE DEF out, v, n
<1>12. ASSUME NEW i \in 0 .. n
       PROVE  v[i + 1] \in 0 .. MaxDraft /\ out[i] \in Tokens /\ p[v[i + 1]][out[i]] > 0
  <2>0. i \in 0 .. MaxDraft /\ i \in Nat /\ i + 1 \in 1 .. Len(v)
    BY <1>0, <1>9
  <2>1. v[i + 1] \in 0 .. MaxDraft
    BY <1>9, <2>0, ElementOfSeq
  <2>2. CASE i = n
    BY <1>7, <1>9, <1>11, <2>0, <2>1, <2>2 DEF v
  <2>3. CASE i # n
    <3>1. i < n /\ i + 1 \in 1 .. (Len(v) - 1) /\ (i + 1) + 1 = i + 2 /\ i \in Nat /\ n \in Nat
      BY <1>9, <2>0, <2>3
    <3>2. out[i] = d[v[i + 2]]
      BY <1>11, <2>0, <3>1
    <3>3. p[v[i + 1]][d[v[(i + 1) + 1]]] > 0
      BY <1>6, <3>1 DEF Followed, v
    <3>4. v[(i + 1) + 1] \in 1 .. MaxDraft
      BY <1>8, <3>1 DEF Descends, v
    <3>5. d[v[i + 2]] \in Tokens
      BY <1>1, <3>1, <3>4 DEF TreeTokens
    <3> QED BY <2>1, <3>1, <3>2, <3>3, <3>5
  <2> QED BY <2>2, <2>3
<1>13. ASSUME NEW i \in 0 .. n
       PROVE  Reached(row) \o [j \in 1 .. i |-> out[j - 1]] = Branch(row, v[i + 1])
  <2> DEFINE q == [j \in 1 .. i |-> v[j + 1]]
  <2>1. Path(work.parents, v[i + 1]) = q
    <3>1. i \in 0 .. (Len(v) - 1)
      BY <1>9
    <3> QED BY <1>1, <1>8, <3>1, DescentLaw DEF v
  <2>2. Branch(row, v[i + 1]) = history[row] \o [j \in DOMAIN q |-> d[q[j]]]
    BY <2>1 DEF Branch, d
  <2>3. [j \in DOMAIN q |-> d[q[j]]] = [j \in 1 .. i |-> out[j - 1]]
    <3>1. ASSUME NEW j \in 1 .. i PROVE d[v[j + 1]] = out[j - 1]
      <4>1. j - 1 \in 0 .. MaxDraft /\ j - 1 < n /\ (j - 1) + 2 = j + 1
        BY <1>0, <1>9
      <4> QED BY <1>11, <4>1
    <3>2. [j \in DOMAIN q |-> d[q[j]]] = [j \in 1 .. i |-> d[v[j + 1]]]
      OBVIOUS
    <3> HIDE DEF q
    <3> QED BY <3>1, <3>2
  <2> HIDE DEF q
  <2> QED BY <1>1, <2>2, <2>3
<1>14. policy[row] = "random"
  BY <1>0, Policies DEF IsBeam
<1>15. ASSUME NEW i \in 0 .. n PROVE Streams!Emits(row, Branch(row, v[i + 1]), out[i])
  <2> DEFINE b == Branch(row, v[i + 1])
  <2>1. Weight(model, b, out[i]) > 0
    BY <1>1, <1>12
  <2> HIDE DEF b
  <2>2. Streams!Emits(row, b, out[i])
    BY <1>14, <2>1 DEF Streams!Emits
  <2> QED BY <2>2 DEF b
<1>16. \A i \in 0 .. MaxDraft : i \in 0 .. n \/ i > n
  BY <1>9
<1>17. out \in [0 .. MaxDraft -> Tokens \cup {None}]
  BY <1>11, <1>12, <1>16
<1>18. \A i \in Len(v) .. MaxDraft : out[i] = None
  <2> SUFFICES ASSUME NEW i \in Len(v) .. MaxDraft PROVE out[i] = None
    OBVIOUS
  <2>1. i \in 0 .. MaxDraft /\ i > n
    BY <1>0, <1>9
  <2> QED BY <1>11, <2>1
<1>19. Len(v) - 1 = n
  BY <1>9
<1>20. Descends(v, work.parents, MaxDraft)
  BY <1>8 DEF v
<1>21. TreeResult(row, v, out)
  BY <1>12, <1>13, <1>15, <1>17, <1>18, <1>19, <1>20 DEF TreeResult
<1> QED BY <1>11, <1>21 DEF out

\* The node whose entry is moved to a slot, if there is one.
Moved(nodes, slot) ==
  {m \in Rows \X (0 .. MaxDraft) :
     /\ \E i \in DOMAIN nodes[m[1]] : nodes[m[1]][i] = m[2]
     /\ slot = Slot(table, m[1], computed[m[1]] + Depths(work.parents)[m[2]])}

\* The nodes of the paths are moved behind each other, each to a place of its own, and
\* nothing that was computed before is touched.
LEMMA MovedLaw ==
  ASSUME IInv, step = "fed", kind = "tree", NEW nodes,
         \A row \in Rows : Descends(nodes[row], work.parents, MaxDraft), NEW row \in Rows
  PROVE  /\ \A p \in 0 .. (computed[row] + MaxDraft) :
              /\ p \in Nat /\ ~Lacks(row, p) /\ p \div BlockSize \in Columns
              /\ Slot(table, row, p) \in DOMAIN cache
         /\ \A p \in 0 .. (computed[row] - 1) : Moved(nodes, Slot(table, row, p)) = {}
         /\ \A i \in 0 .. (Len(nodes[row]) - 1) :
              Moved(nodes, Slot(table, row, computed[row] + i)) = {<<row, nodes[row][i + 1]>>}
<1>1. ITypes /\ IBlocks /\ IFed /\ MaxDraft \in Nat /\ kind # "remap" /\ IPlanned /\ InPass
  BY Numbers DEF IInv, InPass
<1>2. ASSUME NEW r \in Rows
      PROVE  /\ Tree(work.parents, MaxDraft) /\ computed[r] \in Nat
             /\ \A p \in 0 .. (computed[r] + MaxDraft) :
                  /\ p \in Nat /\ ~Lacks(r, p) /\ p \div BlockSize \in Columns
                  /\ Slot(table, r, p) \in DOMAIN cache
  <2>1. LastFed(r) = computed[r] + MaxDraft /\ computed[r] \in Nat /\ Tree(work.parents, MaxDraft)
    BY <1>1, BranchLaw, RowTypes
  <2>2. LastFed(r) \in Nat /\ LastFed(r) \div BlockSize \in Columns /\ ~Lacks(r, LastFed(r))
    BY <1>1, PassLengths DEF IFed
  <2>3. ASSUME NEW p \in 0 .. (computed[r] + MaxDraft)
        PROVE  /\ p \in Nat /\ ~Lacks(r, p) /\ p \div BlockSize \in Columns
               /\ Slot(table, r, p) \in DOMAIN cache
    <3>1. p \in Nat /\ p <= LastFed(r)
      BY <1>1, <2>1
    <3>2. ~Lacks(r, p) /\ p \div BlockSize \in Columns
      BY <1>1, <2>2, <3>1, BlocksBefore
    <3>3. Slot(table, r, p) \in DOMAIN cache
      BY <1>1, <3>1, <3>2, SlotOfRow
    <3> QED BY <3>1, <3>2, <3>3
  <2> QED BY <2>1, <2>3
<1>3. ASSUME NEW w, Descends(w, work.parents, MaxDraft)
      PROVE  /\ Len(w) <= MaxDraft + 1
             /\ \A j \in 0 .. (Len(w) - 1) :
                  w[j + 1] \in 0 .. MaxDraft /\ Depths(work.parents)[w[j + 1]] = j
  <2>1. Tree(work.parents, MaxDraft)
    BY <1>2
  <2>2. /\ Len(w) <= MaxDraft + 1
        /\ \A i \in 0 .. (Len(w) - 1) :
             /\ w[i + 1] \in 0 .. MaxDraft /\ Depths(work.parents)[w[i + 1]] = i
             /\ Path(work.parents, w[i + 1]) = [j \in 1 .. i |-> w[j + 1]]
    BY <1>3, <2>1, DescentLaw
  <2> QED BY <2>2, Zenon
<1>4. ASSUME NEW p \in 0 .. (computed[row] + MaxDraft), NEW m \in Moved(nodes, Slot(table, row, p))
      PROVE  /\ p - computed[row] \in 0 .. (Len(nodes[row]) - 1)
             /\ m = <<row, nodes[row][p - computed[row] + 1]>>
  <2> DEFINE r == m[1]  v == nodes[r]  depth == Depths(work.parents)[m[2]]  q == computed[r] + depth
  <2>1. r \in Rows /\ m[2] \in 0 .. MaxDraft /\ m = <<m[1], m[2]>>
    BY DEF Moved
  <2>2. PICK k \in DOMAIN v : v[k] = m[2]
    BY DEF Moved
  <2>3. Slot(table, row, p) = Slot(table, r, q)
    BY DEF Moved
  <2>4. Descends(v, work.parents, MaxDraft) /\ Tree(work.parents, MaxDraft) /\ computed[r] \in Nat
    BY <1>2, <2>1
  <2>5. DOMAIN v = 1 .. Len(v) /\ Len(v) \in Nat
    <3>1. v \in Seq(0 .. MaxDraft)
      BY <2>4 DEF Descends
    <3> QED BY <3>1, LenProperties
  <2> DEFINE i == k - 1
  <2>6. i \in 0 .. (Len(v) - 1) /\ i + 1 = k /\ i \in 0 .. MaxDraft /\ depth = i
    <3>1. i \in 0 .. (Len(v) - 1) /\ i + 1 = k
      BY <2>2, <2>5
    <3> HIDE DEF i, v
    <3>2. Len(v) <= MaxDraft + 1 /\ Depths(work.parents)[v[i + 1]] = i
      BY <1>3, <2>4, <3>1
    <3>3. i \in 0 .. MaxDraft
      BY <1>1, <2>5, <3>1, <3>2
    <3> QED BY <2>2, <3>1, <3>2, <3>3
  <2> HIDE DEF i, depth, v
  <2>7. q = computed[r] + i /\ q \in 0 .. (computed[r] + MaxDraft)
    BY <1>1, <2>4, <2>6
  <2> HIDE DEF q
  <2>8. q \in Nat /\ ~Lacks(r, q) /\ q \div BlockSize \in Columns
    BY <1>2, <2>1, <2>7
  <2>9. p \in Nat /\ ~Lacks(row, p) /\ p \div BlockSize \in Columns
    BY <1>2
  <2> HIDE DEF r
  <2>10. p = q /\ row = r
    BY <1>1, <2>1, <2>3, <2>8, <2>9, SlotsDiffer
  <2>11. p - computed[row] = i
    BY <2>4, <2>6, <2>7, <2>10
  <2>12. v = nodes[row] /\ m = <<row, m[2]>> /\ m[2] = nodes[row][i + 1]
    BY <2>1, <2>2, <2>6, <2>10 DEF v, r
  <2> QED BY <2>6, <2>11, <2>12
<1>5. ASSUME NEW p \in 0 .. (computed[row] - 1) PROVE Moved(nodes, Slot(table, row, p)) = {}
  <2>1. p \in 0 .. (computed[row] + MaxDraft) /\ p - computed[row] < 0
    BY <1>1, <1>2
  <2> SUFFICES ASSUME NEW m \in Moved(nodes, Slot(table, row, p)) PROVE FALSE
    OBVIOUS
  <2>2. p - computed[row] \in 0 .. (Len(nodes[row]) - 1)
    BY <1>4, <2>1
  <2> QED BY <2>1, <2>2
<1>6. ASSUME NEW i \in 0 .. (Len(nodes[row]) - 1)
      PROVE  Moved(nodes, Slot(table, row, computed[row] + i)) = {<<row, nodes[row][i + 1]>>}
  <2> DEFINE v == nodes[row]  p == computed[row] + i
  <2>1. Descends(v, work.parents, MaxDraft) /\ Tree(work.parents, MaxDraft) /\ computed[row] \in Nat
    BY <1>2
  <2>2. DOMAIN v = 1 .. Len(v) /\ Len(v) \in Nat
    <3>1. v \in Seq(0 .. MaxDraft)
      BY <2>1 DEF Descends
    <3> QED BY <3>1, LenProperties
  <2>3. i + 1 \in DOMAIN v /\ i \in Nat
    BY <2>2
  <2>4. Len(v) <= MaxDraft + 1 /\ v[i + 1] \in 0 .. MaxDraft /\ Depths(work.parents)[v[i + 1]] = i
    <3> HIDE DEF v
    <3>1. i \in 0 .. (Len(v) - 1)
      BY DEF v
    <3> QED BY <1>3, <2>1, <3>1
  <2>5. p \in 0 .. (computed[row] + MaxDraft) /\ p - computed[row] = i
    <3> DEFINE n == Len(v)
    <3>1. n \in Nat /\ n <= MaxDraft + 1 /\ i \in 0 .. (n - 1)
      BY <2>2, <2>4
    <3> HIDE DEF n
    <3> QED BY <1>1, <2>1, <3>1
  <2>6. <<row, v[i + 1]>> \in Moved(nodes, Slot(table, row, p))
    <3> DEFINE m == <<row, v[i + 1]>>
    <3>1. m \in Rows \X (0 .. MaxDraft) /\ m[1] = row /\ m[2] = v[i + 1]
      BY <2>4
    <3>2. \E k \in DOMAIN nodes[m[1]] : nodes[m[1]][k] = m[2]
      BY <2>3, <3>1
    <3>3. Slot(table, row, p) = Slot(table, m[1], computed[m[1]] + Depths(work.parents)[m[2]])
      BY <2>4, <3>1
    <3> HIDE DEF m, p
    <3>4. m \in Moved(nodes, Slot(table, row, p))
      BY <3>1, <3>2, <3>3 DEF Moved
    <3> QED BY <3>4 DEF m
  <2> HIDE DEF p
  <2>7. \A m \in Moved(nodes, Slot(table, row, p)) : m = <<row, v[i + 1]>>
    BY <1>4, <2>5
  <2> HIDE DEF v
  <2>8. Moved(nodes, Slot(table, row, p)) = {<<row, v[i + 1]>>}
    BY <2>6, <2>7
  <2> QED BY <2>8 DEF p, v
<1> QED BY <1>2, <1>5, <1>6

\* A tree's verification gives every row an outcome, and leaves what it keeps of the tree
\* behind what was computed before.
LEMMA VerifyTreeStep == ASSUME IInv, VerifyTree PROVE IInv'
<1>1. step = "fed" /\ kind = "tree" /\ step' = "sampled" /\ ITypes /\ IPlanned /\ IFed /\ InPass /\ CacheHoldsHistory
  BY ZenonT(60) DEF VerifyTree, IInv, InPass
<1>2. UNCHANGED <<streams, history, scores, lengths, computed, table>>
  BY DEF VerifyTree
<1>3. ~IsBeam /\ MaxDraft \in Nat
  BY <1>1, Numbers DEF IsBeam
<1> DEFINE Text(outcome, slot) ==
             {m \in Rows \X (0 .. MaxDraft) :
                /\ \E i \in DOMAIN outcome[m[1]].nodes : outcome[m[1]].nodes[i] = m[2]
                /\ slot = Slot(table, m[1], computed[m[1]] + Depths(work.parents)[m[2]])}
           Place(outcome, slot) ==
             LET m == CHOOSE m \in Text(outcome, slot) : TRUE
             IN IF Text(outcome, slot) = {} THEN cache[slot] ELSE cache[Slot(table, m[1], computed[m[1]] + m[2])]
<1>4. PICK outcome :
        /\ \A row \in Rows : outcome[row] \in TreeOutcomes(row)
        /\ cache' = [slot \in DOMAIN cache |-> Place(outcome, slot)]
        /\ work' = [fed |-> work.fed, drafts |-> work.drafts, query |-> work.query,
                    out |-> [row \in Rows |-> outcome[row].out]]
  BY ZenonT(60) DEF VerifyTree, EachRow
<1> DEFINE nodes == [row \in Rows |-> outcome[row].nodes]
           out == [row \in Rows |-> outcome[row].out]
<1>5. \A row \in Rows : TreeResult(row, nodes[row], out[row])
  BY <1>1, <1>4, TreeOutcomeLaw
<1>6. \A slot : Text(outcome, slot) = Moved(nodes, slot)
  <2> SUFFICES ASSUME NEW slot PROVE Text(outcome, slot) = Moved(nodes, slot)
    OBVIOUS
  <2>1. \A m \in Rows \X (0 .. MaxDraft) : outcome[m[1]].nodes = nodes[m[1]]
    OBVIOUS
  <2> HIDE DEF nodes
  <2> QED BY <2>1 DEF Moved
<1>7. work'.out = out /\ work'.fed = work.fed /\ work'.drafts = work.drafts /\ work'.query = work.query
  BY <1>4
<1> DEFINE Taker(slot) == CHOOSE m \in Moved(nodes, slot) : TRUE
<1>8. /\ DOMAIN cache' = DOMAIN cache /\ cache' = [slot \in DOMAIN cache' |-> cache'[slot]]
      /\ \A slot \in DOMAIN cache :
           /\ Moved(nodes, slot) = {} => cache'[slot] = cache[slot]
           /\ \A m : Moved(nodes, slot) = {m} => cache'[slot] = cache[Slot(table, m[1], computed[m[1]] + m[2])]
  <2>1. \A slot \in DOMAIN cache :
          cache'[slot] = IF Moved(nodes, slot) = {} THEN cache[slot]
                         ELSE cache[Slot(table, Taker(slot)[1], computed[Taker(slot)[1]] + Taker(slot)[2])]
    <3> SUFFICES ASSUME NEW slot \in DOMAIN cache
                 PROVE  cache'[slot] = IF Moved(nodes, slot) = {} THEN cache[slot]
                         ELSE cache[Slot(table, Taker(slot)[1], computed[Taker(slot)[1]] + Taker(slot)[2])]
      OBVIOUS
    <3>1. cache'[slot] = Place(outcome, slot)
      BY <1>4
    <3>2. Text(outcome, slot) = Moved(nodes, slot)
      BY <1>6
    <3> HIDE DEF Text, nodes
    <3> QED BY <3>1, <3>2
  <2> HIDE DEF nodes
  <2>2. ASSUME NEW slot, NEW m, Moved(nodes, slot) = {m} PROVE Taker(slot) = m
    BY <2>2
  <2>3. DOMAIN cache' = DOMAIN cache /\ cache' = [slot \in DOMAIN cache' |-> cache'[slot]]
    <3> HIDE DEF Place
    <3> QED BY <1>4
  <2> HIDE DEF Taker
  <2> QED BY <2>1, <2>2, <2>3
<1> HIDE DEF Text, Place, Taker, nodes, out
<1>9. \A row \in Rows : Descends(nodes[row], work.parents, MaxDraft)
  BY <1>5 DEF TreeResult
<1>10. ASSUME NEW row \in Rows
       PROVE  /\ \A p \in 0 .. (computed[row] - 1) :
                   cache'[Slot(table, row, p)] = cache[Slot(table, row, p)]
              /\ \E n \in 0 .. Len(work.drafts[row]) : Outcome(row, out[row], n, cache')
  <2> DEFINE v == nodes[row]  c == computed[row]  n == Len(v) - 1  o == out[row]
             t == Reached(row) \o [j \in 1 .. n |-> o[j - 1]]
  <2>1. /\ Tree(work.parents, MaxDraft) /\ c + 1 = lengths[row] /\ Reached(row) = history[row] /\ ~Discarded(row)
        /\ Len(work.drafts[row]) = MaxDraft
    BY <1>1, BranchLaw
  <2>2. /\ \A p \in 0 .. (c + MaxDraft) : ~Lacks(row, p) /\ Slot(table, row, p) \in DOMAIN cache
        /\ \A p \in 0 .. (c - 1) : Moved(nodes, Slot(table, row, p)) = {}
        /\ \A i \in 0 .. (Len(v) - 1) : Moved(nodes, Slot(table, row, c + i)) = {<<row, v[i + 1]>>}
    BY <1>1, <1>9, MovedLaw
  <2>3. /\ Descends(v, work.parents, MaxDraft) /\ o \in [0 .. MaxDraft -> Tokens \cup {None}]
        /\ \A i \in 0 .. (Len(v) - 1) :
             /\ o[i] \in Tokens
             /\ Reached(row) \o [j \in 1 .. i |-> o[j - 1]] = Branch(row, v[i + 1])
             /\ Streams!Emits(row, Branch(row, v[i + 1]), o[i])
        /\ \A i \in Len(v) .. MaxDraft : o[i] = None
    BY <1>5 DEF TreeResult
  <2>4. history[row] \in Seq(Tokens) /\ Len(history[row]) = c + 1 /\ c \in Nat
    BY <1>1, <2>1, RowTypes
  <2>5. v \in Seq(0 .. MaxDraft) /\ n \in Nat /\ n + 1 = Len(v) /\ n <= MaxDraft
    <3> HIDE DEF v
    <3>1. v \in Seq(0 .. MaxDraft) /\ Len(v) >= 1
      BY <2>3 DEF Descends
    <3>2. Len(v) <= MaxDraft + 1
      BY <2>1, <2>3, DescentLaw
    <3>3. Len(v) \in Nat
      BY <3>1, LenProperties
    <3> QED BY <1>3, <3>1, <3>2, <3>3
  <2> HIDE DEF v, o, c, n
  <2>6. \A p \in 0 .. (c - 1) : p \in 0 .. (c + MaxDraft)
    BY <1>3, <2>4
  <2>7. \A p \in 0 .. (c - 1) : cache'[Slot(table, row, p)] = cache[Slot(table, row, p)]
    BY <1>8, <2>2, <2>6
  <2>8. ASSUME NEW i \in 0 .. n
        PROVE  cache'[Slot(table, row, c + i)] = Branch(row, v[i + 1])
    <3>1. c + i \in 0 .. (c + MaxDraft) /\ i \in 0 .. (Len(v) - 1) /\ i + 1 \in 1 .. Len(v)
      BY <1>3, <2>4, <2>5
    <3> DEFINE m == <<row, v[i + 1]>>
    <3>2. Slot(table, row, c + i) \in DOMAIN cache /\ Moved(nodes, Slot(table, row, c + i)) = {m}
      BY <2>2, <3>1
    <3>3. m[1] = row /\ m[2] = v[i + 1]
      OBVIOUS
    <3> HIDE DEF m
    <3>4. cache'[Slot(table, row, c + i)] = cache[Slot(table, m[1], computed[m[1]] + m[2])]
      BY <1>8, <3>2
    <3>5. cache'[Slot(table, row, c + i)] = cache[Slot(table, row, c + v[i + 1])]
      BY <3>3, <3>4 DEF c
    <3>6. v[i + 1] \in 0 .. MaxDraft
      BY <2>5, <3>1, ElementOfSeq
    <3>7. cache[Slot(table, row, c + v[i + 1])] = Branch(row, v[i + 1])
      BY <1>1, <3>6 DEF IFed, c
    <3> QED BY <3>5, <3>7
  <2>9. n \in 0 .. Len(work.drafts[row]) /\ n \in 0 .. n /\ \A i \in 0 .. n : i \in 0 .. (Len(v) - 1)
    BY <2>1, <2>5
  <2>10. \A i \in 0 .. (n - 1) : o[i] \in Tokens
    <3>1. \A i \in 0 .. (n - 1) : i \in 0 .. (Len(v) - 1)
      BY <2>5
    <3> QED BY <2>3, <3>1
  <2>11. ASSUME NEW i \in 0 .. n
         PROVE  /\ t \in Seq(Tokens) /\ Len(t) = (c + 1) + n
                /\ SubSeq(t, 1, (c + 1) + i) = Reached(row) \o [j \in 1 .. i |-> o[j - 1]]
                /\ \A k \in 0 .. (c + 1) : SubSeq(t, 1, k) = SubSeq(history[row], 1, k)
    <3> DEFINE h == history[row]
    <3>1. h \in Seq(Tokens) /\ Len(h) = c + 1 /\ Reached(row) = h
      BY <2>1, <2>4
    <3> HIDE DEF h
    <3>2. /\ h \o [j \in 1 .. n |-> o[j - 1]] \in Seq(Tokens)
          /\ Len(h \o [j \in 1 .. n |-> o[j - 1]]) = Len(h) + n
          /\ SubSeq(h \o [j \in 1 .. n |-> o[j - 1]], 1, Len(h) + i) = h \o [j \in 1 .. i |-> o[j - 1]]
          /\ \A k \in 0 .. Len(h) : SubSeq(h \o [j \in 1 .. n |-> o[j - 1]], 1, k) = SubSeq(h, 1, k)
      BY <2>5, <2>10, <3>1, OutPrefix
    <3>3. t = h \o [j \in 1 .. n |-> o[j - 1]]
      BY <3>1
    <3> HIDE DEF t
    <3>4. t \in Seq(Tokens) /\ Len(t) = (c + 1) + n
          /\ SubSeq(t, 1, (c + 1) + i) = h \o [j \in 1 .. i |-> o[j - 1]]
          /\ \A k \in 0 .. (c + 1) : SubSeq(t, 1, k) = SubSeq(h, 1, k)
      BY ONLY <3>1, <3>2, <3>3
    <3> QED BY <3>1, <3>4 DEF h
  <2> HIDE DEF t
  <2>12. ASSUME NEW p \in 0 .. (Len(t) - 1)
         PROVE  ~Lacks(row, p) /\ cache'[Slot(table, row, p)] = SubSeq(t, 1, p + 1)
    <3>1. p \in 0 .. (c + n)
      BY <2>4, <2>5, <2>9, <2>11
    <3>2. ~Lacks(row, p)
      BY <1>3, <2>2, <2>4, <2>5, <3>1
    <3>3. CASE p < c
      <4>1. p \in 0 .. (c - 1) /\ p + 1 \in 0 .. (c + 1)
        BY <2>4, <3>1, <3>3
      <4>2. cache[Slot(table, row, p)] = SubSeq(history[row], 1, p + 1)
        BY <1>1, <4>1 DEF CacheHoldsHistory, c
      <4>3. SubSeq(t, 1, p + 1) = SubSeq(history[row], 1, p + 1)
        BY <2>9, <2>11, <4>1
      <4> QED BY <2>7, <3>2, <4>1, <4>2, <4>3
    <3>4. CASE ~(p < c)
      <4> DEFINE i == p - c
      <4>1. i \in 0 .. n /\ c + i = p /\ (c + 1) + i = p + 1
        BY <2>4, <2>5, <3>1, <3>4
      <4> HIDE DEF i
      <4>2. cache'[Slot(table, row, p)] = Branch(row, v[i + 1])
        BY <2>8, <4>1
      <4>3. SubSeq(t, 1, p + 1) = Branch(row, v[i + 1])
        BY <2>3, <2>9, <2>11, <4>1
      <4> QED BY <3>2, <4>2, <4>3
    <3> QED BY <3>3, <3>4
  <2>13. \A i \in (n + 1) .. MaxDraft : o[i] = None
    BY <2>3, <2>5
  <2>14. Outcome(row, o, n, cache')
    <3>1. \A p \in 0 .. (Len(Reached(row) \o [j \in 1 .. n |-> o[j - 1]]) - 1) :
            /\ ~Lacks(row, p)
            /\ cache'[Slot(table, row, p)] = SubSeq(Reached(row) \o [j \in 1 .. n |-> o[j - 1]], 1, p + 1)
      BY <2>12 DEF t
    <3>2. \A i \in 0 .. n : /\ o[i] \in Tokens
                            /\ Streams!Emits(row, Reached(row) \o [j \in 1 .. i |-> o[j - 1]], o[i])
      BY <2>3, <2>9
    <3> QED BY <1>1, <2>3, <2>13, <3>1, <3>2 DEF Outcome
  <2> QED BY <2>7, <2>9, <2>14 DEF c, o
<1>11. work'.out = [row \in Rows |-> work'.out[row]]
  BY <1>7 DEF out
<1>12. \A row \in Rows : \E n \in 0 .. Len(work.drafts[row]) : Outcome(row, work'.out[row], n, cache')
  BY <1>7, <1>10
<1>13. \A row \in Rows : \A p \in 0 .. (computed[row] - 1) :
         cache'[Slot(table, row, p)] = cache[Slot(table, row, p)]
  BY <1>10
<1> QED BY <1>1, <1>2, <1>3, <1>7, <1>8, <1>11, <1>12, <1>13, SampledStep

\* Every step keeps the inductive invariant.
LEMMA NextStep == IInv /\ [Next]_vars => IInv'
<1> SUFFICES ASSUME IInv, [Next]_vars PROVE IInv'
  OBVIOUS
<1>1. CASE PlanBeams \/ PlanRagged \/ PlanVerify \/ PlanTree
  BY <1>1, PlanBeamsStep, PlanRaggedStep, PlanVerifyStep, PlanTreeStep
<1>2. CASE AllocateForPass \/ Forward
  BY <1>2, AllocateForPassStep, ForwardStep
<1>3. CASE BeamStep \/ ReorderByCopy \/ ReorderByRemap
  BY <1>3, BeamStepStep, ReorderByCopyStep, ReorderByRemapStep
<1>4. CASE RejectionSample \/ SpeculativeVerify \/ VerifyTree
  BY <1>4, RejectionSampleStep, SpeculativeVerifyStep, VerifyTreeStep
<1>5. CASE PrepareNextTokens \/ Commit
  BY <1>5, PrepareNextTokensStep, CommitStep
<1>6. CASE DraftStep \/ DraftStepFails \/ DraftingEnds
  BY <1>6, DraftStepStep, DraftStepFailsStep, DraftingEndsStep
<1>7. CASE Finished \/ UNCHANGED vars
  BY <1>7, StutterStep DEF Finished
<1> QED BY <1>1, <1>2, <1>3, <1>4, <1>5, <1>6, <1>7 DEF Next

\* The cache, the tables and what every function has returned agree with the rows' histories.
THEOREM DecodingInvariant == Spec => []IInv
<1>1. Init => IInv
  BY InitHolds
<1>2. IInv /\ [Next]_vars => IInv'
  BY NextStep
<1> QED BY <1>1, <1>2, PTL DEF Spec

\* No draft that was refused, copy between beams, shared table or block that is used again
\* leaves anything in the cache but what a row has computed of its own history.
THEOREM TheCacheHoldsHistory == Spec => []CacheHoldsHistory
<1>1. IInv => CacheHoldsHistory
  BY DEF IInv
<1> QED BY <1>1, DecodingInvariant, PTL

\* What a step of the draft model writes is not what a row has computed.
LEMMA SpareSlot ==
  ASSUME IInv, step = "drafting", NEW row \in Rows, NEW i \in Nat \ {0},
         computed[row] + i - 1 < MaxLength, ~Lacks(row, computed[row] + i - 1),
         NEW other \in Rows, NEW p \in 0 .. (computed[other] - 1)
  PROVE  Slot(table, row, computed[row] + i - 1) # Slot(table, other, p)
<1> DEFINE q == computed[row] + i - 1
<1>1. ITypes /\ IBlocks /\ CacheHoldsHistory /\ kind = "rejection"
  BY DEF IInv, ISteps
<1>2. computed[row] \in Nat /\ computed[other] \in 0 .. MaxLength /\ MaxLength \in Nat
  BY <1>1, RowTypes, Numbers
<1>3. q \in Nat /\ q < MaxLength /\ q >= computed[row] /\ p \in Nat /\ p < MaxLength /\ p < computed[other]
  BY <1>2
<1>4. ~Lacks(other, p)
  BY <1>1 DEF CacheHoldsHistory
<1> HIDE DEF q
<1>5. q \div BlockSize \in Columns /\ p \div BlockSize \in Columns
  BY <1>3, ColumnPositions
<1>6. SUFFICES ASSUME Slot(table, row, q) = Slot(table, other, p) PROVE FALSE
  BY DEF q
<1>7. ~Lacks(row, q)
  BY DEF q
<1>8. q = p /\ row = other
  BY <1>1, <1>3, <1>4, <1>5, <1>6, <1>7, SlotsDiffer
<1> QED BY <1>2, <1>3, <1>8

\* The steps of the draft model write one position after the other, in blocks of the row,
\* never over what any row has computed, with as many positions as there are then.
THEOREM TheDraftsSpareHistory == Spec => []DraftsSpareHistory
<1>1. ASSUME IInv PROVE DraftsSpareHistory
  <2> SUFFICES ASSUME step = "drafting", NEW row \in Rows
               PROVE  /\ work.rounds > 0 =>
                           work.lengths[row] = IF work.positions[row] >= MaxLength THEN 1 ELSE work.positions[row] + 1
                      /\ \A i \in DOMAIN work.slots[row] :
                           IF computed[row] + i - 1 >= MaxLength THEN work.slots[row][i] = Pad
                           ELSE /\ work.slots[row][i] = Slot(table, row, computed[row] + i - 1)
                                /\ \A other \in Rows : \A p \in 0 .. (computed[other] - 1) :
                                     work.slots[row][i] # Slot(table, other, p)
    BY DEF DraftsSpareHistory
  <2>1. ITypes /\ IDrafts
    BY <1>1 DEF IInv
  <2>2. /\ work.rounds \in Nat /\ work.slots[row] \in Seq(Int) /\ Len(work.slots[row]) = work.rounds
        /\ work.lengths[row] = IF work.rounds > 0 /\ work.positions[row] >= MaxLength THEN 1
                               ELSE work.positions[row] + 1
        /\ \A i \in 1 .. work.rounds :
             IF computed[row] + i - 1 >= MaxLength THEN work.slots[row][i] = Pad
             ELSE ~Lacks(row, computed[row] + i - 1) /\ work.slots[row][i] = Slot(table, row, computed[row] + i - 1)
    BY <2>1 DEF IDrafts
  <2>3. DOMAIN work.slots[row] = 1 .. work.rounds
    BY <2>2, LenProperties
  <2>4. ASSUME NEW i \in 1 .. work.rounds, ~(computed[row] + i - 1 >= MaxLength),
               NEW other \in Rows, NEW p \in 0 .. (computed[other] - 1)
        PROVE  work.slots[row][i] # Slot(table, other, p)
    <3>1. i \in Nat \ {0} /\ computed[row] \in Nat /\ MaxLength \in Nat
      BY <2>1, <2>2, RowTypes, Numbers
    <3>2. computed[row] + i - 1 < MaxLength
      BY <2>4, <3>1
    <3> QED BY <1>1, <2>2, <2>4, <3>1, <3>2, SpareSlot, SMTT(30)
  <2> QED BY <2>2, <2>3, <2>4
<1> QED BY <1>1, DecodingInvariant, PTL

\* Of what a row keeps, the tokens from the one at "first" up to the last one of a prefix
\* are those that its pass has computed, when the prefix is one of what the pass has seen.
LEMMA KeptQuery ==
  ASSUME NEW before \in Seq(Tokens), NEW query \in Seq(Tokens), NEW kept \in Seq(Tokens),
         NEW m \in 0 .. Len(query), Len(before) + m <= Len(kept),
         SubSeq(kept, 1, Len(before) + m) = SubSeq(before \o query, 1, Len(before) + m)
  PROVE  SubSeq(kept, Len(before) + 1, Len(before) + m) = SubSeq(query, 1, m)
<1> DEFINE b == Len(before)  q == Len(query)  k == Len(kept)  all == before \o query
           part == SubSeq(kept, b + 1, b + m)
<1>1. b \in Nat /\ q \in Nat /\ k \in Nat /\ m \in Nat /\ m <= q /\ b + m <= k
  <2>1. b \in Nat /\ q \in Nat /\ k \in Nat
    BY LenProperties
  <2>2. m \in 0 .. q /\ b + m <= k
    OBVIOUS
  <2> HIDE DEF b, q, k
  <2> QED BY ONLY <2>1, <2>2
<1>2. all \in Seq(Tokens) /\ Len(all) = b + q /\ \A i \in 1 .. b + q : all[i] = IF i <= b THEN before[i] ELSE query[i - b]
  BY ConcatProperties
<1> HIDE DEF all
<1>3. b + m \in 0 .. k /\ b + m \in 0 .. Len(all) /\ b + 1 \in Int /\ b + m \in Int
  <2> DEFINE a == Len(all)
  <2>1. a = b + q
    BY <1>2
  <2> HIDE DEF a, b, q, k
  <2>2. b + m \in 0 .. k /\ b + m \in 0 .. a /\ b + 1 \in Int /\ b + m \in Int
    BY ONLY <1>1, <2>1
  <2> QED BY <2>2 DEF a
<1>4. \A i \in 1 .. b + m : SubSeq(kept, 1, b + m)[i] = kept[i] /\ SubSeq(all, 1, b + m)[i] = all[i]
  <2>1. \A i \in 1 .. b + m : SubSeq(kept, 1, b + m)[i] = kept[i]
    <3> HIDE DEF b
    <3> QED BY <1>3, Prefix DEF k
  <2>2. \A i \in 1 .. b + m : SubSeq(all, 1, b + m)[i] = all[i]
    <3> HIDE DEF b
    <3> QED BY <1>2, <1>3, Prefix
  <2> QED BY <2>1, <2>2
<1>5. \A i \in 1 .. b + m : kept[i] = all[i]
  BY <1>4 DEF all
<1>6. part \in Seq(Tokens) /\ Len(part) = m /\ \A i \in 1 .. m : part[i] = kept[b + i]
  <2>1. \A i \in (b + 1) .. (b + m) : kept[i] \in Tokens
    <3>1. \A i \in (b + 1) .. (b + m) : i \in 1 .. k
      <4> HIDE DEF b, k
      <4> QED BY ONLY <1>1
    <3> HIDE DEF b
    <3> QED BY <3>1, ElementOfSeq DEF k
  <2> HIDE DEF b
  <2>2. /\ part \in Seq(Tokens) /\ Len(part) = (IF b + 1 <= b + m THEN (b + m) - (b + 1) + 1 ELSE 0)
        /\ \A i \in 1 .. (b + m) - (b + 1) + 1 : part[i] = kept[(b + 1) + i - 1]
    <3> DEFINE first == b + 1  last == b + m
    <3>1. first \in Int /\ last \in Int /\ \A i \in first .. last : kept[i] \in Tokens
      BY <1>3, <2>1
    <3> HIDE DEF first, last, k, b
    <3>2. /\ SubSeq(kept, first, last) \in Seq(Tokens)
          /\ Len(SubSeq(kept, first, last)) = (IF first <= last THEN last - first + 1 ELSE 0)
          /\ \A i \in 1 .. last - first + 1 : SubSeq(kept, first, last)[i] = kept[first + i - 1]
      BY ONLY <3>1, SubSeqProperties, SMTT(30)
    <3> QED BY <3>2 DEF first, last
  <2> HIDE DEF part
  <2>3. \A i \in 1 .. m : i \in 1 .. (b + m) - (b + 1) + 1 /\ (b + 1) + i - 1 = b + i
    BY ONLY <1>1
  <2>4. (IF b + 1 <= b + m THEN (b + m) - (b + 1) + 1 ELSE 0) = m
    BY ONLY <1>1
  <2> QED BY <2>2, <2>3, <2>4
<1>7. SubSeq(query, 1, m) \in Seq(Tokens) /\ Len(SubSeq(query, 1, m)) = m /\ \A i \in 1 .. m : SubSeq(query, 1, m)[i] = query[i]
  BY Prefix
<1>8. \A i \in 1 .. m : part[i] = query[i]
  <2> SUFFICES ASSUME NEW i \in 1 .. m PROVE part[i] = query[i]
    OBVIOUS
  <2> HIDE DEF part, b, q
  <2>1. b + i \in 1 .. b + m /\ b + i \in 1 .. b + q /\ ~(b + i <= b) /\ (b + i) - b = i
    BY <1>1
  <2>2. all[b + i] = query[(b + i) - b]
    BY <1>2, <2>1
  <2> QED BY <1>5, <1>6, <2>1, <2>2
<1>9. part = SubSeq(query, 1, m)
  <2> HIDE DEF part
  <2> QED BY <1>6, <1>7, <1>8, SeqEqual
<1> QED BY <1>9

\* What a row keeps of a pass begins with what its pass has seen.
Keeps(row, n, kept) ==
  /\ kept \in Seq(Tokens) /\ computed[row] + work.fed[row] + n < Len(kept)
  /\ SubSeq(kept, 1, computed[row] + work.fed[row] + n) = SubSeq(Seen(row), 1, computed[row] + work.fed[row] + n)
  /\ kept[computed[row] + work.fed[row] + n + 1] = work.next[row].next
  /\ ~Discarded(row) => computed[row] + work.fed[row] + n + 1 = Len(kept)

\* So it does for the drafts that were accepted, whether the row is discarded or not.
LEMMA KeepsLaw ==
  ASSUME IInv, step = "prepared", kind # "tree", NEW row \in Rows,
         NEW n \in 0 .. Len(work.drafts[row]), Accepted(row, n), Prepared(row, n)
  PROVE  Keeps(row, n, IF Discarded(row) THEN history[row]
                       ELSE history[row] \o [i \in 1 .. work.next[row].valid |-> work.out[row][i - 1]])
<1> DEFINE c == computed[row]  f == work.fed[row]  d == Len(work.drafts[row])  h == history[row]  l == Len(h)
<1>1. ITypes /\ IPlanned /\ InPass
  BY DEF IInv, ISteps, InPass
<1>2. /\ c \in Nat /\ f \in Nat /\ d \in Nat /\ n \in Nat /\ l \in Nat /\ c + f <= l /\ n <= d
      /\ h \in Seq(Tokens) /\ lengths[row] = l
      /\ Reached(row) \in Seq(Tokens) /\ Len(Reached(row)) = c + f
  <2>1. /\ c \in Nat /\ f \in Nat /\ d \in Nat /\ n \in 0 .. d /\ h \in Seq(Tokens) /\ l \in Nat /\ c + f <= lengths[row]
        /\ lengths[row] = l
        /\ Reached(row) \in Seq(Tokens) /\ Len(Reached(row)) = c + f
    BY <1>1, RowTypes, PassLengths
  <2> HIDE DEF c, f, d, l, h
  <2>2. n \in Nat /\ n <= d
    BY ONLY <2>1
  <2> QED BY <2>1, <2>2
<1>3. Taken(row, n) = SubSeq(Seen(row), 1, c + f + n)
  <2>1. \A i \in 0 .. (n - 1) : work.out[row][i] = work.drafts[row][i + 1]
    BY DEF Accepted
  <2> QED BY <1>1, <2>1, TakenPrefix DEF Taken
<1>4. CASE Discarded(row)
  <2>1. c + f < l
    BY <1>2, <1>4 DEF Discarded
  <2>2. work.drafts[row] = <<>>
    <3>1. ~(c + f = l)
      <4> HIDE DEF c, f, l
      <4> QED BY <1>2, <2>1
    <3> QED BY <1>1, <1>2, <3>1 DEF IPlanned
  <2>3. n = 0 /\ c + f + n = c + f
    BY <1>2, <2>2
  <2>4. Taken(row, n) = Reached(row)
    <3>1. [i \in 1 .. n |-> work.out[row][i - 1]] = <<>>
      BY <2>3
    <3> QED BY <1>2, <3>1, ConcatEmptySeq DEF Taken
  <2>5. SubSeq(h, 1, c + f + n) = SubSeq(Seen(row), 1, c + f + n)
    BY <1>3, <2>3, <2>4 DEF Reached
  <2>6. h[c + f + n + 1] = work.next[row].next
    BY <1>4, <2>3 DEF Prepared
  <2> QED BY <1>2, <1>4, <2>1, <2>3, <2>5, <2>6 DEF Keeps
<1>5. CASE ~Discarded(row)
  <2> DEFINE m == n + 1  t == [i \in 1 .. m |-> work.out[row][i - 1]]  kept == h \o t
  <2>1. c + f = l /\ work.next[row].valid = m
    BY <1>2, <1>5 DEF Discarded, Prepared
  <2>2. m \in Nat /\ n \in 0 .. m /\ \A i \in 0 .. (m - 1) : work.out[row][i] \in Tokens
    BY <1>2 DEF Accepted
  <2>3. kept \in Seq(Tokens) /\ Len(kept) = l + m
        /\ SubSeq(kept, 1, l + n) = h \o [i \in 1 .. n |-> work.out[row][i - 1]]
    <3> DEFINE out == work.out[row]
    <3>1. h \in Seq(Tokens) /\ m \in Nat /\ n \in 0 .. m /\ \A i \in 0 .. (m - 1) : out[i] \in Tokens
      BY <1>2, <2>2
    <3> HIDE DEF out, m, h
    <3>2. /\ h \o [j \in 1 .. m |-> out[j - 1]] \in Seq(Tokens)
          /\ Len(h \o [j \in 1 .. m |-> out[j - 1]]) = Len(h) + m
          /\ SubSeq(h \o [j \in 1 .. m |-> out[j - 1]], 1, Len(h) + n) = h \o [j \in 1 .. n |-> out[j - 1]]
          /\ \A k \in 0 .. Len(h) : SubSeq(h \o [j \in 1 .. m |-> out[j - 1]], 1, k) = SubSeq(h, 1, k)
      BY <3>1, OutPrefix, ZenonT(100)
    <3> QED BY <3>2, Zenon DEF out
  <2>4. Reached(row) = h
    <3>1. SubSeq(h, 1, l) = h
      BY <1>2, SubSeqFull
    <3> QED BY <2>1, <3>1 DEF Reached
  <2>5. SubSeq(kept, 1, c + f + n) = SubSeq(Seen(row), 1, c + f + n)
    <3> HIDE DEF kept, c, f, l
    <3> QED BY <1>3, <2>1, <2>3, <2>4 DEF Taken
  <2>6. t[m] = work.out[row][n]
    BY <1>2
  <2>7. kept[l + m] = t[m]
    <3>1. t \in Seq(Tokens) /\ Len(t) = m
      <4>1. \A i \in 1 .. m : i - 1 \in 0 .. (m - 1)
        <5>1. m \in Nat
          BY <2>2
        <5> HIDE DEF m
        <5> QED BY ONLY <5>1
      <4>2. t \in [1 .. m -> Tokens]
        BY <2>2, <4>1
      <4> HIDE DEF t, m
      <4> QED BY <2>2, <4>2, FunctionSeq
    <3> HIDE DEF t
    <3>2. l + m \in 1 .. l + m /\ ~(l + m <= l) /\ (l + m) - l = m
      <4>1. l \in Nat /\ m \in Nat /\ m > 0
        <5> HIDE DEF l
        <5> QED BY <1>2
      <4> HIDE DEF l, m
      <4> QED BY ONLY <4>1
    <3>3. \A i \in 1 .. l + m : (h \o t)[i] = IF i <= l THEN h[i] ELSE t[i - l]
      <4> HIDE DEF h, m
      <4>1. h \in Seq(Tokens) /\ t \in Seq(Tokens)
        BY <1>2, <3>1
      <4>2. \A i \in 1 .. Len(h) + Len(t) : (h \o t)[i] = IF i <= Len(h) THEN h[i] ELSE t[i - Len(h)]
        BY <4>1, ConcatProperties
      <4> QED BY <3>1, <4>2
    <3>4. \A i \in 1 .. l + m : kept[i] = IF i <= l THEN h[i] ELSE t[i - l]
      BY <3>3
    <3> DEFINE i == l + m
    <3> HIDE DEF m, l, kept, h, i
    <3>5. kept[i] = t[i - l]
      BY <3>2, <3>4 DEF i
    <3>6. i - l = m
      BY <3>2 DEF i
    <3> QED BY <3>5, <3>6 DEF i
  <2>8. work.next[row].next = work.out[row][n]
    BY <1>5 DEF Prepared
  <2>9. c + f + n + 1 = l + m /\ c + f + n < l + m
    <3>1. c + f = l /\ l \in Nat /\ n \in Nat /\ m = n + 1
      BY <1>2, <2>1
    <3> HIDE DEF c, f, l, m
    <3>2. l + n + 1 = l + m /\ l + n < l + m
      BY ONLY <3>1
    <3> QED BY <3>1, <3>2
  <2> HIDE DEF kept, c, f, l
  <2>10. Keeps(row, n, kept)
    BY <2>3, <2>5, <2>6, <2>7, <2>8, <2>9 DEF Keeps, c, f
  <2> QED BY <1>5, <2>1, <2>10 DEF kept
<1> QED BY <1>4, <1>5

\* The entry that the next token is sampled from is the row's own, all entries before it
\* are tokens that the row keeps, and the token after it is the one that is prepared.
THEOREM TheSampledEntries == Spec => []SampledEntries
<1>1. ASSUME IInv PROVE SampledEntries
  <2> SUFFICES ASSUME step = "prepared", kind # "tree", NEW row \in Rows
               PROVE  LET kept == IF Discarded(row) THEN history[row]
                                  ELSE history[row] \o [i \in 1 .. work.next[row].valid |-> work.out[row][i - 1]]
                          position == EntryPosition(row)
                      IN /\ work.starts[row] <= work.entry[row] /\ work.entry[row] < work.starts[row + 1]
                         /\ SubSeq(kept, computed[row] + 1, position + 1)
                              = SubSeq(work.query[row], 1, position - computed[row] + 1)
                         /\ kept[position + 2] = work.next[row].next
                         /\ ~Discarded(row) => position + 2 = Len(kept)
    BY DEF SampledEntries
  <2> DEFINE kept == IF Discarded(row) THEN history[row]
                     ELSE history[row] \o [i \in 1 .. work.next[row].valid |-> work.out[row][i - 1]]
             c == computed[row]  f == work.fed[row]  d == Len(work.drafts[row])  s == work.starts[row]
             e == work.entry[row]  x == EntryPosition(row)
             query == work.query[row]  before == SubSeq(history[row], 1, c)
  <2>1. ITypes /\ IPlanned /\ IOut /\ InPass /\ ~IsBeam
    BY <1>1 DEF IInv, ISteps, InPass
  <2>2. PICK n \in 0 .. d : Accepted(row, n) /\ Prepared(row, n)
    BY <2>1 DEF IOut
  <2>3. Keeps(row, n, kept)
    BY <1>1, <2>2, KeepsLaw
  <2> HIDE DEF kept
  <2>4. /\ c \in Nat /\ f \in Nat /\ f > 0 /\ d \in Nat /\ query \in Seq(Tokens) /\ Len(query) = f + d
        /\ before \in Seq(Tokens) /\ Len(before) = c /\ before \o query = Seen(row)
    BY <2>1, RowTypes, PassLengths
  <2>5. /\ s \in Nat /\ work.starts[row + 1] = s + Len(query) /\ e = s + f + n - 1 /\ x = c + e - s
    BY <2>2 DEF Prepared, EntryPosition
  <2> DEFINE k == Len(kept)  after == work.starts[row + 1]
  <2>6. kept \in Seq(Tokens) /\ c + f + n < k /\ SubSeq(kept, 1, c + f + n) = SubSeq(Seen(row), 1, c + f + n)
        /\ kept[c + f + n + 1] = work.next[row].next /\ (~Discarded(row) => c + f + n + 1 = k)
    BY <2>3 DEF Keeps
  <2>7. k \in Nat
    BY <2>6, LenProperties
  <2>8. after = s + (f + d)
    BY <2>4, <2>5
  <2>9. n \in 0 .. d
    OBVIOUS
  <2>10. c \in Nat /\ f \in Nat /\ f > 0 /\ d \in Nat
    BY <2>4
  <2>11. s \in Nat /\ e = s + f + n - 1 /\ x = c + e - s
    BY <2>5
  <2>12. c + f + n < k
    BY <2>6
  <2> HIDE DEF c, f, d, s, e, x, query, before, k, after
  <2>13. /\ s <= e /\ e < after /\ x + 1 = c + (f + n) /\ (x - c) + 1 = f + n /\ x + 2 = c + f + n + 1
         /\ f + n \in 0 .. f + d /\ c + (f + n) <= k /\ c + (f + n) = c + f + n
    BY ONLY <2>7, <2>8, <2>9, <2>10, <2>11, <2>12
  <2>14. SubSeq(kept, c + 1, c + (f + n)) = SubSeq(query, 1, f + n)
    <3>1. f + n \in 0 .. Len(query) /\ Len(before) + (f + n) <= Len(kept)
          /\ SubSeq(kept, 1, Len(before) + (f + n)) = SubSeq(before \o query, 1, Len(before) + (f + n))
      BY <2>4, <2>6, <2>13 DEF k
    <3>2. SubSeq(kept, Len(before) + 1, Len(before) + (f + n)) = SubSeq(query, 1, f + n)
      BY <2>4, <2>6, <3>1, KeptQuery
    <3> QED BY <2>4, <3>2
  <2>15. s <= e /\ e < after /\ SubSeq(kept, c + 1, x + 1) = SubSeq(query, 1, x - c + 1)
         /\ kept[x + 2] = work.next[row].next /\ (~Discarded(row) => x + 2 = k)
    BY <2>6, <2>13, <2>14
  <2> QED BY <2>15 DEF kept, c, x, s, e, after, query, k
<1> QED BY <1>1, DecodingInvariant, PTL

-----------------------------------------------------------------------------
(* Decoding implements the streams of tokens.                              *)

\* The rows begin as streams.
LEMMA StreamsInit == ASSUME ITypes PROVE Streams!Init
<1>1. /\ Count \in Nat \ {0} /\ Rows = 0 .. (Count - 1)
  BY RowTypes
<1>2. model \in Models /\ history \in [Rows -> Seq(Tokens)] /\ scores \in [Rows -> Int]
  BY <1>1 DEF ITypes
<1>3. policy \in [Rows -> {"greedy", "random", "beam"}]
  <2>1. kind \in Kinds
    BY DEF ITypes
  <2>2. CASE IsBeam
    BY <2>2 DEF ITypes
  <2>3. CASE ~IsBeam /\ kind = "rejection"
    BY <2>3 DEF ITypes
  <2>4. CASE ~IsBeam /\ kind \in {"verify", "tree"}
    BY <2>4 DEF ITypes
  <2> QED BY <2>1, <2>2, <2>3, <2>4 DEF Kinds, IsBeam
<1> QED BY <1>2, <1>3 DEF Streams!Init, Streams!Rows, Rows

\* The rows of a beam search go on with the best continuations of all of them.
LEMMA BeamsContinue == ASSUME IInv, IsBeam, step = "sampled", Continued PROVE Streams!Continue
<1> DEFINE best == [row \in Rows |-> Choice(row)]
<1>1. ITypes /\ IChosen
  BY DEF IInv
<1>2. /\ \A row \in Rows : Choice(row) \in Rows \X Tokens /\ work.beams[row].score = Streams!Total(Choice(row))
      /\ \A a, b \in Rows : a < b => Streams!Before(Choice(a), Choice(b))
      /\ \A c \in Rows \X Tokens : (\A row \in Rows : c # Choice(row)) =>
           \A row \in Rows : Streams!Before(Choice(row), c)
  BY <1>1 DEF IChosen
<1>3. best \in [Rows -> Rows \X Tokens] /\ \A row \in Rows : best[row] = Choice(row)
  <2> HIDE DEF Choice
  <2> QED BY <1>2
<1>4. /\ history' = [row \in Rows |-> Append(history[Parent[row]], work.beams[row].token)]
      /\ scores' = [row \in Rows |-> work.beams[row].score]
      /\ UNCHANGED <<model, policy>>
  BY DEF Continued, streams
<1>5. \A row \in Rows : Choice(row)[1] = Parent[row] /\ Choice(row)[2] = work.beams[row].token
  BY DEF Choice, Parent
<1> HIDE DEF best
<1>6. \A a, b \in Rows : a < b => Streams!Before(best[a], best[b])
  BY <1>2, <1>3
<1>7. \A c \in Rows \X Tokens : (\A row \in Rows : c # best[row]) =>
        \A row \in Rows : Streams!Before(best[row], c)
  BY <1>2, <1>3
<1>8. history' = [row \in Rows |-> Append(history[best[row][1]], best[row][2])]
  BY <1>3, <1>4, <1>5
<1>9. scores' = [row \in Rows |-> Streams!Total(best[row])]
  BY <1>2, <1>3, <1>4
<1>10. \A row \in Rows : policy[row] = "beam"
  <2>1. policy \in [Rows -> {"beam"}]
    BY <1>1 DEF ITypes, IsBeam
  <2> QED BY <2>1
<1>11. Streams!Rows = Rows
  BY DEF Streams!Rows, Rows
<1>12. \E chosen \in [Rows -> Rows \X Tokens] :
         /\ \A a, b \in Rows : a < b => Streams!Before(chosen[a], chosen[b])
         /\ \A c \in Rows \X Tokens : (\A row \in Rows : c # chosen[row]) =>
              \A row \in Rows : Streams!Before(chosen[row], c)
         /\ history' = [row \in Rows |-> Append(history[chosen[row][1]], chosen[row][2])]
         /\ scores' = [row \in Rows |-> Streams!Total(chosen[row])]
  BY <1>3, <1>6, <1>7, <1>8, <1>9, Zenon
<1> QED BY <1>4, <1>10, <1>11, <1>12, Zenon DEF Streams!Continue

\* A row of an engine that commits grows by tokens that its model emits.
Grows(row, old, new) ==
  /\ Len(old) <= Len(new)
  /\ SubSeq(new, 1, Len(old)) = old
  /\ \A i \in (Len(old) + 1) .. Len(new) : Streams!Emits(row, SubSeq(new, 1, i - 1), new[i])

\* So does every row when the engine commits.
LEMMA CommittedRow == ASSUME IInv, Commit, NEW row \in Rows PROVE Grows(row, history[row], history'[row])
<1> DEFINE h == history[row]  l == Len(h)
<1>1. step = "prepared" /\ ~IsBeam /\ ITypes /\ IPlanned /\ IOut /\ InPass
  BY DEF Commit, IInv, InPass, ISteps
<1>2. h \in Seq(Tokens) /\ l \in Nat /\ lengths[row] = l
  BY <1>1, RowTypes
<1>3. CASE Discarded(row)
  <2>1. history'[row] = h
    BY <1>3 DEF Commit
  <2>2. SubSeq(h, 1, l) = h
    BY <1>2, SubSeqFull
  <2>3. ~\E i \in (l + 1) .. l : TRUE
    <3> HIDE DEF l
    <3> QED BY <1>2
  <2> HIDE DEF h
  <2>4. Grows(row, h, h)
    BY <1>2, <2>2, <2>3 DEF Grows
  <2> QED BY <2>1, <2>4 DEF h
<1>4. CASE ~Discarded(row)
  <2>1. PICK n \in 0 .. Len(work.drafts[row]) : Accepted(row, n) /\ Prepared(row, n)
    BY <1>1 DEF IOut
  <2> DEFINE out == work.out[row]  m == n + 1  t(i) == [j \in 1 .. i |-> out[j - 1]]  new == h \o t(m)
  <2>2. history'[row] = new
    <3>1. history'[row] = h \o Added(out, m)
      BY <1>4, <2>1, CommitRow
    <3> QED BY <3>1 DEF Added
  <2>3. /\ \A i \in 0 .. n : out[i] \in Tokens
        /\ \A i \in 0 .. n : Streams!Emits(row, Taken(row, i), out[i])
    BY <1>4, <2>1 DEF Accepted
  <2>4. Reached(row) = h
    <3>1. computed[row] + work.fed[row] = l
      <4>1. computed[row] \in Nat /\ work.fed[row] \in Nat /\ computed[row] + work.fed[row] <= l
        BY <1>1, <1>2, RowTypes, PassLengths
      <4>2. ~(computed[row] + work.fed[row] < l)
        BY <1>2, <1>4 DEF Discarded
      <4> HIDE DEF l
      <4> QED BY <1>2, <4>1, <4>2
    <3>2. SubSeq(h, 1, l) = h
      BY <1>2, SubSeqFull
    <3> QED BY <3>1, <3>2 DEF Reached
  <2>5. n \in Nat /\ m \in Nat /\ m = n + 1
    <3>1. Len(work.drafts[row]) \in Nat
      BY <1>1, PassLengths
    <3> QED BY <2>1, <3>1
  <2>6. \A i \in 0 .. n : Taken(row, i) = h \o t(i)
    BY <2>4 DEF Taken
  <2>7. \A i \in 0 .. (m - 1) : out[i] \in Tokens
    <3> HIDE DEF out
    <3>1. \A i \in 0 .. (m - 1) : i \in 0 .. n
      BY <2>5
    <3> QED BY <2>3, <3>1
  <2> HIDE DEF m, out, h
  <2>8. ASSUME NEW i \in 0 .. m
        PROVE  /\ h \o [j \in 1 .. m |-> out[j - 1]] \in Seq(Tokens)
               /\ Len(h \o [j \in 1 .. m |-> out[j - 1]]) = Len(h) + m
               /\ SubSeq(h \o [j \in 1 .. m |-> out[j - 1]], 1, Len(h) + i) = h \o [j \in 1 .. i |-> out[j - 1]]
               /\ \A k \in 0 .. Len(h) : SubSeq(h \o [j \in 1 .. m |-> out[j - 1]], 1, k) = SubSeq(h, 1, k)
    <3>1. h \in Seq(Tokens) /\ m \in Nat
      BY <1>2, <2>5
    <3> QED BY <2>7, <3>1, OutPrefix, ZenonT(100)
  <2>9. 0 \in 0 .. m /\ l \in 0 .. l
    <3> HIDE DEF l
    <3> QED BY <1>2, <2>5
  <2>10. /\ new \in Seq(Tokens) /\ Len(new) = l + m
         /\ \A i \in 0 .. m : SubSeq(new, 1, l + i) = h \o t(i)
         /\ \A k \in 0 .. l : SubSeq(new, 1, k) = SubSeq(h, 1, k)
    BY <2>8, <2>9, Zenon
  <2>11. t(m) \in Seq(Tokens) /\ Len(t(m)) = m /\ \A j \in 1 .. m : t(m)[j] = out[j - 1]
    <3>1. \A j \in 1 .. m : j - 1 \in 0 .. (m - 1)
      BY <2>5
    <3>2. t(m) \in [1 .. m -> Tokens] /\ \A j \in 1 .. m : t(m)[j] = out[j - 1]
      BY <2>7, <3>1
    <3> HIDE DEF t
    <3> QED BY <2>5, <3>2, FunctionSeq
  <2> HIDE DEF t
  <2>12. \A k \in 1 .. l + m : new[k] = IF k <= l THEN h[k] ELSE t(m)[k - l]
    <3>1. \A k \in 1 .. Len(h) + Len(t(m)) : (h \o t(m))[k] = IF k <= Len(h) THEN h[k] ELSE t(m)[k - Len(h)]
      BY <1>2, <2>11, ConcatProperties
    <3> QED BY <2>11, <3>1
  <2> HIDE DEF new, l
  <2>13. ASSUME NEW k \in (l + 1) .. (l + m)
         PROVE  Streams!Emits(row, SubSeq(new, 1, k - 1), new[k])
    <3> DEFINE i == (k - 1) - l
    <3>1. i \in 0 .. n /\ i \in 0 .. m /\ l + i = k - 1 /\ k \in 1 .. l + m /\ ~(k <= l) /\ k - l \in 1 .. m
          /\ (k - l) - 1 = i
      BY <1>2, <2>5
    <3> HIDE DEF i
    <3>2. SubSeq(new, 1, k - 1) = Taken(row, i)
      <4>1. SubSeq(new, 1, l + i) = h \o t(i)
        BY <2>10, <3>1
      <4> QED BY <2>6, <3>1, <4>1
    <3>3. new[k] = out[i]
      <4>1. new[k] = t(m)[k - l]
        BY <2>12, <3>1
      <4>2. t(m)[k - l] = out[(k - l) - 1]
        BY <2>11, <3>1
      <4> QED BY <3>1, <4>1, <4>2
    <3> QED BY <2>3, <3>1, <3>2, <3>3
  <2>14. SubSeq(new, 1, l) = h
    <3>1. SubSeq(h, 1, l) = h
      BY <1>2, SubSeqFull DEF l
    <3> QED BY <2>9, <2>10, <3>1
  <2>15. l <= l + m
    BY <1>2, <2>5
  <2>16. Grows(row, h, new)
    BY <2>10, <2>13, <2>14, <2>15 DEF Grows, l
  <2> QED BY <2>2, <2>16 DEF h
<1> QED BY <1>3, <1>4

\* A commit extends the streams.
LEMMA CommitExtends == ASSUME IInv, Commit PROVE Streams!Extend
<1>1. DOMAIN history' = Rows /\ UNCHANGED <<model, policy, scores>>
  BY DEF Commit, streams
<1>2. Streams!Rows = Rows
  BY DEF Streams!Rows, Rows
<1>3. \A row \in Rows : LET old == history[row]
                            new == history'[row]
                        IN /\ Len(old) <= Len(new)
                           /\ SubSeq(new, 1, Len(old)) = old
                           /\ \A i \in (Len(old) + 1) .. Len(new) : Streams!Emits(row, SubSeq(new, 1, i - 1), new[i])
  BY CommittedRow DEF Grows
<1> QED BY <1>1, <1>2, <1>3, Zenon DEF Streams!Extend

\* Every step of the engine is a step of the streams, or leaves them as they are.
LEMMA StreamsNext == IInv /\ [Next]_vars => [Streams!Next]_(Streams!streamVars)
<1> SUFFICES ASSUME IInv, [Next]_vars PROVE Streams!Next \/ UNCHANGED <<model, policy, history, scores>>
  BY DEF Streams!streamVars
<1>1. CASE PlanBeams \/ PlanRagged \/ PlanVerify \/ PlanTree
  BY <1>1 DEF PlanBeams, PlanRagged, PlanVerify, PlanTree, Plan, streams
<1>2. CASE AllocateForPass \/ Forward \/ BeamStep
  <2>1. AllocateForPass => UNCHANGED <<model, policy, history, scores>>
    BY DEF AllocateForPass, streams
  <2>2. Forward => UNCHANGED <<model, policy, history, scores>>
    BY DEF Forward, streams
  <2>3. BeamStep => UNCHANGED <<model, policy, history, scores>>
    BY DEF BeamStep, streams
  <2> QED BY <1>2, <2>1, <2>2, <2>3
<1>3. CASE ReorderByCopy \/ ReorderByRemap
  <2>1. step = "sampled" /\ kind \in {"copy", "remap"} /\ Continued
    <3>1. ReorderByCopy => step = "sampled" /\ kind = "copy" /\ Continued
      BY SMTT(30) DEF ReorderByCopy
    <3>2. ASSUME ReorderByRemap PROVE step = "sampled" /\ kind = "remap" /\ Continued
      BY <3>2 DEF ReorderByRemap
    <3> QED BY <1>3, <3>1, <3>2, SMTT(30)
  <2> QED BY <2>1, BeamsContinue DEF IsBeam, Streams!Next
<1>4. CASE RejectionSample \/ SpeculativeVerify \/ VerifyTree \/ PrepareNextTokens
  BY <1>4 DEF RejectionSample, SpeculativeVerify, VerifyTree, PrepareNextTokens, streams
<1>5. CASE Commit
  BY <1>5, CommitExtends DEF Streams!Next
<1>6. CASE DraftStep \/ DraftStepFails \/ DraftingEnds
  BY <1>6 DEF DraftStep, DraftStepFails, DraftingEnds, streams
<1>7. CASE Finished \/ UNCHANGED vars
  BY <1>7 DEF Finished, vars, streams
<1> QED BY <1>1, <1>2, <1>3, <1>4, <1>5, <1>6, <1>7 DEF Next

\* Whatever was drafted, refused, copied or remapped, decoding yields streams of the
\* target model's own tokens, and the best continuations in a beam search.
THEOREM DecodingYieldsTokenStreams == Spec => ImplementsTokenStreams
<1>1. Init => Streams!Init
  BY InitHolds, StreamsInit DEF IInv
<1>2. IInv /\ [Next]_vars => [Streams!Next]_(Streams!streamVars)
  BY StreamsNext
<1> QED BY <1>1, <1>2, DecodingInvariant, PTL DEF Spec, ImplementsTokenStreams, Streams!Spec
=============================================================================
