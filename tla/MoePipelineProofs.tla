-------------------------- MODULE MoePipelineProofs --------------------------
(***************************************************************************)
(* The calls of a mixture-of-experts layer hand each other only index      *)
(* arrays.  For every number of tokens, experts, choices and rows of a     *)
(* tile, every choice of experts and every order of adapters: the arrays   *)
(* lead each route to its own row, its own expert and its own weight.      *)
(***************************************************************************)
EXTENDS MoePipeline, ChunkPartitionProofs, FiniteSetTheorems, FunctionTheorems

-----------------------------------------------------------------------------
(* Counting by expert.                                                     *)

\* Among the routes S: those with expert e, those with a smaller one, and those
\* before r that have the expert of r.
Class(S, key, e) == {s \in S : key[s] = e}
Below(S, key, e) == {s \in S : key[s] < e}
Before(S, key, r) == {s \in S : s < r /\ key[s] = key[r]}

\* The routes of an expert are counted off: each has a place of its own below their
\* number.
LEMMA PlacesInClass ==
  ASSUME NEW S \in SUBSET Int, IsFiniteSet(S), NEW key
  PROVE  /\ \A e : Cardinality(Class(S, key, e)) \in Nat
         /\ \A r \in S : /\ Cardinality(Before(S, key, r)) \in Nat
                         /\ Cardinality(Before(S, key, r)) < Cardinality(Class(S, key, key[r]))
         /\ \A r, q \in S : key[r] = key[q] /\ r # q =>
              Cardinality(Before(S, key, r)) # Cardinality(Before(S, key, q))
<1>1. \A e : IsFiniteSet(Class(S, key, e)) /\ Cardinality(Class(S, key, e)) \in Nat
  <2> SUFFICES ASSUME NEW e
               PROVE  IsFiniteSet(Class(S, key, e)) /\ Cardinality(Class(S, key, e)) \in Nat
    OBVIOUS
  <2>1. Class(S, key, e) \in SUBSET S
    BY DEF Class
  <2> QED BY <2>1, FS_Subset, FS_CardinalityType
<1>2. \A r \in S : IsFiniteSet(Before(S, key, r)) /\ Cardinality(Before(S, key, r)) \in Nat
  <2> SUFFICES ASSUME NEW r \in S
               PROVE  IsFiniteSet(Before(S, key, r)) /\ Cardinality(Before(S, key, r)) \in Nat
    OBVIOUS
  <2>1. Before(S, key, r) \in SUBSET S
    BY DEF Before
  <2> QED BY <2>1, FS_Subset, FS_CardinalityType
\* A proper subset has fewer elements.
<1>3. ASSUME NEW A, NEW B, IsFiniteSet(B), A \subseteq B, A # B
      PROVE  Cardinality(A) < Cardinality(B)
  <2>1. Cardinality(A) <= Cardinality(B) /\ Cardinality(A) # Cardinality(B)
    BY <1>3, FS_Subset
  <2>2. Cardinality(A) \in Nat /\ Cardinality(B) \in Nat
    BY <1>3, FS_Subset, FS_CardinalityType
  <2> QED BY <2>1, <2>2
<1>4. ASSUME NEW r \in S
      PROVE  Cardinality(Before(S, key, r)) < Cardinality(Class(S, key, key[r]))
  <2>1. Before(S, key, r) \subseteq Class(S, key, key[r])
    BY DEF Before, Class
  <2>2. r \in Class(S, key, key[r]) /\ r \notin Before(S, key, r)
    BY DEF Before, Class
  <2>3. Before(S, key, r) # Class(S, key, key[r])
    BY <2>2
  <2> QED BY <1>1, <1>3, <2>1, <2>3
<1>5. ASSUME NEW r \in S, NEW q \in S, key[r] = key[q], r < q
      PROVE  Cardinality(Before(S, key, r)) < Cardinality(Before(S, key, q))
  <2>0. q \in Int /\ r \in Int /\ \A s \in S : s \in Int
    OBVIOUS
  <2>1. Before(S, key, r) \subseteq Before(S, key, q)
    <3> SUFFICES ASSUME NEW s \in S, s < r, key[s] = key[r] PROVE s < q /\ key[s] = key[q]
      BY DEF Before
    <3> QED BY <1>5, <2>0
  <2>2. r \in Before(S, key, q) /\ r \notin Before(S, key, r)
    BY <1>5 DEF Before
  <2>3. Before(S, key, r) # Before(S, key, q)
    BY <2>2
  <2> QED BY <1>2, <1>3, <2>1, <2>3
<1>6. ASSUME NEW r \in S, NEW q \in S, key[r] = key[q], r # q
      PROVE  Cardinality(Before(S, key, r)) # Cardinality(Before(S, key, q))
  <2>1. r < q \/ q < r
    BY <1>6
  <2>2. CASE r < q
    BY <1>2, <1>5, <1>6, <2>2
  <2>3. CASE q < r
    <3>1. Cardinality(Before(S, key, q)) < Cardinality(Before(S, key, r))
      BY <1>5, <1>6, <2>3
    <3> QED BY <1>2, <3>1
  <2> QED BY <2>1, <2>2, <2>3
<1> QED BY <1>1, <1>2, <1>4, <1>6

\* Where the next expert begins: after the routes of this one.
LEMMA BelowNext ==
  ASSUME NEW S, IsFiniteSet(S), NEW key, \A x \in S : key[x] \in Int, NEW e \in Int
  PROVE  /\ Cardinality(Below(S, key, e)) \in Nat
         /\ Cardinality(Below(S, key, e + 1))
              = Cardinality(Below(S, key, e)) + Cardinality(Class(S, key, e))
<1>1. Below(S, key, e) \in SUBSET S /\ Class(S, key, e) \in SUBSET S
  BY DEF Below, Class
<1>2. IsFiniteSet(Below(S, key, e)) /\ IsFiniteSet(Class(S, key, e))
  BY <1>1, FS_Subset
<1>3. Below(S, key, e + 1) = Below(S, key, e) \cup Class(S, key, e)
  BY DEF Below, Class
<1>4. Below(S, key, e) \cap Class(S, key, e) = {}
  BY DEF Below, Class
<1>5. Cardinality(Below(S, key, e + 1))
        = Cardinality(Below(S, key, e)) + Cardinality(Class(S, key, e)) - Cardinality({})
  BY <1>2, <1>3, <1>4, FS_Union
<1>6. Cardinality({}) = 0
  BY FS_EmptySet
<1>7. Cardinality(Below(S, key, e)) \in Nat /\ Cardinality(Class(S, key, e)) \in Nat
  BY <1>2, FS_CardinalityType
<1> QED BY <1>5, <1>6, <1>7

-----------------------------------------------------------------------------
(* Ranges of rows, one for each expert.                                    *)

\* Ranges that follow each other.
Ascending(base) ==
  /\ base \in [0 .. ExpertCount -> Int]
  /\ \A e \in Experts : base[e] <= base[e + 1]

LEMMA AscendingOrder ==
  ASSUME MoeAssumption, NEW base, Ascending(base),
         NEW d \in 0 .. ExpertCount, NEW e \in 0 .. ExpertCount, d <= e
  PROVE  base[d] <= base[e]
<1> DEFINE T == {x \in Nat : x \in 0 .. ExpertCount /\ d <= x /\ ~(base[d] <= base[x])}
<1>1. SUFFICES ASSUME T # {} PROVE FALSE
  <2>1. e \in Nat
    OBVIOUS
  <2> QED BY <1>1, <2>1
<1>2. PICK x \in T : \A y \in T : x <= y
  <2>1. T \in SUBSET Nat
    OBVIOUS
  <2> HIDE DEF T
  <2> QED BY <1>1, <2>1, LeastNatural
<1>3. x \in 0 .. ExpertCount /\ d <= x /\ ~(base[d] <= base[x])
  OBVIOUS
<1>4. ExpertCount \in Nat /\ base[d] \in Int /\ base[x] \in Int
  BY <1>3 DEF MoeAssumption, Ascending
<1>5. d # x
  BY <1>3, <1>4
<1>6. x - 1 \in Experts /\ x - 1 \in 0 .. ExpertCount /\ d <= x - 1 /\ x - 1 \in Nat
  BY <1>3, <1>4, <1>5 DEF Experts
<1>7. base[x - 1] <= base[x] /\ base[x - 1] \in Int
  <2>1. base[x - 1] <= base[x - 1 + 1]
    BY <1>6 DEF Ascending
  <2>2. x - 1 + 1 = x
    BY <1>3
  <2> QED BY <1>6, <2>1, <2>2 DEF Ascending
<1>8. x - 1 \notin T
  BY <1>2, <1>3, <1>6
<1>9. base[d] <= base[x - 1]
  BY <1>6, <1>8
<1> QED BY <1>3, <1>4, <1>7, <1>9

\* A row is in the range of one expert, which is the one that upper_bound finds.
LEMMA RangeOfRow ==
  ASSUME MoeAssumption, NEW base, Ascending(base),
         NEW e \in Experts, NEW x \in Int, base[e] <= x, x < base[e + 1]
  PROVE  /\ base[0] <= x /\ x < base[ExpertCount]
         /\ \A d \in Experts : base[d] <= x /\ x < base[d + 1] => d = e
         /\ ExpertOf(base, x) = e
<1>1. ExpertCount \in Nat /\ e \in 0 .. ExpertCount /\ e + 1 \in 0 .. ExpertCount
      /\ e \in Nat /\ 0 \in 0 .. ExpertCount /\ ExpertCount \in 0 .. ExpertCount
  BY DEF MoeAssumption, Experts
<1>2. \A d \in 0 .. ExpertCount : base[d] \in Int
  BY DEF Ascending
<1>3. \A d \in 0 .. ExpertCount : d <= e => base[d] <= x
  <2> SUFFICES ASSUME NEW d \in 0 .. ExpertCount, d <= e PROVE base[d] <= x
    OBVIOUS
  <2>1. base[d] <= base[e]
    BY <1>1, AscendingOrder
  <2> QED BY <1>1, <1>2, <2>1
<1>4. \A d \in 0 .. ExpertCount : e + 1 <= d => x < base[d]
  <2> SUFFICES ASSUME NEW d \in 0 .. ExpertCount, e + 1 <= d PROVE x < base[d]
    OBVIOUS
  <2>1. base[e + 1] <= base[d]
    BY <1>1, AscendingOrder
  <2> QED BY <1>1, <1>2, <2>1
<1>5. base[0] <= x /\ x < base[ExpertCount]
  BY <1>1, <1>3, <1>4 DEF Experts
<1>6. ASSUME NEW d \in Experts, base[d] <= x, x < base[d + 1] PROVE d = e
  <2>1. d \in 0 .. ExpertCount /\ d + 1 \in 0 .. ExpertCount /\ d \in Nat
    BY <1>1 DEF Experts
  <2>2. CASE d < e
    <3>1. d + 1 <= e
      BY <1>1, <2>1, <2>2
    <3> QED BY <1>2, <1>3, <1>6, <2>1, <3>1
  <2>3. CASE e < d
    <3>1. e + 1 <= d
      BY <1>1, <2>1, <2>3
    <3> QED BY <1>2, <1>4, <1>6, <2>1, <3>1
  <2> QED BY <1>1, <2>1, <2>2, <2>3
<1> DEFINE Found(d) == base[d] <= x /\ \A c \in (d + 1) .. ExpertCount : base[c] > x
<1>7. Found(e)
  BY <1>1, <1>2, <1>4
<1>8. ASSUME NEW d \in 0 .. ExpertCount, Found(d) PROVE d = e
  <2>1. CASE d < e
    <3>1. e \in (d + 1) .. ExpertCount
      BY <1>1, <2>1
    <3> QED BY <1>1, <1>2, <1>8, <3>1
  <2>2. CASE e < d
    <3>1. x < base[d]
      BY <1>1, <1>4, <2>2
    <3> QED BY <1>2, <1>8, <3>1
  <2> QED BY <1>1, <2>1, <2>2
<1>9. ExpertOf(base, x) = CHOOSE d \in 0 .. ExpertCount : Found(d)
  BY DEF ExpertOf
<1>10. ExpertOf(base, x) = e
  <2> HIDE DEF Found
  <2> QED BY <1>1, <1>7, <1>8, <1>9
<1> QED BY <1>5, <1>6, <1>10

\* Whole tiles that hold n rows.
LEMMA PaddedTiles ==
  ASSUME MoeAssumption, NEW n \in Nat
  PROVE  /\ \E m \in Nat : Padded(n) = m * TileRows
         /\ Padded(n) \in Nat /\ n <= Padded(n)
<1> DEFINE k == n + TileRows - 1
<1>1. TileRows \in Nat \ {0} /\ k \in Nat /\ n = k - TileRows + 1
  BY DEF MoeAssumption
<1> HIDE DEF k
<1>2. k \div TileRows \in Nat /\ k % TileRows \in 0 .. (TileRows - 1)
      /\ k = TileRows * (k \div TileRows) + (k % TileRows)
  BY <1>1, DivMod
<1>3. TileRows * (k \div TileRows) = (k \div TileRows) * TileRows
      /\ (k \div TileRows) * TileRows \in Nat
  BY <1>1, <1>2
<1>4. Padded(n) = (k \div TileRows) * TileRows
  BY DEF Padded, k
<1> DEFINE m == k \div TileRows  p == m * TileRows
<1>5. p \in Nat /\ p + (k % TileRows) = k /\ m \in Nat
  BY <1>1, <1>2, <1>3
<1>6. n <= p
  <2> HIDE DEF p, m
  <2> QED BY <1>1, <1>2, <1>5
<1> QED BY <1>4, <1>5, <1>6

\* The sums exist: padded_offsets[e + 1] is padded_offsets[e] and the tiles of expert e.
LEMMA PaddedSumsLaw ==
  ASSUME MoeAssumption, NEW count \in [Experts -> Nat]
  PROVE  /\ PaddedSums(count) \in [0 .. ExpertCount -> Nat]
         /\ PaddedSums(count)[0] = 0
         /\ \A e \in Experts :
              PaddedSums(count)[e + 1] = PaddedSums(count)[e] + Padded(count[e])
<1>0. ExpertCount \in Nat
  BY DEF MoeAssumption
<1> DEFINE D == 0 .. ExpertCount
           Step(f, e) == IF e = 0 THEN 0 ELSE f[e - 1] + Padded(count[e - 1])
           Sums(f, n) == f \in [0 .. n -> Nat] /\ \A e \in 0 .. n : f[e] = Step(f, e)
           T == {n \in Nat : n \in D /\ ~(\E f : Sums(f, n))}
\* A first number without sums would be one that the sums before it extend to.
<1>1. T = {}
  <2> SUFFICES ASSUME T # {} PROVE FALSE
    OBVIOUS
  <2>1. PICK n \in T : \A y \in T : n <= y
    <3>1. T \in SUBSET Nat
      OBVIOUS
    <3> HIDE DEF T
    <3> QED BY <3>1, LeastNatural
  <2>2. n \in Nat /\ n \in D /\ ~(\E f : Sums(f, n))
    OBVIOUS
  <2>3. CASE n = 0
    <3>1. Sums([e \in 0 .. 0 |-> 0], 0)
      OBVIOUS
    <3> HIDE DEF Sums
    <3> QED BY <2>2, <2>3, <3>1
  <2>4. CASE n # 0
    <3>1. n - 1 \in Nat /\ n - 1 \in D /\ n - 1 \in Experts /\ n - 1 < n
      BY <1>0, <2>2, <2>4 DEF Experts
    <3>2. n - 1 \notin T
      <4> HIDE DEF T
      <4> QED BY <2>1, <2>2, <3>1
    <3>3. PICK f : Sums(f, n - 1)
      BY <3>1, <3>2
    <3>4. Padded(count[n - 1]) \in Nat /\ f[n - 1] \in Nat
      <4>1. count[n - 1] \in Nat /\ n - 1 \in 0 .. (n - 1)
        BY <3>1
      <4>2. Padded(count[n - 1]) \in Nat
        BY <4>1, PaddedTiles
      <4> QED BY <3>3, <4>1, <4>2
    <3> DEFINE g == [e \in 0 .. n |-> IF e = n THEN f[n - 1] + Padded(count[n - 1]) ELSE f[e]]
    <3>5. \A e \in 0 .. (n - 1) : g[e] = f[e] /\ f[e] \in Nat /\ f[e] = Step(f, e)
      BY <2>2, <3>3
    <3>6. \A e \in 0 .. (n - 1) : e # 0 => e - 1 \in 0 .. (n - 1)
      BY <2>2
    <3>7. \A e \in 0 .. (n - 1) : g[e] = Step(g, e)
      BY <3>5, <3>6
    <3>8. g[n] = Step(g, n)
      <4>1. n - 1 \in 0 .. (n - 1) /\ n \in 0 .. n
        BY <2>2, <3>1
      <4>2. g[n - 1] = f[n - 1]
        BY <3>5, <4>1
      <4>3. g[n] = f[n - 1] + Padded(count[n - 1])
        BY <4>1
      <4> HIDE DEF g
      <4> QED BY <2>4, <4>2, <4>3
    <3>9. \A e \in 0 .. n : g[e] \in Nat
      <4>1. \A e \in 0 .. n : e = n \/ e \in 0 .. (n - 1)
        BY <2>2
      <4>2. f[n - 1] + Padded(count[n - 1]) \in Nat
        BY <3>4
      <4> QED BY <3>5, <4>1, <4>2
    <3>10. \A e \in 0 .. n : e = n \/ e \in 0 .. (n - 1)
      BY <2>2
    <3>11. g \in [0 .. n -> Nat]
      BY <3>9
    <3>12. Sums(g, n)
      <4> HIDE DEF g, Step
      <4> QED BY <3>7, <3>8, <3>10, <3>11
    <3> HIDE DEF Sums, g
    <3> QED BY <2>2, <3>12
  <2> QED BY <2>3, <2>4
<1>2. PICK f : Sums(f, ExpertCount)
  <2>1. ExpertCount \in D
    BY <1>0
  <2>2. ExpertCount \notin T
    <3> HIDE DEF T
    <3> QED BY <1>1
  <2> HIDE DEF Sums
  <2> QED BY <1>0, <2>1, <2>2
<1> DEFINE Solves(w) == w = [e \in D |-> Step(w, e)]
           w == PaddedSums(count)
<1>3. Solves(f)
  BY <1>2
<1>4. w = CHOOSE v : Solves(v)
  BY DEF PaddedSums
<1>5. Solves(w)
  <2> HIDE DEF Solves, w
  <2> QED BY <1>3, <1>4
<1> HIDE DEF w
<1>6. DOMAIN w = D /\ \A e \in D : w[e] = Step(w, e)
  BY <1>5
<1>7. w[0] = 0
  BY <1>0, <1>6
<1>8. \A e \in Experts : w[e + 1] = w[e] + Padded(count[e])
  <2> SUFFICES ASSUME NEW e \in Experts PROVE w[e + 1] = w[e] + Padded(count[e])
    OBVIOUS
  <2>1. e + 1 \in D /\ e \in Int /\ e + 1 # 0 /\ e + 1 - 1 = e
    BY <1>0 DEF Experts
  <2>2. w[e + 1] = Step(w, e + 1)
    <3> HIDE DEF Step, D
    <3> QED BY <1>6, <2>1
  <2>3. ASSUME NEW x, x # 0 PROVE Step(w, x) = w[x - 1] + Padded(count[x - 1])
    BY <2>3
  <2>4. Step(w, e + 1) = w[e + 1 - 1] + Padded(count[e + 1 - 1])
    <3> HIDE DEF Step, D
    <3> QED BY <2>1, <2>3
  <2> HIDE DEF Step
  <2> QED BY <2>1, <2>2, <2>4
\* A first sum that is no natural number would follow one that is.
<1> DEFINE U == {n \in Nat : n \in D /\ w[n] \notin Nat}
<1>9. U = {}
  <2> SUFFICES ASSUME U # {} PROVE FALSE
    OBVIOUS
  <2>1. PICK n \in U : \A y \in U : n <= y
    <3>1. U \in SUBSET Nat
      OBVIOUS
    <3> HIDE DEF U
    <3> QED BY <3>1, LeastNatural
  <2>2. n \in D /\ n \in Nat /\ n # 0
    BY <1>7
  <2>3. n - 1 \in Nat /\ n - 1 \in D /\ n - 1 \in Experts /\ n - 1 < n /\ n - 1 + 1 = n
    BY <1>0, <2>2 DEF Experts
  <2>4. w[n - 1] \in Nat
    <3>1. n - 1 \notin U
      BY <2>1, <2>3
    <3> QED BY <2>3, <3>1
  <2>5. Padded(count[n - 1]) \in Nat
    BY <2>3, PaddedTiles
  <2>6. w[n] = w[n - 1] + Padded(count[n - 1])
    BY <1>8, <2>3
  <2> QED BY <2>1, <2>4, <2>5, <2>6
<1>10. \A e \in D : w[e] \in Nat
  BY <1>0, <1>9
<1>11. w = [e \in D |-> w[e]]
  BY <1>5
<1>12. w \in [0 .. ExpertCount -> Nat]
  BY <1>10, <1>11
<1> QED BY <1>7, <1>8, <1>12 DEF w

\* Rows of an expert that begin at base, one for each of its routes, in their order: every
\* route gets a row of its own in the range of its expert.
Place(base, S, key, r) == base[key[r]] + Cardinality(Before(S, key, r))

LEMMA PlacedRows ==
  ASSUME MoeAssumption, NEW base, Ascending(base),
         NEW S \in SUBSET Int, IsFiniteSet(S), NEW key, \A r \in S : key[r] \in Experts,
         \A e \in Experts : base[e] + Cardinality(Class(S, key, e)) <= base[e + 1]
  PROVE  /\ \A r \in S : /\ Place(base, S, key, r) \in Int
                         /\ base[key[r]] <= Place(base, S, key, r)
                         /\ Place(base, S, key, r) < base[key[r] + 1]
         /\ \A r, q \in S : Place(base, S, key, r) = Place(base, S, key, q) => r = q
<1>0. \A e \in Experts : base[e] \in Int /\ base[e + 1] \in Int
  BY DEF MoeAssumption, Experts, Ascending
<1>1. ASSUME NEW r \in S
      PROVE  /\ Place(base, S, key, r) \in Int
             /\ base[key[r]] <= Place(base, S, key, r)
             /\ Place(base, S, key, r) < base[key[r] + 1]
  <2>1. /\ Cardinality(Before(S, key, r)) \in Nat
        /\ Cardinality(Before(S, key, r)) < Cardinality(Class(S, key, key[r]))
        /\ Cardinality(Class(S, key, key[r])) \in Nat
    BY PlacesInClass
  <2>2. key[r] \in Experts
    OBVIOUS
  <2> QED BY <1>0, <2>1, <2>2 DEF Place
<1>2. ASSUME NEW r \in S, NEW q \in S, Place(base, S, key, r) = Place(base, S, key, q), r # q
      PROVE  FALSE
  <2>1. key[r] = key[q]
    <3>1. key[r] \in Experts /\ key[q] \in Experts
      OBVIOUS
    <3>2. /\ Place(base, S, key, r) \in Int
          /\ base[key[r]] <= Place(base, S, key, r) /\ Place(base, S, key, r) < base[key[r] + 1]
          /\ base[key[q]] <= Place(base, S, key, r) /\ Place(base, S, key, r) < base[key[q] + 1]
      BY <1>1, <1>2
    <3> QED BY <3>1, <3>2, RangeOfRow
  <2>2. Cardinality(Before(S, key, r)) # Cardinality(Before(S, key, q))
    BY <1>2, <2>1, PlacesInClass
  <2>3. /\ Cardinality(Before(S, key, r)) \in Nat /\ Cardinality(Before(S, key, q)) \in Nat
        /\ base[key[r]] \in Int
    BY <1>0, PlacesInClass
  <2> QED BY <1>2, <2>1, <2>2, <2>3 DEF Place
<1> QED BY <1>1, <1>2

\* Ranges of whole tiles.
WholeTiles(base) ==
  /\ base[0] = 0
  /\ \A e \in 0 .. ExpertCount : \E m \in Nat : base[e] = m * TileRows

\* The padded offsets are such ranges, with room for every expert's rows.
LEMMA PaddedRanges ==
  ASSUME MoeAssumption, NEW count \in [Experts -> Nat]
  PROVE  /\ Ascending(PaddedSums(count)) /\ WholeTiles(PaddedSums(count))
         /\ \A e \in Experts : PaddedSums(count)[e] + count[e] <= PaddedSums(count)[e + 1]
<1> DEFINE w == PaddedSums(count)
<1>0. ExpertCount \in Nat /\ TileRows \in Nat \ {0}
  BY DEF MoeAssumption
<1>1. /\ w \in [0 .. ExpertCount -> Nat] /\ w[0] = 0
      /\ \A e \in Experts : w[e + 1] = w[e] + Padded(count[e])
  BY PaddedSumsLaw
<1> HIDE DEF w
<1>2. \A e \in Experts : /\ Padded(count[e]) \in Nat /\ count[e] <= Padded(count[e])
                         /\ \E m \in Nat : Padded(count[e]) = m * TileRows
  <2> SUFFICES ASSUME NEW e \in Experts
               PROVE  /\ Padded(count[e]) \in Nat /\ count[e] <= Padded(count[e])
                      /\ \E m \in Nat : Padded(count[e]) = m * TileRows
    OBVIOUS
  <2>1. count[e] \in Nat
    OBVIOUS
  <2> QED BY <2>1, PaddedTiles
<1>3. \A e \in Experts : w[e] \in Nat /\ w[e + 1] \in Nat /\ count[e] \in Nat
  BY <1>0, <1>1 DEF Experts
<1>4. Ascending(w)
  <2>1. w \in [0 .. ExpertCount -> Int]
    BY <1>1
  <2> QED BY <1>1, <1>2, <1>3, <2>1 DEF Ascending
<1>5. \A e \in Experts : w[e] + count[e] <= w[e + 1]
  BY <1>1, <1>2, <1>3
<1> DEFINE Whole(e) == \E m \in Nat : w[e] = m * TileRows
           T == {e \in Nat : e \in 0 .. ExpertCount /\ ~Whole(e)}
<1>6. T = {}
  <2> SUFFICES ASSUME T # {} PROVE FALSE
    OBVIOUS
  <2>1. PICK e \in T : \A y \in T : e <= y
    <3>1. T \in SUBSET Nat
      OBVIOUS
    <3> HIDE DEF T
    <3> QED BY <3>1, LeastNatural
  <2>2. e \in Nat /\ e \in 0 .. ExpertCount /\ ~Whole(e)
    OBVIOUS
  <2>3. e # 0
    <3>1. 0 * TileRows = 0 /\ 0 \in Nat
      BY <1>0
    <3>2. Whole(0)
      BY <1>1, <3>1
    <3> HIDE DEF Whole
    <3> QED BY <2>2, <3>2
  <2>4. e - 1 \in Nat /\ e - 1 \in 0 .. ExpertCount /\ e - 1 \in Experts
        /\ e - 1 < e /\ e - 1 + 1 = e
    BY <1>0, <2>2, <2>3 DEF Experts
  <2>5. Whole(e - 1)
    <3>1. e - 1 \notin T
      <4> HIDE DEF T
      <4> QED BY <2>1, <2>2, <2>4
    <3> HIDE DEF Whole
    <3> QED BY <2>4, <3>1
  <2>6. PICK m \in Nat : w[e - 1] = m * TileRows
    BY <2>5
  <2>7. PICK n \in Nat : Padded(count[e - 1]) = n * TileRows
    BY <1>2, <2>4
  <2>8. w[e] = m * TileRows + n * TileRows
    BY <1>1, <2>4, <2>6, <2>7
  <2>9. m * TileRows + n * TileRows = (m + n) * TileRows /\ m + n \in Nat
    BY <1>0
  <2>10. Whole(e)
    BY <2>8, <2>9
  <2> HIDE DEF Whole
  <2> QED BY <2>2, <2>10
<1>7. WholeTiles(w)
  <2>1. \A e \in 0 .. ExpertCount : Whole(e)
    <3> SUFFICES ASSUME NEW e \in 0 .. ExpertCount PROVE Whole(e)
      OBVIOUS
    <3>1. e \notin T /\ e \in Nat
      <4> HIDE DEF T
      <4> QED BY <1>6
    <3> HIDE DEF Whole
    <3> QED BY <3>1
  <2> QED BY <1>1, <2>1 DEF WholeTiles
<1> QED BY <1>4, <1>5, <1>7 DEF w

\* Row x is in a tile, which is expert e's for both of the conditions that the schedules
\* test: it begins in the range of e, and in no other range; it meets only that of e.
InTileOf(base, e, x) ==
  /\ x \in Nat
  /\ x \div TileRows \in 0 .. (base[ExpertCount] \div TileRows - 1)
  /\ \A d \in Experts :
       /\ base[d] <= (x \div TileRows) * TileRows
            /\ (x \div TileRows) * TileRows < base[d + 1] <=> d = e
       /\ base[d] < (x \div TileRows + 1) * TileRows
            /\ (x \div TileRows) * TileRows < base[d + 1] <=> d = e

LEMMA TileOfRow ==
  ASSUME MoeAssumption, NEW base, Ascending(base), WholeTiles(base),
         NEW e \in Experts, NEW x \in Int, base[e] <= x, x < base[e + 1]
  PROVE  InTileOf(base, e, x)
<1> DEFINE t == x \div TileRows  at == t * TileRows
<1>0. TileRows \in Nat \ {0} /\ ExpertCount \in 0 .. ExpertCount /\ ExpertCount \in Nat
  BY DEF MoeAssumption
<1>1. x \in Nat /\ x < base[ExpertCount]
  BY RangeOfRow DEF WholeTiles
<1>2. t \in Nat /\ at \in Nat /\ at <= x /\ x < (t + 1) * TileRows
      /\ (t + 1) * TileRows = at + TileRows
  <2>1. t \in Nat /\ x % TileRows \in 0 .. (TileRows - 1) /\ x = TileRows * t + (x % TileRows)
    BY <1>0, <1>1, DivMod
  <2> HIDE DEF t
  <2>2. TileRows * t = t * TileRows /\ t * TileRows \in Nat
        /\ (t + 1) * TileRows = t * TileRows + TileRows
    BY <1>0, <2>1
  <2> DEFINE u == x % TileRows
  <2>3. u \in 0 .. (TileRows - 1) /\ x = at + u
    BY <2>1, <2>2
  <2> HIDE DEF u, at
  <2>4. at \in Nat /\ (t + 1) * TileRows = at + TileRows
    BY <2>2 DEF at
  <2> QED BY <1>0, <2>1, <2>3, <2>4
<1> HIDE DEF t, at
\* A range that begins before the end of the tile begins before the tile does.
<1>3. ASSUME NEW d \in 0 .. ExpertCount, base[d] < (t + 1) * TileRows
      PROVE  base[d] <= at
  <2>1. PICK m \in Nat : base[d] = m * TileRows
    BY DEF WholeTiles
  <2>2. m < t + 1
    <3> SUFFICES ASSUME t + 1 <= m PROVE FALSE
      BY <1>2
    <3>1. (t + 1) * TileRows <= m * TileRows
      BY <1>0, <1>2, ProductMonotone
    <3> QED BY <1>0, <1>2, <1>3, <2>1, <3>1
  <2>3. m <= t
    BY <1>2, <2>2
  <2>4. m * TileRows <= t * TileRows
    BY <1>0, <1>2, <2>3, ProductMonotone
  <2> QED BY <2>1, <2>4 DEF at
<1>4. \A d \in Experts : d \in 0 .. ExpertCount /\ base[d] \in Int /\ base[d + 1] \in Int
  BY DEF Experts, MoeAssumption, Ascending
<1>5. base[e] <= at /\ at < base[e + 1]
  <2>1. base[e] < (t + 1) * TileRows
    BY <1>2, <1>4
  <2>2. base[e] <= at
    BY <1>3, <1>4, <2>1
  <2> QED BY <1>2, <1>4, <2>2
<1>6. \A d \in Experts : base[d] <= at /\ at < base[d + 1] => d = e
  BY <1>2, <1>5, RangeOfRow
<1>7. ASSUME NEW d \in Experts, base[d] < (t + 1) * TileRows, at < base[d + 1] PROVE d = e
  BY <1>3, <1>4, <1>6, <1>7
<1>8. base[e] < (t + 1) * TileRows
  BY <1>0, <1>2, <1>4, <1>5
<1>9. t \in 0 .. (base[ExpertCount] \div TileRows - 1)
  <2>1. PICK m \in Nat : base[ExpertCount] = m * TileRows
    BY <1>0 DEF WholeTiles
  <2>2. t < m
    <3> SUFFICES ASSUME m <= t PROVE FALSE
      BY <1>2
    <3>1. m * TileRows <= t * TileRows
      BY <1>0, <1>2, ProductMonotone
    <3>2. base[ExpertCount] <= at
      BY <2>1, <3>1 DEF at
    <3>3. base[ExpertCount] \in Int
      BY <1>0 DEF Ascending
    <3> QED BY <1>1, <1>2, <3>2, <3>3
  <2>3. base[ExpertCount] \div TileRows = m
    <3>1. TaskNumber(TileRows, m, 0) \div TileRows = m
      <4>1. 0 \in 0 .. (TileRows - 1)
        BY <1>0
      <4> QED BY <1>0, <4>1, PartsOfTask
    <3>2. TaskNumber(TileRows, m, 0) = m * TileRows
      <4>1. m * TileRows \in Nat
        BY <1>0
      <4> QED BY <4>1 DEF TaskNumber
    <3> QED BY <2>1, <3>1, <3>2
  <2> QED BY <1>2, <2>2, <2>3
<1> QED BY <1>1, <1>5, <1>6, <1>7, <1>8, <1>9 DEF t, at, InTileOf

-----------------------------------------------------------------------------
(* moe_permute and moe_pad_schedule.                                       *)

LEMMA RoutesFinite ==
  ASSUME MoeAssumption
  PROVE  /\ RouteCount \in Nat /\ Routes \in SUBSET Int
         /\ IsFiniteSet(Routes) /\ Cardinality(Routes) = RouteCount
<1>1. RouteCount \in Nat
  BY DEF MoeAssumption, RouteCount
<1>2. IsFiniteSet(Routes) /\ Cardinality(Routes) = RouteCount
  <2>1. IsFiniteSet(0 .. (RouteCount - 1))
        /\ Cardinality(0 .. (RouteCount - 1))
             = IF 0 > RouteCount - 1 THEN 0 ELSE (RouteCount - 1) - 0 + 1
    BY <1>1, FS_Interval
  <2> QED BY <1>1, <2>1 DEF Routes
<1> QED BY <1>1, <1>2 DEF Routes

\* What moe_permute computes: the routes sorted by expert, in their order, and where the
\* rows of each expert begin.
LEMMA PermutationLaw ==
  ASSUME MoeAssumption, ids \in [Routes -> Experts]
  PROVE  /\ Ascending(Offsets) /\ Offsets[0] = 0 /\ Offsets[ExpertCount] = RouteCount
         /\ \A e \in Experts :
              /\ Cardinality(Class(Routes, ids, e)) \in Nat
              /\ Offsets[e + 1] = Offsets[e] + Cardinality(Class(Routes, ids, e))
         /\ \A r \in Routes :
              /\ Permuted(r) = Place(Offsets, Routes, ids, r)
              /\ Permuted(r) \in Routes
              /\ Offsets[ids[r]] <= Permuted(r) /\ Permuted(r) < Offsets[ids[r] + 1]
              /\ ExpertOf(Offsets, Permuted(r)) = ids[r]
         /\ \A r, q \in Routes : Permuted(r) = Permuted(q) => r = q
<1>0. ExpertCount \in Nat
  BY DEF MoeAssumption
<1>1. \A r \in Routes : r \in Int /\ ids[r] \in Experts /\ ids[r] \in Int
  BY <1>0 DEF Experts, Routes
<1>2. \A e \in 0 .. ExpertCount : Offsets[e] = Cardinality(Below(Routes, ids, e))
  BY DEF Offsets, Below
<1>3. \A e \in Int : /\ Cardinality(Below(Routes, ids, e)) \in Nat
                     /\ Cardinality(Below(Routes, ids, e + 1))
                          = Cardinality(Below(Routes, ids, e)) + Cardinality(Class(Routes, ids, e))
  BY <1>1, RoutesFinite, BelowNext
<1>4. \A e : Cardinality(Class(Routes, ids, e)) \in Nat
  BY RoutesFinite, PlacesInClass
<1>5. \A e \in Experts : e \in Int /\ e \in 0 .. ExpertCount /\ e + 1 \in 0 .. ExpertCount
  BY <1>0 DEF Experts
<1>6. \A e \in Experts : Offsets[e + 1] = Offsets[e] + Cardinality(Class(Routes, ids, e))
  BY <1>2, <1>3, <1>5
<1>7. Ascending(Offsets)
  <2>1. \A e \in 0 .. ExpertCount : Offsets[e] \in Int
    <3> SUFFICES ASSUME NEW e \in 0 .. ExpertCount PROVE Offsets[e] \in Int
      OBVIOUS
    <3>1. e \in Int
      BY <1>0
    <3>2. Cardinality(Below(Routes, ids, e)) \in Nat
      BY <1>3, <3>1
    <3>3. Offsets[e] = Cardinality(Below(Routes, ids, e))
      BY <1>2
    <3> QED BY <3>2, <3>3
  <2>2. Offsets \in [0 .. ExpertCount -> Int]
    BY <2>1 DEF Offsets
  <2>3. \A e \in Experts : Offsets[e] <= Offsets[e + 1]
    BY <1>4, <1>5, <1>6, <2>1
  <2> QED BY <2>2, <2>3 DEF Ascending
<1>8. Offsets[0] = 0
  <2>1. Below(Routes, ids, 0) = {}
    BY <1>1 DEF Below, Experts
  <2>2. 0 \in 0 .. ExpertCount
    BY <1>0
  <2> QED BY <1>2, <2>1, <2>2, FS_EmptySet
<1>9. Offsets[ExpertCount] = RouteCount
  <2>1. Below(Routes, ids, ExpertCount) = Routes
    BY <1>0, <1>1 DEF Below, Experts
  <2>2. ExpertCount \in 0 .. ExpertCount
    BY <1>0
  <2> QED BY <1>2, <2>1, <2>2, RoutesFinite
<1>10. \A r \in Routes : Permuted(r) = Place(Offsets, Routes, ids, r)
  <2> SUFFICES ASSUME NEW r \in Routes PROVE Permuted(r) = Place(Offsets, Routes, ids, r)
    OBVIOUS
  <2>1. {q \in 0 .. (r - 1) : ids[q] = ids[r]} = Before(Routes, ids, r)
    <3>1. RouteCount \in Nat /\ r \in 0 .. (RouteCount - 1)
      BY RoutesFinite DEF Routes
    <3>2. \A q : q \in 0 .. (r - 1) <=> q \in 0 .. (RouteCount - 1) /\ q < r
      BY <3>1
    <3> QED BY <3>2 DEF Before, Routes
  <2> QED BY <2>1 DEF Permuted, Among, Place
<1>11. \A e \in Experts : Offsets[e] + Cardinality(Class(Routes, ids, e)) <= Offsets[e + 1]
  BY <1>4, <1>5, <1>6, <1>7 DEF Ascending
<1>12. /\ \A r \in Routes : /\ Permuted(r) \in Int
                            /\ Offsets[ids[r]] <= Permuted(r)
                            /\ Permuted(r) < Offsets[ids[r] + 1]
       /\ \A r, q \in Routes : Permuted(r) = Permuted(q) => r = q
  <2>1. /\ \A r \in Routes : /\ Place(Offsets, Routes, ids, r) \in Int
                             /\ Offsets[ids[r]] <= Place(Offsets, Routes, ids, r)
                             /\ Place(Offsets, Routes, ids, r) < Offsets[ids[r] + 1]
        /\ \A r, q \in Routes :
             Place(Offsets, Routes, ids, r) = Place(Offsets, Routes, ids, q) => r = q
    BY <1>1, <1>7, <1>11, RoutesFinite, PlacedRows
  <2> QED BY <1>10, <2>1
<1>13. ASSUME NEW r \in Routes
       PROVE  Permuted(r) \in Routes /\ ExpertOf(Offsets, Permuted(r)) = ids[r]
  <2>1. /\ ids[r] \in Experts /\ Permuted(r) \in Int
        /\ Offsets[ids[r]] <= Permuted(r) /\ Permuted(r) < Offsets[ids[r] + 1]
    BY <1>1, <1>12
  <2>2. /\ Offsets[0] <= Permuted(r) /\ Permuted(r) < Offsets[ExpertCount]
        /\ ExpertOf(Offsets, Permuted(r)) = ids[r]
    BY <1>7, <2>1, RangeOfRow
  <2> QED BY <1>8, <1>9, <2>1, <2>2, RoutesFinite DEF Routes
<1> QED BY <1>4, <1>6, <1>7, <1>8, <1>9, <1>10, <1>12, <1>13

\* The arrays of moe_permute: inverse is one to one and onto, and sorted_rows at a route's
\* position is the route's token.
LEMMA PermuteLaw ==
  ASSUME MoeAssumption, ids \in [Routes -> Experts]
  PROVE  /\ MoePermute.offsets = Offsets
         /\ MoePermute.inverse \in [Routes -> Routes]
         /\ \A r \in Routes : MoePermute.inverse[r] = Permuted(r)
         /\ \A r, q \in Routes : MoePermute.inverse[r] = MoePermute.inverse[q] => r = q
         /\ DOMAIN MoePermute.sortedRows = Routes
         /\ \A r \in Routes : MoePermute.sortedRows[MoePermute.inverse[r]] = TokenOf(r)
<1> DEFINE inverse == [route \in Routes |-> Permuted(route)]
           At(row) == CHOOSE route \in Routes : inverse[route] = row
<1>1. /\ MoePermute.offsets = Offsets /\ MoePermute.inverse = inverse
      /\ MoePermute.sortedRows = [row \in Routes |-> TokenOf(At(row))]
  BY DEF MoePermute
<1>2. /\ \A r \in Routes : inverse[r] = Permuted(r) /\ inverse[r] \in Routes
      /\ \A r, q \in Routes : inverse[r] = inverse[q] => r = q
  BY PermutationLaw
<1>3. inverse \in [Routes -> Routes]
  BY <1>2
<1> HIDE DEF inverse
<1>4. \A r \in Routes : At(inverse[r]) = r
  BY <1>2
<1> QED BY <1>1, <1>2, <1>3, <1>4

\* ... and onto: a permutation leaves no row without its route.
LEMMA InverseOnto ==
  ASSUME MoeAssumption, NEW inverse \in [Routes -> Routes],
         \A r, q \in Routes : inverse[r] = inverse[q] => r = q
  PROVE  \A row \in Routes : \E r \in Routes : inverse[r] = row
<1>1. inverse \in Injection(Routes, Routes)
  BY Fun_IsInj
<1>2. inverse \in Surjection(Routes, Routes)
  BY <1>1, RoutesFinite, FS_Injection
<1> QED BY <1>2, Fun_SurjectionProperties

\* What moe_pad_schedule computes of a permutation: each route's padded row holds the
\* route's token and is in a tile of the route's expert.
LEMMA ScheduleLaw ==
  ASSUME MoeAssumption, ids \in [Routes -> Experts], NEW permuted,
         permuted.offsets = Offsets,
         \A r \in Routes : /\ permuted.inverse[r] = Permuted(r)
                           /\ permuted.sortedRows[Permuted(r)] = TokenOf(r),
         NEW r \in Routes
  PROVE  LET schedule == MoePadSchedule(permuted)
             row == schedule.inversePadded[r]
         IN  /\ row \in DOMAIN schedule.gatherRows
             /\ schedule.gatherRows[row] = TokenOf(r)
             /\ schedule.expertOfTile[row \div TileRows] = ids[r]
<1> DEFINE count == [e \in Experts |-> Offsets[e + 1] - Offsets[e]]
           padded == PaddedSums(count)
           Tile(tile) == CHOOSE e \in Experts : padded[e] <= tile * TileRows
                                                /\ tile * TileRows < padded[e + 1]
           Row(row) == LET e == Tile(row \div TileRows)
                           place == row - padded[e]
                       IN IF place < Offsets[e + 1] - Offsets[e]
                          THEN permuted.sortedRows[Offsets[e] + place] ELSE Absent
           schedule == MoePadSchedule(permuted)
           e == ids[r]
           compact == Permuted(r)
           row == padded[e] + compact - Offsets[e]
<1>1. /\ schedule.expertOfTile
           = [tile \in 0 .. (padded[ExpertCount] \div TileRows - 1) |-> Tile(tile)]
      /\ schedule.gatherRows = [x \in 0 .. (padded[ExpertCount] - 1) |-> Row(x)]
      /\ schedule.inversePadded[r]
           = padded[ExpertOf(Offsets, compact)] + compact - Offsets[ExpertOf(Offsets, compact)]
  <2>1. padded = PaddedOffsets(permuted.offsets)
    BY DEF PaddedOffsets
  <2>2. permuted.inverse[r] = compact
    OBVIOUS
  <2> HIDE DEF padded, compact
  <2>3. schedule.expertOfTile
          = [tile \in 0 .. (padded[ExpertCount] \div TileRows - 1) |-> Tile(tile)]
    BY <2>1 DEF MoePadSchedule
  <2>4. schedule.gatherRows = [x \in 0 .. (padded[ExpertCount] - 1) |-> Row(x)]
    BY <2>1 DEF MoePadSchedule
  <2>5. schedule.inversePadded[r]
          = padded[ExpertOf(Offsets, compact)] + compact - Offsets[ExpertOf(Offsets, compact)]
    BY <2>1, <2>2 DEF MoePadSchedule
  <2> QED BY <2>3, <2>4, <2>5
<1>2. /\ e \in Experts /\ ExpertOf(Offsets, compact) = e /\ compact \in Int
      /\ Offsets[e] <= compact /\ compact < Offsets[e + 1]
  BY PermutationLaw, RoutesFinite
<1>3. \A d \in Experts : Offsets[d] \in Int /\ Offsets[d + 1] \in Int /\ count[d] \in Nat
  <2> SUFFICES ASSUME NEW d \in Experts
               PROVE  Offsets[d] \in Int /\ Offsets[d + 1] \in Int /\ count[d] \in Nat
    OBVIOUS
  <2>1. Cardinality(Class(Routes, ids, d)) \in Nat
        /\ Offsets[d + 1] = Offsets[d] + Cardinality(Class(Routes, ids, d))
    BY PermutationLaw
  <2>2. d \in 0 .. ExpertCount /\ d + 1 \in 0 .. ExpertCount
    BY DEF Experts, MoeAssumption
  <2>3. Offsets \in [0 .. ExpertCount -> Int]
    BY PermutationLaw DEF Ascending
  <2>4. Offsets[d] \in Int /\ Offsets[d + 1] \in Int
    BY <2>2, <2>3
  <2> QED BY <2>1, <2>4
<1>4. count \in [Experts -> Nat] /\ \A d \in Experts : count[d] = Offsets[d + 1] - Offsets[d]
  BY <1>3
<1> HIDE DEF count, schedule, compact, e
<1>5. /\ Ascending(padded) /\ WholeTiles(padded)
      /\ \A d \in Experts : padded[d] + count[d] <= padded[d + 1]
  BY <1>4, PaddedRanges
<1> HIDE DEF padded
<1>6. padded[e] \in Int /\ padded[e + 1] \in Int
  BY <1>2, <1>5 DEF Ascending, Experts, MoeAssumption
<1>7. /\ row \in Int /\ padded[e] <= row /\ row < padded[e + 1]
      /\ row - padded[e] = compact - Offsets[e]
      /\ row - padded[e] < Offsets[e + 1] - Offsets[e]
      /\ Offsets[e] + (row - padded[e]) = compact
  <2>1. Offsets[e] \in Int /\ Offsets[e + 1] \in Int /\ compact \in Int
    BY <1>2, <1>3
  <2>2. padded[e] + (Offsets[e + 1] - Offsets[e]) <= padded[e + 1]
    BY <1>2, <1>4, <1>5
  <2> QED BY ONLY <1>2, <1>6, <2>1, <2>2
<1>8. schedule.inversePadded[r] = row
  BY <1>1, <1>2
<1> HIDE DEF row
<1>9. /\ row \in Nat /\ row < padded[ExpertCount] /\ padded[ExpertCount] \in Int
      /\ row \div TileRows \in 0 .. (padded[ExpertCount] \div TileRows - 1)
      /\ \A d \in Experts :
           padded[d] <= (row \div TileRows) * TileRows
             /\ (row \div TileRows) * TileRows < padded[d + 1] <=> d = e
  <2>1. row < padded[ExpertCount]
    BY <1>2, <1>5, <1>7, RangeOfRow
  <2>2. padded[ExpertCount] \in Int
    BY <1>5 DEF Ascending, MoeAssumption
  <2>3. InTileOf(padded, e, row)
    BY <1>2, <1>5, <1>7, TileOfRow
  <2> QED BY <2>1, <2>2, <2>3 DEF InTileOf
<1>10. Tile(row \div TileRows) = e
  BY <1>2, <1>9
<1>11. schedule.expertOfTile[row \div TileRows] = e
  <2> HIDE DEF Tile
  <2> QED BY <1>1, <1>9, <1>10
<1>12. row \in DOMAIN schedule.gatherRows /\ schedule.gatherRows[row] = Row(row)
  <2> HIDE DEF Row
  <2> QED BY <1>1, <1>9
<1>13. Row(row) = permuted.sortedRows[compact]
  <2> HIDE DEF Tile
  <2> QED BY <1>7, <1>10
<1>14. Row(row) = TokenOf(r)
  <2> HIDE DEF Row
  <2> QED BY <1>13 DEF compact
<1> HIDE DEF Row
<1> QED BY <1>8, <1>11, <1>12, <1>14 DEF schedule, e

-----------------------------------------------------------------------------
(* The layer.                                                              *)

\* A route has one token and one rank.
LEMMA RouteOfToken ==
  ASSUME MoeAssumption, NEW token \in MoeTokens, NEW rank \in 0 .. (TopK - 1)
  PROVE  /\ token * TopK + rank \in Routes
         /\ TokenOf(token * TopK + rank) = token
<1>1. TokenCount \in Nat /\ TopK \in Nat \ {0} /\ token \in 0 .. (TokenCount - 1) /\ token \in Nat
  BY DEF MoeAssumption, MoeTokens
<1>2. TaskNumber(TopK, token, rank) \in 0 .. (TokenCount * TopK - 1)
  BY <1>1, TaskInRange
<1>3. TaskNumber(TopK, token, rank) \div TopK = token
  BY <1>1, PartsOfTask
<1> QED BY <1>2, <1>3 DEF TaskNumber, Routes, RouteCount, TokenOf

\* Every route belongs to a token.
LEMMA TokenOfRoute ==
  ASSUME MoeAssumption, NEW route \in Routes PROVE TokenOf(route) \in MoeTokens
<1>1. TokenCount \in Nat /\ TopK \in Nat \ {0} /\ route \in 0 .. (TokenCount * TopK - 1)
  BY DEF MoeAssumption, Routes, RouteCount
<1> QED BY <1>1, TaskParts DEF TokenOf, MoeTokens

LEMMA InitLayer == ASSUME MoeInit PROVE RowsFollowRoutes
BY DEF MoeInit, RowsFollowRoutes, ILayout, IPermutation, HasPermutation, ISchedule, IRows

LEMMA NextLayout ==
  ASSUME RowsFollowRoutes, [MoeNext]_layerVars PROVE ILayout'
<1>1. ILayout
  BY DEF RowsFollowRoutes
<1>2. ASSUME Route PROVE ILayout'
  BY <1>1, <1>2 DEF ILayout, Route, RoutedIds, Then
<1>3. ASSUME LoraAlign PROVE ILayout'
  BY <1>1, <1>3 DEF ILayout, LoraAlign, Then
<1>4. ASSUME \/ Permute \/ PadSchedule \/ Gather \/ Project \/ Compact \/ Finalize
             \/ FinalizeBackward \/ GatherBackward
      PROVE  ILayout'
  BY <1>1, <1>4 DEF ILayout, Permute, PadSchedule, Gather, Project, Compact, Finalize,
     FinalizeBackward, GatherBackward, Then
<1>5. ASSUME UNCHANGED layerVars PROVE ILayout'
  BY <1>1, <1>5 DEF ILayout, layerVars
<1> QED BY <1>2, <1>3, <1>4, <1>5 DEF MoeNext, Returned

\* Calls that leave the arrays and the experts of the routes alone.
LEMMA KeepsPermutation ==
  ASSUME IPermutation, ids' = ids, layout' = layout, call' # "permuted",
         HasPermutation' => HasPermutation, index'.inverse = index.inverse,
         index'.sortedRows = index.sortedRows, index'.offsets = index.offsets
  PROVE  IPermutation'
BY DEF IPermutation

LEMMA NextPermutation ==
  ASSUME MoeAssumption, RowsFollowRoutes, [MoeNext]_layerVars PROVE IPermutation'
<1>1. ILayout /\ IPermutation
  BY DEF RowsFollowRoutes
<1>2. ASSUME Route PROVE IPermutation'
  BY <1>2 DEF Route, Then, IPermutation, HasPermutation
<1>3. ASSUME LoraAlign PROVE IPermutation'
  BY <1>3 DEF LoraAlign, Then, IPermutation, HasPermutation
<1>4. ASSUME Permute PROVE IPermutation'
  <2> SUFFICES ASSUME HasPermutation' PROVE IPermutation'
    BY DEF IPermutation
  <2>1. /\ index' = MoePermute /\ ids' = ids /\ layout' = layout
        /\ call = "routed" /\ layout # "adapters"
    BY <1>4 DEF Permute, Then, HasPermutation
  <2>2. ids \in [Routes -> Experts]
    BY <1>1, <2>1 DEF ILayout
  <2>3. MoePermute' = MoePermute
    BY <2>1 DEF MoePermute, Offsets, Permuted, Among
  <2>4. /\ MoePermute.offsets = Offsets
        /\ MoePermute.inverse \in [Routes -> Routes]
        /\ \A r \in Routes : MoePermute.inverse[r] = Permuted(r)
        /\ \A r, q \in Routes : MoePermute.inverse[r] = MoePermute.inverse[q] => r = q
        /\ DOMAIN MoePermute.sortedRows = Routes
        /\ \A r \in Routes : MoePermute.sortedRows[MoePermute.inverse[r]] = TokenOf(r)
    BY <2>2, PermuteLaw
  <2>5. \A r \in Routes : ExpertOf(Offsets, Permuted(r)) = ids[r]
    BY <2>2, PermutationLaw
  <2> QED BY <2>1, <2>3, <2>4, <2>5 DEF IPermutation
<1>5. ASSUME PadSchedule PROVE IPermutation'
  <2>1. /\ ids' = ids /\ layout' = layout
        /\ call = "permuted" /\ call' = "scheduled" /\ HasPermutation
    BY <1>5 DEF PadSchedule, Then, HasPermutation
  <2>2. /\ index'.inverse = index.inverse /\ index'.offsets = index.offsets
        /\ index'.sortedRows = index.sortedRows
    BY <1>5 DEF PadSchedule
  <2> QED BY <1>1, <2>1, <2>2, KeepsPermutation
<1>6. ASSUME \/ Gather \/ Project \/ Compact \/ Finalize \/ FinalizeBackward \/ GatherBackward
      PROVE  IPermutation'
  <2>1. /\ index' = index /\ ids' = ids /\ layout' = layout /\ call' # "permuted"
        /\ HasPermutation' => HasPermutation
    BY <1>6 DEF Gather, Project, Compact, Finalize, FinalizeBackward, GatherBackward, Then,
       HasPermutation
  <2> QED BY <1>1, <2>1, KeepsPermutation
<1>7. ASSUME UNCHANGED layerVars PROVE IPermutation'
  <2>1. ids' = ids /\ index' = index /\ layout' = layout /\ call' = call
    BY <1>7 DEF layerVars
  <2>2. MoePermute' = MoePermute
    BY <2>1 DEF MoePermute, Offsets, Permuted, Among
  <2> QED BY <1>1, <2>1, <2>2 DEF IPermutation, HasPermutation
<1> QED BY <1>2, <1>3, <1>4, <1>5, <1>6, <1>7 DEF MoeNext, Returned

LEMMA NextSchedule ==
  ASSUME MoeAssumption, RowsFollowRoutes, [MoeNext]_layerVars PROVE ISchedule'
<1>1. ILayout /\ IPermutation /\ ISchedule
  BY DEF RowsFollowRoutes
<1>2. ASSUME Route PROVE ISchedule'
  BY <1>2 DEF Route, Then, ISchedule, HasPermutation
<1>3. ASSUME LoraAlign PROVE ISchedule'
  BY <1>3 DEF LoraAlign, Then, ISchedule, HasPermutation
<1>4. ASSUME Permute PROVE ISchedule'
  BY <1>4 DEF Permute, Then, ISchedule
<1>5. ASSUME PadSchedule PROVE ISchedule'
  <2>1. ids' = ids /\ call = "permuted" /\ layout = "padded" /\ HasPermutation
    BY <1>5 DEF PadSchedule, Then, HasPermutation
  <2>2. index = MoePermute /\ ids \in [Routes -> Experts]
    BY <1>1, <2>1 DEF IPermutation, ILayout
  <2> DEFINE schedule == MoePadSchedule(index)
  <2>4. /\ index'.inversePadded = schedule.inversePadded
        /\ index'.gatherRows = schedule.gatherRows
        /\ index'.expertOfTile = schedule.expertOfTile
    BY <1>5 DEF PadSchedule
  <2> HIDE DEF schedule
  <2>5. /\ index.offsets = Offsets
        /\ \A r \in Routes : /\ index.inverse[r] = Permuted(r)
                             /\ index.sortedRows[Permuted(r)] = TokenOf(r)
    BY <2>2, PermuteLaw
  <2>6. ASSUME NEW r \in Routes
        PROVE  LET row == schedule.inversePadded[r]
               IN  /\ row \in DOMAIN schedule.gatherRows
                   /\ schedule.gatherRows[row] = TokenOf(r)
                   /\ schedule.expertOfTile[row \div TileRows] = ids[r]
    BY <2>2, <2>5, ScheduleLaw DEF schedule
  <2> QED BY <2>1, <2>4, <2>6 DEF ISchedule
<1>6. ASSUME \/ Gather \/ Project \/ Compact \/ Finalize \/ FinalizeBackward \/ GatherBackward
      PROVE  ISchedule'
  <2>1. /\ index' = index /\ ids' = ids /\ layout' = layout
        /\ layout = "padded" => HasPermutation /\ call # "permuted"
    BY <1>6 DEF Gather, Project, Compact, Finalize, FinalizeBackward, GatherBackward, Then,
       HasPermutation
  <2> QED BY <1>1, <2>1 DEF ISchedule, HasPermutation
<1>7. ASSUME UNCHANGED layerVars PROVE ISchedule'
  BY <1>1, <1>7 DEF layerVars, ISchedule, HasPermutation
<1> QED BY <1>2, <1>3, <1>4, <1>5, <1>6, <1>7 DEF MoeNext, Returned

LEMMA NextRows ==
  ASSUME MoeAssumption, RowsFollowRoutes, [MoeNext]_layerVars PROVE IRows'
<1>1. ILayout /\ IPermutation /\ ISchedule /\ IRows
  BY DEF RowsFollowRoutes
<1>2. ASSUME call' \notin {"gathered", "projected", "compacted", "gradients"} PROVE IRows'
  BY <1>2 DEF IRows
<1>3. ASSUME \/ Route \/ Permute \/ PadSchedule \/ Finalize \/ GatherBackward \/ LoraAlign
      PROVE  IRows'
  BY <1>2, <1>3 DEF Route, Permute, PadSchedule, Finalize, GatherBackward, LoraAlign, Then
<1>4. ASSUME Gather PROVE IRows'
  <2>1. /\ index' = index /\ ids' = ids /\ layout' = layout /\ call' = "gathered"
        /\ HasPermutation
    BY <1>1, <1>4 DEF Gather, Then, HasPermutation, ILayout
  <2> SUFFICES ASSUME NEW r \in Routes
               PROVE  Position(r)' \in DOMAIN rows' /\ rows'[Position(r)'] = TokenOf(r)
    BY <2>1 DEF IRows
  <2>2. Position(r)' = Position(r)
    BY <2>1 DEF Position
  <2>3. CASE layout = "padded"
    <3>1. rows' = index.gatherRows /\ call # "permuted"
      BY <1>4, <2>3 DEF Gather
    <3>2. /\ Position(r) \in DOMAIN index.gatherRows
          /\ index.gatherRows[Position(r)] = TokenOf(r)
      BY <1>1, <2>1, <2>3, <3>1 DEF ISchedule, Position
    <3> QED BY <2>2, <3>1, <3>2
  <2>4. CASE layout # "padded"
    <3>1. rows' = index.sortedRows /\ Position(r) = index.inverse[r]
      BY <1>1, <1>4, <2>4 DEF Gather, Position, ILayout
    <3>2. /\ index.inverse[r] \in DOMAIN index.sortedRows
          /\ index.sortedRows[index.inverse[r]] = TokenOf(r)
      BY <1>1, <2>1 DEF IPermutation
    <3> QED BY <2>2, <3>1, <3>2
  <2> QED BY <2>3, <2>4
<1>5. ASSUME Project PROVE IRows'
  <2>1. /\ index' = index /\ ids' = ids /\ layout' = layout /\ call' = "projected"
        /\ call = "gathered" /\ HasPermutation
        /\ rows' = [row \in DOMAIN rows |-> [token |-> rows[row], expert |-> ExpertOfRow(row)]]
    BY <1>1, <1>5 DEF Project, Then, HasPermutation, ILayout
  <2> SUFFICES ASSUME NEW r \in Routes PROVE rows'[Position(r)'] = Product(r)'
    BY <2>1 DEF IRows
  <2>2. Position(r)' = Position(r) /\ Product(r)' = Product(r)
    BY <2>1 DEF Position, Product
  <2>3. Position(r) \in DOMAIN rows /\ rows[Position(r)] = TokenOf(r)
    BY <1>1, <2>1 DEF IRows
  <2>4. ExpertOfRow(Position(r)) = ids[r]
    <3>1. CASE layout = "padded"
      BY <1>1, <2>1, <3>1 DEF ISchedule, Position, ExpertOfRow
    <3>2. CASE layout # "padded"
      BY <1>1, <2>1, <3>2 DEF IPermutation, Position, ExpertOfRow
    <3> QED BY <3>1, <3>2
  <2>5. rows'[Position(r)] = [token |-> rows[Position(r)], expert |-> ExpertOfRow(Position(r))]
    BY <2>1, <2>3
  <2> QED BY <2>2, <2>3, <2>4, <2>5 DEF Product
\* A position of the permutation is one route's, whose row is moved there.
<1>6. \A r \in Routes : HasPermutation =>
        index.inverse[r] \in Routes
        /\ (CHOOSE q \in Routes : index.inverse[q] = index.inverse[r]) = r
  BY <1>1 DEF IPermutation
<1>7. ASSUME Compact PROVE IRows'
  <2>1. /\ index' = index /\ ids' = ids /\ layout = "padded" /\ call' = "compacted"
        /\ call = "projected" /\ HasPermutation
        /\ rows' = [row \in Routes |->
             rows[index.inversePadded[CHOOSE q \in Routes : index.inverse[q] = row]]]
    BY <1>7 DEF Compact, Then, HasPermutation
  <2> SUFFICES ASSUME NEW r \in Routes PROVE rows'[index.inverse[r]] = Product(r)
    BY <2>1 DEF IRows, Product
  <2>2. rows'[index.inverse[r]] = rows[index.inversePadded[r]]
    BY <1>6, <2>1
  <2>3. rows[index.inversePadded[r]] = Product(r)
    BY <1>1, <2>1 DEF IRows, Position
  <2> QED BY <2>2, <2>3
<1>8. ASSUME FinalizeBackward PROVE IRows'
  <2>1. /\ index' = index /\ call' = "gradients" /\ HasPermutation
        /\ rows' = [row \in Routes |-> CHOOSE q \in Routes : index.inverse[q] = row]
    BY <1>1, <1>8 DEF FinalizeBackward, ExpertGradients, Then, HasPermutation, ILayout
  <2> SUFFICES ASSUME NEW r \in Routes PROVE rows'[index.inverse[r]] = r
    BY <2>1 DEF IRows
  <2> QED BY <1>6, <2>1
<1>9. ASSUME UNCHANGED layerVars PROVE IRows'
  BY <1>1, <1>9 DEF layerVars, IRows, Position, Product
<1> QED BY <1>3, <1>4, <1>5, <1>7, <1>8, <1>9 DEF MoeNext, Returned

\* A row is its route's, whatever array leads to it: the offsets of the experts, the
\* permutation and its inverse, the padded tiles and the products (moe_permute,
\* moe_pad_schedule, moe_gather, moe_grouped_gemm).
THEOREM MoeInvariant == ASSUME MoeAssumption PROVE MoeSpec => []RowsFollowRoutes
<1>1. MoeInit => RowsFollowRoutes
  BY InitLayer
<1>2. RowsFollowRoutes /\ [MoeNext]_layerVars => RowsFollowRoutes'
  <2> SUFFICES ASSUME RowsFollowRoutes, [MoeNext]_layerVars PROVE RowsFollowRoutes'
    OBVIOUS
  <2>1. ILayout' /\ IPermutation' /\ ISchedule' /\ IRows'
    BY NextLayout, NextPermutation, NextSchedule, NextRows
  <2> QED BY <2>1 DEF RowsFollowRoutes
<1> QED BY <1>1, <1>2, PTL DEF MoeSpec

\* Every token gets the products of its own features with the experts it was routed to,
\* each at the rank of its weight (moe_finalize).
THEOREM MoeRoutedProducts == ASSUME MoeAssumption PROVE MoeSpec => []RoutedProducts
<1>1. MoeInit => RoutedProducts
  BY DEF MoeInit, RoutedProducts
<1>2. RowsFollowRoutes /\ RoutedProducts /\ [MoeNext]_layerVars => RoutedProducts'
  <2> SUFFICES ASSUME RowsFollowRoutes, RoutedProducts, [MoeNext]_layerVars
               PROVE  RoutedProducts'
    OBVIOUS
  <2>1. IRows
    BY DEF RowsFollowRoutes
  <2>2. ASSUME \/ Route \/ Permute \/ PadSchedule \/ Gather \/ Project \/ Compact
               \/ FinalizeBackward \/ GatherBackward \/ LoraAlign
        PROVE  RoutedProducts'
    BY <2>2 DEF RoutedProducts, Route, Permute, PadSchedule, Gather, Project, Compact,
       FinalizeBackward, GatherBackward, LoraAlign, Then
  <2>3. ASSUME Finalize PROVE RoutedProducts'
    <3> SUFFICES ASSUME NEW token \in MoeTokens, NEW rank \in 0 .. (TopK - 1)
                 PROVE  out'[token][rank] = [token |-> token, expert |-> ids[token * TopK + rank]]
      BY <2>3 DEF RoutedProducts, Finalize, Then
    <3> DEFINE r == token * TopK + rank
    <3>1. r \in Routes /\ TokenOf(r) = token
      BY RouteOfToken
    <3> HIDE DEF r
    <3>2. \A inverse : Finalized(inverse)[token][rank] = rows[inverse[r]]
      BY DEF Finalized, r
    <3>3. out'[token][rank] = Product(r)
      <4>1. CASE call = "projected" /\ layout = "compact" /\ out' = Finalized(index.inverse)
        BY <2>1, <3>1, <3>2, <4>1 DEF IRows, Position
      <4>2. CASE /\ call = "projected" /\ layout = "padded"
                 /\ out' = Finalized(index.inversePadded)
        BY <2>1, <3>1, <3>2, <4>2 DEF IRows, Position
      <4>3. CASE call = "compacted" /\ out' = Finalized(index.inverse)
        BY <2>1, <3>1, <3>2, <4>3 DEF IRows
      <4> QED BY <2>3, <4>1, <4>2, <4>3 DEF Finalize
    <3> QED BY <3>1, <3>3 DEF Product, r
  <2>4. ASSUME UNCHANGED layerVars PROVE RoutedProducts'
    BY <2>4 DEF layerVars, RoutedProducts
  <2> QED BY <2>2, <2>3, <2>4 DEF MoeNext, Returned
<1> QED BY <1>1, <1>2, MoeInvariant, PTL DEF MoeSpec

\* Every token gets the gradients of its own routes, each through the route's expert: all
\* of them, since the permutation is onto (moe_finalize_backward, moe_gather_backward).
THEOREM MoeRoutedGradients == ASSUME MoeAssumption PROVE MoeSpec => []RoutedGradients
<1>1. MoeInit => RoutedGradients
  BY DEF MoeInit, RoutedGradients
<1>2. RowsFollowRoutes /\ RoutedGradients /\ [MoeNext]_layerVars => RoutedGradients'
  <2> SUFFICES ASSUME RowsFollowRoutes, RoutedGradients, [MoeNext]_layerVars
               PROVE  RoutedGradients'
    OBVIOUS
  <2>1. ILayout /\ IPermutation /\ IRows
    BY DEF RowsFollowRoutes
  <2>2. ASSUME \/ Route \/ Permute \/ PadSchedule \/ Gather \/ Project \/ Compact
               \/ Finalize \/ FinalizeBackward \/ LoraAlign
        PROVE  RoutedGradients'
    BY <2>2 DEF RoutedGradients, Route, Permute, PadSchedule, Gather, Project, Compact,
       Finalize, FinalizeBackward, LoraAlign, Then
  <2>3. ASSUME GatherBackward PROVE RoutedGradients'
    <3>1. /\ ids' = ids /\ call = "gradients" /\ HasPermutation
          /\ out' = [token \in MoeTokens |->
               {[route |-> rows[row], expert |-> ExpertOf(index.offsets, row)] :
                  row \in {r \in Routes : index.sortedRows[r] = token}}]
      BY <2>1, <2>3 DEF GatherBackward, Then, HasPermutation, ILayout
    <3> SUFFICES ASSUME NEW token \in MoeTokens
                 PROVE  out'[token]
                          = {[route |-> r, expert |-> ids[r]] :
                               r \in {s \in Routes : TokenOf(s) = token}}
      BY <3>1 DEF RoutedGradients
    <3> DEFINE Term(row) == [route |-> rows[row], expert |-> ExpertOf(index.offsets, row)]
               Sorted == {r \in Routes : index.sortedRows[r] = token}
               Grad(r) == [route |-> r, expert |-> ids[r]]
               Own == {s \in Routes : TokenOf(s) = token}
    <3>2. \A r \in Routes : /\ index.inverse[r] \in Routes
                            /\ index.sortedRows[index.inverse[r]] = TokenOf(r)
                            /\ Term(index.inverse[r]) = Grad(r)
      BY <2>1, <3>1 DEF IPermutation, IRows
    <3>3. \A row \in Routes : \E r \in Routes : index.inverse[r] = row
      <4>1. /\ index.inverse \in [Routes -> Routes]
            /\ \A r, s \in Routes : index.inverse[r] = index.inverse[s] => r = s
        BY <2>1, <3>1 DEF IPermutation
      <4> QED BY <4>1, InverseOnto
    <3>4. out'[token] = {Term(row) : row \in Sorted}
      BY <3>1
    <3> HIDE DEF Term, Grad
    <3>5. \A row \in Sorted : \E r \in Own : Term(row) = Grad(r)
      BY <3>2, <3>3
    <3>6. \A r \in Own : \E row \in Sorted : Term(row) = Grad(r)
      BY <3>2
    <3>7. {Term(row) : row \in Sorted} = {Grad(r) : r \in Own}
      BY <3>5, <3>6
    <3> QED BY <3>4, <3>7 DEF Grad
  <2>4. ASSUME UNCHANGED layerVars PROVE RoutedGradients'
    BY <2>4 DEF layerVars, RoutedGradients
  <2> QED BY <2>2, <2>3, <2>4 DEF MoeNext, Returned
<1> QED BY <1>1, <1>2, MoeInvariant, PTL DEF MoeSpec

-----------------------------------------------------------------------------
(* The tiles of the adapters.                                              *)

\* What moe_lora_align writes for an adapter: each of its routes has one row, in a tile of
\* the route's expert, and the other rows have no route.
LEMMA LoraScheduleLaw ==
  ASSUME MoeAssumption, NEW adapter
  PROVE  LET schedule == LoraSchedule(adapter)
             own == LoraOwn(adapter)
             Rows(r) == {row \in DOMAIN schedule.sorted : schedule.sorted[row] = r}
         IN  /\ \A r \in own : \E row \in DOMAIN schedule.sorted :
                  Rows(r) = {row} /\ schedule.tileExpert[row \div TileRows] = ids'[r]
             /\ \A row \in DOMAIN schedule.sorted : schedule.sorted[row] \in own \cup {RouteCount}
<1> DEFINE schedule == LoraSchedule(adapter)
           own == LoraOwn(adapter)
           key == ids'
           count == [e \in Experts |-> Cardinality(Class(own, key, e))]
           base == PaddedSums(count)
           At(x) == {r \in own : Place(base, own, key, r) = x}
           Tile(tile) == CHOOSE e \in Experts : base[e] < (tile + 1) * TileRows
                                                /\ tile * TileRows < base[e + 1]
<1>1. /\ schedule.sorted = [row \in 0 .. (base[ExpertCount] - 1) |->
                              IF At(row) = {} THEN RouteCount ELSE CHOOSE r \in At(row) : TRUE]
      /\ schedule.tileExpert = [tile \in 0 .. (base[ExpertCount] \div TileRows - 1) |-> Tile(tile)]
  BY DEF LoraSchedule, LoraOffsets, Class, Before, Place
<1>2. own \in SUBSET Routes /\ \A r \in own : key[r] \in Experts
  BY DEF LoraOwn
<1> HIDE DEF schedule, own, key
<1>3. own \in SUBSET Int /\ IsFiniteSet(own) /\ RouteCount \notin own
  <2>1. RouteCount \notin Routes
    BY RoutesFinite DEF Routes
  <2> QED BY <1>2, <2>1, RoutesFinite, FS_Subset
<1>4. \A e : Cardinality(Class(own, key, e)) \in Nat
  BY <1>3, PlacesInClass
<1>5. /\ count \in [Experts -> Nat]
      /\ \A e \in Experts : count[e] = Cardinality(Class(own, key, e))
  BY <1>4
<1> HIDE DEF count
<1>6. /\ Ascending(base) /\ WholeTiles(base)
      /\ \A e \in Experts : base[e] + count[e] <= base[e + 1]
  BY <1>5, PaddedRanges
<1>7. \A e \in Experts : base[e] + Cardinality(Class(own, key, e)) <= base[e + 1]
  BY <1>5, <1>6
<1> HIDE DEF base
<1>8. /\ \A r \in own : /\ Place(base, own, key, r) \in Int
                        /\ base[key[r]] <= Place(base, own, key, r)
                        /\ Place(base, own, key, r) < base[key[r] + 1]
      /\ \A r, q \in own : Place(base, own, key, r) = Place(base, own, key, q) => r = q
  BY <1>2, <1>3, <1>6, <1>7, PlacedRows
<1>9. \A x : At(x) # {} => (CHOOSE r \in At(x) : TRUE) \in At(x)
  OBVIOUS
<1>10. \A x \in DOMAIN schedule.sorted :
         /\ At(x) = {} => schedule.sorted[x] = RouteCount
         /\ At(x) # {} => schedule.sorted[x] \in At(x)
  <2> HIDE DEF At
  <2> QED BY <1>1, <1>9
<1>11. \A row \in DOMAIN schedule.sorted : schedule.sorted[row] \in own \cup {RouteCount}
  BY <1>10
<1>12. ASSUME NEW r \in own
       PROVE  \E row \in DOMAIN schedule.sorted :
                /\ {x \in DOMAIN schedule.sorted : schedule.sorted[x] = r} = {row}
                /\ schedule.tileExpert[row \div TileRows] = key[r]
  <2> DEFINE row == Place(base, own, key, r)
  <2>1. /\ key[r] \in Experts /\ row \in Int
        /\ base[key[r]] <= row /\ row < base[key[r] + 1]
    BY <1>2, <1>8
  <2>2. \A x : r \in At(x) <=> x = row
    OBVIOUS
  <2>3. At(row) = {r}
    BY <1>8
  <2> HIDE DEF row, At
  <2>4. row < base[ExpertCount]
    BY <1>6, <2>1, RangeOfRow
  <2>5. InTileOf(base, key[r], row)
    BY <1>6, <2>1, TileOfRow
  <2>6. Tile(row \div TileRows) = key[r]
    BY <2>1, <2>5 DEF InTileOf
  <2>7. schedule.tileExpert[row \div TileRows] = key[r]
    <3> HIDE DEF Tile
    <3> QED BY <1>1, <2>5, <2>6 DEF InTileOf
  <2>8. base[ExpertCount] \in Int
    BY <1>6 DEF Ascending, MoeAssumption
  <2>9. DOMAIN schedule.sorted = 0 .. (base[ExpertCount] - 1)
    BY <1>1
  <2>10. row \in DOMAIN schedule.sorted
    BY <2>4, <2>5, <2>8, <2>9 DEF InTileOf
  <2>11. schedule.sorted[row] = r
    BY <1>10, <2>3, <2>10
  <2>12. \A x \in DOMAIN schedule.sorted : schedule.sorted[x] = r => x = row
    BY <1>3, <1>10, <2>2
  <2> QED BY <2>7, <2>10, <2>11, <2>12
<1> QED BY <1>11, <1>12 DEF schedule, own, key

\* An adapter that is listed and enabled is done when no entry of the list is bad.
LEMMA LoraWanted ==
  ASSUME MoeAssumption, NEW list \in LoraLists, \A i \in DOMAIN list : ~LoraBad(list, i),
         NEW i \in DOMAIN list, list[i] \in index'.enabled
  PROVE  list[i] \in LoraDone(list)
<1>1. DOMAIN list = 1 .. Len(list) /\ Len(list) \in Nat
  BY DEF MoeAssumption
<1>2. \A k \in 1 .. i : k \in DOMAIN list
  BY <1>1
<1> HIDE DEF LoraBad
<1> QED BY <1>2 DEF LoraDone

\* The tiles of an adapter hold each of its tokens' routes once, in a tile of the route's
\* expert, and a call that returned has made those of every enabled adapter it was given
\* (moe_lora_align).
THEOREM MoeLoraTiles == ASSUME MoeAssumption PROVE MoeSpec => []LoraTiles
<1>1. MoeInit => LoraTiles
  BY DEF MoeInit, LoraTiles
<1>2. RowsFollowRoutes /\ LoraTiles /\ [MoeNext]_layerVars => LoraTiles'
  <2> SUFFICES ASSUME RowsFollowRoutes, LoraTiles, [MoeNext]_layerVars PROVE LoraTiles'
    OBVIOUS
  <2>1. ILayout
    BY DEF RowsFollowRoutes
  <2>2. ASSUME \/ Route \/ Permute \/ PadSchedule \/ Gather \/ Project \/ Compact
               \/ Finalize \/ FinalizeBackward \/ GatherBackward
        PROVE  LoraTiles'
    <3>1. layout' # "adapters"
      BY <2>1, <2>2 DEF ILayout, Route, Permute, PadSchedule, Gather, Project, Compact,
         Finalize, FinalizeBackward, GatherBackward, Then
    <3> QED BY <3>1 DEF LoraTiles
  <2>3. ASSUME LoraAlign PROVE LoraTiles'
    <3>1. PICK list \in LoraLists :
            /\ index'.list = list
            /\ out' = [adapter \in 0 .. (Adapters - 1) |->
                         IF adapter \in LoraDone(list) THEN LoraSchedule(adapter) ELSE LoraIdle]
            /\ call' = IF \E i \in DOMAIN list : LoraBad(list, i) THEN "refused" ELSE "returned"
      BY <2>3 DEF LoraAlign, Then
    <3> SUFFICES ASSUME NEW adapter \in 0 .. (Adapters - 1),
                        \/ out'[adapter].postPad > 0
                        \/ /\ call' = "returned" /\ adapter \in index'.enabled
                           /\ \E i \in DOMAIN list : list[i] = adapter
                 PROVE  LET schedule == out'[adapter]
                            own == LoraOwn(adapter)
                            Rows(r) == {row \in DOMAIN schedule.sorted :
                                          schedule.sorted[row] = r}
                        IN  /\ \A r \in own : \E row \in DOMAIN schedule.sorted :
                                 /\ Rows(r) = {row}
                                 /\ schedule.tileExpert[row \div TileRows] = ids'[r]
                            /\ \A row \in DOMAIN schedule.sorted :
                                 schedule.sorted[row] \in own \cup {RouteCount}
      <4>1. \A adapter : LoraOwn(adapter)
              = {r \in Routes : index'.adapterOf[TokenOf(r)] = adapter /\ ids'[r] \in Experts}
        BY DEF LoraOwn
      <4> QED BY <3>1, <4>1, SMTT(30) DEF LoraTiles
    <3>2. adapter \in LoraDone(list)
      <4>1. CASE out'[adapter].postPad > 0
        <5>1. LoraIdle.postPad = 0
          BY DEF LoraIdle
        <5>2. out'[adapter] # LoraIdle
          BY <4>1, <5>1
        <5> HIDE DEF LoraDone, LoraSchedule, LoraIdle
        <5> QED BY <3>1, <5>2
      <4>2. CASE /\ call' = "returned" /\ adapter \in index'.enabled
                 /\ \E i \in DOMAIN list : list[i] = adapter
        <5>1. \A i \in DOMAIN list : ~LoraBad(list, i)
          BY <3>1, <4>2
        <5>2. PICK i \in DOMAIN list : list[i] = adapter
          BY <4>2
        <5>3. list[i] \in LoraDone(list)
          BY <4>2, <5>1, <5>2, LoraWanted
        <5> QED BY <5>2, <5>3
      <4> QED BY <4>1, <4>2
    <3>3. out'[adapter] = LoraSchedule(adapter)
      BY <3>1, <3>2
    <3> QED BY <3>3, LoraScheduleLaw
  <2>4. ASSUME UNCHANGED layerVars PROVE LoraTiles'
    BY <2>4 DEF layerVars, LoraTiles
  <2> QED BY <2>2, <2>3, <2>4 DEF MoeNext, Returned
<1> QED BY <1>1, <1>2, MoeInvariant, PTL DEF MoeSpec
=============================================================================
