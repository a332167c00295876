--------------------------- MODULE WorkspaceProofs ---------------------------
(***************************************************************************)
(* Allocations in use never overlap, promises are kept and a warmed-up     *)
(* arena never grows, for every block size, alignment and nesting of       *)
(* frames.                                                                 *)
(***************************************************************************)
EXTENDS WorkspaceReplay, SequenceTheorems, TLAPS

\* Rounding up does not go down.
LEMMA AlignUpFacts ==
  ASSUME NEW o \in Nat, NEW a \in Nat \ {0}
  PROVE  AlignUp(o, a) \in Nat /\ o <= AlignUp(o, a)
<1> DEFINE x == o + a - 1
           q == x \div a
           r == x % a
<1>1. x \in Nat
  OBVIOUS
<1>2. q \in Nat /\ r \in 0 .. (a - 1) /\ x = a * q + r
  <2> HIDE DEF x
  <2> QED BY <1>1
<1>3. AlignUp(o, a) = q * a
  BY DEF AlignUp
<1> HIDE DEF q, r
<1>4. q * a = a * q /\ q * a \in Nat
  BY <1>2
<1> QED BY <1>2, <1>3, <1>4

LEMMA SupportedFacts == ASSUME NEW a, Supported(a) PROVE a \in Nat \ {0}
BY DEF Supported

LEMMA GrowthFacts ==
  ASSUME TypeOK, NEW n \in Nat
  PROVE  GrowthSize(n) \in Nat /\ n <= GrowthSize(n)
<1>1. NBlocks \in Nat /\ (NBlocks # 0 => cap[NBlocks] \in Nat)
  BY DEF TypeOK, NBlocks
<1>2. MaxOf(n, MinBlock) \in Nat /\ n <= MaxOf(n, MinBlock)
  BY WorkspaceAssumption DEF MaxOf
<1> QED BY <1>1, <1>2 DEF GrowthSize, MaxOf

\* What TypeOK says of the elements of the sequences.
LEMMA ElementTypes ==
  ASSUME TypeOK
  PROVE  /\ NBlocks \in Nat /\ Depth \in Nat /\ Blocks = 1 .. NBlocks
         /\ \A b \in Blocks : cap[b] \in Nat /\ used[b] \in Nat
         /\ \A k \in 1 .. Depth : /\ frames[k] \in Marker
                                  /\ frames[k].block \in Nat
                                  /\ frames[k].offset \in Nat
                                  /\ frames[k].valid \in BOOLEAN
                                  /\ frames[k].promise \in Nat
         /\ \A x \in live : /\ x.block \in Nat /\ x.from \in Nat /\ x.to \in Nat
                           /\ x.depth \in Nat
<1>1. cap \in Seq(Nat) /\ used \in Seq(Nat) /\ Len(used) = Len(cap)
  BY DEF TypeOK, NBlocks
<1>2. NBlocks \in Nat /\ Blocks = 1 .. NBlocks
  BY <1>1 DEF NBlocks, Blocks
<1>3. \A b \in Blocks : cap[b] \in Nat /\ used[b] \in Nat
  BY <1>1 DEF NBlocks, Blocks
<1>4. frames \in Seq(Marker)
  BY DEF TypeOK
<1>5. Depth \in Nat /\ \A k \in 1 .. Depth : frames[k] \in Marker
  BY <1>4 DEF Depth
<1>6. \A m \in Marker : /\ m.block \in Nat /\ m.offset \in Nat
                        /\ m.valid \in BOOLEAN /\ m.promise \in Nat
  BY DEF Marker
<1>7. \A x \in Allocation : /\ x.block \in Nat /\ x.from \in Nat /\ x.to \in Nat
                            /\ x.depth \in Nat
  BY DEF Allocation
<1>8. live \subseteq Allocation
  BY DEF TypeOK
<1> QED BY <1>2, <1>3, <1>5, <1>6, <1>7, <1>8

\* A request served at the end of block i keeps everything in order: used is
\* the fill of the blocks after the step, which differs in block i alone.
LEMMA ServeInv ==
  ASSUME IArena, NEW n \in Nat \ {0}, NEW i \in Nat, NEW from \in Nat,
         Serve(n, i, from), TypeOK',
         i >= current, i \in Blocks',
         \A b \in Blocks : b \in Blocks' /\ cap'[b] = cap[b],
         \A b \in Blocks' : b # i => b \in Blocks /\ used'[b] = used[b],
         i \in Blocks => used[i] <= from,
         i \notin Blocks => i = NBlocks + 1,
         used'[i] = from + n, from + n <= cap'[i]
  PROVE  IArena'
<1> DEFINE new == [block |-> i, from |-> from, to |-> from + n, depth |-> Depth]
<1>0. /\ TypeOK /\ IFill /\ IFrames /\ IMarkers /\ LiveProtected
      /\ NBlocks \in Nat /\ current \in Nat /\ Depth \in Nat
      /\ current' = i /\ frames' = frames /\ live' = live \cup {new}
  BY DEF IArena, TypeOK, NBlocks, Serve, Depth
<1>1. \A x \in live : /\ x.block \in Nat /\ x.from \in Nat /\ x.to \in Nat
                      /\ x.depth \in Nat
  BY <1>0 DEF TypeOK, Allocation
<1>2. \A b \in Blocks : used[b] \in Nat /\ cap[b] \in Nat
  BY <1>0, ElementTypes
<1>3. IFill'
  <2>1. NBlocks' \in Nat /\ NBlocks <= NBlocks'
    <3>1. NBlocks' \in Nat
      BY DEF TypeOK, NBlocks
    <3>2. CASE NBlocks = 0
      BY <1>0, <3>1, <3>2
    <3>3. CASE NBlocks # 0
      <4>1. NBlocks \in Blocks
        BY <1>0, <3>3 DEF Blocks
      <4> QED BY <3>1, <4>1 DEF Blocks
    <3> QED BY <3>2, <3>3
  <2>2. current' >= 1 /\ NBlocks' # 0 /\ current' <= NBlocks'
    BY <1>0, <2>1 DEF Blocks
  <2>3. ASSUME NEW b \in Blocks'
        PROVE  used'[b] <= cap'[b] /\ (b > current' => used'[b] = 0)
    <3>1. CASE b = i
      BY <1>0, <3>1
    <3>2. CASE b # i
      BY <1>0, <2>3, <3>2 DEF IFill, Blocks
    <3> QED BY <3>1, <3>2
  <2> QED BY <2>2, <2>3 DEF IFill
<1>4. IFrames'
  <2>1. ASSUME NEW k \in 1 .. Depth, frames[k].valid
        PROVE  LET m == frames[k]
               IN /\ m.block \in Blocks' /\ m.block <= i /\ m.offset <= used'[m.block]
                  /\ \A x \in live' : x.depth < k => AtOrBelow(x.block, x.to, m.block, m.offset)
    <3> DEFINE m == frames[k]
    <3>1. /\ m.block \in Blocks /\ m.block <= current /\ m.offset <= used[m.block]
          /\ \A x \in live : x.depth < k => AtOrBelow(x.block, x.to, m.block, m.offset)
      BY <1>0, <2>1 DEF IFrames
    <3>2. m.block \in Nat /\ m.offset \in Nat
      BY <1>0, ElementTypes
    <3>5. m.offset <= used'[m.block]
      <4>1. CASE m.block = i
        BY <1>0, <1>2, <3>1, <3>2, <4>1
      <4>2. CASE m.block # i
        BY <1>0, <3>1, <3>2, <4>2 DEF Blocks
      <4> QED BY <4>1, <4>2
    <3>6. ~(new.depth < k)
      BY <1>0
    <3> QED BY <1>0, <3>1, <3>2, <3>5, <3>6
  <2>2. ASSUME NEW k \in 1 .. Depth, ~frames[k].valid
        PROVE  \A x \in live' : x.depth >= k
    BY <1>0, <2>2 DEF IFrames
  <2>3. \A x \in live' : x.depth <= Depth
    BY <1>0 DEF IFrames
  <2> QED BY <1>0, <2>1, <2>2, <2>3 DEF IFrames, Depth
<1>5. IMarkers'
  BY <1>0 DEF IMarkers, Depth
<1>6. LiveProtected'
  <2>1. ASSUME NEW x \in live
        PROVE  ~Overlap(x, new) /\ ~Overlap(new, x)
               /\ x.block \in Blocks' /\ x.to <= used'[x.block]
               /\ used'[x.block] <= cap'[x.block]
    <3>1. x.block \in Blocks /\ x.to <= used[x.block] /\ used[x.block] <= cap[x.block]
      BY <1>0 DEF LiveProtected
    <3>2. CASE x.block = i
      BY <1>0, <1>1, <1>2, <3>1, <3>2 DEF Overlap
    <3>3. CASE x.block # i
      BY <1>0, <1>1, <1>2, <3>1, <3>3 DEF Overlap
    <3> QED BY <3>2, <3>3
  <2>2. new.block \in Blocks' /\ new.to <= used'[new.block]
        /\ used'[new.block] <= cap'[new.block]
    OBVIOUS
  <2>3. \A x, y \in live : x # y => ~Overlap(x, y)
    BY <1>0 DEF LiveProtected
  <2> QED BY <1>0, <2>1, <2>2, <2>3 DEF LiveProtected, Overlap
<1> QED BY <1>3, <1>4, <1>5, <1>6 DEF IArena

-----------------------------------------------------------------------------
\* Appending to the blocks leaves the old ones as they are.
LEMMA AppendFacts ==
  ASSUME TypeOK, NEW c \in Nat, NEW u \in Nat,
         cap' = Append(cap, c), used' = Append(used, u)
  PROVE  /\ cap' \in Seq(Nat) /\ used' \in Seq(Nat) /\ Len(used') = NBlocks'
         /\ NBlocks' = NBlocks + 1 /\ Blocks' = Blocks \cup {NBlocks + 1}
         /\ \A b \in Blocks : cap'[b] = cap[b] /\ used'[b] = used[b]
         /\ cap'[NBlocks + 1] = c /\ used'[NBlocks + 1] = u
         /\ NBlocks + 1 \notin Blocks
<1>1. cap \in Seq(Nat) /\ used \in Seq(Nat) /\ Len(used) = Len(cap) /\ Len(cap) \in Nat
  BY DEF TypeOK, NBlocks
<1>2. cap' \in Seq(Nat) /\ used' \in Seq(Nat)
  BY <1>1
<1>3. Len(cap') = Len(cap) + 1 /\ Len(used') = Len(used) + 1
  BY <1>1
<1>4. \A b \in 1 .. Len(cap) : cap'[b] = cap[b] /\ used'[b] = used[b]
  BY <1>1
<1>5. cap'[Len(cap) + 1] = c /\ used'[Len(cap) + 1] = u
  BY <1>1
<1> QED BY <1>1, <1>2, <1>3, <1>4, <1>5 DEF NBlocks, Blocks

LEMMA ReserveFoundStep == ASSUME IArena, NEW n \in Sizes, ReserveFound(n) PROVE IArena'
<1>1. TypeOK'
  BY WorkspaceAssumption DEF IArena, TypeOK, ReserveFound, NBlocks
<1> QED BY <1>1 DEF IArena, IFill, IFrames, IMarkers, LiveProtected, ReserveFound, NBlocks,
                   Blocks, Depth, Overlap

LEMMA ReserveFailStep == ASSUME IArena, NEW n \in Sizes, ReserveFail(n) PROVE IArena'
<1>1. TypeOK'
  BY WorkspaceAssumption DEF IArena, TypeOK, ReserveFail, NBlocks
<1> QED BY <1>1 DEF IArena, IFill, IFrames, IMarkers, LiveProtected, ReserveFail, NBlocks,
                   Blocks, Depth, Overlap

LEMMA ReserveGrowStep == ASSUME IArena, NEW n \in Sizes, ReserveGrow(n) PROVE IArena'
<1>0. /\ TypeOK /\ IFill /\ IFrames /\ IMarkers /\ LiveProtected
      /\ n \in Nat /\ UNCHANGED <<current, frames, live>>
  BY WorkspaceAssumption DEF IArena, ReserveGrow
<1>1. GrowthSize(n) \in Nat
  BY <1>0, GrowthFacts
<1>2. /\ cap' \in Seq(Nat) /\ used' \in Seq(Nat) /\ Len(used') = NBlocks'
      /\ NBlocks' = NBlocks + 1 /\ Blocks' = Blocks \cup {NBlocks + 1}
      /\ \A b \in Blocks : cap'[b] = cap[b] /\ used'[b] = used[b]
      /\ cap'[NBlocks + 1] = GrowthSize(n) /\ used'[NBlocks + 1] = 0
  BY <1>0, <1>1, AppendFacts DEF ReserveGrow
<1>3. NBlocks \in Nat /\ current \in Nat
  BY <1>0, ElementTypes DEF TypeOK
<1>4. TypeOK'
  BY <1>0, <1>2 DEF TypeOK, ReserveGrow
<1>5. IFill'
  <2>1. current' = current /\ Blocks = 1 .. NBlocks
    BY <1>0 DEF Blocks
  <2>2. current >= 1 /\ current <= NBlocks + 1
    BY <1>0, <1>3 DEF IFill
  <2>3. \A b \in Blocks' : used'[b] <= cap'[b] /\ (b > current => used'[b] = 0)
    <3>1. \A b \in Blocks : used[b] <= cap[b] /\ (b > current => used[b] = 0)
      BY <1>0 DEF IFill
    <3>2. used'[NBlocks + 1] <= cap'[NBlocks + 1] /\ used'[NBlocks + 1] = 0
      BY <1>1, <1>2
    <3>3. /\ Blocks' = Blocks \cup {NBlocks + 1}
          /\ \A b \in Blocks : cap'[b] = cap[b] /\ used'[b] = used[b]
      BY <1>2
    <3> QED BY <2>1, <3>1, <3>2, <3>3, Zenon
  <2>4. (NBlocks' # 0 => current' <= NBlocks') /\ (NBlocks' = 0 => current' = 1)
    BY <1>2, <1>3, <2>1, <2>2
  <2> QED BY <2>1, <2>2, <2>3, <2>4 DEF IFill
<1>6. IFrames' /\ IMarkers' /\ LiveProtected'
  BY <1>0, <1>2, ZenonT(60) DEF IFrames, IMarkers, LiveProtected, Depth
<1> QED BY <1>4, <1>5, <1>6 DEF IArena

LEMMA AllocateFoundStep ==
  ASSUME IArena, NEW n \in Sizes, NEW a \in Alignments, AllocateFound(n, a)
  PROVE  IArena'
<1>0. TypeOK /\ n \in Nat \ {0} /\ a \in Nat \ {0} /\ UNCHANGED <<cap, frames>>
  BY WorkspaceAssumption, SupportedFacts DEF IArena, AllocateFound, Serve
<1>1. PICK i \in Candidates(n, a) : /\ used' = [used EXCEPT ![i] = AlignUp(used[i], a) + n]
                                   /\ Serve(n, i, AlignUp(used[i], a))
  BY DEF AllocateFound
<1> DEFINE from == AlignUp(used[i], a)
<1>2. i \in Blocks /\ i >= current /\ i \in Nat /\ used[i] \in Nat /\ cap[i] \in Nat
  BY <1>0, ElementTypes DEF Candidates
<1>3. from \in Nat /\ used[i] <= from
  BY <1>0, <1>2, AlignUpFacts
<1>4. from + n <= cap[i]
  BY <1>0, <1>2, <1>3 DEF Candidates, Fits, FitsAt
<1> HIDE DEF from
<1>5. used \in Seq(Nat) /\ i \in 1 .. Len(used) /\ Len(used) = NBlocks
  BY <1>0, <1>2 DEF TypeOK, Blocks
<1>6. /\ used' \in Seq(Nat) /\ Len(used') = Len(used)
      /\ \A b \in 1 .. Len(used) : used'[b] = IF b = i THEN from + n ELSE used[b]
  BY <1>0, <1>1, <1>3, <1>5 DEF from
<1>7. NBlocks' = NBlocks /\ Blocks' = Blocks
  BY <1>0 DEF NBlocks, Blocks
<1>8. live' = live \cup {[block |-> i, from |-> from, to |-> from + n, depth |-> Depth]}
  BY <1>1 DEF Serve, from
<1>9. [block |-> i, from |-> from, to |-> from + n, depth |-> Depth] \in Allocation
  BY <1>0, <1>2, <1>3, ElementTypes DEF Allocation
<1>10. TypeOK'
  BY <1>0, <1>1, <1>2, <1>5, <1>6, <1>7, <1>8, <1>9 DEF TypeOK, Serve
<1>11. Serve(n, i, from)
  BY <1>1 DEF from
<1>12. /\ \A b \in Blocks : b \in Blocks' /\ cap'[b] = cap[b]
       /\ \A b \in Blocks' : b # i => b \in Blocks /\ used'[b] = used[b]
       /\ used'[i] = from + n /\ cap'[i] = cap[i]
  BY <1>0, <1>5, <1>6, <1>7 DEF Blocks
<1> QED BY <1>0, <1>2, <1>3, <1>4, <1>7, <1>10, <1>11, <1>12, ServeInv

LEMMA AllocateGrowStep ==
  ASSUME IArena, NEW n \in Sizes, NEW a \in Alignments, AllocateGrow(n, a)
  PROVE  IArena'
<1>0. TypeOK /\ IFill /\ n \in Nat \ {0} /\ a \in Nat \ {0}
  BY WorkspaceAssumption, SupportedFacts DEF IArena, AllocateGrow
<1> DEFINE g == GrowthSize(n + a - 1)
           i == NBlocks + 1
<1>1. g \in Nat /\ n <= g
  <2>1. n + a - 1 \in Nat /\ n <= n + a - 1
    BY <1>0
  <2> QED BY <1>0, <2>1, GrowthFacts
<1> HIDE DEF g
<1>2. cap' = Append(cap, g) /\ used' = Append(used, n) /\ Serve(n, i, 0)
  BY DEF AllocateGrow, g
<1>3. /\ cap' \in Seq(Nat) /\ used' \in Seq(Nat) /\ Len(used') = NBlocks'
      /\ NBlocks' = NBlocks + 1 /\ Blocks' = Blocks \cup {NBlocks + 1}
      /\ \A b \in Blocks : cap'[b] = cap[b] /\ used'[b] = used[b]
      /\ cap'[NBlocks + 1] = g /\ used'[NBlocks + 1] = n
      /\ NBlocks + 1 \notin Blocks
  BY <1>0, <1>1, <1>2, AppendFacts
<1>4. NBlocks \in Nat /\ Depth \in Nat /\ current \in Nat
  BY <1>0, ElementTypes DEF TypeOK
<1>5. i >= current /\ i \in Nat
  BY <1>0, <1>4 DEF IFill
<1>6. live' = live \cup {[block |-> i, from |-> 0, to |-> 0 + n, depth |-> Depth]}
  BY <1>2 DEF Serve
<1>7. [block |-> i, from |-> 0, to |-> 0 + n, depth |-> Depth] \in Allocation
  BY <1>0, <1>4, <1>5 DEF Allocation
<1>8. TypeOK'
  BY <1>0, <1>2, <1>3, <1>5, <1>6, <1>7 DEF TypeOK, Serve
<1>9. i \in Blocks' /\ i \notin Blocks /\ used'[i] = 0 + n /\ 0 + n <= cap'[i]
  BY <1>0, <1>1, <1>3
<1>10. /\ \A b \in Blocks : b \in Blocks' /\ cap'[b] = cap[b]
       /\ \A b \in Blocks' : b # i => b \in Blocks /\ used'[b] = used[b]
  BY <1>3
<1> HIDE DEF i
<1> QED BY <1>0, <1>2, <1>5, <1>8, <1>9, <1>10, ServeInv DEF i

\* The arena forgets everything it holds.
LEMMA ResetInv ==
  ASSUME TypeOK, ResetArena, UNCHANGED cap
  PROVE  /\ IFill' /\ used' \in Seq(Nat) /\ Len(used') = NBlocks'
         /\ NBlocks' = NBlocks /\ Blocks' = Blocks
         /\ \A b \in Blocks : used'[b] = 0
<1>1. NBlocks \in Nat /\ NBlocks' = NBlocks /\ Blocks' = Blocks /\ Blocks = 1 .. NBlocks
      /\ \A b \in Blocks : cap[b] \in Nat
  BY ElementTypes DEF NBlocks, Blocks
<1>2. used' = [b \in 1 .. NBlocks |-> 0]
  BY <1>1 DEF ResetArena
<1>3. used' \in Seq(Nat) /\ Len(used') = NBlocks
  BY <1>1, <1>2
<1>4. IFill'
  BY <1>1, <1>2 DEF IFill, ResetArena
<1> QED BY <1>1, <1>2, <1>3, <1>4

LEMMA ResetStep == ASSUME IArena, Reset PROVE IArena'
<1>1. TypeOK /\ ResetArena /\ UNCHANGED <<cap, impl, frames>> /\ live' = {}
      /\ promise' = 0 /\ frames = <<>> /\ current' = 1
  BY DEF IArena, Reset, ResetArena
<1>2. IFill' /\ used' \in Seq(Nat) /\ Len(used') = NBlocks'
  BY <1>1, ResetInv
<1>3. TypeOK'
  BY <1>1, <1>2 DEF TypeOK
<1>4. Depth' = 0
  BY <1>1 DEF Depth
<1>5. IFrames' /\ IMarkers' /\ LiveProtected'
  BY <1>1, <1>4 DEF IFrames, IMarkers, LiveProtected
<1> QED BY <1>2, <1>3, <1>5 DEF IArena

LEMMA MoveFromStep == ASSUME IArena, MoveFrom PROVE IArena'
<1>1. /\ TypeOK /\ frames' = <<>> /\ cap' = <<>> /\ used' = <<>> /\ current' = 1
      /\ live' = {} /\ promise' = 0 /\ impl' = FALSE
  BY DEF IArena, MoveFrom
<1>2. NBlocks' = 0 /\ Blocks' = {} /\ Depth' = 0
  BY <1>1 DEF NBlocks, Blocks, Depth
<1>3. TypeOK'
  <2>1. <<>> \in Seq(Nat) /\ <<>> \in Seq(Marker) /\ Len(<<>>) = 0
    OBVIOUS
  <2>2. cap' \in Seq(Nat) /\ used' \in Seq(Nat) /\ frames' \in Seq(Marker)
    BY <1>1, <2>1
  <2>3. Len(used') = NBlocks'
    BY <1>1, <1>2, <2>1
  <2>4. live' \subseteq Allocation /\ promise' \in Nat /\ current' \in Nat /\ impl' \in BOOLEAN
    BY <1>1
  <2> QED BY <2>2, <2>3, <2>4 DEF TypeOK
<1>4. IFill' /\ IFrames' /\ IMarkers' /\ LiveProtected'
  BY <1>1, <1>2 DEF IFill, IFrames, IMarkers, LiveProtected
<1> QED BY <1>3, <1>4 DEF IArena

LEMMA OpenFrameStep == ASSUME IArena, OpenFrame PROVE IArena'
<1> DEFINE m == [block |-> IF NBlocks = 0 THEN 0 ELSE current,
                 offset |-> IF NBlocks = 0 THEN 0 ELSE used[current],
                 valid |-> NBlocks # 0, promise |-> promise]
<1>0. /\ TypeOK /\ IFill /\ IFrames /\ IMarkers /\ LiveProtected
      /\ frames' = Append(frames, m)
      /\ UNCHANGED <<impl, cap, used, current, live, promise>>
  BY DEF IArena, OpenFrame, arena
<1>1. /\ NBlocks' = NBlocks /\ Blocks' = Blocks /\ NBlocks \in Nat /\ Depth \in Nat
      /\ Blocks = 1 .. NBlocks /\ current \in Nat /\ promise \in Nat
      /\ \A b \in Blocks : used[b] \in Nat
      /\ \A x \in live : x.block \in Nat /\ x.to \in Nat /\ x.depth \in Nat
  BY <1>0, ElementTypes DEF NBlocks, Blocks, TypeOK
<1>2. NBlocks # 0 => current \in Blocks
  BY <1>0, <1>1 DEF IFill
<1>3. m \in Marker
  BY <1>0, <1>1, <1>2 DEF Marker
<1> HIDE DEF m
<1>4. /\ frames' \in Seq(Marker) /\ Depth' = Depth + 1 /\ frames'[Depth + 1] = m
      /\ \A k \in 1 .. Depth : frames'[k] = frames[k]
  BY <1>0, <1>3 DEF TypeOK, Depth
<1>5. TypeOK'
  BY <1>0, <1>1, <1>4 DEF TypeOK
<1>6. IFill' /\ LiveProtected'
  BY <1>0, <1>1 DEF IFill, LiveProtected
<1>7. m.valid =>
        /\ m.block \in Blocks /\ m.block <= current /\ m.offset <= used[m.block]
        /\ \A x \in live : AtOrBelow(x.block, x.to, m.block, m.offset)
  <2>0. NBlocks # 0 => /\ m.block = current /\ m.offset = used[current]
                       /\ current \in Blocks /\ used[current] \in Nat
    BY <1>1, <1>2 DEF m
  <2>9. m.valid <=> NBlocks # 0
    BY DEF m
  <2>1. SUFFICES ASSUME NBlocks # 0, NEW x \in live
                 PROVE  AtOrBelow(x.block, x.to, current, used[current])
    BY <1>1, <2>0, <2>9
  <2>2. x.block \in Blocks /\ x.to <= used[x.block]
    BY <1>0 DEF LiveProtected
  <2>3. CASE x.block <= current
    BY <1>1, <1>2, <2>1, <2>2, <2>3 DEF AtOrBelow
  <2>4. CASE x.block > current
    <3>1. used[x.block] = 0 /\ x.to = 0
      BY <1>0, <1>1, <2>2, <2>4 DEF IFill
    <3>2. x.from < x.to /\ x.from \in Nat
      BY <1>0, ElementTypes DEF LiveProtected
    <3> QED BY <3>1, <3>2
  <2> QED BY <1>1, <2>2, <2>3, <2>4
<1>8. ~m.valid => live = {}
  <2>1. NBlocks = 0 => live = {}
    BY <1>0, <1>1 DEF LiveProtected
  <2> QED BY <2>1 DEF m
<1>9. IFrames'
  <2>1. ASSUME NEW k \in 1 .. (Depth + 1)
        PROVE  IF frames'[k].valid
               THEN /\ frames'[k].block \in Blocks /\ frames'[k].block <= current
                    /\ frames'[k].offset <= used[frames'[k].block]
                    /\ \A x \in live : x.depth < k =>
                         AtOrBelow(x.block, x.to, frames'[k].block, frames'[k].offset)
               ELSE \A x \in live : x.depth >= k
    <3>1. CASE k = Depth + 1
      BY <1>4, <1>7, <1>8, <3>1
    <3>2. CASE k \in 1 .. Depth
      BY <1>0, <1>4, <3>2 DEF IFrames
    <3> QED BY <1>1, <3>1, <3>2
  <2>2. \A x \in live : x.depth <= Depth + 1
    BY <1>0, <1>1 DEF IFrames
  <2> QED BY <1>0, <1>1, <1>4, <2>1, <2>2 DEF IFrames
<1>10. IMarkers'
  <2>1. ASSUME NEW j \in 1 .. (Depth + 1), NEW k \in 1 .. (Depth + 1), j < k,
               frames'[j].valid
        PROVE  /\ frames'[k].valid
               /\ AtOrBelow(frames'[j].block, frames'[j].offset,
                            frames'[k].block, frames'[k].offset)
    <3>1. j \in 1 .. Depth /\ frames'[j] = frames[j]
      BY <1>1, <1>4, <2>1
    <3>2. CASE k \in 1 .. Depth
      BY <1>0, <1>4, <2>1, <3>1, <3>2 DEF IMarkers
    <3>3. CASE k = Depth + 1
      <4>1. /\ frames[j].block \in Blocks /\ frames[j].block <= current
            /\ frames[j].offset <= used[frames[j].block]
            /\ frames[j].block \in Nat /\ frames[j].offset \in Nat
        BY <1>0, <2>1, <3>1, ElementTypes DEF IFrames
      <4>2. NBlocks # 0
        BY <1>1, <4>1
      <4>3. m.block = current /\ m.offset = used[current] /\ m.valid
        BY <4>2 DEF m
      <4>4. frames'[k] = m
        BY <1>4, <3>3
      <4>5. AtOrBelow(frames[j].block, frames[j].offset, current, used[current])
        BY <1>1, <4>1 DEF AtOrBelow
      <4> QED BY <3>1, <4>3, <4>4, <4>5
    <3> QED BY <1>1, <3>2, <3>3
  <2> QED BY <1>4, <2>1 DEF IMarkers
<1> QED BY <1>5, <1>6, <1>9, <1>10 DEF IArena

LEMMA CloseFrameStep == ASSUME IArena, CloseFrame PROVE IArena'
<1> DEFINE m == frames[Depth]
<1>0. /\ TypeOK /\ IFill /\ IFrames /\ IMarkers /\ LiveProtected
      /\ frames # <<>> /\ Rewind(m) /\ promise' = m.promise
      /\ live' = {x \in live : x.depth < Depth}
      /\ frames' = SubSeq(frames, 1, Depth - 1) /\ UNCHANGED <<impl, cap>>
  BY DEF IArena, CloseFrame
<1>1. /\ NBlocks \in Nat /\ Depth \in Nat /\ Blocks = 1 .. NBlocks
      /\ NBlocks' = NBlocks /\ Blocks' = Blocks
      /\ \A b \in Blocks : cap[b] \in Nat /\ used[b] \in Nat
  BY <1>0, ElementTypes DEF NBlocks, Blocks
<1>2. Depth \in Nat \ {0} /\ frames \in Seq(Marker)
  BY <1>0 DEF TypeOK, Depth
<1>3. m.block \in Nat /\ m.offset \in Nat /\ m.promise \in Nat /\ m.valid \in BOOLEAN
  BY <1>0, <1>2, ElementTypes
<1>4. /\ frames' \in Seq(Marker) /\ Depth' = Depth - 1
      /\ \A k \in 1 .. (Depth - 1) : frames'[k] = frames[k] /\ k \in 1 .. Depth
  <2>1. \A k \in 1 .. (Depth - 1) : frames[k] \in Marker
    BY <1>2 DEF Depth
  <2>2. Depth - 1 \in Int /\ 1 \in Int
    BY <1>2
  <2>3. /\ SubSeq(frames, 1, Depth - 1) \in Seq(Marker)
        /\ Len(SubSeq(frames, 1, Depth - 1)) = IF 1 <= Depth - 1 THEN Depth - 1 - 1 + 1 ELSE 0
        /\ \A k \in 1 .. (Depth - 1 - 1 + 1) :
             SubSeq(frames, 1, Depth - 1)[k] = frames[1 + k - 1]
    BY <2>1, <2>2, SubSeqProperties
  <2>4. Depth' = Depth - 1
    <3>1. Len(frames') = Depth - 1
      BY <1>0, <1>2, <2>3
    <3> QED BY <3>1 DEF Depth
  <2>5. \A k \in 1 .. (Depth - 1) : frames'[k] = frames[k] /\ k \in 1 .. Depth
    BY <1>0, <1>2, <2>3
  <2> QED BY <1>0, <2>3, <2>4, <2>5
<1> HIDE DEF m
<1>5. live' \subseteq live /\ live' \subseteq Allocation /\ promise' \in Nat
  BY <1>0, <1>3 DEF TypeOK
<1>6. IMarkers'
  <2> SUFFICES ASSUME NEW j \in 1 .. (Depth - 1), NEW k \in 1 .. (Depth - 1), j < k,
                      frames[j].valid
               PROVE  /\ frames[k].valid
                      /\ AtOrBelow(frames[j].block, frames[j].offset,
                                   frames[k].block, frames[k].offset)
    BY <1>4 DEF IMarkers
  <2> QED BY <1>0, <1>4 DEF IMarkers
<1>7. CASE m.valid
  <2>1. /\ m.block \in Blocks /\ m.block <= current /\ m.offset <= used[m.block]
        /\ \A x \in live : x.depth < Depth => AtOrBelow(x.block, x.to, m.block, m.offset)
    BY <1>0, <1>2, <1>7 DEF IFrames, m
  <2>2. /\ used' = [i \in Blocks |-> IF i < m.block THEN used[i]
                                    ELSE IF i = m.block THEN m.offset ELSE 0]
        /\ current' = m.block
    BY <1>0, <1>1, <1>7, <2>1 DEF Rewind
  <2>3. used' \in Seq(Nat) /\ Len(used') = NBlocks
    BY <1>1, <1>3, <2>2
  <2>4. TypeOK'
    BY <1>0, <1>1, <1>3, <1>4, <1>5, <2>2, <2>3 DEF TypeOK
  <2>5. IFill'
    BY <1>0, <1>1, <1>3, <2>1, <2>2 DEF IFill
  <2>6. \A x \in live' : AtOrBelow(x.block, x.to, m.block, m.offset)
    BY <1>0, <2>1
  <2>7. LiveProtected'
    <3>1. ASSUME NEW x \in live'
          PROVE  /\ x.from < x.to /\ x.block \in Blocks /\ x.to <= used'[x.block]
                 /\ used'[x.block] <= cap[x.block]
      <4>1. /\ x.from < x.to /\ x.block \in Blocks /\ x.to <= used[x.block]
            /\ used[x.block] <= cap[x.block] /\ x.to \in Nat
        BY <1>0, <1>5, ElementTypes DEF LiveProtected
      <4> QED BY <1>1, <1>3, <2>1, <2>2, <2>6, <4>1 DEF AtOrBelow
    <3> QED BY <1>0, <1>1, <1>5, <3>1 DEF LiveProtected
  <2>8. IFrames'
    <3>1. ASSUME NEW k \in 1 .. (Depth - 1)
          PROVE  IF frames[k].valid
                 THEN /\ frames[k].block \in Blocks /\ frames[k].block <= m.block
                      /\ frames[k].offset <= used'[frames[k].block]
                      /\ \A x \in live' : x.depth < k =>
                           AtOrBelow(x.block, x.to, frames[k].block, frames[k].offset)
                 ELSE \A x \in live' : x.depth >= k
      <4>1. CASE ~frames[k].valid
        BY <1>0, <1>4, <1>5, <4>1 DEF IFrames
      <4>2. CASE frames[k].valid
        <5>1. /\ frames[k].block \in Blocks /\ frames[k].offset <= used[frames[k].block]
              /\ \A x \in live : x.depth < k =>
                   AtOrBelow(x.block, x.to, frames[k].block, frames[k].offset)
              /\ frames[k].block \in Nat /\ frames[k].offset \in Nat
          BY <1>0, <1>4, <4>2, ElementTypes DEF IFrames
        <5>2. AtOrBelow(frames[k].block, frames[k].offset, m.block, m.offset)
          BY <1>0, <1>2, <1>4, <4>2 DEF IMarkers, m
        <5>3. frames[k].block <= m.block /\ frames[k].offset <= used'[frames[k].block]
          BY <1>1, <1>3, <2>2, <5>1, <5>2 DEF AtOrBelow
        <5> QED BY <1>5, <4>2, <5>1, <5>3
      <4> QED BY <4>1, <4>2
    <3>2. \A x \in live' : x.depth <= Depth - 1
      BY <1>0, <1>1, ElementTypes
    <3> QED BY <1>1, <1>4, <2>2, <3>1, <3>2 DEF IFrames
  <2> QED BY <1>6, <2>4, <2>5, <2>7, <2>8 DEF IArena
<1>8. CASE ~m.valid
  <2>1. \A x \in live : x.depth >= Depth
    <3>1. ~frames[Depth].valid
      BY <1>8 DEF m
    <3>2. \A k \in 1 .. Depth : ~frames[k].valid => \A x \in live : x.depth >= k
      BY <1>0 DEF IFrames
    <3> QED BY <1>2, <3>1, <3>2
  <2>2. live' = {}
    BY <1>0, <1>1, <2>1, ElementTypes
  <2>3. ResetArena
    BY <1>0, <1>8 DEF Rewind
  <2>4. IFill' /\ used' \in Seq(Nat) /\ Len(used') = NBlocks'
    BY <1>0, <2>3, ResetInv
  <2>5. TypeOK'
    BY <1>0, <1>4, <1>5, <2>3, <2>4 DEF TypeOK, ResetArena
  <2>6. \A k \in 1 .. (Depth - 1) : ~frames[k].valid
    BY <1>0, <1>2, <1>8 DEF IMarkers, m
  <2>7. IFrames' /\ LiveProtected'
    BY <1>4, <2>2, <2>6 DEF IFrames, LiveProtected
  <2> QED BY <1>6, <2>4, <2>5, <2>7 DEF IArena
<1> QED BY <1>3, <1>7, <1>8

LEMMA InitInv == ASSUME Init PROVE IArena
<1>1. cap = <<>> /\ used = <<>> /\ frames = <<>> /\ live = {} /\ current = 1 /\ impl
      /\ promise = 0
  BY DEF Init
<1>2. <<>> \in Seq(Nat) /\ <<>> \in Seq(Marker) /\ Len(<<>>) = 0
  OBVIOUS
<1>3. NBlocks = 0 /\ Depth = 0 /\ Blocks = {}
  BY <1>1, <1>2 DEF NBlocks, Depth, Blocks
<1>4. TypeOK
  BY <1>1, <1>2, <1>3 DEF TypeOK
<1> QED BY <1>1, <1>3, <1>4 DEF IArena, IFill, IFrames, IMarkers, LiveProtected

LEMMA StutterInv == ASSUME IArena, UNCHANGED vars PROVE IArena'
BY DEF vars, arena, IArena, TypeOK, IFill, IFrames, IMarkers, LiveProtected, NBlocks, Blocks,
       Depth

LEMMA ArenaStep == ASSUME IArena, [Next]_vars PROVE IArena'
BY StutterInv, ReserveFoundStep, ReserveGrowStep, ReserveFailStep, AllocateFoundStep,
   AllocateGrowStep, ResetStep, OpenFrameStep, CloseFrameStep, MoveFromStep DEF Next

-----------------------------------------------------------------------------
(* Promises.                                                               *)

\* An empty block of sufficient capacity has room, whatever the alignment asked.
LEMMA EmptyFits ==
  ASSUME NEW n \in Nat, NEW c \in Nat, n <= c, NEW a \in 1 .. Align
  PROVE  FitsAt(0, c, n, a) /\ AlignUp(0, a) = 0
<1>1. AlignUp(0, a) = 0
  <2>1. (a - 1) \div a = 0
    BY WorkspaceAssumption
  <2> QED BY <2>1, WorkspaceAssumption DEF AlignUp
<1>2. ~AlignOverflows(0, a)
  BY WorkspaceAssumption DEF AlignOverflows
<1> QED BY <1>1, <1>2 DEF FitsAt

\* The promises of open frames survive any step that keeps the frames and the
\* blocks that there are.
LEMMA RoomKept ==
  ASSUME NEW m, Kept(m), impl => impl',
         Blocks \subseteq Blocks', \A i \in Blocks : cap'[i] = cap[i]
  PROVE  Kept(m)'
BY DEF Kept, RoomFrom

LEMMA FramePromises ==
  ASSUME IPromise, frames' = frames, impl => impl',
         Blocks \subseteq Blocks', \A i \in Blocks : cap'[i] = cap[i]
  PROVE  \A k \in 1 .. Depth' : Kept(frames[k])'
<1>1. Depth' = Depth
  BY DEF Depth
<1>2. \A k \in 1 .. Depth : Kept(frames[k])
  BY DEF IPromise
<1>3. \A k \in 1 .. Depth : Kept(frames[k])'
  BY <1>2, RoomKept
<1> QED BY <1>1, <1>3

LEMMA ReservePromise ==
  ASSUME IInv, NEW n \in Sizes, ReserveFound(n) \/ ReserveGrow(n) \/ ReserveFail(n)
  PROVE  IPromise'
<1>0. TypeOK /\ IFill /\ IPromise /\ n \in Nat /\ UNCHANGED <<current, frames>> /\ impl'
  BY WorkspaceAssumption DEF IInv, IArena, ReserveFound, ReserveGrow, ReserveFail
<1>1. CASE ReserveFound(n) \/ ReserveFail(n)
  <2>1. UNCHANGED <<cap, used, current>> /\ Blocks' = Blocks
    BY <1>1 DEF ReserveFound, ReserveFail, Blocks, NBlocks
  <2>2. ReserveHonoured'
    BY <1>1, <2>1 DEF ReserveFound, ReserveFail, ReserveHonoured, Candidates, Fits
  <2> QED BY <1>0, <2>1, <2>2, FramePromises DEF IPromise
<1>2. CASE ReserveGrow(n)
  <2>1. GrowthSize(n) \in Nat /\ n <= GrowthSize(n)
    BY <1>0, GrowthFacts
  <2>2. /\ Blocks' = Blocks \cup {NBlocks + 1}
        /\ \A b \in Blocks : cap'[b] = cap[b]
        /\ cap'[NBlocks + 1] = GrowthSize(n) /\ used'[NBlocks + 1] = 0
    BY <1>0, <1>2, <2>1, AppendFacts DEF ReserveGrow
  <2>3. NBlocks + 1 >= current
    BY <1>0, ElementTypes DEF IFill, TypeOK
  <2>4. FitsAt(0, GrowthSize(n), n, Align)
    BY <1>0, <2>1, EmptyFits, WorkspaceAssumption
  <2>5. NBlocks + 1 \in Candidates(n, Align)'
    BY <1>0, <2>2, <2>3, <2>4 DEF Candidates, Fits
  <2>6. ReserveHonoured'
    BY <1>0, <1>2, <2>5 DEF ReserveGrow, ReserveHonoured, Candidates
  <2> QED BY <1>0, <2>2, <2>6, FramePromises DEF IPromise
<1> QED BY <1>1, <1>2

LEMMA AllocatePromise ==
  ASSUME IInv, NEW n \in Sizes, NEW a \in Alignments,
         AllocateFound(n, a) \/ AllocateGrow(n, a)
  PROVE  IPromise'
<1>0. /\ TypeOK /\ IPromise /\ n \in Nat /\ a \in Nat \ {0}
      /\ frames' = frames /\ impl' = impl /\ promise' = 0
  BY WorkspaceAssumption, SupportedFacts
     DEF IInv, IArena, AllocateFound, AllocateGrow, Serve
<1>1. Blocks \subseteq Blocks' /\ \A i \in Blocks : cap'[i] = cap[i]
  <2>1. CASE AllocateFound(n, a)
    BY <2>1 DEF AllocateFound, Blocks, NBlocks
  <2>2. CASE AllocateGrow(n, a)
    <3>1. n + a - 1 \in Nat
      BY <1>0
    <3>2. GrowthSize(n + a - 1) \in Nat
      BY <1>0, <3>1, GrowthFacts
    <3> QED BY <1>0, <2>2, <3>2, AppendFacts DEF AllocateGrow
  <2> QED BY <2>1, <2>2
<1> QED BY <1>0, <1>1, FramePromises DEF IPromise, ReserveHonoured

LEMMA OpenPromise == ASSUME IInv, OpenFrame PROVE IPromise'
<1> DEFINE m == [block |-> IF NBlocks = 0 THEN 0 ELSE current,
                 offset |-> IF NBlocks = 0 THEN 0 ELSE used[current],
                 valid |-> NBlocks # 0, promise |-> promise]
<1>0. /\ TypeOK /\ IFill /\ IPromise /\ frames \in Seq(Marker)
      /\ frames' = Append(frames, m)
      /\ UNCHANGED <<impl, cap, used, current, promise>>
  BY DEF IInv, IArena, OpenFrame, arena, TypeOK
<1>1. /\ Depth \in Nat /\ Depth' = Depth + 1 /\ frames'[Depth + 1] = m
      /\ \A k \in 1 .. Depth : frames'[k] = frames[k]
  BY <1>0 DEF Depth
<1>2. Blocks' = Blocks
  BY <1>0 DEF Blocks, NBlocks
<1>3. ReserveHonoured'
  BY <1>0, <1>2 DEF IPromise, ReserveHonoured, Candidates, Fits
<1>4. ASSUME promise # 0
      PROVE  impl /\ m.valid /\ RoomFrom(m.block, m.offset, promise)
  <2>1. PICK i \in Blocks : impl /\ i >= current /\ Fits(i, promise, Align)
    BY <1>0, <1>4 DEF IPromise, ReserveHonoured, Candidates
  <2>2. NBlocks # 0 /\ current \in Nat /\ i \in Nat
    BY <1>0, ElementTypes, SMTT(30) DEF TypeOK
  <2>3. used[i] = IF i = current THEN used[current] ELSE 0
    BY <1>0, <2>1, <2>2 DEF IFill
  <2>4. RoomFrom(current, used[current], promise)
    BY <2>1, <2>3 DEF RoomFrom, Fits
  <2> QED BY <2>1, <2>2, <2>4
<1>5. Kept(m)
  BY <1>4 DEF Kept
<1> HIDE DEF m
<1>6. ASSUME NEW k \in 1 .. (Depth + 1) PROVE Kept(frames'[k])
  <2>1. CASE k = Depth + 1
    BY <1>1, <1>5, <2>1
  <2>2. CASE k \in 1 .. Depth
    BY <1>0, <1>1, <2>2 DEF IPromise
  <2> QED BY <1>1, <2>1, <2>2
<1>7. \A k \in 1 .. (Depth + 1) : Kept(frames[k])'
  BY <1>0, <1>2, <1>6 DEF Kept, RoomFrom
<1> QED BY <1>1, <1>3, <1>7 DEF IPromise

LEMMA ClosePromise == ASSUME IInv, CloseFrame PROVE IPromise'
<1> DEFINE m == frames[Depth]
<1>0. /\ TypeOK /\ IFrames /\ IPromise /\ frames \in Seq(Marker) /\ frames # <<>>
      /\ Rewind(m) /\ promise' = m.promise
      /\ frames' = SubSeq(frames, 1, Depth - 1) /\ UNCHANGED <<impl, cap>>
  BY DEF IInv, IArena, CloseFrame, TypeOK
<1>1. Depth \in Nat \ {0} /\ Blocks' = Blocks /\ NBlocks \in Nat /\ Blocks = 1 .. NBlocks
  BY <1>0, ElementTypes DEF Depth, Blocks, NBlocks
<1>2. Depth' = Depth - 1 /\ \A k \in 1 .. (Depth - 1) : frames'[k] = frames[k]
  <2>1. \A k \in 1 .. (Depth - 1) : frames[k] \in Marker
    BY <1>0, <1>1 DEF Depth
  <2>2. Depth - 1 \in Int /\ 1 \in Int
    BY <1>1
  <2>3. /\ Len(SubSeq(frames, 1, Depth - 1)) = IF 1 <= Depth - 1 THEN Depth - 1 - 1 + 1 ELSE 0
        /\ \A k \in 1 .. (Depth - 1 - 1 + 1) :
             SubSeq(frames, 1, Depth - 1)[k] = frames[1 + k - 1]
    BY <2>1, <2>2, SubSeqProperties
  <2>4. Len(frames') = Depth - 1
    BY <1>0, <1>1, <2>3
  <2>5. Depth' = Depth - 1
    BY <2>4 DEF Depth
  <2> QED BY <1>0, <1>1, <2>3, <2>5
<1>3. \A k \in 1 .. Depth' : Kept(frames[k])'
  <2>1. \A k \in 1 .. (Depth - 1) : Kept(frames[k])
    BY <1>0, <1>1 DEF IPromise
  <2>2. \A k \in 1 .. (Depth - 1) : Kept(frames'[k])
    BY <1>2, <2>1
  <2>3. \A k \in 1 .. (Depth - 1) : Kept(frames[k])'
    BY <1>0, <1>1, <2>2 DEF Kept, RoomFrom
  <2> QED BY <1>2, <2>3
<1>4. ASSUME m.promise # 0 PROVE impl' /\ Candidates(promise, Align)' # {}
  <2>1. impl /\ m.valid /\ RoomFrom(m.block, m.offset, m.promise)
    BY <1>0, <1>1, <1>4 DEF IPromise, Kept
  <2>2. m.block \in Blocks
    BY <1>0, <1>1, <2>1 DEF IFrames
  <2>3. PICK i \in Blocks :
          i >= m.block /\ FitsAt(IF i = m.block THEN m.offset ELSE 0, cap[i], m.promise, Align)
    BY <2>1 DEF RoomFrom
  <2>4. /\ used' = [j \in Blocks |-> IF j < m.block THEN used[j]
                                    ELSE IF j = m.block THEN m.offset ELSE 0]
        /\ current' = m.block
    BY <1>0, <1>1, <2>1, <2>2 DEF Rewind
  <2>5. used'[i] = IF i = m.block THEN m.offset ELSE 0
    BY <1>1, <2>2, <2>3, <2>4
  <2>6. i \in Candidates(promise, Align)'
    BY <1>0, <1>1, <2>3, <2>4, <2>5 DEF Candidates, Fits
  <2> QED BY <1>0, <2>1, <2>6
<1>5. ReserveHonoured'
  BY <1>0, <1>4 DEF ReserveHonoured, Candidates
<1> QED BY <1>3, <1>5 DEF IPromise

LEMMA PromiseStep == ASSUME IInv, [Next]_vars PROVE IPromise'
<1>1. CASE UNCHANGED vars
  BY <1>1 DEF vars, arena, IInv, IPromise, ReserveHonoured, Candidates, Fits, Kept, RoomFrom,
              NBlocks, Blocks, Depth
<1>2. CASE Reset \/ MoveFrom
  <2>1. promise' = 0 /\ frames' = <<>>
    BY <1>2 DEF Reset, MoveFrom
  <2>2. Depth' = 0
    BY <2>1 DEF Depth
  <2> QED BY <2>1, <2>2 DEF IPromise, ReserveHonoured
<1> QED BY <1>1, <1>2, ReservePromise, AllocatePromise, OpenPromise, ClosePromise DEF Next

-----------------------------------------------------------------------------
\* Every state keeps the arena's invariant.
THEOREM WorkspaceInvariant == Spec => []IInv
<1>1. Init => IInv
  <2> SUFFICES ASSUME Init PROVE IPromise
    BY InitInv DEF IInv
  <2>1. promise = 0 /\ Depth = 0
    BY DEF Init, Depth
  <2> QED BY <2>1 DEF IPromise, ReserveHonoured
<1>2. IInv /\ [Next]_vars => IInv'
  BY ArenaStep, PromiseStep DEF IInv
<1> QED BY <1>1, <1>2, PTL DEF Spec

\* Two allocations in use never share a byte, and each lies inside a block.
THEOREM WorkspaceLiveProtected == Spec => []LiveProtected
<1>1. IInv => LiveProtected
  BY DEF IInv, IArena
<1> QED BY <1>1, WorkspaceInvariant, PTL

\* What reserve promised can be served without a new block, by the next allocation
\* or by the next one after any frames opened and closed in between.
THEOREM WorkspaceReserveHonoured == Spec => []ReserveHonoured
<1>1. IInv => ReserveHonoured
  BY DEF IInv, IPromise
<1> QED BY <1>1, WorkspaceInvariant, PTL

-----------------------------------------------------------------------------
(* A warmed-up arena does not grow.                                        *)

\* Rounding up is monotone ...
LEMMA AlignUpMonotone ==
  ASSUME NEW o \in Nat, NEW p \in Nat, o <= p, NEW a \in Nat \ {0}
  PROVE  AlignUp(o, a) <= AlignUp(p, a)
<1> DEFINE x == o + a - 1
           y == p + a - 1
           q == x \div a
           r == y \div a
<1>1. /\ q \in Nat /\ r \in Nat
      /\ x = a * q + (x % a) /\ y = a * r + (y % a)
      /\ x % a \in 0 .. (a - 1) /\ y % a \in 0 .. (a - 1)
      /\ x \in Nat /\ y \in Nat /\ x <= y
  <2>1. x \in Nat /\ y \in Nat /\ x <= y
    OBVIOUS
  <2> HIDE DEF x, y
  <2> QED BY <2>1
<1>2. AlignUp(o, a) = q * a /\ AlignUp(p, a) = r * a
  BY DEF AlignUp
<1> DEFINE u == x % a
           v == y % a
<1>3. u \in 0 .. (a - 1) /\ v \in 0 .. (a - 1) /\ x = a * q + u /\ y = a * r + v
  BY <1>1
<1> HIDE DEF x, y, q, r, u, v
<1>4. q <= r
  <2> SUFFICES ASSUME q >= r + 1 PROVE FALSE
    BY <1>1
  <2>1. a * q >= a * (r + 1)
    BY <1>1
  <2>2. a * (r + 1) = a * r + a
    BY <1>1
  <2>3. a * q \in Nat /\ a * r \in Nat
    BY <1>1
  <2> QED BY <1>1, <1>3, <2>1, <2>2, <2>3
<1>5. q * a <= r * a
  BY <1>1, <1>4
<1> QED BY <1>2, <1>5

\* ... so a block that is less full serves what a fuller one serves, no later.
LEMMA FitsMonotone ==
  ASSUME NEW o \in Nat, NEW p \in Nat, o <= p, NEW c \in Nat, NEW n \in Nat,
         NEW a \in Nat \ {0}, FitsAt(p, c, n, a)
  PROVE  FitsAt(o, c, n, a) /\ AlignUp(o, a) + n <= AlignUp(p, a) + n
<1>1. AlignUp(o, a) \in Nat /\ AlignUp(p, a) \in Nat /\ AlignUp(o, a) <= AlignUp(p, a)
  BY AlignUpFacts, AlignUpMonotone
<1>2. ~AlignOverflows(o, a)
  BY WorkspaceAssumption DEF FitsAt, AlignOverflows
<1> QED BY <1>1, <1>2 DEF FitsAt

LEMMA ReplayTypes ==
  ASSUME IReplay, phase # "idle"
  PROVE  /\ Len(log) \in Nat /\ Len(Recorded) \in Nat
         /\ Len(ends) = Len(Recorded) /\ Len(log) <= Len(Recorded)
         /\ \A i \in 0 .. Len(Recorded) : Place(i).block \in Nat /\ Place(i).to \in Nat
         /\ \A i \in 1 .. Len(Recorded) : Recorded[i].size \in Nat /\ Recorded[i].align \in Nat
         /\ IPlaced /\ IServed /\ IReached
         /\ \A k \in 1 .. Depth : served[k] \in 0 .. Len(log)
         /\ Recorded \in Seq(Requests)
<1>1. /\ log \in Seq(Requests) /\ warm \in Seq(Requests) /\ served \in Seq(Nat)
      /\ ends \in Seq(Places) /\ Len(ends) = Len(Recorded) /\ IsPrefixOf(log, Recorded)
      /\ IPlaced /\ IServed /\ IReached
  BY DEF IReplay
<1>2. Recorded \in Seq(Requests)
  BY <1>1 DEF Recorded
<1>3. Len(log) \in Nat /\ Len(Recorded) \in Nat /\ Len(log) <= Len(Recorded)
  BY <1>1, <1>2 DEF IsPrefixOf
<1>4. \A i \in 1 .. Len(Recorded) : Recorded[i] \in Requests /\ ends[i] \in Places
  BY <1>1, <1>2
<1>5. \A i \in 0 .. Len(Recorded) : Place(i).block \in Nat /\ Place(i).to \in Nat
  <2>1. ASSUME NEW i \in 0 .. Len(Recorded)
        PROVE  Place(i).block \in Nat /\ Place(i).to \in Nat
    <3>1. CASE i = 0
      BY <3>1 DEF Place
    <3>2. CASE i # 0
      BY <1>3, <1>4, <2>1, <3>2 DEF Place, Places
    <3> QED BY <3>1, <3>2
  <2> QED BY <2>1
<1>6. \A i \in 1 .. Len(Recorded) : Recorded[i].size \in Nat /\ Recorded[i].align \in Nat
  BY <1>4 DEF Requests
<1>7. \A k \in 1 .. Depth : served[k] \in 0 .. Len(log)
  BY <1>1, <1>3 DEF IServed
<1> QED BY <1>1, <1>2, <1>3, <1>5, <1>6, <1>7

\* The fill of the current block, and of those after it.
LEMMA FillFacts ==
  ASSUME IArena
  PROVE  /\ Fill \in Nat /\ current \in Nat /\ NBlocks \in Nat
         /\ \A i \in Blocks : i \in Nat /\ used[i] \in Nat /\ cap[i] \in Nat
         /\ \A i \in Blocks : i >= current => used[i] = IF i = current THEN Fill ELSE 0
<1>1. /\ NBlocks \in Nat /\ current \in Nat /\ Blocks = 1 .. NBlocks
      /\ \A i \in Blocks : used[i] \in Nat /\ cap[i] \in Nat
  BY ElementTypes DEF IArena, TypeOK
<1>2. Fill \in Nat
  BY <1>1 DEF IArena, IFill, Fill
<1>3. \A i \in Blocks : i > current => used[i] = 0
  BY DEF IArena, IFill
<1> QED BY <1>1, <1>2, <1>3 DEF Fill

\* The next request of the epoch that is repeated fits where it went before.
LEMMA RepeatFits ==
  ASSUME IArena, IReplay, NEW n \in Nat, NEW a \in Nat \ {0}, Repeats(n, a)
  PROVE  LET q == Place(Len(log) + 1)
             p == Place(Len(log))
             fill == IF q.block = p.block THEN p.to ELSE 0
         IN /\ Len(log) + 1 <= Len(warm)
            /\ q.block \in Candidates(n, a) /\ q.block >= p.block
            /\ FitsAt(fill, cap[q.block], n, a) /\ q.to = AlignUp(fill, a) + n
            /\ AtOrBelow(current, Fill, p.block, p.to)
<1> DEFINE q == Place(Len(log) + 1)
           p == Place(Len(log))
           fill == IF q.block = p.block THEN p.to ELSE 0
<1>1. phase = "follow" /\ Recorded = warm /\ IsPrefixOf(Append(log, Request(n, a)), warm)
  BY DEF Repeats, Recorded
<1>2. /\ Len(log) \in Nat /\ Len(warm) \in Nat /\ log \in Seq(Requests)
      /\ \A i \in 0 .. Len(warm) : Place(i).block \in Nat /\ Place(i).to \in Nat
      /\ IPlaced /\ IReached
  BY <1>1, ReplayTypes DEF IReplay
<1>3. Len(log) + 1 <= Len(warm) /\ warm[Len(log) + 1] = Request(n, a)
  <2>1. Request(n, a) \in Requests
    BY DEF Request, Requests
  <2>2. /\ Len(Append(log, Request(n, a))) = Len(log) + 1
        /\ Append(log, Request(n, a))[Len(log) + 1] = Request(n, a)
    BY <1>2, <2>1
  <2> QED BY <1>1, <1>2, <2>2, SMTT(30) DEF IsPrefixOf
<1>4. PlacedAfter(Request(n, a), p, q)
  BY <1>1, <1>2, <1>3 DEF IPlaced
<1>5. p.block \in Nat /\ p.to \in Nat /\ q.block \in Nat
  BY <1>2, <1>3
<1>6. AtOrBelow(current, Fill, p.block, p.to)
  BY <1>1, <1>2 DEF IReached, Reached
<1> HIDE DEF p, q
<1>7. /\ q.block \in Blocks /\ q.block >= p.block
      /\ FitsAt(fill, cap[q.block], n, a) /\ q.to = AlignUp(fill, a) + n
  BY <1>4 DEF PlacedAfter, Request
<1>8. fill \in Nat /\ current \in Nat /\ Fill \in Nat /\ cap[q.block] \in Nat
  BY <1>5, <1>7, FillFacts
<1>9. (IF q.block = current THEN Fill ELSE 0) <= fill
  BY <1>5, <1>6, <1>7, <1>8 DEF AtOrBelow
<1>10. q.block >= current
  BY <1>5, <1>6, <1>7, <1>8 DEF AtOrBelow
<1>11. used[q.block] = IF q.block = current THEN Fill ELSE 0
  BY <1>7, <1>10, FillFacts
<1>12. FitsAt(used[q.block], cap[q.block], n, a)
  <2>1. used[q.block] \in Nat /\ used[q.block] <= fill
    BY <1>8, <1>9, <1>11
  <2> HIDE DEF fill
  <2> QED BY <1>7, <1>8, <2>1, FitsMonotone
<1>13. q.block \in Candidates(n, a)
  BY <1>7, <1>10, <1>12 DEF Candidates, Fits
<1> QED BY <1>3, <1>6, <1>7, <1>13 DEF p, q

\* A place that was right stays right in an arena that only gains blocks.
LEMMA PlacedStays ==
  ASSUME NEW r, NEW p, NEW q, PlacedAfter(r, p, q),
         Blocks \subseteq Blocks', \A b \in Blocks : cap'[b] = cap[b]
  PROVE  PlacedAfter(r, p, q)'
BY DEF PlacedAfter

\* The first j requests keep their places when the observer keeps its record of them.
LEMMA PlacedPrefix ==
  ASSUME IPlaced, NEW j \in Nat, j <= Len(Recorded),
         Blocks \subseteq Blocks', \A b \in Blocks : cap'[b] = cap[b],
         \A i \in 1 .. j : Recorded'[i] = Recorded[i] /\ ends'[i] = ends[i],
         Len(Recorded) \in Nat
  PROVE  \A i \in 1 .. j : PlacedAfter(Recorded[i], Place(i - 1), Place(i))'
<1> SUFFICES ASSUME NEW i \in 1 .. j
             PROVE  PlacedAfter(Recorded[i], Place(i - 1), Place(i))'
  OBVIOUS
<1>1. Recorded'[i] = Recorded[i] /\ Place(i - 1)' = Place(i - 1) /\ Place(i)' = Place(i)
  BY DEF Place
<1>2. PlacedAfter(Recorded[i], Place(i - 1), Place(i))
  BY DEF IPlaced
<1>3. PlacedAfter(Recorded[i], Place(i - 1), Place(i))'
  BY <1>1, <1>2, PlacedStays
<1> QED BY <1>3

\* Where a served request ends, and why there.
LEMMA ServedAt ==
  ASSUME IArena, NEW n \in Sizes, NEW a \in Alignments,
         AllocateFound(n, a) \/ AllocateGrow(n, a)
  PROVE  LET fill == IF current' = current THEN Fill ELSE 0
         IN /\ n \in Nat \ {0} /\ a \in Nat \ {0} /\ frames' = frames
            /\ current' \in Blocks' /\ current' \in Nat /\ current' >= current
            /\ NBlocks' # 0 /\ used'[current'] = AlignUp(fill, a) + n
            /\ FitsAt(fill, cap'[current'], n, a)
            /\ Blocks \subseteq Blocks' /\ \A b \in Blocks : cap'[b] = cap[b]
            /\ \A j \in Candidates(n, a) : current' <= j
<1> DEFINE fill == IF current' = current THEN Fill ELSE 0
<1>0. /\ TypeOK /\ IFill /\ n \in Nat \ {0} /\ a \in Nat \ {0} /\ frames' = frames
      /\ a <= Align
  BY WorkspaceAssumption, SupportedFacts
     DEF IArena, AllocateFound, AllocateGrow, Serve, Supported
<1>1. /\ NBlocks \in Nat /\ Blocks = 1 .. NBlocks /\ current \in Nat
      /\ Len(used) = NBlocks /\ used \in Seq(Nat)
  BY <1>0, ElementTypes DEF TypeOK
<1>2. CASE AllocateFound(n, a)
  <2>1. PICK i \in Candidates(n, a) :
          /\ \A j \in Candidates(n, a) : i <= j
          /\ used' = [used EXCEPT ![i] = AlignUp(used[i], a) + n]
          /\ current' = i /\ cap' = cap
    BY <1>2 DEF AllocateFound, Serve
  <2>2. i \in Blocks /\ i >= current /\ FitsAt(used[i], cap[i], n, a)
    BY <2>1 DEF Candidates, Fits
  <2>3. used[i] = fill
    BY <2>1, <2>2, FillFacts
  <2>4. Blocks' = Blocks /\ NBlocks' = NBlocks
    BY <2>1 DEF Blocks, NBlocks
  <2>5. used'[i] = AlignUp(used[i], a) + n
    BY <1>1, <2>1, <2>2
  <2> HIDE DEF fill
  <2>6. used'[current'] = AlignUp(fill, a) + n /\ FitsAt(fill, cap'[current'], n, a)
    BY <2>1, <2>2, <2>3, <2>5
  <2>7. current' \in Blocks' /\ current' \in Nat /\ current' >= current /\ NBlocks' # 0
    BY <1>1, <2>1, <2>2, <2>4
  <2>8. Blocks \subseteq Blocks' /\ \A b \in Blocks : cap'[b] = cap[b]
    BY <2>1, <2>4
  <2> QED BY <1>0, <2>1, <2>6, <2>7, <2>8 DEF fill
<1>3. CASE AllocateGrow(n, a)
  <2>1. n + a - 1 \in Nat /\ n <= n + a - 1
    BY <1>0
  <2>2. GrowthSize(n + a - 1) \in Nat /\ n <= GrowthSize(n + a - 1)
    BY <1>0, <2>1, GrowthFacts
  <2>3. /\ NBlocks' = NBlocks + 1 /\ Blocks' = Blocks \cup {NBlocks + 1}
        /\ \A b \in Blocks : cap'[b] = cap[b]
        /\ cap'[NBlocks + 1] = GrowthSize(n + a - 1) /\ used'[NBlocks + 1] = n
    BY <1>0, <1>3, <2>2, AppendFacts DEF AllocateGrow
  <2>4. current' = NBlocks + 1 /\ Candidates(n, a) = {}
    BY <1>3 DEF AllocateGrow, Serve
  <2>5. fill = 0
    BY <1>0, <1>1, <2>4 DEF IFill, Fill
  <2>6. current' >= current
    BY <1>0, <1>1, <2>4 DEF IFill
  <2>7. FitsAt(0, GrowthSize(n + a - 1), n, a) /\ AlignUp(0, a) = 0
    BY <1>0, <2>2, EmptyFits
  <2> HIDE DEF fill
  <2>8. used'[current'] = AlignUp(fill, a) + n /\ FitsAt(fill, cap'[current'], n, a)
    BY <1>0, <2>3, <2>4, <2>5, <2>7
  <2>9. current' \in Blocks' /\ current' \in Nat /\ NBlocks' # 0
    BY <1>1, <2>3, <2>4
  <2> QED BY <1>0, <2>3, <2>4, <2>6, <2>8, <2>9 DEF fill
<1> QED BY <1>2, <1>3

LEMMA IdleReplay == ASSUME Idle PROVE IReplay'
<1>1. /\ phase' = "idle" /\ log' = <<>> /\ served' = <<>> /\ warm' = <<>> /\ ends' = <<>>
  BY DEF Idle
<1>2. /\ <<>> \in Seq(Requests) /\ <<>> \in Seq(Nat) /\ <<>> \in Seq(Places)
  OBVIOUS
<1> QED BY <1>1, <1>2 DEF IReplay

\* A request that the observer records, or that repeats a recorded one.
LEMMA RecordReplay ==
  ASSUME IArena, IReplay, NEW n \in Sizes, NEW a \in Alignments,
         AllocateFound(n, a) \/ AllocateGrow(n, a), phase = "record",
         log' = Append(log, Request(n, a)),
         ends' = Append(ends, [block |-> current', to |-> used'[current']]),
         UNCHANGED <<phase, served, warm>>
  PROVE  IReplay'
<1> DEFINE fill == IF current' = current THEN Fill ELSE 0
           l == Len(log)
<1>1. /\ n \in Nat \ {0} /\ a \in Nat \ {0} /\ frames' = frames
      /\ current' \in Blocks' /\ current' \in Nat /\ current' >= current
      /\ NBlocks' # 0 /\ used'[current'] = AlignUp(fill, a) + n
      /\ FitsAt(fill, cap'[current'], n, a)
      /\ Blocks \subseteq Blocks' /\ \A b \in Blocks : cap'[b] = cap[b]
  BY ServedAt
<1>2. /\ Recorded = log /\ Recorded' = log' /\ l \in Nat
      /\ Len(ends) = l /\ IPlaced /\ IServed /\ IReached
      /\ log \in Seq(Requests) /\ ends \in Seq(Places)
      /\ \A k \in 1 .. Depth : served[k] \in 0 .. l
      /\ served \in Seq(Nat) /\ warm \in Seq(Requests)
  BY ReplayTypes DEF Recorded, IReplay
<1>3. Fill \in Nat /\ fill \in Nat /\ current \in Nat
  BY FillFacts
<1> HIDE DEF fill
<1>4. Request(n, a) \in Requests /\ [block |-> current', to |-> used'[current']] \in Places
  <2>1. AlignUp(fill, a) \in Nat
    BY <1>1, <1>3, AlignUpFacts
  <2>2. used'[current'] \in Nat
    BY <1>1, <2>1
  <2> QED BY <1>1, <2>2 DEF Request, Requests, Places
<1>5. /\ log' \in Seq(Requests) /\ Len(log') = l + 1 /\ log'[l + 1] = Request(n, a)
      /\ \A i \in 1 .. l : log'[i] = log[i]
      /\ ends' \in Seq(Places) /\ Len(ends') = l + 1
      /\ ends'[l + 1] = [block |-> current', to |-> used'[current']]
      /\ \A i \in 1 .. l : ends'[i] = ends[i]
  BY <1>2, <1>4
<1>6. \A i \in 0 .. l : Place(i)' = Place(i)
  BY <1>2, <1>5 DEF Place
<1>7. \A i : i = l + 1 => Place(i)' = [block |-> current', to |-> used'[current']]
  BY <1>2, <1>5 DEF Place
<1>8. Place(l) = [block |-> current, to |-> Fill]
  <2>1. current = Place(l).block /\ Fill = Place(l).to
    BY <1>2 DEF IReached, Reached
  <2>2. Place(l) \in Places
    <3>1. CASE l = 0
      BY <3>1 DEF Place, Places
    <3>2. CASE l # 0
      BY <1>2, <3>2 DEF Place
    <3> QED BY <3>1, <3>2
  <2> QED BY <2>1, <2>2 DEF Places
<1>9. Depth' = Depth
  BY <1>1 DEF Depth
<1>10. IPlaced'
  <2>1. ASSUME NEW i \in 1 .. (l + 1)
        PROVE  PlacedAfter(Recorded[i], Place(i - 1), Place(i))'
    <3>1. CASE i \in 1 .. l
      <4>1. /\ \A j \in 1 .. l : Recorded'[j] = Recorded[j] /\ ends'[j] = ends[j]
            /\ l \in Nat /\ l <= Len(Recorded) /\ Len(Recorded) \in Nat
        BY <1>2, <1>5
      <4>2. \A j \in 1 .. l : PlacedAfter(Recorded[j], Place(j - 1), Place(j))'
        <5> HIDE DEF l
        <5> QED BY <1>1, <1>2, <4>1, PlacedPrefix
      <4> QED BY <3>1, <4>2
    <3>2. CASE i = l + 1
      <4>1. /\ Recorded'[i] = Request(n, a)
            /\ Place(i - 1)' = [block |-> current, to |-> Fill]
            /\ Place(i)' = [block |-> current', to |-> used'[current']]
        BY <1>2, <1>5, <1>6, <1>7, <1>8, <3>2, SMTT(30)
      <4>2. fill = IF current' = current THEN Fill ELSE 0
        BY DEF fill
      <4> QED BY <1>1, <4>1, <4>2 DEF PlacedAfter, Request
    <3> QED BY <1>2, <3>1, <3>2
  <2> QED BY <1>2, <1>5, <2>1 DEF IPlaced
<1>11. IServed'
  BY <1>2, <1>5, <1>9 DEF IServed
<1>12. IReached'
  <2>1. Fill' = used'[current']
    BY <1>1 DEF Fill
  <2>2. Reached(current, Fill, Len(log))'
    BY <1>5, <1>7, <2>1 DEF Reached
  <2>3. ASSUME NEW k \in 1 .. Depth
        PROVE  Reached(MarkerBlock(frames[k]), MarkerOffset(frames[k]), served[k])'
    BY <1>1, <1>2, <1>6 DEF IReached, Reached, MarkerBlock, MarkerOffset
  <2> QED BY <1>9, <2>2, <2>3 DEF IReached
<1>13. IsPrefixOf(log, Recorded)'
  BY <1>2 DEF IsPrefixOf
<1> QED BY <1>2, <1>5, <1>10, <1>11, <1>12, <1>13 DEF IReplay

LEMMA FollowReplay ==
  ASSUME IArena, IReplay, NEW n \in Sizes, NEW a \in Alignments,
         AllocateFound(n, a) \/ AllocateGrow(n, a), Repeats(n, a),
         log' = Append(log, Request(n, a)), UNCHANGED <<phase, served, warm, ends>>
  PROVE  IReplay'
<1> DEFINE l == Len(log)
           q == Place(l + 1)
           p == Place(l)
           room == IF q.block = p.block THEN p.to ELSE 0
           fill == IF current' = current THEN Fill ELSE 0
<1>1. /\ n \in Nat \ {0} /\ a \in Nat \ {0} /\ frames' = frames
      /\ current' \in Blocks' /\ current' \in Nat /\ current' >= current
      /\ NBlocks' # 0 /\ used'[current'] = AlignUp(fill, a) + n
      /\ Blocks \subseteq Blocks' /\ \A b \in Blocks : cap'[b] = cap[b]
      /\ \A j \in Candidates(n, a) : current' <= j
  BY ServedAt
<1>2. /\ l + 1 <= Len(warm) /\ q.block \in Candidates(n, a) /\ q.block >= p.block
      /\ FitsAt(room, cap[q.block], n, a) /\ q.to = AlignUp(room, a) + n
      /\ AtOrBelow(current, Fill, p.block, p.to)
  BY <1>1, RepeatFits
<1>3. /\ phase = "follow" /\ Recorded = warm /\ Recorded' = warm' /\ l \in Nat
      /\ Len(ends) = Len(warm) /\ IPlaced /\ IServed /\ IReached /\ Len(warm) \in Nat
      /\ log \in Seq(Requests) /\ ends \in Seq(Places) /\ warm \in Seq(Requests)
      /\ served \in Seq(Nat) /\ \A k \in 1 .. Depth : served[k] \in 0 .. l
      /\ \A i \in 0 .. Len(warm) : Place(i).block \in Nat /\ Place(i).to \in Nat
  BY ReplayTypes DEF Recorded, IReplay, Repeats
<1>4. /\ q.block \in Nat /\ q.to \in Nat /\ p.block \in Nat /\ p.to \in Nat
      /\ Fill \in Nat /\ current \in Nat
  BY <1>2, <1>3, FillFacts
<1>5. /\ log' \in Seq(Requests) /\ Len(log') = l + 1
      /\ log' = Append(log, Request(n, a))
  BY <1>1, <1>3 DEF Request, Requests
<1>6. \A i : Place(i)' = Place(i)
  BY DEF Place
<1>7. AtOrBelow(current', used'[current'], q.block, q.to)
  <2>1. current' <= q.block
    BY <1>1, <1>2
  <2>2. CASE current' < q.block
    BY <2>2 DEF AtOrBelow
  <2>3. CASE current' = q.block
    <3>1. fill \in Nat /\ room \in Nat /\ fill <= room
      BY <1>2, <1>4, <2>3 DEF AtOrBelow
    <3> HIDE DEF fill, room, q
    <3>2. cap[q.block] \in Nat
      BY <1>2, FillFacts DEF Candidates
    <3>3. AlignUp(fill, a) + n <= AlignUp(room, a) + n
      BY <1>1, <1>2, <3>1, <3>2, FitsMonotone, SMTT(30)
    <3> QED BY <1>1, <1>2, <2>3, <3>3 DEF AtOrBelow
  <2> QED BY <1>1, <1>4, <2>1, <2>2, <2>3
<1>8. Depth' = Depth
  BY <1>1 DEF Depth
<1>9. IPlaced'
  <2>1. /\ Recorded' = Recorded /\ ends' = ends /\ Len(Recorded) \in Nat /\ IPlaced
        /\ Blocks \subseteq Blocks' /\ \A b \in Blocks : cap'[b] = cap[b]
    BY <1>1, <1>3
  <2>2. \A i \in 1 .. Len(Recorded) : PlacedAfter(Recorded[i], Place(i - 1), Place(i))'
    BY <2>1, PlacedPrefix
  <2> QED BY <2>1, <2>2 DEF IPlaced
<1>10. IServed'
  BY <1>3, <1>5, <1>8 DEF IServed
<1>11. IReached'
  <2>1. Fill' = used'[current']
    BY <1>1 DEF Fill
  <2>2. \A i : i = l + 1 => AtOrBelow(current', Fill', Place(i).block, Place(i).to)
    BY <1>7, <2>1
  <2>3. Reached(current, Fill, Len(log))'
    BY <1>3, <1>5, <1>6, <2>2 DEF Reached, AtOrBelow
  <2>4. ASSUME NEW k \in 1 .. Depth
        PROVE  Reached(MarkerBlock(frames[k]), MarkerOffset(frames[k]), served[k])'
    BY <1>1, <1>3, <1>6 DEF IReached, Reached, MarkerBlock, MarkerOffset, AtOrBelow
  <2> QED BY <1>8, <2>3, <2>4 DEF IReached
<1>12. IsPrefixOf(log, Recorded)'
  BY <1>3, <1>5 DEF Repeats
<1> QED BY <1>3, <1>5, <1>9, <1>10, <1>11, <1>12 DEF IReplay

LEMMA AllocateReplay ==
  ASSUME IArena, IReplay, NEW n \in Sizes, NEW a \in Alignments, AllocateLogged(n, a)
  PROVE  IReplay'
<1>1. CASE phase = "record" /\ Len(log) < MaxLog
  BY <1>1, RecordReplay DEF AllocateLogged
<1>2. CASE Repeats(n, a)
  <2>1. phase = "follow"
    BY <1>2 DEF Repeats
  <2> QED BY <1>2, <2>1, FollowReplay DEF AllocateLogged
<1>3. CASE ~(phase = "record" /\ Len(log) < MaxLog) /\ ~Repeats(n, a)
  BY <1>3, IdleReplay DEF AllocateLogged
<1> QED BY <1>1, <1>2, <1>3

\* A step that leaves the observer, the frames and the arena's position alone.
LEMMA SteadyReplay ==
  ASSUME IReplay, UNCHANGED <<observer, frames, current>>, Fill' = Fill,
         Blocks \subseteq Blocks', \A b \in Blocks : cap'[b] = cap[b]
  PROVE  IReplay'
<1>1. UNCHANGED <<phase, log, served, warm, ends>>
  BY DEF observer
<1>2. CASE phase = "idle"
  BY <1>1, <1>2 DEF IReplay
<1>3. CASE phase # "idle"
  <2>1. /\ Recorded' = Recorded /\ Depth' = Depth /\ Len(Recorded) \in Nat
        /\ IPlaced /\ IServed /\ IReached
    BY <1>1, <1>3, ReplayTypes DEF Recorded, Depth
  <2>2. \A i : Place(i)' = Place(i)
    BY <1>1 DEF Place
  <2>3. \A i \in 1 .. Len(Recorded) : PlacedAfter(Recorded[i], Place(i - 1), Place(i))'
    BY <1>1, <2>1, PlacedPrefix
  <2>4. IPlaced'
    BY <2>1, <2>3 DEF IPlaced
  <2>5. IReached'
    BY <1>1, <2>1, <2>2 DEF IReached, Reached, AtOrBelow, MarkerBlock, MarkerOffset
  <2>6. IServed' /\ IsPrefixOf(log, Recorded)'
    BY <1>1, <1>3, <2>1 DEF IServed, IReplay, IsPrefixOf
  <2> QED BY <1>1, <1>3, <2>1, <2>4, <2>5, <2>6 DEF IReplay
<1> QED BY <1>2, <1>3

LEMMA ReserveReplay ==
  ASSUME IArena, IReplay, NEW n \in Sizes, ReserveLogged(n)
  PROVE  IReplay'
<1>1. UNCHANGED <<observer, frames, current>>
  BY DEF ReserveLogged, ReserveFound, ReserveGrow, ReserveFail
<1>2. CASE ReserveFound(n) \/ ReserveFail(n)
  <2>1. UNCHANGED <<cap, used>>
    BY <1>2 DEF ReserveFound, ReserveFail
  <2> QED BY <1>1, <2>1, SteadyReplay DEF Fill, Blocks, NBlocks
<1>3. CASE ReserveGrow(n)
  <2>1. TypeOK /\ IFill /\ n \in Nat
    BY WorkspaceAssumption DEF IArena
  <2>2. GrowthSize(n) \in Nat
    BY <2>1, GrowthFacts
  <2>3. /\ NBlocks' = NBlocks + 1 /\ Blocks' = Blocks \cup {NBlocks + 1}
        /\ \A b \in Blocks : cap'[b] = cap[b] /\ used'[b] = used[b]
        /\ used'[NBlocks + 1] = 0
    BY <1>3, <2>1, <2>2, AppendFacts DEF ReserveGrow
  <2>4. NBlocks \in Nat /\ Blocks = 1 .. NBlocks /\ current \in Nat
    BY <2>1, ElementTypes DEF TypeOK
  <2>5. Fill' = Fill
    BY <1>1, <2>1, <2>3, <2>4 DEF Fill, IFill
  <2> QED BY <1>1, <2>3, <2>5, SteadyReplay
<1> QED BY <1>2, <1>3 DEF ReserveLogged

\* The start of an epoch: no frame is open and the arena stands at its start.
LEMMA StartReplay ==
  ASSUME frames' = <<>>, current' = 1, Fill' = 0
  PROVE  /\ Depth' = 0
         /\ \A i : i = 0 => Reached(current, Fill, i)'
BY DEF Depth, Reached, Place, AtOrBelow

LEMMA ResetReplay == ASSUME IArena, IReplay, ResetLogged PROVE IReplay'
<1>1. /\ TypeOK /\ frames = <<>> /\ frames' = <<>> /\ current' = 1 /\ cap' = cap
      /\ ResetArena
  BY DEF IArena, ResetLogged, Reset, ResetArena
<1>2. NBlocks' = NBlocks /\ Blocks' = Blocks /\ \A b \in Blocks : used'[b] = 0
  BY <1>1, ResetInv
<1>3. Fill' = 0
  <2>1. NBlocks \in Nat /\ Blocks = 1 .. NBlocks
    BY <1>1, ElementTypes
  <2> QED BY <1>1, <1>2, <2>1 DEF Fill
<1>4. /\ Depth = 0 /\ Depth' = 0 /\ \A i : i = 0 => Reached(current, Fill, i)'
  BY <1>1, <1>3, StartReplay DEF Depth
<1>5. CASE Idle
  BY <1>5, IdleReplay
<1>6. CASE phase = "idle" /\ phase' = "record" /\ UNCHANGED <<log, served, warm, ends>>
  <2>1. /\ log' = <<>> /\ served' = <<>> /\ warm' = <<>> /\ ends' = <<>>
    BY <1>6 DEF IReplay
  <2>2. Recorded' = <<>> /\ Len(<<>>) = 0
    BY <1>6, <2>1 DEF Recorded
  <2>3. IPlaced' /\ IServed' /\ IReached' /\ IsPrefixOf(log, Recorded)'
    BY <1>4, <2>1, <2>2 DEF IPlaced, IServed, IReached, IsPrefixOf
  <2> QED BY <1>6, <2>1, <2>2, <2>3 DEF IReplay
<1>7. CASE /\ phase = "record" /\ phase' = "follow" /\ warm' = log /\ log' = <<>>
           /\ UNCHANGED <<served, ends>>
  <2>1. /\ Recorded = log /\ Recorded' = log /\ Len(log) \in Nat /\ Len(ends) = Len(log)
        /\ IPlaced /\ IServed
        /\ log \in Seq(Requests) /\ ends \in Seq(Places) /\ served \in Seq(Nat)
    BY <1>7, ReplayTypes DEF Recorded, IReplay
  <2>2. \A i \in 1 .. Len(Recorded) : PlacedAfter(Recorded[i], Place(i - 1), Place(i))'
    BY <1>1, <1>2, <1>7, <2>1, PlacedPrefix
  <2>3. IPlaced'
    BY <2>1, <2>2 DEF IPlaced
  <2>4. log' = <<>> /\ Len(log') = 0 /\ <<>> \in Seq(Requests)
    BY <1>7
  <2>5. IServed' /\ IReached' /\ IsPrefixOf(log, Recorded)'
    BY <1>4, <1>7, <2>1, <2>4 DEF IServed, IReached, IsPrefixOf
  <2> QED BY <1>7, <2>1, <2>3, <2>4, <2>5 DEF IReplay
<1> QED BY <1>5, <1>6, <1>7 DEF ResetLogged

LEMMA OpenReplay == ASSUME IArena, IReplay, OpenLogged PROVE IReplay'
<1> DEFINE m == [block |-> IF NBlocks = 0 THEN 0 ELSE current,
                 offset |-> IF NBlocks = 0 THEN 0 ELSE used[current],
                 valid |-> NBlocks # 0, promise |-> promise]
<1>0. /\ TypeOK /\ IFill /\ frames \in Seq(Marker) /\ frames' = Append(frames, m)
      /\ UNCHANGED <<cap, used, current, phase, log, warm, ends>>
      /\ served' = IF phase = "idle" THEN served ELSE Append(served, Len(log))
  BY DEF IArena, OpenLogged, OpenFrame, arena, TypeOK
<1>1. /\ Depth \in Nat /\ Depth' = Depth + 1 /\ frames'[Depth + 1] = m
      /\ \A k \in 1 .. Depth : frames'[k] = frames[k]
  BY <1>0 DEF Depth
<1>2. Blocks' = Blocks /\ Fill' = Fill
  BY <1>0 DEF Blocks, NBlocks, Fill
<1>3. MarkerBlock(m) = current /\ MarkerOffset(m) = Fill
  BY <1>0 DEF MarkerBlock, MarkerOffset, Fill, IFill
<1>4. CASE phase = "idle"
  BY <1>0, <1>4 DEF IReplay
<1>5. CASE phase # "idle"
  <2>1. /\ Recorded' = Recorded /\ Len(Recorded) \in Nat /\ Len(log) \in Nat
        /\ IPlaced /\ IServed /\ IReached /\ served \in Seq(Nat) /\ Len(served) = Depth
    BY <1>0, <1>5, ReplayTypes DEF Recorded, IReplay, IServed
  <2>2. /\ served' \in Seq(Nat) /\ Len(served') = Depth + 1
        /\ served'[Depth + 1] = Len(log) /\ \A k \in 1 .. Depth : served'[k] = served[k]
    <3>1. served' = Append(served, Len(log))
      BY <1>0, <1>5
    <3> QED BY <2>1, <3>1
  <2>3. \A i : Place(i)' = Place(i)
    BY <1>0 DEF Place
  <2>4. \A i \in 1 .. Len(Recorded) : PlacedAfter(Recorded[i], Place(i - 1), Place(i))'
    BY <1>0, <1>2, <2>1, PlacedPrefix
  <2>5. IPlaced'
    BY <2>1, <2>4 DEF IPlaced
  <2>6. IServed'
    <3>1. ASSUME NEW j \in 1 .. (Depth + 1), NEW k \in 1 .. (Depth + 1), j < k
          PROVE  served'[j] <= served'[k]
      <4>1. CASE k = Depth + 1
        <5>1. j \in 1 .. Depth /\ served'[k] = Len(log)
          BY <1>1, <2>2, <3>1, <4>1
        <5> QED BY <2>1, <2>2, <5>1 DEF IServed
      <4>2. CASE k \in 1 .. Depth
        BY <1>1, <2>1, <2>2, <3>1, <4>2, SMTT(30) DEF IServed
      <4> QED BY <1>1, <4>1, <4>2
    <3>2. ASSUME NEW k \in 1 .. (Depth + 1) PROVE served'[k] <= Len(log)
      <4>1. CASE k = Depth + 1
        BY <2>1, <2>2, <4>1
      <4>2. CASE k \in 1 .. Depth
        BY <2>1, <2>2, <4>2 DEF IServed
      <4> QED BY <1>1, <4>1, <4>2
    <3> QED BY <1>0, <1>1, <2>2, <3>1, <3>2 DEF IServed
  <2>7. IReached'
    <3>1. Reached(current, Fill, Len(log))'
      BY <1>0, <1>2, <2>1, <2>3 DEF IReached, Reached
    <3>2. ASSUME NEW k \in 1 .. (Depth + 1)
          PROVE  Reached(MarkerBlock(frames[k]), MarkerOffset(frames[k]), served[k])'
      <4>1. CASE k = Depth + 1
        <5>1. /\ MarkerBlock(frames[k])' = current /\ MarkerOffset(frames[k])' = Fill
              /\ served'[k] = Len(log)
          BY <1>1, <1>3, <2>2, <4>1 DEF MarkerBlock, MarkerOffset
        <5> QED BY <1>0, <2>1, <2>3, <5>1 DEF IReached, Reached
      <4>2. CASE k \in 1 .. Depth
        BY <1>0, <1>1, <2>1, <2>2, <2>3, <4>2, ZenonT(60)
           DEF IReached, Reached, MarkerBlock, MarkerOffset
      <4> QED BY <1>1, <4>1, <4>2
    <3> QED BY <1>1, <3>1, <3>2 DEF IReached
  <2>8. IsPrefixOf(log, Recorded)'
    BY <1>0, <1>5, <2>1 DEF IReplay, IsPrefixOf
  <2> QED BY <1>0, <1>5, <2>1, <2>2, <2>5, <2>6, <2>7, <2>8 DEF IReplay
<1> QED BY <1>4, <1>5

LEMMA CloseReplay == ASSUME IArena, IReplay, CloseLogged PROVE IReplay'
<1> DEFINE m == frames[Depth]
           j == served[Depth]
<1>0. /\ TypeOK /\ IFrames /\ frames \in Seq(Marker) /\ frames # <<>>
      /\ Rewind(m) /\ frames' = SubSeq(frames, 1, Depth - 1) /\ cap' = cap
  BY DEF IArena, CloseLogged, CloseFrame, TypeOK
<1>1. Depth \in Nat \ {0} /\ Blocks' = Blocks /\ NBlocks' = NBlocks
      /\ NBlocks \in Nat /\ Blocks = 1 .. NBlocks
  BY <1>0, ElementTypes DEF Depth, Blocks, NBlocks
<1>2. Depth' = Depth - 1 /\ \A k \in 1 .. (Depth - 1) : frames'[k] = frames[k]
  <2>1. \A k \in 1 .. (Depth - 1) : frames[k] \in Marker
    BY <1>0, <1>1 DEF Depth
  <2>2. Depth - 1 \in Int /\ 1 \in Int
    BY <1>1
  <2>3. /\ Len(SubSeq(frames, 1, Depth - 1)) = IF 1 <= Depth - 1 THEN Depth - 1 - 1 + 1 ELSE 0
        /\ \A k \in 1 .. (Depth - 1 - 1 + 1) :
             SubSeq(frames, 1, Depth - 1)[k] = frames[1 + k - 1]
    BY <2>1, <2>2, SubSeqProperties
  <2>4. Len(frames') = Depth - 1
    BY <1>0, <1>1, <2>3
  <2>5. Depth' = Depth - 1
    BY <2>4 DEF Depth
  <2> QED BY <1>0, <1>1, <2>3, <2>5
<1>3. current' = MarkerBlock(m) /\ Fill' = MarkerOffset(m)
  <2>1. CASE m.valid
    <3>1. m.block \in Blocks
      BY <1>0, <1>1, <2>1 DEF IFrames
    <3>2. /\ used' = [i \in Blocks |-> IF i < m.block THEN used[i]
                                      ELSE IF i = m.block THEN m.offset ELSE 0]
          /\ current' = m.block
      BY <1>0, <1>1, <2>1, <3>1 DEF Rewind
    <3>3. used'[m.block] = m.offset /\ NBlocks' # 0
      BY <1>1, <3>1, <3>2
    <3> QED BY <2>1, <3>2, <3>3 DEF MarkerBlock, MarkerOffset, Fill
  <2>2. CASE ~m.valid
    <3>1. ResetArena
      BY <1>0, <2>2 DEF Rewind
    <3>2. current' = 1 /\ \A b \in Blocks : used'[b] = 0
      BY <1>0, <3>1, ResetInv DEF ResetArena
    <3>3. Fill' = 0
      BY <1>1, <3>2 DEF Fill
    <3> QED BY <2>2, <3>2, <3>3 DEF MarkerBlock, MarkerOffset
  <2> QED BY <2>1, <2>2
<1>4. CASE phase = "idle"
  BY <1>4 DEF CloseLogged, observer, IReplay
<1>5. CASE phase # "idle"
  <2>1. /\ UNCHANGED <<phase, warm>> /\ log' = SubSeq(log, 1, j)
        /\ ends' = IF phase = "record" THEN SubSeq(ends, 1, j) ELSE ends
        /\ served' = SubSeq(served, 1, Depth - 1)
    BY <1>5 DEF CloseLogged
  <2>2. /\ Len(log) \in Nat /\ Len(Recorded) \in Nat /\ Len(ends) = Len(Recorded)
        /\ Len(log) <= Len(Recorded) /\ IPlaced /\ IServed /\ IReached
        /\ \A k \in 1 .. Depth : served[k] \in 0 .. Len(log)
        /\ Len(served) = Depth /\ IsPrefixOf(log, Recorded)
        /\ log \in Seq(Requests) /\ warm \in Seq(Requests) /\ served \in Seq(Nat)
        /\ ends \in Seq(Places) /\ phase \in {"record", "follow"}
    BY <1>5, ReplayTypes DEF IReplay, IServed
  <2>3. j \in 0 .. Len(log) /\ \A k \in 1 .. Depth : served[k] <= j
    BY <1>1, <2>2 DEF IServed
  <2> HIDE DEF m, j
  <2>4. /\ log' \in Seq(Requests) /\ Len(log') = j /\ \A i \in 1 .. j : log'[i] = log[i]
    BY <2>1, <2>2, <2>3
  <2>5. /\ served' \in Seq(Nat) /\ Len(served') = Depth - 1
        /\ \A k \in 1 .. (Depth - 1) : served'[k] = served[k]
    BY <1>1, <2>1, <2>2
  <2>6. /\ ends' \in Seq(Places) /\ Len(ends') = Len(Recorded')
        /\ \A i \in 1 .. j : ends'[i] = ends[i] /\ Recorded'[i] = Recorded[i]
        /\ Len(Recorded') = IF phase = "record" THEN j ELSE Len(Recorded)
        /\ phase = "follow" => ends' = ends /\ Recorded' = Recorded
    <3>1. CASE phase = "record"
      <4>1. Recorded = log /\ Recorded' = log' /\ ends' = SubSeq(ends, 1, j)
        BY <2>1, <3>1 DEF Recorded
      <4>2. /\ ends' \in Seq(Places) /\ Len(ends') = j /\ \A i \in 1 .. j : ends'[i] = ends[i]
        BY <2>2, <2>3, <4>1
      <4> QED BY <2>4, <3>1, <4>1, <4>2
    <3>2. CASE phase = "follow"
      BY <2>1, <2>2, <3>2 DEF Recorded
    <3> QED BY <2>2, <3>1, <3>2
  <2>7. \A i \in 0 .. j : Place(i)' = Place(i)
    BY <2>3, <2>6 DEF Place
  <2>8. IPlaced'
    <3>1. \A n \in Nat : n <= Len(Recorded)
                     /\ (\A i \in 1 .. n : Recorded'[i] = Recorded[i] /\ ends'[i] = ends[i])
             => \A i \in 1 .. n : PlacedAfter(Recorded[i], Place(i - 1), Place(i))'
      BY <1>0, <1>1, <2>2, PlacedPrefix
    <3>2. PICK n \in Nat : /\ n = Len(Recorded') /\ n <= Len(Recorded)
                           /\ \A i \in 1 .. n : Recorded'[i] = Recorded[i] /\ ends'[i] = ends[i]
      BY <2>2, <2>3, <2>6, SMTT(30)
    <3>3. \A i \in 1 .. n : PlacedAfter(Recorded[i], Place(i - 1), Place(i))'
      BY <3>1, <3>2
    <3> QED BY <3>2, <3>3 DEF IPlaced
  <2>9. IServed'
    <3>1. \A k \in 1 .. (Depth - 1) : k \in 1 .. Depth /\ served'[k] = served[k]
                                     /\ served[k] <= j
      BY <1>1, <2>3, <2>5
    <3>2. \A h, k \in 1 .. (Depth - 1) : h < k => served'[h] <= served'[k]
      BY <2>2, <3>1 DEF IServed
    <3> QED BY <1>2, <2>4, <2>5, <3>1, <3>2 DEF IServed
  <2>10. IReached'
    <3>1. Reached(MarkerBlock(m), MarkerOffset(m), j)
      BY <1>1, <2>2 DEF IReached, m, j
    <3>2. Reached(current, Fill, Len(log))'
      BY <1>3, <2>1, <2>3, <2>4, <2>7, <3>1 DEF Reached
    <3>3. ASSUME NEW k \in 1 .. (Depth - 1)
          PROVE  Reached(MarkerBlock(frames[k]), MarkerOffset(frames[k]), served[k])'
      <4>1. /\ MarkerBlock(frames[k])' = MarkerBlock(frames[k])
            /\ MarkerOffset(frames[k])' = MarkerOffset(frames[k])
            /\ served'[k] = served[k] /\ served[k] \in 0 .. j /\ k \in 1 .. Depth
        <5>1. k \in 1 .. Depth
          BY <1>1
        <5>2. frames'[k] = frames[k]
          BY <1>2
        <5>3. MarkerBlock(frames[k])' = MarkerBlock(frames[k]) /\ MarkerOffset(frames[k])' = MarkerOffset(frames[k])
          BY ONLY <5>2 DEF MarkerBlock, MarkerOffset
        <5>4. served'[k] = served[k] /\ served[k] \in 0 .. Len(log) /\ served[k] <= j
          BY ONLY <2>2, <2>3, <2>5, <5>1
        <5>5. j \in 0 .. Len(log) /\ Len(log) \in Nat
          BY ONLY <2>2, <2>3
        <5> QED BY ONLY <5>1, <5>3, <5>4, <5>5
      <4>2. Reached(MarkerBlock(frames[k]), MarkerOffset(frames[k]), served[k])
        BY <2>2, <4>1 DEF IReached
      <4> QED BY <2>1, <2>7, <4>1, <4>2 DEF Reached
    <3> QED BY <1>2, <3>2, <3>3 DEF IReached
  <2>11. IsPrefixOf(log, Recorded)'
    <3>1. j <= Len(Recorded')
      BY <2>2, <2>3, <2>6
    <3>2. \A i \in 1 .. j : log'[i] = Recorded'[i]
      <4> SUFFICES ASSUME NEW i \in 1 .. j PROVE log'[i] = Recorded'[i]
        OBVIOUS
      <4>1. i \in 1 .. Len(log)
        BY <2>2, <2>3
      <4>2. log[i] = Recorded[i]
        BY <2>2, <4>1 DEF IsPrefixOf
      <4> QED BY <2>4, <2>6, <4>2
    <3> QED BY <2>4, <3>1, <3>2 DEF IsPrefixOf
  <2> QED BY <2>1, <1>5, <2>2, <2>4, <2>5, <2>6, <2>8, <2>9, <2>10, <2>11 DEF IReplay
<1> QED BY <1>4, <1>5

\* Every step of the arena with its observer is a step of the arena.
LEMMA ReplayIsArena == ASSUME [NextReplay]_replayVars PROVE [Next]_vars
BY DEF NextReplay, replayVars, Next, ReserveLogged, AllocateLogged, ResetLogged,
       OpenLogged, CloseLogged, MoveLogged

LEMMA ReplayStep == ASSUME IArena, IReplay, [NextReplay]_replayVars PROVE IReplay'
<1>1. CASE UNCHANGED replayVars
  <2>1. UNCHANGED <<observer, frames, current, cap, used>>
    BY <1>1 DEF replayVars, vars, arena
  <2>2. Fill' = Fill /\ Blocks' = Blocks
    BY <2>1 DEF Fill, Blocks, NBlocks
  <2> QED BY <2>1, <2>2, SteadyReplay
<1>2. CASE MoveLogged
  BY <1>2, IdleReplay DEF MoveLogged
<1> QED BY <1>1, <1>2, AllocateReplay, ReserveReplay, ResetReplay, OpenReplay, CloseReplay
        DEF NextReplay

\* The observed arena keeps its invariant and the observer's.
THEOREM ReplayInvariant == SpecReplay => [](IInv /\ IReplay)
<1>1. InitReplay => IInv /\ IReplay
  <2> SUFFICES ASSUME InitReplay PROVE IInv /\ IReplay
    OBVIOUS
  <2>1. promise = 0 /\ Depth = 0
    BY DEF InitReplay, Init, Depth
  <2>2. IPromise
    BY <2>1 DEF IPromise, ReserveHonoured
  <2>3. <<>> \in Seq(Requests) /\ <<>> \in Seq(Nat) /\ <<>> \in Seq(Places)
    OBVIOUS
  <2> QED BY <2>2, <2>3, InitInv DEF InitReplay, IInv, IReplay
<1>2. IInv /\ IReplay /\ [NextReplay]_replayVars => IInv' /\ IReplay'
  BY ReplayIsArena, ArenaStep, PromiseStep, ReplayStep DEF IInv
<1> QED BY <1>1, <1>2, PTL DEF SpecReplay

\* Clients that repeat after reset() the requests of the epoch before never make
\* the arena grow ("warmed-up kernels do not allocate on their hot path",
\* workspace.h:16).
THEOREM WarmArenaNeverGrows == SpecReplay => WarmNeverGrows
<1>1. ASSUME IInv, IReplay, NEW n \in Sizes, NEW a \in Alignments, Repeats(n, a),
             AllocateGrow(n, a)
      PROVE  FALSE
  <2>1. n \in Nat /\ a \in Nat \ {0} /\ Candidates(n, a) = {}
    BY <1>1, WorkspaceAssumption, SupportedFacts DEF AllocateGrow
  <2> QED BY <1>1, <2>1, RepeatFits DEF IInv
<1>2. IInv /\ IReplay =>
        [\A n \in Sizes, a \in Alignments : Repeats(n, a) => ~AllocateGrow(n, a)]_replayVars
  BY <1>1
<1> QED BY <1>2, ReplayInvariant, PTL DEF WarmNeverGrows
=============================================================================
