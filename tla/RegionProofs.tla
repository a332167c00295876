---------------------------- MODULE RegionProofs ----------------------------
(***************************************************************************)
(* One parallel region, for every kernel, every size of the pool and every *)
(* interleaving: a kernel whose parallel route is race free computes what  *)
(* one thread computes, and its status does not depend on who finds a bad  *)
(* item first.  Then the kernel families, for every shape: their parallel  *)
(* routes are race free and their items together write the output, so that *)
(* a region of these families computes what one thread computes and        *)
(* produces exactly its output.                                            *)
(***************************************************************************)
EXTENDS NormRegions, AttentionRegions, RecurrentRegions, KernelRegion,
        ChunkPartitionProofs, TLAPS

\* An item lies between two indices if its own index does.
LEMMA WithinIndex ==
  ASSUME NEW grain \in Nat \ {0}, NEW begin \in Nat, NEW end \in Nat, NEW i \in Nat,
         begin <= i \div grain, i \div grain < end
  PROVE  begin * grain <= i /\ i < end * grain
<1> DEFINE q == i \div grain
<1>1. q \in Nat /\ q * grain <= i /\ i < q * grain + grain
  <2>1. q \in Nat /\ i % grain \in 0 .. (grain - 1) /\ i = grain * q + (i % grain)
    BY DivMod
  <2>2. grain * q = q * grain /\ q * grain \in Nat
    BY <2>1
  <2> HIDE DEF q
  <2> QED BY <2>1, <2>2
<1> HIDE DEF q
<1>2. begin * grain <= q * grain
  BY <1>1, ProductMonotone DEF q
<1>3. (q + 1) * grain <= end * grain
  <2>1. q + 1 <= end
    BY <1>1 DEF q
  <2> QED BY <1>1, <2>1, ProductMonotone
<1>4. (q + 1) * grain = q * grain + grain
  BY <1>1
<1>5. begin * grain \in Nat /\ q * grain \in Nat /\ end * grain \in Nat
  BY <1>1
<1> QED BY <1>1, <1>2, <1>3, <1>4, <1>5

\* What TypeOK says of the ranges of the parts.
LEMMA PartRanges ==
  ASSUME KernelAssumption, TypeOK
  PROVE  /\ IsKernel(kernel) /\ kernel.count \in Nat \ {0} /\ parts \in Nat \ {0}
         /\ kernel.grain \in Nat \ {0} /\ kernel.count * kernel.grain \in Nat
         /\ \A p \in PartIndices :
              /\ First(p) \in Nat /\ End(p) \in Nat /\ pos[p] \in Nat
              /\ End(p) <= kernel.count * kernel.grain
              /\ \A q \in PartIndices : p < q => End(p) <= First(q)
         /\ \A i \in Items : \E p \in PartIndices : First(p) <= i /\ i < End(p)
         /\ kernel.route = "serial" => /\ PartIndices = {0} /\ First(0) = 0
<1> DEFINE count == kernel.count  grain == kernel.grain
           Begin(p) == ChunkBegin(count, parts, p)
           Stop(p) == ChunkEnd(count, parts, p)
<1>1. /\ IsKernel(kernel) /\ count \in Nat \ {0} /\ parts \in Nat \ {0}
      /\ grain \in Nat \ {0}
  BY DEF KernelAssumption, TypeOK, IsKernel
<1>2. \A p \in PartIndices : pos[p] \in Nat
  BY DEF TypeOK
<1>3. \A p \in PartIndices : First(p) = Begin(p) * grain /\ End(p) = Stop(p) * grain
  BY DEF First, End
<1>4. \A p \in PartIndices : Begin(p) \in Nat /\ Stop(p) \in Nat
  <2>1. \A p \in PartIndices : Begin(p) \in Nat
    BY <1>1, ChunksAdjacent DEF PartIndices
  <2>2. Base(count, parts) \in Nat
    BY <1>1, DivMod DEF Base
  <2> QED BY <2>1, <2>2 DEF ChunkEnd
<1> HIDE DEF count, grain, Begin, Stop
<1>5. \A p \in PartIndices, q \in PartIndices : p < q => Stop(p) <= Begin(q)
  BY <1>1, ChunksOrdered DEF PartIndices, Begin, Stop
<1>6. \A p \in PartIndices : Stop(p) <= count
  <2> SUFFICES ASSUME NEW p \in PartIndices PROVE Stop(p) <= count
    OBVIOUS
  <2>1. CASE p = parts - 1
    BY <1>1, <2>1, ChunksAdjacent DEF Stop
  <2>2. CASE p # parts - 1
    <3>1. p < parts - 1 /\ parts - 1 \in PartIndices
      BY <1>1, <2>2 DEF PartIndices
    <3>2. Stop(p) <= Begin(parts - 1)
      BY <1>5, <3>1
    <3>3. Begin(parts - 1) <= Stop(parts - 1) /\ Stop(parts - 1) = count
      BY <1>1, <3>1, ChunksAdjacent DEF Begin, Stop, PartIndices
    <3> QED BY <1>1, <1>4, <3>1, <3>2, <3>3
  <2> QED BY <2>1, <2>2
<1>7. \A p \in PartIndices : First(p) \in Nat /\ End(p) \in Nat
  <2> SUFFICES ASSUME NEW p \in PartIndices PROVE First(p) \in Nat /\ End(p) \in Nat
    OBVIOUS
  <2>1. Begin(p) * grain \in Nat /\ Stop(p) * grain \in Nat
    BY <1>1, <1>4
  <2> QED BY <1>3, <2>1
<1>8. \A p \in PartIndices, q \in PartIndices : p < q => End(p) <= First(q)
  <2> SUFFICES ASSUME NEW p \in PartIndices, NEW q \in PartIndices, p < q
               PROVE  End(p) <= First(q)
    OBVIOUS
  <2>1. Stop(p) * grain <= Begin(q) * grain
    BY <1>1, <1>4, <1>5, ProductMonotone
  <2> QED BY <1>3, <2>1
<1>9. \A p \in PartIndices : End(p) <= count * grain
  <2> SUFFICES ASSUME NEW p \in PartIndices PROVE End(p) <= count * grain
    OBVIOUS
  <2>1. Stop(p) * grain <= count * grain
    BY <1>1, <1>4, <1>6, ProductMonotone
  <2> QED BY <1>3, <2>1
<1>10. count * grain \in Nat
  BY <1>1
<1>11. \A i \in Items : \E p \in PartIndices : First(p) <= i /\ i < End(p)
  <2> SUFFICES ASSUME NEW i \in Items
               PROVE  \E p \in PartIndices : First(p) <= i /\ i < End(p)
    OBVIOUS
  <2>1. i \in 0 .. (count * grain - 1)
    BY DEF Items, ItemsOfKernel, count, grain
  <2>2. i \div grain \in 0 .. (count - 1)
    BY <1>1, <2>1, TaskParts
  <2>3. PICK p \in PartIndices : i \div grain \in Chunk(count, parts, p)
    BY <1>1, <2>2, ChunksCover DEF PartIndices
  <2>4. Begin(p) <= i \div grain /\ i \div grain < Stop(p)
    BY <1>4, <2>2, <2>3 DEF Chunk, Begin, Stop
  <2> QED BY <1>1, <1>3, <1>4, <2>1, <2>2, <2>4, WithinIndex
<1>12. kernel.route = "serial" => PartIndices = {0} /\ First(0) = 0
  <2>1. kernel.route = "serial" => parts = 1
    BY DEF TypeOK
  <2>2. ASSUME parts = 1 PROVE PartIndices = {0} /\ First(0) = 0
    <3>1. PartIndices = {0}
      BY <2>2 DEF PartIndices
    <3>2. Begin(0) = 0
      BY <1>1, ChunksAdjacent DEF Begin
    <3> QED BY <1>1, <1>3, <3>1, <3>2
  <2> QED BY <2>1, <2>2
<1> QED BY <1>1, <1>2, <1>7, <1>8, <1>9, <1>10, <1>11, <1>12 DEF count, grain

\* The items of one index are all in the same part.
LEMMA IndexInOnePart ==
  ASSUME KernelAssumption, TypeOK, NEW p \in PartIndices,
         NEW i \in Items, NEW j \in Items, i \div kernel.grain = j \div kernel.grain,
         First(p) <= i, i < End(p)
  PROVE  First(p) <= j /\ j < End(p)
<1> DEFINE grain == kernel.grain
           begin == ChunkBegin(kernel.count, parts, p)
           end == ChunkEnd(kernel.count, parts, p)
<1>1. kernel.count \in Nat \ {0} /\ parts \in Nat \ {0} /\ grain \in Nat \ {0}
  BY PartRanges
<1>2. i \in Nat /\ j \in Nat
  BY DEF Items, ItemsOfKernel
<1>3. begin \in Nat /\ end \in Nat
  <2>1. begin \in Nat
    BY <1>1, ChunksAdjacent DEF PartIndices
  <2>2. Base(kernel.count, parts) \in Nat
    BY <1>1, DivMod DEF Base
  <2> QED BY <2>1, <2>2 DEF ChunkEnd
<1>4. First(p) = begin * grain /\ End(p) = end * grain
  BY DEF First, End
<1> HIDE DEF grain, begin, end
<1>5. begin * grain = grain * begin /\ end * grain = grain * end
  BY <1>1, <1>3
<1>6. begin <= i \div grain /\ i \div grain < end
  BY <1>1, <1>2, <1>3, <1>4, <1>5, DivBounds
<1>7. i \div grain = j \div grain
  BY DEF grain
<1>8. begin * grain <= j /\ j < end * grain
  BY <1>1, <1>2, <1>3, <1>6, <1>7, WithinIndex
<1> QED BY <1>4, <1>8

\* An item that a part has not reached is not passed; passing it adds only it.
LEMMA PassedGrows ==
  ASSUME KernelAssumption, TypeOK, NEW p \in PartIndices, pos[p] < End(p)
  PROVE  /\ pos[p] \in Items /\ pos[p] \notin Passed
         /\ \A i \in Items :
              i \in Passed \cup {pos[p]} <=>
                \E q \in PartIndices :
                  First(q) <= i /\ i < [pos EXCEPT ![p] = @ + 1][q]
         /\ kernel.route = "serial" => Passed = 0 .. (pos[p] - 1)
<1> DEFINE N == kernel.count * kernel.grain
<1>0. Items = 0 .. (N - 1)
  BY DEF Items, ItemsOfKernel
<1>1. /\ N \in Nat /\ parts \in Nat \ {0}
      /\ \A q \in PartIndices :
           /\ First(q) \in Nat /\ End(q) \in Nat /\ pos[q] \in Nat
           /\ First(q) <= pos[q] /\ pos[q] <= End(q) /\ End(q) <= N
           /\ \A r \in PartIndices : q < r => End(q) <= First(r)
  BY PartRanges DEF TypeOK
<1> HIDE DEF N
<1>2. pos[p] \in Items
  BY <1>0, <1>1
<1>3. pos[p] \notin Passed
  <2> SUFFICES ASSUME NEW q \in PartIndices, First(q) <= pos[p], pos[p] < pos[q]
               PROVE  FALSE
    BY DEF Passed
  <2>1. p \in Int /\ q \in Int
    BY <1>1 DEF PartIndices
  <2>2. CASE q < p
    BY <1>1, <2>2
  <2>3. CASE p < q
    BY <1>1, <2>3
  <2> QED BY <1>1, <2>1, <2>2, <2>3
<1>4. \A i \in Items :
        i \in Passed \cup {pos[p]} <=>
          \E q \in PartIndices : First(q) <= i /\ i < [pos EXCEPT ![p] = @ + 1][q]
  <2>1. \A q \in PartIndices :
          [pos EXCEPT ![p] = @ + 1][q] = IF q = p THEN pos[q] + 1 ELSE pos[q]
    BY DEF TypeOK
  <2> SUFFICES ASSUME NEW i \in Items
               PROVE  i \in Passed \cup {pos[p]} <=>
                        \E q \in PartIndices :
                          First(q) <= i /\ i < (IF q = p THEN pos[q] + 1 ELSE pos[q])
    BY <2>1
  <2>2. i \in Int
    BY <1>0, <1>1
  <2>3. ASSUME i \in Passed \cup {pos[p]}
        PROVE  \E q \in PartIndices :
                 First(q) <= i /\ i < (IF q = p THEN pos[q] + 1 ELSE pos[q])
    <3>1. CASE i = pos[p]
      BY <1>1, <3>1
    <3>2. CASE i \in Passed
      <4>1. PICK q \in PartIndices : First(q) <= i /\ i < pos[q]
        BY <3>2 DEF Passed
      <4>2. i < (IF q = p THEN pos[q] + 1 ELSE pos[q])
        BY <1>1, <2>2, <4>1
      <4> QED BY <4>1, <4>2
    <3> QED BY <2>3, <3>1, <3>2
  <2>4. ASSUME NEW q \in PartIndices, First(q) <= i,
               i < (IF q = p THEN pos[q] + 1 ELSE pos[q])
        PROVE  i \in Passed \cup {pos[p]}
    <3>1. CASE i < pos[q]
      BY <2>4, <3>1 DEF Passed
    <3>2. CASE ~(i < pos[q])
      BY <1>1, <2>2, <2>4, <3>2
    <3> QED BY <3>1, <3>2
  <2> QED BY <2>3, <2>4
<1>5. ASSUME kernel.route = "serial" PROVE Passed = 0 .. (pos[p] - 1)
  <2>1. PartIndices = {0} /\ First(0) = 0 /\ p = 0
    BY <1>5, PartRanges
  <2>2. Passed = {i \in Items : i < pos[p]}
    BY <1>0, <1>1, <2>1 DEF Passed
  <2> QED BY <1>0, <1>1, <1>2, <2>2
<1> QED BY <1>2, <1>3, <1>4, <1>5

-----------------------------------------------------------------------------
(* Type correctness and the flag.                                          *)

LEMMA InitType == ASSUME KernelAssumption, Init PROVE TypeOK
<1>1. IsKernel(kernel) /\ kernel.count \in Nat \ {0}
  BY DEF KernelAssumption, Init, IsKernel
<1>2. parts \in 1 .. kernel.count /\ (kernel.route = "serial" => parts = 1)
  <2>1. CASE kernel.route = "serial"
    BY <1>1, <2>1 DEF Init, PartCounts
  <2>2. CASE kernel.route # "serial"
    <3>1. PICK total \in 1 .. MaxTotal : parts = Parts(kernel.count, 1, total)
      BY <2>2 DEF Init, PartCounts
    <3>2. total \in Nat \ {0}
      BY DEF KernelAssumption
    <3> QED BY <1>1, <2>2, <3>1, <3>2, PartsBounds
  <2> QED BY <2>1, <2>2
<1>3. kernel.count \in Nat /\ parts \in Nat \ {0}
  BY <1>1, <1>2
<1>4. \A p \in PartIndices : First(p) \in Nat /\ First(p) <= End(p)
  <2> SUFFICES ASSUME NEW p \in PartIndices PROVE First(p) \in Nat /\ First(p) <= End(p)
    OBVIOUS
  <2> DEFINE begin == ChunkBegin(kernel.count, parts, p)
             end == ChunkEnd(kernel.count, parts, p)
  <2>1. begin \in Nat /\ begin <= end
    BY <1>3, ChunksAdjacent DEF PartIndices
  <2>2. Base(kernel.count, parts) \in Nat
    BY <1>3, DivMod DEF Base
  <2>3. end \in Nat
    BY <2>1, <2>2 DEF ChunkEnd
  <2>4. kernel.grain \in Nat
    BY <1>1 DEF IsKernel
  <2> HIDE DEF begin, end
  <2>5. begin * kernel.grain \in Nat /\ begin * kernel.grain <= end * kernel.grain
    BY <2>1, <2>3, <2>4, ProductMonotone
  <2> QED BY <2>5 DEF First, End, begin, end
<1>5. mem \in [kernel.cells -> Items \cup {Untouched}] /\ DOMAIN view = Items
  BY DEF Init
<1>6. /\ pos \in [PartIndices -> Nat] /\ busy \in [PartIndices -> BOOLEAN]
      /\ \A p \in PartIndices : pos[p] = First(p) /\ ~busy[p]
  BY <1>4 DEF Init
<1>7. \A p \in PartIndices : /\ First(p) <= pos[p] /\ pos[p] <= End(p)
                             /\ (busy[p] => pos[p] < End(p))
  BY <1>4, <1>6
<1> QED BY <1>2, <1>5, <1>6, <1>7 DEF Init, TypeOK

\* The ranges do not change.
LEMMA RangesConstant ==
  ASSUME [Next]_vars
  PROVE  /\ kernel' = kernel /\ parts' = parts
         /\ Items' = Items /\ PartIndices' = PartIndices
         /\ \A p : First(p)' = First(p) /\ End(p)' = End(p)
<1>1. kernel' = kernel /\ parts' = parts
  BY DEF Next, vars, BeginItem, SeeInvalid, FinishItem, RejectItem, Done
<1> QED BY <1>1 DEF Items, PartIndices, First, End

LEMMA NextType == ASSUME KernelAssumption, TypeOK, [Next]_vars PROVE TypeOK'
<1>1. /\ kernel' = kernel /\ parts' = parts
      /\ Items' = Items /\ PartIndices' = PartIndices
      /\ \A p : First(p)' = First(p) /\ End(p)' = End(p)
  BY RangesConstant
<1>2. \A p \in PartIndices :
        /\ First(p) \in Nat /\ End(p) \in Nat /\ pos[p] \in Nat
        /\ First(p) <= pos[p] /\ pos[p] <= End(p)
  BY PartRanges DEF TypeOK
\* What is left to show, with the ranges unchanged.
<1> DEFINE Positions ==
      /\ pos' \in [PartIndices -> Nat] /\ busy' \in [PartIndices -> BOOLEAN]
      /\ \A p \in PartIndices : First(p) <= pos'[p] /\ pos'[p] <= End(p)
                                /\ (busy'[p] => pos'[p] < End(p))
           Contents ==
      /\ mem' \in [kernel.cells -> Items \cup {Untouched}]
      /\ DOMAIN view' = Items /\ invalid' \in BOOLEAN
<1>3. ASSUME Positions, Contents PROVE TypeOK'
  BY <1>1, <1>3 DEF TypeOK
<1>4. ASSUME NEW p \in PartIndices, BeginItem(p) PROVE Positions /\ Contents
  BY <1>2, <1>4 DEF TypeOK, BeginItem
<1>5. ASSUME NEW p \in PartIndices, SeeInvalid(p) PROVE Positions /\ Contents
  BY <1>2, <1>5 DEF TypeOK, SeeInvalid
<1>6. ASSUME NEW p \in PartIndices, FinishItem(p) PROVE Positions /\ Contents
  <2>1. pos[p] \in Items
    BY <1>6, PassedGrows DEF TypeOK, FinishItem
  <2>2. Contents
    BY <1>6, <2>1 DEF TypeOK, FinishItem
  <2>3. Positions
    BY <1>2, <1>6 DEF TypeOK, FinishItem
  <2> QED BY <2>2, <2>3
<1>7. ASSUME NEW p \in PartIndices, RejectItem(p) PROVE Positions /\ Contents
  <2>1. pos[p] \in Items
    BY <1>7, PassedGrows DEF TypeOK, RejectItem
  <2>2. Contents
    BY <1>7, <2>1 DEF TypeOK, RejectItem
  <2>3. pos' = [pos EXCEPT ![p] = End(p)] \/ pos' = [pos EXCEPT ![p] = pos[p] + 1]
    BY <1>7 DEF RejectItem
  <2>4. Positions
    BY <1>2, <1>7, <2>3 DEF TypeOK, RejectItem
  <2> QED BY <2>2, <2>4
<1>8. CASE UNCHANGED vars
  <2>1. Positions /\ Contents
    BY <1>8 DEF TypeOK, vars
  <2> QED BY <1>3, <2>1
<1> QED BY <1>3, <1>4, <1>5, <1>6, <1>7, <1>8 DEF Next, Done

LEMMA InitStatus == ASSUME KernelAssumption, Init PROVE IStatus
<1>1. TypeOK
  BY InitType
<1>2. Passed = {}
  BY <1>1, PartRanges DEF Init, Passed, Items, ItemsOfKernel
<1> QED BY <1>2 DEF Init, IStatus

\* How the passed items change when part p finishes the item it is at.
LEMMA FinishPasses ==
  ASSUME KernelAssumption, TypeOK, NEW p \in PartIndices, FinishItem(p)
  PROVE  /\ pos[p] \in Items /\ pos[p] \notin Passed
         /\ Passed' = Passed \cup {pos[p]}
         /\ kernel.route = "serial" => Passed = 0 .. (pos[p] - 1)
<1>1. pos[p] < End(p) /\ pos' = [pos EXCEPT ![p] = @ + 1]
      /\ kernel' = kernel /\ parts' = parts
  BY DEF TypeOK, FinishItem
<1>2. Passed \subseteq Items /\ Items' = Items
  BY <1>1 DEF Passed, Items, ItemsOfKernel
<1>3. Passed' = {i \in Items : \E q \in PartIndices : First(q) <= i /\ i < pos'[q]}
  BY <1>1 DEF Passed, Items, PartIndices, First, ItemsOfKernel
<1> QED BY <1>1, <1>2, <1>3, PassedGrows

LEMMA NextStatus ==
  ASSUME KernelAssumption, TypeOK, IStatus, [Next]_vars PROVE IStatus'
<1>1. ASSUME NEW p \in PartIndices, BeginItem(p) PROVE IStatus'
  BY <1>1 DEF IStatus, BeginItem, Passed, Items, PartIndices, First
<1>2. ASSUME NEW p \in PartIndices, SeeInvalid(p) PROVE IStatus'
  BY <1>2 DEF IStatus, SeeInvalid
<1>3. ASSUME NEW p \in PartIndices, FinishItem(p) PROVE IStatus'
  <2>1. Passed' = Passed \cup {pos[p]}
    BY <1>3, FinishPasses
  <2> QED BY <1>3, <2>1 DEF IStatus, FinishItem
<1>4. ASSUME NEW p \in PartIndices, RejectItem(p) PROVE IStatus'
  BY <1>4 DEF IStatus, RejectItem
<1>5. CASE UNCHANGED vars
  BY <1>5 DEF IStatus, vars, Passed, Items, PartIndices, First
<1> QED BY <1>1, <1>2, <1>3, <1>4, <1>5 DEF Next, Done

\* The parts of a kernel's region stay inside their ranges, whatever the kernel.
THEOREM RegionTypeOK == ASSUME KernelAssumption PROVE Spec => [](TypeOK /\ IStatus)
<1>1. Init => TypeOK /\ IStatus
  BY InitType, InitStatus
<1>2. TypeOK /\ IStatus /\ [Next]_vars => (TypeOK /\ IStatus)'
  BY NextType, NextStatus
<1> QED BY <1>1, <1>2, PTL DEF Spec

\* When every part has ended, the passed items are all items.
LEMMA FinishedPasses ==
  ASSUME KernelAssumption, TypeOK, Finished PROVE Passed = Items
<1>1. \A i \in Items : \E p \in PartIndices : First(p) <= i /\ i < pos[p]
  BY PartRanges DEF Finished
<1> QED BY <1>1 DEF Passed

\* Whichever part meets a bad item first, and whatever the others skip, the
\* kernel reports kInvalidArgument exactly when it was given a bad item.
THEOREM RegionStatusDeterministic ==
  ASSUME KernelAssumption PROVE Spec => []StatusDeterministic
<1>1. TypeOK /\ IStatus => StatusDeterministic
  <2> SUFFICES ASSUME TypeOK, IStatus, Finished PROVE invalid <=> kernel.bad # {}
    BY DEF StatusDeterministic
  <2>1. Passed = Items
    BY FinishedPasses
  <2>2. kernel.bad \subseteq Items
    BY PartRanges DEF IsKernel, Items
  <2> QED BY <2>1, <2>2 DEF IStatus, TypeOK
<1> QED BY <1>1, RegionTypeOK, PTL

-----------------------------------------------------------------------------
(* The result is the serial one, if the parallel routes are race free.     *)

RaceFreeKernels == \A k \in Kernels : k.route = "parallel" => RaceFree(k)

\* What that says of the kernel that runs.
RaceFreeHere == kernel.route = "parallel" => RaceFree(kernel)

\* With no passed item yet there is nothing to say.
LEMMA InitMemory == ASSUME KernelAssumption, Init PROVE IMem /\ IView
<1>1. Passed = {}
  <2>1. TypeOK
    BY InitType
  <2> QED BY <2>1, PartRanges DEF Init, Passed, Items, ItemsOfKernel
<1>2. IMem
  BY <1>1 DEF Init, IMem, LastWriter
<1>3. \A p \in PartIndices : \A i \in Items :
        ~(First(p) <= i /\ (i < pos[p] \/ (i = pos[p] /\ busy[p])))
  <2>1. \A p \in PartIndices : pos[p] = First(p) /\ ~busy[p] /\ First(p) \in Nat
    BY InitType, PartRanges DEF Init
  <2>2. \A i \in Items : i \in Nat
    BY DEF Items, ItemsOfKernel
  <2> QED BY <2>1, <2>2
<1> QED BY <1>2, <1>3 DEF IView

\* Adding to S an item that does not write c changes nothing for c.
LEMMA LastWriterKept ==
  ASSUME NEW c, NEW S, NEW i, NEW v, c \notin kernel.writes[i], LastWriter(c, S, v)
  PROVE  LastWriter(c, S \cup {i}, v)
BY DEF LastWriter

\* An item that writes c after all of S becomes its last writer.
LEMMA LastWriterNew ==
  ASSUME NEW c, NEW S, NEW i, c \in kernel.writes[i], i <= i,
         \A j \in S : c \in kernel.writes[j] => j <= i
  PROVE  LastWriter(c, S \cup {i}, i)
BY DEF LastWriter

\* What was passed before item i, and what conflicts with it.
LEMMA BeforeItem ==
  ASSUME KernelAssumption, RaceFreeHere, TypeOK,
         NEW p \in PartIndices, pos[p] < End(p), NEW c
  PROVE  /\ c \in kernel.writes[pos[p]] =>
              \A j \in Passed : c \in kernel.writes[j] => j <= pos[p]
         /\ c \in kernel.reads[pos[p]] => \A v :
              LastWriter(c, Passed, v) => LastWriter(c, 0 .. (pos[p] - 1), v)
<1> DEFINE i == pos[p]
<1>1. i \in Items /\ i \notin Passed /\ i \in Nat /\ Passed \subseteq Items
  BY PassedGrows, PartRanges DEF Passed
<1>2. CASE kernel.route = "serial"
  <2>1. Passed = 0 .. (i - 1)
    BY <1>2, PassedGrows
  <2> QED BY <1>1, <2>1
<1>3. CASE kernel.route # "serial"
  <2> DEFINE Same(j) == j \div kernel.grain = i \div kernel.grain
  <2>1. \A j \in Items : ~Same(j) =>
          /\ kernel.writes[j] \cap kernel.writes[i] = {}
          /\ kernel.writes[j] \cap kernel.reads[i] = {}
    <3>1. kernel.route = "parallel"
      BY <1>3, PartRanges DEF IsKernel
    <3> QED BY <1>1, <3>1 DEF RaceFreeHere, RaceFree, Items
  <2>2. 0 .. (i - 1) \subseteq Items
    BY <1>1, PartRanges DEF Items, ItemsOfKernel
  \* Of the items of its own index, part p has passed those before i.
  <2>3. \A j \in Items : Same(j) => (j \in Passed <=> j \in 0 .. (i - 1))
    <3> SUFFICES ASSUME NEW j \in Items, Same(j) PROVE j \in Passed <=> j \in 0 .. (i - 1)
      OBVIOUS
    <3>1. /\ j \in Nat /\ First(p) \in Nat /\ End(p) \in Nat
          /\ First(p) <= i /\ i < End(p)
      BY <1>1, PartRanges DEF TypeOK, Items, ItemsOfKernel
    <3>2. First(p) <= j /\ j < End(p)
      BY <1>1, <3>1, IndexInOnePart
    <3>3. ASSUME NEW q \in PartIndices, First(q) <= j, j < pos[q] PROVE j < i
      <4>1. p \in Int /\ q \in Int
        BY PartRanges DEF PartIndices
      <4>2. /\ First(q) \in Nat /\ End(q) \in Nat /\ pos[q] \in Nat /\ pos[q] <= End(q)
            /\ p < q => End(p) <= First(q)
            /\ q < p => End(q) <= First(p)
        BY PartRanges DEF TypeOK
      <4>3. q = p
        BY <3>1, <3>2, <3>3, <4>1, <4>2
      <4> QED BY <3>3, <4>3
    <3>4. j \in Passed => j < i
      BY <3>3 DEF Passed
    <3>5. j < i => j \in Passed
      BY <3>2 DEF Passed
    <3> QED BY <1>1, <3>1, <3>4, <3>5
  <2>4. c \in kernel.writes[i] =>
          \A j \in Passed : c \in kernel.writes[j] => j <= i
    <3> SUFFICES ASSUME c \in kernel.writes[i], NEW j \in Passed, c \in kernel.writes[j]
                 PROVE  j <= i
      OBVIOUS
    <3>1. j \in Items /\ Same(j)
      BY <1>1, <2>1
    <3>2. j \in 0 .. (i - 1)
      BY <2>3, <3>1
    <3> QED BY <1>1, <3>2
  <2>5. c \in kernel.reads[i] => \A v :
          LastWriter(c, Passed, v) => LastWriter(c, 0 .. (i - 1), v)
    <3> SUFFICES ASSUME c \in kernel.reads[i]
                 PROVE  \A v : LastWriter(c, Passed, v) => LastWriter(c, 0 .. (i - 1), v)
      OBVIOUS
    <3>1. \A j \in Items : c \in kernel.writes[j] => Same(j)
      BY <2>1
    <3>2. \A j : j \in Passed /\ c \in kernel.writes[j]
                   <=> j \in 0 .. (i - 1) /\ c \in kernel.writes[j]
      BY <1>1, <2>2, <2>3, <3>1
    <3> QED BY <3>2 DEF LastWriter
  <2> QED BY <2>4, <2>5
<1> QED BY <1>2, <1>3

\* Every step keeps the last writers right ...
LEMMA NextMem ==
  ASSUME KernelAssumption, RaceFreeHere, TypeOK, IMem, [Next]_vars
  PROVE  IMem'
<1>1. kernel' = kernel /\ Items' = Items /\ PartIndices' = PartIndices
      /\ \A p : First(p)' = First(p)
  BY RangesConstant
<1>3. ASSUME NEW p \in PartIndices, BeginItem(p) PROVE IMem'
  <2>1. Passed' = Passed
    BY <1>1, <1>3 DEF Passed, BeginItem
  <2> QED BY <1>1, <1>3, <2>1 DEF IMem, BeginItem, LastWriter
<1>4. ASSUME NEW p \in PartIndices, SeeInvalid(p) PROVE IMem'
  BY <1>4 DEF IMem, SeeInvalid
<1>5. ASSUME NEW p \in PartIndices, FinishItem(p) PROVE IMem'
  <2> SUFFICES ASSUME ~invalid, NEW c \in kernel.cells
               PROVE  LastWriter(c, Passed \cup {pos[p]}, mem'[c])
    <3>1. Passed' = Passed \cup {pos[p]} /\ invalid' = invalid
      BY <1>5, FinishPasses DEF FinishItem
    <3> QED BY <1>1, <3>1 DEF IMem, LastWriter
  <2>1. LastWriter(c, Passed, mem[c])
    BY DEF IMem
  <2>2. pos[p] < End(p) /\ pos[p] <= pos[p]
    BY <1>5, PartRanges DEF TypeOK, FinishItem
  <2>3. CASE c \in kernel.writes[pos[p]]
    <3>1. mem'[c] = pos[p]
      BY <1>5, <2>3 DEF FinishItem
    <3> QED BY <2>2, <2>3, <3>1, BeforeItem, LastWriterNew
  <2>4. CASE c \notin kernel.writes[pos[p]]
    <3>1. mem'[c] = mem[c]
      BY <1>5, <2>4 DEF FinishItem
    <3> QED BY <2>1, <2>4, <3>1, LastWriterKept
  <2> QED BY <2>3, <2>4
<1>6. ASSUME NEW p \in PartIndices, RejectItem(p) PROVE IMem'
  BY <1>6 DEF IMem, RejectItem
<1>7. CASE UNCHANGED vars
  <2>1. Passed' = Passed
    BY <1>1, <1>7 DEF Passed, vars
  <2> QED BY <1>1, <1>7, <2>1 DEF IMem, vars, LastWriter
<1> QED BY <1>3, <1>4, <1>5, <1>6, <1>7 DEF Next, Done

\* ... and what every begun item read.
LEMMA NextView ==
  ASSUME KernelAssumption, RaceFreeHere, TypeOK, IMem, IView, [Next]_vars
  PROVE  IView'
<1>1. kernel' = kernel /\ Items' = Items /\ PartIndices' = PartIndices
      /\ \A p : First(p)' = First(p)
  BY RangesConstant
<1> DEFINE Begun(p, i) == First(p) <= i /\ (i < pos[p] \/ (i = pos[p] /\ busy[p]))
           BegunNext(p, i) ==
             First(p) <= i /\ (i < pos'[p] \/ (i = pos'[p] /\ busy'[p]))
           Right(i) == \A c \in kernel.reads[i] : LastWriter(c, 0 .. (i - 1), view[i][c])
\* It is enough that an item is begun after the step only if it was before, or if
\* it starts in this step and reads the right values.
<1>2. ASSUME ~invalid, view' = view,
             \A p \in PartIndices, i \in Items : BegunNext(p, i) => Begun(p, i)
      PROVE  IView'
  BY <1>1, <1>2 DEF IView, LastWriter
<1>3. \A p \in PartIndices : pos[p] \in Nat /\ First(p) \in Nat /\ pos[p] <= End(p)
  BY PartRanges DEF TypeOK
<1>4. \A i \in Items : i \in Nat
  BY DEF Items, ItemsOfKernel
<1>5. ASSUME NEW p \in PartIndices, BeginItem(p) PROVE IView'
  <2> SUFFICES ASSUME ~invalid, NEW q \in PartIndices, NEW i \in Items, BegunNext(q, i),
                      NEW c \in kernel.reads[i]
               PROVE  LastWriter(c, 0 .. (i - 1), view'[i][c])
    <3>1. kernel' = kernel /\ invalid' = invalid
      BY <1>1, <1>5 DEF BeginItem
    <3> QED BY <1>1, <3>1 DEF IView, LastWriter
  <2>1. /\ pos' = pos /\ ~busy[p] /\ pos[p] < End(p)
        /\ busy' = [busy EXCEPT ![p] = TRUE]
        /\ view' = [view EXCEPT ![pos[p]] = [d \in kernel.reads[pos[p]] |-> mem[d]]]
    BY <1>5 DEF BeginItem
  <2>2. pos[p] \in Items /\ DOMAIN view = Items
    BY <2>1, PassedGrows DEF TypeOK
  <2>3. CASE i = pos[p]
    <3>1. view'[i][c] = mem[c]
      BY <2>1, <2>2, <2>3
    <3>2. c \in kernel.cells
      BY <2>3, PartRanges DEF IsKernel, Items
    <3>3. LastWriter(c, Passed, mem[c])
      BY <3>2 DEF IMem
    <3> QED BY <2>1, <2>3, <3>1, <3>3, BeforeItem
  <2>4. CASE i # pos[p]
    <3>1. view'[i] = view[i]
      BY <2>1, <2>2, <2>4
    <3>2. Begun(q, i)
      BY <2>1, <2>4 DEF TypeOK
    <3> QED BY <3>1, <3>2 DEF IView
  <2> QED BY <2>3, <2>4
<1>6. ASSUME NEW p \in PartIndices, SeeInvalid(p) PROVE IView'
  BY <1>6 DEF IView, SeeInvalid
<1>7. ASSUME NEW p \in PartIndices, FinishItem(p) PROVE IView'
  <2> SUFFICES ASSUME ~invalid PROVE IView'
    BY <1>7 DEF IView, FinishItem
  <2>1. /\ pos' = [pos EXCEPT ![p] = pos[p] + 1] /\ busy[p]
        /\ busy' = [busy EXCEPT ![p] = FALSE] /\ view' = view
    BY <1>7 DEF FinishItem
  <2>2. ASSUME NEW q \in PartIndices, NEW i \in Items, BegunNext(q, i)
        PROVE  Begun(q, i)
    <3>1. CASE q = p
      <4>1. pos'[p] = pos[p] + 1 /\ ~busy'[p]
        BY <2>1 DEF TypeOK
      <4> QED BY <1>3, <1>4, <2>1, <2>2, <3>1, <4>1
    <3>2. CASE q # p
      BY <2>1, <2>2, <3>2 DEF TypeOK
    <3> QED BY <3>1, <3>2
  <2> QED BY <1>2, <2>1, <2>2
<1>8. ASSUME NEW p \in PartIndices, RejectItem(p) PROVE IView'
  BY <1>8 DEF IView, RejectItem
<1>9. CASE UNCHANGED vars
  <2>1. view' = view /\ pos' = pos /\ busy' = busy /\ invalid' = invalid
    BY <1>9 DEF vars
  <2> QED BY <1>1, <2>1 DEF IView, LastWriter
<1> QED BY <1>5, <1>6, <1>7, <1>8, <1>9 DEF Next, Done

\* The inductive invariant of the region.
THEOREM RegionInvariant ==
  ASSUME KernelAssumption, RaceFreeKernels PROVE Spec => []IInv
<1>1. Init => IInv /\ RaceFreeHere
  BY InitType, InitStatus, InitMemory DEF IInv, Init, RaceFreeHere, RaceFreeKernels
<1>2. IInv /\ RaceFreeHere /\ [Next]_vars => (IInv /\ RaceFreeHere)'
  <2> SUFFICES ASSUME IInv, RaceFreeHere, [Next]_vars PROVE (IInv /\ RaceFreeHere)'
    OBVIOUS
  <2>1. IInv'
    BY NextType, NextStatus, NextMem, NextView DEF IInv
  <2>2. RaceFreeHere'
    BY RangesConstant DEF RaceFreeHere
  <2> QED BY <2>1, <2>2
<1> QED BY <1>1, <1>2, PTL DEF Spec

\* A race-free kernel that is given valid input computes, on any number of
\* threads and in any interleaving, what one thread computes that executes its
\* items in order.
THEOREM RegionSerialResult ==
  ASSUME KernelAssumption, RaceFreeKernels PROVE Spec => []SerialResult
<1>1. IInv => SerialResult
  <2> SUFFICES ASSUME IInv, Finished, ~invalid
               PROVE  /\ \A c \in kernel.cells : LastWriter(c, Items, mem[c])
                      /\ \A i \in Items : \A c \in kernel.reads[i] :
                           LastWriter(c, 0 .. (i - 1), view[i][c])
    BY DEF SerialResult
  <2>1. \A c \in kernel.cells : LastWriter(c, Items, mem[c])
    BY FinishedPasses DEF IInv, IMem
  <2>2. \A i \in Items : \E p \in PartIndices : First(p) <= i /\ i < pos[p]
    BY FinishedPasses DEF IInv, Passed
  <2> QED BY <2>1, <2>2 DEF IInv, IView
<1> QED BY <1>1, RegionInvariant, PTL

InPlaceKernels == \A k \in Kernels : ReadsInputFirst(k)

\* A race-free kernel that reads its input before it overwrites it may be called in
\* place on any number of threads: every item sees the input as the caller left it.
THEOREM RegionInputsIntact ==
  ASSUME KernelAssumption, RaceFreeKernels, InPlaceKernels
  PROVE  Spec => []InputsIntact
<1> DEFINE InKernels == kernel \in Kernels
<1>1. Spec => []InKernels
  <2>1. Init => InKernels
    BY DEF Init
  <2>2. InKernels /\ [Next]_vars => InKernels'
    BY RangesConstant
  <2> QED BY <2>1, <2>2, PTL DEF Spec
<1>2. IInv /\ SerialResult /\ InKernels => InputsIntact
  <2> SUFFICES ASSUME IInv, SerialResult, InKernels, Finished, ~invalid,
                      NEW i \in Items, NEW c \in kernel.input[i]
               PROVE  view[i][c] = Untouched
    BY DEF InputsIntact
  <2>0. c \in kernel.reads[i]
    BY PartRanges DEF IInv, IsKernel, Items
  <2>1. LastWriter(c, 0 .. (i - 1), view[i][c])
    BY <2>0 DEF SerialResult
  <2>2. \A j \in 0 .. (i - 1) : j \in Items /\ j < i
    BY PartRanges DEF IInv, Items, ItemsOfKernel
  <2>3. \A j \in 0 .. (i - 1) : c \notin kernel.writes[j]
    BY <2>2 DEF InPlaceKernels, ReadsInputFirst, Items
  <2> QED BY <2>1, <2>3 DEF LastWriter
<1> QED BY <1>1, <1>2, RegionInvariant, RegionSerialResult, PTL

ExactKernels == \A k \in Kernels : FillsOutput(k)

\* A race-free kernel whose items together write its output returns kOk only with every
\* cell of it produced and no other cell touched.
THEOREM RegionOutputExact ==
  ASSUME KernelAssumption, RaceFreeKernels, ExactKernels
  PROVE  Spec => []OutputExact
<1>1. IInv /\ FillsOutput(kernel) => OutputExact
  <2> SUFFICES ASSUME IInv, FillsOutput(kernel), Finished, ~invalid, NEW c \in kernel.cells
               PROVE  mem[c] # Untouched <=> c \in kernel.out
    BY DEF OutputExact
  <2>1. LastWriter(c, Items, mem[c])
    BY FinishedPasses DEF IInv, IMem
  <2>2. c \in kernel.out <=> \E i \in Items : c \in kernel.writes[i]
    BY DEF FillsOutput, Items
  <2>3. Untouched \notin Items
    BY DEF Untouched, Items, ItemsOfKernel
  <2> QED BY <2>1, <2>2, <2>3 DEF LastWriter
<1>2. Spec => []FillsOutput(kernel)
  <2>1. Init => FillsOutput(kernel)
    BY DEF Init, ExactKernels
  <2>2. FillsOutput(kernel) /\ [Next]_vars => FillsOutput(kernel)'
    BY RangesConstant
  <2> QED BY <2>1, <2>2, PTL DEF Spec
<1> QED BY <1>1, <1>2, RegionInvariant, PTL
-----------------------------------------------------------------------------
(* The families of kernels.                                                *)

\* Rows of equal width do not overlap.
LEMMA RowsDisjoint ==
  ASSUME NEW i \in Nat, NEW j \in Nat, i # j, NEW w \in Nat,
         NEW x \in i * w .. (i * w + w - 1), x \in j * w .. (j * w + w - 1)
  PROVE  FALSE
<1>1. ASSUME NEW m \in Nat, NEW n \in Nat, m < n PROVE m * w + w <= n * w
  <2>1. (m + 1) * w <= n * w
    BY <1>1, ProductMonotone
  <2>2. (m + 1) * w = m * w + w
    OBVIOUS
  <2> QED BY <2>1, <2>2
<1>2. i * w \in Int /\ j * w \in Int
  OBVIOUS
<1>3. CASE i < j
  BY <1>1, <1>2, <1>3
<1>4. CASE j < i
  BY <1>1, <1>2, <1>4
<1> QED BY <1>3, <1>4

\* The parallel region of items that fill their own rows, whatever the arrays and
\* their widths: the kernels of ServingRegions and the gathers of CacheRegions.
THEOREM RowRegionRaceFree ==
  ASSUME NEW count \in Nat, NEW A, NEW planes \in [A -> Nat]
  PROVE  RaceFree(RowRegion(count, planes))
<1> DEFINE k == RowRegion(count, planes)
           Row(a, i) == Span(a, i * planes[a], planes[a])
<1>1. ItemsOfKernel(k) = 0 .. (count - 1)
  BY DEF ItemsOfKernel, RowRegion, Region
<1>2. \A i \in 0 .. (count - 1) :
        k.writes[i] = UNION {Row(a, i) : a \in A} /\ k.reads[i] = {}
  BY DEF RowRegion, Region
<1> SUFFICES ASSUME NEW i \in 0 .. (count - 1), NEW j \in 0 .. (count - 1), i # j,
                    NEW c, c \in k.writes[i], c \in k.writes[j]
             PROVE  FALSE
  BY <1>1, <1>2 DEF RaceFree
<1>3. PICK a \in A : c \in Row(a, i)
  BY <1>2
<1>4. PICK b \in A : c \in Row(b, j)
  BY <1>2
<1>5. PICK x \in i * planes[a] .. (i * planes[a] + planes[a] - 1) : c = <<a, x>>
  BY <1>3 DEF Span
<1>6. PICK y \in j * planes[b] .. (j * planes[b] + planes[b] - 1) : c = <<b, y>>
  BY <1>4 DEF Span
<1>7. a = b /\ x = y /\ planes[a] \in Nat
  BY <1>5, <1>6
<1> QED BY <1>5, <1>6, <1>7, RowsDisjoint

\* Tiles of a matrix do not overlap, whatever its size and that of the tiles: the tasks
\* of dense_gemm and the two-dimensional nvfp4 groups of norm_quant_ref.
THEOREM TileRegionRaceFree ==
  ASSUME NEW rows \in Nat, NEW tileRows \in Nat \ {0}, NEW columnTiles \in Nat \ {0},
         NEW A, NEW planes,
         \A a \in A : planes[a].columns \in Nat \ {0} /\ planes[a].width \in Nat \ {0},
         DOMAIN planes = A
  PROVE  RaceFree(TileRegion(rows, tileRows, columnTiles, planes))
<1> DEFINE k == TileRegion(rows, tileRows, columnTiles, planes)
           rowTiles == (rows + tileRows - 1) \div tileRows
           Line(a, task, row) ==
             Span(a, ((task \div columnTiles) * tileRows + row) * planes[a].columns
                       + (task % columnTiles) * planes[a].width,
                     Least(planes[a].width,
                           planes[a].columns - (task % columnTiles) * planes[a].width))
           Lines(task) ==
             0 .. (Least(tileRows, rows - (task \div columnTiles) * tileRows) - 1)
           Tile(a, task) == UNION {Line(a, task, row) : row \in Lines(task)}
<1>0. rowTiles \in Nat
  <2> DEFINE n == rows + tileRows - 1
  <2>1. n \in Nat
    OBVIOUS
  <2> HIDE DEF n
  <2>2. n \div tileRows \in Nat
    BY <2>1, DivMod
  <2> QED BY <2>2 DEF n
<1>1. ItemsOfKernel(k) = 0 .. (rowTiles * columnTiles - 1)
  BY DEF ItemsOfKernel, TileRegion, Region
<1>2. \A i \in 0 .. (rowTiles * columnTiles - 1) :
        k.writes[i] = UNION {Tile(a, i) : a \in A} /\ k.reads[i] = {}
  BY DEF TileRegion, Region
<1> SUFFICES ASSUME NEW i \in 0 .. (rowTiles * columnTiles - 1),
                    NEW j \in 0 .. (rowTiles * columnTiles - 1), i # j,
                    NEW c, c \in k.writes[i], c \in k.writes[j]
             PROVE  FALSE
  BY <1>1, <1>2 DEF RaceFree
<1> HIDE DEF k, rowTiles
<1>3. ASSUME NEW task \in 0 .. (rowTiles * columnTiles - 1), c \in k.writes[task]
      PROVE  /\ task \div columnTiles \in Nat
             /\ task % columnTiles \in 0 .. (columnTiles - 1)
             /\ task = columnTiles * (task \div columnTiles) + (task % columnTiles)
             /\ \E a \in A : \E line \in 0 .. (tileRows - 1) :
                  \E column \in 0 .. (planes[a].columns - 1) :
                    /\ c = <<a, ((task \div columnTiles) * tileRows + line)
                                  * planes[a].columns + column>>
                    /\ column \in (task % columnTiles) * planes[a].width ..
                         ((task % columnTiles) * planes[a].width + planes[a].width - 1)
  <2> DEFINE q == task \div columnTiles  r == task % columnTiles
  <2>0. task \in Nat
    <3>1. rowTiles * columnTiles \in Nat
      BY <1>0
    <3> QED BY <3>1
  <2>1. /\ q \in Nat /\ r \in 0 .. (columnTiles - 1) /\ task = columnTiles * q + r
    BY <2>0, DivMod
  <2>2. PICK a \in A : c \in Tile(a, task)
    BY <1>2, <1>3
  <2>3. PICK line \in Lines(task) : c \in Line(a, task, line)
    BY <2>2
  <2>4. line \in 0 .. (tileRows - 1)
    <3> DEFINE base == (task \div columnTiles) * tileRows
    <3>1. base \in Nat
      BY <2>1
    <3>2. line \in 0 .. (Least(tileRows, rows - base) - 1)
      BY <2>3
    <3> HIDE DEF base
    <3> QED BY <3>1, <3>2 DEF Least
  <2> DEFINE row == q * tileRows + line
  <2>5. row \in Nat
    BY <2>1, <2>4
  <2>6. c \in Span(a, row * planes[a].columns + r * planes[a].width,
                   Least(planes[a].width, planes[a].columns - r * planes[a].width))
    BY <2>3
  <2>7. planes[a].columns \in Nat \ {0} /\ planes[a].width \in Nat \ {0} /\ r \in Nat
    BY <2>1
  <2> DEFINE columns == planes[a].columns  width == planes[a].width
  <2> HIDE DEF row, r, columns, width
  <2>8. PICK x \in (row * columns + r * width) ..
                   (row * columns + r * width + Least(width, columns - r * width) - 1) :
          c = <<a, x>>
    BY <2>6 DEF Span, columns, width
  <2>9. \E column \in 0 .. (columns - 1) :
          /\ x = row * columns + column
          /\ column \in r * width .. (r * width + width - 1)
    <3>1. columns \in Nat \ {0} /\ width \in Nat \ {0}
      BY <2>7 DEF columns, width
    <3>2. x \in (row * columns + r * width) ..
                  (row * columns + r * width + Least(width, columns - r * width) - 1)
      BY <2>8
    <3>3. row \in Nat /\ r \in Nat
      BY <2>5, <2>7
    <3> DEFINE base == r * width  start == row * columns
               least == Least(width, columns - base)
               column == x - start
    <3>4. base \in Nat /\ start \in Nat
      BY <3>1, <3>3
    <3>5. x \in (start + base) .. (start + base + least - 1)
      BY <3>2
    <3>6. x = start + column
      BY <3>4, <3>5
    <3> HIDE DEF base, start
    <3>7. column \in 0 .. (columns - 1) /\ column \in base .. (base + width - 1)
      BY <3>1, <3>4, <3>5 DEF Least
    <3> QED BY <3>6, <3>7 DEF base, start
  <2> QED BY <2>1, <2>4, <2>8, <2>9 DEF row, r, columns, width
<1> DEFINE qi == i \div columnTiles  ri == i % columnTiles
           qj == j \div columnTiles  rj == j % columnTiles
<1>a. PICK a \in A : \E line \in 0 .. (tileRows - 1), u \in 0 .. (planes[a].columns - 1) :
        /\ c = <<a, (qi * tileRows + line) * planes[a].columns + u>>
        /\ u \in ri * planes[a].width .. (ri * planes[a].width + planes[a].width - 1)
  BY <1>3
<1>4. PICK line \in 0 .. (tileRows - 1), u \in 0 .. (planes[a].columns - 1) :
        /\ c = <<a, (qi * tileRows + line) * planes[a].columns + u>>
        /\ u \in ri * planes[a].width .. (ri * planes[a].width + planes[a].width - 1)
  BY <1>a
<1>b. PICK b \in A : \E other \in 0 .. (tileRows - 1), v \in 0 .. (planes[b].columns - 1) :
        /\ c = <<b, (qj * tileRows + other) * planes[b].columns + v>>
        /\ v \in rj * planes[b].width .. (rj * planes[b].width + planes[b].width - 1)
  BY <1>3
<1>5. PICK other \in 0 .. (tileRows - 1), v \in 0 .. (planes[b].columns - 1) :
        /\ c = <<b, (qj * tileRows + other) * planes[b].columns + v>>
        /\ v \in rj * planes[b].width .. (rj * planes[b].width + planes[b].width - 1)
  BY <1>b
<1>6. /\ qi \in Nat /\ ri \in Nat /\ i = columnTiles * qi + ri
      /\ qj \in Nat /\ rj \in Nat /\ j = columnTiles * qj + rj
  BY <1>3
<1> HIDE DEF qi, ri, qj, rj
<1>7. /\ a = b
      /\ (qi * tileRows + line) * planes[a].columns + u
           = (qj * tileRows + other) * planes[a].columns + v
  BY <1>4, <1>5
<1>8. qi * tileRows + line = qj * tileRows + other /\ u = v
  <2> DEFINE m == qi * tileRows + line  n == qj * tileRows + other
             columns == planes[a].columns
  <2>1. m \in Nat /\ n \in Nat
    BY <1>6
  <2>2. columns \in Nat \ {0} /\ u \in 0 .. (columns - 1) /\ v \in 0 .. (columns - 1)
    BY <1>7
  <2>3. m * columns + u = n * columns + v
    BY <1>7
  <2> HIDE DEF m, n, columns
  <2>4. m = n /\ u = v
    BY <2>1, <2>2, <2>3, TileIndexDiffers
  <2> QED BY <2>4 DEF m, n
<1>9. qi = qj
  BY <1>6, <1>8, TileIndexDiffers
<1>10. ri = rj
  BY <1>4, <1>5, <1>6, <1>7, <1>8, RowsDisjoint
<1> QED BY <1>6, <1>9, <1>10

\* A scatter whose slots are increasing, whatever the padding between them, is
\* race free: what the OrderedUnique scan is there to establish.
THEOREM ScatterRaceFree ==
  ASSUME NEW count \in Nat, NEW heads \in Nat \ {0},
         NEW slots \in [0 .. (count - 1) -> Int],
         NEW A, NEW planes \in [A -> Nat], NEW nonfinite,
         OrderedUnique(slots, count)
  PROVE  RaceFree(ScatterTasks(slots, count, heads, planes, nonfinite))
<1> DEFINE k == ScatterTasks(slots, count, heads, planes, nonfinite)
           N == count * heads
           row(task) == slots[task \div heads] * heads + (task % heads)
<1>1. ItemsOfKernel(k) = 0 .. (N - 1)
  BY DEF ItemsOfKernel, ScatterTasks, Checked, Region
<1>2. \A i \in 0 .. (N - 1) : k.reads[i] = {}
  BY DEF ScatterTasks, Checked, Region
<1>3. \A i \in 0 .. (N - 1) :
        k.writes[i] = IF slots[i \div heads] < 0 THEN {}
                      ELSE UNION {Span(a, row(i) * planes[a], planes[a]) : a \in A}
  BY DEF ScatterTasks, Checked, Region, TokenOf, HeadOf
<1> SUFFICES ASSUME NEW i \in 0 .. (N - 1), NEW j \in 0 .. (N - 1), i # j,
                    NEW c, c \in k.writes[i], c \in k.writes[j]
             PROVE  FALSE
  BY <1>1, <1>2 DEF RaceFree
<1>4. /\ slots[i \div heads] >= 0 /\ ~(slots[i \div heads] < 0)
      /\ slots[j \div heads] >= 0 /\ ~(slots[j \div heads] < 0)
  <2>1. i \div heads \in 0 .. (count - 1) /\ j \div heads \in 0 .. (count - 1)
    BY TaskParts
  <2>2. slots[i \div heads] \in Int /\ slots[j \div heads] \in Int
    BY <2>1
  <2>3. ~(slots[i \div heads] < 0) /\ ~(slots[j \div heads] < 0)
    BY <1>3
  <2> QED BY <2>2, <2>3
<1>5. row(i) \in Nat /\ row(j) \in Nat /\ row(i) # row(j)
  <2> DEFINE s == i \div heads  t == j \div heads  g == i % heads  h == j % heads
  <2>1. /\ s \in 0 .. (count - 1) /\ g \in 0 .. (heads - 1) /\ i = heads * s + g
        /\ t \in 0 .. (count - 1) /\ h \in 0 .. (heads - 1) /\ j = heads * t + h
    BY TaskParts
  <2>2. slots[s] \in Nat /\ slots[t] \in Nat
    BY <1>4, <2>1
  <2> HIDE DEF s, t, g, h
  <2>3. slots[s] # slots[t] \/ g # h
    <3>1. s = t => g # h
      BY <2>1
    <3>2. s < t => slots[s] < slots[t]
      BY <2>1, <2>2 DEF OrderedUnique
    <3>3. t < s => slots[t] < slots[s]
      BY <2>1, <2>2 DEF OrderedUnique
    <3>4. s < t \/ t < s \/ s = t
      BY <2>1
    <3> QED BY <2>2, <3>1, <3>2, <3>3, <3>4
  <2>4. /\ slots[s] * heads + g \in Nat /\ slots[t] * heads + h \in Nat
        /\ slots[s] * heads + g # slots[t] * heads + h
    BY <2>1, <2>2, <2>3, SlotRowsDiffer
  <2> QED BY <2>4 DEF s, t, g, h
<1> DEFINE Row(a, r) == Span(a, r * planes[a], planes[a])
<1>a. /\ c \in UNION {Row(a, row(i)) : a \in A}
      /\ c \in UNION {Row(b, row(j)) : b \in A}
  BY <1>3, <1>4
<1> HIDE DEF row, Row
<1>6. PICK a \in A : c \in Row(a, row(i))
  BY <1>a
<1>7. PICK b \in A : c \in Row(b, row(j))
  BY <1>a
<1>8. PICK x \in row(i) * planes[a] .. (row(i) * planes[a] + planes[a] - 1) : c = <<a, x>>
  BY <1>6 DEF Span, Row
<1>9. PICK y \in row(j) * planes[b] .. (row(j) * planes[b] + planes[b] - 1) : c = <<b, y>>
  BY <1>7 DEF Span, Row
<1>10. a = b /\ x = y /\ planes[a] \in Nat
  BY <1>8, <1>9
<1> QED BY <1>5, <1>8, <1>9, <1>10, RowsDisjoint

\* The token ranges of different requests do not meet.
LEMMA TokensDisjoint ==
  ASSUME NEW requests \in Nat, NEW lengths \in [0 .. requests -> Nat],
         \A q, r \in 0 .. requests : q <= r => lengths[q] <= lengths[r],
         NEW q \in 0 .. (requests - 1), NEW r \in 0 .. (requests - 1), q # r,
         NEW t \in TokensOf(lengths, q), NEW u \in TokensOf(lengths, r)
  PROVE  t \in Nat /\ u \in Nat /\ t # u
<1>1. /\ lengths[q] \in Nat /\ lengths[q + 1] \in Nat
      /\ lengths[r] \in Nat /\ lengths[r + 1] \in Nat
  OBVIOUS
<1>2. CASE q < r
  <2>1. lengths[q + 1] <= lengths[r]
    BY <1>2
  <2> QED BY <1>1, <2>1, SMTT(30) DEF TokensOf
<1>3. CASE r < q
  <2>1. lengths[r + 1] <= lengths[q]
    BY <1>3
  <2> QED BY <1>1, <2>1, SMTT(30) DEF TokensOf
<1> QED BY <1>2, <1>3

\* The kernels of the recurrent state pools are race free when no two requests
\* share a slot: what PositiveSlotsAreUnique is there to establish.
THEOREM StateRaceFree ==
  ASSUME NEW requests \in Nat, NEW width \in Nat \ {0}, NEW depth \in Nat,
         NEW slots \in [0 .. (requests - 1) -> Int],
         NEW lengths \in [0 .. requests -> Nat],
         \A q, r \in 0 .. requests : q <= r => lengths[q] <= lengths[r],
         NEW loadInitial \in BOOLEAN,
         PositiveSlotsAreUnique(slots, requests)
  PROVE  RaceFree(StateTasks(slots, lengths, requests, width, depth, loadInitial))
<1> DEFINE k == StateTasks(slots, lengths, requests, width, depth, loadInitial)
           N == requests * width
           slot(task) == slots[task \div width]
           State(task) ==
             IF slot(task) < 0 THEN {}
             ELSE Span("state_pool_out",
                       (slot(task) * width + (task % width)) * depth, depth)
           Outputs(task) == {<<"out", token * width + (task % width)>> :
                               token \in TokensOf(lengths, task \div width)}
<1>1. ItemsOfKernel(k) = 0 .. (N - 1)
  BY DEF ItemsOfKernel, StateTasks, UpdatingRegion, Region
<1>2. \A i \in 0 .. (N - 1) : /\ k.writes[i] = State(i) \cup Outputs(i)
                              /\ k.reads[i] = IF loadInitial THEN State(i) ELSE {}
  BY DEF StateTasks, UpdatingRegion, Region
<1> HIDE DEF State, Outputs
<1>b. \A i \in 0 .. (N - 1) : /\ k.writes[i] = State(i) \cup Outputs(i)
                              /\ k.writes[i] \cup k.reads[i] = State(i) \cup Outputs(i)
  BY <1>2
<1> SUFFICES ASSUME NEW i \in 0 .. (N - 1), NEW j \in 0 .. (N - 1), i # j,
                    NEW c, c \in State(i) \cup Outputs(i),
                    c \in State(j) \cup Outputs(j)
             PROVE  FALSE
  BY <1>1, <1>b DEF RaceFree
<1> DEFINE q == i \div width  r == j \div width  g == i % width  h == j % width
<1>3. /\ q \in 0 .. (requests - 1) /\ g \in 0 .. (width - 1) /\ i = width * q + g
      /\ r \in 0 .. (requests - 1) /\ h \in 0 .. (width - 1) /\ j = width * r + h
  BY TaskParts
<1>4. /\ State(i) = IF slots[q] < 0 THEN {}
                    ELSE Span("state_pool_out", (slots[q] * width + g) * depth, depth)
      /\ State(j) = IF slots[r] < 0 THEN {}
                    ELSE Span("state_pool_out", (slots[r] * width + h) * depth, depth)
      /\ Outputs(i) = {<<"out", token * width + g>> : token \in TokensOf(lengths, q)}
      /\ Outputs(j) = {<<"out", token * width + h>> : token \in TokensOf(lengths, r)}
  BY DEF State, Outputs
<1> HIDE DEF q, r, g, h
<1>5. q # r \/ g # h
  BY <1>3
<1>6. slots[q] \in Int /\ slots[r] \in Int
  BY <1>3
<1>7. CASE c \in State(i) /\ c \in State(j)
  <2>1. slots[q] \in Nat /\ slots[r] \in Nat
    <3>1. ~(slots[q] < 0) /\ ~(slots[r] < 0)
      BY <1>4, <1>7, Zenon
    <3> QED BY <1>6, <3>1
  <2>2. slots[q] # slots[r] \/ g # h
    <3>1. CASE q < r
      BY <1>3, <2>1, <3>1 DEF PositiveSlotsAreUnique
    <3>2. CASE r < q
      BY <1>3, <2>1, <3>2 DEF PositiveSlotsAreUnique
    <3>3. CASE q = r
      BY <1>5, <3>3
    <3> QED BY <1>3, <3>1, <3>2, <3>3
  <2> DEFINE m == slots[q] * width + g  n == slots[r] * width + h
  <2>3. m \in Nat /\ n \in Nat /\ m # n
    BY <1>3, <2>1, <2>2, SlotRowsDiffer, ZenonT(60)
  <2>4. c \in Span("state_pool_out", m * depth, depth)
        /\ c \in Span("state_pool_out", n * depth, depth)
    BY <1>4, <1>6, <1>7
  <2> HIDE DEF m, n
  <2>5. PICK x \in m * depth .. (m * depth + depth - 1) : c = <<"state_pool_out", x>>
    BY <2>4 DEF Span
  <2>6. PICK y \in n * depth .. (n * depth + depth - 1) : c = <<"state_pool_out", y>>
    BY <2>4 DEF Span
  <2>7. x = y
    BY <2>5, <2>6
  <2> QED BY <2>3, <2>5, <2>6, <2>7, RowsDisjoint
<1>8. CASE c \in Outputs(i) /\ c \in Outputs(j)
  <2>1. PICK t \in TokensOf(lengths, q) : c = <<"out", t * width + g>>
    BY <1>4, <1>8
  <2>2. PICK u \in TokensOf(lengths, r) : c = <<"out", u * width + h>>
    BY <1>4, <1>8
  <2>3. t \in Nat /\ u \in Nat
    BY <1>3, SMTT(60) DEF TokensOf
  <2>4. t # u \/ g # h
    BY <1>3, <1>5, TokensDisjoint
  <2>5. t * width + g # u * width + h
    BY <1>3, <2>3, <2>4, SlotRowsDiffer
  <2> QED BY <2>1, <2>2, <2>5
<1>9. ~(c \in State(i) /\ c \in Outputs(j)) /\ ~(c \in Outputs(i) /\ c \in State(j))
  BY <1>4, "state_pool_out" # "out" DEF Span
<1> QED BY <1>7, <1>8, <1>9

-----------------------------------------------------------------------------
(* Every family fills its output: the hypothesis of RegionOutputExact.      *)

\* n rows of width w, from row s * n on, are one span.
LEMMA SpanOfRows ==
  ASSUME NEW a, NEW s \in Nat, NEW n \in Nat, NEW w \in Nat
  PROVE  UNION {Span(a, (s * n + i) * w, w) : i \in 0 .. (n - 1)}
           = Span(a, s * (n * w), n * w)
<1> DEFINE from == s * (n * w)
<1>1. from \in Nat /\ n * w \in Nat
  OBVIOUS
<1>2. \A i \in 0 .. (n - 1) : (s * n + i) * w = from + i * w /\ i * w \in Nat
  OBVIOUS
<1> HIDE DEF from
<1>3. ASSUME NEW i \in 0 .. (n - 1), NEW x \in 0 .. (w - 1)
      PROVE  i * w + x \in 0 .. (n * w - 1)
  <2>1. (i + 1) * w <= n * w
    BY ProductMonotone
  <2>2. (i + 1) * w = i * w + w
    OBVIOUS
  <2> QED BY <1>1, <1>2, <2>1, <2>2
<1>4. ASSUME NEW y \in 0 .. (n * w - 1)
      PROVE  \E i \in 0 .. (n - 1) : \E x \in 0 .. (w - 1) : y = i * w + x
  <2>1. w \in Nat \ {0}
    <3> SUFFICES ASSUME w = 0 PROVE FALSE
      OBVIOUS
    <3> QED BY <1>4
  <2>2. y \div w \in 0 .. (n - 1) /\ y % w \in 0 .. (w - 1) /\ y = w * (y \div w) + (y % w)
    BY <2>1, TaskParts
  <2>3. y = (y \div w) * w + (y % w)
    BY <2>1, <2>2
  <2> QED BY <2>2, <2>3
<1>5. ASSUME NEW i \in 0 .. (n - 1), NEW c \in Span(a, (s * n + i) * w, w)
      PROVE  c \in Span(a, from, n * w)
  <2>1. PICK y \in (from + i * w) .. (from + i * w + w - 1) : c = <<a, y>>
    BY <1>2 DEF Span
  <2>2. y - (from + i * w) \in 0 .. (w - 1)
    BY <1>1, <1>2, <2>1
  <2>3. i * w + (y - (from + i * w)) \in 0 .. (n * w - 1)
    BY <1>3, <2>2
  <2>4. y \in from .. (from + n * w - 1)
    BY <1>1, <1>2, <2>1, <2>3
  <2> QED BY <2>1, <2>4 DEF Span
<1>6. ASSUME NEW c \in Span(a, from, n * w)
      PROVE  \E i \in 0 .. (n - 1) : c \in Span(a, (s * n + i) * w, w)
  <2>1. PICK y \in from .. (from + n * w - 1) : c = <<a, y>>
    BY DEF Span
  <2>2. y - from \in 0 .. (n * w - 1)
    BY <1>1, <2>1
  <2>3. PICK i \in 0 .. (n - 1), x \in 0 .. (w - 1) : y - from = i * w + x
    BY <1>4, <2>2
  <2>4. y \in (from + i * w) .. (from + i * w + w - 1)
    BY <1>1, <1>2, <2>1, <2>3
  <2> QED BY <1>2, <2>1, <2>4 DEF Span
<1> QED BY <1>5, <1>6 DEF from

\* The same from the first row on.
LEMMA SpanOfAllRows ==
  ASSUME NEW a, NEW n \in Nat, NEW w \in Nat
  PROVE  UNION {Span(a, i * w, w) : i \in 0 .. (n - 1)} = Span(a, 0, n * w)
<1>1. UNION {Span(a, (0 * n + i) * w, w) : i \in 0 .. (n - 1)}
        = Span(a, 0 * (n * w), n * w)
  BY SpanOfRows
<1>2. 0 * (n * w) = 0 /\ \A i \in 0 .. (n - 1) : (0 * n + i) * w = i * w
  <2>1. n * w \in Nat
    OBVIOUS
  <2> QED BY <2>1
<1> QED BY <1>1, <1>2

\* What a region that is not in place is made of: no input is among its cells.
LEMMA RegionFields ==
  ASSUME NEW count \in Int, NEW route, NEW writes, NEW out
  PROVE  LET k == Region(count, route, writes, out)
         IN /\ ItemsOfKernel(k) = 0 .. (count - 1) /\ k.writes = writes /\ k.out = out
            /\ \A i \in ItemsOfKernel(k) : k.input[i] = {}
<1> DEFINE k == Region(count, route, writes, out)
<1>1. /\ k.count = count /\ k.grain = 1 /\ k.writes = writes /\ k.out = out
      /\ k.input = [i \in 0 .. (count - 1) |-> {}]
  BY DEF Region
<1> HIDE DEF k
<1>2. ItemsOfKernel(k) = 0 .. (count - 1)
  BY <1>1 DEF ItemsOfKernel
<1> QED BY <1>1, <1>2 DEF k

\* Items that fill their own rows fill the arrays.
THEOREM RowRegionFillsOutput ==
  ASSUME NEW count \in Nat, NEW A, NEW planes \in [A -> Nat]
  PROVE  FillsOutput(RowRegion(count, planes))
<1> DEFINE k == RowRegion(count, planes)
           Row(a, i) == Span(a, i * planes[a], planes[a])
<1>1. /\ ItemsOfKernel(k) = 0 .. (count - 1)
      /\ \A i \in 0 .. (count - 1) : k.writes[i] = UNION {Row(a, i) : a \in A}
      /\ k.out = UNION {Span(a, 0, count * planes[a]) : a \in A}
  BY DEF ItemsOfKernel, RowRegion, Region
<1>2. \A a \in A : Span(a, 0, count * planes[a]) = UNION {Row(a, i) : i \in 0 .. (count - 1)}
  BY SpanOfAllRows
<1> HIDE DEF k, Row
<1> QED BY <1>1, <1>2 DEF FillsOutput, k

\* The scatters fill the rows of the slots in use, whatever is padding or not finite.
THEOREM ScatterFillsOutput ==
  ASSUME NEW count \in Nat, NEW heads \in Nat \ {0},
         NEW slots \in [0 .. (count - 1) -> Int],
         NEW A, NEW planes \in [A -> Nat], NEW nonfinite
  PROVE  FillsOutput(ScatterTasks(slots, count, heads, planes, nonfinite))
<1> DEFINE k == ScatterTasks(slots, count, heads, planes, nonfinite)
           N == count * heads
           Row(a, s, h) == Span(a, (s * heads + h) * planes[a], planes[a])
           Rows(a, s) == Span(a, s * (heads * planes[a]), heads * planes[a])
           Used == {t \in 0 .. (count - 1) : slots[t] >= 0}
<1>1. /\ ItemsOfKernel(k) = 0 .. (N - 1)
      /\ k.out = UNION {SlotRows(a, slots, count, heads * planes[a]) : a \in A}
  BY DEF ItemsOfKernel, ScatterTasks, Checked, Region
<1>2. \A i \in 0 .. (N - 1) :
        k.writes[i] = IF slots[i \div heads] < 0 THEN {}
                      ELSE UNION {Row(a, slots[i \div heads], i % heads) : a \in A}
  BY DEF ScatterTasks, Checked, Region, TokenOf, HeadOf
<1>3. \A a, c : c \in SlotRows(a, slots, count, heads * planes[a])
                 <=> \E t \in Used : c \in Rows(a, slots[t])
  BY DEF SlotRows
<1>4. \A a \in A, s \in Nat : Rows(a, s) = UNION {Row(a, s, h) : h \in 0 .. (heads - 1)}
  <2> SUFFICES ASSUME NEW a \in A, NEW s \in Nat
               PROVE Rows(a, s) = UNION {Row(a, s, h) : h \in 0 .. (heads - 1)}
    OBVIOUS
  <2> QED BY SpanOfRows
<1> HIDE DEF k, Row, Rows
<1>5. ASSUME NEW i \in 0 .. (N - 1), NEW c \in k.writes[i] PROVE c \in k.out
  <2> DEFINE t == i \div heads  h == i % heads
  <2>1. t \in 0 .. (count - 1) /\ h \in 0 .. (heads - 1)
    BY TaskParts
  <2>2. c \in IF slots[t] < 0 THEN {} ELSE UNION {Row(a, slots[t], h) : a \in A}
    BY <1>2
  <2> HIDE DEF t, h
  <2>3. ~(slots[t] < 0) /\ c \in UNION {Row(a, slots[t], h) : a \in A}
    BY <2>2
  <2>4. t \in Used /\ slots[t] \in Nat
    BY <2>1, <2>3
  <2>5. PICK a \in A : c \in Row(a, slots[t], h)
    BY <2>3
  <2>6. c \in Rows(a, slots[t])
    BY <1>4, <2>1, <2>4, <2>5
  <2>7. c \in SlotRows(a, slots, count, heads * planes[a])
    <3> HIDE DEF Used
    <3> QED BY <1>3, <2>4, <2>6
  <2> QED BY <1>1, <2>7
<1>6. ASSUME NEW c \in k.out PROVE \E i \in 0 .. (N - 1) : c \in k.writes[i]
  <2>0. PICK a \in A : c \in SlotRows(a, slots, count, heads * planes[a])
    BY <1>1
  <2>1. PICK t \in Used : c \in Rows(a, slots[t])
    <3> HIDE DEF Used
    <3> QED BY <1>3, <2>0
  <2>2. t \in 0 .. (count - 1) /\ slots[t] \in Nat /\ ~(slots[t] < 0)
    OBVIOUS
  <2>3. PICK h \in 0 .. (heads - 1) : c \in Row(a, slots[t], h)
    BY <1>4, <2>1, <2>2
  <2> DEFINE i == TaskNumber(heads, t, h)
  <2>4. i \in 0 .. (N - 1) /\ i \div heads = t /\ i % heads = h
    <3>1. i \in 0 .. (N - 1)
      BY <2>2, TaskInRange
    <3>2. t \in Nat
      BY <2>2
    <3>3. i \div heads = t /\ i % heads = h
      BY <3>2, PartsOfTask
    <3> QED BY <3>1, <3>3
  <2> HIDE DEF i
  <2>5. c \in k.writes[i]
    BY <1>2, <2>2, <2>3, <2>4, ZenonT(60)
  <2> QED BY <2>4, <2>5
<1> QED BY <1>1, <1>5, <1>6, ZenonT(60) DEF FillsOutput, k

\* Every token belongs to a request.
LEMMA RequestOf ==
  ASSUME NEW requests \in Nat, NEW lengths \in [0 .. requests -> Nat], lengths[0] = 0,
         NEW t \in 0 .. (lengths[requests] - 1)
  PROVE  \E r \in 0 .. (requests - 1) : t \in TokensOf(lengths, r)
<1> DEFINE T == {r \in 0 .. requests : t < lengths[r]}
<1>1. lengths[requests] \in Nat /\ t \in Nat /\ t < lengths[requests]
  OBVIOUS
<1>2. T \in SUBSET Nat /\ requests \in T
  BY <1>1
<1>3. PICK m \in T : \A r \in T : m <= r
  <2> HIDE DEF T
  <2> QED BY <1>2, LeastNatural
<1>4. m \in 0 .. requests /\ t < lengths[m] /\ m # 0
  BY <1>1
<1>5. m - 1 \in 0 .. (requests - 1) /\ m - 1 \in 0 .. requests /\ m - 1 \notin T
  BY <1>3, <1>4
<1>6. lengths[m - 1] \in Nat /\ lengths[m] \in Nat /\ lengths[m - 1] <= t
  BY <1>1, <1>4, <1>5
<1>7. m - 1 + 1 = m
  BY <1>4
<1>8. t \in TokensOf(lengths, m - 1)
  BY <1>1, <1>4, <1>6, <1>7 DEF TokensOf
<1> QED BY <1>5, <1>8

\* The kernels of the state pools produce an output for every token and row, and the
\* states of the requests that have a slot.
THEOREM StateFillsOutput ==
  ASSUME NEW requests \in Nat, NEW width \in Nat \ {0}, NEW depth \in Nat,
         NEW slots \in [0 .. (requests - 1) -> Int],
         NEW lengths \in [0 .. requests -> Nat], lengths[0] = 0,
         \A q, r \in 0 .. requests : q <= r => lengths[q] <= lengths[r],
         NEW loadInitial \in BOOLEAN
  PROVE  FillsOutput(StateTasks(slots, lengths, requests, width, depth, loadInitial))
<1> DEFINE k == StateTasks(slots, lengths, requests, width, depth, loadInitial)
           N == requests * width
           L == lengths[requests]
           Row(s, h) == Span("state_pool_out", (s * width + h) * depth, depth)
           Rows(s) == Span("state_pool_out", s * (width * depth), width * depth)
           Used == {r \in 0 .. (requests - 1) : slots[r] >= 0}
           State(r, h) == IF slots[r] < 0 THEN {} ELSE Row(slots[r], h)
           Outputs(r, h) ==
             {<<"out", token * width + h>> : token \in TokensOf(lengths, r)}
<1>1. /\ ItemsOfKernel(k) = 0 .. (N - 1)
      /\ k.out = Span("out", 0, L * width)
                 \cup SlotRows("state_pool_out", slots, requests, width * depth)
  BY DEF ItemsOfKernel, StateTasks, UpdatingRegion, Region
<1>2. \A i \in 0 .. (N - 1) :
        k.writes[i] = State(i \div width, i % width) \cup Outputs(i \div width, i % width)
  BY DEF StateTasks, UpdatingRegion, Region
<1>3. SlotRows("state_pool_out", slots, requests, width * depth)
        = UNION {Rows(slots[r]) : r \in Used}
  BY DEF SlotRows
<1>4. \A s \in Nat : Rows(s) = UNION {Row(s, h) : h \in 0 .. (width - 1)}
  BY SpanOfRows, SMTT(30)
<1>5. L \in Nat /\ \A r \in 0 .. (requests - 1) :
         lengths[r] \in Nat /\ lengths[r + 1] \in Nat /\ lengths[r + 1] <= L
  OBVIOUS
<1> HIDE DEF k, Row, Rows, State, Outputs, L
<1>6. ASSUME NEW i \in 0 .. (N - 1), NEW c \in k.writes[i] PROVE c \in k.out
  <2> DEFINE r == i \div width  h == i % width
  <2>1. r \in 0 .. (requests - 1) /\ h \in 0 .. (width - 1)
    BY TaskParts
  <2>2. c \in State(r, h) \/ c \in Outputs(r, h)
    BY <1>2
  <2> HIDE DEF r, h
  <2>3. CASE c \in State(r, h)
    <3>1. ~(slots[r] < 0) /\ c \in Row(slots[r], h)
      BY <2>3 DEF State
    <3>2. r \in Used /\ slots[r] \in Nat
      BY <2>1, <3>1
    <3>3. c \in Rows(slots[r])
      BY <1>4, <2>1, <3>1, <3>2
    <3> QED BY <1>1, <1>3, <3>2, <3>3
  <2>4. CASE c \in Outputs(r, h)
    <3>1. PICK token \in TokensOf(lengths, r) : c = <<"out", token * width + h>>
      BY <2>4 DEF Outputs
    <3>2. token \in 0 .. (L - 1)
      BY <1>5, <2>1 DEF TokensOf
    <3>3. token * width + h \in 0 .. (L * width - 1)
      <4>1. TaskNumber(width, token, h) \in 0 .. (L * width - 1)
        BY <1>5, <2>1, <3>2, TaskInRange
      <4> QED BY <4>1 DEF TaskNumber
    <3>4. c \in Span("out", 0, L * width)
      BY <1>5, <3>1, <3>3 DEF Span
    <3> QED BY <1>1, <3>4
  <2> QED BY <2>2, <2>3, <2>4
<1>7. ASSUME NEW c \in k.out PROVE \E i \in 0 .. (N - 1) : c \in k.writes[i]
  <2>1. CASE c \in Span("out", 0, L * width)
    <3>0. L * width \in Nat
      BY <1>5
    <3>1. PICK y \in 0 .. (L * width - 1) : c = <<"out", y>>
      BY <2>1, <3>0 DEF Span
    <3> DEFINE token == y \div width  h == y % width
    <3>2. token \in 0 .. (L - 1) /\ h \in 0 .. (width - 1) /\ y = width * token + h
      BY <1>5, TaskParts
    <3> HIDE DEF token, h
    <3>3. PICK r \in 0 .. (requests - 1) : token \in TokensOf(lengths, r)
      BY <3>2, RequestOf DEF L
    <3>4. c \in Outputs(r, h)
      BY <1>5, <3>1, <3>2, <3>3 DEF Outputs
    <3> DEFINE i == TaskNumber(width, r, h)
    <3>5. i \in 0 .. (N - 1) /\ i \div width = r /\ i % width = h
      <4>1. i \in 0 .. (N - 1)
        BY <3>2, TaskInRange
      <4>2. r \in Nat
        BY <3>2, <3>3
      <4>3. i \div width = r /\ i % width = h
        BY <3>2, <4>2, PartsOfTask
      <4> QED BY <4>1, <4>3
    <3> HIDE DEF i
    <3>6. c \in k.writes[i]
      BY <1>2, <3>4, <3>5
    <3> QED BY <3>5, <3>6
  <2>2. CASE c \in SlotRows("state_pool_out", slots, requests, width * depth)
    <3>1. PICK r \in Used : c \in Rows(slots[r])
      BY <1>3, <2>2
    <3>2. r \in 0 .. (requests - 1) /\ slots[r] \in Nat /\ ~(slots[r] < 0)
      OBVIOUS
    <3>3. PICK h \in 0 .. (width - 1) : c \in Row(slots[r], h)
      BY <1>4, <3>1, <3>2
    <3>4. c \in State(r, h)
      BY <3>2, <3>3 DEF State
    <3> DEFINE i == TaskNumber(width, r, h)
    <3>5. i \in 0 .. (N - 1) /\ i \div width = r /\ i % width = h
      <4>1. i \in 0 .. (N - 1)
        BY <3>2, TaskInRange
      <4>2. r \in Nat
        BY <3>2, <3>3
      <4>3. i \div width = r /\ i % width = h
        BY <3>2, <4>2, PartsOfTask
      <4> QED BY <4>1, <4>3
    <3> HIDE DEF i
    <3>6. c \in k.writes[i]
      BY <1>2, <3>4, <3>5
    <3> QED BY <3>5, <3>6
  <2> QED BY <1>1, <2>1, <2>2
<1> QED BY <1>1, <1>6, <1>7 DEF FillsOutput, k

\* Tiles fill the matrices, if there are enough of them for every matrix's columns.
THEOREM TileRegionFillsOutput ==
  ASSUME NEW rows \in Nat, NEW tileRows \in Nat \ {0}, NEW columnTiles \in Nat \ {0},
         NEW A, NEW planes, DOMAIN planes = A,
         \A a \in A : /\ planes[a].columns \in Nat /\ planes[a].width \in Nat \ {0}
                      /\ planes[a].columns <= columnTiles * planes[a].width
  PROVE  FillsOutput(TileRegion(rows, tileRows, columnTiles, planes))
<1> DEFINE k == TileRegion(rows, tileRows, columnTiles, planes)
           rowTiles == (rows + tileRows - 1) \div tileRows
           N == rowTiles * columnTiles
           Line(a, q, r, line) ==
             Span(a, (q * tileRows + line) * planes[a].columns + r * planes[a].width,
                     Least(planes[a].width, planes[a].columns - r * planes[a].width))
           Lines(q) == 0 .. (Least(tileRows, rows - q * tileRows) - 1)
           Tile(a, q, r) == UNION {Line(a, q, r, line) : line \in Lines(q)}
           All(a) == Span(a, 0, rows * planes[a].columns)
           IsCell(a, q, r, c) ==
             \E line \in 0 .. (tileRows - 1) : \E v \in 0 .. (planes[a].width - 1) :
               /\ q * tileRows + line \in 0 .. (rows - 1)
               /\ r * planes[a].width + v \in 0 .. (planes[a].columns - 1)
               /\ c = <<a, (q * tileRows + line) * planes[a].columns
                             + (r * planes[a].width + v)>>
<1>1. /\ ItemsOfKernel(k) = 0 .. (N - 1)
      /\ \A i \in 0 .. (N - 1) :
           k.writes[i] = UNION {Tile(a, i \div columnTiles, i % columnTiles) : a \in A}
      /\ k.out = UNION {All(a) : a \in A}
  <2> DEFINE writes ==
               [i \in 0 .. (N - 1) |->
                  UNION {Tile(a, i \div columnTiles, i % columnTiles) : a \in DOMAIN planes}]
             out == UNION {All(a) : a \in DOMAIN planes}
  <2>1. k = Region(N, "parallel", writes, out)
    BY Zenon DEF TileRegion
  <2>2. N \in Int
    OBVIOUS
  <2>3. /\ \A i \in 0 .. (N - 1) :
             writes[i] = UNION {Tile(a, i \div columnTiles, i % columnTiles) : a \in A}
        /\ out = UNION {All(a) : a \in A}
    OBVIOUS
  <2> HIDE DEF k, N, writes, out, Tile, All
  <2>4. ItemsOfKernel(k) = 0 .. (N - 1) /\ k.writes = writes /\ k.out = out
    BY <2>1, <2>2, RegionFields
  <2> QED BY <2>3, <2>4
<1>2. rowTiles \in Nat /\ rows <= rowTiles * tileRows
  <2> DEFINE n == rows + tileRows - 1
  <2>1. n \in Nat /\ rows = n - tileRows + 1
    OBVIOUS
  <2> HIDE DEF n
  <2>2. n \div tileRows \in Nat /\ n % tileRows \in 0 .. (tileRows - 1)
        /\ n = tileRows * (n \div tileRows) + (n % tileRows)
    BY <2>1, DivMod
  <2>3. tileRows * (n \div tileRows) = (n \div tileRows) * tileRows
        /\ tileRows * (n \div tileRows) \in Nat
    BY <2>2
  <2>4. n \div tileRows \in Nat /\ rows <= (n \div tileRows) * tileRows
    BY <2>1, <2>2, <2>3
  <2> QED BY <2>4 DEF n
<1> HIDE DEF k, rowTiles, Line, Lines, Tile, All
<1>3. \A a, q, r, c : c \in Tile(a, q, r) <=> \E line \in Lines(q) : c \in Line(a, q, r, line)
  BY DEF Tile
<1>4. \A a \in A, q \in Nat, r \in Nat : \A c : c \in Tile(a, q, r) <=> IsCell(a, q, r, c)
  <2> SUFFICES ASSUME NEW a \in A, NEW q \in Nat, NEW r \in Nat, NEW c
               PROVE  c \in Tile(a, q, r) <=> IsCell(a, q, r, c)
    OBVIOUS
  <2> DEFINE columns == planes[a].columns  width == planes[a].width
             top == q * tileRows  left == r * width
  <2>0. /\ columns \in Nat /\ width \in Nat \ {0} /\ top \in Nat /\ left \in Nat
    <3>1. columns \in Nat /\ width \in Nat \ {0}
      OBVIOUS
    <3> HIDE DEF columns, width
    <3> QED BY <3>1
  <2>1. \A line : line \in Lines(q) <=>
                    line \in 0 .. (tileRows - 1) /\ top + line \in 0 .. (rows - 1)
    <3>1. Lines(q) = 0 .. (Least(tileRows, rows - top) - 1)
      BY DEF Lines
    <3> HIDE DEF top
    <3> QED BY <2>0, <3>1, SMTT(30) DEF Least
  <2>2. \A line \in Nat :
          c \in Line(a, q, r, line) <=>
            \E v \in 0 .. (width - 1) : /\ left + v \in 0 .. (columns - 1)
                                        /\ c = <<a, (top + line) * columns + (left + v)>>
    <3> SUFFICES ASSUME NEW line \in Nat
                 PROVE  c \in Line(a, q, r, line) <=>
                          \E v \in 0 .. (width - 1) :
                            /\ left + v \in 0 .. (columns - 1)
                            /\ c = <<a, (top + line) * columns + (left + v)>>
      OBVIOUS
    <3> DEFINE start == (top + line) * columns
    <3>1. start \in Nat
      <4> HIDE DEF top, columns
      <4> QED BY <2>0
    <3>2. Line(a, q, r, line)
            = {<<a, x>> : x \in (start + left) .. (start + left + Least(width, columns - left) - 1)}
      BY DEF Line, Span
    <3> HIDE DEF start, left, top, columns, width
    <3>3. ASSUME NEW x \in (start + left) .. (start + left + Least(width, columns - left) - 1)
          PROVE  \E v \in 0 .. (width - 1) : left + v \in 0 .. (columns - 1)
                                             /\ x = start + (left + v)
      <4>1. x - start - left \in 0 .. (width - 1)
        BY <2>0, <3>1 DEF Least
      <4>2. left + (x - start - left) \in 0 .. (columns - 1)
        BY <2>0, <3>1 DEF Least
      <4>3. x = start + (left + (x - start - left))
        BY <2>0, <3>1
      <4> QED BY <4>1, <4>2, <4>3
    <3>4. ASSUME NEW v \in 0 .. (width - 1), left + v \in 0 .. (columns - 1)
          PROVE  start + (left + v)
                   \in (start + left) .. (start + left + Least(width, columns - left) - 1)
      BY <2>0, <3>1, <3>4 DEF Least
    <3>5. c \in Line(a, q, r, line) <=>
            \E x \in (start + left) .. (start + left + Least(width, columns - left) - 1) :
              c = <<a, x>>
      BY <3>2
    <3> QED BY <3>3, <3>4, <3>5 DEF start
  <2> HIDE DEF columns, width, top, left
  <2>3. c \in Tile(a, q, r) <=>
          \E line \in 0 .. (tileRows - 1) : \E v \in 0 .. (width - 1) :
            /\ top + line \in 0 .. (rows - 1)
            /\ left + v \in 0 .. (columns - 1)
            /\ c = <<a, (top + line) * columns + (left + v)>>
    BY <1>3, <2>1, <2>2
  <2> QED BY <2>3 DEF columns, width, top, left
<1> HIDE DEF IsCell
<1>5. ASSUME NEW i \in 0 .. (N - 1), NEW c \in k.writes[i] PROVE c \in k.out
  <2> DEFINE q == i \div columnTiles  r == i % columnTiles
  <2>1. q \in Nat /\ r \in Nat
    BY <1>2, TaskParts
  <2>2. PICK a \in A : c \in Tile(a, q, r)
    BY <1>1
  <2> HIDE DEF q, r
  <2> DEFINE columns == planes[a].columns  width == planes[a].width
  <2>3. PICK line \in 0 .. (tileRows - 1), v \in 0 .. (width - 1) :
          /\ q * tileRows + line \in 0 .. (rows - 1)
          /\ r * width + v \in 0 .. (columns - 1)
          /\ c = <<a, (q * tileRows + line) * columns + (r * width + v)>>
    <3>1. IsCell(a, q, r, c)
      BY <1>4, <2>1, <2>2
    <3> QED BY <3>1 DEF IsCell
  <2> DEFINE m == q * tileRows + line  u == r * width + v
  <2>4. m \in 0 .. (rows - 1) /\ u \in 0 .. (columns - 1) /\ c = <<a, m * columns + u>>
    BY <2>3
  <2>5. columns \in Nat
    OBVIOUS
  <2> HIDE DEF m, u
  <2>6. c \in All(a)
    <3> HIDE DEF columns
    <3>1. columns \in Nat \ {0}
      BY <2>4, <2>5
    <3>2. TaskNumber(columns, m, u) \in 0 .. (rows * columns - 1)
      BY <2>4, <3>1, TaskInRange
    <3>3. m * columns + u \in 0 .. (0 + rows * columns - 1)
      <4>1. rows * columns \in Nat
        BY <3>1
      <4> QED BY <3>2, <4>1 DEF TaskNumber
    <3>4. c \in Span(a, 0, rows * columns)
      BY <2>4, <3>3 DEF Span
    <3> QED BY <3>4 DEF All, columns
  <2> QED BY <1>1, <2>6
<1>6. ASSUME NEW c \in k.out PROVE \E i \in 0 .. (N - 1) : c \in k.writes[i]
  <2>1. PICK a \in A : c \in All(a)
    BY <1>1
  <2> DEFINE columns == planes[a].columns  width == planes[a].width
  <2>2. columns \in Nat /\ width \in Nat \ {0} /\ columns <= columnTiles * width
    OBVIOUS
  <2>3. PICK y \in 0 .. (rows * columns - 1) : c = <<a, y>>
    <3>1. c \in Span(a, 0, rows * columns)
      BY <2>1 DEF All
    <3> HIDE DEF columns
    <3>2. rows * columns \in Nat
      BY <2>2
    <3> QED BY <3>1, <3>2 DEF Span
  <2> HIDE DEF columns, width
  <2>4. columns \in Nat \ {0}
    <3> SUFFICES ASSUME columns = 0 PROVE FALSE
      BY <2>2
    <3>1. rows * columns = 0
      OBVIOUS
    <3> QED BY <2>3, <3>1
  <2> DEFINE m == y \div columns  u == y % columns
  <2>5. m \in 0 .. (rows - 1) /\ u \in 0 .. (columns - 1) /\ y = columns * m + u
    BY <2>3, <2>4, TaskParts
  <2> HIDE DEF m, u
  <2> DEFINE q == m \div tileRows  line == m % tileRows
  <2>6. q \in 0 .. (rowTiles - 1) /\ line \in 0 .. (tileRows - 1) /\ m = tileRows * q + line
    <3>0. rowTiles * tileRows \in Nat
      BY <1>2
    <3>1. m \in 0 .. (rowTiles * tileRows - 1)
      BY <1>2, <2>5, <3>0
    <3> QED BY <1>2, <3>1, TaskParts
  <2> DEFINE r == u \div width  v == u % width
  <2>7. r \in 0 .. (columnTiles - 1) /\ v \in 0 .. (width - 1) /\ u = width * r + v
    <3>0. columnTiles * width \in Nat
      BY <2>2
    <3>1. u \in 0 .. (columnTiles * width - 1)
      BY <2>2, <2>5, <3>0
    <3> QED BY <2>2, <3>1, TaskParts
  <2> HIDE DEF q, line, r, v
  <2>8. q * tileRows + line = m /\ r * width + v = u /\ q \in Nat /\ r \in Nat
    BY <2>2, <2>6, <2>7
  <2>9. c = <<a, m * columns + u>>
    BY <2>3, <2>4, <2>5
  <2>10. c \in Tile(a, q, r)
    <3>1. IsCell(a, q, r, c)
      BY <2>5, <2>6, <2>7, <2>8, <2>9 DEF IsCell, columns, width
    <3> QED BY <1>4, <2>8, <3>1
  <2> DEFINE i == TaskNumber(columnTiles, q, r)
  <2>11. i \in 0 .. (N - 1)
    BY <1>2, <2>6, <2>7, TaskInRange
  <2>12. i \div columnTiles = q /\ i % columnTiles = r
    BY <2>7, <2>8, PartsOfTask
  <2> HIDE DEF i, N, Tile
  <2>13. k.writes[i] = UNION {Tile(b, i \div columnTiles, i % columnTiles) : b \in A}
    BY <1>1, <2>11
  <2>14. c \in k.writes[i]
    BY <2>10, <2>12, <2>13
  <2> QED BY <2>11, <2>14
<1> QED BY <1>1, <1>5, <1>6 DEF FillsOutput, k

\* Tiles read nothing that the region writes.
LEMMA TileInput ==
  ASSUME NEW rows \in Nat, NEW tileRows \in Nat \ {0}, NEW columnTiles \in Nat \ {0},
         NEW planes, NEW i \in ItemsOfKernel(TileRegion(rows, tileRows, columnTiles, planes))
  PROVE  TileRegion(rows, tileRows, columnTiles, planes).input[i] = {}
<1> DEFINE k == TileRegion(rows, tileRows, columnTiles, planes)
           N == ((rows + tileRows - 1) \div tileRows) * columnTiles
<1>1. k.count = N /\ k.grain = 1 /\ k.input = [item \in 0 .. (N - 1) |-> {}]
  BY DEF TileRegion, Region
<1>2. N \in Int
  OBVIOUS
<1> HIDE DEF N, k
<1>3. i \in 0 .. (N - 1)
  BY <1>1, <1>2 DEF ItemsOfKernel, k
<1> QED BY <1>1, <1>3 DEF k

-----------------------------------------------------------------------------
(* Calls in place: what their loops load has not been overwritten.         *)

\* What the region theorems ask of a kernel.
Regular(k) == RaceFree(k) /\ ReadsInputFirst(k) /\ FillsOutput(k)

\* The cells of a row.
RowCells(planes) == UNION {Span(a, 0, planes[a]) : a \in DOMAIN planes}

\* What the loops over a row have to be: their turns stay in the row, none loads a cell
\* that an earlier one has stored, and together they store the whole row.
IsRowProgram(grain, planes, program) ==
  /\ \A j \in 0 .. (grain - 1) :
       /\ program[j].loads \subseteq RowCells(planes)
       /\ program[j].reads \subseteq RowCells(planes)
       /\ program[j].writes \subseteq RowCells(planes)
  /\ \A i, j \in 0 .. (grain - 1) : j < i => program[j].writes \cap program[i].loads = {}
  /\ \A c \in RowCells(planes) : \E j \in 0 .. (grain - 1) : c \in program[j].writes

\* What a turn consists of.
IsTurn(turn, loads, reads, writes) ==
  turn.loads = loads /\ turn.reads = reads /\ turn.writes = writes

LEMMA TurnFields ==
  ASSUME NEW loads, NEW reads, NEW writes
  PROVE  IsTurn(Turn(loads, reads, writes), loads, reads, writes)
BY DEF IsTurn, Turn

\* Where the cell c of a row lies in its array.
Place(planes, row, c) == <<c[1], row * planes[c[1]] + c[2]>>

\* A cell of a row is a column of one of its arrays.
LEMMA RowCell ==
  ASSUME NEW A, NEW planes \in [A -> Nat], NEW c \in RowCells(planes), NEW row \in Nat
  PROVE  \E a \in A : \E x \in 0 .. (planes[a] - 1) :
           /\ c = <<a, x>> /\ planes[a] \in Nat \ {0}
           /\ Place(planes, row, c) = <<a, row * planes[a] + x>>
<1>1. PICK a \in A : c \in Span(a, 0, planes[a])
  BY DEF RowCells
<1>2. planes[a] \in Nat
  OBVIOUS
<1>3. PICK x \in 0 .. (planes[a] - 1) : c = <<a, x>>
  BY <1>1, <1>2 DEF Span
<1>4. planes[a] # 0
  BY <1>3
<1>5. c[1] = a /\ c[2] = x
  BY <1>3
<1> QED BY <1>2, <1>3, <1>4, <1>5 DEF Place

\* Different cells of a row, and cells of different rows, lie in different places.
LEMMA PlacesDiffer ==
  ASSUME NEW A, NEW planes \in [A -> Nat], NEW c \in RowCells(planes),
         NEW d \in RowCells(planes), NEW m \in Nat, NEW n \in Nat,
         Place(planes, m, c) = Place(planes, n, d)
  PROVE  m = n /\ c = d
<1>a. PICK a \in A : \E x \in 0 .. (planes[a] - 1) :
        /\ c = <<a, x>> /\ planes[a] \in Nat \ {0}
        /\ Place(planes, m, c) = <<a, m * planes[a] + x>>
  BY RowCell
<1>1. PICK x \in 0 .. (planes[a] - 1) :
        /\ c = <<a, x>> /\ planes[a] \in Nat \ {0}
        /\ Place(planes, m, c) = <<a, m * planes[a] + x>>
  BY <1>a
<1>b. PICK b \in A : \E y \in 0 .. (planes[b] - 1) :
        /\ d = <<b, y>> /\ planes[b] \in Nat \ {0}
        /\ Place(planes, n, d) = <<b, n * planes[b] + y>>
  BY RowCell
<1>2. PICK y \in 0 .. (planes[b] - 1) :
        /\ d = <<b, y>> /\ planes[b] \in Nat \ {0}
        /\ Place(planes, n, d) = <<b, n * planes[b] + y>>
  BY <1>b
<1>3. a = b /\ m * planes[a] + x = n * planes[a] + y
  BY <1>1, <1>2
<1>4. m = n /\ x = y
  BY <1>1, <1>2, <1>3, TileIndexDiffers
<1> QED BY <1>1, <1>2, <1>3, <1>4

\* Rows whose loops are such a program may be updated in place, one row by each part or
\* several, in any interleaving.
THEOREM RowsInPlaceRegular ==
  ASSUME NEW rows \in Nat, NEW grain \in Nat \ {0}, NEW route, NEW A,
         NEW planes \in [A -> Nat], NEW program, IsRowProgram(grain, planes, program)
  PROVE  Regular(RowsInPlace(rows, grain, route, planes, program))
<1> DEFINE k == RowsInPlace(rows, grain, route, planes, program)
           turns == 0 .. (rows * grain - 1)
           Placed(cells, row) == {Place(planes, row, c) : c \in cells}
<1>1. /\ ItemsOfKernel(k) = turns
      /\ \A i \in turns :
           /\ k.input[i] = Placed(program[i % grain].loads, i \div grain)
           /\ k.reads[i] = Placed(program[i % grain].loads, i \div grain)
                           \cup Placed(program[i % grain].reads, i \div grain)
           /\ k.writes[i] = Placed(program[i % grain].writes, i \div grain)
      /\ k.out = UNION {Span(a, 0, rows * planes[a]) : a \in A}
  BY DEF RowsInPlace, InPlace, ItemsOfKernel, Place
<1>2. \A i \in turns : /\ i \in Nat /\ i \div grain \in 0 .. (rows - 1)
                       /\ i \div grain \in Nat /\ i % grain \in 0 .. (grain - 1)
                       /\ i = grain * (i \div grain) + (i % grain)
  <2> SUFFICES ASSUME NEW i \in turns
               PROVE  /\ i \in Nat /\ i \div grain \in 0 .. (rows - 1)
                      /\ i \div grain \in Nat /\ i % grain \in 0 .. (grain - 1)
                      /\ i = grain * (i \div grain) + (i % grain)
    OBVIOUS
  <2>1. i \in Nat /\ i \div grain \in 0 .. (rows - 1) /\ i % grain \in 0 .. (grain - 1)
        /\ i = grain * (i \div grain) + (i % grain)
    BY TaskParts
  <2>2. i \div grain \in Nat
    BY <2>1
  <2> QED BY <2>1, <2>2
<1> HIDE DEF k, turns
<1>3. ASSUME NEW i \in turns
      PROVE  /\ \A cell \in k.input[i] : \E c \in program[i % grain].loads :
                  c \in RowCells(planes) /\ cell = Place(planes, i \div grain, c)
             /\ \A cell \in k.reads[i] : \E c \in RowCells(planes) :
                  cell = Place(planes, i \div grain, c)
             /\ \A cell \in k.writes[i] : \E c \in program[i % grain].writes :
                  c \in RowCells(planes) /\ cell = Place(planes, i \div grain, c)
  <2> DEFINE turn == program[i % grain]
  <2>1. /\ turn.loads \subseteq RowCells(planes) /\ turn.reads \subseteq RowCells(planes)
        /\ turn.writes \subseteq RowCells(planes)
    BY <1>2 DEF IsRowProgram
  <2>2. /\ k.input[i] = Placed(turn.loads, i \div grain)
        /\ k.reads[i] = Placed(turn.loads, i \div grain) \cup Placed(turn.reads, i \div grain)
        /\ k.writes[i] = Placed(turn.writes, i \div grain)
    BY <1>1
  <2> HIDE DEF turn
  <2> QED BY <2>1, <2>2 DEF turn
<1>4. RaceFree(k)
  <2> SUFFICES ASSUME NEW i \in turns, NEW j \in turns, i \div grain # j \div grain,
                      NEW cell \in k.writes[i], cell \in k.writes[j] \cup k.reads[j]
               PROVE  FALSE
    <3>1. k.grain = grain
      BY DEF k, RowsInPlace, InPlace
    <3> QED BY <1>1, <3>1 DEF RaceFree
  <2>1. PICK c \in RowCells(planes) : cell = Place(planes, i \div grain, c)
    BY <1>3
  <2>2. PICK d \in RowCells(planes) : cell = Place(planes, j \div grain, d)
    BY <1>3
  <2>3. i \div grain \in Nat /\ j \div grain \in Nat
    BY <1>2
  <2> QED BY <2>1, <2>2, <2>3, PlacesDiffer
<1>5. ReadsInputFirst(k)
  <2> SUFFICES ASSUME NEW i \in turns, NEW j \in turns, j < i,
                      NEW cell \in k.writes[j], cell \in k.input[i]
               PROVE  FALSE
    BY <1>1 DEF ReadsInputFirst
  <2>1. PICK c \in program[j % grain].writes :
          c \in RowCells(planes) /\ cell = Place(planes, j \div grain, c)
    BY <1>3
  <2>2. PICK d \in program[i % grain].loads :
          d \in RowCells(planes) /\ cell = Place(planes, i \div grain, d)
    BY <1>3
  <2>a. i \div grain \in Nat /\ j \div grain \in Nat
    BY <1>2
  <2>3. j \div grain = i \div grain /\ c = d
    BY <2>1, <2>2, <2>a, PlacesDiffer
  <2>4. j % grain < i % grain
    <3> DEFINE q == i \div grain  r == i % grain  s == j % grain
    <3>1. i = grain * q + r /\ j = grain * q + s /\ q \in Nat
          /\ r \in 0 .. (grain - 1) /\ s \in 0 .. (grain - 1)
      BY <1>2, <2>3
    <3>2. grain * q \in Nat
      BY <3>1
    <3> HIDE DEF q, r, s
    <3>3. s < r
      BY <3>1, <3>2
    <3> QED BY <3>3 DEF r, s
  <2> QED BY <1>2, <2>1, <2>2, <2>3, <2>4 DEF IsRowProgram
<1>6. FillsOutput(k)
  <2>1. \A a \in A : Span(a, 0, rows * planes[a])
                       = UNION {Span(a, row * planes[a], planes[a]) : row \in 0 .. (rows - 1)}
    BY SpanOfAllRows
  <2>2. ASSUME NEW cell
        PROVE  cell \in k.out <=>
                 \E row \in 0 .. (rows - 1) : \E c \in RowCells(planes) :
                   cell = Place(planes, row, c)
    <3>1. ASSUME NEW row \in 0 .. (rows - 1), NEW c \in RowCells(planes)
          PROVE  Place(planes, row, c) \in k.out
      <4>0. PICK a \in A : \E x \in 0 .. (planes[a] - 1) :
              Place(planes, row, c) = <<a, row * planes[a] + x>>
        BY RowCell
      <4>1. PICK x \in 0 .. (planes[a] - 1) :
              Place(planes, row, c) = <<a, row * planes[a] + x>>
        BY <4>0
      <4>2. row * planes[a] \in Nat /\ planes[a] \in Nat
        OBVIOUS
      <4>3. Place(planes, row, c) \in Span(a, row * planes[a], planes[a])
        BY <4>1, <4>2 DEF Span
      <4> QED BY <1>1, <2>1, <4>3
    <3>2. ASSUME cell \in k.out
          PROVE  \E row \in 0 .. (rows - 1) : \E c \in RowCells(planes) :
                   cell = Place(planes, row, c)
      <4>1. PICK a \in A, row \in 0 .. (rows - 1) : cell \in Span(a, row * planes[a], planes[a])
        BY <1>1, <2>1, <3>2
      <4>2. row * planes[a] \in Nat /\ planes[a] \in Nat
        OBVIOUS
      <4>3. PICK y \in row * planes[a] .. (row * planes[a] + planes[a] - 1) : cell = <<a, y>>
        BY <4>1, <4>2 DEF Span
      <4> DEFINE x == y - row * planes[a]
      <4>4. x \in 0 .. (planes[a] - 1) /\ y = row * planes[a] + x
        BY <4>2, <4>3
      <4> HIDE DEF x
      <4>5. <<a, x>> \in RowCells(planes)
        <5>1. <<a, x>> \in Span(a, 0, planes[a])
          BY <4>2, <4>4 DEF Span
        <5> QED BY <5>1 DEF RowCells
      <4>6. cell = Place(planes, row, <<a, x>>)
        BY <4>3, <4>4 DEF Place
      <4> QED BY <4>5, <4>6
    <3> QED BY <3>1, <3>2
  <2>3. ASSUME NEW row \in 0 .. (rows - 1), NEW c \in RowCells(planes)
        PROVE  \E i \in turns : Place(planes, row, c) \in k.writes[i]
    <3>1. PICK j \in 0 .. (grain - 1) : c \in program[j].writes
      BY DEF IsRowProgram
    <3> DEFINE i == TaskNumber(grain, row, j)
    <3>2. i \in turns
      BY TaskInRange DEF turns
    <3>3. row \in Nat
      OBVIOUS
    <3>4. i \div grain = row /\ i % grain = j
      BY <3>3, PartsOfTask
    <3> HIDE DEF i
    <3>5. Place(planes, row, c) \in k.writes[i]
      BY <1>1, <3>1, <3>2, <3>4
    <3> QED BY <3>2, <3>5
  <2>4. ASSUME NEW i \in turns, NEW cell \in k.writes[i] PROVE cell \in k.out
    BY <1>2, <1>3, <2>2
  <2>5. \A cell \in k.out : \E i \in turns : cell \in k.writes[i]
    BY <2>2, <2>3
  <2>6. k.out = UNION {k.writes[i] : i \in turns}
    BY <2>4, <2>5
  <2> QED BY <1>1, <2>6 DEF FillsOutput
<1> QED BY <1>4, <1>5, <1>6 DEF Regular, k

\* The row kernels that may be called in place, for every shape: softmax, the residual
\* seam of rms_norm_residual_next, the rotation to split pairs, the elementwise updates
\* and the rotations that go through a buffer load nothing that they have overwritten.
THEOREM InPlaceKernelsRegular ==
  ASSUME NEW rows \in Nat, NEW width \in Nat, NEW heads \in Nat, NEW a, NEW route
  PROVE  /\ Regular(Softmax(rows, width))
         /\ Regular(RmsNormResidualNext(rows, width))
         /\ Regular(RopeInterleavedToSplit(rows, heads, 2 * width))
         /\ Regular(UpdatedInPlace(rows, route, a))
         /\ Regular(BufferedInPlace(rows, width, route, a))
<1>1. Regular(Softmax(rows, width))
  <2> DEFINE planes == [y |-> width]
             row == Span("y", 0, width)
             program ==
               [j \in 0 .. (width + 1) |->
                  CASE j = 0 -> Turn(row, {}, {})
                    [] j \in 1 .. width -> Turn({<<"y", j - 1>>}, {}, {<<"y", j - 1>>})
                    [] j = width + 1 -> Turn({}, row, row)]
  <2>1. planes \in [{"y"} -> Nat] /\ RowCells(planes) = row
    BY DEF RowCells
  <2>2. /\ IsTurn(program[0], row, {}, {})
        /\ \A j \in 1 .. width :
             IsTurn(program[j], {<<"y", j - 1>>}, {}, {<<"y", j - 1>>})
        /\ IsTurn(program[width + 1], {}, row, row)
    BY TurnFields
  <2>3. \A j \in 0 .. (width + 1) : j = 0 \/ j \in 1 .. width \/ j = width + 1
    OBVIOUS
  <2>4. \A j \in 1 .. width : <<"y", j - 1>> \in row
    BY DEF Span
  <2> HIDE DEF row, program, planes
  <2>5. IsRowProgram(width + 2, planes, program)
    <3>1. width + 2 - 1 = width + 1
      OBVIOUS
    <3>2. \A j \in 0 .. (width + 1) : /\ program[j].loads \subseteq row
                                      /\ program[j].reads \subseteq row
                                      /\ program[j].writes \subseteq row
      BY <2>2, <2>3, <2>4 DEF IsTurn
    <3>3. \A i, j \in 0 .. (width + 1) : j < i => program[j].writes \cap program[i].loads = {}
      <4> SUFFICES ASSUME NEW i \in 0 .. (width + 1), NEW j \in 0 .. (width + 1), j < i
                   PROVE  program[j].writes \cap program[i].loads = {}
        OBVIOUS
      <4>1. j = 0 \/ i = width + 1 \/ (j \in 1 .. width /\ i \in 1 .. width)
        OBVIOUS
      <4>2. CASE j = 0
        BY <2>2, <4>2 DEF IsTurn
      <4>3. CASE i = width + 1
        BY <2>2, <4>3 DEF IsTurn
      <4>4. CASE j \in 1 .. width /\ i \in 1 .. width
        <5>1. j - 1 # i - 1
          BY <4>4
        <5>2. program[j].writes = {<<"y", j - 1>>} /\ program[i].loads = {<<"y", i - 1>>}
          BY <2>2, <4>4 DEF IsTurn
        <5> QED BY <5>1, <5>2
      <4> QED BY <4>1, <4>2, <4>3, <4>4
    <3>4. \A c \in row : c \in program[width + 1].writes
      BY <2>2 DEF IsTurn
    <3> QED BY <2>1, <3>1, <3>2, <3>3, <3>4 DEF IsRowProgram
  <2>6. Softmax(rows, width) = RowsInPlace(rows, width + 2, "parallel", planes, program)
    BY DEF Softmax, planes, program, row
  <2> QED BY <2>1, <2>5, <2>6, RowsInPlaceRegular
<1>2. Regular(RmsNormResidualNext(rows, width))
  <2> DEFINE planes == [residual_out |-> width, next_out |-> width]
             row == Span("residual_out", 0, width)
             next == Span("next_out", 0, width)
             program ==
               [j \in 0 .. (width + 1) |->
                  CASE j = 0 -> Turn(row, {}, {})
                    [] j \in 1 .. width -> AddResidual(j - 1)
                    [] j = width + 1 -> Turn({}, row, next)]
             Residual(item) == {<<"residual_out", item>>}
  <2>1. /\ planes \in [{"residual_out", "next_out"} -> Nat]
        /\ RowCells(planes) = row \cup next
    BY DEF RowCells
  <2>2. /\ IsTurn(program[0], row, {}, {})
        /\ \A j \in 1 .. width :
             IsTurn(program[j], Residual(j - 1), {}, Residual(j - 1))
        /\ IsTurn(program[width + 1], {}, row, next)
    <3>1. program[0] = Turn(row, {}, {})
      OBVIOUS
    <3>2. \A j \in 1 .. width : program[j] = Turn(Residual(j - 1), {}, Residual(j - 1))
      BY DEF AddResidual
    <3>3. program[width + 1] = Turn({}, row, next)
      OBVIOUS
    <3> HIDE DEF program, row, next
    <3> QED BY <3>1, <3>2, <3>3, TurnFields
  <2>3. \A j \in 0 .. (width + 1) : j = 0 \/ j \in 1 .. width \/ j = width + 1
    OBVIOUS
  <2>4. /\ \A j \in 1 .. width : Residual(j - 1) \subseteq row
        /\ \A c \in row : \E j \in 1 .. width : c \in Residual(j - 1)
    <3>1. ASSUME NEW c \in row PROVE \E j \in 1 .. width : c \in Residual(j - 1)
      <4>1. PICK x \in 0 .. (width - 1) : c = <<"residual_out", x>>
        BY DEF Span
      <4>2. x + 1 \in 1 .. width /\ x = x + 1 - 1
        OBVIOUS
      <4> QED BY <4>1, <4>2
    <3>2. \A j \in 1 .. width : Residual(j - 1) \subseteq row
      BY DEF Span
    <3> QED BY <3>1, <3>2
  <2>a. \A i, j \in 1 .. width : j < i => Residual(j - 1) \cap Residual(i - 1) = {}
    <3> SUFFICES ASSUME NEW i \in 1 .. width, NEW j \in 1 .. width, j < i
                 PROVE  Residual(j - 1) \cap Residual(i - 1) = {}
      OBVIOUS
    <3>1. j - 1 # i - 1
      OBVIOUS
    <3> QED BY <3>1
  <2> HIDE DEF row, next, program, planes, Residual
  <2>5. IsRowProgram(width + 2, planes, program)
    <3>1. width + 2 - 1 = width + 1
      OBVIOUS
    <3>2. \A j \in 0 .. (width + 1) : /\ program[j].loads \subseteq row \cup next
                                      /\ program[j].reads \subseteq row \cup next
                                      /\ program[j].writes \subseteq row \cup next
      BY <2>2, <2>3, <2>4 DEF IsTurn
    <3>3. \A i, j \in 0 .. (width + 1) : j < i => program[j].writes \cap program[i].loads = {}
      <4> SUFFICES ASSUME NEW i \in 0 .. (width + 1), NEW j \in 0 .. (width + 1), j < i
                   PROVE  program[j].writes \cap program[i].loads = {}
        OBVIOUS
      <4>1. j = 0 \/ i = width + 1 \/ (j \in 1 .. width /\ i \in 1 .. width)
        OBVIOUS
      <4>2. CASE j = 0
        BY <2>2, <4>2 DEF IsTurn
      <4>3. CASE i = width + 1
        BY <2>2, <4>3 DEF IsTurn
      <4>4. CASE j \in 1 .. width /\ i \in 1 .. width
        BY <2>2, <2>a, <4>4 DEF IsTurn
      <4> QED BY <4>1, <4>2, <4>3, <4>4
    <3>4. \A c \in row \cup next : \E j \in 0 .. (width + 1) : c \in program[j].writes
      <4>1. \A c \in next : c \in program[width + 1].writes
        BY <2>2 DEF IsTurn
      <4>2. \A c \in row : \E j \in 1 .. width : c \in program[j].writes
        BY <2>2, <2>4 DEF IsTurn
      <4> QED BY <4>1, <4>2
    <3> QED BY <2>1, <3>1, <3>2, <3>3, <3>4 DEF IsRowProgram
  <2>6. RmsNormResidualNext(rows, width)
          = RowsInPlace(rows, width + 2, "parallel", planes, program)
    BY DEF RmsNormResidualNext, planes, program, row, next
  <2> QED BY <2>1, <2>5, <2>6, RowsInPlaceRegular
<1>3. Regular(RopeInterleavedToSplit(rows, heads, 2 * width))
  <2> DEFINE planes == [y |-> 2 * width]
             row == Span("y", 0, 2 * width)
             Stored(pair) == {<<"y", pair>>, <<"y", width + pair>>}
             program ==
               [j \in 0 .. width |->
                  IF j = 0 THEN Turn(row, {}, {}) ELSE Turn({}, {}, Stored(j - 1))]
  <2>1. planes \in [{"y"} -> Nat] /\ RowCells(planes) = row
    BY DEF RowCells
  <2>2. /\ IsTurn(program[0], row, {}, {})
        /\ \A j \in 1 .. width : IsTurn(program[j], {}, {}, Stored(j - 1))
    BY TurnFields
  <2>3. /\ \A j \in 1 .. width : Stored(j - 1) \subseteq row
        /\ \A c \in row : \E j \in 1 .. width : c \in Stored(j - 1)
    <3>1. ASSUME NEW j \in 1 .. width PROVE Stored(j - 1) \subseteq row
      BY DEF Span
    <3>2. ASSUME NEW c \in row PROVE \E j \in 1 .. width : c \in Stored(j - 1)
      <4>1. PICK x \in 0 .. (2 * width - 1) : c = <<"y", x>>
        BY DEF Span
      <4>2. CASE x < width
        <5>1. x + 1 \in 1 .. width /\ x = x + 1 - 1
          BY <4>2
        <5> QED BY <4>1, <5>1
      <4>3. CASE ~(x < width)
        <5> DEFINE j == x - width + 1
        <5>1. j \in 1 .. width /\ x = width + (j - 1)
          BY <4>3
        <5> HIDE DEF j
        <5>2. c \in Stored(j - 1)
          BY <4>1, <5>1
        <5> QED BY <5>1, <5>2
      <4> QED BY <4>2, <4>3
    <3> QED BY <3>1, <3>2
  <2> HIDE DEF row, Stored, program, planes
  <2>4. IsRowProgram(width + 1, planes, program)
    <3>1. width + 1 - 1 = width /\ \A j \in 0 .. width : j = 0 \/ j \in 1 .. width
      OBVIOUS
    <3>2. \A j \in 0 .. width : /\ program[j].loads \subseteq row
                                /\ program[j].reads \subseteq row
                                /\ program[j].writes \subseteq row
      BY <2>2, <2>3, <3>1 DEF IsTurn
    <3>3. \A i, j \in 0 .. width : j < i => program[j].writes \cap program[i].loads = {}
      <4> SUFFICES ASSUME NEW i \in 0 .. width, NEW j \in 0 .. width, j < i
                   PROVE  program[j].writes \cap program[i].loads = {}
        OBVIOUS
      <4>1. i \in 1 .. width
        OBVIOUS
      <4> QED BY <2>2, <4>1 DEF IsTurn
    <3>4. \A c \in row : \E j \in 0 .. width : c \in program[j].writes
      <4>1. \A j \in 1 .. width : j \in 0 .. width
        OBVIOUS
      <4>2. \A j \in 1 .. width : program[j].writes = Stored(j - 1)
        BY <2>2 DEF IsTurn
      <4> QED BY <2>3, <4>1, <4>2
    <3> QED BY <2>1, <3>1, <3>2, <3>3, <3>4 DEF IsRowProgram
  <2>5. RopeInterleavedToSplit(rows, heads, 2 * width)
          = RowsInPlace(rows * heads, width + 1, "parallel", planes, program)
    <3>1. (2 * width) \div 2 = width
      OBVIOUS
    <3> QED BY <3>1 DEF RopeInterleavedToSplit, planes, program, row, Stored
  <2>6. rows * heads \in Nat /\ width + 1 \in Nat \ {0}
    OBVIOUS
  <2> QED BY <2>1, <2>4, <2>5, <2>6, RowsInPlaceRegular
<1>4. Regular(UpdatedInPlace(rows, route, a))
  <2> DEFINE planes == [x \in {a} |-> 1]
             program == [j \in {0} |-> Turn({<<a, 0>>}, {}, {<<a, 0>>})]
  <2>1. planes \in [{a} -> Nat] /\ RowCells(planes) = {<<a, 0>>}
    BY DEF RowCells, Span
  <2>2. IsRowProgram(1, planes, program)
    <3> HIDE DEF planes
    <3>1. 0 .. (1 - 1) = {0} /\ program[0] = Turn({<<a, 0>>}, {}, {<<a, 0>>})
      OBVIOUS
    <3> HIDE DEF program
    <3> QED BY <2>1, <3>1 DEF IsRowProgram, Turn
  <2>3. UpdatedInPlace(rows, route, a) = RowsInPlace(rows, 1, route, planes, program)
    BY DEF UpdatedInPlace
  <2> HIDE DEF planes, program
  <2> QED BY <2>1, <2>2, <2>3, RowsInPlaceRegular
<1>5. Regular(BufferedInPlace(rows, width, route, a))
  <2> DEFINE planes == [x \in {a} |-> width]
             row == Span(a, 0, width)
             program == [j \in 0 .. 1 |-> IF j = 0 THEN Turn(row, {}, {})
                                                   ELSE Turn({}, {}, row)]
  <2>1. planes \in [{a} -> Nat] /\ RowCells(planes) = row
    BY DEF RowCells
  <2>2. program[0] = Turn(row, {}, {}) /\ program[1] = Turn({}, {}, row)
    OBVIOUS
  <2> HIDE DEF planes, row, program
  <2>3. IsRowProgram(2, planes, program)
    <3>1. 0 .. (2 - 1) = {0, 1}
      OBVIOUS
    <3> QED BY <2>1, <2>2, <3>1 DEF IsRowProgram, Turn
  <2>4. BufferedInPlace(rows, width, route, a) = RowsInPlace(rows, 2, route, planes, program)
    BY DEF BufferedInPlace, planes, program, row
  <2> QED BY <2>1, <2>3, <2>4, RowsInPlaceRegular
<1> QED BY <1>1, <1>2, <1>3, <1>4, <1>5

\* A turn of a recurrence is a task, a token and a row of the task's state.
LEMMA TurnParts ==
  ASSUME NEW T \in Nat \ {0}, NEW D \in Nat \ {0}, NEW i \in Nat
  PROVE  /\ i \div (T * D) \in Nat /\ (i \div D) % T \in 0 .. (T - 1)
         /\ i % D \in 0 .. (D - 1)
         /\ i = ((i \div (T * D)) * T + ((i \div D) % T)) * D + (i % D)
<1> DEFINE m == i \div D  r == i % D  q == m \div T  k == m % T
<1>1. m \in Nat /\ r \in 0 .. (D - 1) /\ i = D * m + r
  BY DivMod
<1> HIDE DEF m, r
<1>2. q \in Nat /\ k \in 0 .. (T - 1) /\ m = T * q + k
  BY <1>1, DivMod
<1> HIDE DEF q, k
<1>3. TaskNumber(D, k, r) \in 0 .. (T * D - 1)
  BY <1>1, <1>2, TaskInRange
<1>4. T * D \in Nat \ {0}
  <2>1. T * D \in Nat
    OBVIOUS
  <2> QED BY <1>3, <2>1
<1>5. i = TaskNumber(T * D, q, TaskNumber(D, k, r))
  <2>1. i = D * (T * q + k) + r
    BY <1>1, <1>2
  <2>2. D * (T * q + k) = q * (T * D) + k * D
    BY <1>1, <1>2
  <2>3. q * (T * D) \in Nat /\ k * D \in Nat
    BY <1>2
  <2>4. r \in Nat
    BY <1>1
  <2>5. i = q * (T * D) + (k * D + r)
    BY <2>1, <2>2, <2>3, <2>4
  <2> QED BY <2>5 DEF TaskNumber
<1>6. i \div (T * D) = q
  BY <1>2, <1>3, <1>4, <1>5, PartsOfTask
<1>7. i = (q * T + k) * D + r
  <2>1. T * q = q * T /\ D * m = m * D /\ m = q * T + k
    BY <1>1, <1>2
  <2> QED BY <1>1, <2>1
<1>8. m = i \div D /\ r = i % D /\ k = (i \div D) % T
  BY DEF m, r, k
<1> QED BY <1>1, <1>2, <1>6, <1>7, <1>8

\* Every task, token and row has its turn.
EveryTurn(N, T, D) ==
  \A q \in 0 .. (N - 1), k \in 0 .. (T - 1), r \in 0 .. (D - 1) :
    \E i \in 0 .. (N * T * D - 1) :
      i \div (T * D) = q /\ (i \div D) % T = k /\ i % D = r

LEMMA TurnOf ==
  ASSUME NEW N \in Nat, NEW T \in Nat \ {0}, NEW D \in Nat \ {0}
  PROVE  EveryTurn(N, T, D)
<1> SUFFICES ASSUME NEW q \in 0 .. (N - 1), NEW k \in 0 .. (T - 1), NEW r \in 0 .. (D - 1)
             PROVE  \E i \in 0 .. (N * T * D - 1) :
                      i \div (T * D) = q /\ (i \div D) % T = k /\ i % D = r
  BY DEF EveryTurn
<1> DEFINE m == TaskNumber(T, q, k)  i == TaskNumber(D, m, r)
<1>1. m \in 0 .. (N * T - 1) /\ N * T \in Nat
  <2>1. N * T \in Nat
    OBVIOUS
  <2> QED BY <2>1, TaskInRange
<1>2. m \div T = q /\ m % T = k
  <2>1. q \in Nat
    OBVIOUS
  <2> QED BY <2>1, PartsOfTask
<1>3. m \in Nat
  BY <1>1
<1> HIDE DEF m
<1>4. i \in 0 .. ((N * T) * D - 1)
  BY <1>1, TaskInRange
<1>5. i \div D = m /\ i % D = r
  BY <1>3, PartsOfTask
<1>6. N * T * D \in Nat
  BY <1>1
<1>7. i \in Nat
  BY <1>4
<1> HIDE DEF i
<1> DEFINE t == i \div (T * D)
<1>8. /\ t \in Nat /\ k \in 0 .. (T - 1)
      /\ i = (t * T + k) * D + r
  <2>1. t \in Nat /\ i = (t * T + ((i \div D) % T)) * D + (i % D)
    BY <1>7, TurnParts
  <2>2. (i \div D) % T = k /\ i % D = r
    BY <1>2, <1>5
  <2> QED BY <2>1, <2>2
<1> HIDE DEF t
<1>9. t * T + k \in Nat
  BY <1>8
<1>10. m = t * T + k
  <2>1. i = D * m + r /\ i = D * (t * T + k) + r
    <3>1. i = m * D + r
      BY <1>4, <1>7, <1>5, <1>3, DivMod
    <3> QED BY <1>3, <1>8, <1>9, <3>1
  <2>2. (D * (t * T + k) + r) \div D = t * T + k
    BY <1>9, DivModUnique
  <2> QED BY <1>5, <2>1, <2>2
<1>11. m = q * T + k
  BY DEF m, TaskNumber
<1>12. t = q
  BY <1>8, <1>10, <1>11, TileIndexDiffers
<1> QED BY <1>2, <1>4, <1>5, <1>12 DEF t

\* A column of a token belongs to one task, and each task and token has its own.
LEMMA TokenColumns ==
  ASSUME NEW sequences \in Nat, NEW T \in Nat \ {0}, NEW heads \in Nat \ {0},
         NEW q \in 0 .. (sequences * heads - 1), NEW k \in 0 .. (T - 1)
  PROVE  /\ ((q \div heads) * T + k) * heads + (q % heads)
              \in 0 .. (sequences * heads * T - 1)
         /\ \A p \in 0 .. (sequences * heads - 1), l \in 0 .. (T - 1) :
              p # q => ((p \div heads) * T + l) * heads + (p % heads)
                         # ((q \div heads) * T + k) * heads + (q % heads)
<1> DEFINE s == q \div heads  h == q % heads  m == s * T + k
<1>1. /\ q \in Nat /\ s \in 0 .. (sequences - 1) /\ h \in 0 .. (heads - 1)
      /\ q = heads * s + h
  BY TaskParts
<1> HIDE DEF s, h
<1>2. m \in 0 .. (sequences * T - 1) /\ sequences * T \in Nat /\ m \in Nat
  <2>1. TaskNumber(T, s, k) \in 0 .. (sequences * T - 1) /\ sequences * T \in Nat
    BY <1>1, TaskInRange
  <2> QED BY <2>1 DEF TaskNumber
<1> HIDE DEF m
<1>3. m * heads + h \in 0 .. (sequences * heads * T - 1)
  <2>1. TaskNumber(heads, m, h) \in 0 .. ((sequences * T) * heads - 1)
    BY <1>1, <1>2, TaskInRange
  <2>2. (sequences * T) * heads = sequences * heads * T
    OBVIOUS
  <2> QED BY <2>1, <2>2 DEF TaskNumber
<1>4. ASSUME NEW p \in 0 .. (sequences * heads - 1), NEW l \in 0 .. (T - 1), p # q
      PROVE  ((p \div heads) * T + l) * heads + (p % heads) # m * heads + h
  <2> DEFINE u == p \div heads  g == p % heads  n == u * T + l
  <2>1. /\ u \in 0 .. (sequences - 1) /\ g \in 0 .. (heads - 1)
        /\ p = heads * u + g
    BY TaskParts
  <2> HIDE DEF u, g
  <2>2. u # s \/ g # h
    BY <1>1, <1>4, <2>1
  <2>3. n \in Nat
    BY <2>1
  <2>4. n # m \/ g # h
    <3>1. CASE u = s
      BY <2>2, <3>1
    <3>2. CASE u # s
      <4>1. u * T + l # s * T + k
        BY <1>1, <2>1, <3>2, SlotRowsDiffer
      <4> QED BY <4>1 DEF m
    <3> QED BY <3>1, <3>2
  <2> HIDE DEF n
  <2>5. n * heads + g # m * heads + h
    BY <1>1, <1>2, <2>1, <2>3, <2>4, SlotRowsDiffer
  <2> QED BY <2>5 DEF n, u, g
<1> QED BY <1>3, <1>4 DEF m, s, h

\* Every column of the output belongs to a task and a token.
EveryColumn(N, T, heads) ==
  \A x \in 0 .. (N * T - 1) : \E q \in 0 .. (N - 1), k \in 0 .. (T - 1) :
    x = ((q \div heads) * T + k) * heads + (q % heads)

LEMMA TaskOfColumn ==
  ASSUME NEW sequences \in Nat, NEW T \in Nat \ {0}, NEW heads \in Nat \ {0}
  PROVE  EveryColumn(sequences * heads, T, heads)
<1> SUFFICES ASSUME NEW x \in 0 .. (sequences * heads * T - 1)
             PROVE  \E q \in 0 .. (sequences * heads - 1), k \in 0 .. (T - 1) :
                      x = ((q \div heads) * T + k) * heads + (q % heads)
  BY DEF EveryColumn
<1>1. sequences * heads * T = (sequences * T) * heads /\ sequences * T \in Nat
  OBVIOUS
<1>2. x \in 0 .. ((sequences * T) * heads - 1)
  BY <1>1
<1> DEFINE m == x \div heads  h == x % heads
<1>3. m \in 0 .. (sequences * T - 1) /\ h \in 0 .. (heads - 1) /\ x = heads * m + h
  BY <1>1, <1>2, TaskParts
<1> HIDE DEF m, h
<1> DEFINE s == m \div T  k == m % T
<1>4. s \in 0 .. (sequences - 1) /\ k \in 0 .. (T - 1) /\ m = T * s + k
  BY <1>3, TaskParts
<1> HIDE DEF s, k
<1> DEFINE q == TaskNumber(heads, s, h)
<1>5. q \in 0 .. (sequences * heads - 1)
  BY <1>3, <1>4, TaskInRange
<1>6. q \div heads = s /\ q % heads = h
  <2>1. s \in Nat
    BY <1>4
  <2> QED BY <1>3, <2>1, PartsOfTask
<1> HIDE DEF q
<1>7. x = (s * T + k) * heads + h
  <2>1. T * s = s * T /\ m = s * T + k /\ heads * m = m * heads
    BY <1>3, <1>4
  <2> QED BY <1>3, <2>1
<1> QED BY <1>4, <1>5, <1>6, <1>7

\* The recurrences of llama_recurrent_ref, called with the final state in the array of
\* the initial one: heads of sequences share neither a state nor a column of the output,
\* every row of a state is loaded before it is stored for the first time, and the tasks
\* together produce every state and every token.
THEOREM RecurrentHeadsRegular ==
  ASSUME NEW sequences \in Nat, NEW tokens \in Nat \ {0}, NEW heads \in Nat \ {0},
         NEW dim \in Nat \ {0}, NEW sums \in BOOLEAN
  PROVE  Regular(RecurrentHeads(sequences, tokens, heads, dim, sums))
<1> DEFINE k == RecurrentHeads(sequences, tokens, heads, dim, sums)
           N == sequences * heads
           turns == 0 .. (N * tokens * dim - 1)
           Task(i) == i \div (tokens * dim)
           Token(i) == (i \div dim) % tokens
           Row(i) == i % dim
           Line(i) == Task(i) * dim + Row(i)
           Column(i) ==
             ((Task(i) \div heads) * tokens + Token(i)) * heads + (Task(i) % heads)
           State(i) == Span("final_state", Line(i) * dim, dim)
           Output(i) == IF sums THEN Span("output", Column(i) * dim, dim)
                                ELSE {<<"output", Column(i) * dim + Row(i)>>}
<1>1. /\ ItemsOfKernel(k) = turns /\ k.grain = tokens * dim
      /\ \A i \in turns :
           /\ k.input[i] = IF Token(i) = 0 THEN State(i) ELSE {}
           /\ k.reads[i] \subseteq State(i) \cup Output(i)
           /\ k.writes[i] = State(i) \cup Output(i)
      /\ k.out = Span("final_state", 0, N * dim * dim)
                 \cup Span("output", 0, N * tokens * dim)
  <2>1. N * (tokens * dim) = N * tokens * dim
    OBVIOUS
  <2>2. ItemsOfKernel(k) = 0 .. (N * (tokens * dim) - 1) /\ k.grain = tokens * dim
    BY DEF RecurrentHeads, InPlace, ItemsOfKernel
  <2>3. \A i \in turns :
          /\ k.input[i] = IF Token(i) = 0 THEN State(i) ELSE {}
          /\ k.writes[i] = State(i) \cup Output(i)
    BY DEF RecurrentHeads, InPlace
  <2>4. \A i \in turns :
          k.reads[i] = (IF Token(i) = 0 THEN State(i) ELSE {})
                       \cup ((IF Token(i) > 0 THEN State(i) ELSE {})
                             \cup (IF sums /\ Row(i) > 0 THEN Output(i) ELSE {}))
    BY <2>1 DEF RecurrentHeads, InPlace
  <2>5. k.out = Span("final_state", 0, N * dim * dim)
                \cup Span("output", 0, N * tokens * dim)
    BY DEF RecurrentHeads, InPlace
  <2> HIDE DEF k, Task, Token, Row, State, Output
  <2> QED BY <2>1, <2>2, <2>3, <2>4, <2>5
<1>2. ASSUME NEW i \in turns
      PROVE  /\ i \in Nat /\ Task(i) \in 0 .. (N - 1) /\ Task(i) \in Nat
             /\ Token(i) \in 0 .. (tokens - 1) /\ Row(i) \in 0 .. (dim - 1)
             /\ i = (Task(i) * tokens + Token(i)) * dim + Row(i)
  <2>1. N \in Nat /\ tokens * dim \in Nat \ {0} /\ N * tokens * dim = N * (tokens * dim)
    <3>1. tokens * dim # 0
      <4>1. 1 * dim <= tokens * dim
        BY ProductMonotone
      <4> QED BY <4>1
    <3> QED BY <3>1
  <2>2. i \in 0 .. (N * (tokens * dim) - 1)
    BY <2>1
  <2> HIDE DEF N
  <2>3. i \in Nat /\ Task(i) \in 0 .. (N - 1)
    BY <2>1, <2>2, TaskParts
  <2>4. /\ Token(i) \in 0 .. (tokens - 1) /\ Row(i) \in 0 .. (dim - 1)
        /\ i = (Task(i) * tokens + Token(i)) * dim + Row(i)
    BY <2>3, TurnParts
  <2> QED BY <2>1, <2>3, <2>4
<1>a. N \in Nat /\ N * dim \in Nat /\ N * tokens \in Nat
  OBVIOUS
<1>b. \A q \in 0 .. (N - 1), t \in 0 .. (tokens - 1), r \in 0 .. (dim - 1) :
        \E i \in turns : Task(i) = q /\ Token(i) = t /\ Row(i) = r
  <2>1. EveryTurn(N, tokens, dim)
    <3> HIDE DEF N
    <3> QED BY <1>a, TurnOf
  <2> QED BY <2>1, Zenon DEF EveryTurn
<1>3. ASSUME NEW i \in turns
      PROVE  /\ Line(i) \in 0 .. (N * dim - 1)
             /\ Column(i) \in 0 .. (N * tokens - 1)
  <2> HIDE DEF Task, Token, Row, turns
  <2>1. TaskNumber(dim, Task(i), Row(i)) \in 0 .. (N * dim - 1)
    <3> HIDE DEF N
    <3> QED BY <1>2, <1>a, TaskInRange
  <2>2. Column(i) \in 0 .. (sequences * heads * tokens - 1)
    BY <1>2, TokenColumns
  <2> QED BY <2>1, <2>2 DEF TaskNumber
<1>4. ASSUME NEW i \in turns, NEW j \in turns, Task(i) # Task(j)
      PROVE  Line(i) # Line(j) /\ Column(i) # Column(j)
  <2> HIDE DEF Task, Token, Row, turns
  <2>0. /\ Task(i) \in 0 .. (N - 1) /\ Token(i) \in 0 .. (tokens - 1)
        /\ Task(j) \in 0 .. (N - 1) /\ Token(j) \in 0 .. (tokens - 1)
        /\ Task(i) \in Nat /\ Row(i) \in 0 .. (dim - 1)
        /\ Task(j) \in Nat /\ Row(j) \in 0 .. (dim - 1)
    BY <1>2
  <2>1. Line(i) # Line(j)
    BY <1>4, <2>0, SlotRowsDiffer
  <2>2. Column(i) # Column(j)
    BY <1>4, <2>0, TokenColumns
  <2> QED BY <2>1, <2>2
<1>5. ASSUME NEW i \in turns, NEW c \in State(i)
      PROVE  \E x \in Line(i) * dim .. (Line(i) * dim + dim - 1) : c = <<"final_state", x>>
  BY DEF Span
<1>6. ASSUME NEW i \in turns, NEW c \in Output(i)
      PROVE  \E x \in Column(i) * dim .. (Column(i) * dim + dim - 1) : c = <<"output", x>>
  <2>1. CASE sums
    BY <2>1 DEF Span
  <2>2. CASE ~sums
    <3>1. c = <<"output", Column(i) * dim + Row(i)>>
      BY <2>2
    <3> HIDE DEF Column
    <3>2. Column(i) * dim \in Nat
      BY <1>3, <1>a
    <3>3. Row(i) \in 0 .. (dim - 1)
      BY <1>2
    <3> DEFINE base == Column(i) * dim
    <3> HIDE DEF Row, base
    <3>4. base + Row(i) \in base .. (base + dim - 1)
      BY <3>2, <3>3 DEF base
    <3> QED BY <3>1, <3>4 DEF base
  <2> QED BY <2>1, <2>2
<1> HIDE DEF k, Task, Token, Row, Line, Column, State, Output, turns, N
<1>7. ASSUME NEW i \in turns, NEW j \in turns, NEW c \in State(i), c \in State(j)
      PROVE  Line(i) = Line(j)
  <2>1. PICK x \in Line(i) * dim .. (Line(i) * dim + dim - 1) : c = <<"final_state", x>>
    BY <1>5
  <2>2. x \in Line(j) * dim .. (Line(j) * dim + dim - 1)
    BY <1>5, <1>7, <2>1
  <2>3. Line(i) \in Nat /\ Line(j) \in Nat
    BY <1>3
  <2> QED BY <2>1, <2>2, <2>3, RowsDisjoint
<1>8. ASSUME NEW i \in turns, NEW j \in turns, NEW c \in Output(i), c \in Output(j)
      PROVE  Column(i) = Column(j)
  <2>1. PICK x \in Column(i) * dim .. (Column(i) * dim + dim - 1) : c = <<"output", x>>
    BY <1>6
  <2>2. x \in Column(j) * dim .. (Column(j) * dim + dim - 1)
    BY <1>6, <1>8, <2>1
  <2>3. Column(i) \in Nat /\ Column(j) \in Nat
    BY <1>3
  <2> QED BY <2>1, <2>2, <2>3, RowsDisjoint
<1>9. ASSUME NEW i \in turns, NEW j \in turns, NEW c \in State(i) PROVE c \notin Output(j)
  <2>1. \E x : c = <<"final_state", x>>
    BY <1>5
  <2> SUFFICES ASSUME c \in Output(j) PROVE FALSE
    OBVIOUS
  <2>2. \E x : c = <<"output", x>>
    BY <1>6
  <2> QED BY <2>1, <2>2
<1>10. RaceFree(k)
  <2> SUFFICES ASSUME NEW i \in turns, NEW j \in turns, Task(i) # Task(j),
                      NEW c \in State(i) \cup Output(i), c \in State(j) \cup Output(j)
               PROVE  FALSE
    <3>1. \A i \in turns : /\ k.writes[i] = State(i) \cup Output(i)
                           /\ k.writes[i] \cup k.reads[i] = State(i) \cup Output(i)
      BY <1>1
    <3>2. \A i : i \div k.grain = Task(i)
      BY <1>1 DEF Task
    <3> QED BY <1>1, <3>1, <3>2 DEF RaceFree
  <2>1. Line(i) # Line(j) /\ Column(i) # Column(j)
    BY <1>4
  <2> QED BY <1>7, <1>8, <1>9, <2>1
<1>11. ReadsInputFirst(k)
  <2> SUFFICES ASSUME NEW i \in turns, NEW j \in turns, j < i,
                      NEW c \in k.writes[j], c \in k.input[i]
               PROVE  FALSE
    BY <1>1 DEF ReadsInputFirst
  <2>1. Token(i) = 0 /\ c \in State(i)
    BY <1>1
  <2>2. c \in State(j)
    BY <1>1, <1>9, <2>1
  <2>3. Line(i) = Line(j)
    BY <1>7, <2>1, <2>2
  <2>4. Task(i) = Task(j) /\ Row(i) = Row(j)
    <3>1. /\ Task(i) \in Nat /\ Row(i) \in 0 .. (dim - 1)
          /\ Task(j) \in Nat /\ Row(j) \in 0 .. (dim - 1)
      BY <1>2
    <3>2. Task(i) * dim + Row(i) = Task(j) * dim + Row(j)
      BY <2>3 DEF Line
    <3> QED BY <3>1, <3>2, TileIndexDiffers
  <2> DEFINE base == Task(i) * tokens
  <2>5. base \in Nat
    BY <1>2
  <2>6. /\ i = (base + 0) * dim + Row(i)
        /\ j = (base + Token(j)) * dim + Row(i)
    BY <1>2, <2>1, <2>4
  <2>7. (base + 0) * dim <= (base + Token(j)) * dim
    <3>1. Token(j) \in Nat
      BY <1>2
    <3> HIDE DEF base
    <3> QED BY <2>5, <3>1, ProductMonotone
  <2>8. (base + 0) * dim \in Nat /\ (base + Token(j)) * dim \in Nat
    <3>1. Token(j) \in Nat
      BY <1>2
    <3> HIDE DEF base
    <3> QED BY <2>5, <3>1
  <2> HIDE DEF base
  <2> QED BY <1>2, <2>6, <2>7, <2>8
<1>12. FillsOutput(k)
  <2>1. Span("final_state", 0, N * dim * dim)
          = UNION {Span("final_state", x * dim, dim) : x \in 0 .. (N * dim - 1)}
    BY <1>a, SpanOfAllRows
  <2>2. Span("output", 0, N * tokens * dim)
          = UNION {Span("output", x * dim, dim) : x \in 0 .. (N * tokens - 1)}
    BY <1>a, SpanOfAllRows
  <2>3. ASSUME NEW i \in turns, NEW c \in k.writes[i] PROVE c \in k.out
    <3>1. c \in State(i) \/ c \in Output(i)
      BY <1>1
    <3>2. CASE c \in State(i)
      <4>1. c \in Span("final_state", Line(i) * dim, dim)
        BY <3>2 DEF State
      <4> QED BY <1>1, <1>3, <2>1, <4>1
    <3>3. CASE c \in Output(i)
      <4>1. c \in Span("output", Column(i) * dim, dim)
        BY <1>6, <3>3 DEF Span
      <4> QED BY <1>1, <1>3, <2>2, <4>1
    <3> QED BY <3>1, <3>2, <3>3
  <2>4. ASSUME NEW q \in 0 .. (N - 1), NEW t \in 0 .. (tokens - 1), NEW r \in 0 .. (dim - 1)
        PROVE  \E i \in turns : Task(i) = q /\ Token(i) = t /\ Row(i) = r
    BY <1>b
  <2>5. ASSUME NEW c \in Span("final_state", 0, N * dim * dim)
        PROVE  \E i \in turns : c \in k.writes[i]
    <3>1. PICK x \in 0 .. (N * dim - 1) : c \in Span("final_state", x * dim, dim)
      BY <2>1
    <3> DEFINE q == x \div dim  r == x % dim
    <3>2. q \in 0 .. (N - 1) /\ r \in 0 .. (dim - 1) /\ x = dim * q + r
      BY <1>a, TaskParts
    <3> HIDE DEF q, r
    <3>3. PICK i \in turns : Task(i) = q /\ Token(i) = 0 /\ Row(i) = r
      BY <2>4, <3>2
    <3>4. Line(i) = x
      BY <1>2, <3>2, <3>3 DEF Line
    <3> QED BY <1>1, <3>1, <3>4 DEF State
  <2>6. ASSUME NEW c \in Span("output", 0, N * tokens * dim)
        PROVE  \E i \in turns : c \in k.writes[i]
    <3>1. PICK x \in 0 .. (N * tokens - 1) : c \in Span("output", x * dim, dim)
      BY <2>2
    <3>2. PICK q \in 0 .. (N - 1), t \in 0 .. (tokens - 1) :
            x = ((q \div heads) * tokens + t) * heads + (q % heads)
      <4>1. EveryColumn(N, tokens, heads)
        BY TaskOfColumn DEF N
      <4> QED BY <4>1 DEF EveryColumn
    <3>3. x * dim \in Nat
      BY <1>a
    <3>4. PICK y \in x * dim .. (x * dim + dim - 1) : c = <<"output", y>>
      BY <3>1, <3>3 DEF Span
    <3> DEFINE r == y - x * dim
    <3>5. r \in 0 .. (dim - 1) /\ y = x * dim + r
      BY <3>3, <3>4
    <3> HIDE DEF r
    <3>6. PICK i \in turns : Task(i) = q /\ Token(i) = t /\ Row(i) = r
      BY <2>4, <3>5
    <3>7. Column(i) = x
      BY <3>2, <3>6 DEF Column
    <3>8. c \in Output(i)
      BY <3>1, <3>4, <3>5, <3>6, <3>7 DEF Output
    <3> QED BY <1>1, <3>8
  <2> QED BY <1>1, <2>3, <2>5, <2>6 DEF FillsOutput
<1> QED BY <1>10, <1>11, <1>12 DEF Regular, k

-----------------------------------------------------------------------------
(* Together: what the families compute.                                    *)

\* Items that fill their own rows.
IsRows(k) ==
  \E A : \E count \in Nat, planes \in [A -> Nat] : k = RowRegion(count, planes)

\* Clipped tiles that cover the rows and columns of a matrix.
IsTiles(k) ==
  \E planes : \E rows \in Nat, tileRows \in Nat \ {0}, columnTiles \in Nat \ {0} :
    /\ \A a \in DOMAIN planes :
         /\ planes[a].columns \in Nat \ {0} /\ planes[a].width \in Nat \ {0}
         /\ planes[a].columns <= columnTiles * planes[a].width
    /\ k = TileRegion(rows, tileRows, columnTiles, planes)

\* Rows updated in place.
IsRowsInPlace(k) ==
  \E A, route, program : \E rows \in Nat, grain \in Nat \ {0}, planes \in [A -> Nat] :
    /\ IsRowProgram(grain, planes, program)
    /\ k = RowsInPlace(rows, grain, route, planes, program)

\* Recurrences over the heads of sequences, with their state updated in place.
IsRecurrence(k) ==
  \E sequences \in Nat, tokens \in Nat \ {0}, heads \in Nat \ {0}, dim \in Nat \ {0},
     sums \in BOOLEAN : k = RecurrentHeads(sequences, tokens, heads, dim, sums)

\* A scatter whose slots have passed ordered_unique.
IsScatter(k) ==
  \E A, nonfinite : \E count \in Nat, heads \in Nat \ {0} :
    \E slots \in [0 .. (count - 1) -> Int], planes \in [A -> Nat] :
      /\ OrderedUnique(slots, count)
      /\ k = ScatterTasks(slots, count, heads, planes, nonfinite)

\* A state-pool kernel whose requests have different slots.
IsStates(k) ==
  \E requests \in Nat, width \in Nat \ {0}, depth \in Nat, loadInitial \in BOOLEAN :
    \E slots \in [0 .. (requests - 1) -> Int], lengths \in [0 .. requests -> Nat] :
      /\ lengths[0] = 0
      /\ \A q, r \in 0 .. requests : q <= r => lengths[q] <= lengths[r]
      /\ PositiveSlotsAreUnique(slots, requests)
      /\ k = StateTasks(slots, lengths, requests, width, depth, loadInitial)

InFamilies(k) == \/ IsRows(k) \/ IsTiles(k) \/ IsRowsInPlace(k)
                 \/ IsRecurrence(k) \/ IsScatter(k) \/ IsStates(k)

\* Every kernel of the families meets the hypotheses of the region theorems.
LEMMA FamilyMember == ASSUME NEW k, InFamilies(k) PROVE Regular(k)
<1>0. ASSUME \A i \in ItemsOfKernel(k) : k.input[i] = {} PROVE ReadsInputFirst(k)
  BY <1>0 DEF ReadsInputFirst
<1>1. CASE IsRows(k)
  <2>1. PICK A : \E count \in Nat, planes \in [A -> Nat] : k = RowRegion(count, planes)
    BY <1>1 DEF IsRows
  <2>2. PICK count \in Nat, planes \in [A -> Nat] : k = RowRegion(count, planes)
    BY <2>1
  <2>3. RaceFree(k)
    BY <2>2, RowRegionRaceFree
  <2>4. FillsOutput(k)
    BY <2>2, RowRegionFillsOutput
  <2>5. \A i \in ItemsOfKernel(k) : k.input[i] = {}
    BY <2>2 DEF RowRegion, Region, ItemsOfKernel
  <2> QED BY <1>0, <2>3, <2>4, <2>5 DEF Regular
<1>2. CASE IsTiles(k)
  <2>0. PICK planes : \E rows \in Nat, tileRows \in Nat \ {0}, columnTiles \in Nat \ {0} :
          /\ \A a \in DOMAIN planes :
               /\ planes[a].columns \in Nat \ {0} /\ planes[a].width \in Nat \ {0}
               /\ planes[a].columns <= columnTiles * planes[a].width
          /\ k = TileRegion(rows, tileRows, columnTiles, planes)
    BY <1>2 DEF IsTiles
  <2>1. PICK rows \in Nat, tileRows \in Nat \ {0}, columnTiles \in Nat \ {0} :
          /\ \A a \in DOMAIN planes :
               /\ planes[a].columns \in Nat \ {0} /\ planes[a].width \in Nat \ {0}
               /\ planes[a].columns <= columnTiles * planes[a].width
          /\ k = TileRegion(rows, tileRows, columnTiles, planes)
    BY <2>0
  <2>2. RaceFree(k)
    BY <2>1, TileRegionRaceFree
  <2>3. FillsOutput(k)
    BY <2>1, TileRegionFillsOutput
  <2>4. \A i \in ItemsOfKernel(k) : k.input[i] = {}
    BY <2>1, TileInput
  <2> QED BY <1>0, <2>2, <2>3, <2>4 DEF Regular
<1>3. CASE IsRowsInPlace(k)
  <2>1. PICK A, route, program :
          \E rows \in Nat, grain \in Nat \ {0}, planes \in [A -> Nat] :
            /\ IsRowProgram(grain, planes, program)
            /\ k = RowsInPlace(rows, grain, route, planes, program)
    BY <1>3 DEF IsRowsInPlace
  <2> QED BY <2>1, RowsInPlaceRegular
<1>4. CASE IsRecurrence(k)
  BY <1>4, RecurrentHeadsRegular DEF IsRecurrence
<1>5. CASE IsScatter(k)
  <2>0. PICK A, nonfinite : \E count \in Nat, heads \in Nat \ {0} :
          \E slots \in [0 .. (count - 1) -> Int], planes \in [A -> Nat] :
            /\ OrderedUnique(slots, count)
            /\ k = ScatterTasks(slots, count, heads, planes, nonfinite)
    BY <1>5 DEF IsScatter
  <2>1. PICK count \in Nat, heads \in Nat \ {0} :
          \E slots \in [0 .. (count - 1) -> Int], planes \in [A -> Nat] :
            /\ OrderedUnique(slots, count)
            /\ k = ScatterTasks(slots, count, heads, planes, nonfinite)
    BY <2>0
  <2>2. PICK slots \in [0 .. (count - 1) -> Int], planes \in [A -> Nat] :
          /\ OrderedUnique(slots, count)
          /\ k = ScatterTasks(slots, count, heads, planes, nonfinite)
    BY <2>1
  <2>3. RaceFree(k)
    BY <2>2, ScatterRaceFree
  <2>4. FillsOutput(k)
    BY <2>2, ScatterFillsOutput
  <2>5. \A i \in ItemsOfKernel(k) : k.input[i] = {}
    BY <2>2 DEF ScatterTasks, Checked, Region, ItemsOfKernel
  <2> QED BY <1>0, <2>3, <2>4, <2>5 DEF Regular
<1>6. CASE IsStates(k)
  <2>1. PICK requests \in Nat, width \in Nat \ {0}, depth \in Nat, loadInitial \in BOOLEAN :
          \E slots \in [0 .. (requests - 1) -> Int], lengths \in [0 .. requests -> Nat] :
            /\ lengths[0] = 0
            /\ \A q, r \in 0 .. requests : q <= r => lengths[q] <= lengths[r]
            /\ PositiveSlotsAreUnique(slots, requests)
            /\ k = StateTasks(slots, lengths, requests, width, depth, loadInitial)
    BY <1>6 DEF IsStates
  <2>2. PICK slots \in [0 .. (requests - 1) -> Int], lengths \in [0 .. requests -> Nat] :
          /\ lengths[0] = 0
          /\ \A q, r \in 0 .. requests : q <= r => lengths[q] <= lengths[r]
          /\ PositiveSlotsAreUnique(slots, requests)
          /\ k = StateTasks(slots, lengths, requests, width, depth, loadInitial)
    BY <2>1
  <2>3. RaceFree(k)
    BY <2>2, StateRaceFree
  <2>4. FillsOutput(k)
    BY <2>2, StateFillsOutput
  <2>5. \A i \in ItemsOfKernel(k) : k.input[i] = {}
    <3>1. k.count = requests * width /\ k.grain = 1
          /\ k.input = [i \in 0 .. (requests * width - 1) |-> {}]
      BY <2>2 DEF StateTasks, UpdatingRegion, Region
    <3>2. requests * width \in Int
      OBVIOUS
    <3> QED BY <3>1, <3>2 DEF ItemsOfKernel
  <2> QED BY <1>0, <2>3, <2>4, <2>5 DEF Regular
<1> QED BY <1>1, <1>2, <1>3, <1>4, <1>5, <1>6 DEF InFamilies

\* A library whose kernels are of these families computes on any number of threads,
\* whatever their interleaving, what one thread computes; it reads what it overwrites
\* as the caller left it, and it produces exactly its output.
THEOREM FamiliesComputeSerially ==
  ASSUME KernelAssumption, \A k \in Kernels : InFamilies(k)
  PROVE  Spec => [](SerialResult /\ InputsIntact /\ OutputExact)
<1>1. RaceFreeKernels /\ InPlaceKernels /\ ExactKernels
  BY FamilyMember DEF Regular, RaceFreeKernels, InPlaceKernels, ExactKernels
<1> QED BY <1>1, RegionSerialResult, RegionInputsIntact, RegionOutputExact, PTL
=============================================================================
