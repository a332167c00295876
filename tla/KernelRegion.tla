---------------------------- MODULE KernelRegion ----------------------------
(***************************************************************************)
(* One parallel region of a kernel, on the memory its items share.  A      *)
(* kernel is described by its footprint: which cells of its output arrays  *)
(* each item reads and writes, and which items find their input invalid    *)
(* (the modules of the kernel families translate footprints from the       *)
(* code).  Parts execute their items in order and interleave freely; an    *)
(* item takes two steps, so that other parts write between what it reads   *)
(* and what it writes.  The question is threading.h:9, "kernel results are *)
(* bit-identical across thread counts".                                    *)
(*                                                                         *)
(* An index of the region is one item, except in the kernels that may be   *)
(* called in place: the order in which their loops read an array and write *)
(* it decides what they compute, so that each turn of the loop is an item. *)
(*                                                                         *)
(* A cell holds the item that wrote it last: two runs in which every item  *)
(* reads the same and every cell has the same last writer compute the same *)
(* bits, whatever is computed.                                             *)
(***************************************************************************)
EXTENDS ChunkPartition, FiniteSets

CONSTANTS Kernels,    \* the kernels under study: a set of footprints
          MaxTotal    \* pool sizes considered: 1 .. MaxTotal

Untouched == -1       \* what a cell holds before the region

ItemsOfKernel(k) == 0 .. (k.count * k.grain - 1)

\* A footprint.  route is "parallel" for parallel_ranges and "serial" for a
\* plain loop, over count indices of grain items each; input[i] are the cells that
\* item i loads as they were before the region: through an input pointer, in a call
\* that passes an output array as that input too, or in an output that an earlier
\* pass of the same call has filled; bad are the items that raise the kernel's atomic
\* invalid flag; onBad is what the callback does then; polls tells whether it reads
\* the flag before each item; out are the cells the kernel promises to produce.
IsKernel(k) ==
  /\ k.count \in Nat \ {0}
  /\ k.grain \in Nat \ {0}
  /\ k.route \in {"parallel", "serial"}
  /\ k.reads \in [ItemsOfKernel(k) -> SUBSET k.cells]
  /\ k.writes \in [ItemsOfKernel(k) -> SUBSET k.cells]
  /\ k.input \in [ItemsOfKernel(k) -> SUBSET k.cells]
  /\ \A i \in ItemsOfKernel(k) : k.input[i] \subseteq k.reads[i]
  /\ k.bad \subseteq ItemsOfKernel(k)
  /\ k.onBad \in {"return", "continue"}
  /\ k.polls \in BOOLEAN
  /\ k.out \subseteq k.cells

ASSUME KernelAssumption ==
  /\ MaxTotal \in Nat \ {0}
  /\ \A k \in Kernels : IsKernel(k)

VARIABLES
  kernel,    \* the kernel that runs
  parts,     \* how many parts its index range was cut into
  pos,       \* pos[p]: the item part p is at; its end when it has returned
  busy,      \* busy[p]: part p has read that item's inputs
  mem,       \* mem[c]: last writer of cell c
  view,      \* view[i]: what item i read (last writers), <<>> before it did
  invalid    \* the atomic flag

vars == <<kernel, parts, pos, busy, mem, view, invalid>>

PartIndices == 0 .. (parts - 1)
First(p) == ChunkBegin(kernel.count, parts, p) * kernel.grain
End(p) == ChunkEnd(kernel.count, parts, p) * kernel.grain
Items == ItemsOfKernel(kernel)

\* A serial loop is one part.  A parallel region may be cut into any number of
\* parts: its own min_per_chunk only makes the pool cut less.
PartCounts(k) ==
  IF k.route = "serial" THEN {1}
  ELSE {Parts(k.count, 1, total) : total \in 1 .. MaxTotal}

Init ==
  /\ kernel \in Kernels
  /\ parts \in PartCounts(kernel)
  /\ pos = [p \in PartIndices |-> First(p)]
  /\ busy = [p \in PartIndices |-> FALSE]
  /\ mem = [c \in kernel.cells |-> Untouched]
  /\ view = [i \in Items |-> <<>>]
  /\ invalid = FALSE

\* Part p starts its next item: it reads the cells the item depends on.
BeginItem(p) ==
  /\ ~busy[p] /\ pos[p] < End(p)
  /\ busy' = [busy EXCEPT ![p] = TRUE]
  /\ view' = [view EXCEPT ![pos[p]] = [c \in kernel.reads[pos[p]] |-> mem[c]]]
  /\ UNCHANGED <<kernel, parts, pos, mem, invalid>>

\* The part sees the flag and returns.  (The load is relaxed: a part may miss
\* it for a while, and then it is BeginItem that happens.)
SeeInvalid(p) ==
  /\ kernel.polls /\ invalid
  /\ ~busy[p] /\ pos[p] < End(p)
  /\ pos' = [pos EXCEPT ![p] = End(p)]
  /\ UNCHANGED <<kernel, parts, busy, mem, view, invalid>>

\* (A defect: every item stores whether it was valid, over what others stored.)
FinishItem_ClearsFlag(p) ==
  /\ busy[p] /\ pos[p] \notin kernel.bad
  /\ mem' = [c \in kernel.cells |-> IF c \in kernel.writes[pos[p]] THEN pos[p]
                                                                   ELSE mem[c]]
  /\ pos' = [pos EXCEPT ![p] = @ + 1]
  /\ busy' = [busy EXCEPT ![p] = FALSE]
  /\ invalid' = FALSE
  /\ UNCHANGED <<kernel, parts, view>>

\* A good item writes its results.
FinishItem(p) ==
  /\ busy[p] /\ pos[p] \notin kernel.bad
  /\ mem' = [c \in kernel.cells |-> IF c \in kernel.writes[pos[p]] THEN pos[p]
                                                                   ELSE mem[c]]
  /\ pos' = [pos EXCEPT ![p] = @ + 1]
  /\ busy' = [busy EXCEPT ![p] = FALSE]
  /\ UNCHANGED <<kernel, parts, view, invalid>>

\* A bad item raises the flag, with some of its results already written.
RejectItem(p) ==
  /\ busy[p] /\ pos[p] \in kernel.bad
  /\ invalid' = TRUE
  /\ \E w \in SUBSET kernel.writes[pos[p]] :
       mem' = [c \in kernel.cells |-> IF c \in w THEN pos[p] ELSE mem[c]]
  /\ pos' = [pos EXCEPT ![p] = IF kernel.onBad = "return" THEN End(p) ELSE @ + 1]
  /\ busy' = [busy EXCEPT ![p] = FALSE]
  /\ UNCHANGED <<kernel, parts, view>>

Finished == \A p \in PartIndices : pos[p] = End(p)

\* The region is over, and the kernel returns a status from the flag.
Done == Finished /\ UNCHANGED vars

Next == \/ \E p \in PartIndices : \/ BeginItem(p) \/ SeeInvalid(p)
                                  \/ FinishItem(p) \/ RejectItem(p)
        \/ Done

Spec == Init /\ [][Next]_vars

-----------------------------------------------------------------------------
(* Properties.                                                             *)

\* The region's state has its type: parts stay inside their ranges.
TypeOK ==
  /\ IsKernel(kernel)
  /\ parts \in 1 .. kernel.count
  /\ (kernel.route = "serial" => parts = 1)
  /\ pos \in [PartIndices -> Nat]
  /\ busy \in [PartIndices -> BOOLEAN]
  /\ \A p \in PartIndices : First(p) <= pos[p] /\ pos[p] <= End(p)
                            /\ (busy[p] => pos[p] < End(p))
  /\ mem \in [kernel.cells -> Items \cup {Untouched}]
  /\ DOMAIN view = Items
  /\ invalid \in BOOLEAN

\* v is the last writer of cell c among the items S.
LastWriter(c, S, v) ==
  IF \E i \in S : c \in kernel.writes[i]
  THEN v \in S /\ c \in kernel.writes[v]
       /\ \A i \in S : c \in kernel.writes[i] => i <= v
  ELSE v = Untouched

\* A kernel whose input is valid ends with what one thread executing its items
\* in order computes: every item read the same, every cell has the same last
\* writer (threading.h:9; test_threading.cpp:2).
SerialResult ==
  Finished /\ ~invalid =>
    /\ \A c \in kernel.cells : LastWriter(c, Items, mem[c])
    /\ \A i \in Items : \A c \in kernel.reads[i] :
         LastWriter(c, 0 .. (i - 1), view[i][c])

\* Whatever part finds a bad input first, and whatever the others skip then,
\* the status is the same: kInvalidArgument exactly when some item is bad.
StatusDeterministic == Finished => (invalid <=> kernel.bad # {})

\* A kernel that returns kOk has produced every cell it promises, and touched no
\* other: its tasks, however cut and clipped, tile exactly the output.
OutputExact ==
  Finished /\ ~invalid => \A c \in kernel.cells : mem[c] # Untouched <=> c \in kernel.out

\* A kernel called in place reads its input as the caller left it: no load through
\* an input pointer comes after a store to that cell, whether an earlier turn of the
\* same loop made it or another part ("x and y may alias", ops.h:99; "in-place
\* compatible", ops.h:340).
InputsIntact ==
  Finished /\ ~invalid =>
    \A i \in Items : \A c \in kernel.input[i] : view[i][c] = Untouched

\* No item writes what an item of another index reads or writes.
RaceFree(k) ==
  \A i, j \in ItemsOfKernel(k) :
    i \div k.grain # j \div k.grain =>
      k.writes[i] \cap (k.writes[j] \cup k.reads[j]) = {}

\* The items together write what the kernel promises: no row or tile is left out, and
\* no clipped tile or padding slot reaches past it.
FillsOutput(k) == UNION {k.writes[i] : i \in ItemsOfKernel(k)} = k.out

\* No item reads an input cell that an earlier one has overwritten.
ReadsInputFirst(k) ==
  \A i, j \in ItemsOfKernel(k) : j < i => k.writes[j] \cap k.input[i] = {}
-----------------------------------------------------------------------------
(* The inductive invariant behind these.                                   *)

\* The items the parts have put behind them.
Passed == {i \in Items : \E p \in PartIndices : First(p) <= i /\ i < pos[p]}

\* The flag is up only for a bad item, and no bad item is passed without it.
IStatus == /\ invalid => kernel.bad # {}
           /\ ~invalid => Passed \cap kernel.bad = {}

\* Every cell holds its last writer among the passed items ...
IMem == ~invalid => \A c \in kernel.cells : LastWriter(c, Passed, mem[c])

\* ... and every item read what the items before it wrote.
IView == ~invalid => \A p \in PartIndices : \A i \in Items :
           First(p) <= i /\ (i < pos[p] \/ (i = pos[p] /\ busy[p])) =>
             \A c \in kernel.reads[i] : LastWriter(c, 0 .. (i - 1), view[i][c])

\* The inductive invariant of a race-free kernel: at every moment each cell is what
\* the items already passed, in whatever order, leave in it.
IInv == TypeOK /\ IStatus /\ IMem /\ IView
=============================================================================
