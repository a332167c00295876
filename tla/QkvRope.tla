------------------------------- MODULE QkvRope -------------------------------
(***************************************************************************)
(* The query projection of qgemv_prepacked_qkv_rope_kv_storage             *)
(* (kernels/quantization/qgemm_canonical.cpp) where it picks its kernel by *)
(* the number of threads: f32 activations, plain fp8 weights that are not  *)
(* reordered, no slot to store to, on x86.  A region projects the pairs of *)
(* rows that are rotated together, by panels of RowTile pairs or pair by   *)
(* pair; the two kernels add the same products up in different orders.     *)
(* Floating-point sums are exact up to Bits bits and then rounded.  All    *)
(* rows have the same products, and the rotation is by angle zero, so that *)
(* one sum stands for a pair.                                              *)
(***************************************************************************)
EXTENDS ChunkPartition

CONSTANTS Pairs,     \* query_heads * head_dim / 2
          Half,      \* head_dim / 2
          RowTile,   \* how many rows a panel of the weights has
          Blocks, BlockSize,   \* the columns: blocks of a multiple of four
          Products,  \* the values of weight times activation
          Bits,      \* of a significand
          MaxTotal   \* pool sizes: 1 .. MaxTotal

Columns == 0 .. (Blocks * BlockSize - 1)
PartIndices == 0 .. (MaxTotal - 1)

VARIABLES
  product,   \* product[c]: weight times activation in column c
  total,     \* the size of the pool
  pc,        \* where the calling thread is
  panels,    \* use_f32_panels
  parts, pos,\* the parts of the region, and the next task of each
  query      \* the pairs' outputs, -1 before they are stored
vars == <<product, total, pc, panels, parts, pos, query>>

-----------------------------------------------------------------------------
(* Sums.                                                                   *)

\* To the nearest float, ties to even.
Round(n) ==
  LET e == CHOOSE k \in 0 .. n : n < 2 ^ (k + Bits) /\ (k = 0 \/ 2 ^ (k + Bits - 1) <= n)
      above == 2 * (n % 2 ^ e) > 2 ^ e
      tie == 2 * (n % 2 ^ e) = 2 ^ e
      up == e > 0 /\ (above \/ (tie /\ (n \div 2 ^ e) % 2 = 1))
  IN ((n \div 2 ^ e) + (IF up THEN 1 ELSE 0)) * 2 ^ e
Add(a, b) == Round(a + b)

\* Values go to four accumulators by turns, which are added pairwise at the end.
FourSums(count, value) ==
  LET sum[n \in 0 .. count, lane \in 0 .. 3] ==
        IF n = 0 THEN 0
        ELSE IF (n - 1) % 4 = lane THEN Add(sum[n - 1, lane], value[n - 1]) ELSE sum[n - 1, lane]
  IN Add(Add(sum[count, 0], sum[count, 1]), Add(sum[count, 2], sum[count, 3]))

\* By panels, the columns of all blocks share the accumulators.
PanelSum == FourSums(Blocks * BlockSize, product)

\* Pair by pair, a block is added up, and then the blocks.
RowSum ==
  FourSums(Blocks, [block \in 0 .. (Blocks - 1) |->
    FourSums(BlockSize, [item \in 0 .. (BlockSize - 1) |-> product[block * BlockSize + item]])])

-----------------------------------------------------------------------------
(* The call.                                                               *)

UsesPanels(threads) == threads = 1 /\ Half % RowTile = 0
Width == IF panels THEN RowTile ELSE 1   \* of a task, in pairs
Tasks == Pairs \div Width
MinPerChunk == IF panels THEN 1 ELSE 8

Init ==
  /\ product \in [Columns -> Products]
  /\ total \in 1 .. MaxTotal
  /\ pc = "called"
  /\ panels = FALSE
  /\ parts = 0
  /\ pos = [p \in PartIndices |-> 0]
  /\ query = [pair \in 0 .. (Pairs - 1) |-> -1]

ChooseKernel ==
  /\ pc = "called"
  /\ panels' = UsesPanels(total)
  /\ pc' = "chosen"
  /\ UNCHANGED <<product, total, parts, pos, query>>

\* Another thread calls set_num_threads; the region holds control_m_.
Resize ==
  /\ pc \in {"called", "chosen"}
  /\ total' \in (1 .. MaxTotal) \ {total}
  /\ UNCHANGED <<product, pc, panels, parts, pos, query>>

StartRegion ==
  /\ pc = "chosen"
  /\ parts' = Parts(Tasks, MinPerChunk, total)
  /\ pos' = [p \in PartIndices |-> IF p < parts' THEN ChunkBegin(Tasks, parts', p) ELSE 0]
  /\ pc' = "region"
  /\ UNCHANGED <<product, total, panels, query>>

\* Part p projects and stores the pairs of its next task.
RunTask(p) ==
  /\ pc = "region" /\ p < parts /\ pos[p] < ChunkEnd(Tasks, parts, p)
  /\ query' = [pair \in DOMAIN query |->
                 IF pair \div Width = pos[p] THEN (IF panels THEN PanelSum ELSE RowSum)
                 ELSE query[pair]]
  /\ pos' = [pos EXCEPT ![p] = @ + 1]
  /\ UNCHANGED <<product, total, pc, panels, parts>>

Return ==
  /\ pc = "region"
  /\ \A p \in PartIndices : p < parts => pos[p] = ChunkEnd(Tasks, parts, p)
  /\ pc' = "returned"
  /\ UNCHANGED <<product, total, panels, parts, pos, query>>

Returned == pc = "returned" /\ UNCHANGED vars

Next == \/ ChooseKernel \/ Resize \/ StartRegion
        \/ \E p \in PartIndices : RunTask(p)
        \/ Return \/ Returned

Spec == Init /\ [][Next]_vars

\* The outputs are those of a pool of one thread (threading.h:9, "Kernel results are
\* bit-identical across thread counts").
SameBits ==
  pc = "returned" =>
    \A pair \in DOMAIN query : query[pair] = IF UsesPanels(1) THEN PanelSum ELSE RowSum
=============================================================================
