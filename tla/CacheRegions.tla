---------------------------- MODULE CacheRegions ----------------------------
(***************************************************************************)
(* Footprints of the kernels that address a cache or a state pool by slot. *)
(* slots[t] is where token (or request) t lives; a negative slot is        *)
(* padding.  Two tokens may name one slot: the kernels that write caches   *)
(* promise that the last one wins, as in kv_cache_scatter's serial loop.   *)
(***************************************************************************)
EXTENDS Footprint

\* The scan of slots that decides whether a scatter may run in parallel.
OrderedUnique_Duplicates(slots, count) ==
  \A s, t \in 0 .. (count - 1) :
    s < t /\ slots[s] >= 0 /\ slots[t] >= 0 => slots[s] <= slots[t]
OrderedUnique(slots, count) ==
  \A s, t \in 0 .. (count - 1) :
    s < t /\ slots[s] >= 0 /\ slots[t] >= 0 => slots[s] < slots[t]

PositiveSlotsAreUnique(slots, count) ==
  \A s, t \in 0 .. (count - 1) : s < t /\ slots[s] >= 0 => slots[s] # slots[t]

RouteIf(unique) == IF unique THEN "parallel" ELSE "serial"

\* The rows, of this width, of the slots in use: what a scatter has to produce.
SlotRows(a, slots, count, width) ==
  UNION {Span(a, slots[t] * width, width) :
           t \in {u \in 0 .. (count - 1) : slots[u] >= 0}}

\* kv_cache_scatter: a serial loop over the tokens.
KvCacheScatter(slots, count, width) ==
  Region(count, "serial",
    [t \in 0 .. (count - 1) |->
       IF slots[t] < 0 THEN {} ELSE Span("cache", slots[t] * width, width)],
    SlotRows("cache", slots, count, width))

\* The other scatters cut the work into tasks, one per token and head; a task
\* fills the head's part of the row of the token's slot.
TokenOf(task, heads) == task \div heads
HeadOf(task, heads) == task % heads

\* planes: the arrays a scatter fills, each with its cells per slot and head.
\* nonfinite: the tasks whose input holds a value that is not finite; they raise
\* the flag, unless their token is padding.
ScatterTasks(slots, count, heads, planes, nonfinite) ==
  LET slot(task) == slots[TokenOf(task, heads)]
      HeadRow(a, task) ==
        Span(a, (slot(task) * heads + HeadOf(task, heads)) * planes[a], planes[a])
  IN Checked(
       Region(count * heads, RouteIf(OrderedUnique(slots, count)),
         [task \in 0 .. (count * heads - 1) |->
            IF slot(task) < 0 THEN {}
            ELSE UNION {HeadRow(a, task) : a \in DOMAIN planes}],
         UNION {SlotRows(a, slots, count, heads * planes[a]) : a \in DOMAIN planes}),
       {task \in nonfinite : slot(task) >= 0}, TRUE)

\* scatter_fp8_typed.
ScatterFp8(slots, count, heads, headDim, nonfinite) ==
  ScatterTasks(slots, count, heads,
               [key_cache |-> headDim, value_cache |-> headDim], nonfinite)

\* turboquant_encode: packed keys with scales and zero points, packed values with
\* scales; its inputs are not checked.
TurboquantEncode(slots, count, heads, keyBytes, valueBytes, groups) ==
  ScatterTasks(slots, count, heads,
    [key_cache |-> keyBytes, value_cache |-> valueBytes, key_scale_cache |-> groups,
     value_scale_cache |-> groups, key_zero_cache |-> groups], {})

\* kv_cache_scatter_q8_0: codes, and a scale per group of codes.
ScatterQ8(slots, count, heads, headDim, group, nonfinite) ==
  ScatterTasks(slots, count, heads,
               [key_codes |-> headDim, value_codes |-> headDim,
                key_scales |-> headDim \div group,
                value_scales |-> headDim \div group], nonfinite)

\* kv_cache_scatter_mxfp8: blocks of one scale byte and the codes it scales.
ScatterMxfp8(slots, count, heads, headDim, group, nonfinite) ==
  ScatterTasks(slots, count, heads,
               [key_cache |-> (headDim \div group) * (group + 1),
                value_cache |-> (headDim \div group) * (group + 1)], nonfinite)

\* kv_cache_scatter_bitnet_kv3: 3-bit codes, eight to a packet of three bytes.  Codes
\* are or-ed into whole packets; head_dim is a multiple of 8 (valid_kv3_config), so
\* that a packet never straddles the rows of two tasks.  (Zero points are laid out as
\* the scales are.)
PackedBytes(headDim) == (headDim * 3 + 7) \div 8
ScatterBitnetKv3(slots, count, heads, headDim, group, nonfinite) ==
  ScatterTasks(slots, count, heads,
               [key_cache |-> PackedBytes(headDim),
                value_cache |-> PackedBytes(headDim),
                key_scale_cache |-> headDim \div group,
                value_scale_cache |-> headDim \div group], nonfinite)

\* The region that clears both caches before the q8_0 scatter.  Scales are fewer
\* than codes: of the scales, a part clears those that lie in its index range.
ClearQ8(codeCount, scaleCount) ==
  LET planes == [key_codes |-> codeCount, value_codes |-> codeCount,
                 key_scales |-> scaleCount, value_scales |-> scaleCount]
  IN Region(codeCount, "parallel",
       [i \in 0 .. (codeCount - 1) |->
          {<<a, i>> : a \in {b \in DOMAIN planes : i < planes[b]}}],
       UNION {Span(a, 0, planes[a]) : a \in DOMAIN planes})
-----------------------------------------------------------------------------
(* Gathers: a task fills its own row, from wherever its slot points.       *)

\* kv_cache_gather.
KvCacheGather(count, width) == RowRegion(count, [out |-> width])

GatherTasks(count, heads, headDim) ==
  RowRegion(count * heads, [key_out |-> headDim, value_out |-> headDim])

\* gather_fp8_typed and kv_cache_gather_q8_0, whose inputs are checked before.
GatherFp8(count, heads, headDim) == GatherTasks(count, heads, headDim)
GatherQ8(count, heads, headDim) == GatherTasks(count, heads, headDim)

\* kv_cache_gather_mxfp8 meets the scale code of NaN only while it decodes.
GatherMxfp8(count, heads, headDim, nanTasks) ==
  Checked(GatherTasks(count, heads, headDim), nanTasks, TRUE)

\* kv_cache_scales_fp8: an item is a head and reads every token; no poll.
ScalesFp8(heads, nonfiniteHeads) ==
  Checked(RowRegion(heads, [key_scale |-> 1, value_scale |-> 1]),
          nonfiniteHeads, FALSE)
-----------------------------------------------------------------------------
(* Recurrent state pools.  lengths[r] .. lengths[r + 1] - 1 are the tokens *)
(* of request r (cumulative_lengths).  state_pool_out starts as a copy of  *)
(* state_pool and is updated in place.                                     *)

TokensOf(lengths, r) == lengths[r] .. (lengths[r + 1] - 1)

\* Both kernels: request r owns the width rows of its slot's state, each of depth
\* cells, and an output cell per token and row; a task is one row of a request.
StateTasks(slots, lengths, requests, width, depth, loadInitial) ==
  LET request(task) == task \div width
      row(task) == task % width
      State(task) ==
        IF slots[request(task)] < 0 THEN {}
        ELSE Span("state_pool_out",
                  (slots[request(task)] * width + row(task)) * depth, depth)
      Outputs(task) == {<<"out", token * width + row(task)>> :
                          token \in TokensOf(lengths, request(task))}
  IN UpdatingRegion(requests * width,
       RouteIf(PositiveSlotsAreUnique(slots, requests)),
       [task \in 0 .. (requests * width - 1) |->
          IF loadInitial THEN State(task) ELSE {}],
       [task \in 0 .. (requests * width - 1) |-> State(task) \cup Outputs(task)],
       Span("out", 0, lengths[requests] * width)
       \cup SlotRows("state_pool_out", slots, requests, width * depth))

\* gdn_recur: a row is a value index of a value head; no slot is padding.
GdnRecur(slots, lengths, requests, heads, valueDim, keyDim, loadInitial) ==
  StateTasks(slots, lengths, requests, heads * valueDim, keyDim, loadInitial)

\* gdn_short_conv: a row is a channel; a request without a slot gets zeros.
GdnShortConv(slots, lengths, requests, channels, kernelSize, loadInitial) ==
  StateTasks(slots, lengths, requests, channels, kernelSize - 1, loadInitial)
=============================================================================
