--------------------------- MODULE AttentionRegions ---------------------------
(***************************************************************************)
(* Footprints of the attention and the rotary kernels.                     *)
(***************************************************************************)
EXTENDS Footprint

\* One query row of the output per item, whatever cache the keys come from.
QueryRows(rows, headDim) == RowRegion(rows, [out |-> headDim])
Attention(heads, queries, headDim) == QueryRows(heads * queries, headDim)
WindowAttention(heads, queries, headDim) == QueryRows(heads * queries, headDim)
CrossAttention(rows, headDim) == QueryRows(rows, headDim)
MlaDecode(batch, heads, latentDim) == QueryRows(batch * heads, latentDim)
MlaAbsorb(batch, heads, valueDim) == QueryRows(batch * heads, valueDim)
PagedAttention(batch, heads, headDim) == QueryRows(batch * heads, headDim)
PagedAttentionQ8(batch, heads, headDim) == QueryRows(batch * heads, headDim)
PagedAttentionMxfp8(batch, heads, headDim) == QueryRows(batch * heads, headDim)
PagedAttentionBitnetKv3(batch, heads, headDim) == QueryRows(batch * heads, headDim)
PagedAttentionTurboquant(batch, heads, headDim) == QueryRows(batch * heads, headDim)
CascadeAttention(batch, heads, headDim) == QueryRows(batch * heads, headDim)
QuantizedAttention(batch, heads, sequence, headDim) ==
  QueryRows(batch * heads * sequence, headDim)

\* swin_attention_d32: the items go by head, the rows of the output by position.
SwinAttention(windows, heads, tokens, headDim) ==
  LET Place(item) == ((item \div (tokens * heads)) * tokens + (item % tokens)) * heads
                       + ((item \div tokens) % heads)
      count == windows * heads * tokens
  IN Region(count, "parallel",
       [item \in 0 .. (count - 1) |-> Span("out", Place(item) * headDim, headDim)],
       Span("out", 0, count * headDim))

AttentionWithLse(rows, headDim) == RowRegion(rows, [out |-> headDim, logsumexp |-> 1])
MergeAttentionStates(rows, headDim) ==
  RowRegion(rows, [out |-> headDim, output_logsumexp |-> 1])
MergeAttentionStatesFp8(count) == Elementwise(count, {"out_codes"})
AttentionBackwardPrep(rows) == RowRegion(rows, [delta |-> 1])
AttentionBackwardDq(rows, headDim) == RowRegion(rows, [grad_q |-> headDim])

\* attention_backward_dkv: query heads of a group add to the same key rows, those up
\* to the query's position when causal; hence a plain loop, over zeroed gradients.
AttentionBackwardDkv(heads, kvHeads, queries, keys, headDim, causal) ==
  LET KvHead(row) == (row \div queries) \div (heads \div kvHeads)
      Limit(row) == (row % queries) + keys - queries
      visible(row) == {key \in 0 .. (keys - 1) : causal => key <= Limit(row)}
      rows == [row \in 0 .. (heads * queries - 1) |->
                 UNION {Span(a, (KvHead(row) * keys + key) * headDim, headDim) :
                          key \in visible(row), a \in {"grad_k", "grad_v"}}]
  IN UpdatingRegion(heads * queries, "serial", rows, rows,
                    UNION {Span(a, 0, kvHeads * keys * headDim) : a \in {"grad_k", "grad_v"}})
-----------------------------------------------------------------------------
\* decode_cache_attention first appends each request's key and value to its part of
\* the caches, in a plain loop; the region over the query heads reads what is there.
AppendedRow(a, lengths, item, kvHeads, cacheLength, headDim) ==
  Span(a, (item * cacheLength + lengths[item \div kvHeads]) * headDim, headDim)

DecodeCacheAppend(lengths, batch, kvHeads, cacheLength, headDim) ==
  LET items == 0 .. (batch * kvHeads - 1)
      rows == [item \in items |->
                 UNION {AppendedRow(a, lengths, item, kvHeads, cacheLength, headDim) :
                          a \in {"key_cache", "value_cache"}}]
  IN Region(batch * kvHeads, "serial", rows, UNION {rows[i] : i \in items})

DecodeCacheAttention(batch, heads, headDim) == QueryRows(batch * heads, headDim)

\* kv_cache_gather_bitnet_kv3_storage: a task is one head of one gathered row.
GatherBitnetKv3(count, heads, headDim) ==
  RowRegion(count * heads, [key_out |-> headDim, value_out |-> headDim])
-----------------------------------------------------------------------------
\* In a pool of one thread, some of these kernels are a plain loop over the same rows.
PoolRoute(k, total) == IF total = 1 THEN Serial(k) ELSE k

RotatedRows(rows, headDim) == RowRegion(rows, [y |-> headDim])
Rope(tokens, heads, headDim) == RotatedRows(tokens * heads, headDim)
RotaryPositioned(rows, headDim, total) == PoolRoute(RotatedRows(rows, headDim), total)
Mrope(rows, headDim, total) == PoolRoute(RotatedRows(rows, headDim), total)
VisionRope2d(rows, headDim) == RowRegion(rows, [out |-> headDim])

\* (A defect: the pairs are loaded from the row itself, as when x is not y.)
RopeInterleavedToSplit_NoCopy(tokens, heads, headDim) ==
  LET half == headDim \div 2
      Stored(pair) == {<<"y", pair>>, <<"y", half + pair>>}
  IN RowsInPlace(tokens * heads, half, "parallel", [y |-> headDim],
       [pair \in 0 .. (half - 1) |->
          Turn({<<"y", 2 * pair>>, <<"y", 2 * pair + 1>>}, {}, Stored(pair))])

\* rope_interleaved_to_split in place: it moves elements within the row, so that a
\* turn loads the row into the thread's scratch, before those that rotate a pair of it.
RopeInterleavedToSplit(tokens, heads, headDim) ==
  LET half == headDim \div 2
      Stored(pair) == {<<"y", pair>>, <<"y", half + pair>>}
  IN RowsInPlace(tokens * heads, half + 1, "parallel", [y |-> headDim],
       [j \in 0 .. half |->
          IF j = 0 THEN Turn(Span("y", 0, headDim), {}, {}) ELSE Turn({}, {}, Stored(j - 1))])

\* turboquant_query_transform: signs, then a Hadamard transform of the row.
TurboquantQueryTransform(rows, heads, headSize) ==
  RowRegion(rows * heads, [transformed |-> headSize])

\* qk_norm_rope_positioned: one region normalizes the query and the key heads of
\* every token, the next copies its value heads.  (The plain loop does both token by
\* token: the same cells.)
QkNormRopeHeads(tokens, normHeads, valueHeads, headDim, total) ==
  LET heads == normHeads + valueHeads
      Offset(item) == ((item \div normHeads) * heads + (item % normHeads)) * headDim
  IN PoolRoute(Region(tokens * normHeads, "parallel",
       [item \in 0 .. (tokens * normHeads - 1) |-> Span("y", Offset(item), headDim)],
       UNION {Span("y", token * heads * headDim, normHeads * headDim) :
                token \in 0 .. (tokens - 1)}), total)

QkNormRopeValues(tokens, normHeads, valueHeads, headDim, total) ==
  LET values == [token \in 0 .. (tokens - 1) |->
                   Span("y", (token * (normHeads + valueHeads) + normHeads) * headDim,
                        valueHeads * headDim)]
  IN PoolRoute(Region(tokens, "parallel", values, UNION {values[t] : t \in DOMAIN values}),
               total)
=============================================================================
