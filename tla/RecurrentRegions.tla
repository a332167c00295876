--------------------------- MODULE RecurrentRegions ---------------------------
(***************************************************************************)
(* Footprints of the scans and of linear attention: a task carries a state *)
(* along the tokens of one channel or head, and no two tasks share one.    *)
(***************************************************************************)
EXTENDS CacheRegions

\* selective_scan: an item is a channel.
SelectiveScan(channels, sequence) == RowRegion(channels, [y |-> sequence])

\* mamba2 (and ssd_chunked): an item is a head of the batch.
Mamba2(tasks, sequence, dim) == RowRegion(tasks, [y |-> sequence * dim])

\* mamba2_backward adds to its own head's part of each gradient.
Mamba2Backward(tasks, sequence, dim) ==
  LET rows == RowRegion(tasks, [grad_c |-> sequence * dim, grad_b |-> sequence * dim,
                                grad_x |-> sequence * dim,
                                grad_cumulative_log |-> sequence])
  IN [rows EXCEPT !.reads = rows.writes]

SsdDecode(tasks, dim) == RowRegion(tasks, [y |-> dim, next_state |-> dim * dim])

\* fft_convolution: the spectra of the kernels, one per head, in a region of their own
\* before that of the products, which only reads them.
FftSpectra(heads, length) == RowRegion(heads, [kernel_spectrum |-> length])
FftProducts(tasks, length) == RowRegion(tasks, [out |-> length])

\* The linear attentions: an item is a head.
LinearAttention(heads, sequence, dim) == RowRegion(heads, [out |-> sequence * dim])
LinearAttentionUnnormalized(tasks, sequence, dim) ==
  RowRegion(tasks, [out |-> sequence * dim])
CausalLinearAttention(tasks, sequence, dim) == RowRegion(tasks, [out |-> sequence * dim])
DecayedLinearAttention(tasks, sequence, dim) == RowRegion(tasks, [out |-> sequence * dim])
HedgehogAttention(tasks, sequence, dim) == RowRegion(tasks, [out |-> sequence * dim])

\* based_attention adds to each output cell key by key.
BasedAttention(tasks, sequence, valueDim) ==
  LET rows == RowRegion(tasks, [out |-> sequence * valueDim])
  IN [rows EXCEPT !.reads = rows.writes]

\* The recurrences whose initial and final state may alias, and do here.  A task is a
\* head of a sequence; a turn takes one token through one row of the head's state.
\* With sums, every row adds to all the head's columns of the token's output, which the
\* first row has cleared; without, it stores its own column.
RecurrentHeads(sequences, tokens, heads, dim, sums) ==
  LET tasks == sequences * heads
      turns == 0 .. (tasks * tokens * dim - 1)
      Task(i) == i \div (tokens * dim)
      Token(i) == (i \div dim) % tokens
      Row(i) == i % dim
      State(i) == Span("final_state", (Task(i) * dim + Row(i)) * dim, dim)
      Offset(i) ==
        (((Task(i) \div heads) * tokens + Token(i)) * heads + (Task(i) % heads)) * dim
      Output(i) == IF sums THEN Span("output", Offset(i), dim)
                           ELSE {<<"output", Offset(i) + Row(i)>>}
  IN InPlace(tasks, tokens * dim, "parallel",
       [i \in turns |-> IF Token(i) = 0 THEN State(i) ELSE {}],
       [i \in turns |-> (IF Token(i) > 0 THEN State(i) ELSE {})
                        \cup (IF sums /\ Row(i) > 0 THEN Output(i) ELSE {})],
       [i \in turns |-> State(i) \cup Output(i)],
       Span("final_state", 0, tasks * dim * dim)
       \cup Span("output", 0, tasks * tokens * dim))

GatedLinearAttention(sequences, tokens, heads, dim) ==
  RecurrentHeads(sequences, tokens, heads, dim, TRUE)
RwkvWkv6(sequences, tokens, heads, dim) ==
  RecurrentHeads(sequences, tokens, heads, dim, TRUE)
RwkvWkv7(sequences, tokens, heads, dim) ==
  RecurrentHeads(sequences, tokens, heads, dim, FALSE)

\* The hyper-connections of dsv4_hc_comb, dsv4_hc_pre and dsv4_hc_post.
HcComb(tokens, connections) == RowRegion(tokens, [comb |-> connections * connections])
HcPre(tokens, embedding) == Elementwise(tokens * embedding, {"output"})
HcPost(tokens, connections, embedding) ==
  RowRegion(tokens * connections, [output |-> embedding])
-----------------------------------------------------------------------------
(* The gated delta net around gdn_recur (see CacheRegions).                *)

\* gdn_recurrence updates the pool itself, in a serial loop over the requests.
GdnRecurrence(slots, lengths, requests, heads, valueDim, keyDim, loadInitial) ==
  Serial(StateTasks(slots, lengths, requests, heads * valueDim, keyDim, loadInitial))

\* gdn_qkv_prepare, gdn_gate_beta, gdn_gated_rmsnorm.
GdnQkvPrepare(tokens, keyHeads, valueHeads, keyDim, valueDim) ==
  RowRegion(tokens, [q |-> keyHeads * keyDim, k |-> keyHeads * keyDim,
                     v |-> valueHeads * valueDim])
GdnGateBeta(tokens, valueHeads) ==
  RowRegion(tokens, [decay |-> valueHeads, beta |-> valueHeads])
GdnGatedRmsnorm(tokens, valueHeads, valueDim) ==
  RowRegion(tokens * valueHeads, [out |-> valueDim])
=============================================================================
