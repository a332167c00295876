--------------------------- MODULE ServingRegions ---------------------------
(***************************************************************************)
(* Footprints of the serving kernels that produce rows: embeddings,        *)
(* pooling, multimodal merging and calibration, and of the embedding       *)
(* gradients, which accumulate.                                            *)
(***************************************************************************)
EXTENDS Footprint

\* embedding_lookup, quantized_embedding and embedding_lookup_types: an item is a
\* token, whatever row of the tables its id names.
EmbeddingLookup(count, dim) == RowRegion(count, [out |-> dim])
QuantizedEmbedding(count, dim) == RowRegion(count, [out |-> dim])
EmbeddingLookupTypes(count, dim) == RowRegion(count, [out |-> dim])

\* quantized_embedding_bag: an item is a bag, which sums its own ids.
QuantizedEmbeddingBag(bags, dim) == RowRegion(bags, [out |-> dim])

\* indexer_k_gather: an item is a row.
IndexerKGather(count, headDim) == RowRegion(count, [out |-> headDim])

BuildMultimodalSourceMap(textTokens) == RowRegion(textTokens, [source_map |-> 1])
MergeMultimodalSpans(textTokens, dim) == RowRegion(textTokens, [out |-> dim])

\* mean_pool_rms_l2 and masked_mean_pool_rms_l2: an item is a sequence, pooled
\* and normalized in its own output row.
MeanPool(batch, hidden) == RowRegion(batch, [out |-> hidden])
MaskedMeanPool(batch, hidden) == RowRegion(batch, [out |-> hidden])

\* calibration_absmax: an item is a channel, reduced over every token; running
\* may be the output itself.
CalibrationAbsmax(channels) == UpdatedInPlace(channels, "parallel", "out")

LogitsSoftcap(count) == RowRegion(count, [out |-> 1])

\* The typed twins read and write narrow floats; the calibration's output is a float.
CalibrationAbsmaxTyped(channels) == CalibrationAbsmax(channels)
LogitsSoftcapTyped(count) == LogitsSoftcap(count)
EmbeddingLookupTypesTyped(count, dim) == EmbeddingLookupTypes(count, dim)
MaskedMeanPoolTyped(batch, hidden) == MaskedMeanPool(batch, hidden)

\* threshold_topk_indices: an item picks the k columns of its row.
ThresholdTopkIndices(rows, k) == RowRegion(rows, [indices |-> k])

\* embedding_backward and embedding_backward_sorted add each token's gradient to
\* the row of its id, in a serial loop; ids out of range are skipped.
GradientRow(ids, vocab, dim, token) ==
  IF ids[token] \in 0 .. (vocab - 1) THEN Span("grad_table", ids[token] * dim, dim)
                                     ELSE {}
EmbeddingBackward(ids, vocab, count, dim) ==
  LET rows == [token \in 0 .. (count - 1) |-> GradientRow(ids, vocab, dim, token)]
  IN UpdatingRegion(count, "serial", rows, rows, UNION {rows[t] : t \in DOMAIN rows})
=============================================================================
