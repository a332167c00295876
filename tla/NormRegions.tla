----------------------------- MODULE NormRegions -----------------------------
(***************************************************************************)
(* Footprints of the activations, of softmax and of the normalizations,    *)
(* the ones that quantize their result included.                           *)
(***************************************************************************)
EXTENDS Footprint

\* silu_backward, apply_unary_mode, swiglu_oai, sigmoid_mul, sigmoid_mul_backward.
SiluBackward(count) == Elementwise(count, {"grad_in"})
Unary(count) == Elementwise(count, {"y"})
SwigluOai(rows, dim) == Elementwise(rows * dim, {"y"})
SigmoidMul(count) == Elementwise(count, {"out"})
SigmoidMulBackward(count) == Elementwise(count, {"grad_gate", "grad_values"})

\* softmax, where x and y may alias: a first loop over the row finds its maximum, the
\* next loads each element again and stores its exponential, the last scales these.
Softmax(rows, dim) ==
  LET row == Span("y", 0, dim)
  IN RowsInPlace(rows, dim + 2, "parallel", [y |-> dim],
       [j \in 0 .. (dim + 1) |->
          CASE j = 0 -> Turn(row, {}, {})
            [] j \in 1 .. dim -> Turn({<<"y", j - 1>>}, {}, {<<"y", j - 1>>})
            [] j = dim + 1 -> Turn({}, row, row)])

\* rms_norm, by whatever variant, and layer_norm.
RmsNorm(rows, hidden) == RowRegion(rows, [y |-> hidden])
RmsNormNeon(rows, hidden) == RowRegion(rows, [y |-> hidden])
LayerNorm(rows, hidden) == RowRegion(rows, [y |-> hidden])

\* The backward passes sum the feature gradients in a serial loop over the rows, so
\* that their order does not depend on the threads; the row gradients are parallel.
LayerNormBackwardFeatures(rows, hidden) ==
  Accumulation(rows, {"grad_weight", "grad_bias"}, hidden)
LayerNormBackwardRows(rows, hidden) == RowRegion(rows, [grad_x |-> hidden])
RmsNormBackwardFeatures(rows, hidden) == Accumulation(rows, {"grad_weight"}, hidden)
RmsNormBackwardRows(rows, hidden) == RowRegion(rows, [grad_x |-> hidden])

\* The residual seams: residual_out may alias x or residual, and here it is x, which
\* is never loaded less than residual.  rms_norm_add and layer_norm_add add in a serial
\* loop and normalize residual_out after it.
RmsNormAdd(rows, hidden) == UpdatedInPlace(rows * hidden, "serial", "residual_out")
LayerNormAdd(rows, hidden) == UpdatedInPlace(rows * hidden, "serial", "residual_out")

\* A turn of the loop that adds.
AddResidual(item) == Turn({<<"residual_out", item>>}, {}, {<<"residual_out", item>>})

\* rms_norm_residual_next: one loop sums the squares of x, the next loads x again.
RmsNormResidualNext(rows, hidden) ==
  LET row == Span("residual_out", 0, hidden)
  IN RowsInPlace(rows, hidden + 2, "parallel",
       [residual_out |-> hidden, next_out |-> hidden],
       [j \in 0 .. (hidden + 1) |->
          CASE j = 0 -> Turn(row, {}, {})
            [] j \in 1 .. hidden -> AddResidual(j - 1)
            [] j = hidden + 1 -> Turn({}, row, Span("next_out", 0, hidden))])
-----------------------------------------------------------------------------
(* With a quantized result: add_and_measure takes the residual seam of a   *)
(* row, and what it has stored is then normalized and encoded.             *)

\* norm_add_quant_dynamic.  invalid: the groups with a value that is not finite, as
\* numbers over all rows; such a group raises the flag and is left out, the row goes
\* on.
NormAddQuantDynamic(rows, hidden, group, invalid) ==
  LET groups == hidden \div group
      turns == hidden + groups
      Encode(g) == Turn({}, Span("residual_out", g * group, group),
                        Span("codes", g * group, group) \cup {<<"scales", g>>})
  IN Flagged(RowsInPlace(rows, turns, "parallel",
               [residual_out |-> hidden, codes |-> hidden, scales |-> groups],
               [j \in 0 .. (turns - 1) |->
                  IF j < hidden THEN AddResidual(j) ELSE Encode(j - hidden)]),
             {(g \div groups) * turns + hidden + (g % groups) : g \in invalid})

\* norm_add_quant_float8_static_impl.  invalid: the rows with a value that is not
\* finite.
NormAddQuantStatic(rows, hidden, invalid) ==
  Flagged(RowsInPlace(rows, hidden + 1, "parallel",
            [residual_out |-> hidden, codes |-> hidden],
            [j \in 0 .. hidden |->
               IF j < hidden THEN AddResidual(j)
               ELSE Turn({}, Span("residual_out", 0, hidden), Span("codes", 0, hidden))]),
          {row * (hidden + 1) + hidden : row \in invalid})

\* norm_add_quantized_storage_impl, first region: the sums and the norms of the rows
\* (direct_f32 or element by element through the storage types).
NormStorageRows(rows, hidden) ==
  RowsInPlace(rows, hidden + 1, "parallel", [residual_out |-> hidden, norms |-> 1],
    [j \in 0 .. hidden |->
       IF j < hidden THEN AddResidual(j) ELSE Turn({}, {}, {<<"norms", 0>>})])

\* What encode_norm_quant_group fills of a row, by layout (configure_norm_quant_output
\* requires whole groups, and an even number of columns where two share a byte; mx
\* blocks are a scale byte and the codes it scales).
EncodedRow(layout, hidden, group) ==
  LET groups == hidden \div group
  IN CASE layout = "int4" -> [data |-> hidden \div 2, scales |-> groups]
       [] layout = "uint4" -> [data |-> hidden \div 2, scales |-> groups,
                               zero_points |-> groups]
       [] layout = "int8" -> [data |-> hidden, scales |-> groups]
       [] layout = "mxfp8" -> [data |-> groups * (group + 1)]
       [] layout = "mxfp4" -> [data |-> groups * (group \div 2 + 1)]
       [] layout = "nvfp4" -> [data |-> hidden \div 2, scale_codes |-> groups]

\* canonical_norm_quant_rows, when it encodes: a row of every array is one task.
\* invalid: the rows with a value that is not finite.
\* Once the flag is up, encode_norm_quant_group leaves the arrays alone.
NormEncodeRows(layout, rows, hidden, group, invalid) ==
  Checked(RowRegion(rows, EncodedRow(layout, hidden, group)), invalid, TRUE)

\* canonical_norm_quant_groups, when it encodes two-dimensional nvfp4: a task is a
\* group of columns of rowDomain rows, which share a scale.
NormEncodeGroups(rows, rowDomain, hidden, group, invalid) ==
  Checked(TileRegion(rows, rowDomain, hidden \div group,
                     [data |-> [columns |-> hidden \div 2, width |-> group \div 2],
                      scale_codes |-> [columns |-> hidden \div group, width |-> 1]]),
          invalid, TRUE)
=============================================================================
