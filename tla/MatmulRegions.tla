---------------------------- MODULE MatmulRegions ----------------------------
(***************************************************************************)
(* Footprints of the dense products.  No reduction is split: an output     *)
(* cell belongs to one task, which sums it in the order of the inner index.*)
(***************************************************************************)
EXTENDS Footprint

\* dense_gemm: tiles of kRowsPerTile by kColumnsPerTile, clipped at the edges.
DenseGemm(m, n, rowsPerTile, columnsPerTile) ==
  TileRegion(m, rowsPerTile, (n + columnsPerTile - 1) \div columnsPerTile,
             [c |-> [columns |-> n, width |-> columnsPerTile]])

\* The fused products: an item is a row of the result.
DenseGemmEx(m, n) == RowRegion(m, [c |-> n])
LinearEpilogue(rows, outputDim) == RowRegion(rows, [y |-> outputDim])
DecodeSwiglu(rows, intermediate) == RowRegion(rows, [y |-> intermediate])
GemmGateResidual(rows, outputDim) == RowRegion(rows, [y |-> outputDim])
ComplexGemm(m, n) == RowRegion(m, [c_real |-> n, c_imag |-> n])

\* flux_gelu: after dense_gemm, its activation updates y in place.
FluxGelu(rows, outputDim) == UpdatedInPlace(rows * outputDim, "parallel", "y")

\* lora_apply_direct_f16: a single row is cut by outputs, several rows by rows.
LoraApply(rows, outputDim) ==
  IF rows = 1 THEN Elementwise(outputDim, {"out"})
              ELSE RowRegion(rows, [out |-> outputDim])
=============================================================================
