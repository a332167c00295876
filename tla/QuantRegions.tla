----------------------------- MODULE QuantRegions -----------------------------
(***************************************************************************)
(* Footprints of the quantizers and of the matrix kernels on quantized     *)
(* weights.                                                                *)
(***************************************************************************)
EXTENDS Footprint

\* Quantizers of rows: a row of codes, with a scale for every group.
QuantizeInt8(rows, dim, groups) == RowRegion(rows, [codes |-> dim, scales |-> groups])
QuantizeFloat8(rows, dim, groups) == RowRegion(rows, [codes |-> dim, scales |-> groups])
Mxfp8Quantize(rows, dim, groups) == RowRegion(rows, [codes |-> dim, scales |-> groups])
QuantizeInt8Asymmetric(rows, dim) ==
  RowRegion(rows, [codes |-> dim, scales |-> 1, zero_points |-> 1])
SiluMulFakeQuantInt8(rows, dim) ==
  RowRegion(rows, [codes |-> dim, scales |-> 1, out |-> dim])
TernaryPack(rows, bytes, k) == RowRegion(rows, [packed |-> bytes, dequantized |-> k])
Tq20Pack(rows, bytes, k) == RowRegion(rows, [packed |-> bytes, dequantized |-> k])
E8iq3Pack(rows, rowBytes) == RowRegion(rows, [packed |-> rowBytes])

\* lowbit_pack ors its codes into bytes that it has cleared.
LowbitPack(rows, rowBytes, groups) ==
  LET k == RowRegion(rows, [packed |-> rowBytes, scales |-> groups])
  IN [k EXCEPT !.reads = [i \in DOMAIN k.writes |-> {c \in k.writes[i] : c[1] = "packed"}]]

\* Their inverses.
DequantizedRows(rows, dim) == RowRegion(rows, [out |-> dim])
DequantizeInt8(rows, dim) == DequantizedRows(rows, dim)
DequantizeInt8Asymmetric(rows, dim) == DequantizedRows(rows, dim)
DequantizeFloat8(rows, dim) == DequantizedRows(rows, dim)
LowbitUnpack(rows, dim) == RowRegion(rows, [weights |-> dim])
E8iq3Unpack(rows, dim) == RowRegion(rows, [weights |-> dim])
BaseQDequant(count) == Elementwise(count, {"output"})

\* e8iq3_rotate, which may be called in place, works in a buffer of the part.
E8iq3Rotate(rows, dim) == BufferedInPlace(rows, dim, "parallel", "y")

\* Two elements to the byte.
Fp32ToFp4x2(count) == Elementwise(count \div 2, {"packed"})
Fp4x2ToFp32(count) == RowRegion(count \div 2, [out |-> 2])

\* nvfp4_quantize: an item is a group of rows that share their scales, one row
\* unless scale_2d.
Nvfp4Quantize(rows, rowGroup, bytes, blocks) ==
  LET count == (rows + rowGroup - 1) \div rowGroup
      First(group) == group * rowGroup
      Height(group) == Least(rows, First(group) + rowGroup) - First(group)
      Rows(a, group, width) == Span(a, First(group) * width, Height(group) * width)
  IN Region(count, "parallel",
       [group \in 0 .. (count - 1) |->
          Rows("packed", group, bytes) \cup Rows("scale_codes", group, blocks)],
       Span("packed", 0, rows * bytes) \cup Span("scale_codes", 0, rows * blocks))

\* activation_pack_ref goes on after a row that it cannot encode, and reports it.
ActivationPack(rows, blocks, invalid) == Flagged(RowRegion(rows, [packed |-> blocks]), invalid)

\* gguf_pack_ref: an item is a block, in the canonical order.
GgufPack(rows, blocksPerRow, blockBytes) ==
  RowRegion(rows * blocksPerRow, [packed |-> blockBytes])

\* turboquant_decode: a task is one head of one gathered row.
TurboquantDecode(rows, heads, headSize) ==
  RowRegion(rows * heads, [key_out |-> headSize, value_out |-> headSize])
-----------------------------------------------------------------------------
\* Products with m rows of x and n rows of weights, y being [m, n].  An item of a
\* cell-wise product is a cell of y, ...
ProductCells(m, n) == Elementwise(m * n, {"y"})
Mxfp8Gemm(m, n) == ProductCells(m, n)
Nvfp4Gemm(m, n) == ProductCells(m, n)
BitnetInt8Gemm(m, n) == ProductCells(m, n)
Fp8ScaledGemm(m, n) == ProductCells(m, n)
Int8GemmRef(m, n) == ProductCells(m, n)
LowbitW8a8Ref(m, n) == ProductCells(m, n)

\* ... an item of a column-wise one a row of weights, whose products make a column.
ColumnCells(a, columns, m, n) == {<<a, row * n + c>> : row \in 0 .. (m - 1), c \in columns}
ProductColumns(m, n) ==
  Region(n, "parallel", [output \in 0 .. (n - 1) |-> ColumnCells("y", {output}, m, n)],
         Span("y", 0, m * n))
LowbitGemmRef(m, n) == ProductColumns(m, n)
LowbitGemmAvx2(m, n) == ProductColumns(m, n)
LowbitGemmAvx512(m, n) == ProductColumns(m, n)
LowbitGemmNeon(m, n) == ProductColumns(m, n)
E8iq3Gemm(m, n) == ProductColumns(m, n)
W8a32GemmRef(m, n) == ProductColumns(m, n)

\* base_q_gemm tiles the rows of x inside an item; a vector goes by cell instead.
BaseQGemm(m, n) == IF m > 1 THEN ProductColumns(m, n) ELSE ProductCells(1, n)

\* lowbit_gemm_pair: the columns of two products in one region.
LowbitGemmPair(m, n) ==
  Region(2 * n, "parallel",
    [item \in 0 .. (2 * n - 1) |->
       IF item < n THEN ColumnCells("gate", {item}, m, n)
                   ELSE ColumnCells("up", {item - n}, m, n)],
    Span("gate", 0, m * n) \cup Span("up", 0, m * n))

\* The i8mm kernels take the columns in pairs; a last odd one is left for after the
\* region.
ColumnPairs(m, n) ==
  Region(n \div 2, "parallel",
    [pair \in 0 .. (n \div 2 - 1) |-> ColumnCells("y", {2 * pair, 2 * pair + 1}, m, n)],
    ColumnCells("y", 0 .. (2 * (n \div 2) - 1), m, n))
Int8GemmI8mm(m, n) == ColumnPairs(m, n)
LowbitW8a8I8mm(m, n) == ColumnPairs(m, n)

\* One row of weights per item.
ProductRows(n) == Elementwise(n, {"y"})
Mxfp4Gemv(n) == ProductRows(n)
Nvfp4Gemv(n) == ProductRows(n)
GgufGemvRef(n) == ProductRows(n)
GgufGemvAvx2(n) == ProductRows(n)
GgufGemvBlocked(n) == ProductRows(n)
Q40GemvRef(n) == ProductRows(n)
Q40GemvW8a8Ref(n) == ProductRows(n)
Q80GemvW8a8Ref(n) == ProductRows(n)
QgemvRows(count) == ProductRows(count)
LowbitGemvRows(count) == ProductRows(count)
BaseQGemvSwiglu(n) == Elementwise(n, {"output"})
QgemvUpGate(n) == Elementwise(n, {"up", "gate"})
QgemvUpGateActivation(n) == Elementwise(n, {"out"})

\* qgemv_axpy_row adds to what is there.
QgemvAxpyRow(k) == UpdatedInPlace(k, "parallel", "out")

\* qgemm_epilogue applies the activation over what qgemm has left.
QgemmEpilogue(m, n) == UpdatedInPlace(m * n, "parallel", "y")

QgemmBackwardInput(m, k) == RowRegion(m, [grad_x |-> k])
BaseQEmbedding(count, columns) == Elementwise(count * columns, {"output"})
CanonicalEmbedding(count, dim) == RowRegion(count, [output |-> dim])
CanonicalEmbeddingBag(bags, dim) == RowRegion(bags, [output |-> dim])

\* The rows of three projections, one after the other, in one region.
QkvCell(item, queryDim, kvDim) ==
  IF item < queryDim THEN <<"q", item>>
  ELSE IF item < queryDim + kvDim THEN <<"k_out", item - queryDim>>
  ELSE <<"v_out", item - queryDim - kvDim>>
QgemvQkv(queryDim, kvDim) ==
  LET count == queryDim + 2 * kvDim
  IN Region(count, "parallel", [item \in 0 .. (count - 1) |-> {QkvCell(item, queryDim, kvDim)}],
            UNION {Span("q", 0, queryDim), Span("k_out", 0, kvDim), Span("v_out", 0, kvDim)})
BaseQGemvQkv(queryDim, kvDim) == QgemvQkv(queryDim, kvDim)

\* qgemv_qkv_rope_kv: rotated pairs of q, then the pairs of the key's row of the
\* cache, then the cells of the value's; no cache rows without a slot.
QgemvQkvRopeKv(queryHeads, kvHeads, headDim, slot) ==
  LET half == headDim \div 2
      queryPairs == queryHeads * half
      keyPairs == IF slot >= 0 THEN kvHeads * half ELSE 0
      valueRows == IF slot >= 0 THEN kvHeads * headDim ELSE 0
      base == slot * kvHeads * headDim
      Pair(a, from, pair) ==
        LET row == from + (pair \div half) * headDim + (pair % half)
        IN {<<a, row>>, <<a, row + half>>}
      Cells(item) ==
        IF item < queryPairs THEN Pair("q", 0, item)
        ELSE IF item - queryPairs < keyPairs THEN Pair("key_cache", base, item - queryPairs)
        ELSE {<<"value_cache", base + item - queryPairs - keyPairs>>}
      count == queryPairs + keyPairs + valueRows
  IN Region(count, "parallel", [item \in 0 .. (count - 1) |-> Cells(item)],
            UNION {Span("q", 0, queryHeads * headDim), Span("key_cache", base, 2 * keyPairs),
                   Span("value_cache", base, valueRows)})

\* base_q_moe_gemm and base_q_moe_swiglu: a task is one output column of one tile of
\* rows, all of one expert.
TileColumns(tiles, tile, columns) ==
  Region(tiles * columns, "parallel",
    [task \in 0 .. (tiles * columns - 1) |->
       {<<"output", ((task \div columns) * tile + row) * columns + (task % columns)>> :
          row \in 0 .. (tile - 1)}],
    Span("output", 0, tiles * tile * columns))
BaseQMoeGemm(tiles, tile, outputRows) == TileColumns(tiles, tile, outputRows)
BaseQMoeSwiglu(tiles, tile, intermediate) == TileColumns(tiles, tile, intermediate)
=============================================================================
