--------------------------- MODULE PreparedRegions ---------------------------
(***************************************************************************)
(* Footprints of the products with prepared weights (qgemm_canonical.cpp). *)
(* Prepared weights are stored in panels of tile rows, the last one        *)
(* clipped; tasks are rows, panels, or groups of panels.  A cell is        *)
(* <<array, index, source>>: source names the weight rows its value is     *)
(* computed from, so that the promised output also says that every value   *)
(* comes from its own weight rows, whatever panel a task decodes.          *)
(***************************************************************************)
EXTENDS Footprint, Sequences

Panels(rows, tile) == (rows + tile - 1) \div tile

\* The weight rows of a panel, and of a group of size panels.
PanelRows(rows, tile, panel) == (panel * tile) .. (Least(panel * tile + tile, rows) - 1)
GroupRows(rows, tile, size, group) ==
  UNION {PanelRows(rows, tile, panel) :
           panel \in (group * size) .. (Least(group * size + size, Panels(rows, tile)) - 1)}
Groups(rows, tile, size) == (Panels(rows, tile) + size - 1) \div size

\* The outputs of these weight rows for these rows of the input.
Products(a, items, rows, weights) ==
  {<<a, item * rows + row, <<row>>>> : item \in items, row \in weights}
AllProducts(a, m, rows) == Products(a, 0 .. (m - 1), rows, 0 .. (rows - 1))

-----------------------------------------------------------------------------
(* Quantized weights and a quantized input (qgemm_prepacked_quantized).    *)

DualRows(m, rows) ==
  Region(m * rows, "parallel",
    [index \in 0 .. (m * rows - 1) |-> {<<"output", index, <<index % rows>>>>}],
    AllProducts("output", m, rows))

DualPanelRows(m, rows, tile) ==
  LET panels == Panels(rows, tile)
  IN Region(m * panels, "parallel",
       [index \in 0 .. (m * panels - 1) |->
          Products("output", {index \div panels}, rows,
                   PanelRows(rows, tile, index % panels))],
       AllProducts("output", m, rows))

DualPanelGroups(m, rows, tile, size) ==
  LET groups == Groups(rows, tile, size)
  IN Region(m * groups, "parallel",
       [index \in 0 .. (m * groups - 1) |->
          Products("output", {index \div groups}, rows,
                   GroupRows(rows, tile, size, index % groups))],
       AllProducts("output", m, rows))
DualFp8PanelGroups(m, rows, tile, size) == DualPanelGroups(m, rows, tile, size)
DualAvx2PanelGroups(m, rows, tile, size) == DualPanelGroups(m, rows, tile, size)

\* Weights that only the general kernel can multiply: a task goes over every row
\* of the input.
PanelRegion(a, m, rows, tile) ==
  LET panels == Panels(rows, tile)
  IN Region(panels, "parallel",
       [panel \in 0 .. (panels - 1) |->
          Products(a, 0 .. (m - 1), rows, PanelRows(rows, tile, panel))],
       AllProducts(a, m, rows))
QuantizedPanels(m, rows, tile) == PanelRegion("output", m, rows, tile)

\* pair is the combination of weight and activation layouts: "none" has no direct
\* kernel, "fp8" has one that decodes a group of panels; avx2 tells
\* that there is one for AVX2 too.
PreparedQuantized(pair, avx2, m, rows, tile, size) ==
  CASE pair = "none" -> QuantizedPanels(m, rows, tile)
    [] pair # "none" /\ m > 1 /\ avx2 -> DualAvx2PanelGroups(m, rows, tile, size)
    [] pair = "fp8" /\ ~(m > 1 /\ avx2) -> DualFp8PanelGroups(m, rows, tile, 2 * size)
    [] pair = "other" /\ m = 1 -> DualRows(1, rows)
    [] pair = "other" /\ m > 1 /\ ~avx2 -> DualPanelRows(m, rows, tile)

-----------------------------------------------------------------------------
(* Prepared weights and a float input (qgemm_prepacked_storage_impl).      *)

GemvStorageRows(a, rows) ==
  Region(rows, "parallel", [row \in 0 .. (rows - 1) |-> Products(a, {0}, rows, {row})],
         AllProducts(a, 1, rows))
TypedGemvPanels(a, rows, tile) == PanelRegion(a, 1, rows, tile)
StoragePanels(a, m, rows, tile) == PanelRegion(a, m, rows, tile)

TypedStoragePanelGroups(a, m, rows, tile, size) ==
  LET groups == Groups(rows, tile, size)
  IN Region(groups, "parallel",
       [group \in 0 .. (groups - 1) |->
          Products(a, 0 .. (m - 1), rows, GroupRows(rows, tile, size, group))],
       AllProducts(a, m, rows))

\* What decides the route: the input's type, the instruction set ("avx2" stands for
\* F16C too), and of the weights whether they have an activation order or a group
\* index, whether F32 input takes the panel kernel with one row, and whether they are
\* conventional FP8.
Typed(c) == c.type \in {"f16", "bf16"}
TakesGroups(c, m) ==
  ~c.ordered /\ \/ c.target = "avx2" /\ (Typed(c) \/ m > 1)
                \/ c.target = "arm" /\ Typed(c) /\ m > 1
TakesRows(c, m) ==
  m = 1 /\ ~TakesGroups(c, m)
    /\ ~(c.target = "avx2" /\ c.type = "f32" /\ ~c.ordered /\ c.panelLayout)
    /\ ~(c.target = "arm" /\ Typed(c) /\ ~c.ordered /\ ~c.indexed)

\* One projection: by groups of panels, by rows, or by panels.
Projection(c, a, m, rows, tile, size, byGroups) ==
  CASE byGroups -> TypedStoragePanelGroups(a, m, rows, tile, size)
    [] ~byGroups /\ TakesRows(c, m) -> GemvStorageRows(a, rows)
    [] ~byGroups /\ ~TakesRows(c, m) -> IF m = 1 /\ Typed(c)
                                       THEN TypedGemvPanels(a, rows, tile)
                                       ELSE StoragePanels(a, m, rows, tile)
PreparedStorage(c, m, rows, tile, size) ==
  Projection(c, "y", m, rows, tile, size, TakesGroups(c, m))

-----------------------------------------------------------------------------
(* The gate and the up projection, stored apart or fused (gate_up_impl).   *)

GateUpOutputs(fused) == IF fused THEN {"fused_output"} ELSE {"gate_output", "up_output"}
GateUpPanels(m, rows, tile, fused) ==
  LET panels == Panels(rows, tile)
  IN Region(panels, "parallel",
       [panel \in 0 .. (panels - 1) |->
          UNION {Products(a, 0 .. (m - 1), rows, PanelRows(rows, tile, panel)) :
                   a \in GateUpOutputs(fused)}],
       UNION {AllProducts(a, m, rows) : a \in GateUpOutputs(fused)})
GateUpRows(rows, fused) ==
  Region(rows, "parallel",
    [row \in 0 .. (rows - 1) |->
       UNION {Products(a, {0}, rows, {row}) : a \in GateUpOutputs(fused)}],
    UNION {AllProducts(a, 1, rows) : a \in GateUpOutputs(fused)})

\* On x86 (with or without AVX2) typed input takes the panels even for one row.
GateUp(c, m, rows, tile, fused) ==
  IF m > 1 \/ (c.target \in {"avx2", "sse"} /\ (Typed(c) \/ c.panelLayout))
  THEN GateUpPanels(m, rows, tile, fused)
  ELSE GateUpRows(rows, fused)

-----------------------------------------------------------------------------
(* The three projections of attention (qgemm_prepacked_qkv_storage).       *)

\* The regions ks one after the other, as one index range.
Concatenated(ks) ==
  LET offset[plane \in 1 .. (Len(ks) + 1)] ==
        IF plane = 1 THEN 0 ELSE offset[plane - 1] + ks[plane - 1].count
      count == offset[Len(ks) + 1]
      PlaneOf(task) == CHOOSE plane \in 1 .. Len(ks) :
                         offset[plane] <= task /\ task < offset[plane + 1]
  IN Region(count, "parallel",
       [task \in 0 .. (count - 1) |-> ks[PlaneOf(task)].writes[task - offset[PlaneOf(task)]]],
       UNION {ks[plane].out : plane \in 1 .. Len(ks)})

QkvPlanes == <<"q_output", "k_output", "v_output">>
QkvSchedule(planeOf) == Concatenated([plane \in 1 .. 3 |-> planeOf[plane]])

\* One task for the panels of the same number in all three projections, so that it
\* decodes the input once.  With fewer panels in one of them, the tasks that have more
\* to do are spread over the parts: task t takes panel t * stride.
MostPanels(rows, tile) ==
  CHOOSE n \in {Panels(rows[p], tile) : p \in 1 .. 3} :
    \A p \in 1 .. 3 : Panels(rows[p], tile) <= n
FewestPanels(rows, tile) ==
  CHOOSE n \in {Panels(rows[p], tile) : p \in 1 .. 3} :
    \A p \in 1 .. 3 : n <= Panels(rows[p], tile)
Coprime(x, y) == \A d \in 2 .. x : x % d # 0 \/ y % d # 0

\* (A defect: the first stride past the common panels, whatever its divisors.)
PanelStride_AnyStride(threads, common, tasks) ==
  IF threads > 1 /\ common + 1 < tasks THEN common + 1 ELSE 1

PanelStride(threads, common, tasks) ==
  LET strides == {s \in (common + 1) .. (tasks - 1) : Coprime(s, tasks)}
  IN IF threads > 1 /\ strides # {} THEN CHOOSE s \in strides : \A t \in strides : s <= t
                                    ELSE 1

QkvSharedPanels(threads, m, rows, tile) ==
  LET tasks == MostPanels(rows, tile)
      stride == PanelStride(threads, FewestPanels(rows, tile), tasks)
      Planes(panel) == {p \in 1 .. 3 : panel < Panels(rows[p], tile)}
      Work(panel) == UNION {Products(QkvPlanes[p], 0 .. (m - 1), rows[p],
                                     PanelRows(rows[p], tile, panel)) : p \in Planes(panel)}
  IN Region(tasks, "parallel",
       [task \in 0 .. (tasks - 1) |-> Work((task * stride) % tasks)],
       UNION {AllProducts(QkvPlanes[p], m, rows[p]) : p \in 1 .. 3})

\* Many rows are enough to share for F32 input (kMany in place of 64).
SharesPanels(c, m, many) ==
  /\ m > 1 /\ ~c.ordered
  /\ IF c.target \in {"avx2", "sse"}
     THEN \/ c.type = "f32" /\ m < many /\ ~c.fp8
          \/ c.type = "f32" /\ m >= many /\ c.threads = 1
          \/ c.type = "f16" /\ ~c.fp8
     ELSE c.type = "f32" /\ m >= many

PreparedQkv(c, m, rows, tile, size, many) ==
  IF SharesPanels(c, m, many) THEN QkvSharedPanels(c.threads, m, rows, tile)
  ELSE QkvSchedule([p \in 1 .. 3 |->
         Projection(c, QkvPlanes[p], m, rows[p], tile, size,
                    TakesGroups(c, m) /\ (m = 1 \/ Typed(c)))])

-----------------------------------------------------------------------------
(* The three projections of one row, rotated and stored in the caches      *)
(* (qgemv_prepacked_qkv_rope_kv_storage).  s is the shape of the call:     *)
(* heads and kvHeads of headDim rows, tile and size as above, the cache    *)
(* slot, negative for a call that only wants the queries.  An output is a  *)
(* pair of weight rows rotated by the angle of its dimension.              *)

Half(s) == s.headDim \div 2
KvDim(s) == s.kvHeads * s.headDim
CacheBase(s) == s.slot * KvDim(s)

\* Rows first and second of the weights, stored half a head apart.
Rotated(s, a, base, output, first, second) ==
  {<<a, base + x, <<first, second, output % s.headDim>>>> : x \in {output, output + Half(s)}}

\* What a region of query or key heads is to produce, and one of value rows.
AllRotated(s, a, base, heads) ==
  UNION {Rotated(s, a, base, row, row, row + Half(s)) :
           row \in {head * s.headDim + dim : head \in 0 .. (heads - 1), dim \in 0 .. (Half(s) - 1)}}
Values(s, rows) == {<<"value_cache", CacheBase(s) + row, <<row>>>> : row \in rows}

RopeRows(s, a, base, heads) ==
  Region(heads * Half(s), "parallel",
    [item \in 0 .. (heads * Half(s) - 1) |->
       LET row == (item \div Half(s)) * s.headDim + (item % Half(s))
       IN Rotated(s, a, base, row, row, row + Half(s))],
    AllRotated(s, a, base, heads))
\* canonical_qkv_rope_f32_tiles cuts a part into tiles that end with the head.
RopeF32Tiles(s, a, base, heads) == RopeRows(s, a, base, heads)

RopeTypedPanels(s, a, base, heads) ==
  LET perHead == Half(s) \div s.tile
      Task(task) ==
        LET first == (task \div perHead) * s.headDim + (task % perHead) * s.tile
        IN UNION {Rotated(s, a, base, first + lane, first + lane, first + Half(s) + lane) :
                    lane \in 0 .. (s.tile - 1)}
  IN Region(heads * perHead, "parallel", [task \in 0 .. (heads * perHead - 1) |-> Task(task)],
            AllRotated(s, a, base, heads))

\* The kernels that decode whole panels multiply the rows of the panels, and store them
\* as if these began where the head's rows do.
RopePanels(s, a, base, heads) ==
  LET perHead == (Half(s) + s.tile - 1) \div s.tile
      Task(task) ==
        LET headPanel == task % perHead
            first == (task \div perHead) * s.headDim + headPanel * s.tile
            panel0 == first \div s.tile
            panel1 == (first + Half(s)) \div s.tile
        IN UNION {Rotated(s, a, base, first + lane, panel0 * s.tile + lane,
                          panel1 * s.tile + lane) :
                    lane \in 0 .. (Least(s.tile, Half(s) - headPanel * s.tile) - 1)}
  IN Region(heads * perHead, "parallel", [task \in 0 .. (heads * perHead - 1) |-> Task(task)],
            AllRotated(s, a, base, heads))

RopePanelGroups(s, a, base, heads) ==
  LET panelsPerHead == Half(s) \div s.tile
      perHead == (panelsPerHead + s.size - 1) \div s.size
      PanelsOf(task) ==
        LET firstOfHead == (task % perHead) * s.size
            first == (task \div perHead) * (s.headDim \div s.tile) + firstOfHead
        IN first .. (first + Least(s.size, panelsPerHead - firstOfHead) - 1)
      Lane(panel, lane) ==
        Rotated(s, a, base, panel * s.tile + lane, panel * s.tile + lane,
                (panel + Half(s) \div s.tile) * s.tile + lane)
  IN Region(heads * perHead, "parallel",
       [task \in 0 .. (heads * perHead - 1) |->
          UNION {Lane(panel, lane) : panel \in PanelsOf(task), lane \in 0 .. (s.tile - 1)}],
       AllRotated(s, a, base, heads))

\* The value rows are stored as they come, by rows or by groups of size panels.
ValueRows(s) ==
  Region(KvDim(s), "parallel", [row \in 0 .. (KvDim(s) - 1) |-> Values(s, {row})],
         Values(s, 0 .. (KvDim(s) - 1)))
ValuePanelGroups(s, size) ==
  LET groups == Groups(KvDim(s), s.tile, size)
  IN Region(groups, "parallel",
       [group \in 0 .. (groups - 1) |-> Values(s, GroupRows(KvDim(s), s.tile, size, group))],
       Values(s, 0 .. (KvDim(s) - 1)))

\* Panels are for halves of heads that are made of whole panels, and for F32 input only
\* with conventional FP8 weights and one thread.
RopeTakesPanels(c, s) ==
  /\ ~c.ordered /\ Half(s) % s.tile = 0
  /\ \/ Typed(c)
     \/ c.target \in {"avx2", "sse"} /\ c.fp8 /\ c.threads = 1

\* The panel kernels: for typed input groups of panels, but on ARM, where the weights
\* have no group index and small blocks, single ones by rows; for F32 single panels.
RopePairs(c, s, a, base, heads) ==
  CASE RopeTakesPanels(c, s) /\ ~Typed(c) -> RopePanels(s, a, base, heads)
    [] RopeTakesPanels(c, s) /\ Typed(c) /\ c.target = "arm" /\ ~c.indexed ->
         RopeTypedPanels(s, a, base, heads)
    [] RopeTakesPanels(c, s) /\ Typed(c) /\ ~(c.target = "arm" /\ ~c.indexed) ->
         RopePanelGroups(s, a, base, heads)
    [] ~RopeTakesPanels(c, s) -> IF Typed(c) THEN RopeRows(s, a, base, heads)
                                            ELSE RopeF32Tiles(s, a, base, heads)
RopeValues(c, s) ==
  CASE ~RopeTakesPanels(c, s) -> ValueRows(s)
    [] RopeTakesPanels(c, s) ->
         ValuePanelGroups(s, IF Typed(c) /\ ~(c.target = "arm" /\ ~c.indexed) THEN s.size ELSE 1)

PreparedQkvRope(c, s) ==
  Concatenated(<<RopePairs(c, s, "q_output", 0, s.heads)>> \o
               IF s.slot < 0 THEN <<>>
               ELSE <<RopePairs(c, s, "key_cache", CacheBase(s), s.kvHeads), RopeValues(c, s)>>)

\* F32 outputs, when the panels are not used, take the three projections as they are and
\* are then rotated in place, head by head.
RopeInPlace(s, a, base, heads) ==
  LET turns == 0 .. (heads * Half(s) - 1)
      Row0(i) == base + (i \div Half(s)) * s.headDim + (i % Half(s))
      pairs == [i \in turns |-> {<<a, Row0(i)>>, <<a, Row0(i) + Half(s)>>}]
  IN InPlace(heads * Half(s), 1, "serial", pairs, [i \in turns |-> {}], pairs,
             Span(a, base, heads * s.headDim))

-----------------------------------------------------------------------------
(* Gate and up projections whose product is quantized at once              *)
(* (qgemm_prepacked_swiglu_quantized).  A task has its quantization groups *)
(* alone: their codes, two to the byte in the four-bit layouts, and their  *)
(* scales.  q is the shape: m rows of the input, columns of the output in  *)
(* groups of group, perByte codes to the byte, domain rows to a scale.  (A *)
(* first pass may measure the tensor: it writes its worker's maximum only.)*)

\* The group's codes and scale in one row; without scaled, the layout has one scale for
\* the whole tensor, which the caller has written.
QuantizedGroup(q, row, group) ==
  Span("data", (row * q.columns + group * q.group) \div q.perByte, q.group \div q.perByte)
    \cup IF q.scaled THEN {<<"scales", row * (q.columns \div q.group) + group>>} ELSE {}
AllQuantized(q) ==
  Span("data", 0, (q.m * q.columns) \div q.perByte)
    \cup IF q.scaled THEN Span("scales", 0, q.m * (q.columns \div q.group)) ELSE {}

\* Tasks of height rows and one group, in the order of the code.
SwigluQuantTasks(q, height) ==
  LET groups == q.columns \div q.group
      tasks == ((q.m + height - 1) \div height) * groups
      Rows(task) == LET first == (task \div groups) * height
                    IN first .. (first + Least(height, q.m - first) - 1)
  IN Region(tasks, "parallel",
       [task \in 0 .. (tasks - 1) |->
          UNION {QuantizedGroup(q, row, task % groups) : row \in Rows(task)}],
       AllQuantized(q))
SwigluQuantGroups(q) == SwigluQuantTasks(q, q.domain)
\* The panel kernel takes tiles of rows, which are the scale's domain where it has one.
SwigluQuantPanelGroups(q, mTile) == SwigluQuantTasks(q, IF q.domain > 1 THEN q.domain ELSE mTile)
SwigluQuantFullRows(q) ==
  Region(q.m, "parallel",
    [row \in 0 .. (q.m - 1) |->
       UNION {QuantizedGroup(q, row, group) : group \in 0 .. (q.columns \div q.group - 1)}],
    AllQuantized(q))

\* configure_swiglu_quant_output: whole groups, and even ones where bytes hold two codes.
ConfiguresOutput(q) == q.columns % q.group = 0 /\ q.group % q.perByte = 0

\* a8 is the route of int8 output that the ARM and the portable build keep by groups.
PreparedSwigluQuantized(c, q, tile, mTile, a8, bad) ==
  LET x86 == c.target \in {"avx2", "sse"}
      onePanel == x86 /\ q.m = 1 /\ c.panelLayout
      fullRows == x86 /\ q.m = 1 /\ c.threads = 1 /\ ~onePanel
      panels == q.group % tile = 0 /\ (onePanel \/ (q.m # 1 /\ (x86 \/ ~a8)))
  IN Flagged(CASE fullRows -> SwigluQuantFullRows(q)
               [] ~fullRows /\ panels -> SwigluQuantPanelGroups(q, mTile)
               [] ~fullRows /\ ~panels -> SwigluQuantGroups(q), bad)
=============================================================================
