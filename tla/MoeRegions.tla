------------------------------ MODULE MoeRegions ------------------------------
(***************************************************************************)
(* Footprints of the mixture-of-experts kernels.  expertIds[row] is the    *)
(* expert of a row.                                                        *)
(***************************************************************************)
EXTENDS Footprint, FiniteSets, SequencesExt

\* grouped_gemm: an item is a row of a group.
GroupedGemm(groups, m, n) == RowRegion(groups * m, [c |-> n])

MoeGather(gatheredRows, dim) == RowRegion(gatheredRows, [out |-> dim])
MoeFinalize(tokens, dim) == RowRegion(tokens, [out |-> dim])
MoeGroupedGemm(rows, outputDim) == RowRegion(rows, [out |-> outputDim])
MoeGroupedSwiglu(rows, intermediate) == RowRegion(rows, [out |-> intermediate])

\* moe_gemm_fp8 and moe_gemm_wna16: an item is an output of a row; moe_gemm_nvfp4: a
\* row, which becomes NaN if its own product fails.
MoeGemmFp8(rows, outputDim) == Elementwise(rows * outputDim, {"out"})
MoeGemmWna16(rows, outputDim) == Elementwise(rows * outputDim, {"out"})
MoeGemmNvfp4(rows, outputDim) == RowRegion(rows, [out |-> outputDim])

\* The experts some row is routed to, in increasing order.
Active(expertIds) == SetToSortSeq({expertIds[row] : row \in DOMAIN expertIds}, <)

\* A task is an output of an active expert: it decodes one row of that expert's
\* weights and applies it to every row routed to the expert.
ExpertTasks(expertIds, outputDim) ==
  LET active == Active(expertIds)
      tasks == Len(active) * outputDim
      Routed(task) == {row \in DOMAIN expertIds :
                         expertIds[row] = active[task \div outputDim + 1]}
  IN Region(tasks, "parallel",
       [task \in 0 .. (tasks - 1) |->
          {<<"out", row * outputDim + (task % outputDim)>> : row \in Routed(task)}],
       Span("out", 0, Cardinality(DOMAIN expertIds) * outputDim))

\* grouped_qprojection takes that way when an expert is shared; else each row is a
\* product of its own, in a serial loop.  (So it is with one thread too.)
GroupedQProjection(expertIds, outputDim) ==
  LET rows == Cardinality(DOMAIN expertIds)
  IN IF Len(Active(expertIds)) = rows THEN Serial(RowRegion(rows, [out |-> outputDim]))
                                      ELSE ExpertTasks(expertIds, outputDim)

\* moe_grouped_qswiglu always does; gate and up of an output are one task.
MoeGroupedQSwiglu(expertIds, intermediate) == ExpertTasks(expertIds, intermediate)
-----------------------------------------------------------------------------
(* Gradients, in serial loops that stop at the first invalid index.        *)

Row(a, index, width) == Span(a, index * width, width)

\* moe_finalize_backward: the routes of a token add to the rows they were sent to.
MoeFinalizeBackward(inverse, routes, dim) ==
  LET valid(route) == inverse[route] \in 0 .. (routes - 1)
      Grad(route) == IF valid(route) THEN Row("grad_expert_out", inverse[route], dim)
                                     ELSE {}
      grads == [route \in 0 .. (routes - 1) |-> Grad(route)]
      writes == [route \in 0 .. (routes - 1) |->
                   IF valid(route) THEN Grad(route) \cup {<<"grad_expert_weights", route>>}
                                   ELSE {}]
  IN Checked(UpdatingRegion(routes, "serial", grads, writes,
                            UNION {writes[r] : r \in DOMAIN writes}),
             {route \in 0 .. (routes - 1) : ~valid(route)}, FALSE)

\* moe_gather_backward: padding rows have no token.
MoeGatherBackward(gatherRows, tokens, gatheredRows, dim) ==
  LET rows == [row \in 0 .. (gatheredRows - 1) |->
                 IF gatherRows[row] \in 0 .. (tokens - 1)
                 THEN Row("grad_input", gatherRows[row], dim) ELSE {}]
  IN Checked(UpdatingRegion(gatheredRows, "serial", rows, rows,
                            UNION {rows[r] : r \in DOMAIN rows}),
             {row \in 0 .. (gatheredRows - 1) : gatherRows[row] >= tokens}, FALSE)

\* moe_grouped_gemm_backward_input and _weight.
InvalidExperts(expertIds, experts) ==
  {row \in DOMAIN expertIds : expertIds[row] \notin 0 .. (experts - 1)}

MoeBackwardInput(expertIds, rows, experts, inputDim) ==
  LET region == Serial(RowRegion(rows, [grad_input |-> inputDim]))
      invalid == InvalidExperts(expertIds, experts)
  IN Checked([region EXCEPT !.writes = [row \in DOMAIN region.writes |->
                IF row \in invalid THEN {} ELSE region.writes[row]]], invalid, FALSE)

MoeBackwardWeight(expertIds, rows, experts, weightCount) ==
  LET invalid == InvalidExperts(expertIds, experts)
      grads == [row \in 0 .. (rows - 1) |->
                  IF row \in invalid THEN {}
                  ELSE Row("grad_weights", expertIds[row], weightCount)]
  IN Checked(UpdatingRegion(rows, "serial", grads, grads,
                            UNION {grads[r] : r \in DOMAIN grads}), invalid, FALSE)
=============================================================================
