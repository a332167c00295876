---------------------------- MODULE VisionRegions ----------------------------
(***************************************************************************)
(* Footprints of the vision kernels: patches, pooling, convolutions and    *)
(* the strided writes beside them.  axes are the spatial axes of the       *)
(* image, outermost first.                                                 *)
(***************************************************************************)
EXTENDS Footprint, WindowGeometry

\* extract_patches_2d and its typed twins of two and three axes: an item is a window.
ExtractPatches(batch, axes, channels) ==
  RowRegion(batch * PatchWindows(axes), [output |-> KernelCells(axes) * channels])
ExtractPatchesTyped(batch, axes, channels) == ExtractPatches(batch, axes, channels)
ExtractPatches3dTyped(batch, axes, channels) == ExtractPatches(batch, axes, channels)

\* vision_patch_projection, of two and of three axes.
PatchProjection(batch, axes, channels) ==
  RowRegion(batch * PatchWindows(axes), [output |-> channels])
PatchProjection3d(batch, axes, channels) == PatchProjection(batch, axes, channels)

\* interpolate_position_2d, and factorized_position_2d, where a masked token gets zeros.
InterpolatePosition(height, width, channels) ==
  RowRegion(height * width, [output |-> channels])
InterpolatePositionTyped(height, width, channels) ==
  RowRegion(height * width, [output |-> channels])
FactorizedPosition(batch, tokens, channels) ==
  RowRegion(batch * tokens, [output |-> channels])

\* avg_pool2d_tokens, with and without ceil_mode.
AvgPool(ceilMode, batch, axes, channels) ==
  RowRegion(batch * PoolWindows(axes, ceilMode), [output |-> channels])
AvgPoolTyped(ceilMode, batch, axes, channels) ==
  RowRegion(batch * PoolWindows(axes, ceilMode), [output |-> channels])

\* pool_tokens_by_position: a task adds the tokens of one image to their buckets,
\* bucket[token] or -1 for a token left out, over the zeros that a serial loop has
\* stored there before.
PoolTokens(bucket, batch, tokens, buckets, channels) ==
  LET Hit(item) == {bucket[item * tokens + t] : t \in 0 .. (tokens - 1)} \ {-1}
      Sums(item) == UNION {Span("output", (item * buckets + b) * channels, channels) :
                             b \in Hit(item)}
      Mask(item) == {<<"output_mask", item * buckets + b>> : b \in Hit(item)}
      sums == [item \in 0 .. (batch - 1) |-> Sums(item)]
      all == [item \in 0 .. (batch - 1) |-> Sums(item) \cup Mask(item)]
  IN UpdatingRegion(batch, "parallel", sums, all, UNION {all[i] : i \in DOMAIN all})

\* patch_merge_layer_norm and space_to_depth_norm_linear: blocks at the border are
\* filled up with zeros.
PatchMerge(batch, height, width, channels) ==
  RowRegion(batch * ((height + 1) \div 2) * ((width + 1) \div 2), [out |-> 4 * channels])
SpaceToDepth(batch, height, width, block, channels) ==
  RowRegion(batch * ((height + block - 1) \div block) * ((width + block - 1) \div block),
            [out |-> channels])

\* edge_mlp_256x7: the features of the rows, and then the classes of all pairs of
\* rows, laid out by class.
EdgeMlpRows(batch, length, features) ==
  RowRegion(batch * length, [left |-> features, right |-> features])
EdgeMlpPairs(batch, length, classes) ==
  LET pairs == length * length
      Cell(pair, class) ==
        <<"out", (((pair \div pairs) * classes + class) * pairs) + (pair % pairs)>>
  IN Region(batch * pairs, "parallel",
       [pair \in 0 .. (batch * pairs - 1) |->
          {Cell(pair, class) : class \in 0 .. (classes - 1)}],
       Span("out", 0, batch * classes * pairs))
-----------------------------------------------------------------------------
\* add_id.
AddId(count, width) == RowRegion(count, [out |-> width])

\* im2col_2d: an item is a row of windows.
Im2col(batch, rows, columns, channels) ==
  RowRegion(batch * ConvolutionOutput(rows),
            [columns |-> ConvolutionOutput(columns) * KernelCells(<<rows, columns>>)
                           * channels])

\* col2im_1d gathers, so that an item is a channel of the signal.
Col2im1d(channels, timeIn, kernel, stride, padding) ==
  RowRegion(channels, [signal |-> (timeIn - 1) * stride + kernel - 2 * padding])

\* conv2d, depthwise_conv2d and conv3d: an item is a channel of an image.
Conv2d(batch, channels, axes) ==
  RowRegion(batch * channels, [output |-> ConvolutionWindows(axes)])
DepthwiseConv2d(batch, channels, multiplier, axes) ==
  RowRegion(batch * channels * multiplier, [output |-> ConvolutionWindows(axes)])
Conv3d(batch, channels, axes) == Conv2d(batch, channels, axes)

\* solve_lower_triangular: an item is a right-hand side, a column of the matrix x.
SolveLowerTriangular(batch, n, sides) ==
  Region(batch * sides, "parallel",
    [item \in 0 .. (batch * sides - 1) |->
       {<<"x", ((item \div sides) * n + row) * sides + (item % sides)>> :
          row \in 0 .. (n - 1)}],
    Span("x", 0, batch * n * sides))

\* tensor_set_4d, after base has been copied: an item is a plane of the view, at the
\* strides the caller gives.
PlaneCells(plane, lengths, strides, offset) ==
  UNION {Span("output", offset + (plane \div lengths[3]) * strides[3]
                          + (plane % lengths[3]) * strides[2] + row * strides[1],
              lengths[1]) : row \in 0 .. (lengths[2] - 1)}
TensorSet4d(lengths, strides, offset) ==
  LET planes == lengths[4] * lengths[3]
      writes == [plane \in 0 .. (planes - 1) |->
                   PlaneCells(plane, lengths, strides, offset)]
  IN Region(planes, "parallel", writes, UNION {writes[p] : p \in DOMAIN writes})

\* The strides that the code accepts: only rows must not overlap.
AcceptedStrides(lengths, strides) ==
  strides[1] >= lengths[1] /\ strides[2] >= 0 /\ strides[3] >= 0

\* The strides under which planes do not either: each axis steps over all that the
\* inner ones span.
NestedStrides(lengths, strides) ==
  /\ strides[1] >= lengths[1]
  /\ strides[2] >= (lengths[2] - 1) * strides[1] + lengths[1]
  /\ strides[3] >= (lengths[3] - 1) * strides[2] + (lengths[2] - 1) * strides[1] + lengths[1]
=============================================================================
