----------------------------- MODULE UtilsRegions -----------------------------
(***************************************************************************)
(* Footprints of the tensor utilities, the losses and the audio kernels.   *)
(***************************************************************************)
EXTENDS Footprint, WindowGeometry

\* unary_apply, binary_apply, add and value_clip_storage.
UnaryApply(count) == Elementwise(count, {"out"})
BinaryApply(count) == Elementwise(count, {"out"})
Add(count) == Elementwise(count, {"out"})
ValueClipStorage(count) == Elementwise(count, {"out"})

CumulativeSum(rows, dim) == RowRegion(rows, [out |-> dim])
ReduceMean(rows) == RowRegion(rows, [out |-> 1])
Argsort(rows, dim) == RowRegion(rows, [indices |-> dim])
L2Normalize(rows, dim) == RowRegion(rows, [out |-> dim])
SoftmaxBackward(rows, dim) == RowRegion(rows, [grad_in |-> dim])
OuterProduct(rows, columns) == RowRegion(rows, [out |-> columns])

\* group_norm: an item is a group of channels of one sample, channels % groups = 0.
GroupNorm(batch, channels, spatial, groups) ==
  LET size == (channels \div groups) * spatial
      Offset(item) == ((item \div groups) * channels
                         + (item % groups) * (channels \div groups)) * spatial
  IN Region(batch * groups, "parallel",
       [item \in 0 .. (batch * groups - 1) |-> Span("out", Offset(item), size)],
       Span("out", 0, batch * channels * spatial))

\* hadamard and fwht_rotate transform a row in a buffer of their part.
Hadamard(rows, dim) == RowRegion(rows, [y |-> dim])
FwhtRotate(rows, dim) == RowRegion(rows, [y |-> dim])

\* tau_tail scales the q and the v columns of a head, dimension by dimension; the k
\* columns stay as they are in qkv, which out may be.
TauTail(tokens, heads, headDim) ==
  LET qdim == heads * headDim
      turns == 0 .. (tokens * qdim - 1)
      scaled == [i \in turns |->
                   {<<"out", ((i \div qdim) * 3 + third) * qdim + (i % qdim)>> : third \in {0, 2}}]
      all == UNION {Span("out", (3 * token + third) * qdim, qdim) :
                      token \in 0 .. (tokens - 1), third \in {0, 2}}
  IN InPlace(tokens * heads, headDim, "parallel", scaled, [i \in turns |-> {}], scaled, all)
-----------------------------------------------------------------------------
\* cross_entropy stores NaN for a target outside the vocabulary and goes on: after the
\* region, that NaN is the flag.
CrossEntropy(rows, invalid) == Flagged(RowRegion(rows, [loss |-> 1]), invalid)

\* The other losses check targets before their regions; an ignored row gets zeros.
CrossEntropyForward(rows) == RowRegion(rows, [loss |-> 1, logsumexp |-> 1])
CrossEntropyBackward(rows, vocab) == RowRegion(rows, [grad_logits |-> vocab])
KdKlDenseForward(rows) ==
  RowRegion(rows, [loss |-> 1, teacher_lse |-> 1, student_lse |-> 1])
KdKlDenseBackward(rows, vocab) == RowRegion(rows, [grad_student |-> vocab])
KdKlTopkForward(rows) == RowRegion(rows, [loss |-> 1, student_lse |-> 1])
-----------------------------------------------------------------------------
\* audio_conv1d_direct and its typed twin: an item is one channel at one time.
AudioConv1d(batch, axis, channels) ==
  Elementwise(batch * AudioConvOutput(axis) * channels, {"output"})
AudioConvTyped(batch, axis, channels) == AudioConv1d(batch, axis, channels)

\* The depthwise ones: an item is a time, and adds its taps to what it has stored.
AudioDepthwiseConv1d(batch, axis, channels) ==
  RowRegion(batch * AudioConvOutput(axis), [output |-> channels])
AudioDepthwiseTyped(batch, axis, channels) == AudioDepthwiseConv1d(batch, axis, channels)
AudioCausalDepthwiseConv1d(batch, length, channels) ==
  RowRegion(batch * length, [output |-> channels])

\* audio_relative_attention: rows beyond the valid length are zeros.
AudioRelativeAttention(batch, length, heads, headDim) ==
  RowRegion(batch * length * heads, [out |-> headDim])
=============================================================================
