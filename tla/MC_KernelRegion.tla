--------------------------- MODULE MC_KernelRegion ---------------------------
(***************************************************************************)
(* The kernels of all families on small shapes: every slot mapping of      *)
(* three tokens to two slots or padding, two heads, rows of one or two     *)
(* cells, every routing of three rows to two experts, and every choice of  *)
(* one or two bad items.                                                   *)
(***************************************************************************)
EXTENDS CacheRegions, ServingRegions, NormRegions, MatmulRegions, MoeRegions,
        RecurrentRegions, VisionRegions, UtilsRegions, AttentionRegions,
        QuantRegions, LogitRegions, PreparedRegions, KernelRegion

SlotMaps == [0 .. 2 -> -1 .. 1]
BadSets(items) == {S \in SUBSET (0 .. (items - 1)) : Cardinality(S) <= 2}

ScatterKernels ==
  {KvCacheScatter(s, 3, 2) : s \in SlotMaps}
  \cup {ScatterFp8(s, 3, 2, 1, {}) : s \in SlotMaps}
  \cup {ScatterQ8(s, 3, 1, 4, 2, {}) : s \in SlotMaps}
  \cup {TurboquantEncode(s, 3, 2, 1, 1, 1) : s \in SlotMaps}
  \cup {ScatterMxfp8(s, 3, 2, 2, 2, {}) : s \in SlotMaps}
  \cup {ScatterBitnetKv3(s, 3, 1, 8, 4, {}) : s \in SlotMaps}
  \cup {ScatterFp8(s, 3, 1, 1, B) :
          s \in {[t \in 0 .. 2 |-> t], [t \in 0 .. 2 |-> t - 1], [t \in 0 .. 2 |-> 1]},
          B \in BadSets(3)}
  \cup {ClearQ8(4, 2)}

GatherKernels ==
  {KvCacheGather(4, 2), GatherFp8(3, 2, 2), GatherQ8(3, 2, 2)}
  \cup {GatherMxfp8(2, 2, 1, B) : B \in BadSets(4)}
  \cup {ScalesFp8(4, B) : B \in BadSets(4)}

\* Requests of 1, 0 and 2 tokens.
Lengths == [r \in 0 .. 3 |-> IF r = 0 THEN 0 ELSE IF r = 3 THEN 3 ELSE 1]

StateKernels ==
  {GdnRecur(s, Lengths, 3, 2, 1, 1, load) :
     s \in [0 .. 2 -> 0 .. 2], load \in BOOLEAN}
  \cup {GdnShortConv(s, Lengths, 3, 2, 2, load) : s \in SlotMaps, load \in BOOLEAN}

RowKernels ==
  {EmbeddingLookup(5, 2), QuantizedEmbedding(4, 2), EmbeddingLookupTypes(3, 2),
   QuantizedEmbeddingBag(3, 2), IndexerKGather(4, 2), BuildMultimodalSourceMap(5),
   MergeMultimodalSpans(4, 2), MeanPool(3, 2), MaskedMeanPool(3, 2),
   CalibrationAbsmax(5), LogitsSoftcap(5), CalibrationAbsmaxTyped(4), LogitsSoftcapTyped(4),
   EmbeddingLookupTypesTyped(3, 2), MaskedMeanPoolTyped(3, 2), ThresholdTopkIndices(3, 2)}
  \cup {EmbeddingBackward(ids, 2, 3, 2) : ids \in [0 .. 2 -> -1 .. 2]}

NormKernels ==
  {SiluBackward(5), Unary(5), SwigluOai(2, 2), SigmoidMul(4), SigmoidMulBackward(3),
   Softmax(4, 2), RmsNorm(4, 2), RmsNormNeon(4, 2), LayerNorm(4, 2),
   LayerNormBackwardFeatures(3, 2), LayerNormBackwardRows(3, 2),
   RmsNormBackwardFeatures(3, 2), RmsNormBackwardRows(3, 2),
   RmsNormAdd(2, 2), LayerNormAdd(2, 2), RmsNormResidualNext(3, 2),
   NormStorageRows(4, 2)}
  \cup {NormAddQuantDynamic(3, 4, 2, {}), NormAddQuantStatic(3, 2, {}),
        NormEncodeGroups(3, 2, 4, 2, {})}
  \cup {NormAddQuantDynamic(2, 2, 1, B) : B \in BadSets(4)}
  \cup {NormAddQuantStatic(3, 1, B) : B \in BadSets(3)}
  \cup {NormEncodeRows(l, 3, 4, 2, {}) :
           l \in {"int4", "uint4", "int8", "mxfp8", "mxfp4", "nvfp4"}}
  \cup {NormEncodeRows("int8", 3, 1, 1, B) : B \in BadSets(3)}
  \cup {NormEncodeGroups(2, 1, 4, 2, B) : B \in BadSets(4)}

MatmulKernels ==
  {DenseGemm(3, 3, 2, 2), DenseGemm(4, 1, 2, 2), DenseGemmEx(4, 2), LinearEpilogue(4, 2),
   DecodeSwiglu(4, 2), GemmGateResidual(4, 2), ComplexGemm(3, 2), FluxGelu(2, 2),
   LoraApply(1, 4), LoraApply(4, 2)}

ExpertMaps == [0 .. 2 -> 0 .. 2]

MoeKernels ==
  {GroupedGemm(2, 2, 2), MoeGather(4, 2), MoeFinalize(3, 2), MoeGroupedGemm(4, 2),
   MoeGroupedSwiglu(4, 2), MoeGemmFp8(2, 2), MoeGemmWna16(2, 2), MoeGemmNvfp4(4, 2)}
  \cup {GroupedQProjection(e, 2) : e \in ExpertMaps}
  \cup {MoeGroupedQSwiglu(e, 2) : e \in ExpertMaps}
  \cup {MoeFinalizeBackward(r, 3, 2) : r \in [0 .. 2 -> 0 .. 3]}
  \cup {MoeGatherBackward(r, 2, 3, 1) : r \in [0 .. 2 -> -1 .. 2]}
  \cup {MoeBackwardInput(e, 3, 2, 2) : e \in [0 .. 2 -> -1 .. 2]}
  \cup {MoeBackwardWeight(e, 3, 2, 2) : e \in [0 .. 2 -> -1 .. 2]}

RecurrentKernels ==
  {SelectiveScan(4, 2), Mamba2(4, 2, 1), Mamba2Backward(3, 2, 1), SsdDecode(3, 2),
   FftSpectra(4, 2), FftProducts(4, 2), LinearAttention(4, 2, 1),
   LinearAttentionUnnormalized(4, 2, 1), CausalLinearAttention(4, 2, 1),
   DecayedLinearAttention(4, 2, 1), HedgehogAttention(4, 2, 1), BasedAttention(3, 2, 2),
   GatedLinearAttention(1, 2, 2, 2), RwkvWkv6(2, 2, 2, 1), RwkvWkv7(1, 2, 3, 2),
   HcComb(3, 2), HcPre(2, 2), HcPost(2, 2, 2), GdnQkvPrepare(3, 1, 2, 1, 2),
   GdnGateBeta(3, 2), GdnGatedRmsnorm(2, 2, 2)}
  \cup {GdnRecurrence(s, Lengths, 3, 2, 1, 1, load) :
           s \in [0 .. 2 -> 0 .. 1], load \in BOOLEAN}

\* Axes with a window that sticks out at the end, one that fills the input, and one
\* that is longer than the input but gets a window.
Axis(input, size, stride, pad) ==
  [input |-> input, kernel |-> size, stride |-> stride, pad |-> pad, dilation |-> 1]
Overhang == Axis(3, 2, 2, 1)
Filled == Axis(2, 2, 2, 0)
Beyond == Axis(2, 3, 2, 0)
Square == <<Axis(3, 2, 1, 0), Axis(2, 1, 1, 0)>>

\* Strides of a view of two by two rows, packed and with gaps.
ViewStrides == {s \in [1 .. 3 -> 1 .. 5] : NestedStrides(<<1, 2, 2, 2>>, s)}

\* All the views of two planes that the code accepts.
AcceptedViews ==
  {TensorSet4d(<<1, 1, 2, 1>>, s, 0) :
     s \in {t \in [1 .. 3 -> 0 .. 2] : AcceptedStrides(<<1, 1, 2, 1>>, t)}}

VisionKernels ==
  {ExtractPatches(2, <<Overhang, Filled>>, 1), ExtractPatches(2, <<Beyond, Filled>>, 1),
   ExtractPatchesTyped(1, <<Filled, Overhang>>, 1),
   ExtractPatches3dTyped(1, <<Overhang, Filled, Filled>>, 1),
   PatchProjection(2, <<Overhang, Filled>>, 2), PatchProjection3d(1, <<Filled, Overhang>>, 2),
   InterpolatePosition(2, 2, 2), InterpolatePositionTyped(3, 1, 1),
   FactorizedPosition(2, 2, 2), AvgPool(FALSE, 2, Square, 1),
   AvgPool(TRUE, 1, <<Axis(3, 2, 2, 0), Filled>>, 2),
   AvgPoolTyped(FALSE, 1, Square, 2), PatchMerge(1, 3, 2, 1), SpaceToDepth(1, 3, 3, 2, 2),
   EdgeMlpRows(2, 2, 1), EdgeMlpPairs(1, 2, 3), AddId(4, 2),
   Im2col(2, Axis(3, 2, 1, 0), Filled, 1), Col2im1d(3, 2, 2, 1, 0),
   Conv2d(2, 2, Square), DepthwiseConv2d(1, 2, 2, Square), Conv3d(1, 2, <<Filled>> \o Square),
   SolveLowerTriangular(2, 2, 2)}
  \cup {PoolTokens(b, 2, 2, 2, 1) : b \in [0 .. 3 -> -1 .. 1]}
  \cup {TensorSet4d(<<1, 2, 2, 2>>, s, 1) : s \in ViewStrides}

UtilsKernels ==
  {UnaryApply(5), BinaryApply(4), Add(3), ValueClipStorage(5), CumulativeSum(3, 2),
   ReduceMean(4), Argsort(3, 2), L2Normalize(3, 2), SoftmaxBackward(3, 2),
   OuterProduct(3, 2), GroupNorm(2, 4, 1, 2), Hadamard(3, 2), FwhtRotate(3, 2),
   TauTail(2, 2, 1), CrossEntropyForward(4), CrossEntropyBackward(3, 2),
   KdKlDenseForward(3), KdKlDenseBackward(3, 2), KdKlTopkForward(3),
   AudioConv1d(1, Overhang, 2), AudioConvTyped(1, Beyond, 3),
   AudioDepthwiseConv1d(2, Overhang, 2), AudioDepthwiseTyped(2, Filled, 2),
   AudioCausalDepthwiseConv1d(2, 2, 2), AudioRelativeAttention(1, 2, 2, 2)}
  \cup {CrossEntropy(4, B) : B \in BadSets(4)}

AttentionKernels ==
  {Attention(2, 2, 2), WindowAttention(2, 2, 1), CrossAttention(3, 2), MlaDecode(2, 2, 2),
   MlaAbsorb(2, 2, 2), PagedAttention(2, 2, 2), PagedAttentionQ8(2, 2, 2),
   PagedAttentionMxfp8(2, 2, 2), PagedAttentionBitnetKv3(2, 2, 2),
   PagedAttentionTurboquant(2, 2, 2), CascadeAttention(2, 2, 2), QuantizedAttention(1, 2, 2, 2),
   SwinAttention(1, 2, 2, 2), SwinAttention(2, 1, 3, 1), AttentionWithLse(4, 2),
   MergeAttentionStates(4, 2), MergeAttentionStatesFp8(5), AttentionBackwardPrep(4),
   AttentionBackwardDq(3, 2), DecodeCacheAttention(2, 2, 2), GatherBitnetKv3(2, 2, 2),
   Rope(2, 2, 2), VisionRope2d(4, 4), RopeInterleavedToSplit(2, 2, 4),
   TurboquantQueryTransform(2, 2, 2)}
  \cup {AttentionBackwardDkv(2, n, 2, keys, 1, causal) :
           n \in {1, 2}, keys \in {2, 3}, causal \in BOOLEAN}
  \cup {DecodeCacheAppend(lengths, 2, 2, 2, 2) : lengths \in [0 .. 1 -> 0 .. 1]}
  \cup UNION {{RotaryPositioned(4, 2, total), Mrope(4, 2, total),
               QkNormRopeHeads(2, 2, 1, 2, total), QkNormRopeValues(3, 2, 1, 2, total)} :
                total \in {1, 2}}

QuantKernels ==
  {QuantizeInt8(3, 4, 2), QuantizeFloat8(3, 4, 2), Mxfp8Quantize(3, 4, 2),
   QuantizeInt8Asymmetric(3, 2), SiluMulFakeQuantInt8(3, 2), TernaryPack(3, 2, 4),
   Tq20Pack(3, 2, 4), E8iq3Pack(3, 2), LowbitPack(3, 2, 2), DequantizeInt8(3, 2),
   DequantizeInt8Asymmetric(3, 2), DequantizeFloat8(3, 2), LowbitUnpack(3, 2),
   E8iq3Unpack(3, 2), E8iq3Rotate(3, 2), BaseQDequant(5), Fp32ToFp4x2(6), Fp4x2ToFp32(6),
   Nvfp4Quantize(5, 2, 2, 1), Nvfp4Quantize(3, 1, 2, 1), GgufPack(2, 2, 3),
   TurboquantDecode(2, 2, 2)}
  \cup {ActivationPack(3, 2, B) : B \in BadSets(3)}

LogitKernels ==
  {ApplyTokenBitmask(2, 2), ApplyBadWords(2, 3, {0, 2})}
  \cup UNION {{ApplyRepetitionPenalty(3, 2, [row \in 0 .. 2 |-> {row % 2}], B),
               TopKRenorm(3, 2, {1}, B), TopPRenorm(3, 2, {0}, B), TemperedRows(3, 2, B),
               SkewTransform(3, 2, B), NoRepeatNgramMask(3, 2, {1}, B),
               DryPenalty(3, 2, {0}, B)} : B \in BadSets(3)}

ProductKernels ==
  {Mxfp8Gemm(2, 2), Nvfp4Gemm(2, 2), BitnetInt8Gemm(2, 2), Fp8ScaledGemm(2, 2),
   Int8GemmRef(2, 2), LowbitW8a8Ref(2, 2), LowbitGemmRef(2, 3), LowbitGemmAvx2(2, 3),
   LowbitGemmAvx512(2, 3), LowbitGemmNeon(2, 3), E8iq3Gemm(2, 3), W8a32GemmRef(2, 3),
   BaseQGemm(2, 3), BaseQGemm(1, 3), LowbitGemmPair(2, 2), Int8GemmI8mm(3, 5),
   LowbitW8a8I8mm(2, 4), Mxfp4Gemv(4), Nvfp4Gemv(4), GgufGemvRef(4), GgufGemvAvx2(4),
   GgufGemvBlocked(4), Q40GemvRef(4), Q40GemvW8a8Ref(4), Q80GemvW8a8Ref(4), QgemvRows(4),
   LowbitGemvRows(4), BaseQGemvSwiglu(4), QgemvUpGate(4), QgemvUpGateActivation(4),
   QgemvAxpyRow(5), QgemmEpilogue(2, 2), QgemmBackwardInput(3, 2), BaseQEmbedding(2, 2),
   CanonicalEmbedding(3, 2), CanonicalEmbeddingBag(3, 2), QgemvQkv(2, 1), BaseQGemvQkv(2, 1),
   BaseQMoeGemm(2, 2, 2), BaseQMoeSwiglu(2, 2, 2)}
  \cup {QgemvQkvRopeKv(2, 1, 2, slot) : slot \in {-1, 0, 1}}

\* Every kind of call of the kernels on prepared weights.
PreparedCalls ==
  [type : {"f32", "f16", "bf16"}, target : {"avx2", "sse", "arm", "portable"},
   ordered : BOOLEAN, indexed : BOOLEAN, panelLayout : BOOLEAN, fp8 : BOOLEAN, threads : {1, 2}]

\* The calls that differ in what a route looks at: the fields of ignored are fixed.
CallsBut(ignored) == {c \in PreparedCalls : \A f \in ignored : IF f = "threads" THEN c.threads = 1 ELSE ~c[f]}

\* Heads made of whole panels and not, every slot of two and none.
RopeShapes ==
  [heads : {2}, kvHeads : {1}, headDim : {4, 6}, tile : {1, 2, 4}, size : {2}, slot : -1 .. 1]

SwigluShapes ==
  {q \in [m : {1, 3}, columns : {4, 6}, group : {2, 3}, perByte : {1, 2}, domain : {1, 2},
          scaled : BOOLEAN] : ConfiguresOutput(q)}

PreparedKernels ==
  {PreparedQuantized(pair, avx2, n, 5, 2, size) :
      pair \in {"none", "fp8", "other"}, avx2 \in BOOLEAN, n \in {1, 2}, size \in {1, 2}}
  \cup {PreparedStorage(c, n, 5, 2, 2) :
           c \in CallsBut({"fp8", "threads"}), n \in {1, 2}}
  \cup {GateUp(c, n, 3, 2, fused) :
           c \in CallsBut({"ordered", "indexed", "fp8", "threads"}), n \in {1, 2}, fused \in BOOLEAN}
  \cup {PreparedQkv(c, 1, <<5, 2, 3>>, 2, 2, 3) : c \in CallsBut({"fp8", "threads"})}
  \cup {PreparedQkv(c, n, widths, 1, 2, 3) : c \in CallsBut({"indexed", "panelLayout"}),
                                           n \in {2, 3}, widths \in {<<4, 1, 1>>, <<3, 2, 3>>}}
  \cup {PreparedQkvRope(c, s) : c \in CallsBut({"panelLayout"}), s \in RopeShapes}
  \cup {RopeInPlace(s, "key_cache", CacheBase(s), 1) : s \in {t \in RopeShapes : t.slot >= 0}}
  \cup {PreparedSwigluQuantized(c, q, 2, 2, a8, {}) :
           c \in {d \in CallsBut({"ordered", "indexed", "fp8"}) : d.type = "f32"},
           q \in SwigluShapes, a8 \in BOOLEAN}
  \cup {Flagged(SwigluQuantGroups([m |-> 3, columns |-> 1, group |-> 1, perByte |-> 1,
                                  domain |-> 1, scaled |-> TRUE]), B) : B \in BadSets(3)}

AllKernels == UNION {ScatterKernels, GatherKernels, StateKernels, RowKernels,
                     NormKernels, MatmulKernels, MoeKernels, RecurrentKernels,
                     VisionKernels, UtilsKernels, AttentionKernels,
                     QuantKernels, LogitKernels, ProductKernels, PreparedKernels}
=============================================================================
