# QuixiCore-CPU: a TLA+ model

QuixiCore-CPU is a C++ library of CPU kernels for language-model inference:
quantized products, attention, recurrent state, caches, sampling. Calls are
synchronous; what makes them hard is underneath: one fork-join thread pool that
every threaded kernel shares, scratch arenas that must not allocate when warm,
and some 230 parallel regions whose callbacks write caches, state pools and
per-worker scratch without locks. The promise that ties them together is
`include/quixicore_cpu/threading.h:9`: *"Kernel results are bit-identical across
thread counts: work is partitioned by row, never split within a reduction."*

This directory models the pool, the arenas, the discipline of the parallel
regions, the kernels that strain it, the layer that runs f32 kernels on 16-bit
tensors, and what an engine gets when it composes the library's small serial
functions: decoding with a paged cache, and a mixture of experts; checks the models with TLC; and proves
the most important results with TLAPS for every value of the constants.

Contents: [inventory](#inventory), [modules](#modules), [runs](#runs),
[bounds](#bounds), [fairness and deadlock](#fairness-and-deadlock),
[proofs](#proofs), [findings](#findings), [not modelled](#not-modelled),
[plan](#plan).

## Inventory

| component | state | operations | hard behaviour |
|---|---|---|---|
| thread pool, `src/threading/thread_pool.cpp` | `total_`, `workers_`, `generation_`, `pending_`, `stop_`, `job_*`, a thread-local in-parallel flag | `parallel_ranges`, `set_num_threads`, `num_threads`, `worker_loop`, `~Pool` | two condition variables, a worker that wakes late or for nothing, resizing between regions, nested regions, failing thread creation |
| workspace, `src/memory/workspace.cpp` | a vector of blocks with fills, the current block | `reserve`, `allocate`, `reset`, move; internal `mark`/`rewind` through `WorkspaceFrame` | nested frames across growth, size overflow, "warm" never allocates |
| parallel regions, `kernels/**` | output arrays, caches, state pools, an atomic `invalid` flag | some 230 calls of `parallel_ranges`/`parallel_for` | items that name the same slot, in-place updates, early exit on invalid input |
| per-worker scratch | slices indexed by worker | `q4_argmax`, `norm_quant_ref`, `qgemm_panel`, `qgemm_canonical` | the pool's size is read twice, a resize may fall between |
| token selection | candidate lists, normalizer | `base_q_lm_head_argmax`, `lm_head_*`, `sampling/*` | ties, NaN, -inf, work split by thread count |
| typed storage, `kernels/utils/float_storage_ref.cpp` | a thread-local stack of conversion arenas, callers' workspaces | `dispatch_float_storage`, `float_storage_to_f32`, `float_storage_from_f32` | kernels that call typed kernels, aliases and overlaps, failure after the kernel wrote, rounding at the edges |
| KV block pool and beams | block tables, copy pairs | `kv_cache_copy_blocks`, `beam_build_copy_pairs`, `beam_remap_block_table` | copies that overwrite what others still read, blocks that beams share |
| speculative decoding | draft tokens, positions, slots, counts of accepted tokens | `rejection_*_sample`, `speculative_verify*`, `eagle_*` | refused drafts stay in the cache; counts that differ by one, found out passes later |
| mixture of experts | routing permutation and schedules | `moe_route*`, `moe_permute`, `moe_pad_schedule`, `moe_finalize`, `moe_lora_align` | padding, dropped and inactive experts |
| prepared weights | packed panels, tables | `CpuPackedWeights::prepare`, access | replacement of a prepared panel, layout offsets |
| dispatch | a variant per entry point | one resolution per process | function-local statics, environment override |
| metadata, collectives, pure kernels | none | per call | none beyond the regions they run |

Interactions: a kernel validates its arguments, opens a `WorkspaceFrame` on the
caller's arena or allocates vectors, reads `num_threads()` if it needs per-worker
scratch, then calls `parallel_ranges`, which takes `control_m_`, cuts the range
by the `total_` of that moment and blocks until every worker reported. The serial functions
of sampling, speculation and serving keep no state: the caller passes the block
tables, counts and positions that one returns to the next. Callbacks
run on the caller and the workers and may call `parallel_ranges` again, which
then runs inline. Nothing is persisted, and there is no I/O between these parts,
so that crash recovery and message loss do not occur; the failures are memory and
thread creation.

The hazards of this code, each at its line with the properties that would catch
it, are in `PROJECT.json` under `hazards`.

## Modules

| module | models |
|---|---|
| `ChunkPartition` | `chunk_range` and the number of parts of `Pool::run` |
| `ParallelRegion` | abstract: what `parallel_ranges` promises its callers |
| `ForkJoinPool` | the pool, action by critical section |
| `Workspace`, `WorkspaceReplay` | the arena and its frames; an observer that compares an epoch of requests with the one before |
| `KernelRegion` | one parallel region on the memory its items share |
| `Footprint` | how footprints are written, and the shapes most of them have |
| `WindowGeometry` | how many windows convolutions, pools and patches cut an axis into |
| `CacheRegions`, `ServingRegions`, `NormRegions`, `MatmulRegions`, `MoeRegions`, `RecurrentRegions`, `VisionRegions`, `UtilsRegions`, `AttentionRegions`, `QuantRegions`, `PreparedRegions`, `LogitRegions` | the footprints of kernels |
| `QkvRope` | the fused query projection that chooses its kernel by the number of threads |
| `Q4Argmax`, `BaseQArgmax` | the two token argmax kernels that split a reduction |
| `FloatFormats`, `FloatConversion` | f32, f16, bf16 and the conversions between them; a number stored and loaded again and again |
| `FloatTensors`, `TypedCalls` | tensors in memory; abstract: what `dispatch_float_storage` promises |
| `FloatStorage` | `dispatch_float_storage` with its arenas |
| `DecodingKernels` | the sampling, speculative decoding and block functions, as functions of their arguments |
| `TokenStreams`, `PagedDecoding` | abstract: what a decoder yields; an engine that decodes with those functions and a paged cache |
| `MoePipeline` | a mixture-of-experts layer, forward and backward, and the schedule of its adapters |
| `MC_*` | instances for TLC; `MC_Argmax` runs one of the two argmax kernels, `MC_FloatStorage` a typed call or a conversion, `MC_Serving` decoding or a mixture of experts |
| `*Proofs` | theorems and proofs |

**ForkJoinPool.** `pc[c]` is the place of an application thread in `run`,
`resize` or `~Pool`; `wpc[w]` that of a worker in `worker_loop`. `control` is the
owner of `control_m_`, which is held across a whole call. `m_` is held only for
short sections that block nowhere but in a condition variable, so an action is one
section of `m_`: `Post` (publish the job), `WaitDone` (test `pending_`, then return
or sleep), `WorkerExit`/`WorkerTake`/`WorkerSleep` (the predicate of
`cv_start_.wait`), `WorkerReport` (count down, notify at zero), `SetStop`,
`ClearStop`. The unlocked steps between (`NotifyStart`, the callbacks, `Join`,
`Spawn`) are actions of their own. A sleeping thread is `"asleep"`; a notification
and a spurious wakeup both put it back before its predicate. A callback may call
`parallel_ranges` again (`NestedCall`), which runs inline if the in-parallel flag
is set and would otherwise wait for `control_m_`. `SpawnFail` is `reserve` or the
`std::thread` constructor throwing inside `resize`.

**ParallelRegion** has two variables, the region each caller has open and the
items executed so far. `ForkJoinPool!ImplementsRegion` maps `pc`, `req` and `done`
to them: the pool implements it, including that at most one top-level region runs
at a time and that every item is executed once.

**Workspace.** Blocks are `cap` and `used`; memory is (block, offset) because a
block's storage never moves. `frames` holds the markers of open frames, `live`
the allocations clients may still use and `promise` what the last `reserve`
promised. Frames close in reverse order (they are stack objects), and public
`reset`/move happen with no frame open. `WorkspaceReplay` adds to every step a note of
what was asked: an epoch between two `reset`s is recorded, and the next one is
compared with it, request by request, for `WarmNeverGrows`. The 64-bit guards of `aligned_offset` and
`growth_size` are kept in a width of `MaxSize`.

**KernelRegion** asks the `threading.h` question of any kernel given as a
footprint: which cells each item reads and writes, which items raise the invalid
flag, and whether the code takes the parallel or the serial route. Parts
interleave, and an item takes two steps, so that another part may write between
what it reads and what it writes. A cell holds its last writer: runs in which
every item reads the same writers and every cell has the same last writer compute
the same bits, whatever the arithmetic. `OutputExact` says that a region writes its
whole output and nothing else.

Kernels that may be called in place (`ops.h:99`, `119`, `340`, `617`, `1169`) are footprints
of such a call. Each turn of their loops is then an item of its own (an index of the
region has `grain` turns, which one part takes in order), and says what it loads through
an input pointer (`input`), what it loads of the kernel's own stores, and what it stores,
as the loops in the code do it: softmax finds the maximum of the row before it stores the
first exponential and loads each element once more just before storing it,
`rope_interleaved_to_split` copies the row to scratch because a pair lands where later ones
are still to be read, a recurrence loads each row of the initial state before that row of
the final one is stored. `InputsIntact` says that no load through an input
pointer finds a cell the call has already overwritten. It depends on the order of loads
and stores inside an index, and disjoint writes do not give it: without the copy
(`RopeInterleavedToSplit_NoCopy`) all indices still write rows of their own, and it fails.

The `*Regions` modules translate footprints from the code: index arithmetic,
clipped tiles, window counts, accepted strides, scans such as `ordered_unique` and `positive_slots_are_unique`, and
the choice between the parallel and the serial route. In `PreparedRegions` a cell also
names the weight rows its value comes from, so that `OutputExact` says besides that
panels, groups of panels and clipped tiles give each output its own rows.
`MC_KernelRegion` runs each of them on a small shape.

**QkvRope** is one of these kernels down to its sums, because its route is chosen by
`num_threads()` and only the order of the additions differs.

**Q4Argmax** models `q4_argmax` whole: reading `num_threads()`, allocating slices,
another thread's `set_num_threads` in between, the region over the vocabulary, the
merge. `Grows` says whether that other thread may enlarge the pool. **BaseQArgmax**
models `base_q_lm_head_argmax`, chunked by thread count, and its x86 route.

**FloatFormats** keeps the bit manipulation of `float_to_bf16` and `fp16.h` over
formats whose widths are constants; `FloatConversion` compares it with the nearest
number by value. The vector loops' NaNs differ from the scalar loop's, and a chunk's
last elements take the scalar one: `Stored` and `Loaded` are the sets of outcomes.

**FloatStorage.** `created` is the size of the thread-local vector of arenas,
`depth` its `tls_depth`; `frames` are the calls under way on the thread, each with
the arena it has. The kernel of the innermost writes elements of its outputs, makes
further calls, and returns. `Refuse` is the validation, `NoMemory` and
`NoMemoryDecoded` the allocations that may fail before and after the inputs were
decoded, `Return` the kernel's return with the commit and the depth guard. In
`TypedCalls` every call simply has private copies; `ImplementsTypedCalls` maps them
to the groups' places in the arenas. The pointers that a nested call is given are
tensors of the caller's memory, not the outer call's copies.

**PagedDecoding.** The library has no engine, only the functions one calls between two
forward passes, and each is right or wrong only in their sequence. The engine is
therefore modelled from their arguments and is marked external: it plans a pass
(`PlanBeams`, `PlanRagged`, `PlanVerify`, `PlanTree`), allocates blocks, runs the pass,
samples, prepares the next tokens, commits, and lets a draft model run ahead. What
`DecodingKernels` defines, and the actions that call it, are the code's. Five
`kind`s of engine cover the functions: beam searches that copy blocks or remap tables
(`beam_search_step` with `beam_build_copy_pairs` and `kv_cache_copy_blocks`, or
`beam_remap_block_table`), and verifiers by rejection (`rejection_*_sample`,
`sample_recovered_tokens`), with draft probabilities (`speculative_verify`) and along a
tree (`build_dynamic_tree`, `speculative_verify_tree`, `speculative_compact`). A slot of the
cache holds the tokens it was computed from, those that attention saw before
it included, and the target model predicts from what it finds there: a slot
overwritten, or kept after its draft was refused, changes what is decoded.
Prompts come in chunks, so that rows of a pass are ragged and some samples are
discarded. `DraftStepFails` is the error of `eagle_step_slot_mapping_metadata` for one
block; the engine repeats the call with the positions it had. It keeps these unclamped,
since the function clamps only what it hands out. `TokenStreams` knows no
cache and no drafts: a row gains tokens that its model allows, and a beam search the
best continuations.

**MoePipeline** follows index arrays: a row of features is named by its token, a
product by its token and expert, a gradient by its route. Routing is any choice of distinct
experts. `moe_finalize` takes no position past the number of routes, so that the
`inverse_padded` of `moe_pad_schedule` can be given to it only when nothing was
padded; otherwise the caller moves the products first (`Compact`). `MC_Serving` extends both modules and
runs the one or the other.

Operators whose name is that of another definition with an underscore and a word
(`AllReported_OffByOne`) are defects the code could have; each property of each
passing run is violated when one of them replaces the definition it precedes.

## Runs

| run | question | answer |
|---|---|---|
| `pool` | two callers run regions, resize and destroy a pool of up to three threads; does a call always give the pool back, does a nested call return | `IInv`, `PendingCounts`, `QuietBetweenCalls` hold, and, under weak fairness, `ControlReleased` and `NestedCallsReturn` |
| `pool_failure_safety` | a larger instance in which creating a thread may fail | `IInv`, `NoUseAfterReturn`, `RangesDisjoint`, `InParallelOnlyInBodies` and `ImplementsRegion` still hold: failure costs progress, not safety |
| `pool_spawn_failure` | does a posted region return when thread creation can fail | **no**, see [findings](#findings) |
| `workspace` | reservations, allocations, frames, resets, moves, out-of-memory; does repeating an epoch's requests after `reset` ever grow the arena | `IInv`, `IReplay`, `LiveProtected`, `ReserveHonoured` hold; never (`WarmNeverGrows`) |
| `argmax` | `q4_argmax` on every row of logits, in pools others may shrink; `base_q_lm_head_argmax` on numeric scores, any thread count, resized meanwhile, both routes | `GreedyToken`, `SlicesInBounds`; `BaseIInv`, `BaseGreedyToken` and the same token at every thread count |
| `worker_slices_growth` | the same when others may enlarge the pool | **slices overrun**, see findings |
| `base_q_argmax_nan` | scores that may be NaN | **the token depends on the thread count**, see findings |
| `kernel_regions` | every kernel footprint, calls in place turn by turn, every thread count and interleaving | `SerialResult`, `StatusDeterministic`, `OutputExact`, `InputsIntact` hold |
| `overlapping_view` | `tensor_set_4d` with every stride it accepts | **two threads write the cells that planes share**, see findings |
| `float_storage` | calls within calls on aliased, overlapping and wrong tensors, failing anywhere; every pattern of a small f32 through f16 and bf16, repeatedly | `LeasesExclusive` and `ImplementsTypedCalls` hold; rounded once, to nearest even, and NaN stays NaN |
| `qkv_rope_threads` | are the bits of a fused query projection the same for every pool size | **no**, see findings |
| `serving` | an engine decodes over many passes: greedy, random and beam rows, linear drafts and trees, chunked prompts, calls that fail; a mixture-of-experts layer, padded or not, and adapters' schedules | it decodes what a plain decoder would (`ImplementsTokenStreams`), from a cache that holds each row's own history (`CacheHoldsHistory`), `SampledEntries` and `DraftsSpareHistory` hold, and so does the invariant they are proved from (`IInv`); tokens get the products and gradients of their own routes (`RowsFollowRoutes`, `RoutedProducts`, `RoutedGradients`), adapters' tiles their own rows (`LoraTiles`) |

## Bounds

- *Pool.* Two callers contend for `control_m_`; three threads are the first number
  with two workers that can be in different states; counts 1 and 4 give a
  single-part region, an even and an uneven cut; `min_per_chunk` 0 exercises the
  raise to 1 and 2 a region of fewer parts than threads, so that a worker has no
  chunk; thread arguments 0, 3 (and 2 in `pool_failure_safety`) exercise the clamp, growing and shrinking.
  `GenModulus = 2` makes `generation_` wrap at once; a worker that must tell the
  current generation from the last one needs no more. Callers are symmetric in
  `pool_failure_safety`, which has no liveness property.
- *Workspace.* `MaxSize = 31`, so that padding and doubling overflow within reach;
  two nested frames and three live allocations are the least with an allocation
  below, between and above markers; two recorded requests are the least whose order
  matters to a warm arena. Alignment 3 is unsupported.
- *Regions.* Three tokens over two slots give repeated, ordered, unordered and
  padding slots; two heads give tasks that share a token; one or two bad items let
  two parts race for the flag; three threads cut unevenly. In place, a rotated row has two
pairs, the least where the first pair lands on the second; a recurrence two tokens and a
state of two rows, so that a state is loaded from the caller once and from the
kernel's own stores later. Proofs cover the rest.
- *Argmax.* Four tokens in three parts give parts of two and one; five tokens in
  two or four chunks give thread-dependent chunks with an uneven rest.
- *Typed storage.* Formats with 4 and 3 exponent bits have subnormals, normal
  numbers, overflow, infinity and NaN in f16 that are none of these in f32, and ties
  in both types. Three calls allow two within one, or one that finds a used arena;
  two levels of the stack and one workspace meet in all orders; two writes let a
  kernel write before and after a nested call. The written number is one no 16-bit
  type holds.

- *Prepared products.* Rows that do not fill the last panel, panels that do not fill the
  last group; two input rows.
- *Query projection.* Two blocks are the least whose sums can be added in two orders,
  two bits of significand the least that round.
- *Decoding.* Blocks of two and sequences of up to five tokens: rows cross block
  borders, end in full and in started blocks, and reach the maximum length, where draft
  positions are clamped. Three beams let a parent have none, one, two or three children, and
  copies form chains and swaps. Two requests and up to two drafts give every count of
  accepted tokens, and rows of unequal length; two more steps of the draft model reach
  past the end. Models give each of two tokens probability 0, 1/2 or 1 from a
  hash of the context, so that rows that differ anywhere are told apart later; 31 of them
  for beams, three where every outcome of the draws is explored as well.
- *Mixture of experts.* Three tokens with two routes each over three experts, in tiles of
  two rows: experts get none to three rows, so that offsets repeat and tiles are full,
  padded or several. Two adapters of which one may not fit, listed in either order, twice or
  not at all.

## Fairness and deadlock

`pool` assumes weak fairness of every caller that has begun a call, of
every worker and of every nested call: the operating system runs a thread that can
run, and callbacks return. Nothing is assumed of who obtains a contended
`control_m_` (`std::mutex` promises no order), of spurious wakeups, or that
anybody makes calls; so a caller's *wait* for `control_m_` is not claimed to end.
Deadlock checking is off in the pool runs because the system stops after `~Pool`;
that no call gets stuck is `ControlReleased`. It is off in `float_storage`, where a
thread may have used up its calls. The other models stutter explicitly when they
have returned (`serving` when every row has reached its end), or never stop, and their runs check deadlock.

## Proofs

All theorems are checked by TLAPS to the last leaf. `PROJECT.json` lists those a
reader should know of. Each holds for every value of the constants that satisfies the
named assumption of its module, except where a hypothesis is given.

- *Partition* (`ChunkPartitionProofs`): for all counts, grains and thread counts,
  parts are disjoint, cover the range, are non-empty and not finer than asked. The
  division facts and the least-element principle that other proofs use are here too.
- *Pool* (`ForkJoinPoolProofs`): `Spec => []IInv` for any set of callers, number
  of threads, sizes and generation modulus of at least two, whether or not thread creation
  fails; hence `NoUseAfterReturn`, `RangesDisjoint`, `InParallelOnlyInBodies` and the
  refinement `Spec => ImplementsRegion`. Only `PendingCounts` and `QuietBetweenCalls` assume
  that threads can be created, since they are false otherwise (finding 1). The properties
  are not inductive: `IInv` adds who owns `control_m_` (`IControl`), that worker
  indices are dense (`IThreads`), that a working worker holds exactly the published
  job and an idle one is caught up with `generation_` (`IWorkers`, which is why a
  late wakeup cannot replay a job), and that the recorded items are those of the
  parts that returned (`IDone`). Refinement splits a region's items by part and
  uses disjointness and cover.
- *Workspace* (`WorkspaceProofs`): `IInv`, `LiveProtected` and `ReserveHonoured` for all
  sizes, alignments and depths. What is needed beyond `LiveProtected` is that blocks past
  the current one are empty (`IFill`), that what was live when a frame opened lies
  below its marker (`IFrames`), that markers are nested (`IMarkers`), and that a promise
  is the room left in one block from the current one on (`IPromise`).
  `WarmArenaNeverGrows`: the same requests after a `reset` never allocate. The argument
  (`IReplay`) is that the second epoch is never *ahead* of the first: the observer notes
  where each request of the first epoch ended, and after as many requests the second has
  filled no further, so that what fitted then fits now.
- *Argmax* (`ArgmaxProofs`): `GreedyToken` and `SlicesInBounds` of `q4_argmax` for every
  vocabulary, row and interleaving when `Grows = FALSE` (finding 2): each slice is the
  greedy choice of the tokens its part has seen, and greedy choices of disjoint sets merge.
  `BaseGreedyToken` and `BaseSameAcrossThreadCounts` of `base_q_lm_head_argmax` when no
  score is NaN (finding 3): the candidate of a chunk is the least index of its best scores, and so
  is, by `BaseIInv`, that of the chunks merged so far; the least index of the best scores of
  all does not depend on where the chunks were cut.
- *Regions* (`RegionProofs`): a region whose kernels are
  race free ends with the serial result, for any thread count and interleaving
  (`SerialResult`); the status is deterministic without that hypothesis; turns find the inputs
  as the caller passed them (`InputsIntact`) when in the serial order no turn loads an input
  cell after it was stored (`ReadsInputFirst`); and it writes its whole output and nothing else
  (`OutputExact`) when its footprint, which is data, does (`FillsOutput`). The three hypotheses
  (`Regular`) are then discharged for families of footprints, for every shape: rows, clipped
  tiles, scatters that pass the `ordered_unique` scan, state pools with unique slots, and calls
  in place. For these, `RowsInPlaceRegular` reduces a kernel to the program of one row: no turn
  may load what an earlier one has stored, and the stores must cover the row.
  `InPlaceKernelsRegular` shows it of softmax, `rms_norm_residual_next`,
  `rope_interleaved_to_split` with its copy, the elementwise updates and the kernels that
  buffer a row; `RecurrentHeadsRegular` does the recurrences, whose turns
  share a state along the tokens and a row of the output.
  `FamiliesComputeSerially` puts it together: a region over any kernels of
  these families satisfies all three properties. Its conditions are those the code checks: tiles cover the columns
  (`columns <= columnTiles * width`), cumulative lengths begin at 0 (`gdn_ref.cpp:18`,
  `linear_attention_extended_ref.cpp:238`).
- *Typed storage* (`FloatStorageProofs`): `IInv` and `LeasesExclusive` for any
  calls, workspaces and depth. The calls that lease from the stack hold its arenas
  from the first to `depth`, in the order they were made, so that the one that
  returns holds the top one; explicit workspaces are no numbers and lent once.
  `RoundedOnce` and `NansKept` for formats of any width (`FormatAssumption`: mantissas of whole
  bits, an f16 that drops at least one of them and reaches less far than f32). A number
  between two stored ones is a remainder above the lower, in units of its own last place, and
  rounding by that remainder is nearest because patterns are in the order of what
  they are worth (`WorthMonotone`, `RemainderRounds`); what each branch of `fp32_to_fp16` and
  `float_to_bf16` rounds is shown to be that remainder, and what is below half the smallest
  subnormal or beyond the reach of f16 to go to 0 and infinity. Loading is exact
  (`Bf16Loads`, `F16Loads`), so nothing but what was stored is as near (`StoresAgain`). The
  invariant is inductive because a number that is no longer the original is what was
  loaded from what is stored. Powers of two are a recursive function, whose equation is
  derived from that its prefixes exist and agree (`PowerRecursion`).
- *Mixture of experts* (`MoePipelineProofs`): `RoutedProducts`, `RoutedGradients` and
  `LoraTiles` for every number of tokens, experts, choices, rows of a tile and adapters. The
  inductive invariant `RowsFollowRoutes` says at each call what its array says of a route: the
  permutation gives it a row of its own in its expert's range (`IPermutation`), the padded schedule a
  row in a tile of its expert (`ISchedule`), and the rows hold there what is the route's (`IRows`).
  Both schedules rest on three facts: routes of an expert, counted off in
  their order, get different places below their number (`PlacesInClass`); ranges that follow each other
  and have that room keep all routes apart, and `upper_bound` finds a row's
  range (`PlacedRows`, `RangeOfRow`); ranges of whole tiles share no tile (`TileOfRow`). Gradients
  need besides that the permutation is onto: one to one on a finite set.

- *Decoding* (`PagedDecodingProofs`): `CacheHoldsHistory`, `SampledEntries`,
  `DraftsSpareHistory` and the refinement `Spec => ImplementsTokenStreams` for every number of
  requests, beams, drafts and blocks, every block size and length, and all models. What is
  assumed (`PagedDecodingAssumption`, `ModelsAssumption`) is that tokens are a finite
  set of numbers, that the longest sequence fits in a table and the
  tables of all rows in the cache, so that the allocation never runs dry, and that a model's
  probabilities of the tokens add up to one. The inductive invariant says of each step what the next
  function may rely on:
  - `IBlocks`: two rows share a block only at the same column of remapped tables, and only one
    that both have filled. This is why no write reaches another row's history
    (`SlotsDiffer`), and why copying just the last block of a parent, and only if it
    is not full, is enough after `beam_remap_block_table`.
  - `IFed`: every entry of a pass was computed from the row's tokens before it; in a tree,
    from the history and the drafts on the node's path.
  - `IChosen`: the candidates of `beam_search_step` are the best, in order.
  - `IOut`: of a row's drafts some number are accepted, the model emits each of them and the
    token after them, and the cache holds all but that one. The metadata are functions
    of that number, which is all that `Prepared` says.
  - `IDrafts`: where the draft model is, also after calls that failed.

  Each function of `DecodingKernels` has a law of its own (`VerifiedRowLaw`, `BeamLaw`,
  `PairsLaw`, `CompactLaw`, `PresentLaw`, `TreePathLaw`, `TreeBonusLaw`, ...). Ragged arrays rest
  on the starts of rows being running sums (`StackedRows`); trees on a parent coming
  before its children, so that depths, paths and lists of siblings are defined
  (`ParentRecursion`, `ListsLaw`), and on every place getting at most one node of one row's
  path (`MovedLaw`). That a random row emits nothing of probability 0 uses that
  probabilities add up to one: a draft that was refused did not have all of it, so that
  another token has some (`RecoveredLaw`).

Model-checked only: liveness (fairness and ENABLED are out of the prover's reach), and
`ImplementsTypedCalls`, whose offsets are sums over sets of tensors. `MC_Serving` runs decoding
and the mixture of experts side by side; the theorems are about each of them.

## Findings

1. `pool_spawn_failure`. `resize` stores `total_` before it creates threads
   (`thread_pool.cpp:50`). When `std::thread` throws, the next region posts
   `pending_ = total_ - 1` and waits for workers that do not exist; a resize to the
   same size returns early and does not repair it. `thread_pool.h:19-23` promises
   that a region covers its range and blocks until it has.
2. `worker_slices_growth`. Per-worker scratch is sized by `num_threads()`, and the
   region is cut later by the pool's own `total_` (`qgemm_ref.cpp:92`). A
   `set_num_threads` by another application thread in between lets workers write
   past the slices. The same two reads occur in `norm_quant_ref.cpp`,
   `qgemm_panel.cpp` and `qgemm_canonical.cpp`.
3. `base_q_argmax_nan`. The first token of a chunk wins until beaten, and NaN beats
   nothing and is beaten by nothing, so that a NaN at the start of a chunk hides the
   chunk; the chunks depend on the thread count (`base_q_ref.cpp:720,747`), and so
   does the token, against `threading.h:9`.

4. `overlapping_view`. `tensor_set_4d` (`conv_pool_ref.cpp:65`) writes the planes of a
   strided view in parallel. It checks only that the last element of the view lies in
   the output, so that a plane stride shorter than a plane is accepted; two planes then
   share cells, which different threads write in no order, against `threading.h:9`.
   With strides that nest (`NestedStrides`) the run `kernel_regions` finds no fault.
5. `qkv_rope_threads`. `qgemv_prepacked_qkv_rope_kv_storage` takes its panel kernel only when
   `num_threads() == 1` (`qgemm_canonical.cpp:5140`; f32 activations, fp8 weights, x86).
   That kernel adds columns up in four accumulators, the other one blocks, so that
   with two blocks or more the outputs differ between one thread and two, against
   `threading.h:9`. Another kernel chosen by `num_threads() == 1`, which is not modelled, is
   `grouped_qprojection` (`moe_extended_ref.cpp:152`): one thread takes each row by `qgemv` and
   adds the bias to the rounded sum, several threads add it to the sum in double.

Seen while modelling, without a run: with `ceil_mode`, `pool_output`
(`patch_ops_ref.cpp:20`) may count a last window that starts past the input, and
`avg_pool2d_tokens` divides its empty sum by zero. `rejection_random_sample`
(`speculative_ref.cpp:277`) and `speculative_verify` (`sampling_ref.cpp:417`)
accept a draft when its uniform is at most the ratio of the probabilities, so that a uniform of exactly 0
accepts a token the target model gives probability 0 (`PagedDecoding` draws uniforms
above 0). `rejection_greedy_sample` and `rejection_random_sample` each fill the output
with -1 before they look which rows are theirs, so that a batch with both needs
two outputs. `eagle_step_slot_mapping_int64` advances the
positions in place before it may fail: a caller that repeats it needs a copy.
`moe_route_grouped` takes a `top_k` up to the number of all experts, although the chosen
groups may hold fewer.

## Not modelled

- Weak memory: parts see each other's writes only through `m_`, and the atomic
  `invalid` flag is relaxed but monotone; the models interleave.
- `num_threads`/`set_num_threads` called inside a callback (they would wait for
  `control_m_`, which the enclosing region holds): no kernel does it and the
  headers do not promise it. Callbacks that throw end the process.
- Floating-point values: what is computed is abstracted to who wrote what; where
  a comparison decides (argmax), values are numbers, -inf and NaN.
- ISA-specific kernels (where they cut the work differently, their regions are), CPUID
  and tables, benchmarks, tests, build files, docs.
- Serial, stateless functions: the arithmetic of the filters and penalties of sampling (the
  loops of those called in place are footprints), sparse attention
  metadata, optimizers, collectives, routing scores of experts; a unit test
  reaches what can be wrong with them.
- `packed_weights.cpp`, which lays out the bytes of prepared panels; the heads and experts
  on prepared weights of `qgemm_canonical.cpp`, and `qgemm_panel.cpp`.
- Draft probabilities in `rejection_random_sample`: the engine passes none, which is its
  `no_draft_probs` branch; drafts with probabilities go through `speculative_verify`.
- Dispatch: a variant is chosen once per process, and variants compute one function.
- The components marked `not_modelled` in `PROJECT.json`.

## Plan

Done, in this order: partition, pool, abstract region, arena, because everything else
runs on them; the region discipline and the kernels that strain it; argmax and typed
storage; the footprints of the other kernel directories and of prepared weights;
decoding with its functions composed; the mixture of experts.

Left:

1. Proofs: the refinement of `TypedCalls` given disjoint offsets; a family for panels and
   groups, and for `TensorSet4d` under `NestedStrides`.
2. The heads and experts of `qgemm_canonical.cpp` as footprints, and the merge of their
   partial top-k lists.
3. Window geometry: every window of a convolution or a pool holds input, for the
   `ceil_mode` observation above.
