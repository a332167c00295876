----------------------------- MODULE PagedDecoding -----------------------------
(***************************************************************************)
(* An engine that decodes with a paged KV cache and the functions of       *)
(* DecodingKernels.  A step of the engine is one forward pass and what     *)
(* follows it:                                                             *)
(*   ready -> planned -> fed -> sampled -> [prepared ->] ready, or drafting *)
(* The functions are the repository's; the pass itself, the allocation of  *)
(* blocks and the engine's bookkeeping between the calls are not, and are  *)
(* modelled from the arguments that the functions take.                    *)
(*                                                                         *)
(* A slot of the cache holds the tokens it was computed from: the token at *)
(* its position and those that attention saw before it.  Tokens are        *)
(* predicted from what is found there, so that a slot that was overwritten,*)
(* or kept too long, changes what is decoded.                              *)
(***************************************************************************)
EXTENDS DecodingKernels

CONSTANTS Tokens, Models,
          DraftedModels, \* the models considered where drafts are verified
          Weight(_, _, _), Score(_, _, _), Unit,
          Requests,      \* how many sequences are decoded together
          Beams,         \* how many hypotheses a beam search has
          BlockSize, MaxBlocks,
          PoolBlocks,    \* blocks of the cache
          MaxLength,     \* max_model_length
          MaxDraft,      \* the most drafted tokens of a row
          DraftSteps     \* the most steps of the draft model after its first

ASSUME PagedDecodingAssumption ==
  /\ IsFiniteSet(Tokens) /\ Tokens \subseteq Nat /\ {0, 1} \subseteq Tokens
  /\ DraftedModels \subseteq Models
  /\ {Unit, Requests, Beams, BlockSize, MaxBlocks} \subseteq Nat \ {0}
  /\ {PoolBlocks, MaxLength, MaxDraft, DraftSteps} \subseteq Nat
  /\ MaxLength <= MaxBlocks * BlockSize
  /\ MaxBlocks * (IF Beams > Requests THEN Beams ELSE Requests) <= PoolBlocks

\* A model gives every token a probability in Unit-ths, and a score.
ASSUME ModelsAssumption ==
  \A m \in Models, context \in BoundedSeq(Tokens, MaxLength) :
    /\ \A token \in Tokens : Weight(m, context, token) \in 0 .. Unit /\ Score(m, context, token) \in Int
    /\ FoldFunctionOnSet(+, 0, [token \in Tokens |-> Weight(m, context, token)], Tokens) = Unit

VARIABLES kind,     \* "copy" and "remap" are beam searches, the others verify drafts
          model, policy, history, scores,      \* as in TokenStreams
          lengths,  \* sequence_lengths
          computed, \* how many positions of each row the cache holds
          table,    \* table[row][column]: a block, or -1
          cache,    \* cache[slot]: the tokens it was computed from
          step, work
vars == <<kind, model, policy, history, scores, lengths, computed, table, cache, step, work>>
streams == <<kind, model, policy>>

Kinds == {"copy", "remap", "rejection", "verify", "tree"}
IsBeam == kind \in {"copy", "remap"}
Count == IF IsBeam THEN Beams ELSE Requests
Rows == DOMAIN history
Pad == -1
Unreached == -1000   \* the score minus infinity
Garbage == <<-1>>

Slot(t, row, position) ==
  t[row][position \div BlockSize] * BlockSize + (position % BlockSize)
Free == (0 .. (PoolBlocks - 1)) \ {table[row][column] : row \in Rows, column \in 0 .. (MaxBlocks - 1)}
Stride == MaxDraft + 1

\* Where each row begins, of so many items in each.
Starts(count) ==
  LET start[row \in 0 .. Cardinality(DOMAIN count)] ==
        IF row = 0 THEN 0 ELSE start[row - 1] + count[row - 1]
  IN start
\* The rows' items, one row after the other.
Ragged(count, items) ==
  LET start == Starts(count)
      RowOf(i) == CHOOSE row \in DOMAIN count : start[row] <= i /\ i < start[row + 1]
  IN [i \in 0 .. (start[Cardinality(DOMAIN count)] - 1) |-> items[RowOf(i)][i - start[RowOf(i)] + 1]]

Prompts(row) == IF row = 1 /\ kind = "rejection" THEN <<1, 0>> ELSE <<0>>

Init ==
  /\ kind \in Kinds
  /\ model \in IF IsBeam THEN Models ELSE DraftedModels
  /\ LET rows == 0 .. (Count - 1)
     IN /\ policy \in [rows -> CASE IsBeam -> {"beam"}
                                 [] kind = "rejection" -> {"greedy", "random"}
                                 [] kind \in {"verify", "tree"} -> {"random"}]
        /\ history = [row \in rows |-> Prompts(row)]
        /\ scores = [row \in rows |-> IF row = 0 THEN 0 ELSE Unreached]
        /\ computed = [row \in rows |-> 0]
        /\ table = [row \in rows |-> [column \in 0 .. (MaxBlocks - 1) |-> None]]
  /\ lengths = [row \in Rows |-> Len(history[row])]
  /\ cache = [slot \in 0 .. (PoolBlocks * BlockSize - 1) |-> <<>>]
  /\ step = "ready"
  /\ work = [query |-> <<>>]

-----------------------------------------------------------------------------
(* The forward pass.                                                       *)

\* The engine decides what to compute: of a prompt, one chunk or all that is left; after
\* the last token, drafts.  fed[row] is how many tokens of the history are computed,
\* drafts[row] follow them.
Plan(fed, drafts, parents) ==
  /\ step = "ready"
  /\ \A row \in Rows :
       /\ lengths[row] + Len(drafts[row]) < MaxLength
       /\ computed[row] + fed[row] <= lengths[row]
       /\ drafts[row] # <<>> => computed[row] + fed[row] = lengths[row]
  /\ work' = [fed |-> fed, drafts |-> drafts, parents |-> parents,
              query |-> [row \in Rows |->
                SubSeq(history[row], computed[row] + 1, computed[row] + fed[row]) \o drafts[row]]]
  /\ step' = "planned"
  /\ UNCHANGED <<streams, history, scores, lengths, computed, table, cache>>

PlanBeams ==
  /\ IsBeam
  /\ Plan([row \in Rows |-> lengths[row] - computed[row]], [row \in Rows |-> <<>>], <<>>)
PlanRagged ==
  /\ kind = "rejection"
  /\ \E fed \in [Rows -> 1 .. MaxLength], drafts \in [Rows -> BoundedSeq(Tokens, MaxDraft)] :
       Plan(fed, drafts, <<>>)
PlanVerify ==
  /\ kind = "verify"
  /\ \E drafts \in [Rows -> [1 .. MaxDraft -> Tokens]] :
       Plan([row \in Rows |-> 1], drafts, <<>>)
\* The drafts that a draft follows come before it.
Trees == {f \in [0 .. MaxDraft -> None .. (MaxDraft - 1)] :
            f[0] = None /\ \A node \in 1 .. MaxDraft : 0 <= f[node] /\ f[node] < node}
PlanTree ==
  /\ kind = "tree"
  /\ \E drafts \in [Rows -> [1 .. MaxDraft -> Tokens]], parents \in Trees :
       Plan([row \in Rows |-> 1], drafts, parents)

\* A block for every position that is to be written, the free ones in order.
Lacks(row, position) == table[row][position \div BlockSize] < 0
Allocate(row, position) ==
  /\ Lacks(row, position)
  /\ table' = [table EXCEPT ![row][CHOOSE c \in 0 .. (position \div BlockSize) :
                                     /\ table[row][c] < 0
                                     /\ \A d \in 0 .. (c - 1) : table[row][d] >= 0] =
                              CHOOSE b \in Free : \A other \in Free : b <= other]
LastFed(row) == computed[row] + Len(work.query[row]) - 1
AllocateForPass ==
  /\ step = "planned"
  /\ \E row \in Rows :
       /\ \A other \in Rows : other < row => ~Lacks(other, LastFed(other))
       /\ Allocate(row, LastFed(row))
  /\ UNCHANGED <<streams, history, scores, lengths, computed, cache, step, work>>

\* What attention of a row finds at its positions before the last of these tokens.
Found(row) == IF computed[row] = 0 THEN <<>> ELSE cache[Slot(table, row, computed[row] - 1)]
Intact(c, row, tokens) ==
  \A position \in 0 .. (Len(tokens) - 1) :
    c[Slot(table, row, position)] = SubSeq(tokens, 1, position + 1)

\* The entries of a row, and what each is computed from: the tokens before it, or in a
\* tree the drafts on its path.
Path(parents, node) ==
  LET path[n \in DOMAIN parents] == IF n = 0 THEN <<>> ELSE Append(path[parents[n]], n)
  IN path[node]
Entry(row, i) ==
  IF kind # "tree" THEN Found(row) \o SubSeq(work.query[row], 1, i)
  ELSE LET path == Path(work.parents, i - 1)
       IN Found(row) \o <<work.query[row][1]>> \o
            [j \in DOMAIN path |-> work.drafts[row][path[j]]]

\* The entries that a pass writes to a slot, of which the last row's stays, and the cache
\* after them.
Writers(slot) ==
  {e \in Rows \X (1 .. MaxLength) : /\ e[2] <= Len(work.query[e[1]])
                                   /\ Slot(table, e[1], computed[e[1]] + e[2] - 1) = slot}
Written ==
  [slot \in DOMAIN cache |->
     LET writers == Writers(slot)
         last == CHOOSE e \in writers : \A other \in writers : other[1] <= e[1]
     IN IF writers = {} THEN cache[slot] ELSE Entry(last[1], last[2])]

\* What the token after an entry is predicted from: the tokens before it, unless attention
\* finds anything else at their slots.
Context(row, i) ==
  IF \/ kind = "tree" /\ Intact(cache', row, Found(row))
     \/ kind # "tree" /\ Intact(cache', row, Entry(row, i))
  THEN Entry(row, i) ELSE Garbage

Forward ==
  /\ step = "planned"
  /\ \A row \in Rows : ~Lacks(row, LastFed(row))
  /\ cache' = Written
  /\ work' = [fed |-> work.fed, drafts |-> work.drafts, parents |-> work.parents,
              query |-> work.query,
              context |-> [row \in Rows |-> [i \in DOMAIN work.query[row] |-> Context(row, i)]]]
  /\ step' = "fed"
  /\ UNCHANGED <<streams, history, scores, lengths, computed, table>>

-----------------------------------------------------------------------------
(* Beam search.                                                            *)

BeamStep ==
  /\ step = "fed" /\ IsBeam
  /\ LET Logits(row) == work.context[row][Len(work.query[row])]
         total == [row \in Rows |-> [token \in Tokens |->
                    IF scores[row] = Unreached THEN Unreached
                    ELSE scores[row] + Score(model, Logits(row), token)]]
     IN work' = [beams |-> BeamSearchStep(Beams, Tokens, total)]
  /\ step' = "sampled"
  /\ UNCHANGED <<streams, history, scores, lengths, computed, table, cache>>

Parent == [row \in Rows |-> work.beams[row].parent]
Continued ==
  /\ history' = [row \in Rows |-> Append(history[Parent[row]], work.beams[row].token)]
  /\ scores' = [row \in Rows |-> work.beams[row].score]
  /\ computed' = lengths
  /\ lengths' = [row \in Rows |-> lengths[row] + 1]
  /\ step' = "ready"
  /\ work' = [query |-> <<>>]
  /\ UNCHANGED streams

\* Every hypothesis keeps its blocks; what it continues is copied into them.
ReorderByCopy ==
  /\ step = "sampled" /\ kind = "copy"
  /\ cache' = KvCacheCopyBlocks(cache,
                BeamBuildCopyPairs(Parent, table, lengths, MaxBlocks, BlockSize), BlockSize)
  /\ Continued
  /\ UNCHANGED table

\* Every hypothesis takes over the table of the one it continues.  A block that is not
\* full is then copied for all but the first of its rows, for they will write to it.
Remapped == BeamRemapBlockTable(table, Parent)
LastColumn(row) == (lengths[row] - 1) \div BlockSize
SplitRows ==
  {row \in Rows : /\ lengths[row] % BlockSize # 0
                  /\ \E other \in Rows : other < row /\ Parent[other] = Parent[row]}
ReorderByRemap ==
  /\ step = "sampled" /\ kind = "remap"
  /\ LET unused == (0 .. (PoolBlocks - 1)) \
                     {Remapped[row][column] : row \in Rows, column \in 0 .. (MaxBlocks - 1)}
         blocks == InOrder(unused, <)
         Number(row) == Cardinality({other \in SplitRows : other <= row})
         pairs == [row \in Rows |->
                     IF row \in SplitRows
                     THEN <<Remapped[row][LastColumn(row)], blocks[Number(row)]>>
                     ELSE <<None, None>>]
     IN /\ table' = [row \in Rows |->
                       IF row \in SplitRows
                       THEN [Remapped[row] EXCEPT ![LastColumn(row)] = pairs[row][2]]
                       ELSE Remapped[row]]
        /\ cache' = KvCacheCopyBlocks(cache, pairs, BlockSize)
  /\ Continued

-----------------------------------------------------------------------------
(* Verification.                                                           *)

\* The entry that predicts what follows the history and i drafts.
Predicts(row, i) == work.context[row][work.fed[row] + i]
P(row, i) == [token \in Tokens |-> Weight(model, Predicts(row, i), token)]
Argmax(p) == CHOOSE t \in Tokens : \A u \in Tokens : p[t] > p[u] \/ (p[t] = p[u] /\ t <= u)
\* Rows whose prompt is not computed to its end are discarded.
Discarded(row) == computed[row] + work.fed[row] < lengths[row]
Counts == [row \in Rows |-> Len(work.drafts[row])]
Bonuses(row) == LET p == P(row, Len(work.drafts[row]))
                IN IF policy[row] = "greedy" THEN {Argmax(p)} ELSE {t \in Tokens : p[t] > 0}

\* Greedy and random rows in one batch: each function fills the rows of its mask, and the
\* engine takes each row from the one that has it.  Drafts are from an n-gram table.
RejectionSample ==
  /\ step = "fed" /\ kind = "rejection"
  /\ LET cumulative == Starts(Counts)
         total == cumulative[Requests]
         drafts == Ragged(Counts, work.drafts)
         p == Ragged(Counts, [row \in Rows |-> [i \in 1 .. Counts[row] |-> P(row, i - 1)]])
         mask == [row \in Rows |-> policy[row] = "greedy"]
     IN \E bonus \in [Rows -> Tokens], uniform \in [0 .. (total - 1) -> 1 .. Unit],
           recovered \in [0 .. (total - 1) -> Tokens] :
          LET greedy == RejectionGreedySample(cumulative, drafts,
                          [i \in DOMAIN p |-> Argmax(p[i])], bonus, mask, Stride)
              random == RejectionRandomSample(cumulative, drafts,
                          [i \in DOMAIN p |-> p[i][drafts[i]]], [i \in DOMAIN p |-> Unit],
                          bonus, recovered, uniform, mask, Stride, Unit)
          IN /\ \A row \in Rows : bonus[row] \in Bonuses(row)
             /\ \A i \in DOMAIN p : recovered[i] \in RecoveredTokens(Tokens, drafts[i], p[i], p[i], TRUE)
             /\ work' = [fed |-> work.fed, drafts |-> work.drafts, query |-> work.query,
                         out |-> [row \in Rows |-> IF mask[row] THEN greedy[row] ELSE random[row]]]
  /\ step' = "sampled"
  /\ UNCHANGED <<streams, history, scores, lengths, computed, table, cache>>

\* A choice for every row of one of its outcomes.
EachRow(Outcomes(_)) ==
  {f \in [Rows -> UNION {Outcomes(row) : row \in Rows}] : \A row \in Rows : f[row] \in Outcomes(row)}

\* With the distribution q that the draft model drew a row's drafts from.
Distributions == {q \in [Tokens -> 0 .. Unit] : FoldFunctionOnSet(+, 0, q, Tokens) = Unit}
Rejected(row, q) ==
  {f \in [0 .. (MaxDraft - 1) -> Tokens] : \A i \in DOMAIN f : f[i] \in VerifyInstead(Tokens, P(row, i), q)}
VerifyOutcome(row, q, uniform, instead, bonus) ==
  LET items == 0 .. (MaxDraft - 1)
      drafts == [i \in items |-> work.drafts[row][i + 1]]
  IN VerifiedRow(Stride, MaxDraft,
       [i \in items |-> VerifyAccepts(P(row, i)[drafts[i]], q[drafts[i]], uniform[i], Unit)],
       drafts, instead, bonus)
VerifyOutcomes(row) ==
  UNION {{VerifyOutcome(row, q, uniform, instead, bonus) :
            uniform \in [0 .. (MaxDraft - 1) -> 1 .. Unit],
            instead \in Rejected(row, q), bonus \in Bonuses(row)} :
         q \in Distributions}

SpeculativeVerify ==
  /\ step = "fed" /\ kind = "verify"
  /\ \E out \in EachRow(LAMBDA row : VerifyOutcomes(row)) :
       work' = [fed |-> work.fed, drafts |-> work.drafts, query |-> work.query, out |-> out]
  /\ step' = "sampled"
  /\ UNCHANGED <<streams, history, scores, lengths, computed, table, cache>>

\* Of a tree of drafts, one path is accepted; the engine moves what its nodes computed
\* behind each other, to the positions that build_dynamic_tree gave them.
TreePaths(row) ==
  LET p == [node \in 0 .. MaxDraft |-> P(row, node)]
  IN {TreePath(valid, FirstChild(work.parents), NextSibling(work.parents), work.drafts[row], p, coins) :
        valid \in BOOLEAN, coins \in [0 .. MaxDraft -> 1 .. Unit]}
TreeBonuses(row, path) ==
  TreeBonus(Tokens, FirstChild(work.parents), NextSibling(work.parents), work.drafts[row],
            [node \in 0 .. MaxDraft |-> P(row, node)], path)
TreeOutcome(row, path, bonus) ==
  LET accepted == Len(path.nodes) - 1
  IN [nodes |-> path.nodes,
      out |-> [i \in 0 .. MaxDraft |-> CASE i < accepted -> work.drafts[row][path.nodes[i + 2]]
                                        [] i = accepted -> bonus
                                        [] i > accepted -> None]]
TreeOutcomes(row) ==
  UNION {{TreeOutcome(row, path, bonus) : bonus \in TreeBonuses(row, path)} : path \in TreePaths(row)}

VerifyTree ==
  /\ step = "fed" /\ kind = "tree"
  /\ \E outcome \in EachRow(LAMBDA row : TreeOutcomes(row)) :
       /\ cache' = [slot \in DOMAIN cache |->
            LET moved == {m \in Rows \X (0 .. MaxDraft) :
                  /\ \E i \in DOMAIN outcome[m[1]].nodes : outcome[m[1]].nodes[i] = m[2]
                  /\ slot = Slot(table, m[1], computed[m[1]] + Depths(work.parents)[m[2]])}
                m == CHOOSE m \in moved : TRUE
            IN IF moved = {} THEN cache[slot]
               ELSE cache[Slot(table, m[1], computed[m[1]] + m[2])]]
       /\ work' = [fed |-> work.fed, drafts |-> work.drafts, query |-> work.query,
                   out |-> [row \in Rows |-> outcome[row].out]]
  /\ step' = "sampled"
  /\ UNCHANGED <<streams, history, scores, lengths, computed, table>>

-----------------------------------------------------------------------------
(* The metadata of the next pass.                                          *)

\* Rows that are discarded go on with the next token of their prompt.
PrepareNextTokens ==
  /\ step = "sampled" /\ ~IsBeam
  /\ LET backup == [row \in Rows |->
                      IF Discarded(row) THEN history[row][computed[row] + work.fed[row] + 1] ELSE 0]
         next == EaglePrepareNextTokenPadded(work.out, [row \in Rows |-> Discarded(row)], backup)
         starts == Starts([row \in Rows |-> Len(work.query[row])])
         inputs == EaglePrepareInputsPadded(Starts(Counts),
                     [row \in Rows |-> next[row].valid], starts)
     IN work' = [fed |-> work.fed, drafts |-> work.drafts, query |-> work.query, out |-> work.out,
                 next |-> next, starts |-> starts,
                 entry |-> [row \in Rows |-> inputs[row].index]]   \* (not used for trees)
  /\ step' = "prepared"
  /\ UNCHANGED <<streams, history, scores, lengths, computed, table, cache>>

\* The rows that have sampled are compacted; the engine appends the packed tokens to the
\* streams they are packed for, where their positions say.
Live == InOrder({row \in Rows : ~Discarded(row)}, <)
LiveIndex(row) == (CHOOSE i \in DOMAIN Live : Live[i] = row) - 1
OfLive(a) == [i \in 0 .. (Len(Live) - 1) |-> a[Live[i + 1]]]
Appended(row, packed) ==
  LET mine == packed.cumulative[LiveIndex(row)] .. (packed.cumulative[LiveIndex(row) + 1] - 1)
      At(position) == {i \in mine : packed.positions[i] = position}
      end == CHOOSE n \in 0 .. MaxLength + Stride :
               \A i \in mine : packed.positions[i] < n /\ \E j \in mine : packed.positions[j] + 1 >= n
  IN [n \in 1 .. end |->
        IF At(n - 1) = {} THEN (IF n <= Len(history[row]) THEN history[row][n] ELSE None)
        ELSE packed.tokens[CHOOSE i \in At(n - 1) : TRUE]]

\* The position of the entry that the draft model samples from.
EntryPosition(row) == computed[row] + work.entry[row] - work.starts[row]

Commit ==
  /\ step = "prepared"
  /\ LET accepted == OfLive([row \in Rows |-> work.next[row].valid - 1])
         packed == SpeculativeCompact(OfLive(work.out), accepted, OfLive(lengths), Stride)
         updated == SpeculativeUpdateKvMeta(OfLive(lengths), accepted)
         NewLength(row) == updated[LiveIndex(row)]
     IN /\ history' = [row \in Rows |-> IF Discarded(row) THEN history[row] ELSE Appended(row, packed)]
        /\ lengths' = [row \in Rows |-> IF Discarded(row) THEN lengths[row] ELSE NewLength(row)]
        /\ computed' = [row \in Rows |-> IF Discarded(row) THEN computed[row] + work.fed[row]
                                                           ELSE NewLength(row) - 1]
  /\ IF kind = "rejection"
     THEN /\ step' = "drafting"
          /\ work' = [rounds |-> 0,
                      positions |-> [row \in Rows |-> EntryPosition(row)],
                      lengths |-> [row \in Rows |-> EntryPosition(row) + 1],
                      slots |-> [row \in Rows |-> <<>>]]
     ELSE step' = "ready" /\ work' = [query |-> <<>>]
  /\ UNCHANGED <<streams, scores, table, cache>>

\* The draft model goes on from the last entry that counts, one position at a time, in a
\* cache of its own with the same tables.  The engine keeps the positions as they are, not
\* as they are clamped.  A call that lacks a block is repeated, with the same arguments,
\* after it is allocated.
DraftStep ==
  /\ step = "drafting" /\ work.rounds < DraftSteps
  /\ LET result == EagleStepSlotMapping(work.positions, table, work.lengths, MaxBlocks,
                                        BlockSize, MaxLength, Pad)
     IN /\ result.ok
        /\ work' = [rounds |-> work.rounds + 1,
                    positions |-> [row \in Rows |-> work.positions[row] + 1],
                    lengths |-> result.lengths,
                    slots |-> [row \in Rows |-> Append(work.slots[row], result.slots[row])]]
  /\ UNCHANGED <<streams, history, scores, lengths, computed, table, cache, step>>

DraftStepFails ==
  /\ step = "drafting" /\ work.rounds < DraftSteps
  /\ LET result == EagleStepSlotMapping(work.positions, table, work.lengths, MaxBlocks,
                                        BlockSize, MaxLength, Pad)
     IN /\ ~result.ok
        /\ Allocate(result.reached, work.positions[result.reached] + 1)
  /\ UNCHANGED <<streams, history, scores, lengths, computed, cache, step, work>>

DraftingEnds ==
  /\ step = "drafting"
  /\ step' = "ready"
  /\ work' = [query |-> <<>>]
  /\ UNCHANGED <<streams, history, scores, lengths, computed, table, cache>>

Finished ==
  /\ step = "ready"
  /\ \E row \in Rows : lengths[row] + MaxDraft >= MaxLength
  /\ UNCHANGED vars

Next ==
  \/ PlanBeams \/ PlanRagged \/ PlanVerify \/ PlanTree
  \/ AllocateForPass \/ Forward
  \/ BeamStep \/ ReorderByCopy \/ ReorderByRemap
  \/ RejectionSample \/ SpeculativeVerify \/ VerifyTree
  \/ PrepareNextTokens \/ Commit
  \/ DraftStep \/ DraftStepFails \/ DraftingEnds
  \/ Finished

Spec == Init /\ [][Next]_vars

-----------------------------------------------------------------------------
(* What must hold.                                                         *)

\* Every position a row has computed is in a block of its table, and was computed from
\* the row's own tokens, through refused drafts, copies between beams, tables that are
\* shared, and blocks that others used before (kv_cache_copy_blocks,
\* beam_build_copy_pairs, beam_remap_block_table, speculative_update_kv_meta).
CacheHoldsHistory ==
  \A row \in Rows : \A position \in 0 .. (computed[row] - 1) :
    /\ ~Lacks(row, position)
    /\ cache[Slot(table, row, position)] = SubSeq(history[row], 1, position + 1)

\* The entry that eagle_prepare_inputs_padded tells to sample from is the row's own, all
\* entries before it are tokens that the row keeps, and eagle_prepare_next_token_padded
\* gives the token that follows it, which is the row's last unless it is discarded.
SampledEntries ==
  step = "prepared" /\ kind # "tree" =>
    \A row \in Rows :
      LET kept == IF Discarded(row) THEN history[row]
                  ELSE history[row] \o [i \in 1 .. work.next[row].valid |-> work.out[row][i - 1]]
          position == EntryPosition(row)
      IN /\ work.starts[row] <= work.entry[row] /\ work.entry[row] < work.starts[row + 1]
         /\ SubSeq(kept, computed[row] + 1, position + 1)
              = SubSeq(work.query[row], 1, position - computed[row] + 1)
         /\ kept[position + 2] = work.next[row].next
         /\ ~Discarded(row) => position + 2 = Len(kept)

\* The steps of the draft model write one position after the other, in blocks of the row,
\* never over what a row has computed, and with as many positions as there are then,
\* also if a step had to be repeated (eagle_step_slot_mapping_metadata).
DraftsSpareHistory ==
  step = "drafting" =>
    \A row \in Rows :
      /\ work.rounds > 0 =>
           work.lengths[row] = IF work.positions[row] >= MaxLength THEN 1 ELSE work.positions[row] + 1
      /\ \A i \in DOMAIN work.slots[row] :
           LET position == computed[row] + i - 1
           IN IF position >= MaxLength THEN work.slots[row][i] = Pad
              ELSE /\ work.slots[row][i] = Slot(table, row, position)
                   /\ \A other \in Rows : \A p \in 0 .. (computed[other] - 1) :
                        work.slots[row][i] # Slot(table, other, p)

\* Decoding yields the streams that TokenStreams promises: the target model's own tokens,
\* and the best continuations in a beam search, whatever was drafted.
Streams == INSTANCE TokenStreams
ImplementsTokenStreams == Streams!Spec
-----------------------------------------------------------------------------
(* The inductive invariant.                                                *)

Columns == 0 .. (MaxBlocks - 1)
\* What the variables are.
ITypes ==
  /\ kind \in Kinds /\ model \in Models
  /\ history \in [0 .. (Count - 1) -> Seq(Tokens)] /\ scores \in [Rows -> Int]
  /\ policy \in [Rows -> CASE IsBeam -> {"beam"}
                           [] kind = "rejection" -> {"greedy", "random"}
                           [] kind \in {"verify", "tree"} -> {"random"}]
  /\ lengths = [row \in Rows |-> Len(history[row])]
  /\ computed \in [Rows -> 0 .. MaxLength]
  /\ table \in [Rows -> [Columns -> None .. (PoolBlocks - 1)]]
  /\ DOMAIN cache = 0 .. (PoolBlocks * BlockSize - 1)
  /\ cache = [slot \in DOMAIN cache |-> cache[slot]]

\* Something is left to compute; beams advance together.
ILengths ==
  /\ \A row \in Rows : computed[row] < lengths[row]
  /\ kind \in {"verify", "tree"} => \A row \in Rows : computed[row] + 1 = lengths[row]
  /\ IsBeam => \A row, other \in Rows : computed[row] = computed[other] /\ lengths[row] = lengths[other]

\* A row's blocks are the first of its table.  Two rows share a block only at the same
\* place, in tables that were remapped, and only one that neither will write to again.
Full(row, column) == (column + 1) * BlockSize <= computed[row]
IBlocks ==
  /\ \A row \in Rows, c, d \in Columns : c < d /\ table[row][d] >= 0 => table[row][c] >= 0
  /\ \A row, other \in Rows, c, d \in Columns : table[row][c] >= 0 /\ table[row][c] = table[other][d] =>
       c = d /\ (row = other \/ (kind = "remap" /\ Full(row, c) /\ Full(other, c)))
  /\ kind = "remap" =>
       \A row \in Rows, c \in Columns : table[row][c] >= 0 => c * BlockSize < lengths[row]

\* The row's blocks hold these tokens.
Holds(row, tokens) ==
  \A position \in 0 .. (Len(tokens) - 1) :
    /\ ~Lacks(row, position)
    /\ cache[Slot(table, row, position)] = SubSeq(tokens, 1, position + 1)

InPass == step \in {"planned", "fed"} \/ (step \in {"sampled", "prepared"} /\ ~IsBeam)
IPlanned ==
  InPass =>
    /\ work.fed \in [Rows -> 1 .. MaxLength] /\ work.drafts \in [Rows -> Seq(Tokens)]
    /\ work.query = [row \in Rows |->
         SubSeq(history[row], computed[row] + 1, computed[row] + work.fed[row]) \o work.drafts[row]]
    /\ \A row \in Rows :
         /\ computed[row] + work.fed[row] <= lengths[row] /\ Len(work.drafts[row]) <= MaxDraft
         /\ work.drafts[row] # <<>> => computed[row] + work.fed[row] = lengths[row]
         /\ lengths[row] + Len(work.drafts[row]) < MaxLength
         /\ IsBeam => work.fed[row] = lengths[row] - computed[row] /\ work.drafts[row] = <<>>
         /\ kind \in {"verify", "tree"} => work.fed[row] = 1 /\ Len(work.drafts[row]) = MaxDraft
    /\ kind = "tree" /\ step \in {"planned", "fed"} => work.parents \in Trees

\* What is computed of a row, with its drafts; what a node of a tree follows.
Reached(row) == SubSeq(history[row], 1, computed[row] + work.fed[row])
Seen(row) == Reached(row) \o work.drafts[row]
Branch(row, node) ==
  LET path == Path(work.parents, node)
  IN history[row] \o [j \in DOMAIN path |-> work.drafts[row][path[j]]]
IFed ==
  step = "fed" =>
    \A row \in Rows :
      /\ ~Lacks(row, LastFed(row))
      /\ kind # "tree" =>
           /\ Holds(row, Seen(row))
           /\ work.context[row] = [i \in DOMAIN work.query[row] |-> SubSeq(Seen(row), 1, computed[row] + i)]
      /\ kind = "tree" =>
           \A node \in 0 .. MaxDraft :
             /\ cache[Slot(table, row, computed[row] + node)] = Branch(row, node)
             /\ work.context[row][node + 1] = Branch(row, node)

\* The candidates that continue are the best, in order, of rows whose blocks are complete.
Choice(row) == <<work.beams[row].parent, work.beams[row].token>>
IChosen ==
  step = "sampled" /\ IsBeam =>
    /\ \A row \in Rows : Holds(row, history[row]) /\ lengths[row] < MaxLength
    /\ \A row \in Rows : Choice(row) \in Rows \X Tokens /\ work.beams[row].score = Streams!Total(Choice(row))
    /\ \A a, b \in Rows : a < b => Streams!Before(Choice(a), Choice(b))
    /\ \A c \in Rows \X Tokens : (\A row \in Rows : c # Choice(row)) =>
         \A row \in Rows : Streams!Before(Choice(row), c)

\* Of a row's drafts n are accepted, and one token follows: tokens that the model allows,
\* of which all but the last are in the row's blocks.
Taken(row, n) == Reached(row) \o [i \in 1 .. n |-> work.out[row][i - 1]]
Accepted(row, n) ==
  /\ \A i \in 0 .. n : work.out[row][i] \in Tokens
  /\ \A i \in (n + 1) .. MaxDraft : work.out[row][i] = None
  /\ kind # "tree" => \A i \in 0 .. (n - 1) : work.out[row][i] = work.drafts[row][i + 1]
  /\ Holds(row, Taken(row, n))
  /\ ~Discarded(row) => \A i \in 0 .. n : Streams!Emits(row, Taken(row, i), work.out[row][i])
Prepared(row, n) ==
  /\ work.next[row].valid = IF Discarded(row) THEN 0 ELSE n + 1
  /\ work.next[row].next = IF Discarded(row) THEN history[row][computed[row] + work.fed[row] + 1]
                           ELSE work.out[row][n]
  /\ work.starts[row] \in Nat /\ work.starts[row + 1] = work.starts[row] + Len(work.query[row])
  /\ kind # "tree" => work.entry[row] = work.starts[row] + work.fed[row] + n - 1
IOut ==
  step \in {"sampled", "prepared"} /\ ~IsBeam =>
    /\ work.out \in [Rows -> [0 .. MaxDraft -> Tokens \cup {None}]]
    /\ \A row \in Rows :
         \E n \in 0 .. Len(work.drafts[row]) :
           Accepted(row, n) /\ (step = "prepared" => Prepared(row, n))

\* The draft model has gone on for so many rounds from the last entry that counts.
IDrafts ==
  step = "drafting" =>
    /\ work.rounds \in Nat /\ DOMAIN work.positions = Rows
    /\ \A row \in Rows :
         /\ work.positions[row] = computed[row] - 1 + work.rounds
         /\ work.lengths[row] = IF work.rounds > 0 /\ work.positions[row] >= MaxLength THEN 1
                                ELSE work.positions[row] + 1
         /\ work.slots[row] \in Seq(Int) /\ Len(work.slots[row]) = work.rounds
         /\ \A i \in 1 .. work.rounds :
              LET position == computed[row] + i - 1
              IN IF position >= MaxLength THEN work.slots[row][i] = Pad
                 ELSE ~Lacks(row, position) /\ work.slots[row][i] = Slot(table, row, position)

ISteps ==
  /\ step \in {"ready", "planned", "fed", "sampled", "prepared", "drafting"}
  /\ step = "prepared" => ~IsBeam
  /\ step = "drafting" => kind = "rejection"

\* Between any two of the functions that the engine calls, the tables, the cache, what is
\* computed, the beams, the accepted drafts, the metadata and the slots of the draft model
\* agree with the rows' histories: all that each function relies on, and what follows it.
IInv ==
  /\ ITypes /\ ILengths /\ IBlocks /\ ISteps /\ CacheHoldsHistory
  /\ IPlanned /\ IFed /\ IChosen /\ IOut /\ IDrafts
=============================================================================
