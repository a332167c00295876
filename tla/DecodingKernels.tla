---------------------------- MODULE DecodingKernels ----------------------------
(***************************************************************************)
(* The functions of the sampling and serving directories that an engine    *)
(* calls between two forward passes: beam search, verification of drafted  *)
(* tokens, block tables, copies of cache blocks, and the metadata of the   *)
(* next pass.  Arrays are functions from 0; a probability is a number of   *)
(* Unit-ths, and so is a uniform, which is above zero and at most one.     *)
(* Arguments are those an engine passes: what it checks is not repeated    *)
(* here, but for the missing block of eagle_step_slot_mapping_metadata.    *)
(***************************************************************************)
EXTENDS Integers, Sequences, FiniteSets, SequencesExt

None == -1
Ceiling(n, d) == (n + d - 1) \div d
Smaller(a, b) == IF a <= b THEN a ELSE b
\* The members of a set in the order of a strict total order.
InOrder(S, Precedes(_, _)) ==
  [i \in 1 .. Cardinality(S) |-> CHOOSE x \in S : Cardinality({y \in S : Precedes(y, x)}) = i - 1]

-----------------------------------------------------------------------------
(* Beam search                                                             *)

\* total[parent][token]: candidates in the order of partial_sort.
BeamSearchStep(width, tokens, total) ==
  LET Earlier(c, d) == \/ total[c[1]][c[2]] > total[d[1]][d[2]]
                       \/ total[c[1]][c[2]] = total[d[1]][d[2]] /\ c[1] < d[1]
                       \/ total[c[1]][c[2]] = total[d[1]][d[2]] /\ c[1] = d[1] /\ c[2] < d[2]
      sorted == InOrder((0 .. (width - 1)) \X tokens, Earlier)
  IN [slot \in 0 .. (width - 1) |->
        [parent |-> sorted[slot + 1][1], token |-> sorted[slot + 1][2],
         score |-> total[sorted[slot + 1][1]][sorted[slot + 1][2]]]]

BeamBuildCopyPairs(parent, table, lengths, maxBlocks, blockSize) ==
  [pair \in 0 .. (Cardinality(DOMAIN parent) * maxBlocks - 1) |->
     LET beam == pair \div maxBlocks
         column == pair % maxBlocks
         source == table[parent[beam]][column]
         destination == table[beam][column]
     IN IF /\ parent[beam] # beam
           /\ column < Ceiling(lengths[beam], blockSize)
           /\ source >= 0 /\ destination >= 0
        THEN <<source, destination>> ELSE <<None, None>>]

\* (A defect: copies that see the copies before them.)
KvCacheCopyBlocks_NoSnapshot(cache, pairs, blockSize) ==
  LET after[n \in 0 .. Cardinality(DOMAIN pairs)] ==
        IF n = 0 THEN cache
        ELSE [slot \in DOMAIN cache |->
                IF pairs[n - 1][1] >= 0 /\ pairs[n - 1][2] = slot \div blockSize
                THEN after[n - 1][pairs[n - 1][1] * blockSize + (slot % blockSize)]
                ELSE after[n - 1][slot]]
  IN after[Cardinality(DOMAIN pairs)]

\* The last pair that names a slot's block as its destination decides.  Sources are read
\* from a snapshot.
KvCacheCopyBlocks(cache, pairs, blockSize) ==
  [slot \in DOMAIN cache |->
     LET copies == {i \in DOMAIN pairs : pairs[i][1] >= 0 /\ pairs[i][2] = slot \div blockSize}
         last == CHOOSE i \in copies : \A j \in copies : j <= i
     IN IF copies = {} THEN cache[slot] ELSE cache[pairs[last][1] * blockSize + (slot % blockSize)]]

BeamRemapBlockTable(table, parent) == [beam \in DOMAIN parent |-> table[parent[beam]]]

-----------------------------------------------------------------------------
(* Verification of drafts.  A row is -1 past its tokens.                   *)

\* The longest run of accepted drafts.
Leading(count, accepts) ==
  CHOOSE n \in 0 .. count :
    (\A i \in 0 .. (n - 1) : accepts[i]) /\ (n < count => ~accepts[n])

VerifiedRow(stride, count, accepts, taken, instead, bonus) ==
  LET n == Leading(count, accepts)
  IN [i \in 0 .. (stride - 1) |->
        CASE i < n -> taken[i]
          [] i = n /\ n < count -> instead[i]
          [] i = n /\ n = count -> bonus
          [] i > n -> None]
EmptyRow(stride) == [i \in 0 .. (stride - 1) |-> None]

\* drafts and the like are the arrays of all rows; cumulative cuts them into rows.
Own(cumulative, row, a) ==
  [i \in 0 .. (cumulative[row + 1] - cumulative[row] - 1) |-> a[cumulative[row] + i]]

RejectionGreedySample(cumulative, drafts, argmax, bonus, mask, stride) ==
  [row \in DOMAIN mask |->
     LET draft == Own(cumulative, row, drafts)
         target == Own(cumulative, row, argmax)
     IN IF ~mask[row] THEN EmptyRow(stride)
        ELSE VerifiedRow(stride, cumulative[row + 1] - cumulative[row],
                         [i \in DOMAIN draft |-> draft[i] = target[i]],
                         target, target, bonus[row])]

\* (A defect: the recovered tokens of the first row are taken for every row.)
RejectionRandomSample_FirstRow(cumulative, drafts, p, q, bonus, recovered, uniform, mask, stride, unit) ==
  [row \in DOMAIN mask |->
     LET draft == Own(cumulative, row, drafts)
         first == cumulative[row]
     IN IF mask[row] THEN EmptyRow(stride)
        ELSE VerifiedRow(stride, cumulative[row + 1] - first,
               [i \in DOMAIN draft |->
                  q[first + i] > 0 /\ p[first + i] * unit >= uniform[first + i] * q[first + i]],
               draft, recovered, bonus[row])]

\* p and q: the target's and the draft's probability of each draft.
RejectionRandomSample(cumulative, drafts, p, q, bonus, recovered, uniform, mask, stride, unit) ==
  [row \in DOMAIN mask |->
     LET draft == Own(cumulative, row, drafts)
         first == cumulative[row]
     IN IF mask[row] THEN EmptyRow(stride)
        ELSE VerifiedRow(stride, cumulative[row + 1] - first,
               [i \in DOMAIN draft |->
                  q[first + i] > 0 /\ p[first + i] * unit >= uniform[first + i] * q[first + i]],
               draft, Own(cumulative, row, recovered), bonus[row])]

\* The tokens sample_recovered_tokens may select, whatever the noise, which is positive:
\* those with the residual of their probabilities, or else the first.
RecoveredTokens(tokens, draft, p, q, noDraftProbs) ==
  LET residual == {t \in tokens : IF noDraftProbs THEN t # draft /\ p[t] > 0 ELSE p[t] > q[t]}
  IN IF residual = {} THEN {0} ELSE residual

\* speculative_verify: its test, and the tokens it may sample in place of a draft.
VerifyAccepts(p, q, uniform, unit) ==
  IF q > 0 THEN uniform * q <= Smaller(unit * q, p * unit) ELSE p > 0
VerifyInstead(tokens, p, q) ==
  LET residual == {t \in tokens : p[t] > q[t]}
  IN IF residual = {} THEN {t \in tokens : p[t] > 0} ELSE residual

-----------------------------------------------------------------------------
(* Trees of drafts                                                         *)

\* parents[node] is an earlier node, and -1 at the root.
Depths(parents) ==
  LET depth[node \in DOMAIN parents] ==
        IF node = 0 THEN 0 ELSE depth[parents[node]] + 1
  IN depth
FirstChild(parents) ==
  [node \in DOMAIN parents |->
     LET children == {c \in DOMAIN parents : parents[c] = node}
     IN IF children = {} THEN None ELSE CHOOSE c \in children : \A d \in children : c <= d]
NextSibling(parents) ==
  [node \in DOMAIN parents |->
     LET later == {c \in DOMAIN parents : c > node /\ node > 0 /\ parents[c] = parents[node]}
     IN IF later = {} THEN None ELSE CHOOSE c \in later : \A d \in later : c <= d]

\* The children of a node, along the links.
Children(firstChild, nextSibling, node) ==
  LET list[c \in DOMAIN firstChild \cup {None}] ==
        IF c = None THEN <<>> ELSE <<c>> \o list[nextSibling[c]]
  IN list[firstChild[node]]

\* The child that the coin takes: the first at which the sum of the probabilities
\* reaches it.
Selected(children, token, p, coin) ==
  LET sum[i \in 0 .. Len(children)] == IF i = 0 THEN 0 ELSE sum[i - 1] + p[token[children[i]]]
      reached == {i \in 1 .. Len(children) : coin <= sum[i]}
  IN IF reached = {} THEN None
     ELSE children[CHOOSE i \in reached : \A j \in reached : i <= j]

\* coins[node] is the coin of the step at node (a step is one node deeper than the last,
\* so that a coin is used once).  The path, from the root, and whether it ended because
\* every child was refused.  A tree that is not valid is not followed.
TreePath(valid, firstChild, nextSibling, token, p, coins) ==
  LET Pick(node) == Selected(Children(firstChild, nextSibling, node), token, p[node], coins[node])
      path[n \in 0 .. Cardinality(DOMAIN firstChild)] ==
        IF n = 0 THEN <<0>>
        ELSE LET last == path[n - 1][Len(path[n - 1])]
             IN IF ~valid \/ firstChild[last] = None \/ Pick(last) = None THEN path[n - 1]
                ELSE Append(path[n - 1], Pick(last))
      whole == path[Cardinality(DOMAIN firstChild)]
  IN [nodes |-> whole, residual |-> valid /\ firstChild[whole[Len(whole)]] # None]

\* What may follow the path: a token of positive probability, but none of the refused
\* children's; -1 if there is none.
TreeBonus(tokens, firstChild, nextSibling, token, p, path) ==
  LET last == path.nodes[Len(path.nodes)]
      children == Children(firstChild, nextSibling, last)
      tried == IF path.residual THEN {token[children[i]] : i \in DOMAIN children} ELSE {}
      left == {t \in tokens : p[last][t] > 0} \ tried
  IN IF left = {} THEN {None} ELSE left

-----------------------------------------------------------------------------
(* Metadata                                                                *)

SpeculativeCompact(out, accepted, lengths, stride) ==
  LET rows == DOMAIN accepted
      batch == Cardinality(rows)
      start[row \in 0 .. batch] == IF row = 0 THEN 0 ELSE start[row - 1] + accepted[row - 1] + 1
      RowOf(i) == CHOOSE row \in rows : start[row] <= i /\ i < start[row + 1]
      Packed(i) == i < start[batch]
  IN [tokens |-> [i \in 0 .. (batch * stride - 1) |->
                    IF Packed(i) THEN out[RowOf(i)][i - start[RowOf(i)]] ELSE None],
      positions |-> [i \in 0 .. (batch * stride - 1) |->
                       IF Packed(i) THEN lengths[RowOf(i)] + i - start[RowOf(i)] ELSE None],
      cumulative |-> start]

SpeculativeUpdateKvMeta(lengths, accepted) ==
  [row \in DOMAIN lengths |-> lengths[row] + accepted[row] + 1]

\* (A defect: an accepted draft less is taken for a rejected one.)
EaglePrepareInputsPadded_NoBonus(cumulative, valid, starts) ==
  [row \in DOMAIN valid |->
     LET drafts == cumulative[row + 1] - cumulative[row]
         rejected == IF drafts > 0 THEN drafts - valid[row] ELSE 0
     IN [rejected |-> rejected, index |-> starts[row + 1] - 1 - rejected]]
EaglePrepareInputsPadded(cumulative, valid, starts) ==
  [row \in DOMAIN valid |->
     LET drafts == cumulative[row + 1] - cumulative[row]
         rejected == IF drafts > 0 THEN drafts + 1 - valid[row] ELSE 0
     IN [rejected |-> rejected, index |-> starts[row + 1] - 1 - rejected]]

EaglePrepareNextTokenPadded(out, discard, backup) ==
  [row \in DOMAIN out |->
     LET present == {i \in DOMAIN out[row] : out[row][i] # None}
         count == IF discard[row] THEN 0 ELSE Cardinality(present)
         last == CHOOSE i \in present : \A j \in present : j <= i
     IN [valid |-> count, next |-> IF count > 0 THEN out[row][last] ELSE backup[row]]]

\* (A defect: past the longest sequence, the slot of the clamped position is used.)
EagleStepSlotMapping_Unpadded(positions, table, lengths, maxBlocks, blockSize, maxLength, pad) ==
  LET Exceeds(row) == positions[row] + 1 >= maxLength
      Clamped(row) == IF Exceeds(row) THEN 0 ELSE positions[row] + 1
      Block(row) == table[row][Smaller(Clamped(row) \div blockSize, maxBlocks - 1)]
      missing == {row \in DOMAIN positions : Block(row) < 0}
  IN [ok |-> missing = {},
      reached |-> IF missing = {} THEN Cardinality(DOMAIN positions)
                  ELSE CHOOSE row \in missing : \A other \in missing : row <= other,
      positions |-> [row \in DOMAIN positions |-> Clamped(row)],
      slots |-> [row \in DOMAIN positions |-> Block(row) * blockSize + (Clamped(row) % blockSize)],
      lengths |-> [row \in DOMAIN positions |->
                     IF Exceeds(row) THEN 1 ELSE Smaller(lengths[row] + 1, maxLength)]]

\* One more drafted token for every row.  A position past the longest sequence is
\* padded; a row without a block for its position fails the call, after the rows before
\* it are done: reached is how many.
EagleStepSlotMapping(positions, table, lengths, maxBlocks, blockSize, maxLength, pad) ==
  LET Exceeds(row) == positions[row] + 1 >= maxLength
      Clamped(row) == IF Exceeds(row) THEN 0 ELSE positions[row] + 1
      Block(row) == table[row][Smaller(Clamped(row) \div blockSize, maxBlocks - 1)]
      missing == {row \in DOMAIN positions : ~Exceeds(row) /\ Block(row) < 0}
  IN [ok |-> missing = {},
      reached |-> IF missing = {} THEN Cardinality(DOMAIN positions)
                  ELSE CHOOSE row \in missing : \A other \in missing : row <= other,
      positions |-> [row \in DOMAIN positions |-> Clamped(row)],
      slots |-> [row \in DOMAIN positions |->
                   IF Exceeds(row) THEN pad
                   ELSE Block(row) * blockSize + (Clamped(row) % blockSize)],
      lengths |-> [row \in DOMAIN positions |->
                     IF Exceeds(row) THEN 1 ELSE Smaller(lengths[row] + 1, maxLength)]]
=============================================================================
