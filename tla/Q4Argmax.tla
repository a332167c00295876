------------------------------ MODULE Q4Argmax ------------------------------
(***************************************************************************)
(* q4_argmax (kernels/quantization/qgemm_ref.cpp): the greedy token of one *)
(* row, found in parallel.  The kernel reads num_threads(), allocates a    *)
(* slice of scratch per worker, folds the logits of each worker's chunk of *)
(* the vocabulary into its slice, and then merges the slices.  It is the   *)
(* one reduction that a parallel region splits over its parts, and it      *)
(* shows the protocol of every kernel with per-worker scratch: the size of *)
(* the pool is read twice, by the kernel for its slices and by the pool    *)
(* for its parts, and another thread may call set_num_threads in between.  *)
(***************************************************************************)
EXTENDS ChunkPartition

CONSTANTS Vocab,        \* tokens: 0 .. Vocab - 1
          MinPerChunk,  \* the region's grain (32 in the code)
          MaxTotal,     \* pool sizes: 1 .. MaxTotal
          Logits,       \* the values a logit can take
          NaN,          \* the one that compares with nothing
          NegInf,       \* minus infinity: below or equal to the others
          IntMax,       \* INT_MAX: above every token
          Grows         \* may another thread enlarge the pool during the call?

Tokens == 0 .. (Vocab - 1)

ASSUME Q4ArgmaxAssumption ==
  /\ Vocab \in Nat \ {0} /\ MinPerChunk \in Nat /\ MaxTotal \in Nat \ {0}
  /\ NaN \notin Int /\ NegInf \in Int /\ IntMax \in Int /\ Vocab <= IntMax
  /\ \A v \in Logits : v = NaN \/ (v \in Int /\ NegInf <= v)
  /\ Grows \in BOOLEAN

VARIABLES
  logit,       \* logit[t]: what the projection of token t yields
  total,       \* the size of the pool
  pc,          \* where the calling thread is
  workers,     \* how many slices it allocated
  parts,       \* how many parts the region was cut into
  pos,         \* pos[p]: the next token of part p
  bestLogits,  \* bestLogits[w], bestIds[w]: the slice of worker w.  Slices from
  bestIds,     \*   workers on stand for memory that is not the kernel's
  merged,      \* slices merged so far
  best, bestId \* the result so far

vars == <<logit, total, pc, workers, parts, pos, bestLogits, bestIds, merged,
          best, bestId>>

Slices == 0 .. (MaxTotal - 1)
PartIndices == 0 .. (parts - 1)
First(p) == ChunkBegin(Vocab, parts, p)
End(p) == ChunkEnd(Vocab, parts, p)

Init ==
  /\ logit \in [Tokens -> Logits]
  /\ total \in 1 .. MaxTotal
  /\ pc = "called"
  /\ workers = 0 /\ parts = 0
  /\ pos = [p \in Slices |-> 0]
  /\ bestLogits = [w \in Slices |-> NegInf]
  /\ bestIds = [w \in Slices |-> IntMax]
  /\ merged = 0 /\ best = NegInf /\ bestId = IntMax

\* (A defect: only the pool's own threads are counted, without the caller.)
SlicesFor_WorkersOnly(n) == n - 1
SlicesFor(n) == n

\* Slices for every thread of the pool, filled with -inf and INT_MAX.
AllocateSlices ==
  /\ pc = "called"
  /\ workers' = SlicesFor(total)
  /\ bestLogits' = [w \in Slices |-> NegInf]
  /\ bestIds' = [w \in Slices |-> IntMax]
  /\ pc' = "allocated"
  /\ UNCHANGED <<logit, total, parts, pos, merged, best, bestId>>

\* The arena cannot grow: kOutOfMemory.
OutOfMemory ==
  /\ pc = "called"
  /\ pc' = "failed"
  /\ UNCHANGED <<logit, total, workers, parts, pos, bestLogits, bestIds, merged,
                 best, bestId>>

\* Another thread calls set_num_threads; the region holds control_m_.
Resize ==
  /\ pc \notin {"region", "returned", "failed"}
  /\ total' \in 1 .. MaxTotal /\ (Grows \/ total' < total)
  /\ UNCHANGED <<logit, pc, workers, parts, pos, bestLogits, bestIds, merged,
                 best, bestId>>

StartRegion ==
  /\ pc = "allocated"
  /\ parts' = Parts(Vocab, MinPerChunk, total)
  /\ pos' = [p \in Slices |-> IF p < parts' THEN ChunkBegin(Vocab, parts', p) ELSE 0]
  /\ pc' = "region"
  /\ UNCHANGED <<logit, total, workers, bestLogits, bestIds, merged, best, bestId>>

\* Is (v, id) to replace (b, bid)?  A NaN compares with nothing.
Wins_NoTie(v, id, b, bid) == v # NaN /\ v > b
Wins(v, id, b, bid) == v # NaN /\ (v > b \/ (v = b /\ id < bid))

\* Part p folds its next token into its slice.
Take(p) ==
  /\ pc = "region" /\ p < parts /\ pos[p] < End(p)
  /\ LET t == pos[p]
     IN IF Wins(logit[t], t, bestLogits[p], bestIds[p])
        THEN /\ bestLogits' = [bestLogits EXCEPT ![p] = logit[t]]
             /\ bestIds' = [bestIds EXCEPT ![p] = t]
        ELSE UNCHANGED <<bestLogits, bestIds>>
  /\ pos' = [pos EXCEPT ![p] = @ + 1]
  /\ UNCHANGED <<logit, total, pc, workers, parts, merged, best, bestId>>

EndRegion ==
  /\ pc = "region" /\ \A p \in PartIndices : pos[p] = End(p)
  /\ pc' = "merge"
  /\ UNCHANGED <<logit, total, workers, parts, pos, bestLogits, bestIds, merged,
                 best, bestId>>

\* The caller merges the next slice.
Merge ==
  /\ pc = "merge" /\ merged < workers
  /\ IF Wins(bestLogits[merged], bestIds[merged], best, bestId)
     THEN best' = bestLogits[merged] /\ bestId' = bestIds[merged]
     ELSE UNCHANGED <<best, bestId>>
  /\ merged' = merged + 1
  /\ UNCHANGED <<logit, total, pc, workers, parts, pos, bestLogits, bestIds>>

\* token_ids[row] = best_id.
Return ==
  /\ pc = "merge" /\ merged = workers
  /\ pc' = "returned"
  /\ UNCHANGED <<logit, total, workers, parts, pos, bestLogits, bestIds, merged,
                 best, bestId>>

Returned == pc \in {"returned", "failed"} /\ UNCHANGED vars

Next == \/ AllocateSlices \/ OutOfMemory \/ Resize \/ StartRegion
        \/ \E p \in Slices : Take(p)
        \/ EndRegion \/ Merge \/ Return \/ Returned

Spec == Init /\ [][Next]_vars
-----------------------------------------------------------------------------
(* Properties.                                                             *)

\* (b, id) is the greedy choice among the tokens of S for a row of logits: the
\* largest that is not NaN and the lowest token that has it; -inf and INT_MAX when
\* there is none.
IsGreedy(row, S, b, id) ==
  IF \E t \in S : row[t] # NaN
  THEN /\ id \in S /\ row[id] = b /\ b # NaN
       /\ \A t \in S : row[t] # NaN => row[t] < b \/ (row[t] = b /\ id <= t)
  ELSE b = NegInf /\ id = IntMax

\* However the vocabulary was cut and whatever the interleaving, the token is the
\* largest logit's, the lowest id among ties (qgemm.h:298 and :299, "Lowest id
\* wins ties"; threading.h:9, "bit-identical across thread counts").
GreedyToken == pc = "returned" => IsGreedy(logit, Tokens, best, bestId)

\* A part writes only a slice the kernel allocated.
SlicesInBounds == pc = "region" => parts <= workers
-----------------------------------------------------------------------------
(* The inductive invariant.                                                *)

\* The variables have their types, and parts stay inside their ranges.
TypeOK ==
  /\ logit \in [Tokens -> Logits]
  /\ total \in 1 .. MaxTotal
  /\ pc \in {"called", "allocated", "region", "merge", "returned", "failed"}
  /\ workers \in 0 .. MaxTotal /\ merged \in 0 .. workers
  /\ pc \in {"region", "merge", "returned"} =>
       /\ parts \in 1 .. MaxTotal /\ parts <= Vocab
       /\ \A p \in PartIndices : First(p) <= pos[p] /\ pos[p] <= End(p)
  /\ pos \in [Slices -> Nat]
  /\ bestLogits \in [Slices -> Int] /\ bestIds \in [Slices -> Int]
  /\ best \in Int /\ bestId \in Int

\* Unless the pool may grow, no more parts than slices.
IFits == /\ pc = "allocated" => total <= workers
         /\ pc \in {"region", "merge", "returned"} => parts <= workers

\* A slice is the greedy choice among the tokens its part has seen.
Seen(w) == IF w \in PartIndices THEN First(w) .. (pos[w] - 1) ELSE {}
ISlices ==
  /\ pc = "allocated" => \A w \in Slices : bestLogits[w] = NegInf /\ bestIds[w] = IntMax
  /\ pc \in {"region", "merge", "returned"} =>
       \A w \in Slices : IsGreedy(logit, Seen(w), bestLogits[w], bestIds[w])
  /\ pc \in {"merge", "returned"} => \A p \in PartIndices : pos[p] = End(p)

\* The result is the greedy choice among the tokens of the merged slices.
SeenBefore(m) == UNION {Seen(w) : w \in 0 .. (m - 1)}
IMerge ==
  /\ pc \in {"called", "allocated", "region"} =>
       merged = 0 /\ best = NegInf /\ bestId = IntMax
  /\ pc \in {"merge", "returned"} => IsGreedy(logit, SeenBefore(merged), best, bestId)
  /\ pc = "returned" => merged = workers

\* The inductive invariant, when the pool does not grow during the call.
IInv == TypeOK /\ IFits /\ ISlices /\ IMerge
=============================================================================
