----------------------------- MODULE BaseQArgmax -----------------------------
(***************************************************************************)
(* base_q_lm_head_argmax (kernels/quantization/base_q_ref.cpp), for one    *)
(* row: the vocabulary is cut into four chunks per thread of the pool, a   *)
(* parallel region finds the winner of each chunk, and the caller takes    *)
(* the winner of winners.  Unlike q4_argmax the scratch is indexed by      *)
(* chunk, so a pool that changes size meanwhile does no harm; but what is  *)
(* compared with what depends on the number of threads.  The x86 build     *)
(* also has a route that materializes the scores and scans them once.      *)
(***************************************************************************)
EXTENDS ChunkPartition

CONSTANTS Rows,            \* tokens: 0 .. Rows - 1
          MaxTotal,        \* pool sizes: 1 .. MaxTotal
          ChunksPerThread, \* 4 in the code
          Scores,          \* the values a score can take, after rounding
          NaN              \* the one that compares with nothing

Tokens == 0 .. (Rows - 1)
Routes == {"chunks", "x86_four_bit"}

VARIABLES
  score,    \* score[t]: the score of token t
  build,    \* whether this call meets the x86 rule for four bits
  total,    \* the size of the pool
  pc,       \* where the calling thread is
  threads,  \* the size it read
  parts,    \* how many parts the region was cut into
  pos,      \* pos[p]: the next chunk of part p
  partial,  \* partial[c]: the winner of chunk c, -1 before there is one
  token     \* the token returned, -1 before

vars == <<score, build, total, pc, threads, parts, pos, partial, token>>

PartIndices == 0 .. (MaxTotal - 1)
ChunkCount(n) == IF Rows < n * ChunksPerThread THEN Rows ELSE n * ChunksPerThread
Chunks == ChunkCount(threads)

Beats_OrEquals(v, w) == v # NaN /\ w # NaN /\ v >= w
Beats(v, w) == v # NaN /\ w # NaN /\ v > w

\* Scanning the tokens candidates[0], candidates[1], ... the first one is the winner
\* until a later one beats it.
Winner(candidates, n) ==
  LET after[i \in 0 .. (n - 1)] ==
        IF i = 0 THEN candidates[0]
        ELSE IF Beats(score[candidates[i]], score[after[i - 1]]) THEN candidates[i]
             ELSE after[i - 1]
  IN after[n - 1]

\* project_argmax_chunk: the winner of chunk c when there are n chunks.  (Its defect:
\* the rows left over from the tiles, here of two rows, are forgotten.)
ChunkWinner_TilesOnly(n, c) ==
  LET begin == ChunkBegin(Rows, n, c)
      size == ChunkEnd(Rows, n, c) - begin
  IN Winner([i \in 0 .. (size - 1) |-> begin + i], IF size > 1 THEN size - (size % 2) ELSE 1)
ChunkWinner(n, c) ==
  LET begin == ChunkBegin(Rows, n, c)
      size == ChunkEnd(Rows, n, c) - begin
  IN Winner([i \in 0 .. (size - 1) |-> begin + i], size)

Init ==
  /\ score \in [Tokens -> Scores]
  /\ build \in Routes
  /\ total \in 1 .. MaxTotal
  /\ pc = "called"
  /\ threads = 0 /\ parts = 0
  /\ pos = [p \in PartIndices |-> 0]
  /\ partial = [c \in Tokens |-> -1]
  /\ token = -1

ReadThreads ==
  /\ pc = "called"
  /\ threads' = total
  /\ pc' = IF build = "x86_four_bit" /\ total > 1 THEN "materialize" ELSE "sized"
  /\ UNCHANGED <<score, build, total, parts, pos, partial, token>>

\* The score vector or the winners cannot be allocated.
OutOfMemory ==
  /\ pc \in {"materialize", "sized"}
  /\ pc' = "failed"
  /\ UNCHANGED <<score, build, total, threads, parts, pos, partial, token>>

\* The x86 route: base_q_gemm writes every score, and one loop scans them.
ScanAll ==
  /\ pc = "materialize"
  /\ token' = Winner([t \in Tokens |-> t], Rows)
  /\ pc' = "returned"
  /\ UNCHANGED <<score, build, total, threads, parts, pos, partial>>

\* Another thread calls set_num_threads; the region holds control_m_.
Resize ==
  /\ pc \in {"called", "sized", "materialize"}
  /\ total' \in (1 .. MaxTotal) \ {total}
  /\ UNCHANGED <<score, build, pc, threads, parts, pos, partial, token>>

StartRegion ==
  /\ pc = "sized"
  /\ parts' = Parts(Chunks, 1, total)
  /\ pos' = [p \in PartIndices |-> IF p < parts' THEN ChunkBegin(Chunks, parts', p)
                                                 ELSE 0]
  /\ pc' = "region"
  /\ UNCHANGED <<score, build, total, threads, partial, token>>

\* Part p finds the winner of its next chunk.
RunChunk(p) ==
  /\ pc = "region" /\ p < parts /\ pos[p] < ChunkEnd(Chunks, parts, p)
  /\ partial' = [partial EXCEPT ![pos[p]] = ChunkWinner(Chunks, pos[p])]
  /\ pos' = [pos EXCEPT ![p] = @ + 1]
  /\ UNCHANGED <<score, build, total, pc, threads, parts, token>>

\* The region is over; the caller scans the winners.  (Its defect: it forgets the last.)
ScanWinners_NotLast ==
  /\ pc = "region"
  /\ \A p \in PartIndices : p < parts => pos[p] = ChunkEnd(Chunks, parts, p)
  /\ token' = Winner(partial, Chunks - 1)
  /\ pc' = "returned"
  /\ UNCHANGED <<score, build, total, threads, parts, pos, partial>>
ScanWinners ==
  /\ pc = "region"
  /\ \A p \in PartIndices : p < parts => pos[p] = ChunkEnd(Chunks, parts, p)
  /\ token' = Winner(partial, Chunks)
  /\ pc' = "returned"
  /\ UNCHANGED <<score, build, total, threads, parts, pos, partial>>

Returned == pc \in {"returned", "failed"} /\ UNCHANGED vars

Next == \/ ReadThreads \/ OutOfMemory \/ ScanAll \/ Resize \/ StartRegion
        \/ \E p \in PartIndices : RunChunk(p)
        \/ ScanWinners \/ Returned

Spec == Init /\ [][Next]_vars
-----------------------------------------------------------------------------
(* Properties.                                                             *)

\* When the scores are numbers, the token is the lowest of those with the largest
\* score, however the vocabulary was cut (base_q.h:54, "Ties choose the lower token
\* id").
GreedyToken ==
  pc = "returned" /\ (\A t \in Tokens : score[t] # NaN) =>
    /\ token \in Tokens
    /\ \A t \in Tokens : score[t] < score[token]
                         \/ (score[t] = score[token] /\ token <= t)

\* The token a pool of one thread returns: the winner of ChunksPerThread chunks.
SingleThreadToken ==
  LET n == ChunkCount(1)
  IN Winner([c \in 0 .. (n - 1) |-> ChunkWinner(n, c)], n)

\* Whatever the scores, the token does not depend on the number of threads
\* (threading.h:9, "Kernel results are bit-identical across thread counts").
SameAcrossThreadCounts == pc = "returned" => token = SingleThreadToken
-----------------------------------------------------------------------------
(* The inductive invariant.                                                *)

\* The variables have their types, and parts stay inside their ranges of chunks.
TypeOK ==
  /\ score \in [Tokens -> Scores]
  /\ total \in 1 .. MaxTotal
  /\ pc \in {"called", "materialize", "sized", "region", "returned", "failed"}
  /\ pc # "called" => threads \in 1 .. MaxTotal
  /\ DOMAIN partial = Tokens /\ DOMAIN pos = PartIndices
  /\ pc = "region" =>
       /\ parts \in 1 .. MaxTotal /\ parts <= Chunks
       /\ \A p \in 0 .. (parts - 1) : /\ ChunkBegin(Chunks, parts, p) <= pos[p]
                                      /\ pos[p] <= ChunkEnd(Chunks, parts, p)
                                      /\ pos[p] \in Nat

\* The chunks a part has been through have their winners.
HasWinner(c) == partial[c] = ChunkWinner(Chunks, c)
IRegion ==
  pc = "region" =>
    \A p \in 0 .. (parts - 1) :
      \A c \in ChunkBegin(Chunks, parts, p) .. (pos[p] - 1) : HasWinner(c)

\* The token is the winner of the whole vocabulary or of the winners of all chunks.
IToken ==
  pc = "returned" =>
    \/ token = Winner([t \in Tokens |-> t], Rows)
    \/ /\ token = Winner(partial, Chunks)
       /\ \A c \in 0 .. (Chunks - 1) : HasWinner(c)

IInv == TypeOK /\ IRegion /\ IToken
=============================================================================
