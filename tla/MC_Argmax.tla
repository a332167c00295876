------------------------------- MODULE MC_Argmax -------------------------------
(***************************************************************************)
(* A call of one of the two greedy heads, q4_argmax or                     *)
(* base_q_lm_head_argmax.  q4_argmax: four tokens, logits -inf, 0, 1 and   *)
(* NaN, every row of them.  base_q_lm_head_argmax: five tokens in up to    *)
(* two chunks per thread, so that each size of the pool cuts the           *)
(* vocabulary differently.                                                 *)
(***************************************************************************)
EXTENDS Q4Argmax

CONSTANTS nan,                 \* the NaN of the instance
          BaseRows,            \* base_q_lm_head_argmax: the size of the vocabulary,
          BaseChunksPerThread, \*   chunks per thread,
          BaseMaxTotal,        \*   pool sizes
          BaseScores           \*   and what a score can be

ASSUME BaseAssumption ==
  /\ BaseRows \in Nat \ {0} /\ BaseChunksPerThread \in Nat \ {0}
  /\ BaseMaxTotal \in Nat \ {0}
  /\ BaseScores \ {NaN} \subseteq Int

VARIABLES kernel, score, build, baseTotal, basePc, threads, baseParts, basePos, partial,
          token

baseVars == <<score, build, baseTotal, basePc, threads, baseParts, basePos, partial, token>>

BaseQ == INSTANCE BaseQArgmax WITH
  Rows <- BaseRows, MaxTotal <- BaseMaxTotal, ChunksPerThread <- BaseChunksPerThread,
  Scores <- BaseScores,
  total <- baseTotal, pc <- basePc, parts <- baseParts, pos <- basePos

FourLogits == {0, 1, 2, nan}
NumberScores == {0, 1, 2}
NanScores == {0, 1, nan}

\* The kernel that is not called is about to be, with all its inputs the same.
CallInit ==
  /\ Init /\ BaseQ!Init
  /\ \/ /\ kernel = "q4_argmax"
        /\ build = "chunks" /\ baseTotal = 1 /\ score = [t \in BaseQ!Tokens |-> 0]
     \/ /\ kernel = "base_q_lm_head_argmax"
        /\ total = 1 /\ logit = [t \in Tokens |-> 0]

CallNext ==
  /\ UNCHANGED kernel
  /\ \/ kernel = "q4_argmax" /\ Next /\ UNCHANGED baseVars
     \/ kernel = "base_q_lm_head_argmax" /\ BaseQ!Next /\ UNCHANGED vars

CallSpec == CallInit /\ [][CallNext]_<<vars, kernel, baseVars>>

\* BaseQArgmax's inductive invariant, while its kernel is called.
BaseIInv == BaseQ!IInv

\* BaseQArgmax's: numeric scores give the lowest token with the largest (base_q.h:54).
BaseGreedyToken == BaseQ!GreedyToken

\* BaseQArgmax's: the token does not depend on the number of threads (threading.h:9).
BaseSameAcrossThreadCounts == BaseQ!SameAcrossThreadCounts
=============================================================================
