---------------------------- MODULE ArgmaxProofs ----------------------------
(***************************************************************************)
(* The greedy heads find the greedy token for every vocabulary, row of     *)
(* scores, pool and interleaving.  q4_argmax: as long as nobody enlarges   *)
(* the pool between the allocation of the slices and the region.           *)
(* base_q_lm_head_argmax: for rows of numbers; its winners of chunks, and  *)
(* their winner, come from scans, and what a scan finds is shown by the    *)
(* least index at which it would not.                                      *)
(***************************************************************************)
EXTENDS MC_Argmax, ChunkPartitionProofs, TLAPS

\* A chunk lies in the vocabulary.
LEMMA ChunkInVocab ==
  ASSUME Q4ArgmaxAssumption, NEW n \in Nat \ {0}, NEW p \in 0 .. (n - 1)
  PROVE  /\ ChunkBegin(Vocab, n, p) \in Nat /\ ChunkEnd(Vocab, n, p) \in Nat
         /\ ChunkBegin(Vocab, n, p) <= ChunkEnd(Vocab, n, p)
         /\ ChunkEnd(Vocab, n, p) <= Vocab
<1>1. Vocab \in Nat
  BY DEF Q4ArgmaxAssumption
<1>2. /\ ChunkBegin(Vocab, n, p) \in Nat
      /\ ChunkBegin(Vocab, n, p) <= ChunkEnd(Vocab, n, p)
  BY <1>1, ChunksAdjacent
<1>3. ChunkEnd(Vocab, n, p) \in Nat
  <2>1. Base(Vocab, n) \in Nat
    BY <1>1, DivMod DEF Base
  <2>2. Vocab % n \in Nat
    BY <1>1, DivMod
  <2>3. ChunkEnd(Vocab, n, p) \in Int
    BY <1>1, <1>2, <2>1, <2>2 DEF ChunkEnd
  <2> QED BY <1>2, <2>3
<1>4. CASE p = n - 1
  BY <1>1, <1>2, <1>3, <1>4, ChunksAdjacent
<1>5. CASE p # n - 1
  <2>1. p < n - 1 /\ n - 1 \in 0 .. (n - 1)
    BY <1>5
  <2>2. /\ ChunkEnd(Vocab, n, p) <= ChunkBegin(Vocab, n, n - 1)
        /\ ChunkBegin(Vocab, n, n - 1) \in Nat
    BY <1>1, <2>1, ChunksOrdered
  <2>3. /\ ChunkBegin(Vocab, n, n - 1) <= ChunkEnd(Vocab, n, n - 1)
        /\ ChunkEnd(Vocab, n, n - 1) = Vocab
    BY <1>1, <2>1, ChunksAdjacent
  <2> QED BY <1>1, <1>2, <1>3, <2>2, <2>3
<1> QED BY <1>2, <1>3, <1>4, <1>5

-----------------------------------------------------------------------------
(* q4_argmax: folding.                                                     *)

\* A row of logits, the ids that can be chosen, and their bounds.
LEMMA RowFacts ==
  ASSUME Q4ArgmaxAssumption, NEW row \in [Tokens -> Logits], NEW t \in Tokens
  PROVE  /\ t \in Int /\ t < IntMax
         /\ row[t] # NaN => row[t] \in Int /\ NegInf <= row[t]
BY DEF Q4ArgmaxAssumption, Tokens

\* One more token.
LEMMA FoldToken ==
  ASSUME Q4ArgmaxAssumption, NEW row \in [Tokens -> Logits],
         NEW S \in SUBSET Tokens, NEW b \in Int, NEW id \in Int,
         NEW t \in Tokens, IsGreedy(row, S, b, id)
  PROVE  IF Wins(row[t], t, b, id) THEN IsGreedy(row, S \cup {t}, row[t], t)
                                   ELSE IsGreedy(row, S \cup {t}, b, id)
<1>1. \A u \in S \cup {t} : /\ u \in Int /\ u < IntMax
                            /\ row[u] # NaN => row[u] \in Int /\ NegInf <= row[u]
  BY RowFacts
<1>2. b # NaN /\ NegInf # NaN /\ NegInf \in Int /\ IntMax \in Int
  BY DEF Q4ArgmaxAssumption
<1>3. CASE row[t] = NaN
  BY <1>1, <1>2, <1>3 DEF IsGreedy, Wins
<1>4. CASE row[t] # NaN /\ ~ \E u \in S : row[u] # NaN
  BY <1>1, <1>2, <1>4 DEF IsGreedy, Wins
<1>5. CASE row[t] # NaN /\ \E u \in S : row[u] # NaN
  BY <1>1, <1>2, <1>5 DEF IsGreedy, Wins
<1> QED BY <1>3, <1>4, <1>5

\* The choices of two sets make the choice of their union.
LEMMA FoldSlice ==
  ASSUME Q4ArgmaxAssumption, NEW row \in [Tokens -> Logits],
         NEW S \in SUBSET Tokens, NEW b \in Int, NEW id \in Int,
         NEW T \in SUBSET Tokens, NEW c \in Int, NEW jd \in Int,
         IsGreedy(row, S, b, id), IsGreedy(row, T, c, jd)
  PROVE  IF Wins(c, jd, b, id) THEN IsGreedy(row, S \cup T, c, jd)
                               ELSE IsGreedy(row, S \cup T, b, id)
<1>1. \A u \in S \cup T : /\ u \in Int /\ u < IntMax
                          /\ row[u] # NaN => row[u] \in Int /\ NegInf <= row[u]
  BY RowFacts
<1>2. b # NaN /\ c # NaN /\ NegInf # NaN /\ NegInf \in Int /\ IntMax \in Int
  BY DEF Q4ArgmaxAssumption
<1>3. CASE ~ \E u \in T : row[u] # NaN
  <2>1. c = NegInf /\ jd = IntMax
    BY <1>3 DEF IsGreedy
  <2>2. ~Wins(c, jd, b, id)
    BY <1>1, <1>2, <2>1 DEF Wins, IsGreedy
  <2>3. IsGreedy(row, S \cup T, b, id)
    BY <1>3 DEF IsGreedy
  <2> QED BY <2>2, <2>3
<1>4. CASE (\E u \in T : row[u] # NaN) /\ ~ \E u \in S : row[u] # NaN
  <2>1. b = NegInf /\ id = IntMax /\ jd \in T /\ row[jd] = c
    BY <1>4 DEF IsGreedy
  <2>2. Wins(c, jd, b, id)
    BY <1>1, <1>2, <2>1 DEF Wins
  <2>3. IsGreedy(row, S \cup T, c, jd)
    BY <1>4 DEF IsGreedy
  <2> QED BY <2>2, <2>3
<1>5. CASE (\E u \in T : row[u] # NaN) /\ \E u \in S : row[u] # NaN
  <2>1. /\ id \in S /\ row[id] = b /\ jd \in T /\ row[jd] = c
        /\ \A t \in S : row[t] # NaN => row[t] < b \/ (row[t] = b /\ id <= t)
        /\ \A t \in T : row[t] # NaN => row[t] < c \/ (row[t] = c /\ jd <= t)
    BY <1>5 DEF IsGreedy
  <2>2. CASE Wins(c, jd, b, id)
    <3>1. c > b \/ (c = b /\ jd < id)
      BY <2>2 DEF Wins
    <3>2. \A t \in S \cup T : row[t] # NaN => row[t] < c \/ (row[t] = c /\ jd <= t)
      BY <1>1, <2>1, <3>1
    <3> QED BY <1>2, <1>5, <2>1, <2>2, <3>2 DEF IsGreedy
  <2>3. CASE ~Wins(c, jd, b, id)
    <3>1. c < b \/ (c = b /\ id <= jd)
      BY <1>2, <2>3 DEF Wins
    <3>2. \A t \in S \cup T : row[t] # NaN => row[t] < b \/ (row[t] = b /\ id <= t)
      BY <1>1, <2>1, <3>1
    <3> QED BY <1>2, <1>5, <2>1, <2>3, <3>2 DEF IsGreedy
  <2> QED BY <2>2, <2>3
<1> QED BY <1>3, <1>4, <1>5

-----------------------------------------------------------------------------
(* q4_argmax: the invariant.                                               *)

\* In the region and after it, the tokens a slice has seen are tokens.
LEMMA SeenTokens ==
  ASSUME Q4ArgmaxAssumption, TypeOK, pc \in {"region", "merge", "returned"}
  PROVE  /\ \A p \in PartIndices :
              /\ First(p) \in Nat /\ End(p) \in Nat /\ pos[p] \in Nat
              /\ First(p) <= pos[p] /\ pos[p] <= End(p) /\ End(p) <= Vocab
         /\ \A w : Seen(w) \in SUBSET Tokens
         /\ \A m : SeenBefore(m) \in SUBSET Tokens
<1>1. parts \in Nat \ {0} /\ MaxTotal \in Nat /\ Vocab \in Nat /\ parts <= MaxTotal
  BY DEF TypeOK, Q4ArgmaxAssumption
<1>2. \A p \in PartIndices :
        /\ First(p) \in Nat /\ End(p) \in Nat /\ pos[p] \in Nat
        /\ First(p) <= pos[p] /\ pos[p] <= End(p) /\ End(p) <= Vocab
  <2> SUFFICES ASSUME NEW p \in PartIndices
               PROVE  /\ First(p) \in Nat /\ End(p) \in Nat /\ pos[p] \in Nat
                      /\ First(p) <= pos[p] /\ pos[p] <= End(p) /\ End(p) <= Vocab
    OBVIOUS
  <2>1. First(p) \in Nat /\ End(p) \in Nat /\ End(p) <= Vocab
    BY <1>1, ChunkInVocab DEF First, End, PartIndices
  <2>2. pos[p] \in Nat
    BY <1>1 DEF TypeOK, PartIndices, Slices
  <2> QED BY <2>1, <2>2 DEF TypeOK
<1>3. \A w : Seen(w) \in SUBSET Tokens
  BY <1>1, <1>2 DEF Seen, Tokens
<1>4. \A m : SeenBefore(m) \in SUBSET Tokens
  BY <1>3 DEF SeenBefore
<1> QED BY <1>2, <1>3, <1>4

\* The invariant holds at the start.
LEMMA ArgmaxInit == Q4ArgmaxAssumption /\ Init => IInv
<1> SUFFICES ASSUME Q4ArgmaxAssumption, Init PROVE IInv
  OBVIOUS
<1>1. TypeOK
  BY DEF Q4ArgmaxAssumption, Init, TypeOK
<1>2. IFits /\ ISlices /\ IMerge
  BY DEF Init, IFits, ISlices, IMerge
<1> QED BY <1>1, <1>2 DEF IInv

\* Every step preserves it, unless the pool may grow.
LEMMA ArgmaxStep ==
  Q4ArgmaxAssumption /\ Grows = FALSE /\ IInv /\ [Next]_vars => IInv'
<1> SUFFICES ASSUME Q4ArgmaxAssumption, Grows = FALSE, IInv, [Next]_vars PROVE IInv'
  OBVIOUS
<1> USE DEF IInv
<1>0. /\ MaxTotal \in Nat \ {0} /\ Vocab \in Nat \ {0} /\ NegInf \in Int
      /\ IntMax \in Int /\ MinPerChunk \in Int /\ NaN \notin Int
  BY DEF Q4ArgmaxAssumption
<1>1. CASE AllocateSlices
  <2> USE <1>1 DEF AllocateSlices, SlicesFor
  <2>1. TypeOK'
    <3>1. workers' \in 0 .. MaxTotal /\ merged' = 0
      BY <1>0 DEF TypeOK, IMerge
    <3> QED BY <1>0, <3>1 DEF TypeOK
  <2>2. IFits'
    BY <1>0 DEF TypeOK, IFits
  <2>3. ISlices' /\ IMerge'
    BY DEF ISlices, IMerge
  <2> QED BY <2>1, <2>2, <2>3
<1>2. CASE OutOfMemory
  <2>1. TypeOK'
    BY <1>2 DEF OutOfMemory, TypeOK
  <2>2. IFits' /\ ISlices' /\ IMerge'
    BY <1>2 DEF OutOfMemory, IFits, ISlices, IMerge
  <2> QED BY <2>1, <2>2
<1>3. CASE Resize
  <2> USE <1>3 DEF Resize
  <2>1. TypeOK'
    BY DEF TypeOK, PartIndices, First, End
  <2>2. IFits'
    BY <1>0 DEF TypeOK, IFits
  <2>3. ISlices' /\ IMerge'
    BY DEF ISlices, IMerge, Seen, SeenBefore, PartIndices, First, End
  <2> QED BY <2>1, <2>2, <2>3
<1>4. CASE StartRegion
  <2> USE <1>4 DEF StartRegion
  <2>1. /\ parts' \in 1 .. total /\ parts' <= Vocab /\ parts' \in Nat \ {0}
        /\ parts' \in 1 .. MaxTotal /\ parts' <= workers /\ total \in Nat
    BY <1>0, PartsBounds, SMTT(30) DEF TypeOK, IFits
  <2>2. \A p \in 0 .. (parts' - 1) :
          /\ p \in Slices /\ pos'[p] = ChunkBegin(Vocab, parts', p)
          /\ ChunkBegin(Vocab, parts', p) \in Nat
          /\ ChunkBegin(Vocab, parts', p) <= ChunkEnd(Vocab, parts', p)
    <3>1. \A p \in 0 .. (parts' - 1) : p \in Slices /\ p < parts'
      BY <1>0, <2>1 DEF Slices
    <3>2. \A p \in 0 .. (parts' - 1) :
            /\ ChunkBegin(Vocab, parts', p) \in Nat
            /\ ChunkBegin(Vocab, parts', p) <= ChunkEnd(Vocab, parts', p)
      BY <1>0, <2>1, ChunkInVocab
    <3> QED BY <3>1, <3>2
  <2>3. pos' \in [Slices -> Nat]
    <3>1. \A w \in Slices : w < parts' => w \in 0 .. (parts' - 1)
      BY <1>0, <2>1 DEF Slices
    <3>2. \A w \in Slices : w < parts' => ChunkBegin(Vocab, parts', w) \in Nat
      BY <2>2, <3>1
    <3> QED BY <3>2
  <2>4. TypeOK'
    <3>1. \A p \in PartIndices' : First(p)' <= pos'[p] /\ pos'[p] <= End(p)'
      BY <2>2 DEF PartIndices, First, End
    <3> QED BY <2>1, <2>3, <3>1 DEF TypeOK
  <2>5. IFits'
    BY <2>1 DEF IFits
  <2>6. ISlices'
    <3>1. \A w \in Slices : Seen(w)' = {}
      BY <2>2 DEF Seen, PartIndices, First
    <3>2. \A w \in Slices : bestLogits'[w] = NegInf /\ bestIds'[w] = IntMax
      BY DEF ISlices
    <3> QED BY <3>1, <3>2 DEF ISlices, IsGreedy
  <2>7. IMerge'
    BY DEF IMerge
  <2> QED BY <2>4, <2>5, <2>6, <2>7
<1>5. CASE \E p \in Slices : Take(p)
  <2> PICK p \in Slices : Take(p)
    BY <1>5
  <2> USE DEF Take
  <2>1. /\ p \in PartIndices /\ parts \in Nat \ {0} /\ pos[p] \in Nat
        /\ \A q \in PartIndices : q \in Slices
    <3>1. parts \in 1 .. MaxTotal /\ pos[p] \in Nat
      BY DEF TypeOK
    <3> QED BY <1>0, <3>1 DEF PartIndices, Slices
  <2>2. /\ \A q \in PartIndices :
             /\ First(q) \in Nat /\ End(q) \in Nat /\ pos[q] \in Nat
             /\ First(q) <= pos[q] /\ pos[q] <= End(q) /\ End(q) <= Vocab
        /\ \A w : Seen(w) \in SUBSET Tokens
    BY SeenTokens
  <2>3. pos[p] \in Tokens
    BY <1>0, <2>1, <2>2 DEF Tokens
  <2>4. /\ \A w \in Slices : pos'[w] = IF w = p THEN pos[w] + 1 ELSE pos[w]
        /\ pos' \in [Slices -> Nat]
    BY DEF TypeOK
  <2>5. Seen(p)' = Seen(p) \cup {pos[p]} /\ \A w \in Slices : w # p => Seen(w)' = Seen(w)
    BY <2>1, <2>2, <2>4 DEF Seen, PartIndices, First
  <2>6. logit \in [Tokens -> Logits] /\ bestLogits[p] \in Int /\ bestIds[p] \in Int
    BY DEF TypeOK
  <2>7. IsGreedy(logit, Seen(p), bestLogits[p], bestIds[p])
    BY DEF ISlices
  <2>8. logit[pos[p]] # NaN => logit[pos[p]] \in Int
    BY <2>3, <2>6, RowFacts
  <2>9. /\ bestLogits' \in [Slices -> Int] /\ bestIds' \in [Slices -> Int]
        /\ \A w \in Slices : w # p => /\ bestLogits'[w] = bestLogits[w]
                                      /\ bestIds'[w] = bestIds[w]
        /\ IsGreedy(logit, Seen(p)', bestLogits'[p], bestIds'[p])
    <3>1. CASE Wins(logit[pos[p]], pos[p], bestLogits[p], bestIds[p])
      <4>1. /\ bestLogits' = [bestLogits EXCEPT ![p] = logit[pos[p]]]
            /\ bestIds' = [bestIds EXCEPT ![p] = pos[p]]
        BY <3>1
      <4>2. logit[pos[p]] \in Int
        BY <2>8, <3>1 DEF Wins
      <4>3. IsGreedy(logit, Seen(p) \cup {pos[p]}, logit[pos[p]], pos[p])
        BY <2>2, <2>3, <2>6, <2>7, <3>1, FoldToken
      <4> QED BY <2>1, <2>5, <4>1, <4>2, <4>3 DEF TypeOK
    <3>2. CASE ~Wins(logit[pos[p]], pos[p], bestLogits[p], bestIds[p])
      <4>1. bestLogits' = bestLogits /\ bestIds' = bestIds
        BY <3>2
      <4>2. IsGreedy(logit, Seen(p) \cup {pos[p]}, bestLogits[p], bestIds[p])
        BY <2>2, <2>3, <2>6, <2>7, <3>2, FoldToken
      <4> QED BY <2>5, <4>1, <4>2 DEF TypeOK
    <3> QED BY <3>1, <3>2
  <2>10. TypeOK'
    <3>1. \A q \in PartIndices : First(q) <= pos'[q] /\ pos'[q] <= End(q)
      BY <2>1, <2>2, <2>4
    <3>2. \A q \in PartIndices' : First(q)' <= pos'[q] /\ pos'[q] <= End(q)'
      BY <3>1 DEF PartIndices, First, End
    <3> QED BY <2>4, <2>9, <3>2 DEF TypeOK
  <2>11. IFits' /\ IMerge'
    BY DEF IFits, IMerge
  <2>12. ISlices'
    <3>1. \A w \in Slices : IsGreedy(logit', Seen(w)', bestLogits'[w], bestIds'[w])
      BY <2>5, <2>9 DEF ISlices
    <3> QED BY <3>1 DEF ISlices
  <2> QED BY <2>10, <2>11, <2>12
<1>6. CASE EndRegion
  <2> USE <1>6 DEF EndRegion
  <2>1. TypeOK'
    BY DEF TypeOK, PartIndices, First, End
  <2>2. IFits'
    BY DEF IFits
  <2>3. ISlices'
    BY DEF ISlices, Seen, PartIndices, First, End
  <2>4. IMerge'
    <3>1. merged' = 0 /\ best' = NegInf /\ bestId' = IntMax
      BY DEF IMerge
    <3>2. SeenBefore(merged)' = {}
      BY <3>1 DEF SeenBefore
    <3> QED BY <3>1, <3>2 DEF IMerge, IsGreedy
  <2> QED BY <2>1, <2>2, <2>3, <2>4
<1>7. CASE Merge
  <2> USE <1>7 DEF Merge
  <2>1. merged \in Slices /\ merged \in Nat /\ merged + 1 \in 0 .. workers
    BY <1>0 DEF TypeOK, Slices
  <2>2. \A w : Seen(w) \in SUBSET Tokens
    BY SeenTokens
  <2>3. \A m : SeenBefore(m) \in SUBSET Tokens
    BY SeenTokens
  <2>4. /\ logit \in [Tokens -> Logits] /\ best \in Int /\ bestId \in Int
        /\ bestLogits[merged] \in Int /\ bestIds[merged] \in Int
    BY <2>1 DEF TypeOK
  <2>5. /\ IsGreedy(logit, SeenBefore(merged), best, bestId)
        /\ IsGreedy(logit, Seen(merged), bestLogits[merged], bestIds[merged])
    BY <2>1 DEF IMerge, ISlices
  <2>6. SeenBefore(merged + 1) = SeenBefore(merged) \cup Seen(merged)
    <3>1. 0 .. (merged + 1 - 1) = (0 .. (merged - 1)) \cup {merged}
      BY <2>1
    <3> QED BY <3>1 DEF SeenBefore
  <2>7. IF Wins(bestLogits[merged], bestIds[merged], best, bestId)
        THEN IsGreedy(logit, SeenBefore(merged + 1), bestLogits[merged], bestIds[merged])
        ELSE IsGreedy(logit, SeenBefore(merged + 1), best, bestId)
    <3>1. Seen(merged) \in SUBSET Tokens /\ SeenBefore(merged) \in SUBSET Tokens
      BY <2>2, <2>3
    <3> HIDE <1>7 DEF Merge
    <3>2. IF Wins(bestLogits[merged], bestIds[merged], best, bestId)
          THEN IsGreedy(logit, SeenBefore(merged) \cup Seen(merged),
                        bestLogits[merged], bestIds[merged])
          ELSE IsGreedy(logit, SeenBefore(merged) \cup Seen(merged), best, bestId)
      BY <2>4, <2>5, <3>1, FoldSlice
    <3> QED BY <2>6, <3>2
  <2>8. IsGreedy(logit, SeenBefore(merged + 1), best', bestId')
    BY <2>7
  <2>9. SeenBefore(merged)' = SeenBefore(merged + 1)
    BY DEF SeenBefore, Seen, PartIndices, First
  <2>10. TypeOK'
    <3>1. best' \in Int /\ bestId' \in Int
      BY <2>4
    <3> QED BY <2>1, <3>1 DEF TypeOK, PartIndices, First, End
  <2>11. IFits'
    BY DEF IFits
  <2>12. ISlices'
    BY DEF ISlices, Seen, PartIndices, First, End
  <2>13. IMerge'
    BY <2>8, <2>9 DEF IMerge
  <2> QED BY <2>10, <2>11, <2>12, <2>13
<1>8. CASE Return
  <2> USE <1>8 DEF Return
  <2>1. TypeOK'
    BY DEF TypeOK, PartIndices, First, End
  <2>2. IFits'
    BY DEF IFits
  <2>3. ISlices' /\ IMerge'
    BY DEF ISlices, IMerge, SeenBefore, Seen, PartIndices, First, End
  <2> QED BY <2>1, <2>2, <2>3
<1>9. CASE Returned \/ UNCHANGED vars
  <2>1. UNCHANGED vars
    BY <1>9 DEF Returned
  <2>2. TypeOK'
    BY <2>1 DEF vars, TypeOK, PartIndices, First, End
  <2>3. IFits' /\ ISlices' /\ IMerge'
    BY <2>1 DEF vars, IFits, ISlices, IMerge, SeenBefore, Seen, PartIndices, First, End
  <2> QED BY <2>2, <2>3
<1> QED BY <1>1, <1>2, <1>3, <1>4, <1>5, <1>6, <1>7, <1>8, <1>9 DEF Next

\* When the kernel returns, its slices have seen the whole vocabulary.
LEMMA AllSeen ==
  ASSUME Q4ArgmaxAssumption, IInv, pc = "returned"
  PROVE  SeenBefore(merged) = Tokens
<1>1. /\ parts \in Nat \ {0} /\ parts <= workers /\ merged = workers
      /\ workers \in Nat /\ Vocab \in Nat
  BY DEF IInv, TypeOK, IFits, IMerge, Q4ArgmaxAssumption
<1>2. SeenBefore(merged) \subseteq Tokens
  BY SeenTokens DEF IInv
<1>3. ASSUME NEW t \in Tokens PROVE t \in SeenBefore(merged)
  <2>1. PICK p \in 0 .. (parts - 1) : t \in Chunk(Vocab, parts, p)
    BY <1>1, ChunksCover DEF Tokens
  <2>2. p \in PartIndices /\ pos[p] = End(p)
    BY DEF PartIndices, IInv, ISlices
  <2>3. t \in Seen(p)
    BY <2>1, <2>2 DEF Seen, Chunk, First, End
  <2>4. p \in 0 .. (merged - 1)
    BY <1>1
  <2> QED BY <2>3, <2>4 DEF SeenBefore
<1> QED BY <1>2, <1>3

-----------------------------------------------------------------------------
(* Theorems about q4_argmax.                                               *)

\* The inductive invariant holds in every reachable state.
THEOREM ArgmaxInvariant ==
  ASSUME Q4ArgmaxAssumption, Grows = FALSE
  PROVE  Spec => []IInv
<1>1. Init => IInv
  BY ArgmaxInit
<1>2. IInv /\ [Next]_vars => IInv'
  BY ArgmaxStep
<1> QED BY <1>1, <1>2, PTL DEF Spec

\* A part never writes a slice the kernel did not allocate.
THEOREM ArgmaxSlicesInBounds ==
  ASSUME Q4ArgmaxAssumption, Grows = FALSE
  PROVE  Spec => []SlicesInBounds
<1>1. IInv => SlicesInBounds
  BY DEF IInv, IFits, SlicesInBounds
<1> QED BY <1>1, ArgmaxInvariant, PTL

\* The token is the greedy one, whatever the number of threads.
THEOREM ArgmaxGreedyToken ==
  ASSUME Q4ArgmaxAssumption, Grows = FALSE
  PROVE  Spec => []GreedyToken
<1>1. IInv => GreedyToken
  BY AllSeen DEF IInv, IMerge, GreedyToken
<1> QED BY <1>1, ArgmaxInvariant, PTL

-----------------------------------------------------------------------------
(* base_q_lm_head_argmax: a scan.                                          *)

\* Candidate j is the first of the best among candidates 0 .. i.
IsFirstBest(cand, j, i) ==
  /\ j \in 0 .. i
  /\ \A k \in 0 .. i : score[cand[k]] < score[cand[j]]
                       \/ (score[cand[k]] = score[cand[j]] /\ j <= k)

\* The first n candidates have numbers for scores.
NumbersAt(cand, n) == \A i \in 0 .. (n - 1) : score[cand[i]] \in Int

\* One more candidate.
LEMMA FirstBestStep ==
  ASSUME NEW n \in Nat, NEW cand, NumbersAt(cand, n), NEW i \in 0 .. (n - 1), i # 0,
         NEW j, IsFirstBest(cand, j, i - 1)
  PROVE  IF score[cand[i]] > score[cand[j]] THEN IsFirstBest(cand, i, i)
                                            ELSE IsFirstBest(cand, j, i)
<1>1. \A k \in 0 .. i : k \in Nat /\ score[cand[k]] \in Int
  BY DEF NumbersAt
<1>2. \A k \in 0 .. i : k = i \/ k \in 0 .. (i - 1)
  OBVIOUS
<1>3. j \in 0 .. i /\ j \in Nat /\ j < i /\ i \in Nat
  BY DEF IsFirstBest
<1>4. CASE score[cand[i]] > score[cand[j]]
  BY <1>1, <1>2, <1>3, <1>4 DEF IsFirstBest
<1>5. CASE ~(score[cand[i]] > score[cand[j]])
  BY <1>1, <1>2, <1>3, <1>5 DEF IsFirstBest
<1> QED BY <1>4, <1>5

\* Every row of candidates has a first best.
LEMMA FirstBestExists ==
  ASSUME NEW n \in Nat, NEW cand, NumbersAt(cand, n)
  PROVE  \A i \in 0 .. (n - 1) : \E j : IsFirstBest(cand, j, i)
<1> DEFINE T == {i \in 0 .. (n - 1) : ~ \E j : IsFirstBest(cand, j, i)}
<1>1. SUFFICES ASSUME T # {} PROVE FALSE
  OBVIOUS
<1>2. PICK i \in T : \A y \in T : i <= y
  <2>1. T \in SUBSET Nat
    OBVIOUS
  <2> HIDE DEF T
  <2> QED BY <1>1, <2>1, LeastNatural
<1>3. i \in 0 .. (n - 1) /\ i \in Nat
  OBVIOUS
<1>4. CASE i = 0
  BY <1>4 DEF IsFirstBest, NumbersAt
<1>5. CASE i # 0
  <2>1. i - 1 \in 0 .. (n - 1) /\ ~(i <= i - 1)
    BY <1>3, <1>5
  <2>2. \E j : IsFirstBest(cand, j, i - 1)
    BY <1>2, <2>1
  <2> QED BY <1>3, <1>5, <2>2, FirstBestStep
<1> QED BY <1>4, <1>5

\* There is only one.
LEMMA FirstBestUnique ==
  ASSUME NEW n \in Nat, NEW cand, NumbersAt(cand, n), NEW i \in 0 .. (n - 1),
         NEW j, NEW k, IsFirstBest(cand, j, i), IsFirstBest(cand, k, i)
  PROVE  j = k
<1>1. \A l \in 0 .. i : l \in Nat /\ score[cand[l]] \in Int
  BY DEF NumbersAt
<1> QED BY <1>1 DEF IsFirstBest

\* The winner of numeric scores is the first of the best.
LEMMA WinnerIsFirstBest ==
  ASSUME NEW n \in Nat \ {0}, NEW cand, NumbersAt(cand, n), NaN \notin Int
  PROVE  \E j : IsFirstBest(cand, j, n - 1) /\ BaseQ!Winner(cand, n) = cand[j]
<1> DEFINE D == 0 .. (n - 1)
           J(i) == CHOOSE j : IsFirstBest(cand, j, i)
           G(f, i) == IF i = 0 THEN cand[0]
                      ELSE IF BaseQ!Beats(score[cand[i]], score[f[i - 1]]) THEN cand[i]
                           ELSE f[i - 1]
           F == [i \in D |-> cand[J(i)]]
           w == CHOOSE f : f = [i \in D |-> G(f, i)]
<1>1. \A i \in D : IsFirstBest(cand, J(i), i)
  BY FirstBestExists
<1>2. \A i \in D : F[i] = G(F, i)
  <2> SUFFICES ASSUME NEW i \in D PROVE F[i] = G(F, i)
    OBVIOUS
  <2> HIDE DEF J
  <2>1. CASE i = 0
    BY <1>1, <2>1 DEF IsFirstBest
  <2>2. CASE i # 0
    <3>1. i - 1 \in D /\ F[i - 1] = cand[J(i - 1)] /\ F[i] = cand[J(i)]
      BY <2>2
    <3>2. IsFirstBest(cand, J(i - 1), i - 1) /\ IsFirstBest(cand, J(i), i)
      BY <1>1, <3>1
    <3>3. J(i - 1) \in D
      BY <3>1, <3>2 DEF IsFirstBest
    <3>4. score[cand[i]] \in Int /\ score[cand[J(i - 1)]] \in Int
      BY <3>3 DEF NumbersAt
    <3>5. J(i) = IF score[cand[i]] > score[cand[J(i - 1)]] THEN i ELSE J(i - 1)
      BY <2>2, <3>2, FirstBestStep, FirstBestUnique
    <3>6. BaseQ!Beats(score[cand[i]], score[F[i - 1]])
            <=> score[cand[i]] > score[cand[J(i - 1)]]
      BY <3>1, <3>4 DEF BaseQ!Beats
    <3> HIDE DEF F
    <3> QED BY <2>2, <3>1, <3>5, <3>6
  <2> QED BY <2>1, <2>2
<1>3. F = [i \in D |-> G(F, i)]
  <2>1. F = [i \in D |-> F[i]]
    OBVIOUS
  <2> HIDE DEF F, G, D
  <2> QED BY <1>2, <2>1
<1>4. w = [i \in D |-> G(w, i)]
  <2> HIDE DEF F, G, D
  <2> QED BY <1>3
<1>5. BaseQ!Winner(cand, n) = w[n - 1]
  BY DEF BaseQ!Winner
<1> HIDE DEF w, J, F
<1> DEFINE P(i) == \E j : IsFirstBest(cand, j, i) /\ w[i] = cand[j]
           T == {i \in D : ~P(i)}
<1>6. T = {}
  <2> SUFFICES ASSUME T # {} PROVE FALSE
    OBVIOUS
  <2>1. PICK i \in T : \A y \in T : i <= y
    <3>1. T \in SUBSET Nat
      OBVIOUS
    <3> HIDE DEF T
    <3> QED BY <3>1, LeastNatural
  <2>2. i \in D /\ i \in Nat /\ w[i] = G(w, i)
    <3>1. i \in D
      OBVIOUS
    <3> HIDE DEF G, T
    <3> QED BY <1>4, <3>1
  <2>3. CASE i = 0
    <3>1. IsFirstBest(cand, 0, 0)
      BY <2>2, <2>3 DEF IsFirstBest, NumbersAt
    <3> QED BY <2>2, <2>3, <3>1
  <2>4. CASE i # 0
    <3>1. i - 1 \in D /\ ~(i <= i - 1)
      BY <2>2, <2>4
    <3>2. PICK j : IsFirstBest(cand, j, i - 1) /\ w[i - 1] = cand[j]
      BY <2>1, <3>1
    <3>3. j \in D
      BY <3>1, <3>2 DEF IsFirstBest
    <3>4. score[cand[i]] \in Int /\ score[cand[j]] \in Int
      BY <2>2, <3>3 DEF NumbersAt
    <3>5. IF score[cand[i]] > score[cand[j]] THEN IsFirstBest(cand, i, i)
                                             ELSE IsFirstBest(cand, j, i)
      BY <2>2, <2>4, <3>2, FirstBestStep
    <3>6. w[i] = IF score[cand[i]] > score[cand[j]] THEN cand[i] ELSE cand[j]
      BY <2>2, <2>4, <3>2, <3>4 DEF BaseQ!Beats
    <3> QED BY <2>1, <3>5, <3>6
  <2> QED BY <2>3, <2>4
<1>7. n - 1 \in D
  OBVIOUS
<1> QED BY <1>5, <1>6, <1>7

-----------------------------------------------------------------------------
(* The winners of the chunks, and the winner of winners.                   *)

\* The scores of the row are numbers.
NumericRow == /\ score \in [BaseQ!Tokens -> BaseScores]
              /\ \A t \in BaseQ!Tokens : score[t] # NaN

\* Token w is the lowest of those of S with the largest score.
IsBestOf(S, w) ==
  /\ w \in S
  /\ \A t \in S : score[t] < score[w] \/ (score[t] = score[w] /\ w <= t)

\* BaseQArgmax cuts as the pool does.
LEMMA SameCut ==
  ASSUME NEW count, NEW n, NEW i
  PROVE  /\ BaseQ!ChunkBegin(count, n, i) = ChunkBegin(count, n, i)
         /\ BaseQ!ChunkEnd(count, n, i) = ChunkEnd(count, n, i)
BY DEF BaseQ!ChunkBegin, BaseQ!ChunkEnd, ChunkBegin, ChunkEnd, BaseQ!Base, Base,
       BaseQ!Rem, Rem

\* The bounds of chunk c of n.
LEMMA CutBounds ==
  ASSUME NEW count \in Nat \ {0}, NEW n \in 1 .. count, NEW c \in 0 .. (n - 1)
  PROVE  /\ BaseQ!ChunkBegin(count, n, c) \in Nat
         /\ BaseQ!ChunkEnd(count, n, c) \in Nat
         /\ BaseQ!ChunkBegin(count, n, c) < BaseQ!ChunkEnd(count, n, c)
         /\ BaseQ!ChunkEnd(count, n, c) <= count
<1> DEFINE b == ChunkBegin(count, n, c)
           e == ChunkEnd(count, n, c)
<1>1. n \in Nat \ {0} /\ n <= count
  OBVIOUS
<1>2. b \in Nat /\ b <= e
  BY <1>1, ChunksAdjacent
<1>3. e \in Int
  <2>1. Base(count, n) \in Nat /\ Rem(count, n) \in Nat
    BY <1>1, DivMod DEF Base, Rem
  <2> QED BY <1>2, <2>1 DEF ChunkEnd
<1>4. Chunk(count, n, c) # {} /\ Chunk(count, n, c) \subseteq 0 .. (count - 1)
  BY <1>1, ChunksNotEmpty, ChunksCover
<1>5. b .. (e - 1) # {} /\ b .. (e - 1) \subseteq 0 .. (count - 1)
  BY <1>4 DEF Chunk
<1> HIDE DEF b, e
<1>6. b <= e - 1
  BY <1>2, <1>3, <1>5
<1>7. e - 1 \in b .. (e - 1)
  BY <1>2, <1>3, <1>6
<1>8. e - 1 \in 0 .. (count - 1)
  BY <1>5, <1>7
<1>9. e \in Nat /\ b < e /\ e <= count
  BY <1>2, <1>3, <1>6, <1>8
<1> QED BY <1>2, <1>9, SameCut DEF b, e

\* The winner of a chunk is its best token.
LEMMA ChunkWinnerIsBest ==
  ASSUME BaseAssumption, NaN \notin Int, NumericRow,
         NEW n \in 1 .. BaseRows, NEW c \in 0 .. (n - 1)
  PROVE  IsBestOf(BaseQ!ChunkBegin(BaseRows, n, c)
                    .. (BaseQ!ChunkEnd(BaseRows, n, c) - 1),
                  BaseQ!ChunkWinner(n, c))
<1> DEFINE b == BaseQ!ChunkBegin(BaseRows, n, c)
           e == BaseQ!ChunkEnd(BaseRows, n, c)
           cand == [i \in 0 .. (e - b - 1) |-> b + i]
<1>1. b \in Nat /\ e \in Nat /\ b < e /\ e <= BaseRows /\ BaseRows \in Nat
  BY CutBounds DEF BaseAssumption
<1>2. BaseQ!ChunkWinner(n, c) = BaseQ!Winner(cand, e - b)
  BY DEF BaseQ!ChunkWinner
<1> HIDE DEF b, e
<1>3. \A t \in b .. (e - 1) : t \in BaseQ!Tokens
  BY <1>1 DEF BaseQ!Tokens
<1>4. \A t \in b .. (e - 1) : score[t] \in Int
  BY <1>3 DEF NumericRow, BaseAssumption
<1>5. e - b \in Nat \ {0}
  BY <1>1
<1>6. \A i \in 0 .. (e - b - 1) : cand[i] = b + i /\ b + i \in b .. (e - 1)
  BY <1>1
<1>7. NumbersAt(cand, e - b)
  BY <1>4, <1>6 DEF NumbersAt
<1> HIDE DEF cand
<1>8. PICK j : /\ IsFirstBest(cand, j, e - b - 1)
               /\ BaseQ!Winner(cand, e - b) = cand[j]
  BY <1>5, <1>7, WinnerIsFirstBest
<1>9. j \in 0 .. (e - b - 1)
  BY <1>8 DEF IsFirstBest
<1>10. cand[j] = b + j /\ b + j \in b .. (e - 1)
  BY <1>6, <1>9
<1>11. ASSUME NEW t \in b .. (e - 1)
       PROVE  score[t] < score[b + j] \/ (score[t] = score[b + j] /\ b + j <= t)
  <2>1. t - b \in 0 .. (e - b - 1) /\ b + (t - b) = t
    BY <1>1
  <2>2. cand[t - b] = t
    BY <1>6, <2>1
  <2>3. score[t] < score[b + j] \/ (score[t] = score[b + j] /\ j <= t - b)
    BY <1>8, <1>10, <2>1, <2>2 DEF IsFirstBest
  <2> QED BY <1>1, <1>9, <2>3
<1>12. IsBestOf(b .. (e - 1), b + j)
  BY <1>10, <1>11 DEF IsBestOf
<1> QED BY <1>2, <1>8, <1>10, <1>12 DEF b, e

\* The winner of the winners of all chunks is the best token.
LEMMA WinnerOfWinnersIsBest ==
  ASSUME BaseAssumption, NaN \notin Int, NumericRow, NEW n \in 1 .. BaseRows,
         NEW cand, \A c \in 0 .. (n - 1) : cand[c] = BaseQ!ChunkWinner(n, c)
  PROVE  IsBestOf(BaseQ!Tokens, BaseQ!Winner(cand, n))
<1> DEFINE b(c) == BaseQ!ChunkBegin(BaseRows, n, c)
           e(c) == BaseQ!ChunkEnd(BaseRows, n, c)
           w == BaseQ!Winner(cand, n)
<1>1. BaseRows \in Nat \ {0} /\ n \in Nat \ {0} /\ n <= BaseRows
  BY DEF BaseAssumption
<1>2. \A c \in 0 .. (n - 1) : /\ b(c) \in Nat /\ e(c) \in Nat
                               /\ b(c) < e(c) /\ e(c) <= BaseRows
  BY <1>1, CutBounds
<1>3. \A c, d \in 0 .. (n - 1) : c < d => e(c) <= b(d)
  BY <1>1, ChunksOrdered, SameCut
<1>4. \A t \in BaseQ!Tokens : \E c \in 0 .. (n - 1) : t \in b(c) .. (e(c) - 1)
  <2> SUFFICES ASSUME NEW t \in BaseQ!Tokens
               PROVE  \E c \in 0 .. (n - 1) : t \in b(c) .. (e(c) - 1)
    OBVIOUS
  <2>1. t \in 0 .. (BaseRows - 1)
    BY DEF BaseQ!Tokens
  <2>2. PICK c \in 0 .. (n - 1) : t \in Chunk(BaseRows, n, c)
    BY <1>1, <2>1, ChunksCover
  <2>3. t \in b(c) .. (e(c) - 1)
    BY <2>2, SameCut DEF Chunk
  <2> QED BY <2>3
<1>5. \A c \in 0 .. (n - 1) : IsBestOf(b(c) .. (e(c) - 1), cand[c])
  BY ChunkWinnerIsBest
<1> HIDE DEF b, e, w
<1>6. \A c \in 0 .. (n - 1) : /\ cand[c] \in b(c) .. (e(c) - 1)
                               /\ cand[c] \in BaseQ!Tokens
  <2> SUFFICES ASSUME NEW c \in 0 .. (n - 1)
               PROVE cand[c] \in b(c) .. (e(c) - 1) /\ cand[c] \in BaseQ!Tokens
    OBVIOUS
  <2>1. cand[c] \in b(c) .. (e(c) - 1)
    BY <1>5 DEF IsBestOf
  <2> QED BY <1>1, <1>2, <2>1 DEF BaseQ!Tokens
<1>7. \A t \in BaseQ!Tokens : t \in Int /\ score[t] \in Int
  BY <1>1 DEF NumericRow, BaseAssumption, BaseQ!Tokens
<1>8. NumbersAt(cand, n)
  BY <1>6, <1>7 DEF NumbersAt
<1>9. PICK j : IsFirstBest(cand, j, n - 1) /\ w = cand[j]
  BY <1>1, <1>8, WinnerIsFirstBest DEF w
<1>10. j \in 0 .. (n - 1) /\ w \in BaseQ!Tokens /\ w \in b(j) .. (e(j) - 1)
  BY <1>6, <1>9 DEF IsFirstBest
<1>11. ASSUME NEW t \in BaseQ!Tokens
       PROVE  score[t] < score[w] \/ (score[t] = score[w] /\ w <= t)
  <2>1. PICK c \in 0 .. (n - 1) : t \in b(c) .. (e(c) - 1)
    BY <1>4
  <2>2. score[t] < score[cand[c]] \/ (score[t] = score[cand[c]] /\ cand[c] <= t)
    BY <1>5, <2>1 DEF IsBestOf
  <2>3. score[cand[c]] < score[w] \/ (score[cand[c]] = score[w] /\ j <= c)
    BY <1>9 DEF IsFirstBest
  <2>4. score[t] \in Int /\ score[cand[c]] \in Int /\ score[w] \in Int
    BY <1>6, <1>7, <1>10
  <2>5. CASE c = j
    BY <1>9, <2>2, <2>5
  <2>6. CASE c < j
    <3>1. ~(j <= c)
      BY <1>1, <1>10, <2>6
    <3>2. score[t] < score[w]
      BY <2>2, <2>3, <2>4, <3>1
    <3> QED BY <3>2
  <2>7. CASE j < c
    <3>1. e(j) <= b(c)
      BY <1>3, <1>10, <2>7
    <3>2. w <= t
      BY <1>2, <1>10, <2>1, <3>1
    <3> QED BY <2>2, <2>3, <2>4, <3>2
  <2> QED BY <1>10, <2>5, <2>6, <2>7
<1> QED BY <1>10, <1>11 DEF IsBestOf, w

\* So is the winner of one scan of the vocabulary.
LEMMA ScanIsBest ==
  ASSUME BaseAssumption, NaN \notin Int, NumericRow
  PROVE  IsBestOf(BaseQ!Tokens, BaseQ!Winner([t \in BaseQ!Tokens |-> t], BaseRows))
<1> DEFINE cand == [t \in BaseQ!Tokens |-> t]
<1>1. BaseRows \in Nat \ {0} /\ BaseQ!Tokens = 0 .. (BaseRows - 1)
  BY DEF BaseAssumption, BaseQ!Tokens
<1>2. \A t \in 0 .. (BaseRows - 1) : cand[t] = t
  BY <1>1
<1>3. NumbersAt(cand, BaseRows)
  BY <1>1, <1>2 DEF NumbersAt, NumericRow, BaseAssumption
<1> HIDE DEF cand
<1>4. PICK j : /\ IsFirstBest(cand, j, BaseRows - 1)
               /\ BaseQ!Winner(cand, BaseRows) = cand[j]
  BY <1>1, <1>3, WinnerIsFirstBest
<1>5. j \in 0 .. (BaseRows - 1)
  BY <1>4 DEF IsFirstBest
<1>6. IsBestOf(BaseQ!Tokens, j)
  BY <1>1, <1>2, <1>4, <1>5 DEF IsFirstBest, IsBestOf
<1> QED BY <1>2, <1>4, <1>5, <1>6 DEF cand

-----------------------------------------------------------------------------
(* base_q_lm_head_argmax: the invariant.                                   *)

\* There is at least one chunk, and at most one per token.
LEMMA CountOfChunks ==
  ASSUME BaseAssumption, NEW n \in Nat \ {0}
  PROVE  BaseQ!ChunkCount(n) \in 1 .. BaseRows /\ BaseRows \in Nat \ {0}
<1>1. /\ BaseRows \in Nat \ {0} /\ BaseChunksPerThread \in Nat \ {0}
  BY DEF BaseAssumption
<1>2. n * BaseChunksPerThread \in Nat \ {0}
  <2>1. 1 * BaseChunksPerThread <= n * BaseChunksPerThread
    BY <1>1, ProductMonotone
  <2>2. n * BaseChunksPerThread \in Int
    BY <1>1
  <2> QED BY <1>1, <2>1, <2>2
<1> QED BY <1>1, <1>2 DEF BaseQ!ChunkCount

\* The invariant holds initially.
LEMMA BaseInit == ASSUME BaseAssumption, CallInit PROVE BaseIInv
BY DEF CallInit, BaseQ!Init, BaseIInv, BaseQ!IInv, BaseQ!TypeOK, BaseQ!IRegion,
       BaseQ!IToken

\* The ranges of chunks of the parts of the region.
LEMMA PartsOfRegion ==
  ASSUME BaseAssumption, NEW n \in 1 .. BaseRows, NEW k \in Nat \ {0}
  PROVE  /\ BaseQ!Parts(n, 1, k) \in 1 .. k /\ BaseQ!Parts(n, 1, k) <= n
         /\ \A p \in 0 .. (BaseQ!Parts(n, 1, k) - 1) :
              /\ BaseQ!ChunkBegin(n, BaseQ!Parts(n, 1, k), p) \in Nat
              /\ BaseQ!ChunkEnd(n, BaseQ!Parts(n, 1, k), p) \in Nat
              /\ BaseQ!ChunkBegin(n, BaseQ!Parts(n, 1, k), p)
                   < BaseQ!ChunkEnd(n, BaseQ!Parts(n, 1, k), p)
<1>1. n \in Nat \ {0}
  BY DEF BaseAssumption
<1>2. BaseQ!Parts(n, 1, k) = Parts(n, 1, k)
  BY DEF BaseQ!Parts, Parts, BaseQ!Clamp, Clamp, BaseQ!EffectiveMin, EffectiveMin
<1>3. Parts(n, 1, k) \in 1 .. k /\ Parts(n, 1, k) <= n
  BY <1>1, PartsBounds
<1>4. Parts(n, 1, k) \in 1 .. n
  BY <1>1, <1>3
<1> QED BY <1>1, <1>2, <1>3, <1>4, CutBounds

\* Every step keeps the invariant.
LEMMA BaseStep ==
  ASSUME BaseAssumption, BaseIInv, [CallNext]_<<vars, kernel, baseVars>>
  PROVE  BaseIInv'
<1>0. /\ BaseQ!TypeOK /\ BaseQ!IRegion /\ BaseQ!IToken
      /\ BaseMaxTotal \in Nat \ {0}
  BY DEF BaseIInv, BaseQ!IInv, BaseAssumption
<1>1. CASE BaseQ!ReadThreads
  BY <1>0, <1>1 DEF BaseQ!ReadThreads, BaseIInv, BaseQ!IInv, BaseQ!TypeOK, BaseQ!IRegion,
                    BaseQ!IToken
<1>2. CASE BaseQ!OutOfMemory \/ BaseQ!Resize
  BY <1>0, <1>2 DEF BaseQ!OutOfMemory, BaseQ!Resize, BaseIInv, BaseQ!IInv,
                    BaseQ!TypeOK, BaseQ!IRegion, BaseQ!IToken
<1>3. CASE BaseQ!ScanAll
  <2>1. token' = BaseQ!Winner([t \in BaseQ!Tokens |-> t], BaseRows)'
    BY <1>3 DEF BaseQ!ScanAll, BaseQ!Winner, BaseQ!Beats
  <2> QED BY <1>0, <1>3, <2>1 DEF BaseQ!ScanAll, BaseIInv, BaseQ!IInv, BaseQ!TypeOK,
                    BaseQ!IRegion, BaseQ!IToken
<1>4. CASE BaseQ!StartRegion
  <2> USE <1>4 DEF BaseQ!StartRegion
  <2>1. threads \in Nat \ {0} /\ baseTotal \in Nat \ {0} /\ baseTotal <= BaseMaxTotal
    BY <1>0 DEF BaseQ!TypeOK
  <2>2. BaseQ!Chunks \in 1 .. BaseRows /\ BaseQ!Chunks' = BaseQ!Chunks
    BY <2>1, CountOfChunks DEF BaseQ!Chunks
  <2>3. /\ baseParts' \in 1 .. baseTotal /\ baseParts' <= BaseQ!Chunks
        /\ \A p \in 0 .. (baseParts' - 1) :
             /\ BaseQ!ChunkBegin(BaseQ!Chunks, baseParts', p) \in Nat
             /\ BaseQ!ChunkEnd(BaseQ!Chunks, baseParts', p) \in Nat
             /\ BaseQ!ChunkBegin(BaseQ!Chunks, baseParts', p)
                  < BaseQ!ChunkEnd(BaseQ!Chunks, baseParts', p)
    BY <2>1, <2>2, PartsOfRegion
  <2>4. \A p \in 0 .. (baseParts' - 1) : p \in BaseQ!PartIndices /\ p < baseParts'
    BY <1>0, <2>1, <2>3 DEF BaseQ!PartIndices
  <2>5. \A p \in 0 .. (baseParts' - 1) :
          basePos'[p] = BaseQ!ChunkBegin(BaseQ!Chunks, baseParts', p)
    BY <2>4
  <2>6. baseParts' \in 1 .. BaseMaxTotal
    BY <1>0, <2>1, <2>3
  <2>7. BaseQ!TypeOK'
    <3>1. \A p \in 0 .. (baseParts' - 1) :
            /\ BaseQ!ChunkBegin(BaseQ!Chunks, baseParts', p) <= basePos'[p]
            /\ basePos'[p] <= BaseQ!ChunkEnd(BaseQ!Chunks, baseParts', p)
            /\ basePos'[p] \in Nat
      BY <2>3, <2>5
    <3> QED BY <1>0, <2>2, <2>3, <2>6, <3>1 DEF BaseQ!TypeOK
  <2>8. BaseQ!IRegion'
    <3>1. \A p \in 0 .. (baseParts' - 1) :
            BaseQ!ChunkBegin(BaseQ!Chunks, baseParts', p) .. (basePos'[p] - 1) = {}
      BY <2>3, <2>5
    <3> QED BY <2>2, <3>1 DEF BaseQ!IRegion
  <2>9. BaseQ!IToken'
    BY DEF BaseQ!IToken
  <2> QED BY <2>7, <2>8, <2>9 DEF BaseIInv, BaseQ!IInv
<1>5. CASE \E p \in BaseQ!PartIndices : BaseQ!RunChunk(p)
  <2> PICK p \in BaseQ!PartIndices : BaseQ!RunChunk(p)
    BY <1>5
  <2> USE DEF BaseQ!RunChunk
  <2> DEFINE n == BaseQ!Chunks
             b(q) == BaseQ!ChunkBegin(n, baseParts, q)
             e(q) == BaseQ!ChunkEnd(n, baseParts, q)
             c == basePos[p]
  <2>1. threads \in Nat \ {0} /\ baseParts \in 1 .. BaseMaxTotal /\ baseParts <= n
    BY <1>0 DEF BaseQ!TypeOK
  <2>2. n \in 1 .. BaseRows /\ n' = n /\ BaseRows \in Nat
    BY <2>1, CountOfChunks DEF BaseQ!Chunks
  <2>3. /\ \A q \in 0 .. (baseParts - 1) : q \in DOMAIN basePos
        /\ \A q \in DOMAIN basePos :
             basePos'[q] = IF q = p THEN basePos[q] + 1 ELSE basePos[q]
        /\ DOMAIN basePos' = BaseQ!PartIndices
        /\ p \in 0 .. (baseParts - 1) /\ c \in Nat /\ c < e(p)
    BY <1>0, <2>1 DEF BaseQ!TypeOK, BaseQ!PartIndices
  <2>4. \A q \in 0 .. (baseParts - 1) :
          b(q) \in Nat /\ e(q) \in Nat /\ b(q) < e(q) /\ e(q) <= n
    <3>1. n \in Nat \ {0} /\ baseParts \in 1 .. n
      BY <2>1, <2>2
    <3> HIDE DEF n
    <3> QED BY <3>1, CutBounds
  <2>5. \A q \in 0 .. (baseParts - 1) :
          b(q) <= basePos[q] /\ basePos[q] <= e(q) /\ basePos[q] \in Nat
    BY <1>0 DEF BaseQ!TypeOK
  <2>6. c \in BaseQ!Tokens
    BY <2>2, <2>3, <2>4 DEF BaseQ!Tokens
  <2>7. /\ DOMAIN partial' = BaseQ!Tokens
        /\ \A d \in BaseQ!Tokens :
             partial'[d] = IF d = c THEN BaseQ!ChunkWinner(n, c) ELSE partial[d]
    BY <1>0 DEF BaseQ!TypeOK
  <2>8. \A d : BaseQ!ChunkWinner(n, d)' = BaseQ!ChunkWinner(n, d)
    BY <2>2 DEF BaseQ!ChunkWinner, BaseQ!Winner, BaseQ!Beats
  <2>9. baseParts' = baseParts /\ \A q : b(q)' = b(q) /\ e(q)' = e(q)
    BY <2>2
  <2> HIDE DEF n, b, e, c
  <2>10. \A q \in 0 .. (baseParts - 1) :
           /\ b(q) <= basePos'[q] /\ basePos'[q] <= e(q) /\ basePos'[q] \in Nat
    BY <2>3, <2>4, <2>5 DEF c
  <2>11. BaseQ!TypeOK'
    BY <1>0, <2>1, <2>2, <2>3, <2>7, <2>9, <2>10 DEF BaseQ!TypeOK, n, b, e
  <2>12. ASSUME NEW q \in 0 .. (baseParts - 1), NEW d \in b(q) .. (basePos'[q] - 1)
         PROVE  BaseQ!HasWinner(d)'
    <3>1. d \in BaseQ!Tokens
      BY <2>2, <2>4, <2>10 DEF BaseQ!Tokens
    <3>2. CASE d = c
      BY <2>7, <2>8, <3>1, <3>2 DEF BaseQ!HasWinner, n
    <3>3. CASE d # c
      <4>1. d \in b(q) .. (basePos[q] - 1)
        BY <2>3, <2>4, <2>5, <3>3 DEF c
      <4>2. partial[d] = BaseQ!ChunkWinner(n, d)
        BY <1>0, <4>1 DEF BaseQ!IRegion, BaseQ!HasWinner, b, n
      <4> QED BY <2>7, <2>8, <3>1, <3>3, <4>2 DEF BaseQ!HasWinner, n
    <3> QED BY <3>2, <3>3
  <2>13. BaseQ!IRegion'
    BY <2>9, <2>12 DEF BaseQ!IRegion, b, n
  <2>14. BaseQ!IToken'
    BY DEF BaseQ!IToken
  <2> QED BY <2>11, <2>13, <2>14 DEF BaseIInv, BaseQ!IInv
<1>6. CASE BaseQ!ScanWinners
  <2> USE <1>6 DEF BaseQ!ScanWinners
  <2>1. threads \in Nat \ {0} /\ baseParts \in 1 .. BaseMaxTotal
        /\ baseParts <= BaseQ!Chunks
    BY <1>0 DEF BaseQ!TypeOK
  <2>2. /\ BaseQ!Chunks \in 1 .. BaseRows /\ BaseQ!Chunks' = BaseQ!Chunks
        /\ BaseRows \in Nat
    BY <2>1, CountOfChunks DEF BaseQ!Chunks
  <2>3. /\ token' = BaseQ!Winner(partial, BaseQ!Chunks)'
        /\ \A d : BaseQ!HasWinner(d)' = BaseQ!HasWinner(d)
    BY <2>2 DEF BaseQ!HasWinner, BaseQ!ChunkWinner, BaseQ!Winner, BaseQ!Beats
  <2>4. ASSUME NEW d \in 0 .. (BaseQ!Chunks - 1) PROVE BaseQ!HasWinner(d)
    <3>1. PICK p \in 0 .. (baseParts - 1) :
            d \in Chunk(BaseQ!Chunks, baseParts, p)
      <4>1. BaseQ!Chunks \in Nat /\ baseParts \in Nat \ {0}
        BY <2>1, <2>2
      <4> HIDE <1>6
      <4> QED BY <4>1, ChunksCover
    <3>2. p \in BaseQ!PartIndices /\ p < baseParts
      BY <2>1, <3>1 DEF BaseQ!PartIndices, BaseAssumption
    <3>3. basePos[p] = BaseQ!ChunkEnd(BaseQ!Chunks, baseParts, p)
      BY <3>2
    <3>4. d \in BaseQ!ChunkBegin(BaseQ!Chunks, baseParts, p) .. (basePos[p] - 1)
      BY <3>1, <3>3, SameCut DEF Chunk
    <3> QED BY <1>0, <3>1, <3>4 DEF BaseQ!IRegion
  <2>5. BaseQ!IToken'
    BY <2>2, <2>3, <2>4 DEF BaseQ!IToken
  <2>6. BaseQ!TypeOK' /\ BaseQ!IRegion'
    BY <1>0 DEF BaseQ!TypeOK, BaseQ!IRegion
  <2> QED BY <2>5, <2>6 DEF BaseIInv, BaseQ!IInv
<1>7. CASE BaseQ!Returned \/ UNCHANGED baseVars
  <2>1. UNCHANGED baseVars
    BY <1>7 DEF BaseQ!Returned, BaseQ!vars, baseVars
  <2>2. BaseQ!TypeOK'
    BY <1>0, <2>1 DEF baseVars, BaseQ!TypeOK, BaseQ!Chunks
  <2>3. /\ BaseQ!Chunks' = BaseQ!Chunks
        /\ \A d : BaseQ!HasWinner(d)' = BaseQ!HasWinner(d)
    BY <2>1 DEF baseVars, BaseQ!HasWinner, BaseQ!Chunks, BaseQ!ChunkWinner,
                BaseQ!Winner, BaseQ!Beats
  <2>4. BaseQ!IRegion'
    BY <1>0, <2>1, <2>3 DEF baseVars, BaseQ!IRegion
  <2>5. BaseQ!IToken'
    <3>1. /\ BaseQ!Winner(partial, BaseQ!Chunks)' = BaseQ!Winner(partial, BaseQ!Chunks)
          /\ BaseQ!Winner([t \in BaseQ!Tokens |-> t], BaseRows)'
               = BaseQ!Winner([t \in BaseQ!Tokens |-> t], BaseRows)
      BY <2>1, <2>3 DEF baseVars, BaseQ!Winner, BaseQ!Beats
    <3> QED BY <1>0, <2>1, <2>3, <3>1 DEF baseVars, BaseQ!IToken
  <2> QED BY <2>2, <2>4, <2>5 DEF BaseIInv, BaseQ!IInv
<1> QED
  BY <1>1, <1>2, <1>3, <1>4, <1>5, <1>6, <1>7 DEF CallNext, BaseQ!Next

-----------------------------------------------------------------------------
(* Theorems about base_q_lm_head_argmax.                                   *)

\* Its inductive invariant holds in every reachable state, NaN scores included.
THEOREM BaseArgmaxInvariant ==
  ASSUME BaseAssumption
  PROVE  CallSpec => []BaseIInv
<1>1. CallInit => BaseIInv
  BY BaseInit
<1>2. BaseIInv /\ [CallNext]_<<vars, kernel, baseVars>> => BaseIInv'
  BY BaseStep
<1> QED BY <1>1, <1>2, PTL DEF CallSpec

\* The token returned for a row of numbers.
LEMMA ReturnedIsBest ==
  ASSUME BaseAssumption, NaN \notin Int, BaseIInv, NumericRow, basePc = "returned"
  PROVE  IsBestOf(BaseQ!Tokens, token)
<1>1. BaseQ!IToken /\ threads \in Nat \ {0}
  BY DEF BaseIInv, BaseQ!IInv, BaseQ!TypeOK, BaseAssumption
<1>2. BaseQ!Chunks \in 1 .. BaseRows
  BY <1>1, CountOfChunks DEF BaseQ!Chunks
<1>3. CASE token = BaseQ!Winner([t \in BaseQ!Tokens |-> t], BaseRows)
  BY <1>3, ScanIsBest
<1>4. CASE /\ token = BaseQ!Winner(partial, BaseQ!Chunks)
           /\ \A c \in 0 .. (BaseQ!Chunks - 1) : BaseQ!HasWinner(c)
  BY <1>2, <1>4, WinnerOfWinnersIsBest DEF BaseQ!HasWinner
<1> QED BY <1>1, <1>3, <1>4 DEF BaseQ!IToken

\* Numeric scores give the lowest token with the largest, for every vocabulary, row of
\* scores, pool, number of chunks and interleaving.
THEOREM BaseArgmaxGreedyToken ==
  ASSUME BaseAssumption, NaN \notin Int
  PROVE  CallSpec => []BaseGreedyToken
<1>1. BaseIInv => BaseGreedyToken
  <2> SUFFICES ASSUME BaseIInv, basePc = "returned",
                      \A t \in BaseQ!Tokens : score[t] # NaN
               PROVE  BaseQ!GreedyToken
    BY DEF BaseGreedyToken, BaseQ!GreedyToken
  <2>1. NumericRow
    BY DEF NumericRow, BaseIInv, BaseQ!IInv, BaseQ!TypeOK
  <2>2. IsBestOf(BaseQ!Tokens, token)
    BY <2>1, ReturnedIsBest
  <2> QED BY <2>2 DEF IsBestOf, BaseQ!GreedyToken
<1> QED BY <1>1, BaseArgmaxInvariant, PTL

\* When no score can be NaN, the token is that of a pool of one thread.  (The run
\* base_q_argmax_nan shows that the assumption is needed.)
THEOREM BaseArgmaxSameAcrossThreadCounts ==
  ASSUME BaseAssumption, NaN \notin Int, NaN \notin BaseScores
  PROVE  CallSpec => []BaseSameAcrossThreadCounts
<1>1. BaseIInv => BaseSameAcrossThreadCounts
  <2> SUFFICES ASSUME BaseIInv, basePc = "returned"
               PROVE  token = BaseQ!SingleThreadToken
    BY DEF BaseSameAcrossThreadCounts, BaseQ!SameAcrossThreadCounts
  <2> DEFINE n == BaseQ!ChunkCount(1)
             cand == [c \in 0 .. (n - 1) |-> BaseQ!ChunkWinner(n, c)]
  <2>1. NumericRow
    BY DEF NumericRow, BaseIInv, BaseQ!IInv, BaseQ!TypeOK
  <2>2. IsBestOf(BaseQ!Tokens, token)
    BY <2>1, ReturnedIsBest
  <2>3. IsBestOf(BaseQ!Tokens, BaseQ!Winner(cand, n))
    <3>1. n \in 1 .. BaseRows
      BY CountOfChunks
    <3>2. \A c \in 0 .. (n - 1) : cand[c] = BaseQ!ChunkWinner(n, c)
      OBVIOUS
    <3> HIDE DEF n, cand
    <3> QED BY <2>1, <3>1, <3>2, WinnerOfWinnersIsBest
  <2>4. BaseQ!SingleThreadToken = BaseQ!Winner(cand, n)
    BY DEF BaseQ!SingleThreadToken
  <2>5. \A t \in BaseQ!Tokens : t \in Int /\ score[t] \in Int
    BY <2>1 DEF NumericRow, BaseAssumption, BaseQ!Tokens
  <2> HIDE DEF n, cand
  <2> QED BY <2>2, <2>3, <2>4, <2>5 DEF IsBestOf
<1> QED BY <1>1, BaseArgmaxInvariant, PTL
=============================================================================
