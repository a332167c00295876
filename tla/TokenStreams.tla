----------------------------- MODULE TokenStreams -----------------------------
(***************************************************************************)
(* What decoding promises: every row is a stream of tokens that grows at   *)
(* its end.  A greedy row takes the target model's best token, a random    *)
(* row one of positive probability, each after the tokens before it; the   *)
(* rows of a beam search are the best continuations of all of them.  No    *)
(* drafts, no caches, no blocks.                                           *)
(***************************************************************************)
EXTENDS Integers, Sequences

CONSTANTS Tokens,            \* a range 0 .. v
          Models,            \* the target models considered
          Weight(_, _, _),   \* Weight(model, context, token): its probability
          Score(_, _, _)     \* Score(model, context, token): its logarithm, for beams

VARIABLES model, policy, history, scores

Rows == DOMAIN history

\* A hypothesis that no beam has reached yet has the score minus infinity.
Unreached == -1000
Plus(score, x) == IF score = Unreached THEN Unreached ELSE score + x

Best(context, token) ==
  \A other \in Tokens : \/ Weight(model, context, token) > Weight(model, context, other)
                        \/ Weight(model, context, token) = Weight(model, context, other)
                             /\ token <= other

Emits(row, context, token) ==
  CASE policy[row] = "greedy" -> Best(context, token)
    [] policy[row] = "random" -> Weight(model, context, token) > 0
    [] policy[row] = "beam" -> FALSE

Extend ==
  /\ \A row \in Rows :
       LET old == history[row]
           new == history'[row]
       IN /\ Len(old) <= Len(new)
          /\ SubSeq(new, 1, Len(old)) = old
          /\ \A i \in (Len(old) + 1) .. Len(new) : Emits(row, SubSeq(new, 1, i - 1), new[i])
  /\ DOMAIN history' = Rows
  /\ UNCHANGED <<model, policy, scores>>

\* Candidates are pairs of a row and a token; ties go to the lower row, then token.
Total(c) == Plus(scores[c[1]], Score(model, history[c[1]], c[2]))
Before(c, d) == \/ Total(c) > Total(d)
                \/ Total(c) = Total(d) /\ c[1] < d[1]
                \/ Total(c) = Total(d) /\ c[1] = d[1] /\ c[2] < d[2]

Continue ==
  /\ \A row \in Rows : policy[row] = "beam"
  /\ \E chosen \in [Rows -> Rows \X Tokens] :
       /\ \A a, b \in Rows : a < b => Before(chosen[a], chosen[b])
       /\ \A c \in Rows \X Tokens : (\A row \in Rows : c # chosen[row]) =>
            \A row \in Rows : Before(chosen[row], c)
       /\ history' = [row \in Rows |-> Append(history[chosen[row][1]], chosen[row][2])]
       /\ scores' = [row \in Rows |-> Total(chosen[row])]
  /\ UNCHANGED <<model, policy>>

Init ==
  /\ model \in Models
  /\ history \in [Rows -> Seq(Tokens)]
  /\ policy \in [Rows -> {"greedy", "random", "beam"}]
  /\ scores \in [Rows -> Int]

Next == Extend \/ Continue
streamVars == <<model, policy, history, scores>>
Spec == Init /\ [][Next]_streamVars
=============================================================================
