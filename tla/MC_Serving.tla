------------------------------ MODULE MC_Serving ------------------------------
(***************************************************************************)
(* What an engine runs between two tokens, for TLC: PagedDecoding with two *)
(* tokens and target models that hash their context, or one mixture of     *)
(* experts, MoePipeline.                                                   *)
(***************************************************************************)
EXTENDS PagedDecoding, MoePipeline

VARIABLE subject

Hash(seed, context) ==
  LET h[i \in 0 .. Len(context)] ==
        IF i = 0 THEN seed ELSE (3 * h[i - 1] + 2 * context[i] + i * seed + 1) % 7
  IN h[Len(context)]

MC_Models == 0 .. 30

\* Of two halves, the first token has none, one or both.
MC_Weight(seed, context, token) ==
  LET first == Hash(seed, context) % 3 IN IF token = 0 THEN first ELSE 2 - first
MC_Score(seed, context, token) == (Hash(seed, context) * (token + 2)) % 5

MC_LoraLists == {<<1, 0>>, <<0, 0>>, <<None, 1>>, <<1, 2>>}

\* The part that does not run is about to, with all its inputs the same.
ServingInit ==
  /\ Init /\ MoeInit
  /\ \/ subject = "decoding" /\ layout = "compact"
     \/ subject = "experts" /\ kind = "copy" /\ model = 0

ServingNext ==
  /\ UNCHANGED subject
  /\ \/ subject = "decoding" /\ Next /\ UNCHANGED layerVars
     \/ subject = "experts" /\ MoeNext /\ UNCHANGED vars

ServingSpec == ServingInit /\ [][ServingNext]_<<vars, subject, layerVars>>
=============================================================================
