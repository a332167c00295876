----------------------------- MODULE LogitRegions -----------------------------
(***************************************************************************)
(* Footprints of the logit processors called in place ("in-place-          *)
(* compatible", ops.h:617).  All are plain loops over the rows, which      *)
(* return kInvalidArgument at the first row that is not valid: the rows    *)
(* before it are then already overwritten.                                 *)
(***************************************************************************)
EXTENDS Footprint

\* The call ends at the turn of a row that finds it invalid.
EndsAt(k, turn, invalid) == Checked(k, {row * k.grain + turn : row \in invalid}, FALSE)

\* apply_token_bitmask: an element is masked or copied.
ApplyTokenBitmask(rows, vocab) == UpdatedInPlace(rows * vocab, "serial", "out")

\* apply_bad_words and apply_repetition_penalty copy all the logits first, onto
\* themselves, and then go over the rows.
CopiedThenRows(rows, vocab, loads, stores) ==
  LET all == Span("out", 0, rows * vocab)
      columns(f, row) == {<<"out", row * vocab + token>> : token \in f[row]}
  IN InPlace(1, rows + 1, "serial",
       [i \in 0 .. rows |-> IF i = 0 THEN all ELSE {}],
       [i \in 0 .. rows |-> IF i = 0 THEN {} ELSE columns(loads, i - 1)],
       [i \in 0 .. rows |-> IF i = 0 THEN all ELSE columns(stores, i - 1)], all)

\* banned: the bad words.
ApplyBadWords(rows, vocab, banned) ==
  CopiedThenRows(rows, vocab, [row \in 0 .. (rows - 1) |-> {}],
                 [row \in 0 .. (rows - 1) |-> banned])

\* seen[row]: the tokens that row has had; invalid: the rows whose length or history
\* is not valid.
ApplyRepetitionPenalty(rows, vocab, seen, invalid) ==
  Checked(CopiedThenRows(rows, vocab, seen, seen), {row + 1 : row \in invalid}, FALSE)

\* top_k_renorm and top_p_renorm copy the row when probabilities is out, clear it, and
\* store the tokens they keep (kept, of every row).
Renormalized(rows, vocab, kept) ==
  LET row == Span("out", 0, vocab)
  IN RowsInPlace(rows, 3, "serial", [out |-> vocab],
       [j \in 0 .. 2 |->
          CASE j = 0 -> Turn(row, {}, {})
            [] j = 1 -> Turn({}, {}, row)
            [] j = 2 -> Turn({}, {}, {<<"out", token>> : token \in kept})])

\* top_k_renorm finds a row invalid when it has cleared it, top_p_renorm before.
TopKRenorm(rows, vocab, kept, invalid) == EndsAt(Renormalized(rows, vocab, kept), 2, invalid)
TopPRenorm(rows, vocab, kept, invalid) == EndsAt(Renormalized(rows, vocab, kept), 0, invalid)

\* top_a_mask, epsilon_cutoff_mask and eta_cutoff_mask (probability_mask),
\* quadratic_transform, top_nsigma_mask and xtc_mask temper the row into a vector,
\* where they find a row invalid.
TemperedRows(rows, vocab, invalid) ==
  EndsAt(BufferedInPlace(rows, vocab, "serial", "out"), 0, invalid)

\* skew_transform copies the row, and finds it invalid while it stores the sums.
SkewTransform(rows, vocab, invalid) ==
  EndsAt(BufferedInPlace(rows, vocab, "serial", "out"), 1, invalid)

\* no_repeat_ngram_mask and dry_penalty copy the row, store it tempered, look at its
\* length (which may be invalid) and at its history, and lower what is stored of some
\* tokens; dry_penalty loads that again.
HistoryRows(rows, vocab, loads, lowered, invalid) ==
  LET row == Span("out", 0, vocab)
      columns(tokens) == {<<"out", token>> : token \in tokens}
  IN EndsAt(RowsInPlace(rows, 3, "serial", [out |-> vocab],
              [j \in 0 .. 2 |->
                 CASE j = 0 -> Turn(row, {}, {})
                   [] j = 1 -> Turn({}, {}, row)
                   [] j = 2 -> Turn({}, columns(loads), columns(lowered))]), 2, invalid)
NoRepeatNgramMask(rows, vocab, banned, invalid) ==
  HistoryRows(rows, vocab, {}, banned, invalid)
DryPenalty(rows, vocab, lowered, invalid) ==
  HistoryRows(rows, vocab, lowered, lowered, invalid)
=============================================================================
