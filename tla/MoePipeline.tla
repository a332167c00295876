----------------------------- MODULE MoePipeline -----------------------------
(***************************************************************************)
(* A mixture-of-experts layer as the calls of moe_ref.cpp and              *)
(* moe_extended_ref.cpp: route, permute (and pad), gather, project,        *)
(* finalize, and the gradients back through finalize and gather; or, with  *)
(* adapters, the schedule of moe_lora_align.  The calls hand index arrays  *)
(* to each other, and nothing but these arrays says which row is whose.  A *)
(* row of features is named by its token, a product by its token and the   *)
(* expert it was made with, a weight by its route.  A route is a token's   *)
(* choice of an expert: route = token * TopK + rank.  The regions of these *)
(* calls are race free (MoeRegions), so that each is one call.             *)
(***************************************************************************)
EXTENDS Integers, FiniteSets, Sequences

CONSTANTS TokenCount, ExpertCount, TopK,
          TileRows,           \* rows of a padded tile: tile_rows, block_size
          Adapters,           \* max_loras
          LoraLists,          \* the lora_ids that may be passed
          LoraCapacity,       \* sorted_capacity_per_lora, a number of whole tiles
          DroppedRoutes       \* the routes to which LoRA callers may give no expert

ASSUME MoeAssumption ==
  /\ TokenCount \in Nat /\ ExpertCount \in Nat
  /\ TopK \in Nat \ {0} /\ TileRows \in Nat \ {0}
  /\ Adapters \in Nat
  /\ \A list \in LoraLists : list \in Seq(Int)

Absent == -1   \* no expert, no row, no adapter
MoeTokens == 0 .. (TokenCount - 1)
Experts == 0 .. (ExpertCount - 1)
RouteCount == TokenCount * TopK
Routes == 0 .. (RouteCount - 1)
TokenOf(route) == route \div TopK

VARIABLES layout,   \* "compact", "padded" or "adapters"
          call,     \* the last call
          ids,      \* expert_ids[route]
          index,    \* the index arrays the caller has
          rows,     \* the rows the caller has: gathered, projected, gradients
          out       \* what finalize, the gradients or moe_lora_align returned
layerVars == <<layout, call, ids, index, rows, out>>

-----------------------------------------------------------------------------
(* The index arrays.                                                       *)

Among(routes, expert) == Cardinality({r \in routes : ids[r] = expert})
Offsets == [e \in 0 .. ExpertCount |-> Cardinality({r \in Routes : ids[r] < e})]
Permuted(route) == Offsets[ids[route]] + Among(0 .. (route - 1), ids[route])

MoePermute ==
  LET inverse == [route \in Routes |-> Permuted(route)]
      At(row) == CHOOSE route \in Routes : inverse[route] = row
  IN [offsets |-> Offsets, inverse |-> inverse,
      sortedRows |-> [row \in Routes |-> TokenOf(At(row))]]

\* The rows of whole tiles that hold so many.  (A defect: the last, partial tile is left out.)
Padded_WholeTilesOnly(count) == (count \div TileRows) * TileRows
Padded(count) == ((count + TileRows - 1) \div TileRows) * TileRows
\* Where the tiles of each expert begin, which has so many rows.
PaddedSums(count) ==
  LET sum[e \in 0 .. ExpertCount] == IF e = 0 THEN 0 ELSE sum[e - 1] + Padded(count[e - 1])
  IN sum
PaddedOffsets(offsets) == PaddedSums([e \in Experts |-> offsets[e + 1] - offsets[e]])

\* upper_bound - 1: the last expert whose rows begin at or before this one.  (A defect:
\* lower_bound, the first that begins at or after it.)
ExpertOf_LowerBound(offsets, row) ==
  CHOOSE e \in 0 .. ExpertCount : offsets[e] >= row /\ \A d \in 0 .. (e - 1) : offsets[d] < row
ExpertOf(offsets, row) ==
  CHOOSE e \in 0 .. ExpertCount :
    offsets[e] <= row /\ \A d \in (e + 1) .. ExpertCount : offsets[d] > row

MoePadSchedule(permuted) ==
  LET offsets == permuted.offsets
      padded == PaddedOffsets(offsets)
      Tile(tile) == CHOOSE e \in Experts : padded[e] <= tile * TileRows
                                           /\ tile * TileRows < padded[e + 1]
      Row(row) == LET e == Tile(row \div TileRows)
                      place == row - padded[e]
                  IN IF place < offsets[e + 1] - offsets[e]
                     THEN permuted.sortedRows[offsets[e] + place] ELSE Absent
      PaddedPlace(compact) == LET e == ExpertOf(offsets, compact)
                          IN padded[e] + compact - offsets[e]
  IN [expertOfTile |-> [tile \in 0 .. (padded[ExpertCount] \div TileRows - 1) |-> Tile(tile)],
      gatherRows |-> [row \in 0 .. (padded[ExpertCount] - 1) |-> Row(row)],
      inversePadded |-> [route \in Routes |-> PaddedPlace(permuted.inverse[route])]]

\* One adapter: its tokens' routes by expert, each expert's from a whole tile on, RouteCount
\* where there is none.  (A defect: the experts' rows follow each other without padding.)
LoraOffsets_Unpadded(own) ==
  [e \in 0 .. ExpertCount |-> IF e = ExpertCount THEN Padded(Cardinality(own))
                              ELSE Cardinality({r \in own : ids'[r] < e})]
LoraOffsets(own) == PaddedSums([e \in Experts |-> Cardinality({r \in own : ids'[r] = e})])

LoraIdle == [postPad |-> 0, sorted |-> <<>>, tileExpert |-> <<>>]
LoraOwn(adapter) ==
  {r \in Routes : index'.adapterOf[TokenOf(r)] = adapter /\ ids'[r] \in Experts}
LoraSchedule(adapter) ==
  LET own == LoraOwn(adapter)
      offsets == LoraOffsets(own)
      Place(r) == offsets[ids'[r]] + Cardinality({s \in own : s < r /\ ids'[s] = ids'[r]})
      At(row) == {r \in own : Place(r) = row}
  IN [postPad |-> offsets[ExpertCount],
      sorted |-> [row \in 0 .. (offsets[ExpertCount] - 1) |->
                    IF At(row) = {} THEN RouteCount ELSE CHOOSE r \in At(row) : TRUE],
      tileExpert |-> [tile \in 0 .. (offsets[ExpertCount] \div TileRows - 1) |->
                        CHOOSE e \in Experts : offsets[e] < (tile + 1) * TileRows
                                                /\ tile * TileRows < offsets[e + 1]]]

\* The list up to the first entry that ends the call: no adapter, one listed twice, or one
\* that is enabled and whose rows do not fit.
LoraFits(adapter) == LoraOffsets(LoraOwn(adapter))[ExpertCount] <= LoraCapacity
LoraBad(list, i) ==
  /\ list[i] # Absent
  /\ \/ list[i] >= Adapters
     \/ \E j \in 1 .. (i - 1) : list[j] = list[i]
     \/ list[i] \in index'.enabled /\ ~LoraFits(list[i])
LoraDone(list) ==
  {list[i] : i \in {j \in DOMAIN list : list[j] \in index'.enabled
                                        /\ \A k \in 1 .. j : ~LoraBad(list, k)}}

-----------------------------------------------------------------------------
(* The calls.                                                              *)

MoeInit ==
  /\ layout \in {"compact", "padded", "adapters"}
  /\ call = "called"
  /\ ids = [route \in Routes |-> Absent]
  /\ index = <<>> /\ rows = <<>> /\ out = <<>>

Then(next) == call' = next /\ UNCHANGED layout

\* moe_route_topk.  The logits rank the experts in any order, with ties broken.
RoutedIds ==
  {f \in [Routes -> Experts] :
     \A r, s \in Routes : r # s /\ TokenOf(r) = TokenOf(s) => f[r] # f[s]}
Route ==
  /\ call = "called" /\ layout # "adapters"
  /\ ids' \in RoutedIds
  /\ Then("routed") /\ UNCHANGED <<index, rows, out>>

Permute ==
  /\ call = "routed"
  /\ index' = MoePermute
  /\ Then("permuted") /\ UNCHANGED <<ids, rows, out>>

PadSchedule ==
  /\ call = "permuted" /\ layout = "padded"
  /\ LET schedule == MoePadSchedule(index)
     IN index' = [offsets |-> index.offsets, inverse |-> index.inverse,
                  sortedRows |-> index.sortedRows, expertOfTile |-> schedule.expertOfTile,
                  gatherRows |-> schedule.gatherRows, inversePadded |-> schedule.inversePadded]
  /\ Then("scheduled") /\ UNCHANGED <<ids, rows, out>>

\* moe_gather, over the sorted rows or the padded ones.
Gather ==
  /\ \/ call = "permuted" /\ layout = "compact" /\ rows' = index.sortedRows
     \/ call = "scheduled" /\ rows' = index.gatherRows
  /\ Then("gathered") /\ UNCHANGED <<ids, index, out>>

\* A grouped product (moe_grouped_gemm) is given the expert of each row: the one whose
\* offsets hold it, or the one of its tile.
ExpertOfRow(row) ==
  IF layout = "padded" THEN index.expertOfTile[row \div TileRows]
  ELSE ExpertOf(index.offsets, row)
Project ==
  /\ call = "gathered"
  /\ rows' = [row \in DOMAIN rows |-> [token |-> rows[row], expert |-> ExpertOfRow(row)]]
  /\ Then("projected") /\ UNCHANGED <<ids, index, out>>

\* The terms that a token's output is the sum of, each with the weight of its route.
Finalized(inverse) ==
  [token \in MoeTokens |-> [rank \in 0 .. (TopK - 1) |-> rows[inverse[token * TopK + rank]]]]
Finalize ==
  /\ \/ call = "projected" /\ layout = "compact" /\ out' = Finalized(index.inverse)
     \/ /\ call = "projected" /\ layout = "padded"
        /\ \A r \in Routes : index.inversePadded[r] \in Routes
        /\ out' = Finalized(index.inversePadded)
     \/ call = "compacted" /\ out' = Finalized(index.inverse)
  /\ Then("finalized") /\ UNCHANGED <<ids, index, rows>>

\* moe_finalize takes no position past the routes: where rows were padded, the caller moves
\* the products to their places in the permutation.
Compact ==
  /\ call = "projected" /\ layout = "padded"
  /\ \E r \in Routes : index.inversePadded[r] \notin Routes
  /\ rows' = [row \in Routes |->
       rows[index.inversePadded[CHOOSE r \in Routes : index.inverse[r] = row]]]
  /\ Then("compacted") /\ UNCHANGED <<ids, index, out>>

\* A row gets its token's gradient, weighted by its route.  (A defect: rows are taken in
\* the order of the routes.)
ExpertGradients_InRouteOrder == [row \in Routes |-> row]
ExpertGradients ==
  [row \in Routes |-> CHOOSE route \in Routes : index.inverse[route] = row]
FinalizeBackward ==
  /\ call = "finalized"
  /\ rows' = ExpertGradients
  /\ Then("gradients") /\ UNCHANGED <<ids, index, out>>

\* The token's gradient sums up those of the rows that were gathered from it.
GatherBackward ==
  /\ call = "gradients"
  /\ out' = [token \in MoeTokens |->
       {[route |-> rows[row], expert |-> ExpertOf(index.offsets, row)] :
          row \in {r \in Routes : index.sortedRows[r] = token}}]
  /\ Then("returned") /\ UNCHANGED <<ids, index, rows>>

\* moe_lora_align: an id that is no expert is skipped, and so are an adapter that is not
\* listed or not enabled and a token without one; a call that fails keeps what it wrote.
LoraAlign ==
  /\ call = "called" /\ layout = "adapters"
  /\ \E f \in RoutedIds, dropped \in SUBSET DroppedRoutes,
        adapterOf \in [MoeTokens -> Absent .. (Adapters - 1)],
        list \in LoraLists, enabled \in SUBSET (0 .. (Adapters - 1)) :
       /\ ids' = [r \in Routes |-> IF r \in dropped THEN Absent ELSE f[r]]
       /\ index' = [adapterOf |-> adapterOf, enabled |-> enabled, list |-> list]
       /\ out' = [adapter \in 0 .. (Adapters - 1) |->
                    IF adapter \in LoraDone(list) THEN LoraSchedule(adapter) ELSE LoraIdle]
       /\ Then(IF \E i \in DOMAIN list : LoraBad(list, i) THEN "refused" ELSE "returned")
  /\ UNCHANGED rows

Returned == call \in {"returned", "refused"} /\ UNCHANGED layerVars

MoeNext == \/ Route \/ Permute \/ PadSchedule \/ Gather \/ Project \/ Compact \/ Finalize
        \/ FinalizeBackward \/ GatherBackward \/ LoraAlign \/ Returned

MoeSpec == MoeInit /\ [][MoeNext]_layerVars

-----------------------------------------------------------------------------
(* What must hold.                                                         *)

\* Every token gets the products of its own features with the experts it was routed to,
\* each with the weight of that route, also when experts have no rows and tiles are padded
\* (moe_permute, moe_pad_schedule, moe_gather, moe_finalize).
RoutedProducts ==
  call = "finalized" =>
    \A token \in MoeTokens : \A rank \in 0 .. (TopK - 1) :
      out[token][rank] = [token |-> token, expert |-> ids[token * TopK + rank]]

\* Every token gets the gradient of each of its routes, through the expert of that route,
\* and no other's (moe_finalize_backward, moe_gather_backward).
RoutedGradients ==
  call = "returned" /\ layout # "adapters" =>
    \A token \in MoeTokens :
      out[token] = {[route |-> r, expert |-> ids[r]] : r \in {s \in Routes : TokenOf(s) = token}}

\* The tiles of an adapter hold each of its tokens' routes once, in a tile of the route's
\* expert, and no other route; or it has none.  After a call that returned, every adapter
\* that is listed and enabled has its tiles; after one that failed, those before the failure
\* may have (moe_lora_align).
LoraTiles ==
  call \in {"returned", "refused"} /\ layout = "adapters" =>
    \A adapter \in 0 .. (Adapters - 1) :
      LET schedule == out[adapter]
          own == {r \in Routes : index.adapterOf[TokenOf(r)] = adapter /\ ids[r] \in Experts}
          Places(r) == {row \in DOMAIN schedule.sorted : schedule.sorted[row] = r}
          Wanted == call = "returned" /\ adapter \in index.enabled
                    /\ \E i \in DOMAIN index.list : index.list[i] = adapter
      IN schedule.postPad > 0 \/ Wanted =>
           /\ \A r \in own : \E row \in DOMAIN schedule.sorted :
                Places(r) = {row} /\ schedule.tileExpert[row \div TileRows] = ids[r]
           /\ \A row \in DOMAIN schedule.sorted : schedule.sorted[row] \in own \cup {RouteCount}
-----------------------------------------------------------------------------
(* The invariant behind these: what the arrays say of a route, at every call. *)

\* The layouts and the calls they go through.
ILayout ==
  /\ layout \in {"compact", "padded", "adapters"}
  /\ layout = "adapters" => call \in {"called", "returned", "refused"}
  /\ layout # "adapters" /\ call # "called" => ids \in [Routes -> Experts]
  /\ call = "scheduled" => layout = "padded"

HasPermutation == layout # "adapters" /\ call \notin {"called", "routed"}

\* The permutation gives every route a row of its own, among those of its expert.
IPermutation ==
  HasPermutation =>
    /\ call = "permuted" => index = MoePermute
    /\ index.inverse \in [Routes -> Routes]
    /\ \A r, s \in Routes : index.inverse[r] = index.inverse[s] => r = s
    /\ DOMAIN index.sortedRows = Routes
    /\ \A r \in Routes : /\ index.sortedRows[index.inverse[r]] = TokenOf(r)
                         /\ ExpertOf(index.offsets, index.inverse[r]) = ids[r]

\* The padded schedule does, and its tiles know their expert.
ISchedule ==
  HasPermutation /\ layout = "padded" /\ call # "permuted" =>
    \A r \in Routes :
      LET row == index.inversePadded[r]
      IN /\ row \in DOMAIN index.gatherRows
         /\ index.gatherRows[row] = TokenOf(r)
         /\ index.expertOfTile[row \div TileRows] = ids[r]

\* The rows hold, where their index array says, what belongs to the route.
Position(route) ==
  IF layout = "padded" THEN index.inversePadded[route] ELSE index.inverse[route]
Product(route) == [token |-> TokenOf(route), expert |-> ids[route]]
IRows ==
  \A r \in Routes :
    /\ call = "gathered" => Position(r) \in DOMAIN rows /\ rows[Position(r)] = TokenOf(r)
    /\ call = "projected" => rows[Position(r)] = Product(r)
    /\ call = "compacted" => rows[index.inverse[r]] = Product(r)
    /\ call = "gradients" => rows[index.inverse[r]] = r

\* The inductive invariant of the layer: a row is its route's, whatever array leads to it.
RowsFollowRoutes ==
  ILayout /\ IPermutation /\ ISchedule /\ IRows
=============================================================================
