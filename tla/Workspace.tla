------------------------------ MODULE Workspace ------------------------------
(***************************************************************************)
(* The segmented scratch arena, src/memory/workspace.cpp, and the frames   *)
(* kernels open on it, src/memory/workspace_internal.h.                    *)
(*                                                                         *)
(* A block is its capacity and its fill; memory itself is the pair (block, *)
(* offset), since a block's storage never moves once it exists.  Indices   *)
(* of blocks start at 1 (0 in the code).  live records the allocations the *)
(* arena's clients may still use: that is what the arena has to protect.   *)
(***************************************************************************)
EXTENDS Integers, Sequences, FiniteSets

CONSTANTS Align,      \* kAlignment, the alignment of every block's storage
          MinBlock,   \* kMinimumBlock
          MaxSize,    \* the largest std::size_t
          Sizes,      \* byte counts clients ask for
          Alignments, \* alignments they ask for
          MaxBlocks,  \* the heap has room for this many blocks ...
          MaxDepth,   \* ... and clients nest this many frames
          MaxLive     \* bound on the allocations live at once

ASSUME WorkspaceAssumption ==
  /\ Align \in Nat \ {0} /\ MinBlock \in Nat \ {0}
  /\ MaxSize \in Nat /\ MinBlock <= MaxSize /\ Align <= MaxSize
  /\ Sizes \subseteq 0 .. MaxSize
  /\ Alignments \subseteq Nat
  /\ MaxBlocks \in Nat /\ MaxDepth \in Nat /\ MaxLive \in Nat

VARIABLES
  impl,      \* impl_ is set (a moved-from arena has none until reserve)
  cap,       \* cap[i]: capacity of block i
  used,      \* used[i]: its fill
  current,   \* the block allocation searches from
  frames,    \* markers of the open frames, oldest first
  live,      \* allocations in use
  promise    \* bytes the last reserve promised, 0 when there is no promise

arena == <<impl, cap, used, current>>
vars == <<arena, frames, live, promise>>

NBlocks == Len(cap)
Blocks == 1 .. NBlocks

\* power_of_two and the range test at the head of allocate.
Supported(a) == a \in {1, 2, 4, 8, 16, 32, 64} /\ a <= Align

\* aligned_offset: the next multiple of a, unless that overflows size_t.
AlignUp(offset, a) == ((offset + a - 1) \div a) * a
AlignOverflows(offset, a) == offset > MaxSize - (a - 1)

\* A block of that capacity, filled so far, can serve n bytes at alignment a.
FitsAt(fill, capacity, n, a) ==
  /\ ~AlignOverflows(fill, a)
  /\ AlignUp(fill, a) <= capacity
  /\ n <= capacity - AlignUp(fill, a)
Fits(i, n, a) == FitsAt(used[i], cap[i], n, a)

\* The blocks from current on that can.
Candidates(n, a) == {i \in Blocks : i >= current /\ Fits(i, n, a)}

\* growth_size: the capacity of the block appended for a request.
MaxOf(a, b) == IF a > b THEN a ELSE b
GrowthSize_IgnoresRequest(required) ==
  IF NBlocks # 0 /\ cap[NBlocks] <= MaxSize \div 2 THEN cap[NBlocks] * 2
  ELSE MaxOf(required, MinBlock)
GrowthSize(required) ==
  LET candidate == MaxOf(required, MinBlock)
      previous == cap[NBlocks]
  IN IF NBlocks # 0 /\ previous <= MaxSize \div 2
     THEN MaxOf(candidate, previous * 2) ELSE candidate

Allocation == [block : Nat, from : Nat, to : Nat, depth : Nat]
Marker == [block : Nat, offset : Nat, valid : BOOLEAN, promise : Nat]

\* Types: used() is kept per block beside its capacity (workspace.cpp:11-18), and a
\* frame's marker names a block and an offset in it.
TypeOK ==
  /\ impl \in BOOLEAN
  /\ cap \in Seq(Nat) /\ used \in Seq(Nat) /\ Len(used) = NBlocks
  /\ current \in Nat
  /\ frames \in Seq(Marker)
  /\ live \subseteq Allocation
  /\ promise \in Nat

\* Workspace::Workspace.
Init ==
  /\ impl = TRUE
  /\ cap = <<>> /\ used = <<>> /\ current = 1
  /\ frames = <<>> /\ live = {} /\ promise = 0

Depth == Len(frames)

-----------------------------------------------------------------------------
\* reserve finds a block with room, or appends one.
ReserveFound(n) ==
  /\ n # 0
  /\ Candidates(n, Align) # {}
  /\ impl' = TRUE
  /\ promise' = n
  /\ UNCHANGED <<cap, used, current, frames, live>>

ReserveGrow(n) ==
  /\ n # 0
  /\ Candidates(n, Align) = {}
  /\ NBlocks < MaxBlocks
  /\ impl' = TRUE
  /\ cap' = Append(cap, GrowthSize(n))
  /\ used' = Append(used, 0)
  /\ promise' = n
  /\ UNCHANGED <<current, frames, live>>

\* operator new throws: kOutOfMemory, the arena is as it was (but has its Impl).
ReserveFail(n) ==
  /\ n # 0
  /\ Candidates(n, Align) = {}
  /\ impl' = TRUE
  /\ promise' = 0
  /\ UNCHANGED <<cap, used, current, frames, live>>

\* What a served request leaves behind.
Serve(n, i, from) ==
  /\ Cardinality(live) < MaxLive
  /\ current' = i
  /\ live' = live \cup {[block |-> i, from |-> from, to |-> from + n,
                         depth |-> Depth]}
  /\ promise' = 0
  /\ UNCHANGED <<impl, frames>>

\* allocate serves the request from the first block with room ...
AllocateFound(n, a) ==
  /\ n # 0 /\ impl /\ Supported(a)
  /\ \E i \in Candidates(n, a) :
       /\ \A j \in Candidates(n, a) : i <= j
       /\ used' = [used EXCEPT ![i] = AlignUp(used[i], a) + n]
       /\ Serve(n, i, AlignUp(used[i], a))
  /\ UNCHANGED cap

\* ... or from a new last block; padding may not overflow.
AllocateGrow(n, a) ==
  /\ n # 0 /\ impl /\ Supported(a)
  /\ Candidates(n, a) = {}
  /\ n <= MaxSize - (a - 1)
  /\ NBlocks < MaxBlocks
  /\ cap' = Append(cap, GrowthSize(n + a - 1))
  /\ used' = Append(used, n)
  /\ Serve(n, NBlocks + 1, 0)

ResetArena_KeepsCurrent == used' = [i \in Blocks |-> 0] /\ UNCHANGED current
\* reset: public, so no kernel frame is open.
ResetArena == /\ used' = [i \in Blocks |-> 0]
              /\ current' = 1

Reset ==
  /\ frames = <<>> /\ impl
  /\ ResetArena
  /\ live' = {} /\ promise' = 0
  /\ UNCHANGED <<impl, cap, frames>>

\* WorkspaceFrame's constructor: mark().  (The client's outstanding promise comes
\* back when the frame ends.)
OpenFrame ==
  /\ Depth < MaxDepth
  /\ frames' = Append(frames,
       [block |-> IF NBlocks = 0 THEN 0 ELSE current,
        offset |-> IF NBlocks = 0 THEN 0 ELSE used[current],
        valid |-> NBlocks # 0, promise |-> promise])
  /\ UNCHANGED <<arena, live, promise>>

Rewind_KeepsLaterBlocks(m) ==
  /\ used' = IF m.valid THEN [used EXCEPT ![m.block] = m.offset] ELSE used
  /\ current' = IF m.valid THEN m.block ELSE 1
Rewind_WholeBlock(m) ==
  /\ used' = [i \in Blocks |-> IF i < m.block THEN used[i] ELSE 0]
  /\ current' = IF m.valid THEN m.block ELSE 1

\* rewind(marker).
Rewind(m) ==
  IF m.valid /\ m.block <= NBlocks
  THEN /\ used' = [i \in Blocks |-> IF i < m.block THEN used[i]
                                   ELSE IF i = m.block THEN m.offset ELSE 0]
       /\ current' = m.block
  ELSE ResetArena

\* WorkspaceFrame's destructor: what was allocated inside the frame is gone.
CloseFrame ==
  /\ frames # <<>>
  /\ LET m == frames[Depth]
     IN /\ Rewind(m)
        /\ promise' = m.promise
  /\ live' = {x \in live : x.depth < Depth}
  /\ frames' = SubSeq(frames, 1, Depth - 1)
  /\ UNCHANGED <<impl, cap>>

\* The arena is moved from: its blocks now belong to another object.
MoveFrom ==
  /\ frames = <<>> /\ impl
  /\ impl' = FALSE
  /\ cap' = <<>> /\ used' = <<>> /\ current' = 1
  /\ live' = {} /\ promise' = 0
  /\ UNCHANGED frames

Next ==
  \/ \E n \in Sizes : ReserveFound(n) \/ ReserveGrow(n) \/ ReserveFail(n)
  \/ \E n \in Sizes, a \in Alignments : AllocateFound(n, a) \/ AllocateGrow(n, a)
  \/ Reset \/ OpenFrame \/ CloseFrame \/ MoveFrom

Spec == Init /\ [][Next]_vars

-----------------------------------------------------------------------------
(* Properties.                                                             *)

Overlap(x, y) == x.block = y.block /\ x.from < y.to /\ y.from < x.to

\* Two allocations in use never share a byte, whatever frames were opened and
\* closed and however the arena grew in between, and each lies in the filled
\* part of a block of the arena.
LiveProtected ==
  /\ \A x, y \in live : x # y => ~Overlap(x, y)
  /\ \A x \in live : x.from < x.to
                     /\ x.block \in Blocks /\ x.to <= used[x.block]
                     /\ used[x.block] <= cap[x.block]

\* reserve(n): "ensures a future contiguous allocation of at least bytes can be
\* served" (workspace.h:31): the very next one, or the next one after frames
\* that were opened and closed in between, needs no new block.
ReserveHonoured == promise # 0 => impl /\ Candidates(promise, Align) # {}

-----------------------------------------------------------------------------
(* The inductive invariant behind LiveProtected and ReserveHonoured.       *)

\* Everything beyond current is empty, and fills respect capacities.
IFill ==
  /\ current >= 1 /\ (NBlocks # 0 => current <= NBlocks)
  /\ NBlocks = 0 => current = 1
  /\ \A i \in Blocks : used[i] <= cap[i] /\ (i > current => used[i] = 0)

\* Position (b, o) is at or below position (c, p).
AtOrBelow(b, o, c, p) == b < c \/ (b = c /\ o <= p)

\* What was live when a frame was opened lies below the frame's marker, and
\* the marker below the arena's current position.
IFrames ==
  /\ \A k \in 1 .. Depth :
       LET m == frames[k]
       IN IF m.valid
          THEN /\ m.block \in Blocks /\ m.block <= current
               /\ m.offset <= used[m.block]
               /\ \A x \in live : x.depth < k => AtOrBelow(x.block, x.to, m.block, m.offset)
          ELSE \A x \in live : x.depth >= k
  /\ \A x \in live : x.depth <= Depth

\* Markers are nested: a later frame's marker is valid if an earlier one is, and
\* not below it.
IMarkers ==
  \A j, k \in 1 .. Depth :
    j < k /\ frames[j].valid =>
      /\ frames[k].valid
      /\ AtOrBelow(frames[j].block, frames[j].offset,
                   frames[k].block, frames[k].offset)

\* With block b filled to offset o and the blocks after it empty, n bytes fit.
RoomFrom(b, o, n) ==
  \E i \in Blocks : i >= b /\ FitsAt(IF i = b THEN o ELSE 0, cap[i], n, Align)

\* A promise outlives the frames opened after it: the one a frame gives back when
\* it closes can be kept from the frame's marker on.
Kept(m) == m.promise # 0 => impl /\ m.valid /\ RoomFrom(m.block, m.offset, m.promise)
IPromise == ReserveHonoured /\ \A k \in 1 .. Depth : Kept(frames[k])

\* The inductive invariant of the arena: a rewind to any open frame's marker
\* releases only what that frame allocated, and all of it.
IArena == TypeOK /\ IFill /\ IFrames /\ IMarkers /\ LiveProtected
IInv == IArena /\ IPromise
=============================================================================
