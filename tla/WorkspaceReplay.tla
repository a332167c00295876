--------------------------- MODULE WorkspaceReplay ---------------------------
(***************************************************************************)
(* The workspace with an observer that compares an epoch (the time between *)
(* two resets) with the one before it.  It watches idly, until it chooses  *)
(* an epoch whose requests it records; in the epoch after that it follows  *)
(* them, for as long as the clients repeat them.                           *)
(***************************************************************************)
EXTENDS Workspace

CONSTANT MaxLog      \* bound on the requests the observer can record

VARIABLES
  phase,     \* "idle", "record" or "follow"
  log,       \* requests served in this epoch, without those rewound
  served,    \* for each open frame, the length of log when it was opened
  warm,      \* the log of the epoch before, when it follows one
  ends       \* where each request of the recorded epoch ended

observer == <<phase, log, served, warm, ends>>
replayVars == <<vars, observer>>

Request(n, a) == [size |-> n, align |-> a]
IsPrefixOf(s, t) == Len(s) <= Len(t) /\ \A i \in 1 .. Len(s) : s[i] = t[i]

\* The clients repeat the epoch before: this request is the next of its log.
Repeats(n, a) == phase = "follow" /\ IsPrefixOf(Append(log, Request(n, a)), warm)

Idle == /\ phase' = "idle" /\ log' = <<>> /\ served' = <<>> /\ warm' = <<>>
        /\ ends' = <<>>

InitReplay ==
  /\ Init
  /\ phase = "idle" /\ log = <<>> /\ served = <<>> /\ warm = <<>> /\ ends = <<>>

ReserveLogged(n) ==
  /\ ReserveFound(n) \/ ReserveGrow(n) \/ ReserveFail(n)
  /\ UNCHANGED observer

AllocateLogged(n, a) ==
  /\ AllocateFound(n, a) \/ AllocateGrow(n, a)
  /\ IF (phase = "record" /\ Len(log) < MaxLog) \/ Repeats(n, a)
     THEN /\ log' = Append(log, Request(n, a))
          /\ ends' = IF phase = "record"
                     THEN Append(ends, [block |-> current', to |-> used'[current']])
                     ELSE ends
          /\ UNCHANGED <<phase, served, warm>>
     ELSE Idle

\* reset, which no kernel calls: a new epoch begins.
ResetLogged ==
  /\ Reset
  /\ \/ Idle
     \/ phase = "idle" /\ phase' = "record" /\ UNCHANGED <<log, served, warm, ends>>
     \/ /\ phase = "record"
        /\ phase' = "follow" /\ warm' = log /\ log' = <<>>
        /\ UNCHANGED <<served, ends>>

OpenLogged ==
  /\ OpenFrame
  /\ served' = IF phase = "idle" THEN served ELSE Append(served, Len(log))
  /\ UNCHANGED <<phase, log, warm, ends>>

CloseLogged ==
  /\ CloseFrame
  /\ IF phase = "idle" THEN UNCHANGED observer
     ELSE /\ log' = SubSeq(log, 1, served[Depth])
          /\ ends' = IF phase = "record" THEN SubSeq(ends, 1, served[Depth]) ELSE ends
          /\ served' = SubSeq(served, 1, Depth - 1)
          /\ UNCHANGED <<phase, warm>>

MoveLogged == MoveFrom /\ Idle

NextReplay ==
  \/ \E n \in Sizes : ReserveLogged(n)
  \/ \E n \in Sizes, a \in Alignments : AllocateLogged(n, a)
  \/ ResetLogged \/ OpenLogged \/ CloseLogged \/ MoveLogged

SpecReplay == InitReplay /\ [][NextReplay]_replayVars

-----------------------------------------------------------------------------
\* "warmed-up kernels do not allocate on their hot path" (workspace.h:16): a
\* client that repeats after reset() the requests it made before it never makes
\* the arena grow, whatever frames came and went in either epoch.
WarmNeverGrows ==
  [][\A n \in Sizes, a \in Alignments : Repeats(n, a) => ~AllocateGrow(n, a)]_replayVars

-----------------------------------------------------------------------------
(* Why: the epoch that follows is never ahead of the one it repeats.       *)

\* The requests of the recorded epoch, so far or all of them.
Recorded == IF phase = "record" THEN log ELSE warm

\* Where the recorded epoch stood after its first i requests.
Place(i) == IF i = 0 THEN [block |-> 1, to |-> 0] ELSE ends[i]

\* Request i of the recorded epoch fitted where the one before it had left the
\* arena: after it in the same block, or at the start of a later one.
PlacedAfter(r, p, q) ==
  LET fill == IF q.block = p.block THEN p.to ELSE 0
  IN /\ q.block \in Blocks /\ q.block >= p.block
     /\ FitsAt(fill, cap[q.block], r.size, r.align)
     /\ q.to = AlignUp(fill, r.align) + r.size
IPlaced == \A i \in 1 .. Len(Recorded) : PlacedAfter(Recorded[i], Place(i - 1), Place(i))

\* Position (b, o) is that of the recorded epoch after i requests, or, in the
\* epoch that follows, not beyond it.
Reached(b, o, i) ==
  IF phase = "record" THEN b = Place(i).block /\ o = Place(i).to
                      ELSE AtOrBelow(b, o, Place(i).block, Place(i).to)

Fill == IF NBlocks = 0 THEN 0 ELSE used[current]
MarkerBlock(m) == IF m.valid THEN m.block ELSE 1
MarkerOffset(m) == IF m.valid THEN m.offset ELSE 0

\* Served counts of open frames increase and lie within the log.
IServed ==
  /\ Len(served) = Depth
  /\ \A k \in 1 .. Depth : served[k] <= Len(log)
  /\ \A j, k \in 1 .. Depth : j < k => served[j] <= served[k]

\* The arena, and every marker it can be rewound to, has reached its place.
IReached ==
  /\ Reached(current, Fill, Len(log))
  /\ \A k \in 1 .. Depth :
       Reached(MarkerBlock(frames[k]), MarkerOffset(frames[k]), served[k])

Requests == [size : Nat, align : Nat]
Places == [block : Nat, to : Nat]

\* The inductive invariant behind WarmNeverGrows.
IReplay ==
  /\ phase \in {"idle", "record", "follow"}
  /\ log \in Seq(Requests) /\ warm \in Seq(Requests)
  /\ served \in Seq(Nat) /\ ends \in Seq(Places)
  /\ IF phase = "idle" THEN log = <<>> /\ served = <<>> /\ warm = <<>> /\ ends = <<>>
     ELSE /\ Len(ends) = Len(Recorded) /\ IsPrefixOf(log, Recorded)
          /\ IPlaced /\ IServed /\ IReached
=============================================================================
