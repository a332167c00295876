-------------------------- MODULE FloatStorageProofs --------------------------
(***************************************************************************)
(* Calls of typed kernels within calls never share an arena, for any set   *)
(* of calls, workspaces and depth.  The conversions between f32, bf16 and  *)
(* f16, for formats of any width: a number is rounded once, to nearest and *)
(* ties to even, and what has been stored is loaded and stored again as it *)
(* is; a NaN stays a NaN.                                                  *)
(***************************************************************************)
EXTENDS FloatStorage, FloatConversion, ChunkPartitionProofs, TLAPS

-----------------------------------------------------------------------------
(* The calls under way and their arenas.                                   *)

\* What a sequence and its front are made of.
LEMMA SeqElements ==
  ASSUME NEW S, NEW s \in Seq(S)
  PROVE  /\ \A k \in 1 .. Len(s) : s[k] \in S
         /\ s # <<>> => SubSeq(s, 1, Len(s) - 1) \in Seq(S)
OBVIOUS

LEMMA InitInv == Init => IInv
BY StorageAssumption
DEF Init, IInv, StackTypeOK, StackOrder, WorkspacesOnce

\* The stack's state is what Refuse, NoMemory and KernelWrite leave alone.
LEMMA GrownBounds ==
  ASSUME StackTypeOK, NEW call \in Calls, Available(call)
  PROVE  /\ Grown(call) \in depth .. MaxDepth
         /\ UsesStack(call) => depth + 1 <= Grown(call) /\ depth + 1 \in 1 .. MaxDepth
BY StorageAssumption DEF StackTypeOK, Available, Grown, UsesStack

\* A call that starts takes an arena none of those under way has.
LEMMA EnterInv ==
  ASSUME IInv, NEW call \in Calls, Enter(call)
  PROVE  IInv'
<1> DEFINE n == Len(frames)
           new == [call |-> call, arena |-> Lease(call)]
<1>0. /\ Available(call)
      /\ created' = Grown(call)
      /\ depth' = IF UsesStack(call) THEN depth + 1 ELSE depth
      /\ frames' = Append(frames, new)
      /\ frames \in Seq([call : Calls, arena : Arenas])
      /\ depth \in 0 .. MaxDepth
  BY DEF Enter, Accepted, IInv, StackTypeOK
<1>1. /\ n \in Nat
      /\ DOMAIN frames = 1 .. n /\ DOMAIN frames' = 1 .. (n + 1)
      /\ \A k \in 1 .. n : frames'[k] = frames[k]
      /\ frames'[n + 1] = new
  BY <1>0
<1>T. ASSUME NEW k \in 1 .. n
      PROVE  frames[k].call \in Calls /\ frames[k].arena \in Arenas
  <2>1. frames[k] \in [call : Calls, arena : Arenas]
    BY <1>0, SeqElements
  <2> QED BY <2>1
<1>2. Lease(call) \in Arenas
  BY <1>0, GrownBounds, StorageAssumption
  DEF Lease, Arenas, IInv, UsesStack
<1>3. StackTypeOK'
  <2>1. frames' \in Seq([call : Calls, arena : Arenas])
    BY <1>0, <1>2
  <2>2. depth' \in 0 .. MaxDepth /\ created' \in depth' .. MaxDepth
    BY <1>0, GrownBounds, StorageAssumption DEF IInv, StackTypeOK
  <2> QED BY <2>1, <2>2 DEF StackTypeOK, Arenas
<1>4. StackOrder'
  <2>1. ASSUME NEW k \in 1 .. (n + 1)
        PROVE  IF UsesStack(frames'[k].call) THEN frames'[k].arena \in 1 .. depth'
               ELSE frames'[k].arena = frames'[k].call.workspace
    <3>1. CASE k = n + 1
      BY <3>1, <1>0, <1>1, StorageAssumption DEF Lease, UsesStack
    <3>2. CASE k \in 1 .. n
      BY <3>2, <1>0, <1>1 DEF IInv, StackOrder
    <3> QED BY <3>1, <3>2, <1>1
  <2>2. ASSUME NEW slot \in 1 .. depth'
        PROVE  \E k \in 1 .. (n + 1) : frames'[k].arena = slot
    <3>1. CASE slot \in 1 .. depth
      <4>1. PICK k \in 1 .. n : frames[k].arena = slot
        BY <3>1, <1>1 DEF IInv, StackOrder
      <4> QED BY <4>1, <1>1
    <3>2. CASE slot = depth + 1 /\ UsesStack(call)
      <4>1. frames'[n + 1].arena = slot
        BY <3>2, <1>1 DEF Lease, UsesStack
      <4> QED BY <4>1, <1>1
    <3> QED BY <3>1, <3>2, <1>0
  <2>3. ASSUME NEW j \in 1 .. (n + 1), NEW k \in 1 .. (n + 1), j < k,
               UsesStack(frames'[j].call), UsesStack(frames'[k].call)
        PROVE  frames'[j].arena < frames'[k].arena
    <3>1. CASE k = n + 1
      <4>1. j \in 1 .. n
        BY <3>1, <2>3, <1>1
      <4>2. frames[j].arena \in 1 .. depth
        BY <4>1, <2>3, <1>1 DEF IInv, StackOrder
      <4>3. frames'[k].arena = depth + 1
        BY <3>1, <2>3, <1>1 DEF Lease, UsesStack
      <4> QED BY <4>1, <4>2, <4>3, <1>0, <1>1
    <3>2. CASE k \in 1 .. n
      BY <3>2, <2>3, <1>1, SMTT(30) DEF IInv, StackOrder
    <3> QED BY <3>1, <3>2, <1>1
  <2> QED BY <2>1, <2>2, <2>3, <1>1 DEF StackOrder, UsesStack
<1>5. WorkspacesOnce'
  <2>1. ASSUME NEW k \in 1 .. n, ~UsesStack(call)
        PROVE  frames[k].arena # Lease(call)
    BY <2>1, <1>0, <1>1 DEF Available, Lease, UsesStack
  <2>2. ASSUME NEW k \in 1 .. n, ~UsesStack(frames[k].call)
        PROVE  frames[k].arena # Lease(call)
    <3>1. CASE UsesStack(call)
      <4>1. frames[k].call \in Calls /\ frames[k].arena = frames[k].call.workspace
        BY <2>2, <1>1, <1>T DEF IInv, StackOrder
      <4>2. frames[k].arena \in Workspaces
        BY <2>2, <4>1, StorageAssumption DEF UsesStack
      <4>3. Lease(call) \in Nat
        BY <3>1, <1>0 DEF Lease, UsesStack
      <4> QED BY <4>2, <4>3, StorageAssumption
    <3>2. CASE ~UsesStack(call)
      BY <3>2, <2>1
    <3> QED BY <3>1, <3>2
  <2>3. ASSUME NEW j \in 1 .. (n + 1), NEW k \in 1 .. (n + 1), j # k,
               ~UsesStack(frames'[j].call)
        PROVE  frames'[j].arena # frames'[k].arena
    <3>1. CASE j \in 1 .. n /\ k \in 1 .. n
      BY <3>1, <2>3, <1>1 DEF IInv, WorkspacesOnce
    <3>2. CASE j = n + 1 /\ k \in 1 .. n
      BY <3>2, <2>1, <2>3, <1>1
    <3>3. CASE k = n + 1 /\ j \in 1 .. n
      BY <3>3, <2>2, <2>3, <1>1
    <3> QED BY <3>1, <3>2, <3>3, <2>3, <1>1
  <2> QED BY <2>3, <1>1 DEF WorkspacesOnce, UsesStack
<1> QED BY <1>3, <1>4, <1>5 DEF IInv

\* A call that returns gives back the top of the stack, which is its own arena.
LEMMA ReturnInv ==
  ASSUME IInv, frames # <<>>, NEW kernelStatus, Return(kernelStatus)
  PROVE  IInv'
<1> DEFINE n == Len(frames)
<1>0. /\ frames' = SubSeq(frames, 1, n - 1)
      /\ created' = created
      /\ depth' = IF UsesStack(frames[n].call) THEN depth - 1 ELSE depth
      /\ frames \in Seq([call : Calls, arena : Arenas])
      /\ depth \in 0 .. MaxDepth
      /\ created \in depth .. MaxDepth
  BY DEF Return, DepthAfter, Top, IInv, StackTypeOK
<1>1. /\ n \in Nat \ {0}
      /\ DOMAIN frames = 1 .. n /\ DOMAIN frames' = 1 .. (n - 1)
      /\ \A k \in 1 .. (n - 1) : frames'[k] = frames[k]
  BY <1>0
<1>T. ASSUME NEW k \in 1 .. n
      PROVE  frames[k].call \in Calls /\ frames[k].arena \in Arenas
  <2>1. frames[k] \in [call : Calls, arena : Arenas]
    BY <1>0, SeqElements
  <2> QED BY <2>1
<1>S. frames' \in Seq([call : Calls, arena : Arenas])
  BY <1>0, SeqElements
<1> HIDE DEF n
<1>2. UsesStack(frames[n].call) => frames[n].arena = depth /\ depth > 0
  <2> SUFFICES ASSUME UsesStack(frames[n].call)
               PROVE  frames[n].arena = depth /\ depth > 0
    OBVIOUS
  <2>1. frames[n].arena \in 1 .. depth
    BY <1>1 DEF IInv, StackOrder
  <2>2. PICK k : k \in 1 .. n /\ frames[k].arena = depth
    BY <2>1, <1>0, <1>1 DEF IInv, StackOrder
  <2>3. CASE k = n
    BY <2>1, <2>2, <2>3, <1>0
  <2>4. CASE k < n
    <3>1. UsesStack(frames[k].call)
      <4>1. frames[k].call \in Calls
        BY <2>2, <1>T
      <4>2. depth \in Nat
        BY <1>0, StorageAssumption
      <4>3. ASSUME ~UsesStack(frames[k].call) PROVE FALSE
        <5>1. frames[k].arena = frames[k].call.workspace
          BY <4>3, <2>2, <1>1 DEF IInv, StackOrder
        <5>2. frames[k].arena \in Workspaces
          BY <5>1, <4>1, <4>3, StorageAssumption DEF UsesStack
        <5> QED BY <5>2, <4>2, <2>2, StorageAssumption
      <4> QED BY <4>3
    <3>2. frames[k].arena < frames[n].arena
      BY <3>1, <2>2, <2>4, <1>1, SMTT(30) DEF IInv, StackOrder
    <3> QED BY <3>2, <2>1, <2>2, <1>0
  <2> QED BY <2>2, <2>3, <2>4, <1>1
<1>3. StackTypeOK'
  <2> QED BY <1>S, <1>0, <1>2, StorageAssumption DEF StackTypeOK, Arenas
<1>4. StackOrder'
  <2>1. ASSUME NEW k \in 1 .. (n - 1)
        PROVE  IF UsesStack(frames'[k].call) THEN frames'[k].arena \in 1 .. depth'
               ELSE frames'[k].arena = frames'[k].call.workspace
    <3>1. CASE UsesStack(frames[k].call) /\ UsesStack(frames[n].call)
      <4>1. frames[k].arena < frames[n].arena /\ frames[k].arena \in 1 .. depth
        BY <3>1, <1>1, SMTT(30) DEF IInv, StackOrder
      <4> QED BY <4>1, <3>1, <1>0, <1>1, <1>2
    <3>2. CASE UsesStack(frames[k].call) /\ ~UsesStack(frames[n].call)
      BY <3>2, <1>0, <1>1 DEF IInv, StackOrder
    <3>3. CASE ~UsesStack(frames[k].call)
      BY <3>3, <1>1 DEF IInv, StackOrder
    <3> QED BY <3>1, <3>2, <3>3
  <2>2. ASSUME NEW slot \in 1 .. depth'
        PROVE  \E k \in 1 .. (n - 1) : frames'[k].arena = slot
    <3>1. slot \in 1 .. depth
      BY <1>0
    <3>2. PICK k : k \in 1 .. n /\ frames[k].arena = slot
      BY <3>1, <1>1 DEF IInv, StackOrder
    <3>3. k # n
      <4>1. CASE UsesStack(frames[n].call)
        BY <4>1, <1>0, <1>2, <3>2
      <4>2. CASE ~UsesStack(frames[n].call)
        <5>1. frames[n].call \in Calls /\ frames[n].arena = frames[n].call.workspace
          BY <4>2, <1>1, <1>T DEF IInv, StackOrder
        <5>2. frames[n].arena \in Workspaces
          BY <4>2, <5>1, StorageAssumption DEF UsesStack
        <5>3. slot \in Nat
          BY <3>1, <1>0
        <5> QED BY <5>2, <5>3, <3>2, StorageAssumption
      <4> QED BY <4>1, <4>2
    <3>4. k \in 1 .. (n - 1) /\ frames'[k] = frames[k]
      BY <3>2, <3>3, <1>1
    <3> QED BY <3>2, <3>4
  <2>3. ASSUME NEW j \in 1 .. (n - 1), NEW k \in 1 .. (n - 1), j < k,
               UsesStack(frames'[j].call), UsesStack(frames'[k].call)
        PROVE  frames'[j].arena < frames'[k].arena
    BY <2>3, <1>1, SMTT(30) DEF IInv, StackOrder
  <2> QED BY <2>1, <2>2, <2>3, <1>1 DEF StackOrder, UsesStack
<1>5. WorkspacesOnce'
  BY <1>1 DEF IInv, WorkspacesOnce, UsesStack
<1> QED BY <1>3, <1>4, <1>5 DEF IInv

\* Steps that leave the frames and the depth alone.
LEMMA OtherInv ==
  ASSUME IInv, UNCHANGED <<depth, frames>>, created' \in depth .. MaxDepth
  PROVE  IInv'
BY DEF IInv, StackTypeOK, StackOrder, WorkspacesOnce, Arenas, UsesStack

LEMMA NextInv == IInv /\ [Next]_vars => IInv'
<1> SUFFICES ASSUME IInv, [Next]_vars PROVE IInv'
  OBVIOUS
<1>0. created \in depth .. MaxDepth
  BY DEF IInv, StackTypeOK
<1>1. ASSUME NEW call \in Calls, Refuse(call) PROVE IInv'
  BY <1>0, <1>1, OtherInv DEF Refuse
<1>2. ASSUME NEW call \in Calls, NoMemory(call) PROVE IInv'
  <2>1. Grown(call) \in depth .. MaxDepth
    BY <1>2, GrownBounds DEF IInv, NoMemory, Accepted
  <2> QED BY <1>0, <1>2, <2>1, OtherInv DEF NoMemory
<1>3. ASSUME NEW call \in Calls, NoMemoryDecoded(call) PROVE IInv'
  <2>1. Grown(call) \in depth .. MaxDepth
    BY <1>3, GrownBounds DEF IInv, NoMemoryDecoded, Accepted
  <2> QED BY <1>3, <2>1, OtherInv DEF NoMemoryDecoded
<1>4. ASSUME NEW call \in Calls, Enter(call) PROVE IInv'
  BY <1>4, EnterInv
<1>5. ASSUME frames # <<>>, NEW t, NEW i, NEW bits, KernelWrite(t, i, bits) PROVE IInv'
  BY <1>0, <1>5, OtherInv DEF KernelWrite
<1>6. ASSUME frames # <<>>, NEW kernelStatus, Return(kernelStatus) PROVE IInv'
  BY <1>6, ReturnInv
<1>7. CASE UNCHANGED vars
  BY <1>0, <1>7, OtherInv DEF vars
<1> QED BY <1>1, <1>2, <1>3, <1>4, <1>5, <1>6, <1>7 DEF Next

\* The stack of arenas and the calls under way agree, for any calls and any depth.
THEOREM StackInvariant == Spec => []IInv
<1>1. Init => IInv
  BY InitInv
<1>2. IInv /\ [Next]_vars => IInv'
  BY NextInv
<1> QED BY <1>1, <1>2, PTL DEF Spec

LEMMA InvExclusive == IInv => LeasesExclusive
<1> SUFFICES ASSUME IInv, NEW j \in DOMAIN frames, NEW k \in DOMAIN frames, j # k
             PROVE  frames[j].arena # frames[k].arena
  BY DEF LeasesExclusive
<1>1. j \in Int /\ k \in Int
  BY DEF IInv, StackTypeOK
<1>2. CASE UsesStack(frames[j].call) /\ UsesStack(frames[k].call)
  <2>1. frames[j].arena \in Int /\ frames[k].arena \in Int
    BY <1>2 DEF IInv, StackOrder, StackTypeOK
  <2>2. CASE j < k
    BY <1>2, <2>1, <2>2 DEF IInv, StackOrder
  <2>3. CASE k < j
    BY <1>2, <2>1, <2>3 DEF IInv, StackOrder
  <2> QED BY <1>1, <2>2, <2>3
<1>3. CASE ~UsesStack(frames[j].call)
  BY <1>3 DEF IInv, WorkspacesOnce
<1>4. CASE ~UsesStack(frames[k].call)
  BY <1>4 DEF IInv, WorkspacesOnce
<1> QED BY <1>2, <1>3, <1>4

\* A typed kernel that calls typed kernels keeps its f32 copies to itself: no two calls
\* under way convert through one arena (float_storage_ref.cpp:411).
THEOREM CallsKeepApart == Spec => []LeasesExclusive
<1>1. IInv => LeasesExclusive
  BY InvExclusive
<1> QED BY <1>1, StackInvariant, PTL

-----------------------------------------------------------------------------
(* Powers of two.                                                          *)

\* The recursion has a solution: one for each prefix of the numbers, and these agree.
LEMMA PowerRecursion ==
  /\ PowerOfTwo[0] = 1
  /\ \A n \in Nat : n # 0 => PowerOfTwo[n] = 2 * PowerOfTwo[n - 1]
<1> DEFINE Step(f, e) == IF e = 0 THEN 1 ELSE 2 * f[e - 1]
           Upto(f, n) == f \in [0 .. n -> Nat] /\ \A e \in 0 .. n : f[e] = Step(f, e)
           T == {n \in Nat : ~(\E f : Upto(f, n))}
<1>1. T = {}
  <2> SUFFICES ASSUME T # {} PROVE FALSE
    OBVIOUS
  <2>1. PICK n \in T : \A y \in T : n <= y
    <3>1. T \in SUBSET Nat
      OBVIOUS
    <3> HIDE DEF T
    <3> QED BY <3>1, LeastNatural
  <2>2. n \in Nat /\ ~(\E f : Upto(f, n))
    OBVIOUS
  <2>3. CASE n = 0
    <3>1. Upto([e \in 0 .. 0 |-> 1], 0)
      OBVIOUS
    <3> HIDE DEF Upto
    <3> QED BY <2>2, <2>3, <3>1
  <2>4. CASE n # 0
    <3>1. n - 1 \in Nat /\ n - 1 < n
      BY <2>2, <2>4
    <3>2. n - 1 \notin T
      <4> HIDE DEF T
      <4> QED BY <2>1, <2>2, <3>1
    <3>3. PICK f : Upto(f, n - 1)
      BY <3>1, <3>2
    <3> DEFINE g == [e \in 0 .. n |-> IF e = n THEN 2 * f[n - 1] ELSE f[e]]
    <3>4. f[n - 1] \in Nat /\ 2 * f[n - 1] \in Nat
      BY <3>1, <3>3
    <3>5. \A e \in 0 .. (n - 1) : g[e] = f[e] /\ f[e] \in Nat /\ f[e] = Step(f, e)
      BY <2>2, <3>3
    <3>6. \A e \in 0 .. (n - 1) : e # 0 => e - 1 \in 0 .. (n - 1)
      BY <2>2
    <3>7. \A e \in 0 .. (n - 1) : g[e] = Step(g, e)
      BY <3>5, <3>6
    <3>8. g[n] = Step(g, n)
      <4>1. n - 1 \in 0 .. (n - 1) /\ n \in 0 .. n
        BY <2>2, <3>1
      <4>2. g[n - 1] = f[n - 1] /\ g[n] = 2 * f[n - 1]
        BY <3>5, <4>1
      <4> HIDE DEF g
      <4> QED BY <2>4, <4>2
    <3>9. \A e \in 0 .. n : e = n \/ e \in 0 .. (n - 1)
      BY <2>2
    <3>10. g \in [0 .. n -> Nat]
      <4>1. \A e \in 0 .. n : g[e] \in Nat
        BY <3>4, <3>5, <3>9
      <4> QED BY <4>1
    <3>11. Upto(g, n)
      <4> HIDE DEF g, Step
      <4> QED BY <3>7, <3>8, <3>9, <3>10
    <3> HIDE DEF Upto, g
    <3> QED BY <2>2, <3>11
  <2> QED BY <2>3, <2>4
<1> DEFINE Prefix(n) == CHOOSE f : Upto(f, n)
<1>2. \A n \in Nat : Upto(Prefix(n), n)
  <2> SUFFICES ASSUME NEW n \in Nat PROVE Upto(Prefix(n), n)
    OBVIOUS
  <2>1. \E f : Upto(f, n)
    BY <1>1
  <2> HIDE DEF Upto
  <2> QED BY <2>1
<1>3. ASSUME NEW n \in Nat, n # 0 PROVE Prefix(n)[n - 1] = Prefix(n - 1)[n - 1]
  <2> DEFINE f == Prefix(n)  g == Prefix(n - 1)
             U == {e \in Nat : e \in 0 .. (n - 1) /\ f[e] # g[e]}
  <2>0. n - 1 \in Nat
    BY <1>3
  <2>1. Upto(f, n) /\ Upto(g, n - 1)
    BY <1>2, <2>0
  <2> HIDE DEF f, g, Prefix
  <2>2. \A e \in 0 .. (n - 1) : f[e] = Step(f, e) /\ g[e] = Step(g, e)
    BY <2>0, <2>1
  <2>3. U = {}
    <3> SUFFICES ASSUME U # {} PROVE FALSE
      OBVIOUS
    <3>1. PICK e \in U : \A y \in U : e <= y
      <4>1. U \in SUBSET Nat
        OBVIOUS
      <4> HIDE DEF U
      <4> QED BY <4>1, LeastNatural
    <3>2. e \in 0 .. (n - 1) /\ f[e] # g[e] /\ e \in Nat
      OBVIOUS
    <3>3. e # 0
      BY <2>2, <3>2
    <3>4. e - 1 \in Nat /\ e - 1 \in 0 .. (n - 1) /\ e - 1 < e
      BY <2>0, <3>2, <3>3
    <3>5. f[e - 1] = g[e - 1]
      BY <3>1, <3>4
    <3> QED BY <2>2, <3>2, <3>3, <3>5
  <2>4. n - 1 \in 0 .. (n - 1)
    BY <2>0
  <2> QED BY <2>0, <2>3, <2>4 DEF f, g
<1> DEFINE P == [n \in Nat |-> Prefix(n)[n]]
<1>4. P = [n \in Nat |-> Step(P, n)]
  <2>1. \A n \in Nat : \A f : Upto(f, n) => f[n] = Step(f, n)
    OBVIOUS
  <2>2. \A n \in Nat : P[n] = Prefix(n)[n]
    OBVIOUS
  <2>3. \A n \in Nat : n # 0 => n - 1 \in Nat
    OBVIOUS
  <2>4. P = [n \in Nat |-> P[n]]
    OBVIOUS
  <2> HIDE DEF Upto, Prefix, P, Step
  <2>5. \A n \in Nat : Prefix(n)[n] = Step(Prefix(n), n)
    BY <1>2, <2>1
  <2>6. \A n \in Nat : n # 0 => Prefix(n)[n - 1] = P[n - 1]
    BY <1>3, <2>2, <2>3
  <2>7. \A n \in Nat : P[n] = Step(P, n)
    BY <2>2, <2>5, <2>6 DEF Step
  <2> QED BY <2>4, <2>7
<1> HIDE DEF P
<1> DEFINE Solves(w) == w = [n \in Nat |-> Step(w, n)]
<1>5. Solves(P)
  BY <1>4
<1>6. PowerOfTwo = CHOOSE w : Solves(w)
  BY DEF PowerOfTwo
<1>7. Solves(PowerOfTwo)
  <2> HIDE DEF Solves
  <2> QED BY <1>5, <1>6
<1> QED BY <1>7

\* Powers are positive, and each is twice the one before.
LEMMA PowerLaw ==
  /\ PowerOfTwo[0] = 1
  /\ \A n \in Nat : PowerOfTwo[n] \in Nat \ {0} /\ PowerOfTwo[n + 1] = 2 * PowerOfTwo[n]
<1> DEFINE T == {n \in Nat : PowerOfTwo[n] \notin Nat \ {0}}
<1>1. T = {}
  <2> SUFFICES ASSUME T # {} PROVE FALSE
    OBVIOUS
  <2>1. PICK n \in T : \A y \in T : n <= y
    <3>1. T \in SUBSET Nat
      OBVIOUS
    <3> HIDE DEF T
    <3> QED BY <3>1, LeastNatural
  <2>2. n # 0
    BY PowerRecursion
  <2>3. n - 1 \in Nat /\ n - 1 < n
    BY <2>2
  <2>4. PowerOfTwo[n - 1] \in Nat \ {0}
    BY <2>1, <2>3
  <2> QED BY <2>2, <2>4, PowerRecursion
<1>2. ASSUME NEW n \in Nat PROVE PowerOfTwo[n + 1] = 2 * PowerOfTwo[n]
  BY PowerRecursion
<1> QED BY <1>1, <1>2, PowerRecursion

\* The powers multiply as their exponents add up.
LEMMA PowerSum ==
  ASSUME NEW a \in Nat, NEW b \in Nat
  PROVE  PowerOfTwo[a + b] = PowerOfTwo[a] * PowerOfTwo[b]
<1> DEFINE T == {n \in Nat : PowerOfTwo[a + n] # PowerOfTwo[a] * PowerOfTwo[n]}
<1>1. T = {}
  <2> SUFFICES ASSUME T # {} PROVE FALSE
    OBVIOUS
  <2>1. PICK n \in T : \A y \in T : n <= y
    <3>1. T \in SUBSET Nat
      OBVIOUS
    <3> HIDE DEF T
    <3> QED BY <3>1, LeastNatural
  <2>2. n # 0
    BY PowerLaw
  <2>3. n - 1 \in Nat /\ n - 1 < n /\ a + n = (a + (n - 1)) + 1 /\ a + (n - 1) \in Nat
        /\ n = (n - 1) + 1
    BY <2>2
  <2>4. PowerOfTwo[a + (n - 1)] = PowerOfTwo[a] * PowerOfTwo[n - 1]
    BY <2>1, <2>3
  <2>5. PowerOfTwo[a + n] = 2 * PowerOfTwo[a + (n - 1)] /\ PowerOfTwo[n] = 2 * PowerOfTwo[n - 1]
    BY <2>3, PowerLaw
  <2>6. PowerOfTwo[a] \in Nat /\ PowerOfTwo[n - 1] \in Nat
    BY <2>3, PowerLaw
  <2>7. \A x, y \in Nat : 2 * (x * y) = x * (2 * y)
    OBVIOUS
  <2>8. PowerOfTwo[a + n] = PowerOfTwo[a] * PowerOfTwo[n]
    BY <2>4, <2>5, <2>6, <2>7
  <2> QED BY <2>8
<1> QED BY <1>1
-----------------------------------------------------------------------------
\* What the next pattern is worth more than one of this exponent.
Ulp(exp) == IF exp = 0 THEN 1 ELSE PowerOfTwo[exp - 1]

\* It is worth something.
LEMMA UlpPositive == ASSUME NEW e \in Nat PROVE Ulp(e) \in Nat \ {0}
<1>1. CASE e = 0
  BY <1>1 DEF Ulp
<1>2. CASE e # 0
  <2>1. e - 1 \in Nat
    BY <1>2
  <2> QED BY <1>2, <2>1, PowerLaw DEF Ulp
<1> QED BY <1>1, <1>2

\* A pattern put together from an exponent and a mantissa is worth what these say.
LEMMA ValueOfParts ==
  ASSUME NEW K \in Nat \ {0}, NEW e \in Nat, NEW m \in 0 .. (K - 1)
  PROVE  ValueOf(K * e + m, K) = IF e = 0 THEN m ELSE (K + m) * PowerOfTwo[e - 1]
<1>1. (K * e + m) \div K = e /\ (K * e + m) % K = m
  BY DivModUnique
<1> QED BY <1>1 DEF ValueOf

\* Patterns are worth whole multiples of the smallest subnormal.
LEMMA ValueType ==
  ASSUME NEW K \in Nat \ {0}, NEW u \in Nat
  PROVE  ValueOf(u, K) \in Nat
<1> DEFINE e == u \div K
           m == u % K
<1>1. e \in Nat /\ m \in Nat
  BY DivMod
<1>2. CASE e = 0
  BY <1>1, <1>2 DEF ValueOf
<1>3. CASE e # 0
  <2>1. PowerOfTwo[e - 1] \in Nat
    <3>1. e - 1 \in Nat
      BY <1>1, <1>3
    <3> HIDE DEF e
    <3> QED BY <3>1, PowerLaw
  <2>2. K + m \in Nat
    BY <1>1
  <2>3. ValueOf(u, K) = (K + m) * PowerOfTwo[e - 1]
    BY <1>3 DEF ValueOf
  <2>4. \A x, y \in Nat : x * y \in Nat
    OBVIOUS
  <2> HIDE DEF e, m
  <2> QED BY <2>1, <2>2, <2>3, <2>4
<1> QED BY <1>2, <1>3

\* The next pattern is worth a unit in the last place more, where the exponent changes as
\* elsewhere.
LEMMA ValueStep ==
  ASSUME NEW K \in Nat \ {0}, NEW u \in Nat
  PROVE  ValueOf(u + 1, K) = ValueOf(u, K) + Ulp(u \div K)
<1> DEFINE e == u \div K
           m == u % K
<1>1. e \in Nat /\ m \in 0 .. (K - 1) /\ u = K * e + m
  BY DivMod
<1>2. ValueOf(u, K) = IF e = 0 THEN m ELSE (K + m) * PowerOfTwo[e - 1]
  BY DEF ValueOf
<1>3. e # 0 => e - 1 \in Nat /\ PowerOfTwo[e - 1] \in Nat /\ PowerOfTwo[e] = 2 * PowerOfTwo[e - 1]
  <2> SUFFICES ASSUME e # 0
               PROVE e - 1 \in Nat /\ PowerOfTwo[e - 1] \in Nat /\ PowerOfTwo[e] = 2 * PowerOfTwo[e - 1]
    OBVIOUS
  <2> HIDE DEF e
  <2>1. e - 1 \in Nat /\ e = (e - 1) + 1
    BY <1>1
  <2> QED BY <2>1, PowerLaw
<1> HIDE DEF e, m
<1>4. CASE m + 1 < K
  <2>1. m + 1 \in 0 .. (K - 1) /\ u + 1 = K * e + (m + 1)
    BY <1>1, <1>4
  <2>2. ValueOf(u + 1, K) = IF e = 0 THEN m + 1 ELSE (K + (m + 1)) * PowerOfTwo[e - 1]
    <3> DEFINE n == m + 1
    <3> HIDE DEF n
    <3>1. n \in 0 .. (K - 1) /\ u + 1 = K * e + n
      BY ONLY <2>1 DEF n
    <3>2. K \in Nat \ {0} /\ e \in Nat
      BY <1>1
    <3>3. ValueOf(K * e + n, K) = IF e = 0 THEN n ELSE (K + n) * PowerOfTwo[e - 1]
      BY ONLY <3>1, <3>2, ValueOfParts, ZenonT(30)
    <3>4. ValueOf(u + 1, K) = IF e = 0 THEN n ELSE (K + n) * PowerOfTwo[e - 1]
      BY ONLY <3>1, <3>3, Zenon
    <3> QED BY ONLY <3>4, Zenon DEF n
  <2>3. \A p \in Nat : (K + (m + 1)) * p = (K + m) * p + p
    BY <1>1
  <2>4. Ulp(e) = IF e = 0 THEN 1 ELSE PowerOfTwo[e - 1]
    BY DEF Ulp
  <2>5. CASE e = 0
    BY <1>2, <2>2, <2>4, <2>5 DEF e
  <2>6. CASE e # 0
    BY <1>2, <1>3, <2>2, <2>3, <2>4, <2>6 DEF e
  <2> QED BY <2>5, <2>6
<1>5. CASE m + 1 = K
  <2>1. u + 1 = K * (e + 1) + 0 /\ 0 \in 0 .. (K - 1) /\ e + 1 \in Nat /\ e + 1 # 0 /\ (e + 1) - 1 = e
    BY <1>1, <1>5
  <2>2. ValueOf(u + 1, K) = (K + 0) * PowerOfTwo[e]
    BY <2>1, ValueOfParts
  <2>3. K + 0 = K /\ K + m = 2 * K - 1
    BY <1>1, <1>5
  <2>4. Ulp(e) = IF e = 0 THEN 1 ELSE PowerOfTwo[e - 1]
    BY DEF Ulp
  <2>5. CASE e = 0
    <3>1. K * PowerOfTwo[0] = K
      BY PowerLaw
    <3> QED BY <1>1, <1>2, <1>5, <2>2, <2>3, <2>4, <2>5, <3>1 DEF e
  <2>6. CASE e # 0
    <3>1. \A p \in Nat : K * (2 * p) = (2 * K - 1) * p + p
      OBVIOUS
    <3>2. K * PowerOfTwo[e] = (K + m) * PowerOfTwo[e - 1] + PowerOfTwo[e - 1]
      BY <1>3, <2>3, <2>6, <3>1
    <3> QED BY <1>2, <2>2, <2>3, <2>4, <2>6, <3>2 DEF e
  <2> QED BY <2>5, <2>6
<1> QED BY <1>1, <1>4, <1>5

\* Patterns are in the order of what they are worth.
LEMMA ValueMonotone ==
  ASSUME NEW K \in Nat \ {0}, NEW a \in Nat, NEW b \in Nat, a < b
  PROVE  ValueOf(a, K) < ValueOf(b, K)
<1> DEFINE T == {n \in Nat : ~(ValueOf(a, K) < ValueOf(a + 1 + n, K))}
<1>1. T = {}
  <2> SUFFICES ASSUME T # {} PROVE FALSE
    OBVIOUS
  <2>1. PICK n \in T : \A y \in T : n <= y
    <3>1. T \in SUBSET Nat
      OBVIOUS
    <3> HIDE DEF T
    <3> QED BY <3>1, LeastNatural
  <2>2. n \in Nat /\ ~(ValueOf(a, K) < ValueOf(a + 1 + n, K))
    OBVIOUS
  <2>3. \A c \in Nat : ValueOf(c, K) \in Nat /\ ValueOf(c + 1, K) > ValueOf(c, K)
    <3> SUFFICES ASSUME NEW c \in Nat
                 PROVE  ValueOf(c, K) \in Nat /\ ValueOf(c + 1, K) > ValueOf(c, K)
      OBVIOUS
    <3>1. ValueOf(c, K) \in Nat
      BY ValueType
    <3>2. Ulp(c \div K) \in Nat \ {0}
      <4>1. c \div K \in Nat
        BY DivMod
      <4> QED BY <4>1, UlpPositive
    <3>3. ValueOf(c + 1, K) = ValueOf(c, K) + Ulp(c \div K)
      BY ValueStep
    <3> HIDE DEF T
    <3> QED BY <3>1, <3>2, <3>3
  <2>4. CASE n = 0
    <3>1. a + 1 + n = a + 1
      BY <2>4
    <3> QED BY <2>2, <2>3, <3>1
  <2>5. CASE n # 0
    <3>1. n - 1 \in Nat /\ n - 1 < n /\ a + 1 + n = (a + 1 + (n - 1)) + 1 /\ a + 1 + (n - 1) \in Nat
      BY <2>2, <2>5
    <3>2. ValueOf(a, K) < ValueOf(a + 1 + (n - 1), K)
      BY <2>1, <3>1
    <3> DEFINE c == a + 1 + (n - 1)
    <3>3. ValueOf(c + 1, K) > ValueOf(c, K) /\ ValueOf(c, K) \in Nat
      BY <2>3, <3>1
    <3>4. ValueOf(c + 1, K) \in Nat
      BY <2>3, <3>1
    <3>5. ValueOf(a, K) \in Nat
      BY <2>3
    <3>6. a + 1 + n = c + 1
      BY <3>1
    <3> HIDE DEF c
    <3> QED BY <2>2, <3>2, <3>3, <3>4, <3>5, <3>6 DEF c
  <2> QED BY <2>2, <2>4, <2>5
<1>2. b - a - 1 \in Nat /\ b = a + 1 + (b - a - 1)
  OBVIOUS
<1>3. b - a - 1 \notin T
  <2> HIDE DEF T
  <2> QED BY <1>1
<1> QED BY <1>2, <1>3

\* What the assumption says of the formats.
Formats ==
  /\ MantLow \in Nat \ {0} /\ MantHigh \in Nat \ {0} /\ HalfMant \in Nat \ {0}
  /\ Mant \in Nat \ {0} /\ Drop \in Nat \ {0}
  /\ MantLow \div 2 \in Nat \ {0} /\ MantLow = 2 * (MantLow \div 2)
  /\ MantHigh \div 2 \in Nat \ {0} /\ MantHigh = 2 * (MantHigh \div 2)
  /\ HalfMant \div 2 \in Nat \ {0} /\ HalfMant = 2 * (HalfMant \div 2)
  /\ Drop \div 2 \in Nat \ {0} /\ Drop = 2 * (Drop \div 2)
  /\ Mant = MantHigh * MantLow /\ Mant = HalfMant * Drop
  /\ HalfBits \in Nat \ {0} /\ HalfMant = PowerOfTwo[HalfBits]
  /\ Bias \in Nat /\ HalfBias \in Nat
  /\ Rebias = Bias - HalfBias /\ Rebias \in Nat /\ HalfBits < Rebias

LEMMA FormatFacts == Formats
<1>1. /\ MantLow \in Nat \ {0} /\ MantLow \div 2 \in Nat \ {0} /\ MantLow = 2 * (MantLow \div 2)
      /\ MantHigh \in Nat \ {0} /\ MantHigh \div 2 \in Nat \ {0} /\ MantHigh = 2 * (MantHigh \div 2)
  BY FormatAssumption
<1>2. Mant \in Nat \ {0} /\ Mant = MantHigh * MantLow
  BY <1>1, ProductPositive DEF Mant
<1>3. HalfBits \in Nat \ {0} /\ HalfBits - 1 \in Nat /\ HalfBits = (HalfBits - 1) + 1
  BY FormatAssumption
<1>4. HalfMant = 2 * PowerOfTwo[HalfBits - 1] /\ PowerOfTwo[HalfBits - 1] \in Nat \ {0}
  BY <1>3, PowerLaw DEF HalfMant
<1>5. HalfMant \in Nat \ {0} /\ HalfMant \div 2 \in Nat \ {0} /\ HalfMant = 2 * (HalfMant \div 2)
  BY <1>4
<1>6. HalfMant = PowerOfTwo[HalfBits]
  BY DEF HalfMant
<1>7. Drop \in Nat \ {0} /\ Drop \div 2 \in Nat \ {0} /\ Drop = 2 * (Drop \div 2) /\ Mant = HalfMant * Drop
  <2> DEFINE b == 2 * HalfMant
             c == Mant \div b
  <2>1. Mant % b = 0
    BY FormatAssumption
  <2>2. b \in Nat \ {0}
    BY <1>5
  <2>3. c \in Nat /\ Mant = b * c + 0
    <3> HIDE DEF b
    <3>1. Mant \div b \in Nat /\ Mant = b * (Mant \div b) + (Mant % b)
      BY ONLY <1>2, <2>2, DivMod
    <3> QED BY ONLY <2>1, <3>1
  <2>4. c # 0
    BY <1>2, <2>2, <2>3
  <2> HIDE DEF c
  <2>5. (2 * HalfMant) * c = HalfMant * (2 * c) /\ 2 * c \in Nat /\ (2 * HalfMant) * c \in Nat
    BY <1>5, <2>3
  <2>6. Mant = HalfMant * (2 * c) + 0 /\ 0 \in 0 .. (HalfMant - 1)
    BY <1>5, <2>3, <2>5
  <2>7. (HalfMant * (2 * c) + 0) \div HalfMant = 2 * c
    BY <1>5, <2>5, <2>6, DivModUnique
  <2>8. Drop = 2 * c
    BY <2>6, <2>7 DEF Drop
  <2>9. Drop \in Nat \ {0} /\ Drop \div 2 \in Nat \ {0} /\ Drop = 2 * (Drop \div 2)
    BY <2>3, <2>4, <2>8
  <2>10. Mant = HalfMant * Drop
    BY <2>3, <2>5, <2>8
  <2> QED BY <2>9, <2>10
<1>8. Bias \in Nat /\ HalfBias \in Nat /\ Rebias = Bias - HalfBias /\ Rebias \in Nat /\ HalfBits < Rebias
  BY FormatAssumption DEF Rebias
<1> QED BY <1>1, <1>2, <1>3, <1>5, <1>6, <1>7, <1>8 DEF Formats
-----------------------------------------------------------------------------
(* What stored numbers are worth.                                          *)

\* The mantissas of a type, and what its smallest number is worth.
Mants(t) == IF t = "bf16" THEN MantHigh ELSE HalfMant
Smallest(t) == IF t = "bf16" THEN MantLow ELSE PowerOfTwo[Rebias] * Drop

\* A stored number is worth its value in its own type, times the smallest of that type.
LEMMA WorthScaled ==
  ASSUME NEW t, NEW u \in Nat
  PROVE  /\ Mants(t) \in Nat \ {0} /\ Smallest(t) \in Nat \ {0}
         /\ Worth(t, u) = ValueOf(u, Mants(t)) * Smallest(t)
<1>1. Mants(t) \in Nat \ {0}
  BY FormatFacts DEF Formats, Mants
<1>2. PowerOfTwo[Rebias] \in Nat \ {0}
  BY FormatFacts, PowerLaw DEF Formats
<1>3. Smallest(t) \in Nat \ {0}
  <2>1. PowerOfTwo[Rebias] * Drop \in Nat \ {0}
    BY <1>2, FormatFacts, ProductPositive DEF Formats
  <2> QED BY <2>1, FormatFacts DEF Formats, Smallest
<1>4. CASE t = "bf16"
  BY <1>1, <1>3, <1>4 DEF Worth, Mants, Smallest
<1>5. CASE t # "bf16"
  <2>1. HalfMant \in Nat \ {0} /\ Drop \in Nat
    BY FormatFacts DEF Formats
  <2>2. ValueOf(u, HalfMant) \in Nat
    BY <2>1, ValueType
  <2>3. \A a, b, c \in Nat : (a * b) * c = a * (b * c)
    OBVIOUS
  <2>4. ValueOf(u, HalfMant) * PowerOfTwo[Rebias] * Drop = ValueOf(u, HalfMant) * (PowerOfTwo[Rebias] * Drop)
    BY <1>2, <2>1, <2>2, <2>3
  <2> QED BY <1>1, <1>3, <1>5, <2>4 DEF Worth, Mants, Smallest
<1> QED BY <1>4, <1>5

\* Stored numbers are worth whole multiples of the smallest f32.
LEMMA WorthType == ASSUME NEW t, NEW u \in Nat PROVE Worth(t, u) \in Nat
<1>1. ValueOf(u, Mants(t)) \in Nat
  BY WorthScaled, ValueType
<1>2. \A a, b \in Nat : a * b \in Nat
  OBVIOUS
<1> QED BY <1>1, <1>2, WorthScaled

\* Stored numbers are in the order of what they are worth.
LEMMA WorthMonotone ==
  ASSUME NEW t, NEW a \in Nat, NEW b \in Nat, a < b
  PROVE  Worth(t, a) < Worth(t, b)
<1>1. Mants(t) \in Nat \ {0} /\ Smallest(t) \in Nat \ {0}
  BY WorthScaled
<1>2. ValueOf(a, Mants(t)) \in Nat /\ ValueOf(b, Mants(t)) \in Nat
  BY <1>1, ValueType
<1>3. ValueOf(a, Mants(t)) < ValueOf(b, Mants(t))
  BY <1>1, ValueMonotone
<1>4. ValueOf(a, Mants(t)) * Smallest(t) < ValueOf(b, Mants(t)) * Smallest(t)
  BY <1>1, <1>2, <1>3, ProductStrict
<1> QED BY <1>4, WorthScaled

\* The next number is worth more by the unit in the last place.
LEMMA WorthStep ==
  ASSUME NEW t, NEW a \in Nat
  PROVE  Worth(t, a + 1) = Worth(t, a) + Ulp(a \div Mants(t)) * Smallest(t)
<1> DEFINE K == Mants(t)
           s == Smallest(t)
           U == Ulp(a \div K)
           v == ValueOf(a, K)
<1>1. K \in Nat \ {0} /\ s \in Nat /\ a + 1 \in Nat
  BY WorthScaled
<1>2. v \in Nat /\ ValueOf(a + 1, K) = v + U
  BY <1>1, ValueType, ValueStep
<1>3. U \in Nat
  <2>1. a \div K \in Nat
    BY <1>1, DivMod
  <2> QED BY <2>1, UlpPositive
<1>4. Worth(t, a) = v * s
  BY WorthScaled
<1>5. Worth(t, a + 1) = ValueOf(a + 1, K) * s
  BY <1>1, WorthScaled
<1> HIDE DEF U, v, s, K
<1>6. (v + U) * s = v * s + U * s
  BY <1>1, <1>2, <1>3
<1> QED BY <1>2, <1>4, <1>5, <1>6 DEF U, s, K, v

\* Infinity is the first pattern of the top exponent.
LEMMA InfinityNat ==
  /\ Infinity["f32"] = TopExp * Mant /\ Infinity["bf16"] = TopExp * MantHigh
  /\ Infinity["f16"] = HalfTopExp * HalfMant
  /\ \A t \in Types : Infinity[t] \in Nat
  /\ TopExp \in Nat \ {0} /\ HalfTopExp \in Nat \ {0}
<1>1. TopExp \in Nat \ {0} /\ HalfTopExp \in Nat \ {0}
  BY FormatFacts DEF Formats, TopExp, HalfTopExp
<1>2. /\ Infinity["f32"] = TopExp * Mant /\ Infinity["bf16"] = TopExp * MantHigh
      /\ Infinity["f16"] = HalfTopExp * HalfMant
  BY DEF Infinity
<1>3. \A a, b \in Nat : a * b \in Nat
  OBVIOUS
<1>4. Infinity["f32"] \in Nat /\ Infinity["bf16"] \in Nat /\ Infinity["f16"] \in Nat
  BY <1>1, <1>2, <1>3, FormatFacts DEF Formats
<1> QED BY <1>1, <1>2, <1>4 DEF Types, ReducedTypes
-----------------------------------------------------------------------------
\* A remainder, rounded to nearest and ties to even.
Up(a, rem, step) == rem > step \div 2 \/ (rem = step \div 2 /\ a % 2 = 1)

\* An f32 that lies rem steps of g above what a is worth, where the next number is step of
\* them above, is rounded by the remainder.
LEMMA RemainderRounds ==
  ASSUME NEW t \in ReducedTypes, NEW x \in Nat, x # Infinity["f32"],
         NEW a \in Nat, a + 1 <= Infinity[t],
         NEW step \in Nat \ {0}, step = 2 * (step \div 2), NEW g \in Nat \ {0},
         NEW rem \in 0 .. (step - 1),
         ValueOf(x, Mant) = Worth(t, a) + rem * g,
         Worth(t, a + 1) = Worth(t, a) + step * g
  PROVE  /\ Rounded(t, x, IF Up(a, rem, step) THEN a + 1 ELSE a)
         /\ (IF Up(a, rem, step) THEN a + 1 ELSE a) \in 0 .. Infinity[t]
<1> DEFINE u == IF Up(a, rem, step) THEN a + 1 ELSE a
           v == ValueOf(x, Mant)
           below == rem * g
           above == (step - rem) * g
           top == Infinity[t]
<1>1. top \in Nat
  BY InfinityNat DEF Types
<1>2. u \in 0 .. top
  BY <1>1
<1>3. /\ step - rem \in Nat \ {0} /\ above \in Nat \ {0} /\ below \in Nat
      /\ below + above = step * g
  <2>1. step - rem \in Nat \ {0} /\ rem \in Nat
    OBVIOUS
  <2>2. above \in Nat \ {0}
    BY <2>1, ProductPositive
  <2>3. below \in Nat
    <3>1. \A i, j \in Nat : i * j \in Nat
      OBVIOUS
    <3> QED BY <2>1, <3>1
  <2>4. \A i, j \in Nat : i * g + j * g = (i + j) * g
    OBVIOUS
  <2>5. rem + (step - rem) = step
    BY <2>1
  <2>6. below + above = (rem + (step - rem)) * g
    BY <2>1, <2>4
  <2> QED BY <2>1, <2>2, <2>3, <2>5, <2>6
<1>4. /\ rem > step \div 2 => above < below
      /\ rem < step \div 2 => below < above
      /\ rem = step \div 2 => below = above
  <2>1. CASE rem > step \div 2
    <3>1. step - rem < rem
      BY <2>1
    <3> QED BY <3>1, <2>1, ProductStrict
  <2>2. CASE rem < step \div 2
    <3>1. rem < step - rem
      BY <2>2
    <3> QED BY <3>1, <2>2, ProductStrict
  <2>3. CASE rem = step \div 2
    <3>1. rem = step - rem
      BY <2>3
    <3> QED BY <3>1, <2>3
  <2> QED BY <2>1, <2>2, <2>3
<1>5. /\ u = a => below <= above /\ (below = above => a % 2 = 0)
      /\ u = a + 1 => above <= below /\ (below = above => (a + 1) % 2 = 0)
      /\ u \in {a, a + 1} /\ a # a + 1
  <2>1. step \div 2 \in Nat /\ a % 2 \in 0 .. 1 /\ (a % 2 = 1 => (a + 1) % 2 = 0)
    OBVIOUS
  <2>2. CASE Up(a, rem, step)
    <3>1. u = a + 1 /\ u # a
      BY <2>2
    <3>2. above <= below /\ (below = above => a % 2 = 1)
      <4>1. CASE rem > step \div 2
        BY <4>1, <1>3, <1>4
      <4>2. CASE rem = step \div 2 /\ a % 2 = 1
        BY <4>2, <1>3, <1>4
      <4> QED BY <2>2, <4>1, <4>2 DEF Up
    <3> QED BY <2>1, <3>1, <3>2
  <2>3. CASE ~Up(a, rem, step)
    <3>1. u = a /\ u # a + 1
      BY <2>3
    <3>2. below <= above /\ (below = above => a % 2 = 0)
      <4>1. CASE rem < step \div 2
        BY <4>1, <1>3, <1>4
      <4>2. CASE rem = step \div 2 /\ a % 2 # 1
        BY <4>2, <2>1, <1>3, <1>4
      <4>3. rem < step \div 2 \/ (rem = step \div 2 /\ a % 2 # 1)
        BY <2>1, <2>3 DEF Up
      <4> QED BY <4>1, <4>2, <4>3
    <3> QED BY <3>1, <3>2
  <2> QED BY <2>2, <2>3
<1>6. \A i \in Nat : Worth(t, i) \in Nat
  BY WorthType
<1>7. /\ v = Worth(t, a) + below /\ Worth(t, a + 1) = v + above /\ v \in Nat
      /\ Distance(Worth(t, a), v) = below /\ Distance(Worth(t, a + 1), v) = above
  <2>1. v = Worth(t, a) + below /\ Worth(t, a + 1) = Worth(t, a) + step * g
    OBVIOUS
  <2>2. Worth(t, a) \in Nat /\ Worth(t, a + 1) \in Nat /\ a + 1 \in Nat
    BY <1>6
  <2> HIDE DEF v, below, above, u
  <2>3. Worth(t, a + 1) = v + above /\ v \in Nat
    BY <1>3, <2>1, <2>2
  <2>4. Distance(Worth(t, a), v) = below
    BY <1>3, <2>1, <2>2 DEF Distance
  <2>5. Distance(Worth(t, a + 1), v) = above
    BY <1>3, <2>2, <2>3 DEF Distance
  <2> QED BY <2>1, <2>3, <2>4, <2>5
<1>8. v < Worth(t, top)
  <2>1. Worth(t, a + 1) <= Worth(t, top)
    <3>1. CASE a + 1 = top
      BY <3>1, <1>1, <1>6
    <3>2. CASE a + 1 < top
      <4>1. Worth(t, a + 1) < Worth(t, top)
        BY <3>2, <1>1, WorthMonotone
      <4> QED BY <4>1, <1>1, <1>6
    <3> QED BY <3>1, <3>2, <1>1
  <2>2. Worth(t, top) \in Nat
    BY <1>1, <1>6
  <2> HIDE DEF v, above
  <2> QED BY <1>3, <1>7, <2>1, <2>2
<1>9. ASSUME NEW other \in 0 .. top
      PROVE  LET here == Distance(Worth(t, u), v)
                 there == Distance(Worth(t, other), v)
             IN here < there \/ (here = there /\ (other = u \/ u % 2 = 0))
  <2> DEFINE here == Distance(Worth(t, u), v)
             there == Distance(Worth(t, other), v)
  <2> SUFFICES here < there \/ (here = there /\ (other = u \/ u % 2 = 0))
    OBVIOUS
  <2>1. other \in Nat /\ Worth(t, other) \in Nat /\ a + 1 \in Nat
        /\ Worth(t, a) \in Nat /\ Worth(t, a + 1) \in Nat
    BY <1>6
  <2>2. CASE other < a
    <3>1. Worth(t, other) < Worth(t, a)
      BY <2>1, <2>2, WorthMonotone
    <3>2. there = v - Worth(t, other)
      <4> HIDE DEF v, below
      <4> QED BY <1>3, <1>7, <2>1, <3>1 DEF Distance
    <3>3. there > below
      <4> HIDE DEF v, below, there
      <4> QED BY <1>3, <1>7, <2>1, <3>1, <3>2
    <3>4. CASE u = a
      <4> HIDE DEF v, below, above, u
      <4> QED BY <1>7, <3>3, <3>4
    <3>5. CASE u = a + 1
      <4>1. here = above /\ above <= below
        <5> HIDE DEF v, below, above, u
        <5> QED BY <1>5, <1>7, <3>5
      <4>2. there \in Int
        <5> HIDE DEF v, below, there
        <5> QED BY <1>7, <2>1, <3>2
      <4> HIDE DEF v, below, above, u, here, there
      <4> QED BY <1>3, <3>3, <4>1, <4>2
    <3> QED BY <1>5, <3>4, <3>5
  <2>3. CASE other = a
    <3>1. there = below
      BY <1>7, <2>3
    <3>2. CASE u = a
      <4>1. here = there
        BY <2>3, <3>2
      <4> QED BY <2>3, <3>2, <4>1
    <3>3. CASE u = a + 1
      <4>1. here = above
        <5> HIDE DEF v, below, above, u
        <5> QED BY <1>7, <3>3
      <4>2. above < below \/ (above = below /\ u % 2 = 0)
        <5> HIDE DEF v, below, above, u
        <5> QED BY <1>3, <1>5, <3>3
      <4> HIDE DEF v, below, above, u, here, there
      <4> QED BY <3>1, <4>1, <4>2
    <3> QED BY <1>5, <3>2, <3>3
  <2>4. CASE other = a + 1
    <3>1. there = above
      BY <1>7, <2>4
    <3>2. CASE u = a + 1
      <4>1. here = there
        BY <2>4, <3>2
      <4> QED BY <2>4, <3>2, <4>1
    <3>3. CASE u = a
      <4>1. here = below
        <5> HIDE DEF v, below, above, u
        <5> QED BY <1>7, <3>3
      <4>2. below < above \/ (above = below /\ u % 2 = 0)
        <5> HIDE DEF v, below, above, u
        <5> QED BY <1>3, <1>5, <3>3
      <4> HIDE DEF v, below, above, u, here, there
      <4> QED BY <3>1, <4>1, <4>2
    <3> QED BY <1>5, <3>2, <3>3
  <2>5. CASE other > a + 1
    <3>1. Worth(t, a + 1) < Worth(t, other)
      BY <2>1, <2>5, WorthMonotone
    <3>2. there = Worth(t, other) - v
      <4> HIDE DEF v, above
      <4> QED BY <1>3, <1>7, <2>1, <3>1 DEF Distance
    <3>3. there > above /\ there \in Int
      <4> HIDE DEF v, above, there
      <4> QED BY <1>3, <1>7, <2>1, <3>1, <3>2
    <3>4. CASE u = a + 1
      <4> HIDE DEF v, below, above, u
      <4> QED BY <1>7, <3>3, <3>4
    <3>5. CASE u = a
      <4>1. here = below /\ below <= above
        <5> HIDE DEF v, below, above, u
        <5> QED BY <1>5, <1>7, <3>5
      <4> HIDE DEF v, below, above, u, here, there
      <4> QED BY <1>3, <3>3, <4>1
    <3> QED BY <1>5, <3>4, <3>5
  <2> HIDE DEF u, v, here, there
  <2>6. other < a \/ other = a \/ other = a + 1 \/ other > a + 1
    BY <2>1
  <2> QED BY <2>2, <2>3, <2>4, <2>5, <2>6
<1>10. ~(v >= Worth(t, top))
  <2>1. Worth(t, top) \in Nat /\ v \in Nat
    BY <1>1, <1>6, <1>7
  <2> HIDE DEF v
  <2> QED BY <1>8, <2>1
<1>11. Nearest(t, x, u)
  <2> HIDE DEF u
  <2> QED BY <1>9 DEF Nearest
<1>12. Rounded(t, x, u)
  <2> HIDE DEF u
  <2> QED BY <1>10, <1>11 DEF Rounded
<1> QED BY <1>2, <1>12
-----------------------------------------------------------------------------
(* To bf16.                                                                *)

\* RoundBf16 rounds by the lower half.
LEMMA RoundBf16Choice ==
  ASSUME NEW bits \in Nat
  PROVE  LET q == bits \div MantLow
         IN RoundBf16(bits) = IF Up(q, bits % MantLow, MantLow) THEN q + 1 ELSE q
<1> DEFINE q == bits \div MantLow
           r == bits % MantLow
           h == MantLow \div 2
           p == q % 2
           b == MantLow * q
<1>1. MantLow \in Nat \ {0} /\ MantLow = 2 * h /\ h \in Nat \ {0}
  BY FormatFacts DEF Formats
<1>2. q \in Nat /\ r \in 0 .. (MantLow - 1) /\ bits = b + r
  BY <1>1, DivMod
<1>4. p \in 0 .. 1
  BY <1>2
<1>5. b \in Nat /\ MantLow * (q + 1) = b + MantLow
  BY <1>1, <1>2
<1>6. RoundBf16(bits) = (b + (r + (h - 1) + p)) \div MantLow
  <2>1. RoundBf16(bits) = (bits + (h - 1) + p) \div MantLow
    BY DEF RoundBf16
  <2>2. bits + (h - 1) + p = b + (r + (h - 1) + p)
    <3> HIDE DEF b, r, h, p
    <3> QED BY <1>1, <1>2, <1>4, <1>5
  <2> QED BY <2>1, <2>2
<1>9. Up(q, r, MantLow) <=> (r > h \/ (r = h /\ p = 1))
  BY DEF Up
<1> HIDE DEF r, h
<1>7. CASE r + (h - 1) + p < MantLow
  <2>1. RoundBf16(bits) = q
    <3>1. r + (h - 1) + p \in Nat
      BY <1>1, <1>2, <1>4
    <3> DEFINE s == r + (h - 1) + p
    <3> HIDE DEF q, p, s
    <3>2. (MantLow * q + s) \div MantLow = q
      BY <3>1, <1>1, <1>2, <1>7, DivUnique DEF s
    <3> QED BY <3>2, <1>6 DEF s
  <2>2. ~Up(q, r, MantLow)
    <3> HIDE DEF p, q
    <3> QED BY <1>1, <1>2, <1>4, <1>7, <1>9
  <2> QED BY <2>1, <2>2 DEF r
<1>8. CASE r + (h - 1) + p >= MantLow
  <2>1. RoundBf16(bits) = q + 1
    <3> DEFINE s == r + (h - 1) + p - MantLow
    <3>1. s \in Nat /\ s < MantLow
      <4> HIDE DEF p
      <4> QED BY <1>1, <1>2, <1>4, <1>8
    <3>2. b + (r + (h - 1) + p) = MantLow * (q + 1) + s
      <4> HIDE DEF p, b
      <4> QED BY <1>1, <1>2, <1>4, <1>5
    <3>3. q + 1 \in Nat
      BY <1>2
    <3> HIDE DEF s
    <3>4. (MantLow * (q + 1) + s) \div MantLow = q + 1
      BY <3>1, <3>3, <1>1, DivUnique
    <3> QED BY <3>2, <3>4, <1>6
  <2>2. Up(q, r, MantLow)
    <3> HIDE DEF p, q
    <3> QED BY <1>1, <1>2, <1>4, <1>8, <1>9
  <2> QED BY <2>1, <2>2 DEF r
<1>10. r + (h - 1) + p \in Int
  BY <1>1, <1>2, <1>4
<1> QED BY <1>1, <1>7, <1>8, <1>10

\* Adding just below half a unit and the last bit that stays (float_storage_ref.cpp:191)
\* rounds to nearest: the result is no further than half a unit from the f32, and even
\* when it is as far.
THEOREM Bf16Nearest ==
  ASSUME NEW bits \in Nat
  PROVE  LET rounded == RoundBf16(bits)
             error == bits - MantLow * rounded
         IN /\ rounded \in Nat
            /\ 2 * error <= MantLow /\ -MantLow <= 2 * error
            /\ 2 * error \in {MantLow, -MantLow} => rounded % 2 = 0
<1> DEFINE q == bits \div MantLow
           r == bits % MantLow
           b == MantLow * q
<1>1. MantLow \in Nat \ {0} /\ MantLow = 2 * (MantLow \div 2)
  BY FormatFacts DEF Formats
<1>2. q \in Nat /\ r \in 0 .. (MantLow - 1) /\ bits = b + r
  BY <1>1, DivMod
<1>3. b \in Nat /\ MantLow * (q + 1) = b + MantLow
  BY <1>1, <1>2
<1>4. RoundBf16(bits) = IF Up(q, r, MantLow) THEN q + 1 ELSE q
  BY RoundBf16Choice
<1> HIDE DEF r
<1>5. CASE Up(q, r, MantLow)
  <2>1. MantLow <= 2 * r /\ (2 * r = MantLow => (q + 1) % 2 = 0)
    <3> HIDE DEF q
    <3> QED BY <1>1, <1>2, <1>5 DEF Up
  <2>2. bits - MantLow * (q + 1) = r - MantLow
    <3> HIDE DEF q, b
    <3> QED BY <1>1, <1>2, <1>3
  <2> HIDE DEF q
  <2> QED BY <1>1, <1>2, <1>4, <1>5, <2>1, <2>2
<1>6. CASE ~Up(q, r, MantLow)
  <2>1. 2 * r <= MantLow /\ (2 * r = MantLow => q % 2 = 0)
    <3> HIDE DEF q
    <3> QED BY <1>1, <1>2, <1>6 DEF Up
  <2>2. bits - MantLow * q = r
    <3> HIDE DEF q
    <3> QED BY <1>2, <1>3
  <2> HIDE DEF q
  <2> QED BY <1>1, <1>2, <1>4, <1>6, <2>1, <2>2
<1> QED BY <1>5, <1>6

\* What bf16 has stored comes back as it was, however often it is loaded and stored.
THEOREM Bf16RoundTrip ==
  ASSUME NEW stored \in Nat
  PROVE  RoundBf16(FromBf16(stored)) = stored
<1> DEFINE r == (MantLow \div 2 - 1) + (stored % 2)
<1>1. MantLow \in Nat \ {0} /\ MantLow % 2 = 0
  BY FormatAssumption
<1>2. r \in Nat /\ r < MantLow
  BY <1>1
<1>3. (MantLow * stored + 0) \div MantLow = stored
  BY <1>1, DivUnique
<1>4. MantLow * stored \in Nat /\ FromBf16(stored) = MantLow * stored
  BY <1>1 DEF FromBf16
<1>5. FromBf16(stored) \div MantLow = stored
  BY <1>3, <1>4
<1>6. RoundBf16(FromBf16(stored)) = (MantLow * stored + r) \div MantLow
  BY <1>1, <1>4, <1>5 DEF RoundBf16
<1> QED BY <1>1, <1>2, <1>6, DivUnique

\* What a bf16 is worth is what the f32 with its upper half is.
LEMMA Bf16Exact ==
  ASSUME NEW u \in Nat, NEW r \in 0 .. (MantLow - 1)
  PROVE  ValueOf(MantLow * u + r, Mant)
           = Worth("bf16", u) + r * Ulp(u \div MantHigh)
<1> DEFINE e == u \div MantHigh
           m == u % MantHigh
           n == m * MantLow + r
<1>1. /\ MantLow \in Nat \ {0} /\ MantHigh \in Nat \ {0} /\ Mant \in Nat \ {0}
      /\ Mant = MantHigh * MantLow
  BY FormatFacts DEF Formats
<1>2. e \in Nat /\ m \in 0 .. (MantHigh - 1) /\ u = MantHigh * e + m
  BY <1>1, DivMod
<1>3. ValueOf(u, MantHigh) = IF e = 0 THEN m ELSE (MantHigh + m) * PowerOfTwo[e - 1]
  BY DEF ValueOf
<1>4. Worth("bf16", u) = ValueOf(u, MantHigh) * MantLow
  BY DEF Worth
<1>5. Ulp(e) = IF e = 0 THEN 1 ELSE PowerOfTwo[e - 1]
  BY DEF Ulp
<1> HIDE DEF e, m
<1>6. n \in 0 .. (Mant - 1)
  <2>1. (m + 1) * MantLow <= MantHigh * MantLow
    BY <1>1, <1>2, ProductMonotone
  <2>2. (m + 1) * MantLow = m * MantLow + MantLow /\ m * MantLow \in Nat
    BY <1>1, <1>2
  <2> QED BY <1>1, <2>1, <2>2
<1>7. MantLow * u + r = Mant * e + n
  <2>1. \A a, b, c, d \in Nat : a * (b * c + d) = (b * a) * c + d * a
    OBVIOUS
  <2>2. MantLow * u = Mant * e + m * MantLow
    BY <1>1, <1>2, <2>1
  <2>3. Mant * e \in Nat /\ m * MantLow \in Nat
    BY <1>1, <1>2
  <2> QED BY <2>2, <2>3
<1>8. ValueOf(Mant * e + n, Mant) = IF e = 0 THEN n ELSE (Mant + n) * PowerOfTwo[e - 1]
  <2> HIDE DEF n
  <2> QED BY <1>1, <1>2, <1>6, ValueOfParts
<1>9. CASE e = 0
  <2>1. r * 1 = r
    OBVIOUS
  <2> QED BY <1>3, <1>4, <1>5, <1>7, <1>8, <1>9, <2>1 DEF e
<1>10. CASE e # 0
  <2>1. PowerOfTwo[e - 1] \in Nat
    <3>1. e - 1 \in Nat
      BY <1>2, <1>10
    <3> QED BY <3>1, PowerLaw
  <2>2. \A a, b, c, d, p \in Nat : (a * b + (c * b + d)) * p = ((a + c) * p) * b + d * p
    OBVIOUS
  <2>3. (Mant + n) * PowerOfTwo[e - 1]
          = ((MantHigh + m) * PowerOfTwo[e - 1]) * MantLow + r * PowerOfTwo[e - 1]
    BY <1>1, <1>2, <2>1, <2>2
  <2> QED BY <1>3, <1>4, <1>5, <1>7, <1>8, <1>10, <2>3 DEF e
<1> QED BY <1>9, <1>10

\* The infinities of f32 and bf16 become each other.
LEMMA Bf16Infinite ==
  /\ FromBf16(Infinity["bf16"]) = Infinity["f32"]
  /\ RoundBf16(Infinity["f32"]) = Infinity["bf16"]
  /\ Infinity["f32"] = MantLow * Infinity["bf16"]
<1>1. TopExp * MantHigh * MantLow = TopExp * Mant
  <2>1. \A a, b, c \in Nat : (a * b) * c = a * (b * c)
    OBVIOUS
  <2> QED BY <2>1, InfinityNat, FormatFacts DEF Formats
<1>2. FromBf16(Infinity["bf16"]) = Infinity["f32"]
  BY <1>1, InfinityNat DEF FromBf16
<1>3. Infinity["bf16"] \in Nat /\ Infinity["f32"] \in Nat /\ MantLow \in Nat \ {0} /\ 0 \in 0 .. (MantLow - 1)
  BY InfinityNat, FormatFacts DEF Formats, Types, ReducedTypes
<1>4. Infinity["f32"] = MantLow * Infinity["bf16"] + 0 /\ MantLow * Infinity["bf16"] = Infinity["f32"]
  BY <1>2, <1>3 DEF FromBf16
<1>5. Infinity["f32"] \div MantLow = Infinity["bf16"] /\ Infinity["f32"] % MantLow = 0
  <2> DEFINE top == Infinity["bf16"]
             all == Infinity["f32"]
  <2> HIDE DEF top, all
  <2>1. top \in Nat /\ all = MantLow * top + 0
    BY <1>3, <1>4 DEF top, all
  <2>2. (MantLow * top + 0) \div MantLow = top /\ (MantLow * top + 0) % MantLow = 0
    BY <1>3, <2>1, DivModUnique
  <2>3. all \div MantLow = top /\ all % MantLow = 0
    BY <2>1, <2>2
  <2> QED BY <2>3 DEF top, all
<1>6. ~Up(Infinity["bf16"], 0, MantLow)
  BY FormatFacts DEF Formats, Up
<1>7. RoundBf16(Infinity["f32"]) = Infinity["bf16"]
  BY <1>3, <1>5, <1>6, RoundBf16Choice
<1> QED BY <1>2, <1>4, <1>7

\* A number is stored in bf16 as what is nearest to it.
LEMMA Bf16Rounds ==
  ASSUME NEW x \in 0 .. Infinity["f32"]
  PROVE  /\ Rounded("bf16", x, RoundBf16(x))
         /\ RoundBf16(x) \in 0 .. Infinity["bf16"]
<1> DEFINE a == x \div MantLow
           r == x % MantLow
           g == Ulp(a \div MantHigh)
           top == Infinity["bf16"]
<1>1. /\ MantLow \in Nat \ {0} /\ MantLow = 2 * (MantLow \div 2) /\ MantHigh \in Nat \ {0}
      /\ Infinity["f32"] \in Nat /\ top \in Nat
  BY InfinityNat, FormatFacts DEF Formats, Types, ReducedTypes
<1>2. x \in Nat /\ a \in Nat /\ r \in 0 .. (MantLow - 1) /\ x = MantLow * a + r
  <2>1. x \in Nat
    BY <1>1
  <2> QED BY <1>1, <2>1, DivMod
<1>3. CASE x = Infinity["f32"]
  BY <1>1, <1>3, Bf16Infinite DEF Rounded
<1>4. CASE x # Infinity["f32"]
  <2>1. a + 1 <= top
    <3>1. x < MantLow * top
      BY <1>1, <1>4, Bf16Infinite
    <3>2. a < top
      BY <1>1, <1>2, <3>1, DivBounds
    <3> QED BY <1>1, <1>2, <3>2
  <2>2. g \in Nat \ {0}
    <3>1. a \div MantHigh \in Nat
      BY <1>1, <1>2, DivMod
    <3> QED BY <3>1, UlpPositive
  <2> HIDE DEF a, r
  <2>3. ValueOf(x, Mant) = Worth("bf16", a) + r * g
    BY <1>2, Bf16Exact
  <2>4. Worth("bf16", a + 1) = Worth("bf16", a) + MantLow * g
    <3>1. Worth("bf16", a + 1) = Worth("bf16", a) + Ulp(a \div Mants("bf16")) * Smallest("bf16")
      BY <1>2, WorthStep
    <3>2. Mants("bf16") = MantHigh /\ Smallest("bf16") = MantLow
      BY DEF Mants, Smallest
    <3>3. g * MantLow = MantLow * g
      <4> HIDE DEF g
      <4> QED BY <1>1, <2>2
    <3> QED BY <3>1, <3>2, <3>3
  <2>5. RoundBf16(x) = IF Up(a, r, MantLow) THEN a + 1 ELSE a
    BY <1>2, RoundBf16Choice DEF a, r
  <2> HIDE DEF g
  <2>6. /\ Rounded("bf16", x, IF Up(a, r, MantLow) THEN a + 1 ELSE a)
        /\ (IF Up(a, r, MantLow) THEN a + 1 ELSE a) \in 0 .. top
    BY <1>1, <1>2, <1>4, <2>1, <2>2, <2>3, <2>4, RemainderRounds DEF ReducedTypes
  <2> QED BY <2>5, <2>6
<1> QED BY <1>3, <1>4
-----------------------------------------------------------------------------
(* To f16.                                                                 *)

\* What the infinity of f16 stands in the place of.
LEMMA F16Top == Worth("f16", Infinity["f16"]) = Mant * PowerOfTwo[Bias + HalfBias]
<1> DEFINE p == PowerOfTwo[2 * HalfBias]
           q == PowerOfTwo[Rebias]
<1>1. /\ HalfMant \in Nat \ {0} /\ Drop \in Nat /\ Mant = HalfMant * Drop
      /\ HalfBias \in Nat /\ Bias \in Nat /\ Rebias = Bias - HalfBias /\ Rebias \in Nat
  BY FormatFacts DEF Formats
<1>2. 2 * HalfBias \in Nat /\ 2 * HalfBias + Rebias = Bias + HalfBias
  BY <1>1
<1>3. p \in Nat /\ q \in Nat /\ PowerOfTwo[Bias + HalfBias] = p * q
  <2>1. PowerOfTwo[2 * HalfBias + Rebias] = p * q
    BY <1>1, <1>2, PowerSum
  <2> QED BY <1>1, <1>2, <2>1, PowerLaw
<1>4. ValueOf(Infinity["f16"], HalfMant) = (HalfMant + 0) * p
  <2>1. HalfTopExp \in Nat \ {0} /\ HalfTopExp - 1 = 2 * HalfBias
    BY <1>1 DEF HalfTopExp
  <2>2. HalfTopExp * HalfMant = HalfMant * HalfTopExp + 0
    BY <1>1, <2>1
  <2>3. 0 \in 0 .. (HalfMant - 1)
    BY <1>1
  <2>4. ValueOf(HalfMant * HalfTopExp + 0, HalfMant) = (HalfMant + 0) * PowerOfTwo[HalfTopExp - 1]
    BY <1>1, <2>1, <2>3, ValueOfParts
  <2> QED BY <2>1, <2>2, <2>4, InfinityNat
<1>5. Worth("f16", Infinity["f16"]) = ValueOf(Infinity["f16"], HalfMant) * q * Drop
  BY DEF Worth
<1> HIDE DEF p, q
<1>6. (HalfMant + 0) * p * q * Drop = (HalfMant * Drop) * (p * q)
  BY <1>1, <1>3
<1> QED BY <1>1, <1>3, <1>4, <1>5, <1>6

\* An f32 in its parts.
LEMMA F32Parts ==
  ASSUME NEW x \in Nat
  PROVE  /\ x \div Mant \in Nat /\ x % Mant \in 0 .. (Mant - 1)
         /\ x = Mant * (x \div Mant) + (x % Mant)
         /\ x \div Mant # 0 =>
              /\ PowerOfTwo[x \div Mant - 1] \in Nat \ {0}
              /\ ValueOf(x, Mant) = (Mant + (x % Mant)) * PowerOfTwo[x \div Mant - 1]
<1> DEFINE e == x \div Mant
<1>1. Mant \in Nat \ {0}
  BY FormatFacts DEF Formats
<1>2. e \in Nat /\ x % Mant \in 0 .. (Mant - 1) /\ x = Mant * e + (x % Mant)
  BY <1>1, DivMod
<1>3. e # 0 => ValueOf(x, Mant) = (Mant + (x % Mant)) * PowerOfTwo[e - 1]
  BY DEF ValueOf
<1>4. e # 0 => PowerOfTwo[e - 1] \in Nat \ {0}
  <2> SUFFICES ASSUME e # 0 PROVE PowerOfTwo[e - 1] \in Nat \ {0}
    OBVIOUS
  <2> HIDE DEF e
  <2>1. e - 1 \in Nat
    BY <1>2
  <2> QED BY <2>1, PowerLaw
<1> QED BY <1>2, <1>3, <1>4

\* The exponents f16 reaches are those below its infinity.
LEMMA F16Reach ==
  ASSUME NEW x \in Nat
  PROVE  Worth("f16", Infinity["f16"]) <= ValueOf(x, Mant) <=> x \div Mant > Bias + HalfBias
<1> DEFINE e == Bias + HalfBias
           y == Mant * (e + 1) + 0
<1>1. Mant \in Nat \ {0} /\ e \in Nat /\ e + 1 \in Nat /\ 0 \in 0 .. (Mant - 1)
  BY FormatFacts DEF Formats
<1>2. ValueOf(y, Mant) = Worth("f16", Infinity["f16"])
  <2>1. (e + 1) - 1 = e /\ e + 1 # 0 /\ Mant + 0 = Mant
    BY <1>1
  <2>2. ValueOf(y, Mant) = (Mant + 0) * PowerOfTwo[e]
    <3> HIDE DEF e
    <3> QED BY <1>1, <2>1, ValueOfParts
  <2> QED BY <2>1, <2>2, F16Top
<1>3. y \in Nat /\ y = Mant * (e + 1)
  <2>1. \A i, j \in Nat : i * j \in Nat
    OBVIOUS
  <2> HIDE DEF e
  <2> QED BY <1>1, <2>1
<1>4. ValueOf(y, Mant) \in Nat /\ ValueOf(x, Mant) \in Nat
  BY <1>1, <1>3, ValueType
<1>5. x \div Mant \in Nat
  BY <1>1, DivMod
<1>6. CASE x < y
  <2>1. ValueOf(x, Mant) < ValueOf(y, Mant)
    BY <1>1, <1>3, <1>6, ValueMonotone
  <2>2. x \div Mant < e + 1
    <3> HIDE DEF e
    <3> QED BY <1>1, <1>3, <1>6, DivBounds
  <2> QED BY <1>1, <1>2, <1>4, <1>5, <2>1, <2>2
<1>7. CASE x >= y
  <2>1. ValueOf(y, Mant) <= ValueOf(x, Mant)
    <3>1. CASE x = y
      BY <3>1, <1>4
    <3>2. CASE y < x
      <4>1. ValueOf(y, Mant) < ValueOf(x, Mant)
        BY <1>1, <1>3, <3>2, ValueMonotone
      <4> QED BY <4>1, <1>4
    <3> QED BY <1>3, <1>7, <3>1, <3>2
  <2>2. e + 1 <= x \div Mant
    <3> HIDE DEF e
    <3> QED BY <1>1, <1>3, <1>7, DivBounds
  <2> QED BY <1>1, <1>2, <1>4, <1>5, <2>1, <2>2
<1> QED BY <1>3, <1>6, <1>7

\* The next f16 is worth more by an f32's unit in the last place, Drop times.
LEMMA F16Step ==
  ASSUME NEW a \in Nat
  PROVE  LET e == a \div HalfMant
         IN Worth("f16", a + 1) = Worth("f16", a) +
              (IF e = 0 THEN PowerOfTwo[Rebias] * Drop ELSE PowerOfTwo[e - 1] * PowerOfTwo[Rebias] * Drop)
<1> DEFINE e == a \div HalfMant
<1>1. Worth("f16", a + 1) = Worth("f16", a) + Ulp(e) * (PowerOfTwo[Rebias] * Drop)
  <2>1. Worth("f16", a + 1) = Worth("f16", a) + Ulp(a \div Mants("f16")) * Smallest("f16")
    BY WorthStep
  <2>2. Mants("f16") = HalfMant /\ Smallest("f16") = PowerOfTwo[Rebias] * Drop
    BY DEF Mants, Smallest
  <2> QED BY <2>1, <2>2
<1>2. e \in Nat /\ PowerOfTwo[Rebias] \in Nat /\ Drop \in Nat /\ PowerOfTwo[Rebias] * Drop \in Nat
  <2>1. \A i, j \in Nat : i * j \in Nat
    OBVIOUS
  <2> QED BY <2>1, DivMod, PowerLaw, FormatFacts DEF Formats
<1>3. CASE e = 0
  <2>1. Ulp(e) = 1
    BY <1>3 DEF Ulp
  <2>2. 1 * (PowerOfTwo[Rebias] * Drop) = PowerOfTwo[Rebias] * Drop
    BY <1>2
  <2> QED BY <1>1, <1>3, <2>1, <2>2
<1>4. CASE e # 0
  <2>1. Ulp(e) = PowerOfTwo[e - 1]
    BY <1>4 DEF Ulp
  <2>2. PowerOfTwo[e - 1] \in Nat
    <3> HIDE DEF e
    <3>1. e - 1 \in Nat
      BY <1>2, <1>4
    <3> QED BY <3>1, PowerLaw
  <2>3. \A i, j, k \in Nat : i * (j * k) = (i * j) * k
    OBVIOUS
  <2>4. PowerOfTwo[e - 1] * (PowerOfTwo[Rebias] * Drop) = PowerOfTwo[e - 1] * PowerOfTwo[Rebias] * Drop
    <3> HIDE DEF e
    <3> QED BY <1>2, <2>2, <2>3
  <2> QED BY <1>1, <1>4, <2>1, <2>4
<1> QED BY <1>3, <1>4

\* ShiftRounded rounds by the remainder.
LEMMA ShiftRoundedChoice ==
  ASSUME NEW n \in Nat, NEW step \in Nat \ {0}
  PROVE  LET a == n \div step
         IN ShiftRounded(n, step) = IF Up(a, n % step, step) THEN a + 1 ELSE a
BY DEF ShiftRounded, Up

\* Below half the smallest f16.
LEMMA F16Underflow ==
  ASSUME NEW x \in Nat, x # Infinity["f32"], x \div Mant < Rebias - HalfBits
  PROVE  Rounded("f16", x, 0) /\ 0 \in 0 .. Infinity["f16"]
<1> DEFINE v == ValueOf(x, Mant)
           e == Rebias - HalfBits
           y == Mant * e + 0
           p == PowerOfTwo[Rebias - 1]
           step == 2 * p * Drop
<1>1. /\ Mant \in Nat \ {0} /\ Mant = HalfMant * Drop /\ Drop \in Nat \ {0} /\ HalfMant \in Nat \ {0}
      /\ HalfMant = PowerOfTwo[HalfBits] /\ HalfBits \in Nat
      /\ Rebias \in Nat /\ e \in Nat \ {0} /\ e - 1 \in Nat /\ Rebias - 1 \in Nat
      /\ 0 \in 0 .. (Mant - 1) /\ 0 \in 0 .. (HalfMant - 1) /\ HalfBits + (e - 1) = Rebias - 1
  BY FormatFacts DEF Formats
<1>2. p \in Nat \ {0} /\ PowerOfTwo[e - 1] \in Nat /\ p = HalfMant * PowerOfTwo[e - 1]
  <2>1. PowerOfTwo[HalfBits + (e - 1)] = PowerOfTwo[HalfBits] * PowerOfTwo[e - 1]
    <3> HIDE DEF e
    <3> QED BY <1>1, PowerSum
  <2>2. p \in Nat \ {0} /\ PowerOfTwo[e - 1] \in Nat
    <3> HIDE DEF e
    <3> QED BY <1>1, PowerLaw
  <2> QED BY <1>1, <2>1, <2>2
<1>3. PowerOfTwo[Rebias] = 2 * p
  <2>1. Rebias = (Rebias - 1) + 1
    BY <1>1
  <2> QED BY <1>1, <2>1, PowerLaw
<1>4. v < p * Drop /\ v \in Nat
  <2>1. ValueOf(y, Mant) = (Mant + 0) * PowerOfTwo[e - 1]
    <3> HIDE DEF e
    <3> QED BY <1>1, ValueOfParts
  <2>2. (Mant + 0) * PowerOfTwo[e - 1] = p * Drop
    <3>1. \A i, j, k \in Nat : (i * j + 0) * k = (i * k) * j
      OBVIOUS
    <3> HIDE DEF p, e
    <3> QED BY <1>1, <1>2, <3>1
  <2>3. x < y /\ y \in Nat
    <3> DEFINE d == x \div Mant
               r == x % Mant
    <3>1. d \in Nat /\ r \in 0 .. (Mant - 1) /\ x = Mant * d + r
      BY <1>1, DivMod
    <3>4. d + 1 <= e
      <4>1. d < e
        OBVIOUS
      <4> HIDE DEF d, e
      <4> QED BY <4>1, <3>1, <1>1
    <3> HIDE DEF d, r, e
    <3>2. (d + 1) * Mant <= e * Mant
      BY <1>1, <3>1, <3>4, ProductMonotone
    <3>3. (d + 1) * Mant = Mant * d + Mant /\ e * Mant = Mant * e /\ Mant * d \in Nat /\ Mant * e \in Nat
      <4>1. \A i, j \in Nat : i * j \in Nat /\ i * j = j * i /\ (i + 1) * j = j * i + j
        OBVIOUS
      <4> QED BY <1>1, <3>1, <4>1
    <3> QED BY <1>1, <3>1, <3>2, <3>3
  <2>4. v < ValueOf(y, Mant)
    <3> HIDE DEF y
    <3> QED BY <1>1, <2>3, ValueMonotone
  <2>5. v \in Nat
    BY <1>1, ValueType
  <2> QED BY <2>1, <2>2, <2>4, <2>5
<1>5. Worth("f16", 0) = 0 /\ Worth("f16", 0 + 1) = step /\ step \in Nat \ {0} /\ step = 2 * (p * Drop)
      /\ p * Drop \in Nat
  <2>1. ValueOf(HalfMant * 0 + 0, HalfMant) = 0
    BY <1>1, ValueOfParts
  <2>2. HalfMant * 0 + 0 = 0 /\ 0 \div HalfMant = 0
    <3>1. HalfMant * 0 + 0 = 0
      BY <1>1
    <3>2. (HalfMant * 0 + 0) \div HalfMant = 0
      BY <1>1, DivModUnique
    <3> QED BY <3>1, <3>2
  <2>3. Worth("f16", 0) = 0 * PowerOfTwo[Rebias] * Drop
    BY <2>1, <2>2 DEF Worth
  <2>4. Worth("f16", 0) = 0
    BY <1>1, <1>2, <1>3, <2>3
  <2>5. Worth("f16", 0 + 1) = 0 + PowerOfTwo[Rebias] * Drop
    BY <2>2, <2>4, F16Step
  <2>6. p * Drop \in Nat \ {0}
    BY <1>1, <1>2, ProductPositive
  <2>7. (2 * p) * Drop = 2 * (p * Drop)
    BY <1>1, <1>2
  <2> HIDE DEF p
  <2> QED BY <1>3, <2>4, <2>5, <2>6, <2>7
<1>6. step \div 2 = p * Drop
  <2> HIDE DEF p, step
  <2> QED BY <1>5
<1>7. v \in 0 .. (step - 1) /\ ~Up(0, v, step)
  <2> HIDE DEF v, p, step
  <2> QED BY <1>4, <1>5, <1>6 DEF Up
<1>8. v = Worth("f16", 0) + v * 1 /\ Worth("f16", 0 + 1) = Worth("f16", 0) + step * 1
  <2> HIDE DEF v, step
  <2> QED BY <1>4, <1>5
<1>9. 0 + 1 <= Infinity["f16"]
  <2>1. HalfTopExp * HalfMant \in Nat \ {0}
    BY <1>1, InfinityNat, ProductPositive
  <2> QED BY <2>1, InfinityNat
<1>10. step = 2 * (step \div 2) /\ 1 \in Nat \ {0} /\ 0 \in Nat /\ "f16" \in ReducedTypes /\ step \in Nat \ {0}
  <2>1. "f16" \in ReducedTypes
    BY DEF ReducedTypes
  <2> HIDE DEF step, p
  <2> QED BY <1>5, <1>6, <2>1
<1>11. /\ Rounded("f16", x, IF Up(0, v, step) THEN 0 + 1 ELSE 0)
       /\ (IF Up(0, v, step) THEN 0 + 1 ELSE 0) \in 0 .. Infinity["f16"]
  <2> HIDE DEF step
  <2> QED BY <1>7, <1>8, <1>9, <1>10, RemainderRounds
<1> QED BY <1>7, <1>11

\* Where f16 is subnormal, the leading 1 spelled out.
LEMMA F16Subnormal ==
  ASSUME NEW x \in Nat, x # Infinity["f32"], x \div Mant \in (Rebias - HalfBits) .. Rebias
  PROVE  LET u == ShiftRounded((x % Mant) + Mant, SubnormalStep(x \div Mant))
         IN Rounded("f16", x, u) /\ u \in 0 .. Infinity["f16"]
<1> DEFINE e == x \div Mant
           m == x % Mant
           n == m + Mant
           p == PowerOfTwo[Rebias + 1 - e]
           step == SubnormalStep(e)
           g == PowerOfTwo[e - 1]
           a == n \div step
           r == n % step
<1>1. /\ Mant \in Nat \ {0} /\ Mant = HalfMant * Drop /\ Drop \in Nat \ {0} /\ HalfMant \in Nat \ {0}
      /\ Rebias \in Nat /\ HalfBits \in Nat /\ HalfBits < Rebias
      /\ Drop \div 2 \in Nat \ {0} /\ Drop = 2 * (Drop \div 2)
  BY FormatFacts DEF Formats
<1>2. /\ e \in Nat \ {0} /\ m \in 0 .. (Mant - 1) /\ g \in Nat \ {0}
      /\ ValueOf(x, Mant) = (Mant + m) * g
  <2>1. e # 0
    BY <1>1
  <2> QED BY <2>1, F32Parts
<1>3. /\ Rebias + 1 - e \in Nat \ {0} /\ (Rebias + 1 - e) + (e - 1) = Rebias /\ e - 1 \in Nat
      /\ Rebias + 1 - e = (Rebias - e) + 1 /\ Rebias - e \in Nat
  <2>1. e <= Rebias
    BY <1>1
  <2> HIDE DEF e
  <2> QED BY <1>1, <1>2, <2>1
<1>4. step = p * Drop
  BY DEF SubnormalStep
<1> HIDE DEF e, m
<1>5. p \in Nat \ {0} /\ p = 2 * PowerOfTwo[Rebias - e] /\ PowerOfTwo[Rebias - e] \in Nat \ {0}
      /\ PowerOfTwo[Rebias] = p * g
  <2> DEFINE k == Rebias - e
             l == e - 1
             j == Rebias + 1 - e
  <2>1. k \in Nat /\ l \in Nat /\ j \in Nat /\ j = k + 1 /\ j + l = Rebias
    BY <1>3
  <2> HIDE DEF k, l, j
  <2>2. PowerOfTwo[k] \in Nat \ {0} /\ PowerOfTwo[k + 1] = 2 * PowerOfTwo[k]
    BY <2>1, PowerLaw
  <2>3. PowerOfTwo[j + l] = PowerOfTwo[j] * PowerOfTwo[l]
    BY <2>1, PowerSum
  <2>4. /\ PowerOfTwo[j] \in Nat \ {0} /\ PowerOfTwo[j] = 2 * PowerOfTwo[k]
        /\ PowerOfTwo[Rebias] = PowerOfTwo[j] * PowerOfTwo[l]
    BY <2>1, <2>2, <2>3
  <2> QED BY <2>2, <2>4 DEF k, l, j
<1>6. /\ step \in Nat \ {0} /\ step = 2 * (step \div 2)
      /\ 2 * Drop <= step
  <2> DEFINE h == PowerOfTwo[Rebias - e]
  <2>1. h \in Nat \ {0} /\ p = 2 * h
    BY <1>5
  <2> HIDE DEF h, p, step
  <2>2. h * Drop \in Nat \ {0} /\ (2 * h) * Drop = 2 * (h * Drop)
    BY <1>1, <2>1, ProductPositive
  <2>3. step = 2 * (h * Drop)
    BY <1>4, <2>1, <2>2
  <2>4. 1 * Drop <= h * Drop
    <3>1. 1 <= h /\ h \in Int /\ Drop \in Nat
      BY <1>1, <2>1
    <3> QED BY <3>1, ProductMonotone
  <2>5. 1 * Drop = Drop
    BY <1>1
  <2> QED BY <1>1, <2>2, <2>3, <2>4, <2>5
<1>7. n \in Nat /\ n < HalfMant * (2 * Drop)
  <2>1. HalfMant * (2 * Drop) = 2 * Mant
    BY <1>1
  <2> QED BY <1>1, <1>2, <2>1
<1> HIDE DEF n, p, step
<1>8. a \in Nat /\ r \in 0 .. (step - 1) /\ n = step * a + r
  BY <1>6, <1>7, DivMod
<1>9. a < HalfMant
  <2>1. HalfMant * (2 * Drop) <= step * HalfMant
    <3>1. (2 * Drop) * HalfMant <= step * HalfMant
      BY <1>1, <1>6, ProductMonotone
    <3>2. (2 * Drop) * HalfMant = HalfMant * (2 * Drop)
      BY <1>1
    <3> QED BY <3>1, <3>2
  <2>2. step * HalfMant \in Nat /\ HalfMant * (2 * Drop) \in Nat
    <3>1. \A i, j \in Nat : i * j \in Nat
      OBVIOUS
    <3> QED BY <1>1, <1>6, <3>1
  <2>3. n < step * HalfMant
    BY <1>7, <2>1, <2>2
  <2> QED BY <1>1, <1>6, <1>7, <2>3, DivBounds
<1> HIDE DEF a, r, g
<1>10. Worth("f16", a) = a * PowerOfTwo[Rebias] * Drop /\ a \div HalfMant = 0
  <2>1. HalfMant * 0 + a = a /\ a \in 0 .. (HalfMant - 1)
    BY <1>1, <1>8, <1>9
  <2>2. (HalfMant * 0 + a) \div HalfMant = 0
    BY <1>1, <2>1, DivModUnique
  <2>3. ValueOf(HalfMant * 0 + a, HalfMant) = a
    BY <1>1, <2>1, ValueOfParts
  <2>4. ValueOf(a, HalfMant) = a
    BY <2>1, <2>3
  <2> QED BY <2>1, <2>2, <2>4 DEF Worth
<1>11. ValueOf(x, Mant) = Worth("f16", a) + r * g
  <2>1. (Mant + m) * g = (step * a + r) * g
    <3>1. Mant + m = step * a + r
      BY <1>1, <1>2, <1>8 DEF n
    <3> QED BY <3>1
  <2>2. \A i, j, k, l, q \in Nat : ((i * j) * k + l) * q = k * (i * q) * j + l * q
    OBVIOUS
  <2>3. ((p * Drop) * a + r) * g = a * (p * g) * Drop + r * g
    BY <1>1, <1>2, <1>5, <1>8, <2>2
  <2> QED BY <1>2, <1>4, <1>5, <1>10, <2>1, <2>3
<1>12. Worth("f16", a + 1) = Worth("f16", a) + step * g
  <2>1. Worth("f16", a + 1) = Worth("f16", a) + PowerOfTwo[Rebias] * Drop
    BY <1>8, <1>10, F16Step
  <2>2. (p * g) * Drop = (p * Drop) * g
    BY <1>1, <1>2, <1>5
  <2> QED BY <1>4, <1>5, <2>1, <2>2
<1>13. a + 1 <= Infinity["f16"]
  <2>1. 1 * HalfMant <= HalfTopExp * HalfMant
    <3>1. 1 <= HalfTopExp /\ HalfTopExp \in Int
      BY InfinityNat
    <3> QED BY <1>1, <3>1, ProductMonotone
  <2>2. HalfTopExp * HalfMant \in Nat /\ 1 * HalfMant = HalfMant
    <3>1. \A i, j \in Nat : i * j \in Nat
      OBVIOUS
    <3> QED BY <1>1, <3>1, InfinityNat
  <2> QED BY <1>1, <1>8, <1>9, <2>1, <2>2, InfinityNat
<1>14. "f16" \in ReducedTypes
  BY DEF ReducedTypes
<1>15. /\ Rounded("f16", x, IF Up(a, r, step) THEN a + 1 ELSE a)
       /\ (IF Up(a, r, step) THEN a + 1 ELSE a) \in 0 .. Infinity["f16"]
  BY <1>2, <1>6, <1>8, <1>11, <1>12, <1>13, <1>14, RemainderRounds
<1>16. ShiftRounded(n, step) = IF Up(a, r, step) THEN a + 1 ELSE a
  BY <1>6, <1>7, ShiftRoundedChoice DEF a, r
<1> QED BY <1>15, <1>16 DEF n, m, e, step

\* Where f16 is normal.
LEMMA F16Normal ==
  ASSUME NEW x \in Nat, x # Infinity["f32"], x \div Mant \in (Rebias + 1) .. (Bias + HalfBias)
  PROVE  LET u == ShiftRounded(x - Rebias * Mant, Drop)
         IN Rounded("f16", x, u) /\ u \in 0 .. Infinity["f16"]
<1> DEFINE e == x \div Mant
           m == x % Mant
           n == x - Rebias * Mant
           d == e - Rebias
           g == PowerOfTwo[e - 1]
           a == n \div Drop
           r == n % Drop
           b == m \div Drop
<1>1. /\ Mant \in Nat \ {0} /\ Mant = HalfMant * Drop /\ Drop \in Nat \ {0} /\ HalfMant \in Nat \ {0}
      /\ Rebias \in Nat /\ Bias \in Nat /\ HalfBias \in Nat /\ Rebias = Bias - HalfBias
      /\ Drop \div 2 \in Nat \ {0} /\ Drop = 2 * (Drop \div 2)
  BY FormatFacts DEF Formats
<1>2. /\ e \in Nat \ {0} /\ m \in 0 .. (Mant - 1) /\ g \in Nat \ {0}
      /\ x = Mant * e + m
      /\ ValueOf(x, Mant) = (Mant + m) * g
  <2>1. e # 0
    BY <1>1
  <2> QED BY <2>1, F32Parts
<1>3. d \in Nat \ {0} /\ d - 1 \in Nat /\ (d - 1) + Rebias = e - 1 /\ e = Rebias + d /\ d + 1 <= HalfTopExp
  <2>1. e \in (Rebias + 1) .. (Bias + HalfBias)
    OBVIOUS
  <2> HIDE DEF e
  <2> QED BY <1>1, <2>1 DEF HalfTopExp
<1> HIDE DEF e, m, d
<1>4. g = PowerOfTwo[d - 1] * PowerOfTwo[Rebias] /\ PowerOfTwo[d - 1] \in Nat /\ PowerOfTwo[Rebias] \in Nat
  <2> DEFINE k == d - 1
             l == e - 1
  <2>1. k \in Nat /\ k + Rebias = l
    BY <1>3
  <2> HIDE DEF k, l
  <2>2. PowerOfTwo[k + Rebias] = PowerOfTwo[k] * PowerOfTwo[Rebias]
    BY <1>1, <2>1, PowerSum
  <2>3. PowerOfTwo[k] \in Nat /\ PowerOfTwo[Rebias] \in Nat
    BY <1>1, <2>1, PowerLaw
  <2>4. PowerOfTwo[l] = PowerOfTwo[k] * PowerOfTwo[Rebias]
    BY <2>1, <2>2
  <2> QED BY <2>3, <2>4 DEF k, l
<1>5. n = Mant * d + m /\ n \in Nat
  <2>1. \A i, j, k \in Nat : i * (j + k) = j * i + i * k /\ j * i \in Nat /\ i * k \in Nat
    OBVIOUS
  <2>2. Mant * e = Rebias * Mant + Mant * d /\ Rebias * Mant \in Nat /\ Mant * d \in Nat
    BY <1>1, <1>3, <2>1
  <2> QED BY <1>1, <1>2, <2>2
<1> DEFINE s == m % Drop
<1>6. b \in Nat /\ s \in 0 .. (Drop - 1) /\ m = Drop * b + s
  <2>1. m \in Nat
    BY <1>1, <1>2
  <2> QED BY <1>1, <2>1, DivMod
<1>7. b < HalfMant
  <2>1. m < Drop * HalfMant /\ m \in Nat
    <3>1. HalfMant * Drop = Drop * HalfMant
      BY <1>1
    <3> QED BY <1>1, <1>2, <3>1
  <2> QED BY <1>1, <2>1, DivBounds
<1> HIDE DEF b, s, n, g
<1>8. n = Drop * (HalfMant * d + b) + s /\ HalfMant * d + b \in Nat
  <2>1. \A i, j, k, l \in Nat : (i * j) * k + j * l = j * (i * k + l) /\ i * k + l \in Nat
                                /\ (i * j) * k \in Nat /\ j * l \in Nat
    OBVIOUS
  <2>2. (HalfMant * Drop) * d + Drop * b = Drop * (HalfMant * d + b) /\ HalfMant * d + b \in Nat
        /\ (HalfMant * Drop) * d \in Nat /\ Drop * b \in Nat
    BY <1>1, <1>3, <1>6, <2>1
  <2> QED BY <1>1, <1>5, <1>6, <2>2
<1>9. a = HalfMant * d + b /\ r = s
  <2> DEFINE c == HalfMant * d + b
  <2> HIDE DEF c
  <2>1. (Drop * c + s) \div Drop = c /\ (Drop * c + s) % Drop = s
    BY <1>1, <1>6, <1>8, DivModUnique DEF c
  <2> QED BY <1>8, <2>1 DEF c
<1>10. a \div HalfMant = d /\ a % HalfMant = b
  <2>1. b \in 0 .. (HalfMant - 1)
    BY <1>1, <1>6, <1>7
  <2>2. (HalfMant * d + b) \div HalfMant = d /\ (HalfMant * d + b) % HalfMant = b
    <3>1. HalfMant \in Nat \ {0} /\ d \in Nat
      BY <1>1, <1>3
    <3> QED BY <2>1, <3>1, DivModUnique
  <2> QED BY <1>9, <2>2
<1>11. a \in Nat /\ r \in 0 .. (Drop - 1)
  BY <1>6, <1>8, <1>9
<1> HIDE DEF a, r
<1>12. Worth("f16", a) = (HalfMant + b) * PowerOfTwo[d - 1] * PowerOfTwo[Rebias] * Drop
  <2>1. ValueOf(a, HalfMant) = (HalfMant + b) * PowerOfTwo[d - 1]
    BY <1>3, <1>10 DEF ValueOf
  <2> QED BY <2>1 DEF Worth
<1>13. ValueOf(x, Mant) = Worth("f16", a) + r * g
  <2> DEFINE p == PowerOfTwo[d - 1]
             q == PowerOfTwo[Rebias]
             c == HalfMant + b
  <2>1. c \in Nat /\ s \in Nat /\ p \in Nat /\ q \in Nat /\ g = p * q
    BY <1>1, <1>4, <1>6
  <2>2. Mant + m = c * Drop + s
    <3>1. HalfMant * Drop + Drop * b = (HalfMant + b) * Drop
      BY <1>1, <1>6
    <3>2. HalfMant * Drop \in Nat /\ Drop * b \in Nat
      BY <1>1, <1>6
    <3> QED BY <1>1, <1>6, <3>1, <3>2
  <2>3. Worth("f16", a) = c * p * q * Drop
    BY <1>12
  <2> HIDE DEF c, p, q
  <2>4. \A i, j, k, l, o \in Nat : (i * j + k) * (l * o) = i * l * o * j + k * (l * o)
    OBVIOUS
  <2>5. (c * Drop + s) * (p * q) = c * p * q * Drop + s * (p * q)
    BY <1>1, <2>1, <2>4
  <2> QED BY <1>2, <1>9, <2>1, <2>2, <2>3, <2>5
<1>14. Worth("f16", a + 1) = Worth("f16", a) + Drop * g
  <2>1. Worth("f16", a + 1) = Worth("f16", a) + PowerOfTwo[d - 1] * PowerOfTwo[Rebias] * Drop
    BY <1>3, <1>10, <1>11, F16Step
  <2>2. PowerOfTwo[d - 1] * PowerOfTwo[Rebias] * Drop = Drop * (PowerOfTwo[d - 1] * PowerOfTwo[Rebias])
    BY <1>1, <1>4
  <2> QED BY <1>4, <2>1, <2>2
<1>15. a + 1 <= Infinity["f16"]
  <2>1. (d + 1) * HalfMant <= HalfTopExp * HalfMant
    BY <1>1, <1>3, InfinityNat, ProductMonotone
  <2>2. (d + 1) * HalfMant = HalfMant * d + HalfMant /\ HalfMant * d \in Nat /\ HalfTopExp * HalfMant \in Nat
    <3>1. \A i, j \in Nat : i * j \in Nat /\ (i + 1) * j = j * i + j
      OBVIOUS
    <3> QED BY <1>1, <1>3, <3>1, InfinityNat
  <2> QED BY <1>1, <1>6, <1>7, <1>9, <2>1, <2>2, InfinityNat
<1>16. "f16" \in ReducedTypes
  BY DEF ReducedTypes
<1>17. /\ Rounded("f16", x, IF Up(a, r, Drop) THEN a + 1 ELSE a)
       /\ (IF Up(a, r, Drop) THEN a + 1 ELSE a) \in 0 .. Infinity["f16"]
  BY <1>1, <1>2, <1>11, <1>13, <1>14, <1>15, <1>16, RemainderRounds
<1>18. ShiftRounded(n, Drop) = IF Up(a, r, Drop) THEN a + 1 ELSE a
  BY <1>1, <1>5, ShiftRoundedChoice DEF a, r
<1> QED BY <1>17, <1>18 DEF n

\* A number is stored in f16 as what is nearest to it.
LEMMA F16Rounds ==
  ASSUME NEW x \in 0 .. Infinity["f32"]
  PROVE  Rounded("f16", x, ToF16(x)) /\ ToF16(x) \in 0 .. Infinity["f16"]
<1> DEFINE e == x \div Mant
<1>1. x \in Nat /\ ~IsNan("f32", x) /\ Infinity["f16"] \in Nat
  BY InfinityNat DEF IsNan, Types, ReducedTypes
<1>2. e \in Nat /\ Rebias \in Nat /\ HalfBits \in Nat /\ Bias \in Nat /\ HalfBias \in Nat
      /\ HalfBits < Rebias /\ Rebias = Bias - HalfBias
  BY <1>1, F32Parts, FormatFacts DEF Formats
<1>3. x = Infinity["f32"] => e > Bias + HalfBias
  <2> SUFFICES ASSUME x = Infinity["f32"] PROVE e > Bias + HalfBias
    OBVIOUS
  <2>1. Mant * TopExp <= x
    <3>1. TopExp * Mant = Mant * TopExp /\ Mant * TopExp \in Nat
      <4>1. \A i, j \in Nat : i * j = j * i /\ i * j \in Nat
        OBVIOUS
      <4> QED BY <4>1, InfinityNat, FormatFacts DEF Formats
    <3> QED BY <3>1, InfinityNat
  <2>2. TopExp <= e
    BY <1>1, <2>1, InfinityNat, FormatFacts, DivBounds DEF Formats
  <2>3. TopExp > Bias + HalfBias
    BY <1>2 DEF TopExp
  <2> HIDE DEF e
  <2> QED BY <1>2, <2>2, <2>3, InfinityNat
<1>4. CASE e > Bias + HalfBias
  <2>1. ToF16(x) = Infinity["f16"]
    <3>1. ~(e < Rebias - HalfBits) /\ e \notin (Rebias - HalfBits) .. Rebias
          /\ e \notin (Rebias + 1) .. (Bias + HalfBias)
      <4> HIDE DEF e
      <4> QED BY <1>2, <1>4
    <3>2. ToF16(x) = Infinity["f16"] + 0
      BY <1>1, <1>4, <3>1 DEF ToF16
    <3> QED BY <1>1, <3>2
  <2>2. ValueOf(x, Mant) >= Worth("f16", Infinity["f16"])
    <3>1. ValueOf(x, Mant) \in Nat /\ Worth("f16", Infinity["f16"]) \in Nat
      BY <1>1, ValueType, WorthType, FormatFacts DEF Formats
    <3> QED BY <1>1, <1>4, <3>1, F16Reach
  <2> QED BY <1>1, <2>1, <2>2 DEF Rounded
<1>5. CASE e < Rebias - HalfBits
  <2>1. ToF16(x) = 0
    <3>1. ~(e > Bias + HalfBias) /\ e \notin (Rebias - HalfBits) .. Rebias
          /\ e \notin (Rebias + 1) .. (Bias + HalfBias)
      <4> HIDE DEF e
      <4> QED BY <1>2, <1>5
    <3> QED BY <1>5, <3>1 DEF ToF16
  <2>2. x # Infinity["f32"]
    <3> HIDE DEF e
    <3> QED BY <1>2, <1>3, <1>5
  <2> QED BY <1>1, <1>5, <2>1, <2>2, F16Underflow
<1>6. CASE e \in (Rebias - HalfBits) .. Rebias
  <2>1. ToF16(x) = ShiftRounded((x % Mant) + Mant, SubnormalStep(e))
    <3>1. ~(e > Bias + HalfBias) /\ ~(e < Rebias - HalfBits)
          /\ e \notin (Rebias + 1) .. (Bias + HalfBias)
      <4> HIDE DEF e
      <4> QED BY <1>2, <1>6
    <3> QED BY <1>6, <3>1 DEF ToF16
  <2>2. x # Infinity["f32"]
    <3> HIDE DEF e
    <3> QED BY <1>2, <1>3, <1>6
  <2> QED BY <1>1, <1>6, <2>1, <2>2, F16Subnormal
<1>7. CASE e \in (Rebias + 1) .. (Bias + HalfBias)
  <2>1. ToF16(x) = ShiftRounded(x - Rebias * Mant, Drop)
    <3>1. ~(e > Bias + HalfBias) /\ ~(e < Rebias - HalfBits)
          /\ e \notin (Rebias - HalfBits) .. Rebias
      <4> HIDE DEF e
      <4> QED BY <1>2, <1>7
    <3> QED BY <1>7, <3>1 DEF ToF16
  <2>2. x # Infinity["f32"]
    <3> HIDE DEF e
    <3> QED BY <1>2, <1>3, <1>7
  <2> QED BY <1>1, <1>7, <2>1, <2>2, F16Normal
<1>8. \/ e > Bias + HalfBias \/ e < Rebias - HalfBits
      \/ e \in (Rebias - HalfBits) .. Rebias \/ e \in (Rebias + 1) .. (Bias + HalfBias)
  <2> HIDE DEF e
  <2> QED BY <1>2
<1> QED BY <1>4, <1>5, <1>6, <1>7, <1>8
-----------------------------------------------------------------------------
(* Loading.                                                                *)

\* A number that is loaded is worth what was stored.
LoadsExactly(t, u, x) ==
  /\ x \in 0 .. Infinity["f32"]
  /\ x = Infinity["f32"] <=> u = Infinity[t]
  /\ u # Infinity[t] => ValueOf(x, Mant) = Worth(t, u)

\* bf16 is loaded exactly.
LEMMA Bf16Loads ==
  ASSUME NEW u \in 0 .. Infinity["bf16"]
  PROVE  LoadsExactly("bf16", u, FromBf16(u))
<1> DEFINE top == Infinity["bf16"]
           x == MantLow * u
<1>1. MantLow \in Nat \ {0} /\ MantHigh \in Nat \ {0} /\ top \in Nat /\ Infinity["f32"] = MantLow * top
      /\ Infinity["f32"] \in Nat
  BY Bf16Infinite, InfinityNat, FormatFacts DEF Formats, Types, ReducedTypes
<1>2. u \in Nat /\ u <= top
  BY <1>1
<1> HIDE DEF top
<1>3. FromBf16(u) = x /\ x \in Nat
  BY <1>1, <1>2 DEF FromBf16
<1>4. x <= MantLow * top
  <2>1. u * MantLow <= top * MantLow
    BY <1>1, <1>2, ProductMonotone
  <2>2. u * MantLow = MantLow * u /\ top * MantLow = MantLow * top
    BY <1>1, <1>2
  <2> QED BY <2>1, <2>2
<1>5. u # top => x < MantLow * top
  <2> SUFFICES ASSUME u # top PROVE x < MantLow * top
    OBVIOUS
  <2>1. u < top
    BY <1>1, <1>2
  <2>2. u * MantLow < top * MantLow
    BY <1>1, <1>2, <2>1, ProductStrict
  <2>3. u * MantLow = MantLow * u /\ top * MantLow = MantLow * top
    BY <1>1, <1>2
  <2> QED BY <2>2, <2>3
<1>6. ValueOf(x, Mant) = Worth("bf16", u)
  <2>1. 0 \in 0 .. (MantLow - 1) /\ x + 0 = x
    BY <1>1, <1>3
  <2>2. ValueOf(MantLow * u + 0, Mant) = Worth("bf16", u) + 0 * Ulp(u \div MantHigh)
    BY <1>2, <2>1, Bf16Exact
  <2>3. Ulp(u \div MantHigh) \in Nat /\ Worth("bf16", u) \in Nat
    <3>1. u \div MantHigh \in Nat
      BY <1>1, <1>2, DivMod
    <3> QED BY <1>2, <3>1, UlpPositive, WorthType
  <2>4. Worth("bf16", u) + 0 * Ulp(u \div MantHigh) = Worth("bf16", u)
    BY <2>3
  <2> QED BY <2>1, <2>2, <2>4
<1> HIDE DEF x
<1>7. /\ x \in 0 .. Infinity["f32"]
      /\ x = Infinity["f32"] <=> u = top
  <2>1. x <= Infinity["f32"] /\ (u # top => x < Infinity["f32"])
    BY <1>1, <1>4, <1>5
  <2>2. u = top => x = Infinity["f32"]
    BY <1>1 DEF x
  <2> QED BY <1>1, <1>3, <2>1, <2>2
<1> QED BY <1>3, <1>6, <1>7 DEF LoadsExactly, top

\* The leading 1 of a subnormal is some doublings away from where it belongs.
LEMMA RenormalizationShift ==
  ASSUME NEW mant \in 1 .. (HalfMant - 1)
  PROVE  /\ Renormalization(mant) \in 1 .. HalfBits
         /\ mant * PowerOfTwo[Renormalization(mant)] \in HalfMant .. (2 * HalfMant - 1)
<1> DEFINE Reaches(s) == mant * PowerOfTwo[s] >= HalfMant
           S == {s \in Nat : Reaches(s)}
<1>1. HalfMant \in Nat \ {0} /\ HalfBits \in Nat \ {0} /\ HalfMant = PowerOfTwo[HalfBits] /\ mant \in Nat \ {0}
  BY FormatFacts DEF Formats
<1>2. HalfBits \in S
  <2>1. 1 * HalfMant <= mant * HalfMant
    <3>1. 1 <= mant /\ mant \in Int /\ 1 \in Int /\ HalfMant \in Nat
      BY <1>1
    <3> QED BY <3>1, ProductMonotone
  <2>2. mant * HalfMant \in Nat /\ 1 * HalfMant = HalfMant
    BY <1>1
  <2>3. mant * HalfMant >= HalfMant
    BY <1>1, <2>1, <2>2
  <2> QED BY <1>1, <2>3
<1>3. PICK s \in S : \A y \in S : s <= y
  <2>1. S \in SUBSET Nat /\ S # {}
    BY <1>2
  <2> HIDE DEF S
  <2> QED BY <2>1, LeastNatural
<1>4. s \in Nat /\ mant * PowerOfTwo[s] >= HalfMant /\ s <= HalfBits
  <2>1. s <= HalfBits
    <3> HIDE DEF S
    <3> QED BY <1>2, <1>3
  <2> QED BY <2>1
<1>5. s # 0
  <2>1. mant * PowerOfTwo[0] = mant
    BY <1>1, PowerLaw
  <2>2. ~(mant >= HalfMant)
    BY <1>1
  <2> QED BY <1>4, <2>1, <2>2
<1>6. s - 1 \in Nat /\ s = (s - 1) + 1 /\ ~(s <= s - 1)
  BY <1>4, <1>5
<1>7. s - 1 \notin S
  <2> HIDE DEF S
  <2> QED BY <1>3, <1>6
<1>8. ~(mant * PowerOfTwo[s - 1] >= HalfMant)
  BY <1>6, <1>7
<1>9. PowerOfTwo[s] = 2 * PowerOfTwo[s - 1] /\ PowerOfTwo[s - 1] \in Nat
  <2> DEFINE k == s - 1
  <2>1. k \in Nat /\ s = k + 1
    BY <1>6
  <2> HIDE DEF k
  <2>2. PowerOfTwo[k] \in Nat /\ PowerOfTwo[k + 1] = 2 * PowerOfTwo[k]
    BY <2>1, PowerLaw
  <2>3. PowerOfTwo[s] = 2 * PowerOfTwo[k]
    BY <2>1, <2>2
  <2> QED BY <2>2, <2>3 DEF k
<1>10. mant * PowerOfTwo[s] = 2 * (mant * PowerOfTwo[s - 1]) /\ mant * PowerOfTwo[s - 1] \in Nat
  BY <1>1, <1>9
<1>11. s \in 1 .. HalfBits /\ mant * PowerOfTwo[s] \in HalfMant .. (2 * HalfMant - 1)
  <2> DEFINE w == mant * PowerOfTwo[s - 1]
  <2>1. w \in Nat /\ w < HalfMant /\ mant * PowerOfTwo[s] = 2 * w
    BY <1>1, <1>8, <1>10
  <2>2. s \in 1 .. HalfBits
    BY <1>1, <1>4, <1>5
  <2> HIDE DEF w
  <2>3. 2 * w \in HalfMant .. (2 * HalfMant - 1)
    BY <1>1, <1>4, <2>1
  <2> QED BY <2>1, <2>2, <2>3
<1> DEFINE Fits(shift) == mant * PowerOfTwo[shift] \in HalfMant .. (2 * HalfMant - 1)
<1>12. \E shift \in 1 .. HalfBits : Fits(shift)
  BY <1>11
<1>13. Renormalization(mant) = CHOOSE shift \in 1 .. HalfBits : Fits(shift)
  BY DEF Renormalization
<1>14. Renormalization(mant) \in 1 .. HalfBits /\ Fits(Renormalization(mant))
  <2> HIDE DEF Fits
  <2> QED BY <1>12, <1>13
<1> QED BY <1>14

\* An f32 put together from its parts is below infinity, and worth what they say.
LEMMA F32Made ==
  ASSUME NEW e \in Nat \ {0}, e < TopExp, NEW m \in 0 .. (Mant - 1)
  PROVE  /\ e * Mant + m \in 0 .. Infinity["f32"] /\ e * Mant + m # Infinity["f32"]
         /\ ValueOf(e * Mant + m, Mant) = (Mant + m) * PowerOfTwo[e - 1]
<1>1. Mant \in Nat \ {0}
  BY FormatFacts DEF Formats
<1>2. e * Mant = Mant * e /\ e * Mant \in Nat /\ TopExp * Mant \in Nat
  <2>1. \A i, j \in Nat : i * j = j * i /\ i * j \in Nat
    OBVIOUS
  <2> QED BY <1>1, <2>1, InfinityNat
<1>3. (e + 1) * Mant <= TopExp * Mant
  BY <1>1, InfinityNat, ProductMonotone
<1>4. (e + 1) * Mant = e * Mant + Mant
  BY <1>1
<1>5. e * Mant + m < TopExp * Mant /\ e * Mant + m \in Nat
  BY <1>1, <1>2, <1>3, <1>4
<1>6. ValueOf(Mant * e + m, Mant) = (Mant + m) * PowerOfTwo[e - 1]
  BY <1>1, ValueOfParts
<1> QED BY <1>2, <1>5, <1>6, InfinityNat

\* f16 is loaded exactly: zero, the subnormals, the normal numbers and infinity.
LEMMA F16Loads ==
  ASSUME NEW u \in 0 .. Infinity["f16"]
  PROVE  LoadsExactly("f16", u, FromF16(u))
<1> DEFINE e == u \div HalfMant
           m == u % HalfMant
           top == Infinity["f16"]
           P == PowerOfTwo[Rebias]
           x == FromF16(u)
<1>1. /\ Mant \in Nat \ {0} /\ Mant = HalfMant * Drop /\ Drop \in Nat \ {0} /\ HalfMant \in Nat \ {0}
      /\ HalfBits \in Nat \ {0} /\ HalfBits < Rebias
      /\ Rebias \in Nat /\ Bias \in Nat /\ HalfBias \in Nat /\ Rebias = Bias - HalfBias
  BY FormatFacts DEF Formats
<1>2. /\ top \in Nat /\ top = HalfTopExp * HalfMant /\ Infinity["f32"] \in Nat
      /\ HalfTopExp = 2 * HalfBias + 1 /\ TopExp = 2 * Bias + 1
  BY InfinityNat DEF Types, ReducedTypes, HalfTopExp, TopExp
<1>3. u \in Nat /\ u <= top
  BY <1>2
<1>4. e \in Nat /\ m \in 0 .. (HalfMant - 1) /\ u = HalfMant * e + m
  BY <1>1, <1>3, DivMod
<1>5. P \in Nat \ {0}
  BY <1>1, PowerLaw
<1>6. e <= HalfTopExp /\ (e = HalfTopExp => m = 0 /\ u = top) /\ (u = top => e = HalfTopExp)
  <2>1. HalfTopExp * HalfMant = HalfMant * HalfTopExp /\ HalfTopExp \in Nat /\ HalfMant * HalfTopExp \in Nat
    <3>1. \A i, j \in Nat : i * j = j * i /\ i * j \in Nat
      OBVIOUS
    <3>2. HalfTopExp \in Nat
      BY <1>1, <1>2
    <3> QED BY <1>1, <3>1, <3>2
  <2>2. u = top => e = HalfTopExp
    <3> SUFFICES ASSUME u = top PROVE e = HalfTopExp
      OBVIOUS
    <3>1. u = HalfMant * HalfTopExp + 0 /\ 0 \in 0 .. (HalfMant - 1)
      BY <1>1, <1>2, <2>1
    <3>2. (HalfMant * HalfTopExp + 0) \div HalfMant = HalfTopExp
      BY <1>1, <2>1, <3>1, DivModUnique
    <3> QED BY <3>1, <3>2
  <2>3. u < HalfMant * HalfTopExp => e < HalfTopExp
    BY <1>1, <1>3, <2>1, DivBounds
  <2>4. e = HalfTopExp => m = 0
    <3> HIDE DEF e, m
    <3> SUFFICES ASSUME e = HalfTopExp PROVE m = 0
      OBVIOUS
    <3>1. HalfMant * HalfTopExp + m <= HalfMant * HalfTopExp
      BY <1>2, <1>3, <1>4, <2>1
    <3> QED BY <1>1, <1>4, <2>1, <3>1
  <2> HIDE DEF e, m
  <2> QED BY <1>1, <1>2, <1>3, <1>4, <2>1, <2>2, <2>3, <2>4
<1>7. CASE u = 0
  <2>1. x = 0
    <3>1. e = 0 /\ m = 0
      <4>1. 0 \in 0 .. (HalfMant - 1) /\ HalfMant * 0 + 0 = 0
        BY <1>1
      <4>2. (HalfMant * 0 + 0) \div HalfMant = 0 /\ (HalfMant * 0 + 0) % HalfMant = 0
        BY <1>1, <4>1, DivModUnique
      <4> QED BY <1>7, <4>1, <4>2
    <3>2. ~(m > 0) /\ e # HalfTopExp /\ e \notin 1 .. (HalfTopExp - 1)
      <4> HIDE DEF e, m
      <4> QED BY <1>1, <1>2, <3>1
    <3> QED BY <1>7, <3>2 DEF FromF16
  <2>2. u # top /\ Infinity["f32"] # 0
    <3>1. HalfTopExp * HalfMant \in Nat \ {0} /\ TopExp * Mant \in Nat \ {0}
      BY <1>1, InfinityNat, ProductPositive
    <3> QED BY <1>2, <1>7, <3>1, InfinityNat
  <2>3. ValueOf(0, Mant) = 0 /\ ValueOf(0, HalfMant) = 0
    <3>1. 0 \in 0 .. (Mant - 1) /\ 0 \in 0 .. (HalfMant - 1) /\ Mant * 0 + 0 = 0 /\ HalfMant * 0 + 0 = 0
      BY <1>1
    <3>2. ValueOf(Mant * 0 + 0, Mant) = 0 /\ ValueOf(HalfMant * 0 + 0, HalfMant) = 0
      BY <1>1, <3>1, ValueOfParts
    <3> QED BY <3>1, <3>2
  <2>4. Worth("f16", 0) = 0
    <3>1. 0 * P * Drop = 0
      BY <1>1, <1>5
    <3> QED BY <2>3, <3>1 DEF Worth
  <2> HIDE DEF x
  <2> QED BY <1>2, <1>7, <2>1, <2>2, <2>3, <2>4 DEF LoadsExactly, x
<1>8. CASE u # 0 /\ e = 0
  <2> DEFINE s == Renormalization(m)
             w == m * PowerOfTwo[s]
             k == Rebias + 1 - s
             n == (w - HalfMant) * Drop
  <2>1. m = u /\ m \in 1 .. (HalfMant - 1)
    <3> HIDE DEF e, m
    <3> QED BY <1>1, <1>3, <1>4, <1>8
  <2>2. s \in 1 .. HalfBits /\ w \in HalfMant .. (2 * HalfMant - 1)
    <3> HIDE DEF m
    <3> QED BY <2>1, RenormalizationShift
  <2>3. x = k * Mant + n
    <3>1. u # 0 /\ e = 0 /\ m > 0 /\ e # HalfTopExp /\ e \notin 1 .. (HalfTopExp - 1)
      <4> HIDE DEF e, m
      <4> QED BY <1>1, <1>2, <1>8, <2>1
    <3> QED BY <3>1 DEF FromF16
  <2>4. k \in Nat \ {0} /\ k < TopExp /\ k - 1 \in Nat /\ s \in Nat /\ s + (k - 1) = Rebias
    <3> HIDE DEF s
    <3> QED BY <1>1, <1>2, <2>2
  <2>5. n \in 0 .. (Mant - 1) /\ Mant + n = w * Drop /\ w \in Nat
    <3> HIDE DEF w
    <3>1. w - HalfMant \in 0 .. (HalfMant - 1)
      BY <1>1, <2>2
    <3> DEFINE y == w - HalfMant
    <3> HIDE DEF y
    <3>2. y \in Nat /\ y + 1 <= HalfMant /\ w = HalfMant + y
      BY <1>1, <2>2, <3>1 DEF y
    <3>3. (y + 1) * Drop <= HalfMant * Drop
      BY <1>1, <3>2, ProductMonotone
    <3>4. (y + 1) * Drop = y * Drop + Drop /\ y * Drop \in Nat
          /\ (HalfMant + y) * Drop = HalfMant * Drop + y * Drop
      <4>1. \A i, j, l \in Nat : i * j \in Nat /\ (i + 1) * j = i * j + j /\ (i + l) * j = i * j + l * j
        OBVIOUS
      <4> QED BY <1>1, <3>2, <4>1
    <3>5. n = y * Drop
      BY DEF y
    <3> HIDE DEF n
    <3> QED BY <1>1, <3>2, <3>3, <3>4, <3>5
  <2>6. /\ x \in 0 .. Infinity["f32"] /\ x # Infinity["f32"]
        /\ ValueOf(x, Mant) = (Mant + n) * PowerOfTwo[k - 1]
    <3> HIDE DEF k, n
    <3> QED BY <2>3, <2>4, <2>5, F32Made
  <2>7. P = PowerOfTwo[s] * PowerOfTwo[k - 1] /\ PowerOfTwo[s] \in Nat /\ PowerOfTwo[k - 1] \in Nat
    <3> DEFINE l == k - 1
    <3>1. l \in Nat /\ s \in Nat /\ s + l = Rebias
      BY <2>4
    <3> HIDE DEF l, s
    <3>2. PowerOfTwo[s + l] = PowerOfTwo[s] * PowerOfTwo[l]
      BY <3>1, PowerSum
    <3>3. PowerOfTwo[s] \in Nat /\ PowerOfTwo[l] \in Nat
      BY <3>1, PowerLaw
    <3> QED BY <3>1, <3>2, <3>3 DEF l
  <2>8. Worth("f16", u) = m * P * Drop
    <3>1. ValueOf(u, HalfMant) = m
      BY <1>8 DEF ValueOf
    <3> QED BY <3>1 DEF Worth
  <2>9. (Mant + n) * PowerOfTwo[k - 1] = m * P * Drop
    <3>1. \A i, j, l, o \in Nat : ((i * j) * l) * o = i * (j * o) * l
      OBVIOUS
    <3>2. m \in Nat
      BY <2>1
    <3> DEFINE ps == PowerOfTwo[s]
               pk == PowerOfTwo[k - 1]
    <3>3. ps \in Nat /\ pk \in Nat /\ P = ps * pk /\ Mant + n = (m * ps) * Drop
      BY <2>5, <2>7
    <3> HIDE DEF ps, pk, m
    <3>4. ((m * ps) * Drop) * pk = m * (ps * pk) * Drop
      BY <1>1, <3>1, <3>2, <3>3
    <3>5. (Mant + n) * pk = m * P * Drop
      <4> HIDE DEF n, P
      <4> QED BY <3>3, <3>4
    <3> QED BY <3>5 DEF pk
  <2>10. u # top
    <3> HIDE DEF e
    <3> QED BY <1>2, <1>6, <1>8, <1>1
  <2> HIDE DEF x, k, n, P, m
  <2> QED BY <2>6, <2>8, <2>9, <2>10 DEF LoadsExactly, x
<1>9. CASE e \in 1 .. (HalfTopExp - 1)
  <2> DEFINE k == e + Rebias
             n == m * Drop
  <2>1. u # 0 /\ u # top /\ e # 0 /\ e # HalfTopExp
    <3>1. e # 0 /\ e # HalfTopExp
      <4> HIDE DEF e
      <4> QED BY <1>1, <1>2, <1>9
    <3>2. 0 \div HalfMant = 0
      <4>1. (HalfMant * 0 + 0) \div HalfMant = 0
        <5>1. 0 \in 0 .. (HalfMant - 1)
          BY <1>1
        <5> QED BY <1>1, <5>1, DivModUnique
      <4>2. HalfMant * 0 + 0 = 0
        BY <1>1
      <4> QED BY <4>1, <4>2
    <3> QED BY <1>6, <3>1, <3>2
  <2>2. x = k * Mant + n
    BY <1>9, <2>1 DEF FromF16
  <2>3. k \in Nat \ {0} /\ k < TopExp /\ e - 1 \in Nat /\ (e - 1) + Rebias = k - 1
    <3> HIDE DEF e
    <3> QED BY <1>1, <1>2, <1>9
  <2>4. n \in 0 .. (Mant - 1) /\ Mant + n = (HalfMant + m) * Drop /\ m \in Nat
    <3> HIDE DEF m
    <3>1. m \in Nat /\ m + 1 <= HalfMant
      BY <1>1, <1>4
    <3>2. (m + 1) * Drop <= HalfMant * Drop
      BY <1>1, <3>1, ProductMonotone
    <3>3. (m + 1) * Drop = m * Drop + Drop /\ m * Drop \in Nat
          /\ (HalfMant + m) * Drop = HalfMant * Drop + m * Drop
      <4>1. \A i, j, l \in Nat : i * j \in Nat /\ (i + 1) * j = i * j + j /\ (i + l) * j = i * j + l * j
        OBVIOUS
      <4> QED BY <1>1, <3>1, <4>1
    <3> QED BY <1>1, <3>1, <3>2, <3>3
  <2>5. /\ x \in 0 .. Infinity["f32"] /\ x # Infinity["f32"]
        /\ ValueOf(x, Mant) = (Mant + n) * PowerOfTwo[k - 1]
    <3> HIDE DEF k, n
    <3> QED BY <2>2, <2>3, <2>4, F32Made
  <2>6. PowerOfTwo[k - 1] = PowerOfTwo[e - 1] * P /\ PowerOfTwo[e - 1] \in Nat
    <3> DEFINE l == k - 1
               d == e - 1
    <3>1. d \in Nat /\ d + Rebias = l
      BY <2>3
    <3> HIDE DEF l, d
    <3>2. PowerOfTwo[d + Rebias] = PowerOfTwo[d] * P /\ PowerOfTwo[d] \in Nat
      BY <1>1, <3>1, PowerSum, PowerLaw
    <3>3. PowerOfTwo[l] = PowerOfTwo[d] * P
      BY <3>1, <3>2
    <3> QED BY <3>2, <3>3 DEF l, d
  <2>7. Worth("f16", u) = (HalfMant + m) * PowerOfTwo[e - 1] * P * Drop
    <3>1. ValueOf(u, HalfMant) = (HalfMant + m) * PowerOfTwo[e - 1]
      BY <2>1 DEF ValueOf
    <3> QED BY <3>1 DEF Worth
  <2>8. (Mant + n) * PowerOfTwo[k - 1] = (HalfMant + m) * PowerOfTwo[e - 1] * P * Drop
    <3>1. \A i, j, l, o \in Nat : (i * j) * (l * o) = i * l * o * j
      OBVIOUS
    <3> DEFINE pe == PowerOfTwo[e - 1]
               pk == PowerOfTwo[k - 1]
               c == HalfMant + m
    <3>2. c \in Nat /\ pe \in Nat /\ pk = pe * P /\ Mant + n = c * Drop /\ P \in Nat
      BY <1>1, <1>5, <2>4, <2>6
    <3> HIDE DEF pe, pk, c, P, n
    <3>3. (c * Drop) * (pe * P) = c * pe * P * Drop
      BY <1>1, <3>1, <3>2
    <3>4. (Mant + n) * pk = c * pe * P * Drop
      BY <3>2, <3>3
    <3> QED BY <3>4 DEF pe, pk, c
  <2> HIDE DEF x, k, n, P, m, e
  <2> QED BY <2>1, <2>5, <2>7, <2>8 DEF LoadsExactly, x
<1>10. CASE e = HalfTopExp
  <2>1. m = 0 /\ u = top
    BY <1>6, <1>10
  <2>2. u # 0 /\ e # 0
    <3>1. HalfTopExp # 0
      BY <1>1, <1>2
    <3>2. HalfTopExp * HalfMant \in Nat \ {0}
      BY <1>1, InfinityNat, ProductPositive
    <3> QED BY <1>2, <1>10, <2>1, <3>1, <3>2
  <2>3. x = Infinity["f32"] + m * Drop
    <3>1. e \notin 1 .. (HalfTopExp - 1)
      <4> HIDE DEF e
      <4> QED BY <1>1, <1>2, <1>10
    <3> QED BY <1>10, <2>2, <3>1 DEF FromF16
  <2>4. x = Infinity["f32"]
    <3>1. 0 * Drop = 0
      BY <1>1
    <3> QED BY <1>2, <2>1, <2>3, <3>1
  <2>5. x \in 0 .. Infinity["f32"]
    BY <1>2, <2>4
  <2> HIDE DEF x
  <2> QED BY <2>1, <2>4, <2>5 DEF LoadsExactly, x
<1>11. u = 0 \/ (u # 0 /\ e = 0) \/ e \in 1 .. (HalfTopExp - 1) \/ e = HalfTopExp
  <2> HIDE DEF e, top
  <2> QED BY <1>1, <1>2, <1>4, <1>6
<1> QED BY <1>7, <1>8, <1>9, <1>10, <1>11
-----------------------------------------------------------------------------
(* Not-a-numbers.                                                          *)

\* A type's patterns are its numbers with infinity, and above it its NaNs.
LEMMA PatternParts ==
  /\ Patterns("f32") = 0 .. (Infinity["f32"] + Mant - 1)
  /\ Patterns("bf16") = 0 .. (Infinity["bf16"] + MantHigh - 1)
  /\ Patterns("f16") = 0 .. (Infinity["f16"] + HalfMant - 1)
  /\ Infinity["f32"] \in Nat /\ Infinity["bf16"] \in Nat /\ Infinity["f16"] \in Nat
<1>1. /\ Patterns("f32") = 0 .. ((TopExp + 1) * Mant - 1)
      /\ Patterns("bf16") = 0 .. ((TopExp + 1) * MantHigh - 1)
      /\ Patterns("f16") = 0 .. ((HalfTopExp + 1) * HalfMant - 1)
  BY DEF Patterns
<1>2. \A i, j \in Nat : (i + 1) * j = i * j + j
  OBVIOUS
<1>3. /\ (TopExp + 1) * Mant = Infinity["f32"] + Mant
      /\ (TopExp + 1) * MantHigh = Infinity["bf16"] + MantHigh
      /\ (HalfTopExp + 1) * HalfMant = Infinity["f16"] + HalfMant
  BY <1>2, InfinityNat, FormatFacts DEF Formats
<1>4. Infinity["f32"] \in Nat /\ Infinity["bf16"] \in Nat /\ Infinity["f16"] \in Nat
  BY InfinityNat DEF Types, ReducedTypes
<1> DEFINE A == (TopExp + 1) * Mant
           B == (TopExp + 1) * MantHigh
           C == (HalfTopExp + 1) * HalfMant
<1>5. /\ Patterns("f32") = 0 .. (A - 1) /\ A = Infinity["f32"] + Mant
      /\ Patterns("bf16") = 0 .. (B - 1) /\ B = Infinity["bf16"] + MantHigh
      /\ Patterns("f16") = 0 .. (C - 1) /\ C = Infinity["f16"] + HalfMant
  BY <1>1, <1>3
<1>6. Mant \in Nat /\ MantHigh \in Nat /\ HalfMant \in Nat
  BY FormatFacts DEF Formats
<1> HIDE DEF A, B, C
<1>7. \A i, j \in Nat : (i + j) - 1 = i + (j - 1)
  OBVIOUS
<1>8. /\ A - 1 = Infinity["f32"] + (Mant - 1)
      /\ B - 1 = Infinity["bf16"] + (MantHigh - 1)
      /\ C - 1 = Infinity["f16"] + (HalfMant - 1)
  BY <1>4, <1>5, <1>6, <1>7
<1> QED BY <1>4, <1>5, <1>8, Zenon

\* Patterns are naturals.
LEMMA PatternsNat == \A t \in Types : Patterns(t) \in SUBSET Nat /\ Infinity[t] \in Nat
<1>1. \A a : 0 .. a \in SUBSET Nat
  OBVIOUS
<1>2. /\ Patterns("f32") \in SUBSET Nat /\ Patterns("bf16") \in SUBSET Nat /\ Patterns("f16") \in SUBSET Nat
  BY <1>1, PatternParts
<1> QED BY <1>2, PatternParts DEF Types, ReducedTypes

\* A pattern is a NaN of its type, or a number up to infinity.
LEMMA NotNan ==
  ASSUME NEW t \in Types, NEW u \in Patterns(t)
  PROVE  ~IsNan(t, u) <=> u \in 0 .. Infinity[t]
<1>1. u \in Nat /\ Infinity[t] \in Nat
  BY PatternsNat
<1> QED BY <1>1 DEF IsNan

\* What is up to infinity is a pattern and no NaN.
LEMMA NumberPattern ==
  ASSUME NEW t \in Types, NEW u \in 0 .. Infinity[t]
  PROVE  u \in Patterns(t) /\ ~IsNan(t, u)
<1>1. /\ Mant \in Nat \ {0} /\ MantHigh \in Nat \ {0} /\ HalfMant \in Nat \ {0}
  BY FormatFacts DEF Formats
<1>2. Infinity[t] \in Nat
  BY InfinityNat
<1>3. u \in Patterns(t)
  <2>1. CASE t = "f32"
    BY <1>1, <2>1, PatternParts
  <2>2. CASE t = "bf16"
    BY <1>1, <2>2, PatternParts
  <2>3. CASE t = "f16"
    BY <1>1, <2>3, PatternParts
  <2> QED BY <2>1, <2>2, <2>3 DEF Types, ReducedTypes
<1> QED BY <1>2, <1>3 DEF IsNan

\* bf16 keeps a NaN by its quiet bit, even where all its payload is in the lower half.
LEMMA Bf16StoresNan ==
  ASSUME NEW x \in Patterns("f32"), IsNan("f32", x)
  PROVE  ToBf16(x) \in Patterns("bf16") /\ IsNan("bf16", ToBf16(x))
<1> DEFINE q == x \div MantLow
           h == MantHigh \div 2
           top == Infinity["bf16"]
<1>1. /\ MantLow \in Nat \ {0} /\ MantHigh \in Nat \ {0} /\ h \in Nat \ {0} /\ MantHigh = 2 * h
      /\ Mant = MantHigh * MantLow
  BY FormatFacts DEF Formats
<1>2. /\ x \in Nat /\ x > Infinity["f32"] /\ x < Infinity["f32"] + Mant
      /\ top \in Nat /\ Infinity["f32"] = MantLow * top /\ Infinity["f32"] \in Nat
  <2>1. Mant \in Nat
    BY FormatFacts DEF Formats
  <2>2. x \in Nat /\ x > Infinity["f32"] /\ x < Infinity["f32"] + Mant /\ top \in Nat /\ Infinity["f32"] \in Nat
    BY <2>1, PatternParts DEF IsNan
  <2> QED BY <2>2, Bf16Infinite
<1>3. top <= q /\ q < top + MantHigh /\ q \in Nat
  <2>1. MantLow * (top + MantHigh) = MantLow * top + Mant
    <3>1. \A i, j, k \in Nat : i * (j + k) = i * j + k * i
      OBVIOUS
    <3> HIDE DEF top
    <3> QED BY <1>1, <1>2, <3>1
  <2>2. MantLow * top <= x /\ x < MantLow * (top + MantHigh)
    <3>1. MantLow * top \in Nat /\ Mant \in Nat
      BY <1>2, FormatFacts DEF Formats
    <3> QED BY <1>2, <2>1, <3>1
  <2>3. top + MantHigh \in Nat
    BY <1>1, <1>2
  <2>4. q \in Nat
    BY <1>1, <1>2, DivMod
  <2> HIDE DEF top
  <2> QED BY <1>1, <1>2, <2>2, <2>3, <2>4, DivBounds
<1> DEFINE d == q - top
<1> HIDE DEF h, q
<1>4. d \in 0 .. (2 * h - 1) /\ q = top + d /\ top = h * (2 * TopExp) /\ 2 * TopExp \in Nat
  <2>1. top = TopExp * (2 * h) /\ TopExp \in Nat
    BY <1>1, InfinityNat
  <2>2. \A i, j \in Nat : i * (2 * j) = j * (2 * i)
    OBVIOUS
  <2> HIDE DEF top
  <2> QED BY <1>1, <1>2, <1>3, <2>1, <2>2
<1>5. ToBf16(x) = IF (q \div h) % 2 = 1 THEN q ELSE q + h
  BY DEF ToBf16, Quiet, q, h
<1> HIDE DEF d, top
<1>6. CASE d < h
  <2>1. q \div h = 2 * TopExp
    <3>1. d \in 0 .. (h - 1)
      BY <1>1, <1>4, <1>6
    <3>2. (h * (2 * TopExp) + d) \div h = 2 * TopExp
      BY <1>1, <1>4, <3>1, DivModUnique
    <3> QED BY <1>4, <3>2
  <2>2. (q \div h) % 2 = 0
    <3>1. TopExp \in Nat
      BY InfinityNat
    <3>2. \A i \in Nat : (2 * i) % 2 = 0
      OBVIOUS
    <3> QED BY <2>1, <3>1, <3>2
  <2>3. ToBf16(x) = q + h
    BY <1>5, <2>2
  <2>4. q + h > top /\ q + h < top + MantHigh /\ q + h \in Nat
    BY <1>1, <1>2, <1>3, <1>4, <1>6
  <2> QED
    <3>1. Patterns("bf16") = 0 .. (top + MantHigh - 1) /\ top \in Nat /\ MantHigh \in Nat
      BY <1>1, <1>2, PatternParts DEF top
    <3>2. q + h \in 0 .. (top + MantHigh - 1)
      BY ONLY <2>4, <3>1
    <3>3. IsNan("bf16", q + h)
      BY ONLY <2>4 DEF IsNan, top
    <3> QED BY ONLY <2>3, <3>1, <3>2, <3>3
<1>7. CASE h <= d
  <2>1. q \div h = 2 * TopExp + 1
    <3>1. d - h \in 0 .. (h - 1) /\ 2 * TopExp + 1 \in Nat
      BY <1>1, <1>4, <1>7
    <3> DEFINE l == d - h
               k == 2 * TopExp + 1
    <3>2. h * k + l = h * (2 * TopExp) + d
      <4>1. h * k = h * (2 * TopExp) + h
        BY <1>1, <1>4
      <4>2. h * (2 * TopExp) \in Nat
        BY <1>2, <1>4
      <4> HIDE DEF k
      <4> QED BY <1>1, <1>4, <4>1, <4>2
    <3>3. (h * k + l) \div h = k
      <4> HIDE DEF k, l
      <4> QED BY <1>1, <3>1, DivModUnique DEF k, l
    <3> QED BY <1>4, <3>2, <3>3
  <2>2. (q \div h) % 2 = 1
    <3>1. TopExp \in Nat
      BY InfinityNat
    <3>2. \A i \in Nat : (2 * i + 1) % 2 = 1
      OBVIOUS
    <3> QED BY <2>1, <3>1, <3>2
  <2>3. ToBf16(x) = q
    BY <1>5, <2>2
  <2>4. q > top
    BY <1>1, <1>2, <1>3, <1>4, <1>7
  <2> QED
    <3>1. Patterns("bf16") = 0 .. (top + MantHigh - 1) /\ top \in Nat /\ MantHigh \in Nat
      BY <1>1, <1>2, PatternParts DEF top
    <3>2. q \in 0 .. (top + MantHigh - 1)
      BY ONLY <1>3, <2>4, <3>1
    <3>3. IsNan("bf16", q)
      BY ONLY <2>4 DEF IsNan, top
    <3> QED BY ONLY <2>3, <3>1, <3>2, <3>3
<1> QED BY <1>1, <1>4, <1>6, <1>7

\* f16 has an infinity and NaNs for an f32's, from the scalar loop and from the vectors.
LEMMA F16StoresNan ==
  ASSUME NEW x \in Patterns("f32"), IsNan("f32", x), NEW u \in Stored("f16", x)
  PROVE  u \in Patterns("f16") /\ IsNan("f16", u)
<1> DEFINE h == HalfMant \div 2
           top == Infinity["f16"]
<1>1. h \in Nat \ {0} /\ HalfMant = 2 * h /\ top \in Nat
  BY PatternParts, FormatFacts DEF Formats
<1>2. CASE u = ToF16(x)
  <2> DEFINE e == x \div Mant
  <2>1. e > Bias + HalfBias /\ Rebias \in Nat /\ Bias \in Nat /\ HalfBias \in Nat /\ e \in Nat
        /\ HalfBits \in Nat /\ Rebias = Bias - HalfBias
    <3>1. /\ Mant \in Nat \ {0} /\ x \in Nat /\ Infinity["f32"] <= x
          /\ Rebias \in Nat /\ Bias \in Nat /\ HalfBias \in Nat /\ HalfBits \in Nat
          /\ HalfBits < Rebias /\ Rebias = Bias - HalfBias
      <4>1. x \in Nat /\ Infinity["f32"] <= x
        <5>1. Mant \in Nat
          BY FormatFacts DEF Formats
        <5> QED BY <5>1, PatternParts DEF IsNan
      <4> QED BY <4>1, FormatFacts DEF Formats
    <3>2. TopExp * Mant = Mant * TopExp /\ TopExp \in Nat
      <4>1. \A i, j \in Nat : i * j = j * i
        OBVIOUS
      <4> QED BY <3>1, <4>1, InfinityNat
    <3>3. TopExp <= e
      BY <3>1, <3>2, InfinityNat, DivBounds
    <3>4. TopExp > Bias + HalfBias
      BY <3>1 DEF TopExp
    <3>5. e \in Nat
      BY <3>1, DivMod
    <3> HIDE DEF e
    <3> QED BY <3>1, <3>2, <3>3, <3>4, <3>5
  <2>2. ToF16(x) = top + h
    <3>1. ~(e < Rebias - HalfBits) /\ e \notin (Rebias - HalfBits) .. Rebias
          /\ e \notin (Rebias + 1) .. (Bias + HalfBias)
      <4> HIDE DEF e
      <4> QED BY <2>1
    <3> QED BY <2>1, <3>1 DEF ToF16
  <2> HIDE DEF h, top
  <2>3. top + h \in 0 .. (top + HalfMant - 1) /\ top + h > top
    BY <1>1
  <2>4. Patterns("f16") = 0 .. (top + HalfMant - 1)
    BY PatternParts DEF top
  <2> QED BY <1>2, <2>2, <2>3, <2>4 DEF IsNan, top
<1>3. CASE u \in Patterns("f16") /\ u - top >= h
  <2>1. u \in Nat
    BY <1>3, PatternsNat DEF Types, ReducedTypes
  <2>2. u > top
    <3> HIDE DEF h, top
    <3> QED BY <1>1, <1>3, <2>1
  <2> QED BY <1>3, <2>2 DEF IsNan
<1>4. u = ToF16(x) \/ (u \in Patterns("f16") /\ u - top >= h)
  BY DEF Stored
<1> QED BY <1>2, <1>3, <1>4

\* A NaN of bf16 is loaded as a NaN.
LEMMA Bf16LoadsNan ==
  ASSUME NEW u \in Patterns("bf16"), IsNan("bf16", u)
  PROVE  FromBf16(u) \in Patterns("f32") /\ IsNan("f32", FromBf16(u))
<1> DEFINE top == Infinity["bf16"]
<1>1. /\ MantLow \in Nat \ {0} /\ MantHigh \in Nat \ {0} /\ Mant = MantHigh * MantLow
      /\ u \in Nat /\ top \in Nat /\ u > top /\ u + 1 <= top + MantHigh /\ Infinity["f32"] = MantLow * top
  <2>1. MantLow \in Nat \ {0} /\ MantHigh \in Nat \ {0} /\ Mant = MantHigh * MantLow
    BY FormatFacts DEF Formats
  <2>2. u \in Nat /\ top \in Nat /\ u > top /\ u + 1 <= top + MantHigh
    BY <2>1, PatternParts DEF IsNan
  <2> QED BY <2>1, <2>2, Bf16Infinite
<1> HIDE DEF top
<1>2. top * MantLow < u * MantLow
  BY <1>1, ProductStrict
<1>3. (u + 1) * MantLow <= (top + MantHigh) * MantLow
  BY <1>1, ProductMonotone
<1>4. /\ (u + 1) * MantLow = u * MantLow + MantLow /\ (top + MantHigh) * MantLow = top * MantLow + Mant
      /\ top * MantLow = MantLow * top /\ u * MantLow \in Nat /\ top * MantLow \in Nat /\ Mant \in Nat
  BY <1>1
<1>5. u * MantLow > Infinity["f32"] /\ u * MantLow < Infinity["f32"] + Mant
  BY <1>1, <1>2, <1>3, <1>4
<1> DEFINE x == u * MantLow
<1>6. FromBf16(u) = x /\ x \in Nat
  BY <1>4 DEF FromBf16
<1> HIDE DEF x
<1>7. x > Infinity["f32"] /\ x < Infinity["f32"] + Mant
  BY <1>5 DEF x
<1> QED BY <1>4, <1>6, <1>7, PatternParts DEF IsNan

\* A NaN of f16 is loaded as a NaN, made quiet or not.
LEMMA F16LoadsNan ==
  ASSUME NEW u \in Patterns("f16"), IsNan("f16", u), NEW x \in Loaded("f16", u)
  PROVE  x \in Patterns("f32") /\ IsNan("f32", x)
<1> DEFINE top == Infinity["f16"]
           m == u - top
           h == HalfMant \div 2
           all == Infinity["f32"]
<1>1. /\ HalfMant \in Nat \ {0} /\ h \in Nat \ {0} /\ HalfMant = 2 * h /\ Drop \in Nat \ {0}
      /\ Mant = HalfMant * Drop /\ Mant \in Nat \ {0}
      /\ top \in Nat /\ all \in Nat /\ top = HalfTopExp * HalfMant /\ HalfTopExp \in Nat \ {0}
  BY PatternParts, InfinityNat, FormatFacts DEF Formats
<1>2. u \in Nat /\ u > top /\ u < top + HalfMant
  BY <1>1, PatternParts DEF IsNan
<1> HIDE DEF top, h, all
<1>3. m \in 1 .. (HalfMant - 1) /\ u = top + m
  BY <1>1, <1>2
<1> HIDE DEF m
<1>4. top = HalfMant * HalfTopExp
  BY <1>1
<1>5. u \div HalfMant = HalfTopExp /\ u % HalfMant = m
  <2>1. m \in 0 .. (HalfMant - 1)
    BY <1>1, <1>3
  <2>2. (HalfMant * HalfTopExp + m) \div HalfMant = HalfTopExp /\ (HalfMant * HalfTopExp + m) % HalfMant = m
    BY <1>1, <2>1, DivModUnique
  <2> QED BY <1>3, <1>4, <2>2
<1>6. FromF16(u) = all + m * Drop
  <2>1. HalfTopExp # 0 /\ HalfTopExp \notin 1 .. (HalfTopExp - 1) /\ u # 0
    BY <1>1, <1>2
  <2> QED BY <1>5, <2>1 DEF FromF16, all
<1>7. m * Drop \in Nat \ {0} /\ m * Drop < Mant
  <2>1. m \in Nat \ {0} /\ m < HalfMant
    BY <1>1, <1>3
  <2>2. m * Drop < HalfMant * Drop
    BY <1>1, <2>1, ProductStrict
  <2>3. m * Drop \in Nat \ {0}
    BY <1>1, <2>1, ProductPositive
  <2> QED BY <1>1, <2>2, <2>3
<1> DEFINE n == m * Drop
<1>8. ASSUME NEW k \in Nat \ {0}, k < Mant, x = all + k
      PROVE  x \in Patterns("f32") /\ IsNan("f32", x)
  BY <1>1, <1>8, PatternParts DEF IsNan, all
<1>9. CASE x = FromF16(u)
  <2> HIDE DEF n
  <2>1. x = all + n /\ n \in Nat \ {0} /\ n < Mant
    BY <1>6, <1>7, <1>9 DEF n
  <2> QED BY <1>8, <2>1
<1>10. CASE x = FromF16(u) + Mant \div 2 /\ (u \div h) % 2 = 0
  <2>1. Mant \div 2 = h * Drop
    <3>1. Mant = 2 * (h * Drop) /\ h * Drop \in Nat
      <4>1. \A i, j \in Nat : (2 * i) * j = 2 * (i * j) /\ i * j \in Nat
        OBVIOUS
      <4> QED BY <1>1, <4>1
    <3> DEFINE w == h * Drop
    <3> HIDE DEF w
    <3>2. w \in Nat /\ Mant = 2 * w
      BY <3>1 DEF w
    <3>3. Mant \div 2 = w
      BY <3>2
    <3> QED BY <3>3 DEF w
  <2>2. m < h
    <3> SUFFICES ASSUME h <= m PROVE FALSE
      BY <1>1, <1>3
    <3> DEFINE l == m - h
               k == 2 * HalfTopExp + 1
    <3>1. l \in 0 .. (h - 1) /\ k \in Nat
      BY <1>1, <1>3
    <3>2. u = h * k + l
      <4>1. \A i, j \in Nat : j * (2 * i + 1) = (2 * j) * i + j /\ (2 * j) * i \in Nat
        OBVIOUS
      <4>2. h * k = HalfMant * HalfTopExp + h /\ HalfMant * HalfTopExp \in Nat
        BY <1>1, <4>1
      <4> HIDE DEF k
      <4> QED BY <1>1, <1>3, <1>4, <4>2
    <3>3. (h * k + l) \div h = k
      <4> HIDE DEF k, l
      <4> QED BY <1>1, <3>1, DivModUnique DEF k, l
    <3>4. k % 2 = 1
      BY <1>1
    <3> HIDE DEF k, l
    <3> QED BY <1>10, <3>2, <3>3, <3>4
  <2>3. n + h * Drop \in Nat \ {0} /\ n + h * Drop < Mant
    <3>1. (m + h) * Drop < HalfMant * Drop
      <4>1. m + h < HalfMant /\ m + h \in Nat
        BY <1>1, <1>3, <2>2
      <4> QED BY <1>1, <4>1, ProductStrict
    <3>2. (m + h) * Drop = n + h * Drop /\ h * Drop \in Nat
      <4>1. \A i, j, k \in Nat : (i + j) * k = i * k + j * k /\ j * k \in Nat
        OBVIOUS
      <4>2. m \in Nat
        BY <1>1, <1>3
      <4> QED BY <1>1, <4>1, <4>2
    <3>3. n \in Nat \ {0}
      BY <1>7
    <3> DEFINE w == h * Drop
    <3> HIDE DEF n, w
    <3>4. w \in Nat
      BY <3>2 DEF w
    <3>5. n + w \in Nat \ {0}
      BY <3>3, <3>4
    <3> QED BY <1>1, <3>1, <3>2, <3>5 DEF w
  <2> DEFINE w == h * Drop
  <2> HIDE DEF n, w
  <2>4. n \in Nat /\ w \in Nat /\ n + w \in Nat \ {0} /\ n + w < Mant
    <3>1. n \in Nat
      BY <1>7 DEF n
    <3>2. w \in Nat
      <4>1. \A i, j \in Nat : i * j \in Nat
        OBVIOUS
      <4> QED BY <1>1, <4>1 DEF w
    <3> QED BY <2>3, <3>1, <3>2 DEF w
  <2>5. x = (all + n) + w
    BY <1>6, <1>10, <2>1 DEF n, w
  <2>6. x = all + (n + w)
    BY <1>1, <2>4, <2>5
  <2> QED BY <1>8, <2>4, <2>6
<1>11. x = FromF16(u) \/ (x = FromF16(u) + Mant \div 2 /\ (u \div h) % 2 = 0)
  BY DEF Loaded, h
<1> QED BY <1>9, <1>10, <1>11
-----------------------------------------------------------------------------
(* A number stored and loaded again and again.                             *)

\* A number is stored as what is nearest to it.
LEMMA StoresNumber ==
  ASSUME NEW t \in ReducedTypes, NEW x \in 0 .. Infinity["f32"], NEW u \in Stored(t, x)
  PROVE  Rounded(t, x, u) /\ u \in 0 .. Infinity[t]
<1>1. ~IsNan("f32", x)
  BY NumberPattern DEF Types
<1>2. CASE t = "bf16"
  <2>1. u = RoundBf16(x)
    BY <1>1, <1>2 DEF Stored, ToBf16
  <2> QED BY <1>2, <2>1, Bf16Rounds
<1>3. CASE t = "f16"
  <2>1. u = ToF16(x)
    BY <1>1, <1>3 DEF Stored
  <2> QED BY <1>3, <2>1, F16Rounds
<1> QED BY <1>2, <1>3 DEF ReducedTypes

\* A number is loaded as what it is worth.
LEMMA LoadsNumber ==
  ASSUME NEW t \in ReducedTypes, NEW u \in 0 .. Infinity[t], NEW x \in Loaded(t, u)
  PROVE  LoadsExactly(t, u, x)
<1>1. ~IsNan(t, u)
  BY NumberPattern DEF Types
<1>2. CASE t = "bf16"
  <2>1. x = FromBf16(u)
    BY <1>2 DEF Loaded
  <2> QED BY <1>2, <2>1, Bf16Loads
<1>3. CASE t = "f16"
  <2>1. x = FromF16(u)
    BY <1>1, <1>3 DEF Loaded
  <2> QED BY <1>3, <2>1, F16Loads
<1> QED BY <1>2, <1>3 DEF ReducedTypes

\* What has been loaded is stored as what it was loaded from: nothing else is as near.
LEMMA StoresAgain ==
  ASSUME NEW t \in ReducedTypes, NEW u \in 0 .. Infinity[t], NEW x, LoadsExactly(t, u, x),
         NEW w \in Stored(t, x)
  PROVE  w = u
<1>1. x \in 0 .. Infinity["f32"] /\ Infinity[t] \in Nat
  BY PatternsNat DEF LoadsExactly, Types
<1>2. Rounded(t, x, w) /\ w \in 0 .. Infinity[t]
  BY <1>1, StoresNumber
<1>3. CASE u = Infinity[t]
  BY <1>2, <1>3 DEF LoadsExactly, Rounded
<1>4. CASE u # Infinity[t]
  <2>1. x # Infinity["f32"] /\ ValueOf(x, Mant) = Worth(t, u)
    BY <1>4 DEF LoadsExactly
  <2>2. u \in Nat /\ w \in Nat /\ u < Infinity[t]
    BY <1>1, <1>2, <1>4
  <2>3. \A i \in Nat : Worth(t, i) \in Nat
    BY WorthType
  <2>4. ~(ValueOf(x, Mant) >= Worth(t, Infinity[t]))
    <3>1. Worth(t, u) < Worth(t, Infinity[t])
      BY <1>1, <2>2, WorthMonotone
    <3> QED BY <1>1, <2>1, <2>2, <2>3, <3>1
  <2>5. Nearest(t, x, w)
    BY <1>2, <2>1, <2>4 DEF Rounded
  <2> DEFINE here == Distance(Worth(t, w), Worth(t, u))
             there == Distance(Worth(t, u), Worth(t, u))
  <2>6. here < there \/ here = there
    BY <2>1, <2>5 DEF Nearest
  <2>7. there = 0
    BY <2>2, <2>3 DEF Distance
  <2>8. w < u => here > 0
    <3> SUFFICES ASSUME w < u PROVE here > 0
      OBVIOUS
    <3>1. Worth(t, w) < Worth(t, u)
      BY <2>2, WorthMonotone
    <3> QED BY <2>2, <2>3, <3>1 DEF Distance
  <2>9. u < w => here > 0
    <3> SUFFICES ASSUME u < w PROVE here > 0
      OBVIOUS
    <3>1. Worth(t, u) < Worth(t, w)
      BY <2>2, WorthMonotone
    <3> QED BY <2>2, <2>3, <3>1 DEF Distance
  <2>10. here \in Nat
    BY <2>2, <2>3 DEF Distance
  <2> HIDE DEF here, there
  <2> QED BY <2>2, <2>6, <2>7, <2>8, <2>9, <2>10
<1> QED BY <1>3, <1>4

\* A number that is no longer the original is what was loaded from what is stored.
NumberIInv ==
  /\ type \in ReducedTypes
  /\ original \in Patterns("f32")
  /\ NansKept
  /\ RoundedOnce

LEMMA NumberInitInv == NumberInit => NumberIInv
BY DEF NumberInit, NumberIInv, NansKept, RoundedOnce

\* Storing keeps the invariant: the original is rounded, what has been loaded is not.
LEMMA StoreNumberInv ==
  ASSUME NumberIInv, StoreNumber
  PROVE  NumberIInv'
<1>0. /\ type \in ReducedTypes /\ type \in Types /\ original \in Patterns("f32") /\ value \in Patterns("f32")
      /\ IsNan("f32", value) <=> IsNan("f32", original)
      /\ type' = type /\ original' = original /\ value' = value
      /\ unit' \in Stored(type, value)
      /\ "f32" \in Types
  BY DEF NumberIInv, NansKept, StoreNumber, Types
<1>1. CASE IsNan("f32", original)
  <2>1. unit' \in Patterns(type) /\ IsNan(type, unit')
    <3>1. CASE type = "bf16"
      <4>1. unit' = ToBf16(value)
        BY <1>0, <3>1 DEF Stored
      <4> QED BY <1>0, <1>1, <3>1, <4>1, Bf16StoresNan
    <3>2. CASE type = "f16"
      BY <1>0, <1>1, <3>2, F16StoresNan
    <3> QED BY <1>0, <3>1, <3>2 DEF ReducedTypes
  <2>2. NansKept'
    BY <1>0, <1>1, <2>1 DEF NansKept
  <2>3. RoundedOnce'
    BY <1>0, <1>1 DEF RoundedOnce
  <2> QED BY <1>0, <2>2, <2>3 DEF NumberIInv
<1>2. CASE ~IsNan("f32", original)
  <2>1. value \in 0 .. Infinity["f32"]
    BY <1>0, <1>2, NotNan
  <2>2. Rounded(type, value, unit') /\ unit' \in 0 .. Infinity[type]
    BY <1>0, <2>1, StoresNumber
  <2>3. unit' \in Patterns(type) /\ ~IsNan(type, unit')
    BY <1>0, <2>2, NumberPattern
  <2>4. NansKept'
    BY <1>0, <1>2, <2>3 DEF NansKept
  <2>5. RoundedOnce'
    <3>1. CASE value = original
      BY <1>0, <1>2, <2>2, <3>1 DEF RoundedOnce
    <3>2. CASE value # original
      <4>1. unit # Nothing /\ value \in Loaded(type, unit) /\ Rounded(type, original, unit)
        BY <1>2, <3>2 DEF NumberIInv, RoundedOnce
      <4>2. unit \in 0 .. Infinity[type]
        <5>1. unit \in Patterns(type) /\ ~IsNan(type, unit)
          BY <1>2, <4>1 DEF NumberIInv, NansKept
        <5> QED BY <1>0, <5>1, NotNan
      <4>3. LoadsExactly(type, unit, value)
        BY <1>0, <4>1, <4>2, LoadsNumber
      <4>4. unit' = unit
        BY <1>0, <4>2, <4>3, StoresAgain
      <4> QED BY <1>0, <4>1, <4>4 DEF RoundedOnce
    <3> QED BY <3>1, <3>2
  <2> QED BY <1>0, <2>4, <2>5 DEF NumberIInv
<1> QED BY <1>1, <1>2

\* Loading keeps the invariant.
LEMMA LoadNumberInv ==
  ASSUME NumberIInv, LoadNumber
  PROVE  NumberIInv'
<1>0. /\ type \in ReducedTypes /\ type \in Types /\ original \in Patterns("f32")
      /\ unit # Nothing /\ unit \in Patterns(type)
      /\ IsNan(type, unit) <=> IsNan("f32", original)
      /\ type' = type /\ original' = original /\ unit' = unit
      /\ value' \in Loaded(type, unit)
      /\ "f32" \in Types
  BY DEF NumberIInv, NansKept, LoadNumber, Types
<1>1. value' \in Patterns("f32") /\ (IsNan("f32", value') <=> IsNan("f32", original))
  <2>1. CASE IsNan("f32", original)
    <3>1. CASE type = "bf16"
      <4>1. value' = FromBf16(unit)
        BY <1>0, <3>1 DEF Loaded
      <4> QED BY <1>0, <2>1, <3>1, <4>1, Bf16LoadsNan
    <3>2. CASE type = "f16"
      BY <1>0, <2>1, <3>2, F16LoadsNan
    <3> QED BY <1>0, <3>1, <3>2 DEF ReducedTypes
  <2>2. CASE ~IsNan("f32", original)
    <3>1. unit \in 0 .. Infinity[type]
      BY <1>0, <2>2, NotNan
    <3>2. value' \in 0 .. Infinity["f32"]
      BY <1>0, <3>1, LoadsNumber DEF LoadsExactly
    <3> QED BY <1>0, <2>2, <3>2, NumberPattern
  <2> QED BY <2>1, <2>2
<1>2. NansKept'
  BY <1>0, <1>1 DEF NansKept
<1>3. RoundedOnce'
  BY <1>0 DEF NumberIInv, RoundedOnce
<1> QED BY <1>0, <1>2, <1>3 DEF NumberIInv

LEMMA NumberNextInv == NumberIInv /\ [NumberNext]_numberVars => NumberIInv'
<1> SUFFICES ASSUME NumberIInv, [NumberNext]_numberVars PROVE NumberIInv'
  OBVIOUS
<1>1. CASE StoreNumber
  BY <1>1, StoreNumberInv
<1>2. CASE LoadNumber
  BY <1>2, LoadNumberInv
<1>3. CASE UNCHANGED numberVars
  BY <1>3 DEF numberVars, NumberIInv, NansKept, RoundedOnce
<1> QED BY <1>1, <1>2, <1>3 DEF NumberNext

\* However often a number is stored and loaded (float_storage_ref.cpp:202, :254).
THEOREM NumberInvariant == NumberSpec => []NumberIInv
<1>1. NumberInit => NumberIInv
  BY NumberInitInv
<1>2. NumberIInv /\ [NumberNext]_numberVars => NumberIInv'
  BY NumberNextInv
<1> QED BY <1>1, <1>2, PTL DEF NumberSpec

\* A NaN stays one, in either type, through the scalar and the vector loops, and nothing
\* becomes one (float_storage_ref.cpp:188, fp16.h:29), in formats of any width.
THEOREM StoredNansKept == NumberSpec => []NansKept
<1>1. NumberIInv => NansKept
  BY DEF NumberIInv
<1> QED BY <1>1, NumberInvariant, PTL

\* A number is rounded once (float_storage.h:16): to the nearest, ties to even, through
\* f16's subnormals and the step to infinity, and never again by later loads and stores, in
\* formats of any width.
THEOREM StoredRoundedOnce == NumberSpec => []RoundedOnce
<1>1. NumberIInv => RoundedOnce
  BY DEF NumberIInv
<1> QED BY <1>1, NumberInvariant, PTL
=============================================================================
