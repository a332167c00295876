----------------------------- MODULE FloatStorage -----------------------------
(***************************************************************************)
(* dispatch_float_storage on one thread: kernels for f32 called on tensors *)
(* of f16, bf16 and f32.  The tensors of 16 bits are converted into and    *)
(* from an arena, the caller's workspace or one of a thread-local stack    *)
(* that grows as kernels make such calls themselves.                       *)
(***************************************************************************)
EXTENDS FloatTensors, FiniteSetsExt

CONSTANTS
  Calls,           \* the calls made: inputs, outputs, whether there is a kernel, workspace
  Workspaces,      \* the callers' workspaces
  NoWorkspace,     \* stands for a null one
  Written,         \* the f32 patterns a kernel may write
  InitialMemory,
  \* bounds
  MaxDepth,        \* calls within calls
  MaxCalls,
  MaxWrites        \* elements written by all kernels together

ASSUME StorageAssumption ==
  /\ MaxDepth \in Nat /\ MaxCalls \in Nat /\ MaxWrites \in Nat
  /\ NoWorkspace \notin Workspaces
  /\ Workspaces \cap Nat = {}
  /\ \A call \in Calls : call.workspace \in Workspaces \cup {NoWorkspace}

VARIABLES
  mem,         \* memory, in 16-bit halves
  arenas,      \* the scratch of each arena: those of the stack are numbered
  created,     \* tls_arenas.size()
  depth,       \* tls_depth
  frames,      \* the calls under way, outermost first, with the arena each has
  status,      \* what the last call that returned has returned
  calls, writes

vars == <<mem, arenas, created, depth, frames, status, calls, writes>>

Arenas == (1 .. MaxDepth) \cup Workspaces
Top == frames[Len(frames)]
-----------------------------------------------------------------------------
(* Looking at a call (add_region).                                         *)

\* Defect: a tensor is compared with those of its own type only.
Refusal_OwnType(call, k) ==
  LET t == Named(call)[k]
  IN CASE t.type \notin Types -> "kUnsupportedFormat"
       [] t.type \in Types /\ t.count < 0 -> "kInvalidShape"
       [] t.type \in Types /\ t.count >= 0 ->
            IF \/ t.count > 0 /\ t.data = Null
               \/ \E j \in 1 .. (k - 1) :
                    Named(call)[j].type = t.type /\ Clash(t, Named(call)[j])
            THEN "kInvalidArgument" ELSE "kOk"

\* What the k-th tensor is refused with, if those before it are not.
Refusal(call, k) ==
  LET t == Named(call)[k]
  IN CASE t.type \notin Types -> "kUnsupportedFormat"
       [] t.type \in Types /\ t.count < 0 -> "kInvalidShape"
       [] t.type \in Types /\ t.count >= 0 ->
            IF \/ t.count > 0 /\ t.data = Null
               \/ \E j \in 1 .. (k - 1) : Clash(t, Named(call)[j])
            THEN "kInvalidArgument" ELSE "kOk"

Refused(call) == {k \in DOMAIN Named(call) : Refusal(call, k) # "kOk"}

\* A tensor is one group, where it is first named.
FirstNamed(call, t) == Min({k \in DOMAIN Named(call) : Named(call)[k] = t})

\* The scratch before a group: the copies of the groups of 16 bits first named earlier.
Offset(call, t) ==
  LET before == {u \in ReducedOf(call) : FirstNamed(call, u) < FirstNamed(call, t)}
  IN MapThenSumSet(LAMBDA u : u.count, before)

ScratchCount(call) == MapThenSumSet(LAMBDA u : u.count, ReducedOf(call))
-----------------------------------------------------------------------------
(* Taking an arena.                                                        *)

\* Defect: all calls of a thread share its first arena.
Lease_First(call) == IF call.workspace = NoWorkspace THEN 1 ELSE call.workspace

Lease(call) == IF call.workspace = NoWorkspace THEN depth + 1 ELSE call.workspace

UsesStack(call) == call.workspace = NoWorkspace

\* A workspace is for one invocation at a time (float_storage.h:32).
Available(call) ==
  IF UsesStack(call) THEN depth < MaxDepth
  ELSE \A k \in DOMAIN frames : frames[k].arena # call.workspace

\* The stack once the call has found an arena at its top.
Grown(call) ==
  IF UsesStack(call) /\ depth = created THEN created + 1 ELSE created

\* The arena resized, its new part zero, and the inputs decoded into their groups.  What
\* it held before stays where no input goes.
Decoded(call) ==
  LET old == arenas[Lease(call)]
      into(t) == (Offset(call, t) + 1) .. (Offset(call, t) + t.count)
      sources(i) == {t \in ReducedOf(call) \cap Inputs(call) : i \in into(t)}
  IN [i \in 1 .. ScratchCount(call) |->
        IF sources(i) # {}
        THEN LET t == CHOOSE t \in sources(i) : TRUE
             IN Load(mem, t, i - Offset(call, t))
        ELSE IF i <= Len(old) THEN old[i] ELSE 0]

\* The copies the kernel of a frame works on.
Copies(frame) ==
  [t \in ReducedOf(frame.call) |->
     [i \in Elements(t) |-> arenas[frame.arena][Offset(frame.call, t) + i]]]
-----------------------------------------------------------------------------
Init ==
  /\ mem = InitialMemory
  /\ arenas = [a \in Arenas |-> <<>>]
  /\ created = 0
  /\ depth = 0
  /\ frames = <<>>
  /\ status = "kOk"
  /\ calls = 0
  /\ writes = 0

Called == calls < MaxCalls /\ calls' = calls + 1 /\ UNCHANGED writes

\* A call returns before it has touched anything: there is no kernel, or the first tensor
\* that is wrong decides.
Refuse(call) ==
  /\ Called
  /\ \/ ~call.kernel /\ status' = "kInvalidArgument"
     \/ /\ call.kernel /\ Refused(call) # {}
        /\ status' = Refusal(call, Min(Refused(call)))
  /\ UNCHANGED <<mem, arenas, created, depth, frames>>

Accepted(call) == call.kernel /\ Refused(call) = {} /\ Available(call)

\* No memory for the call's tables, an arena, or its scratch: the depth is given back,
\* a new arena stays.
NoMemory(call) ==
  /\ Called
  /\ Accepted(call)
  /\ status' = "kOutOfMemory"
  /\ created' \in {created, Grown(call)}
  /\ UNCHANGED <<mem, arenas, depth, frames>>

\* No memory for the pointers handed to the kernel: the inputs have been decoded.
NoMemoryDecoded(call) ==
  /\ Called
  /\ Accepted(call)
  /\ status' = "kOutOfMemory"
  /\ created' = Grown(call)
  /\ arenas' = [arenas EXCEPT ![Lease(call)] = Decoded(call)]
  /\ UNCHANGED <<mem, depth, frames>>

\* The inputs are decoded and the kernel starts.
Enter(call) ==
  /\ Called
  /\ Accepted(call)
  /\ created' = Grown(call)
  /\ depth' = IF UsesStack(call) THEN depth + 1 ELSE depth
  /\ arenas' = [arenas EXCEPT ![Lease(call)] = Decoded(call)]
  /\ frames' = Append(frames, [call |-> call, arena |-> Lease(call)])
  /\ UNCHANGED <<mem, status>>

\* The kernel of the innermost call writes an element of an output, to scratch or in
\* place.
KernelWrite(t, i, bits) ==
  /\ writes < MaxWrites
  /\ IF Reduced(t)
     THEN /\ arenas' = [arenas EXCEPT ![Top.arena][Offset(Top.call, t) + i] = bits]
          /\ UNCHANGED mem
     ELSE /\ mem' = Poke(mem, t, i, bits)
          /\ UNCHANGED arenas
  /\ writes' = writes + 1
  /\ UNCHANGED <<created, depth, frames, status, calls>>

\* Defect: the depth is given back when the kernel succeeds.
DepthAfter_OnSuccess(frame, kernelStatus) ==
  IF UsesStack(frame.call) /\ kernelStatus = "kOk" THEN depth - 1 ELSE depth

\* The guard gives the depth back on every way out.
DepthAfter(frame, kernelStatus) ==
  IF UsesStack(frame.call) THEN depth - 1 ELSE depth

\* Defect: the outputs are committed whatever the kernel says.
MemoryAfter_Always(frame, kernelStatus) == Commit(mem, frame.call, Copies(frame))

MemoryAfter(frame, kernelStatus) ==
  IF kernelStatus = "kOk" THEN Commit(mem, frame.call, Copies(frame)) ELSE mem

\* The innermost kernel returns, and dispatch_float_storage after it.
Return(kernelStatus) ==
  /\ status' = kernelStatus
  /\ mem' = MemoryAfter(Top, kernelStatus)
  /\ depth' = DepthAfter(Top, kernelStatus)
  /\ frames' = SubSeq(frames, 1, Len(frames) - 1)
  /\ UNCHANGED <<arenas, created, calls, writes>>

Next ==
  \/ \E call \in Calls :
       Refuse(call) \/ NoMemory(call) \/ NoMemoryDecoded(call) \/ Enter(call)
  \/ /\ frames # <<>>
     /\ \/ \E t \in Outputs(Top.call) :
             \E i \in Elements(t), bits \in Written : KernelWrite(t, i, bits)
        \/ \E kernelStatus \in {"kOk", "kInvalidShape"} : Return(kernelStatus)

Spec == Init /\ [][Next]_vars
-----------------------------------------------------------------------------
\* The stack's own state agrees with the calls under way: those that lease from it have
\* its arenas from the first to the depth, in the order they were made, and no arena is
\* used that has not been created.
StackTypeOK ==
  /\ frames \in Seq([call : Calls, arena : Arenas])
  /\ depth \in 0 .. MaxDepth
  /\ created \in depth .. MaxDepth

StackOrder ==
  /\ \A k \in DOMAIN frames :
       IF UsesStack(frames[k].call) THEN frames[k].arena \in 1 .. depth
       ELSE frames[k].arena = frames[k].call.workspace
  /\ \A slot \in 1 .. depth : \E k \in DOMAIN frames : frames[k].arena = slot
  /\ \A j, k \in DOMAIN frames :
       j < k /\ UsesStack(frames[j].call) /\ UsesStack(frames[k].call) =>
         frames[j].arena < frames[k].arena

\* A caller lends each workspace once.
WorkspacesOnce ==
  \A j, k \in DOMAIN frames :
    j # k /\ ~UsesStack(frames[j].call) => frames[j].arena # frames[k].arena

IInv == StackTypeOK /\ StackOrder /\ WorkspacesOnce

\* No two calls under way convert through the same arena, whatever calls a kernel makes
\* and wherever they fail: a wrapped kernel may itself invoke another typed kernel
\* (float_storage_ref.cpp:411).
LeasesExclusive ==
  \A j, k \in DOMAIN frames : j # k => frames[j].arena # frames[k].arena

\* The calls keep the promise of TypedCalls, a frame's copies being where its groups are
\* in its arena.
Promise == INSTANCE TypedCalls WITH
  open <- [k \in DOMAIN frames |-> [call |-> frames[k].call, copy |-> Copies(frames[k])]]

ImplementsTypedCalls == Promise!Spec
=============================================================================
