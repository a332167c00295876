------------------------------ MODULE TypedCalls ------------------------------
(***************************************************************************)
(* What dispatch_float_storage promises (float_storage.h:50-58, 14-16).  A *)
(* kernel works on f32 copies of the 16-bit tensors that nothing else      *)
(* touches: one copy per tensor however often the call names it, decoded   *)
(* before the kernel starts if it is an input.  The copies of the outputs  *)
(* are rounded into memory when the kernel succeeds and dropped when it    *)
(* fails.  f32 tensors are used in place.  A kernel may make such calls.   *)
(***************************************************************************)
EXTENDS FloatTensors, SequencesExt

CONSTANTS
  Calls,           \* the calls that may be made
  Written,         \* the f32 patterns a kernel may write
  InitialMemory

VARIABLES
  mem,       \* memory
  open,      \* the calls under way, outermost first, with their copies
  status     \* what the last call that returned has returned

typedVars == <<mem, open, status>>

Init ==
  /\ mem = InitialMemory
  /\ open = <<>>
  /\ status = "kOk"

\* A call that names two tensors in the same memory is not made.
Open(call) ==
  /\ \A t, u \in Inputs(call) \cup Outputs(call) : ~Clash(t, u)
  /\ open' # <<>> /\ Front(open') = open
  /\ Last(open').call = call
  /\ \A t \in ReducedOf(call) :
       /\ DOMAIN Last(open').copy[t] = Elements(t)
       /\ t \in Inputs(call) =>
            \A i \in Elements(t) : Last(open').copy[t][i] = Load(mem, t, i)
  /\ UNCHANGED <<mem, status>>

\* The innermost kernel writes an element of an output.
Write(t, i, bits) ==
  /\ t \in Outputs(Last(open).call)
  /\ IF Reduced(t)
     THEN /\ open' = [open EXCEPT ![Len(open)].copy[t][i] = bits]
          /\ UNCHANGED mem
     ELSE /\ mem' = Poke(mem, t, i, bits)
          /\ UNCHANGED open
  /\ UNCHANGED status

Succeed ==
  /\ mem' = Commit(mem, Last(open).call, Last(open).copy)
  /\ open' = Front(open)
  /\ status' = "kOk"

Fail ==
  /\ open' = Front(open)
  /\ status' # "kOk"
  /\ UNCHANGED mem

Refuse ==
  /\ status' # "kOk"
  /\ UNCHANGED <<mem, open>>

Next ==
  \/ \E call \in Calls : Open(call)
  \/ Refuse
  \/ /\ open # <<>>
     /\ \/ \E t \in Outputs(Last(open).call) :
             \E i \in Elements(t), bits \in Written : Write(t, i, bits)
        \/ Succeed
        \/ Fail

Spec == Init /\ [][Next]_typedVars
=============================================================================
