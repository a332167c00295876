----------------------------- MODULE FloatTensors -----------------------------
(***************************************************************************)
(* Tensors of the storage types in memory, and calls that name them.       *)
(* Memory is addressed in 16-bit halves; an f32 takes two, the low one     *)
(* first.                                                                  *)
(***************************************************************************)
EXTENDS FloatFormats, Sequences

Null == 0

Width(type) == IF type = "f32" THEN 2 ELSE 1
Extent(t) == t.data .. (t.data + t.count * Width(t.type) - 1)
Elements(t) == 1 .. t.count
Reduced(t) == t.type \in ReducedTypes

Named(call) == call.inputs \o call.outputs
Inputs(call) == {call.inputs[i] : i \in DOMAIN call.inputs}
Outputs(call) == {call.outputs[i] : i \in DOMAIN call.outputs}
ReducedOf(call) == {t \in Inputs(call) \cup Outputs(call) : Reduced(t)}

\* Tensors that share memory, and are not one and the same.
Clash(t, u) == t # u /\ Extent(t) \cap Extent(u) # {}

\* Element i of a tensor, as an f32.
Load(memory, t, i) ==
  LET at == t.data + (i - 1) * Width(t.type)
  IN CASE t.type = "f32" -> memory[at] + MantLow * memory[at + 1]
       [] t.type = "bf16" -> FromBf16(memory[at])
       [] t.type = "f16" -> FromF16(memory[at])

Pack(type, bits) == IF type = "bf16" THEN ToBf16(bits) ELSE ToF16(bits)

\* Memory after f32 element i of a tensor has been written in place.
Poke(memory, t, i, bits) ==
  LET at == t.data + 2 * (i - 1)
  IN [memory EXCEPT ![at] = bits % MantLow, ![at + 1] = bits \div MantLow]

\* Memory after a call's 16-bit outputs have taken over their f32 copies.
Commit(memory, call, copy) ==
  [a \in DOMAIN memory |->
     IF \E t \in Outputs(call) : Reduced(t) /\ a \in Extent(t)
     THEN LET t == CHOOSE t \in Outputs(call) : Reduced(t) /\ a \in Extent(t)
          IN Pack(t.type, copy[t][a - t.data + 1])
     ELSE memory[a]]
=============================================================================
