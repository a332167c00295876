--------------------------- MODULE MC_FloatStorage ----------------------------
(***************************************************************************)
(* Instances of FloatStorage for TLC: calls on a few tensors of one or two *)
(* elements, that share a tensor, name it twice, alias it, overlap it, or  *)
(* are wrong in one of their tensors.  A behaviour is of such calls, or of *)
(* one number: every pattern of an 8-bit f32, in a bf16 of 6 bits or an    *)
(* f16 of 5, loaded and stored again and again.                            *)
(***************************************************************************)
EXTENDS FloatStorage, FloatConversion

T(data, stored, count) == [data |-> data, type |-> stored, count |-> count]
Make(inputs, outputs, workspace) ==
  [inputs |-> inputs, outputs |-> outputs, kernel |-> TRUE, workspace |-> workspace]

CONSTANT ModelWorkspace

B == T(1, "bf16", 2)       \* halves 1 and 2
H == T(3, "f16", 1)        \* half 3
F == T(4, "f32", 1)        \* halves 4 and 5

ModelWorkspaces == {ModelWorkspace}

\* In place; from one type to the other, by way of an f32; twice the same; nothing read;
\* an empty tensor without memory.
GoodCalls ==
  {Make(<<B>>, <<B>>, NoWorkspace),
   Make(<<B, F>>, <<H>>, NoWorkspace),
   Make(<<H, H>>, <<F, B>>, ModelWorkspace),
   Make(<<T(Null, "f16", 0)>>, <<H>>, ModelWorkspace)}

\* Overlapping in part, or the same memory as something else; a null tensor, one of no
\* type, one of a negative size; no kernel.
BadCalls ==
  {Make(<<B>>, <<T(2, "bf16", 2)>>, NoWorkspace),
   Make(<<B>>, <<T(1, "f16", 2)>>, NoWorkspace),
   Make(<<T(2, "bf16", 1)>>, <<H, T(2, "f32", 1)>>, ModelWorkspace),
   Make(<<T(Null, "f16", 1)>>, <<H>>, NoWorkspace),
   Make(<<T(1, "f8", 1), T(1, "bf16", -1)>>, <<H>>, NoWorkspace),
   Make(<<T(1, "bf16", -1)>>, <<H>>, NoWorkspace),
   [Make(<<B>>, <<B>>, NoWorkspace) EXCEPT !.kernel = FALSE]}

ModelCalls == GoodCalls \cup BadCalls

\* A number no type of 16 bits holds.
ModelWritten == {6 * Mant + 5}

ModelMemory == <<4, 5 * MantHigh + 1, 2 * HalfMant + 1, 3, 5 * MantHigh>>
-----------------------------------------------------------------------------
StorageInit == Init /\ NumberInit

\* Calls are made while the number has not been touched, and the other way round.
StorageNext ==
  \/ Next /\ type = "f16" /\ original = 0 /\ unit = -1 /\ UNCHANGED numberVars
  \/ NumberNext /\ calls = 0 /\ UNCHANGED vars

StorageSpec == StorageInit /\ [][StorageNext]_<<vars, numberVars>>
=============================================================================
