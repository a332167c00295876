---------------------------- MODULE FloatConversion ----------------------------
(***************************************************************************)
(* One number kept in a 16-bit type: stored from f32, and loaded and       *)
(* stored again any number of times, as a tensor is that one kernel after  *)
(* another reads and writes.                                               *)
(***************************************************************************)
EXTENDS FloatFormats

VARIABLES
  type,       \* the type it is stored in
  original,   \* the f32 it was at first
  value,      \* the f32 last loaded, the original before
  unit        \* what is stored, or nothing yet

numberVars == <<type, original, value, unit>>

Nothing == -1

\* The powers of two from here on are those of f32's smallest subnormal.
ValueOf(bits, mants) ==
  LET exp == bits \div mants
      mant == bits % mants
  IN IF exp = 0 THEN mant ELSE (mants + mant) * PowerOfTwo[exp - 1]

\* What a stored number is worth.  Infinity counts as the number it stands in the place
\* of: it is what rounding goes to from half a step above the largest.
Worth(t, u) ==
  IF t = "bf16" THEN ValueOf(u, MantHigh) * MantLow
  ELSE ValueOf(u, HalfMant) * PowerOfTwo[Rebias] * Drop

Distance(a, b) == IF a < b THEN b - a ELSE a - b

\* u is nearest to the f32 x of all that t can store, even if another is as near.
Nearest(t, x, u) ==
  \A other \in 0 .. Infinity[t] :
    LET here == Distance(Worth(t, u), ValueOf(x, Mant))
        there == Distance(Worth(t, other), ValueOf(x, Mant))
    IN here < there \/ (here = there /\ (other = u \/ u % 2 = 0))

\* Beyond what t reaches everything is infinite.
Rounded(t, x, u) ==
  IF x = Infinity.f32 \/ ValueOf(x, Mant) >= Worth(t, Infinity[t])
  THEN u = Infinity[t] ELSE Nearest(t, x, u)
-----------------------------------------------------------------------------
NumberInit ==
  /\ type \in ReducedTypes
  /\ original \in Patterns("f32")
  /\ value = original
  /\ unit = Nothing

StoreNumber ==
  /\ unit' \in Stored(type, value)
  /\ UNCHANGED <<type, original, value>>

LoadNumber ==
  /\ unit # Nothing
  /\ value' \in Loaded(type, unit)
  /\ UNCHANGED <<type, original, unit>>

NumberNext == StoreNumber \/ LoadNumber

NumberSpec == NumberInit /\ [][NumberNext]_numberVars
-----------------------------------------------------------------------------
\* What is stored is a pattern of the type and what is loaded an f32; a NaN is a NaN in
\* either, however little of it the 16 bits keep (float_storage_ref.cpp:188), and
\* nothing else becomes one.
NansKept ==
  /\ value \in Patterns("f32")
  /\ IsNan("f32", value) <=> IsNan("f32", original)
  /\ unit # Nothing =>
       /\ unit \in Patterns(type)
       /\ IsNan(type, unit) <=> IsNan("f32", original)

\* A number is rounded once (float_storage.h:16): what is stored, after however many
\* loads and stores, is what was nearest to the original, ties to even, through the
\* subnormals and the step to infinity; and an f32 that is no longer the original is what
\* was loaded from it.
RoundedOnce ==
  ~IsNan("f32", original) =>
    /\ unit # Nothing => Rounded(type, original, unit)
    /\ value # original => unit # Nothing /\ value \in Loaded(type, unit)
=============================================================================
