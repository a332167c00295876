----------------------------- MODULE FloatFormats -----------------------------
(***************************************************************************)
(* The storage types of float_storage.h, as the bit patterns of smaller    *)
(* formats of the same structure.  An f32 is an exponent over              *)
(* MantHigh * MantLow mantissas; bf16 is its upper half, all but the       *)
(* MantLow low mantissas; f16 has a smaller exponent over 2^HalfBits of    *)
(* them, and subnormals where f32 is still normal.  The sign, which every  *)
(* conversion carries over as it is, is left out.                          *)
(***************************************************************************)
EXTENDS Integers

CONSTANTS
  MantLow,    \* 2^16 in the code: the mantissas in the lower half of an f32
  MantHigh,   \* 2^7: those in its upper half
  HalfBits,   \* 10: the mantissa bits of an f16
  Bias,       \* 127: the exponent of 1 in f32 and bf16
  HalfBias    \* 15: in f16

PowerOfTwo[n \in Nat] == IF n = 0 THEN 1 ELSE 2 * PowerOfTwo[n - 1]

Mant == MantHigh * MantLow
HalfMant == PowerOfTwo[HalfBits]
TopExp == 2 * Bias + 1
HalfTopExp == 2 * HalfBias + 1

\* Mantissas are whole bits, and f16 reaches less far than f32 on either side.
ASSUME FormatAssumption ==
  /\ MantLow \in Nat \ {0} /\ MantLow % 2 = 0
  /\ MantHigh \in Nat \ {0} /\ MantHigh % 2 = 0
  /\ HalfBits \in Nat \ {0} /\ Mant % (2 * HalfMant) = 0
  /\ Bias \in Nat /\ HalfBias \in Nat /\ HalfBias + HalfBits < Bias

ReducedTypes == {"f16", "bf16"}
Types == ReducedTypes \cup {"f32"}

Infinity ==
  [f32 |-> TopExp * Mant, bf16 |-> TopExp * MantHigh, f16 |-> HalfTopExp * HalfMant]

\* All exponents, the top one with infinity and the NaNs, over all mantissas.
Patterns(type) ==
  0 .. (CASE type = "f32" -> (TopExp + 1) * Mant
          [] type = "bf16" -> (TopExp + 1) * MantHigh
          [] type = "f16" -> (HalfTopExp + 1) * HalfMant) - 1

IsNan(type, bits) == bits > Infinity[type]
-----------------------------------------------------------------------------
(* f32 to bf16 and back.                                                   *)

\* A NaN with its quiet bit, the highest of the mantissa, set.
Quiet(unit) ==
  IF (unit \div (MantHigh \div 2)) % 2 = 1 THEN unit ELSE unit + MantHigh \div 2

\* Rounding adds just below half a unit, and the bit that makes a tie go to even.
RoundBf16(bits) ==
  (bits + (MantLow \div 2 - 1) + ((bits \div MantLow) % 2)) \div MantLow

\* Defect: a NaN whose payload is all in the lower half is rounded like a number.
ToBf16_RoundsNan(bits) == RoundBf16(bits)

ToBf16(bits) ==
  IF IsNan("f32", bits) THEN Quiet(bits \div MantLow) ELSE RoundBf16(bits)

FromBf16(unit) == unit * MantLow
-----------------------------------------------------------------------------
(* f32 to f16 and back.                                                    *)

Rebias == Bias - HalfBias       \* 112 in the code
Drop == Mant \div HalfMant      \* the mantissas of f32 to one of f16

\* Defect: ties go up.
ShiftRounded_HalfUp(n, step) == (n + step \div 2) \div step

\* n / step, to nearest and ties to even.
ShiftRounded(n, step) ==
  LET unit == n \div step
      rem == n % step
      half == step \div 2
  IN IF rem > half \/ (rem = half /\ unit % 2 = 1) THEN unit + 1 ELSE unit

\* Defect: the distance to a normal f16 is taken twice.
SubnormalStep_DropTwice(exp) == PowerOfTwo[Rebias + 1 - exp] * Drop * Drop

\* The steps of a subnormal: its leading 1 is spelled out, and moves to the right with
\* the exponent.
SubnormalStep(exp) == PowerOfTwo[Rebias + 1 - exp] * Drop

ToF16(bits) ==
  LET exp == bits \div Mant
  IN CASE exp > Bias + HalfBias ->
            Infinity.f16 + IF IsNan("f32", bits) THEN HalfMant \div 2 ELSE 0
       [] exp < Rebias - HalfBits -> 0
       [] exp \in (Rebias - HalfBits) .. Rebias ->
            ShiftRounded((bits % Mant) + Mant, SubnormalStep(exp))
       [] exp \in (Rebias + 1) .. (Bias + HalfBias) ->
            ShiftRounded(bits - Rebias * Mant, Drop)

\* The doublings that bring a subnormal's leading 1 to where a normal number has it.
Renormalization(mant) ==
  CHOOSE shift \in 1 .. HalfBits :
    mant * PowerOfTwo[shift] \in HalfMant .. (2 * HalfMant - 1)

FromF16(unit) ==
  LET exp == unit \div HalfMant
      mant == unit % HalfMant
      shift == Renormalization(mant)
  IN CASE unit = 0 -> 0
       [] exp = 0 /\ mant > 0 ->
            (Rebias + 1 - shift) * Mant + (mant * PowerOfTwo[shift] - HalfMant) * Drop
       [] exp = HalfTopExp -> Infinity.f32 + mant * Drop
       [] exp \in 1 .. (HalfTopExp - 1) -> (exp + Rebias) * Mant + mant * Drop
-----------------------------------------------------------------------------
\* What may be stored for an f32: the F16C and NEON loops keep the payload of a NaN
\* and set its quiet bit, the scalar loop that takes the last elements of a chunk does not
\* keep it.
Stored(type, bits) ==
  IF type = "bf16" THEN {ToBf16(bits)}
  ELSE {ToF16(bits)} \cup
       {unit \in Patterns("f16") : /\ IsNan("f32", bits)
                                   /\ unit - Infinity.f16 >= HalfMant \div 2
                                   /\ unit % (HalfMant \div 2) =
                                        ((bits % Mant) \div Drop) % (HalfMant \div 2)}

\* What may be loaded: the vector instructions for f16 set the quiet bit of a NaN.
Loaded(type, unit) ==
  IF type = "bf16" THEN {FromBf16(unit)}
  ELSE {FromF16(unit)} \cup
       IF IsNan("f16", unit) /\ (unit \div (HalfMant \div 2)) % 2 = 0
       THEN {FromF16(unit) + Mant \div 2} ELSE {}
=============================================================================
