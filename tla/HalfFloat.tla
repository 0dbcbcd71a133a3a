----------------------------- MODULE HalfFloat ------------------------------
(***************************************************************************)
(* The conversions between fp16 and fp32 that the weights go through:      *)
(* fp16_to_fp32 (src/graph/espresso_backend.cpp), for the bundles of       *)
(* Path B; the widening loop of libane_matmul_f16 (src/libane.cpp), and    *)
(* the fp32_to_fp16 (src/core/mil_builder.cpp) that narrows its results    *)
(* again.                                                                  *)
(*                                                                         *)
(* A pattern is its sign bit, exponent field and mantissa field.  The      *)
(* fields' widths are parameters, since TLC cannot count to 2^32.          *)
(***************************************************************************)
EXTENDS Integers

CONSTANTS
    ExpBits, ManBits,           \* of the narrow format: 5 and 10
    WideExpBits, WideManBits    \* of the wide one: 8 and 23

Pow2[n \in Nat] == IF n = 0 THEN 1 ELSE 2 * Pow2[n - 1]

Top(bits) == Pow2[bits] - 1             \* the largest value of a field
Bias(expBits) == Pow2[expBits - 1] - 1
Shift == WideManBits - ManBits

ASSUME HalfAssumption ==
    /\ {ExpBits, ManBits, WideExpBits, WideManBits} \subseteq Nat \ {0}
    /\ Shift >= 0
    /\ Bias(WideExpBits) > Bias(ExpBits) + ManBits  \* small halves are normal floats

Pattern(e, m) == [sign : 0..1, exp : 0..Top(e), man : 0..Top(m)]
Halves == Pattern(ExpBits, ManBits)

VARIABLE half       \* the pattern of one of the caller's weights

\* The loop on a subnormal shifts the mantissa until bit ManBits is set, k
\* times, and takes 1 - k for the exponent, a uint32_t that wraps below 0 and
\* is back in range once the bias is added.
fp16_to_fp32(h) ==
    CASE h.exp = 0 /\ h.man = 0 -> [sign |-> h.sign, exp |-> 0, man |-> 0]
      [] h.exp = 0 /\ h.man # 0 ->
           LET k == CHOOSE k \in 1..ManBits : (h.man * Pow2[k]) \div Pow2[ManBits] = 1 IN
           [sign |-> h.sign, exp |-> 1 - k + Bias(WideExpBits) - Bias(ExpBits),
            man |-> ((h.man * Pow2[k]) % Pow2[ManBits]) * Pow2[Shift]]
      [] h.exp = Top(ExpBits) ->
           [sign |-> h.sign, exp |-> Top(WideExpBits), man |-> h.man * Pow2[Shift]]
      [] OTHER ->
           [sign |-> h.sign, exp |-> h.exp + Bias(WideExpBits) - Bias(ExpBits),
            man |-> h.man * Pow2[Shift]]

\* The loop of libane_matmul_f16, which does not normalise subnormals.
widen_weight(h) ==
    [sign |-> h.sign,
     exp |-> CASE h.exp = 0 -> 0
               [] h.exp = Top(ExpBits) -> Top(WideExpBits)
               [] OTHER -> h.exp + Bias(WideExpBits) - Bias(ExpBits),
     man |-> h.man * Pow2[Shift]]

\* Mutant of fp32_to_fp16: the smallest normal exponent is flushed too.
fp32_to_fp16_flushes(w) ==
    LET exp == w.exp - Bias(WideExpBits) + Bias(ExpBits) IN
    CASE exp <= 1 -> [sign |-> w.sign, exp |-> 0, man |-> 0]
      [] exp >= Top(ExpBits) -> [sign |-> w.sign, exp |-> Top(ExpBits), man |-> 0]
      [] OTHER -> [sign |-> w.sign, exp |-> exp, man |-> w.man \div Pow2[Shift]]

fp32_to_fp16(w) ==
    LET exp == w.exp - Bias(WideExpBits) + Bias(ExpBits) IN
    CASE exp <= 0 -> [sign |-> w.sign, exp |-> 0, man |-> 0]
      [] exp >= Top(ExpBits) -> [sign |-> w.sign, exp |-> Top(ExpBits), man |-> 0]
      [] OTHER -> [sign |-> w.sign, exp |-> exp, man |-> w.man \div Pow2[Shift]]

-----------------------------------------------------------------------------
\* The value of a finite pattern of a format, in units of the smallest wide
\* subnormal.
Magnitude(p, e, m) ==
    LET unit == Bias(WideExpBits) + WideManBits - Bias(e) - m IN
    IF p.exp = 0 THEN p.man * Pow2[unit]
    ELSE (Pow2[m] + p.man) * Pow2[p.exp - 1 + unit]

\* fp16_to_fp32 keeps every value, subnormals included, and every infinity and
\* NaN.
WidenExact ==
    LET w == fp16_to_fp32(half) IN
    /\ w \in Pattern(WideExpBits, WideManBits)
    /\ w.sign = half.sign
    /\ half.exp < Top(ExpBits) =>
         /\ w.exp < Top(WideExpBits)
         /\ Magnitude(w, WideExpBits, WideManBits) = Magnitude(half, ExpBits, ManBits)
    /\ half.exp = Top(ExpBits) => w.exp = Top(WideExpBits) /\ (w.man = 0 <=> half.man = 0)

\* A weight survives both paths: on Path B it is only widened, exactly; and
\* libane_matmul_f16, which widens, transposes and narrows it, keeps every
\* normal number, from the smallest to the largest, every zero and every
\* infinity.  What it does to subnormals and NaNs is BitCorrect's subject.
WeightsSurvive ==
    /\ WidenExact
    /\ half.exp \notin {0, Top(ExpBits)} \/ half.man = 0 =>
         fp32_to_fp16(widen_weight(half)) = half

\* The comment on fp32_to_fp16, "bit-correct IEEE 754", where nothing has to be
\* rounded: a float that is exactly a half becomes that half, and a NaN stays a
\* NaN.
BitCorrect ==
    LET narrowed == fp32_to_fp16(fp16_to_fp32(half))
        NaN(p) == p.exp = Top(ExpBits) /\ p.man # 0
    IN  IF NaN(half) THEN NaN(narrowed) ELSE narrowed = half
=============================================================================
