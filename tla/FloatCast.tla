------------------------------ MODULE FloatCast ------------------------------
(***************************************************************************)
(* type_float_cast.h, type_float_cast_16.h and cbor_from_fp16i of types.c:  *)
(* narrowing binary64 to binary16 without the F16C instructions, and        *)
(* widening it.  The formats are scaled down; a float is its bits, the      *)
(* number sign * 2^(ExpBits + FracBits) + exp * 2^FracBits + frac.          *)
(***************************************************************************)
EXTENDS Integers, Sequences

Bits == INSTANCE Bitwise

CONSTANTS
  F64_EXP_BITS, F64_FRAC_BITS,  \* the wide format: 11 and 52
  F32_EXP_BITS, F32_FRAC_BITS,  \* 8 and 23
  F16_EXP_BITS, F16_FRAC_BITS   \* 5 and 10

ASSUME FloatAssumption ==
  /\ F16_EXP_BITS \in 2..F32_EXP_BITS /\ F32_EXP_BITS \in Nat /\ F64_EXP_BITS \in Nat
  /\ F32_EXP_BITS <= F64_EXP_BITS
  /\ F16_FRAC_BITS \in 1..F32_FRAC_BITS /\ F32_FRAC_BITS \in Nat /\ F64_FRAC_BITS \in Nat
  /\ F32_FRAC_BITS < F64_FRAC_BITS

Bias(exp_bits) == 2^(exp_bits - 1) - 1
ExpFill(exp_bits) == 2^exp_bits - 1

Float64 == 0..(2^(1 + F64_EXP_BITS + F64_FRAC_BITS) - 1)
Float16 == 0..(2^(1 + F16_EXP_BITS + F16_FRAC_BITS) - 1)

Frac(bin, frac_bits) == bin % 2^frac_bits
Exp(bin, exp_bits, frac_bits) == (bin \div 2^frac_bits) % 2^exp_bits
Sign(bin, exp_bits, frac_bits) == bin \div 2^(exp_bits + frac_bits)

F64Frac(bin) == Frac(bin, F64_FRAC_BITS)
F64Exp(bin) == Exp(bin, F64_EXP_BITS, F64_FRAC_BITS)
F64Sign(bin) == Sign(bin, F64_EXP_BITS, F64_FRAC_BITS)
IsNan64(bin) == F64Exp(bin) = ExpFill(F64_EXP_BITS) /\ F64Frac(bin) # 0

F16_EXP_BIAS == Bias(F16_EXP_BITS)
F16_EXP_MIN == 1 - F16_EXP_BIAS
F16_EXP_MAX == F16_EXP_BIAS

\* A number of the format fits a narrower one exactly; subnormal numbers of
\* that one are left out.
Fits(bin, exp_bits, frac_bits) ==
  LET exp == F64Exp(bin) - Bias(F64_EXP_BITS)
  IN  /\ \/ F64Exp(bin) = ExpFill(F64_EXP_BITS)
         \/ exp \in (1 - Bias(exp_bits))..Bias(exp_bits)
      /\ F64Frac(bin) % 2^(F64_FRAC_BITS - frac_bits) = 0

\* Mutant: the fraction is compared with that of the middle format only.
Bug_test_fp64_size(bin) ==
  CASE bin = 0 -> 2
    [] bin # 0 /\ Fits(bin, F16_EXP_BITS, F32_FRAC_BITS) -> 2
    [] bin # 0 /\ ~Fits(bin, F16_EXP_BITS, F32_FRAC_BITS) /\ Fits(bin, F32_EXP_BITS, F32_FRAC_BITS) -> 4
    [] OTHER -> 8

test_fp64_size(bin) ==
  CASE bin = 0 -> 2
    [] bin # 0 /\ Fits(bin, F16_EXP_BITS, F16_FRAC_BITS) -> 2
    [] bin # 0 /\ ~Fits(bin, F16_EXP_BITS, F16_FRAC_BITS) /\ Fits(bin, F32_EXP_BITS, F32_FRAC_BITS) -> 4
    [] OTHER -> 8

\* The fraction cut to n bits, half away from zero; it may be 2^n.
Rounded(frac, n) == (frac \div 2^(F64_FRAC_BITS - n - 1) + 1) \div 2

\* cbor_float_64_to_16_cast, without F16C
float_64_to_16_cast(bin) ==
  LET exp0 == F64Exp(bin) - Bias(F64_EXP_BITS)
      sign == F64Sign(bin) * 2^(F16_EXP_BITS + F16_FRAC_BITS)
      shift == exp0 - F16_EXP_MIN + F16_FRAC_BITS
  IN  sign +
      CASE exp0 < F16_EXP_MIN - F16_FRAC_BITS -> 0
        [] exp0 \in (F16_EXP_MIN - F16_FRAC_BITS)..(F16_EXP_MIN - 1) ->
             Bits!|(2^shift, Rounded(F64Frac(bin), shift))
        [] exp0 \in F16_EXP_MIN..F16_EXP_MAX ->
             Bits!|((exp0 + F16_EXP_BIAS) * 2^F16_FRAC_BITS, Rounded(F64Frac(bin), F16_FRAC_BITS))
        [] OTHER -> ExpFill(F16_EXP_BITS) * 2^F16_FRAC_BITS

\* cbor_float_64_to_16: a NaN keeps its sign and the high bits of its payload.
cbor_float_64_to_16(bin) ==
  LET inf == ExpFill(F16_EXP_BITS) * 2^F16_FRAC_BITS
      nan == inf + F64Sign(bin) * 2^(F16_EXP_BITS + F16_FRAC_BITS)
                 + F64Frac(bin) \div 2^(F64_FRAC_BITS - F16_FRAC_BITS)
  IN  IF ~IsNan64(bin) THEN float_64_to_16_cast(bin)
      ELSE IF nan = inf THEN inf + 2^(F16_FRAC_BITS - 1) ELSE nan

\* cbor_from_fp16i, without F16C; ldexp normalises.
cbor_from_fp16i(half) ==
  LET exp == Exp(half, F16_EXP_BITS, F16_FRAC_BITS)
      frac == Frac(half, F16_FRAC_BITS)
      sign == Sign(half, F16_EXP_BITS, F16_FRAC_BITS) * 2^(F64_EXP_BITS + F64_FRAC_BITS)
      top == CHOOSE k \in 0..F16_FRAC_BITS : frac < 2^(k + 1) /\ (frac >= 2^k \/ k = 0)
      pack(e, f, width) ==
        (e + Bias(F64_EXP_BITS)) * 2^F64_FRAC_BITS + f * 2^(F64_FRAC_BITS - width)
  IN  sign +
      CASE exp = 0 /\ frac = 0 -> 0
        [] exp = 0 /\ frac # 0 -> pack(F16_EXP_MIN - F16_FRAC_BITS + top, frac - 2^top, top)
        [] exp \in 1..(ExpFill(F16_EXP_BITS) - 1) -> pack(exp - F16_EXP_BIAS, frac, F16_FRAC_BITS)
        [] OTHER -> ExpFill(F64_EXP_BITS) * 2^F64_FRAC_BITS + frac * 2^(F64_FRAC_BITS - F16_FRAC_BITS)

=============================================================================
