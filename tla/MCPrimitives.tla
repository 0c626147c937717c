---------------------------- MODULE MCPrimitives ----------------------------
(***************************************************************************)
(* Primitives for model checking, with the narrowing and widening of        *)
(* floats, on all bit patterns of scaled-down formats.                      *)
(***************************************************************************)
EXTENDS Primitives, FloatCast

FloatBits == 1 + F64_EXP_BITS + F64_FRAC_BITS

\* The bits of a float, the sign first
MCNext == Next \/ Grow("float", {0, 1}, FloatBits)

MCSpec == Init /\ [][MCNext]_probe

-----------------------------------------------------------------------------
AtFloat == probe.k = "float" /\ Len(probe.s) = FloatBits
Bin == NumberOf(probe.s, 2)
Half == Bin % 2^(1 + F16_EXP_BITS + F16_FRAC_BITS)

\* A float that enc_z_double stores in half precision because it fits is read
\* back bit by bit, NaN and its payload included, and so is every
\* half-precision float that is widened and stored again.
HalfExact ==
  AtFloat =>
    /\ test_fp64_size(Bin) = 2 => cbor_from_fp16i(cbor_float_64_to_16(Bin)) = Bin
    /\ cbor_float_64_to_16(cbor_from_fp16i(Half)) = Half

\* The distance from zero in units of the least number of the wide format
Magnitude(bin) ==
  LET e == IF F64Exp(bin) = 0 THEN 1 ELSE F64Exp(bin)
      m == IF F64Exp(bin) = 0 THEN F64Frac(bin) ELSE 2^F64_FRAC_BITS + F64Frac(bin)
  IN  m * 2^(e - 1)

\* "Round half away from zero for simplicity" (type_float_cast_16.h): in the
\* range of the half-precision format, no float of that format is nearer to
\* the one that cbor_float_64_to_16 narrows.
RoundsToNearest ==
  (AtFloat /\ F64Exp(Bin) - Bias(F64_EXP_BITS) \in (F16_EXP_MIN - F16_FRAC_BITS)..(F16_EXP_MAX - 1)) =>
    LET result == Magnitude(cbor_from_fp16i(cbor_float_64_to_16(Bin)))
        dist(m) == IF m < Magnitude(Bin) THEN Magnitude(Bin) - m ELSE m - Magnitude(Bin)
        finite == 0..(ExpFill(F16_EXP_BITS) * 2^F16_FRAC_BITS - 1)
    IN  \A half \in finite : dist(result) <= dist(Magnitude(cbor_from_fp16i(half)))

=============================================================================
