------------------------------- MODULE Bignum -------------------------------
(***************************************************************************)
(* decode_dec_str and bin_int_sub1 of encode.c: the big-endian bytes of the *)
(* digits of a Decimal, and those of the number before it.                  *)
(***************************************************************************)
EXTENDS Integers, Sequences

CONSTANTS
  Radix,           \* of a byte: 256, scaled down
  DigitMillionths  \* floor(10^6 * log(10) to the base Radix): 415241

ASSUME BignumAssumption == Radix \in Nat /\ Radix > 10 /\ DigitMillionths \in Nat

NotDigit == 255   \* dec_char_to_int of a character that is none

\* The local variables: out_c, multi_c, multi_pos and multi_max, where place
\* 1 is the most significant one, and whether a carry had no place to go.
\* multi_c holds nothing above multi_pos and zeros below multi_max.
DecInit(in_len) ==
  LET out_max == (DigitMillionths * in_len) \div 1000000 + 1
  IN  [ out |-> [i \in 1..out_max |-> 0], multi |-> [i \in 1..out_max |-> 1],
        pos |-> out_max, max |-> out_max, bail |-> FALSE ]

\* Mutant: a carry is added only where the multiplier has digits.
Bug_AddMultiple(d, n) ==
  LET places == Len(d.out)
      total[i \in 1..(places + 1)] ==
        IF i = places + 1 \/ i < d.pos THEN 0
        ELSE d.out[i] + total[i + 1] \div Radix + d.multi[i] * n
  IN  [d EXCEPT !.out = [i \in 1..places |-> IF i < d.pos THEN d.out[i] ELSE total[i] % Radix]]

\* out_c += multi_c * n
AddMultiple(d, n) ==
  LET places == Len(d.out)
      total[i \in 1..(places + 1)] ==
        IF i = places + 1 THEN 0
        ELSE d.out[i] + total[i + 1] \div Radix + (IF i >= d.pos THEN d.multi[i] * n ELSE 0)
  IN  [d EXCEPT !.out = [i \in 1..places |-> total[i] % Radix],
                !.bail = total[1] \div Radix # 0]

\* multi_c *= 10
TimesTen(d) ==
  LET total[i \in 0..(d.max + 1)] ==
        IF i = d.max + 1 THEN 0
        ELSE total[i + 1] \div Radix + (IF i >= d.pos THEN d.multi[i] * 10 ELSE 0)
      multi == [i \in DOMAIN d.multi |-> IF i <= d.max THEN total[i] % Radix ELSE d.multi[i]]
      pos == IF d.pos > 1 /\ total[d.pos - 1] # 0 THEN d.pos - 1 ELSE d.pos
  IN  [d EXCEPT !.multi = multi, !.pos = pos, !.bail = total[0] # 0,
                !.max = CHOOSE i \in pos..d.max : multi[i] # 0 /\ \A j \in (i + 1)..d.max : multi[j] = 0]

DecDigit(d, n) ==
  LET added == IF n = 0 THEN d ELSE AddMultiple(d, n)
  IN  IF d.bail \/ n = NotDigit THEN d ELSE IF added.bail THEN added ELSE TimesTen(added)

WithoutZeros(s) ==
  LET first == CHOOSE i \in 1..(Len(s) + 1) : /\ \A j \in 1..(i - 1) : s[j] = 0
                                              /\ i <= Len(s) => s[i] # 0
  IN  SubSeq(s, first, Len(s))

\* The digits of the string are taken from the last to the first.  The code
\* returns NULL where ok is FALSE.
decode_dec_str(digits) ==
  LET len == Len(digits)
      after[k \in 0..len] ==
        IF k = 0 THEN DecInit(len) ELSE DecDigit(after[k - 1], digits[len - k + 1])
  IN  [ok |-> ~after[len].bail, bin |-> WithoutZeros(after[len].out)]

\* One less: the zeros at the end borrow; a first byte that becomes zero goes.
bin_int_sub1(bin) ==
  LET len == Len(bin)
      last == CHOOSE i \in 1..len : bin[i] # 0 /\ \A j \in (i + 1)..len : bin[j] = 0
      less == [i \in 1..len |-> IF i < last THEN bin[i] ELSE IF i = last THEN bin[i] - 1 ELSE Radix - 1]
  IN  IF last = 1 /\ less[1] = 0 THEN Tail(less) ELSE less

=============================================================================
