------------------------------ MODULE IntString ------------------------------
(***************************************************************************)
(* convert_string_to_int of encode.c: which keys of PHP arrays and objects  *)
(* are written as CBOR integers, and as which.                              *)
(***************************************************************************)
EXTENDS CborData

CONSTANTS
  Uint64Max,    \* UINT64_MAX, scaled down; the number after it ends in 6
  Uint64Digits  \* its decimal digits

ASSUME Uint64Assumption ==
  /\ Uint64Max \in Nat /\ Uint64Digits \in Nat \ {0}
  /\ Uint64Max % 10 = 5
  /\ Uint64Max \in 10^(Uint64Digits - 1)..(10^Uint64Digits - 1)

IsDigit(b) == \E d \in 0..9 : b = Digit[d + 1]
DigitValue(b) == CHOOSE d \in 0..9 : b = Digit[d + 1]

\* Mutant: the last digit of the range is not taken care of.
Bug_Overflows(place, value, digit) ==
  place > Uint64Digits - 2 /\ value > Uint64Max \div 10

\* Appending a digit would exceed 64 bits.
Overflows(place, value, digit) ==
  place > Uint64Digits - 2 /\ value > (Uint64Max - digit) \div 10

\* The loop over the digits: how many were taken, and their value.
ScanDigits(s) ==
  LET scan[i \in 0..Len(s)] ==
        IF i = 0 THEN [len |-> 0, value |-> 0]
        ELSE LET prev == scan[i - 1]
             IN  IF prev.len # i - 1 \/ ~IsDigit(s[i])
                    \/ Overflows(i - 1, prev.value, DigitValue(s[i]))
                 THEN prev
                 ELSE [len |-> i, value |-> prev.value * 10 + DigitValue(s[i])]
  IN  scan[Len(s)]

NotInt == [ok |-> FALSE, is_negative |-> FALSE, value |-> 0]

\* The value of a negative number is one less than its absolute value, and
\* that of the least one does not fit: "...6" is read as "...5" instead.
convert_string_to_int(str) ==
  LET is_minus == str # << >> /\ str[1] = "-"
      digits == IF is_minus THEN Tail(str) ELSE str
      negative_fix == is_minus /\ str[Len(str)] = "6"
      scan == ScanDigits(IF negative_fix THEN [digits EXCEPT ![Len(digits)] = "5"] ELSE digits)
  IN  IF str = << >> \/ ~(is_minus \/ IsDigit(str[1])) \/ Len(str) > 1 + Uint64Digits THEN NotInt
      ELSE IF str[1] = "0" THEN [NotInt EXCEPT !.ok = Len(str) = 1]
      ELSE IF is_minus /\ (digits = << >> \/ digits[1] \in {"-", "0"}) THEN NotInt
      ELSE IF scan.len # Len(digits) THEN NotInt
      ELSE [ ok |-> TRUE, is_negative |-> is_minus,
             value |-> IF is_minus /\ ~negative_fix THEN scan.value - 1 ELSE scan.value ]

=============================================================================
