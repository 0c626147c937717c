------------------------------ MODULE CborData ------------------------------
(***************************************************************************)
(* The data the decoder works on: heads of CBOR data items, PHP values      *)
(* (zval and its extension xzval) and the heap nodes that PHP arrays,       *)
(* objects and references live in.  No state.                               *)
(***************************************************************************)
EXTENDS Integers, Sequences, FiniteSets

CONSTANTS
  LongMax,      \* ZEND_LONG_MAX (the minimum is -LongMax - 1)
  Uint32Max,    \* 0xffffffff
  MaxDigits,    \* decimal digits of the largest 64-bit integer
  IndexMax1, IndexMax2, IndexMax3   \* 23, 0xff, 0xffff: the last index that
                                    \* takes one, two, three bytes

ASSUME NumberAssumption ==
  /\ LongMax \in Nat
  /\ Uint32Max \in Nat
  /\ MaxDigits \in Nat \ {0}
  /\ IndexMax1 \in Nat /\ IndexMax2 \in Nat /\ IndexMax3 \in Nat

-----------------------------------------------------------------------------
(* A zend_string is a sequence of bytes.  The bytes told apart: the digits   *)
(* and "-", "nul" for 0, "hi" and "lo" for the two bytes of a two-byte UTF-8 *)
(* character, some letters, and "value" for the property name of that text. *)
Byte == { "0", "1", "2", "3", "4", "5", "6", "7", "8", "9", "-", "nul",
          "hi", "lo", "a", "b", "c", "value" }
Str == Seq(Byte)

\* is_utf8 of a string: a leading byte and its continuation come together.
IsUtf8(s) ==
  /\ \A i \in DOMAIN s : s[i] = "hi" => i < Len(s) /\ s[i + 1] = "lo"
  /\ \A i \in DOMAIN s : s[i] = "lo" => i > 1 /\ s[i - 1] = "hi"

Digit == <<"0", "1", "2", "3", "4", "5", "6", "7", "8", "9">>

\* snprintf with PRIu64, the digits of a natural number: counting the powers of ten up to m
\* gives their number, counting the digits up to the one at a place that digit.
Decimal(m) ==
  LET width == Cardinality({d \in 1..(MaxDigits - 1) : m >= 10^d}) + 1
      digit(place) == Cardinality({d \in 1..9 : (m \div 10^place) % 10 >= d})
  IN  [i \in 1..width |-> Digit[digit(width - i) + 1]]

\* ZEND_LTOA: the decimal notation of an integer.
IntToStr(n) == IF n < 0 THEN <<"-">> \o Decimal(-n) ELSE Decimal(n)

\* ... and back
Digits(s) == IF s # << >> /\ s[1] = "-" THEN Tail(s) ELSE s
IsDecimal(s) == \A i \in DOMAIN Digits(s) : \E d \in 0..9 : Digits(s)[i] = Digit[d + 1]
StrToInt(s) ==
  LET val[i \in Nat] ==
        IF i = 0 THEN 0
        ELSE 10 * val[i - 1] + (CHOOSE d \in 0..9 : Digit[d + 1] = Digits(s)[i])
  IN  (IF Digits(s) = s THEN 1 ELSE -1) * val[Len(Digits(s))]

-----------------------------------------------------------------------------
(* The head of a data item with the payload of a definite-length string:    *)
(* t is what cbor_di_get_type and the cbor_di_read_* functions tell apart,  *)
(* n the argument, s the payload and len the number of bytes it takes.      *)
TokenType ==
  { "uint", "nint", "bytes", "text", "bytes_start", "text_start",
    "array", "array_start", "map", "map_start", "tag", "bool", "null",
    "undefined", "simple", "simple8", "float16", "float32", "float64",
    "break", "reserved" }

Token == [t : TokenType, n : Nat, s : Str, len : Nat \ {0}]

-----------------------------------------------------------------------------
(* A PHP value.  k is the zval type; xuint and xnint are the integers beyond *)
(* zend_long of xzval.h.  For arr, obj and ref, n is the heap node.         *)
Kind == { "undef", "null", "bool", "long", "xuint", "xnint", "double", "str",
          "arr", "obj", "ref", "undefobj" }

Value == [k : Kind, n : Int, s : Str]

Scalar(kind, num) == [k |-> kind, n |-> num, s |-> << >>]
Undef == Scalar("undef", 0)
Null == Scalar("null", 0)
StrVal(str) == [k |-> "str", n |-> 0, s |-> str]

\* XZ_ISXXINT: an integer PHP cannot hold.
IsXInt(v) == v.k \in {"xuint", "xnint"}
\* Z_TYPE_P(v) == IS_OBJECT; the instance of Cbor\Undefined is a singleton.
IsObject(v) == v.k \in {"obj", "undefobj"}

-----------------------------------------------------------------------------
(* A heap node: its class, the tag number of a Cbor\Tag and its entries, in *)
(* insertion order.  A wrapper (Byte, Text, Tag, Shareable, floats) and a   *)
(* reference have one entry, their content.                                 *)
Class == { "array", "stdClass", "Byte", "Text", "Tag", "Shareable",
           "Float16", "Float32", "reference" }

Entry == [key : Value, v : Value]
Node == [c : Class, tag : Int, ent : Seq(Entry)]

Holder(class, tagid, content) ==
  [c |-> class, tag |-> tagid, ent |-> <<[key |-> Undef, v |-> content]>>]
Empty(class) == [c |-> class, tag |-> 0, ent |-> << >>]

\* zend_std_has_property, zend_hash_index_exists, zend_symtable_exists
HasKey(ent, key) == \E i \in DOMAIN ent : ent[i].key = key

\* zend_hash_(index_)update: overwrite the entry, or add one at the end.
PutEntry(ent, key, v) ==
  IF HasKey(ent, key)
  THEN [i \in DOMAIN ent |-> IF ent[i].key = key THEN [ent[i] EXCEPT !.v = v] ELSE ent[i]]
  ELSE Append(ent, [key |-> key, v |-> v])

\* The key a symbol table files a key under: canonical decimal strings in
\* the range of zend_long become integers.
SymtableKey(key) ==
  LET n == StrToInt(key.s)
  IN  IF key.k = "str" /\ IsDecimal(key.s) /\ n \in (-LongMax - 1)..LongMax /\ IntToStr(n) = key.s
      THEN Scalar("long", n)
      ELSE key

-----------------------------------------------------------------------------
\* cbor_is_len_string_ref: a string gets a table index only if a reference
\* to it is shorter than the string.
cbor_is_len_string_ref(str_len, next_index) ==
  str_len >= (IF next_index <= IndexMax1 THEN 3
              ELSE IF next_index <= IndexMax2 THEN 4
              ELSE IF next_index <= IndexMax3 THEN 5
              ELSE 7)

=============================================================================
