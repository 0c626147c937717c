------------------------------ MODULE DiEncoder ------------------------------
(***************************************************************************)
(* di_encoder.c: writing the heads of data items, and the byte order that   *)
(* deterministic encoding sorts keys by.  Arguments fit 32 bits here; the   *)
(* eight-byte form is in DiHeads.                                           *)
(***************************************************************************)
EXTENDS CborData

MajorType == [uint |-> 0, nint |-> 1, bytes |-> 2, text |-> 3, array |-> 4, map |-> 5, tag |-> 6]

\* Bytes of the argument that follow the initial byte.
ArgLen(n) == IF n <= 23 THEN 0 ELSE IF n <= 255 THEN 1 ELSE IF n <= 65535 THEN 2 ELSE 4

\* cbor_di_write_int, and the payload of a string
WriteInt(type, n) == [t |-> type, n |-> n, s |-> << >>, len |-> 1 + ArgLen(n)]
WriteString(is_text, s) ==
  [t |-> IF is_text THEN "text" ELSE "bytes", n |-> 0, s |-> s, len |-> 1 + ArgLen(Len(s)) + Len(s)]

\* Integers of either sign: enc_long, enc_xint
WriteLong(n) == IF n >= 0 THEN WriteInt("uint", n) ELSE WriteInt("nint", -(n + 1))

\* cbor_di_write_null, _bool, _undef, _indef, _break: one byte
WriteSimple(type, n) == [t |-> type, n |-> n, s |-> << >>, len |-> 1]

\* cbor_di_write_float16, _float32, _float64
FloatType(size) == IF size = 2 THEN "float16" ELSE IF size = 4 THEN "float32" ELSE "float64"
WriteFloat(size, n) == [t |-> FloatType(size), n |-> n, s |-> << >>, len |-> 1 + size]

-----------------------------------------------------------------------------
(* The bytes of a data item, to compare keys.                               *)

ByteCode(b) ==
  CASE \E d \in 0..9 : b = Digit[d + 1] -> 48 + (CHOOSE d \in 0..9 : b = Digit[d + 1])
    [] b = "nul" -> 0 [] b = "-" -> 45 [] b = "a" -> 97 [] b = "b" -> 98 [] b = "c" -> 99
    [] b = "hi" -> 195 [] b = "lo" -> 169 [] OTHER -> 118

Place == <<1, 256, 256 * 256, 256 * 256 * 256>>
BigEndian(n, size) ==
  [i \in 1..size |-> IF size - i > 3 THEN 0 ELSE (n \div Place[size - i + 1]) % 256]

HeadBytes(major, n) ==
  LET info == CASE ArgLen(n) = 0 -> n [] ArgLen(n) = 1 -> 24 [] ArgLen(n) = 2 -> 25 [] OTHER -> 26
  IN  <<32 * major + info>> \o BigEndian(n, ArgLen(n))

ItemBytes(tok) ==
  CASE tok.t \in {"bytes", "text"} ->
         HeadBytes(MajorType[tok.t], Len(tok.s)) \o [i \in DOMAIN tok.s |-> ByteCode(tok.s[i])]
    [] tok.t \in DOMAIN MajorType -> HeadBytes(MajorType[tok.t], tok.n)
    [] tok.t \in {"bytes_start", "text_start"} -> <<IF tok.t = "text_start" THEN 127 ELSE 95>>
    [] tok.t \in {"array_start", "map_start"} -> <<IF tok.t = "map_start" THEN 191 ELSE 159>>
    [] tok.t = "bool" -> <<244 + tok.n>>
    [] tok.t = "null" -> <<246>>
    [] tok.t = "undefined" -> <<247>>
    [] tok.t = "break" -> <<255>>
    [] OTHER -> <<224 + (CASE tok.len = 3 -> 25 [] tok.len = 5 -> 26 [] OTHER -> 27)>>
                \o BigEndian(tok.n, tok.len - 1)

Bytes(toks) ==
  LET upTo[i \in 0..Len(toks)] == IF i = 0 THEN << >> ELSE upTo[i - 1] \o ItemBytes(toks[i])
  IN  upTo[Len(toks)]

\* zend_binary_strcmp(a, b) < 0
Less(a, b) ==
  LET common == {i \in DOMAIN a : i \in DOMAIN b}
      differ == {i \in common : a[i] # b[i]}
  IN  IF differ = {} THEN Len(a) < Len(b)
      ELSE \E i \in differ : a[i] < b[i] /\ \A j \in differ : i <= j

=============================================================================
