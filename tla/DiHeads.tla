------------------------------- MODULE DiHeads -------------------------------
(***************************************************************************)
(* di_encoder.c and di_decoder.c byte by byte: writing the head of a data   *)
(* item and reading one.  An argument is a uint64_t, its eight bytes with   *)
(* the most significant one first; TLC has no 64-bit numbers.               *)
(***************************************************************************)
EXTENDS DiEncoder

Arg == [1..8 -> 0..255]

\* The argument is less than 256^n
Below(val, n) == \A i \in 1..(8 - n) : val[i] = 0
Zeros(n) == [i \in 1..n |-> 0]

\* DI_INFO_INT8 .. DI_INFO_INT64 and the bytes that follow them
InfoSize == [i \in 24..27 |-> CASE i = 24 -> 1 [] i = 25 -> 2 [] i = 26 -> 4 [] i = 27 -> 8]

\* Mutant: 255 does not count as one byte.
Bug_Info(val) ==
  CASE Below(val, 1) /\ val[8] <= 23 -> val[8]
    [] Below(val, 1) /\ val[8] \in 24..254 -> 24
    [] Below(val, 2) /\ (Below(val, 1) => val[8] = 255) -> 25
    [] Below(val, 4) /\ ~Below(val, 2) -> 26
    [] OTHER -> 27

\* The additional information of the initial byte
Info(val) ==
  CASE Below(val, 1) /\ val[8] <= 23 -> val[8]
    [] Below(val, 1) /\ val[8] > 23 -> 24
    [] Below(val, 2) /\ ~Below(val, 1) -> 25
    [] Below(val, 4) /\ ~Below(val, 2) -> 26
    [] OTHER -> 27

cbor_di_write_int(major, val) ==
  LET size == IF Info(val) <= 23 THEN 0 ELSE InfoSize[Info(val)]
  IN  <<32 * major + Info(val)>> \o SubSeq(val, 9 - size, 8)

-----------------------------------------------------------------------------
(* Reading.  data is what is left of the input, never empty.                *)

ByMajor == <<"uint", "nint", "bytes", "text", "array", "map", "tag">>
ByInfo(info) ==
  CASE info < 20 -> "simple" [] info \in {20, 21} -> "bool" [] info = 22 -> "null"
    [] info = 23 -> "undefined" [] info = 24 -> "simple8" [] info = 25 -> "float16"
    [] info = 26 -> "float32" [] info = 27 -> "float64" [] info = 31 -> "break"
    [] OTHER -> "reserved"

cbor_di_get_type(ini_byte) ==
  IF ini_byte \div 32 < 7 THEN ByMajor[ini_byte \div 32 + 1] ELSE ByInfo(ini_byte % 32)

\* Outcomes: an argument of read_len bytes with the head, bytes missing, or
\* not well-formed.
ReadOk(val, len) == [st |-> "ok", val |-> val, len |-> len]
Truncated == [st |-> "truncated", val |-> Zeros(8), len |-> 0]
Malformed == [st |-> "malformed", val |-> Zeros(8), len |-> 0]

\* cbor_di_read_int, _list and _float: the initial byte and n more
ReadArg(data, n) ==
  IF n > Len(data) - 1 THEN Truncated
  ELSE ReadOk(Zeros(8 - n) \o SubSeq(data, 2, n + 1), n + 1)

Indefinite == {"bytes", "text", "array", "map"}
NoArg == {"bool", "null", "undefined", "break"}

\* dec_item: the function for the type reads the head; "ok" items of these
\* types with info 31 have no argument.
ReadHead(data) ==
  LET type == cbor_di_get_type(data[1])
      info == data[1] % 32
  IN  CASE type = "reserved" -> Malformed
        [] type \in NoArg -> ReadOk(Zeros(8), 1)
        [] type \notin NoArg \cup {"reserved"} /\ info <= 23 -> ReadOk(Zeros(7) \o <<info>>, 1)
        [] type \notin NoArg /\ info \in DOMAIN InfoSize -> ReadArg(data, InfoSize[info])
        [] type \in Indefinite /\ info = 31 -> ReadOk(Zeros(8), 1)
        [] OTHER -> Malformed

=============================================================================
