----------------------------- MODULE Primitives -----------------------------
(***************************************************************************)
(* The algorithms without state of their own, each on inputs that grow by   *)
(* one byte, digit or option per step, against what they stand for.         *)
(***************************************************************************)
EXTENDS DiHeads, IntString, Options, EdnText, Bignum, TLC

CONSTANTS
  Kinds,      \* the algorithms under test
  MaxText,    \* bound: bytes of a text string
  MaxIntStr,  \* bound: characters of a key
  MaxDecimal, \* bound: digits of a decimal
  MaxOptions  \* bound: options given

\* What is under test and its input: s, or the options opts with or without
\* CBOR_EDN.
VARIABLE probe

\* Bytes where the class of the automaton or the treatment by EDN changes
TextByte == { 1, 10, 34, 65, 127, 128, 143, 144, 159, 160, 191, 193, 194, 224, 226, 237,
              240, 241, 244, 245 }
IntChar == {"-", "0", "1", "2", "5", "6", "9", "a"}
DecimalChar == {0, 1, 5, 9, NotDigit}

\* Arguments of a head: zeros, then one other byte, then zeros or 255s
ArgByte(s) ==
  LET others == {i \in 2..Len(s) : s[i] # 0}
  IN  IF others = {} THEN {0, 1, 23, 24, 255}
      ELSE IF \A i \in others : i = Len(s) THEN {0, 255}
      ELSE {s[Len(s)]}

OptionValue ==
  { [Absent EXCEPT !.k = kind] : kind \in {"null", "true", "false", "other"} } \cup
  { [Absent EXCEPT !.k = "long", !.n = num] :
      num \in {-1, 0, 1, 16, 17, 63, 64, 1024, 1025, 10000, 10001, HtMaxSize, HtMaxSize + 1,
               OptUint32Max, OptUint32Max + 1, OptUint32Max + 65} } \cup
  { [Absent EXCEPT !.k = "string", !.s = str] :
      str \in {"-", "", "\t", "shareable", "shareable_only", "unsafe_ref", "explicit"} }

EncodeOption == {"max_depth", "string_ref", "shared_ref"} \cup ExtOption
AnyOption == EncodeOption \cup {DecodeOption[i] : i \in DOMAIN DecodeOption}
Given == DOMAIN probe.opts
AllOptions == [name \in AnyOption |-> IF name \in Given THEN probe.opts[name] ELSE Absent]

Init ==
  probe \in { [k |-> kind, s |-> << >>, opts |-> << >>, edn |-> edn] :
                kind \in Kinds, edn \in BOOLEAN }

Grow(kind, bytes, bound) ==
  /\ probe.k = kind /\ ~probe.edn
  /\ Len(probe.s) < bound
  /\ \E b \in bytes : probe' = [probe EXCEPT !.s = Append(@, b)]

GiveOption ==
  /\ probe.k = "options"
  /\ \E name \in AnyOption \ Given, v \in OptionValue :
       /\ Cardinality(Given) < MaxOptions
       /\ probe' = [probe EXCEPT !.opts = @ @@ (name :> v)]

Next ==
  \/ Grow("text", TextByte, MaxText)
  \/ Grow("int", IntChar, MaxIntStr)
  \/ Grow("decimal", DecimalChar, MaxDecimal)
  \/ probe.s = << >> /\ Grow("head", 0..255, 1)
  \/ probe.s # << >> /\ Grow("head", ArgByte(probe.s), 9)
  \/ GiveOption

Spec == Init /\ [][Next]_probe

-----------------------------------------------------------------------------
(* UTF-8 by its definition.                                                 *)

\* By the number of bytes: the lead bytes and the least code point, and
\* what the bytes add up to.
LeadBytes == <<0..127, 192..223, 224..239, 240..247>>
LeastPoint == <<0, 128, 2048, 65536>>
PointOf(s) ==
  CASE Len(s) = 1 -> s[1]
    [] Len(s) = 2 -> (s[1] % 32) * 64 + (s[2] % 64)
    [] Len(s) = 3 -> (s[1] % 16) * 4096 + (s[2] % 64) * 64 + (s[3] % 64)
    [] OTHER -> (s[1] % 8) * 262144 + (s[2] % 64) * 4096 + (s[3] % 64) * 64 + (s[4] % 64)

\* The code point that a sequence of bytes encodes, or -1.
CodePoint(s) ==
  IF /\ Len(s) \in 1..4
     /\ s[1] \in LeadBytes[Len(s)]
     /\ \A i \in 2..Len(s) : s[i] \in 128..191
     /\ PointOf(s) >= LeastPoint[Len(s)]
     /\ PointOf(s) <= 1114111 /\ PointOf(s) \notin 55296..57343
  THEN PointOf(s) ELSE -1

IsText(s) ==
  LET upTo[n \in 0..Len(s)] ==
        n = 0 \/ \E k \in 1..(IF n < 4 THEN n ELSE 4) :
                   upTo[n - k] /\ CodePoint(SubSeq(s, n - k + 1, n)) # -1
  IN  upTo[Len(s)]

\* cbor_is_utf8 accepts exactly the concatenations of characters, with no
\* overlong forms, surrogates or code points beyond U+10FFFF, and
\* cbor_next_utf8 finds the character that a string starts with: what the
\* encoder's check of text strings and the EDN printer rely on.
Utf8Correct ==
  probe.k = "text" =>
    LET s == probe.s
        chars == {n \in 1..Len(s) : CodePoint(SubSeq(s, 1, n)) # -1}
    IN  /\ cbor_is_utf8(s) <=> IsText(s)
        /\ s # << >> =>
             cbor_next_utf8(s, 1) =
               IF chars = {} THEN NoChar
               ELSE LET n == CHOOSE n \in chars : TRUE
                    IN  [cp |-> CodePoint(SubSeq(s, 1, n)), next |-> n + 1]

\* The bytes of a code point below U+10000, as every \u is
UnicodeBytes(cp) ==
  IF cp < 128 THEN <<cp>>
  ELSE IF cp < 2048 THEN <<192 + cp \div 64, 128 + (cp % 64)>>
  ELSE <<224 + cp \div 4096, 128 + ((cp \div 64) % 64), 128 + (cp % 64)>>

\* The bytes that a symbol of EDN text stands for
SymbolBytes(sym) ==
  CASE sym.k \in {"hex", "esc"} -> <<sym.v>>
    [] sym.k = "raw" -> sym.v
    [] sym.k = "u" -> UnicodeBytes(sym.v)
    [] OTHER -> << >>

\* The EDN that edn_do_xstring prints for the bytes of a text string, valid
\* or not, reads back as these bytes: nothing is lost at the switches between
\* "..." and h'...', each part has the notation of its mark, and no control
\* character, quote or half of a character is printed as it is.
TextReadable ==
  probe.k = "text" =>
    LET out == edn_text(probe.s).out
        bytes[n \in 0..Len(out)] == IF n = 0 THEN << >> ELSE bytes[n - 1] \o SymbolBytes(out[n])
        inText(n) ==
          LET marks == {i \in 1..(n - 1) : out[i] \in {ToBstr, ToTstr}}
          IN  marks = {} \/ \E i \in marks : out[i] = ToTstr /\ \A j \in marks : j <= i
    IN  /\ bytes[Len(out)] = probe.s
        /\ edn_text(probe.s).next = Len(probe.s) + 1
        /\ \A n \in DOMAIN out :
             /\ out[n].k \in {"hex", "to_tstr"} <=> ~inText(n)
             /\ out[n].k = "raw" =>
                  LET cp == CodePoint(out[n].v)
                  IN  cp # -1 /\ ~IsAsciiCntl(cp) /\ cp \notin Escaped /\ ~IsHidden(cp)

-----------------------------------------------------------------------------
(* Heads.                                                                   *)

MajorOf(s) == s[1] \div 32
InfoOf(s) == s[1] % 32

\* Whatever bytes there are, ReadHead takes a head if and only if it is
\* well-formed and complete, its argument is the one that cbor_di_write_int
\* writes in the fewest bytes, and the head written is read again; a head
\* that lacks bytes is never taken for a malformed one, so that a decoder fed
\* in pieces waits for the rest.
HeadsExact ==
  (probe.k = "head" /\ probe.s # << >>) =>
    LET s == probe.s
        r == ReadHead(s)
        size == IF InfoOf(s) \in 24..27 THEN <<1, 2, 4, 8>>[InfoOf(s) - 23] ELSE 0
        wellFormed == InfoOf(s) \notin 28..30 /\ (InfoOf(s) = 31 => MajorOf(s) \in {2, 3, 4, 5, 7})
        written == cbor_di_write_int(MajorOf(s), r.val)
    IN  /\ r.st = IF ~wellFormed THEN "malformed" ELSE IF Len(s) < 1 + size THEN "truncated" ELSE "ok"
        /\ (r.st = "ok" /\ MajorOf(s) # 7 /\ InfoOf(s) # 31) =>
             /\ r.len = 1 + size
             /\ Len(written) <= r.len
             /\ ReadHead(written) = [r EXCEPT !.len = Len(written)]
             /\ cbor_di_get_type(written[1]) = cbor_di_get_type(s[1])
             /\ \A n \in 1..(Len(written) - 1) : ReadHead(SubSeq(written, 1, n)).st = "truncated"
             /\ Below(r.val, 3) =>
                  HeadBytes(MajorOf(s), (r.val[6] * 256 + r.val[7]) * 256 + r.val[8]) = written

-----------------------------------------------------------------------------
(* Numbers.                                                                 *)

\* A key is written as an integer if and only if it is the decimal notation
\* of one in the range of CBOR integers, -2^64 .. 2^64 - 1, and as that one:
\* no two keys of a PHP array become the same CBOR key.
IntKeysExact ==
  probe.k = "int" =>
    LET r == convert_string_to_int(probe.s)
        number == StrToInt(probe.s)
    IN  /\ r.ok <=> /\ Digits(probe.s) # << >> /\ IsDecimal(probe.s)
                    /\ IntToStr(number) = probe.s
                    /\ number \in (-Uint64Max - 1)..Uint64Max
        /\ r.ok => /\ r.value \in 0..Uint64Max
                   /\ number = IF r.is_negative THEN -1 - r.value ELSE r.value

NumberOf(digits, base) ==
  LET upTo[i \in 0..Len(digits)] == IF i = 0 THEN 0 ELSE upTo[i - 1] * base + digits[i]
  IN  upTo[Len(digits)]

\* The bytes of a decimal are those of its digits, without leading zeros, and
\* always have room; the bytes of a negative one are those of the number
\* before it.
DecimalExact ==
  probe.k = "decimal" =>
    LET digit(c) == c # NotDigit
        r == decode_dec_str(probe.s)
        number == NumberOf(SelectSeq(probe.s, digit), 10)
        less == bin_int_sub1(r.bin)
        shortest(bin) == bin # << >> => bin[1] # 0
    IN  /\ r.ok
        /\ NumberOf(r.bin, Radix) = number /\ shortest(r.bin)
        /\ number # 0 => NumberOf(less, Radix) = number - 1 /\ shortest(less)

-----------------------------------------------------------------------------
(* Options.                                                                 *)

DecodeRange ==
  [ max_depth : 0..MaxDepthLimit, max_size : 0..HtMaxSize, offset : Nat, length : Nat \cup {LenDefault},
    string_ref : BOOLEAN, shared_ref : {"false", "true", "shareable", "shareable_only", "unsafe_ref"},
    indent : ((0..16) \X {"none", " "}) \cup {<<1, "\t">>}, space : BOOLEAN, byte_space : 0..63,
    byte_wrap : 0..1024 ]
EncodeRange ==
  [ max_depth : 0..MaxDepthLimit, string_ref : {"false", "true", "explicit"},
    shared_ref : {"false", "true", "unsafe_ref"}, ext : SUBSET ExtOption ]

\* Whatever $options holds, what gets past the checks is in the documented
\* ranges when the encoder and the decoder use it, though integers are cut to
\* 32 bits on the way; options that are not given keep their defaults.
OptionsInRange ==
  probe.k = "options" =>
    LET enc == cbor_set_encode_options(AllOptions)
        dec == cbor_set_decode_options(cbor_init_decode_options, probe.edn, AllOptions)
    IN  /\ enc.ok => enc.v \in EncodeRange
        /\ dec.ok => /\ dec.v \in DecodeRange
                     /\ \A i \in DOMAIN DecodeOption : DecodeOption[i] \notin Given =>
                          dec.v[DecodeOption[i]] = cbor_init_decode_options[DecodeOption[i]]
=============================================================================
