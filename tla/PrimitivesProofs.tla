--------------------------- MODULE PrimitivesProofs ---------------------------
(***************************************************************************)
(* Proofs about the algorithms without state: they are right for every      *)
(* input, where the run of MCPrimitives tries some.                         *)
(***************************************************************************)
EXTENDS Primitives, SequenceTheorems, WellFoundedInduction, TLAPS

-----------------------------------------------------------------------------
(* Options.                                                                 *)

\* uint32_option: what passes is at most `max`, though it is cut to 32 bits
\* before it is compared.
LEMMA Uint32Range ==
  ASSUME NEW opt, opt.n \in Int, NEW max \in Nat, NEW old \in 0..max,
         uint32_option(old, opt, max).ok
  PROVE  uint32_option(old, opt, max).v \in 0..max
<1> DEFINE cut == opt.n % (OptUint32Max + 1)
<1>1. opt.n \in Int /\ OptUint32Max + 1 \in Nat /\ OptUint32Max + 1 > 0
  BY OptionsAssumption
<1>2. cut \in Nat
  BY <1>1
<1> HIDE DEF cut
<1>3. CASE opt.k = "absent"
  BY <1>3 DEF uint32_option, Set
<1>4. CASE opt.k = "long" /\ opt.n >= 0
  <2>1. uint32_option(old, opt, max).v = cut
    BY <1>4 DEF uint32_option, cut
  <2>2. uint32_option(old, opt, max).ok => cut <= max
    BY <1>4 DEF uint32_option, cut
  <2> QED BY <1>2, <2>1, <2>2
<1>5. CASE opt.k # "absent" /\ ~(opt.k = "long" /\ opt.n >= 0)
  BY <1>5 DEF uint32_option, Invalid
<1> QED BY <1>3, <1>4, <1>5

\* bool_option
LEMMA BoolRange ==
  ASSUME NEW opt, NEW old \in BOOLEAN
  PROVE  /\ bool_option(old, opt).v \in BOOLEAN
         /\ bool_option(old, opt).ok \in BOOLEAN
  BY DEF bool_option, Set, Invalid

\* bool_n_option: a value of the table with a meaning, or true or false
LEMMA BoolNRange ==
  ASSUME NEW opt, NEW other, NEW old, bool_n_option(old, opt, other).ok
  PROVE  LET v == bool_n_option(old, opt, other).v
         IN  v = old \/ v \in {"true", "false"} \/ (v # "-" /\ \E i \in DOMAIN other : other[i] = v)
  BY DEF bool_n_option, Set, Invalid

\* byte_wrap_option
LEMMA ByteWrapRange ==
  ASSUME NEW opt, byte_wrap_option(0, opt).ok
  PROVE  byte_wrap_option(0, opt).v \in 0..1024
<1> DEFINE long == opt.k = "long" /\ opt.n \in 1..1024
<1>1. CASE opt.k \in {"absent", "false"}
  <2>1. byte_wrap_option(0, opt) = Set(0)
    BY <1>1 DEF byte_wrap_option
  <2> QED BY <2>1 DEF Set
<1>2. CASE long
  <2>1. byte_wrap_option(0, opt) = Set(opt.n)
    BY <1>2 DEF byte_wrap_option
  <2> QED BY <1>2, <2>1 DEF Set
<1>3. CASE opt.k \notin {"absent", "false"} /\ ~long
  <2>1. byte_wrap_option(0, opt) = Invalid(0)
    BY <1>3 DEF byte_wrap_option
  <2> QED BY <2>1 DEF Invalid
<1> QED BY <1>1, <1>2, <1>3

\* The encoder's options that pass are in range.
LEMMA EncodeOptionsRange ==
  ASSUME NEW opts, \A name \in EncodeOption : opts[name].n \in Int,
         cbor_set_encode_options(opts).ok
  PROVE  cbor_set_encode_options(opts).v \in EncodeRange
<1> DEFINE max_depth == uint32_option(64, opts.max_depth, MaxDepthLimit)
           string_ref == bool_n_option("false", opts.string_ref, <<"explicit">>)
           shared_ref == bool_n_option("false", opts.shared_ref, <<"-", "-", "unsafe_ref">>)
           ext == cbor_override_encode_options(ExtOption, opts)
<1>1. /\ max_depth.ok /\ string_ref.ok /\ shared_ref.ok
      /\ cbor_set_encode_options(opts).v =
           [ max_depth |-> max_depth.v, string_ref |-> string_ref.v,
             shared_ref |-> shared_ref.v, ext |-> ext.v ]
  BY DEF cbor_set_encode_options
<1>2. max_depth.v \in 0..MaxDepthLimit
  <2>1. opts.max_depth.n \in Int /\ MaxDepthLimit \in Nat /\ 64 \in 0..MaxDepthLimit
    BY OptionsAssumption DEF EncodeOption
  <2> QED BY <1>1, <2>1, Uint32Range
<1>3. string_ref.v \in {"false", "true", "explicit"}
  BY <1>1, BoolNRange
<1>4. shared_ref.v \in {"false", "true", "unsafe_ref"}
  BY <1>1, BoolNRange
<1>5. ext.v \in SUBSET ExtOption
  BY DEF cbor_override_encode_options
<1> HIDE DEF max_depth, string_ref, shared_ref, ext
<1> QED BY <1>1, <1>2, <1>3, <1>4, <1>5 DEF EncodeRange

\* What a function leaves in the variable of an option, by the option.
DecodeSetting(name, opts) == SetDecodeOption(name, cbor_init_decode_options[name], opts[name])

Indents == ((0..16) \X {"none", " "}) \cup {<<1, "\t">>}
SharedRefs == {"false", "true", "shareable", "shareable_only", "unsafe_ref"}

RangeOf(name) ==
  CASE name = "max_depth" -> 0..MaxDepthLimit
    [] name = "max_size" -> 0..HtMaxSize
    [] name = "offset" -> Nat
    [] name = "length" -> Nat \cup {LenDefault}
    [] name \in {"string_ref", "space"} -> BOOLEAN
    [] name = "shared_ref" -> SharedRefs
    [] name = "indent" -> Indents
    [] name = "byte_space" -> 0..63
    [] name = "byte_wrap" -> 0..1024

OptionNames == {"max_depth", "max_size", "offset", "length", "string_ref", "shared_ref",
                "indent", "space", "byte_space", "byte_wrap"}

\* The ranges of the options, one by one.
LEMMA Ranges ==
  /\ RangeOf("max_depth") = 0..MaxDepthLimit /\ RangeOf("max_size") = 0..HtMaxSize
  /\ RangeOf("offset") = Nat /\ RangeOf("length") = Nat \cup {LenDefault}
  /\ RangeOf("string_ref") = BOOLEAN /\ RangeOf("space") = BOOLEAN
  /\ RangeOf("shared_ref") = SharedRefs /\ RangeOf("indent") = Indents
  /\ RangeOf("byte_space") = 0..63 /\ RangeOf("byte_wrap") = 0..1024
  BY DEF RangeOf

\* The default of an option and what passes are in its range.
InRange(name, opts) ==
  /\ cbor_init_decode_options[name] \in RangeOf(name)
  /\ DecodeSetting(name, opts).ok => DecodeSetting(name, opts).v \in RangeOf(name)

\* Each of the decoder's options that pass is in its range.
LEMMA DecodeOptionRange ==
  ASSUME NEW opts, \A name \in AnyOption : opts[name].n \in Int
  PROVE  \A name \in OptionNames : InRange(name, opts)
<1> DEFINE old(name) == cbor_init_decode_options[name]
<1>1. /\ opts["max_depth"].n \in Int /\ opts["max_size"].n \in Int
      /\ opts["offset"].n \in Int /\ opts["length"].n \in Int
  BY DEF AnyOption, DecodeOption, EncodeOption
<1>2. /\ old("max_depth") = 64 /\ old("max_size") = 65536
      /\ old("offset") = 0 /\ old("length") = LenDefault
      /\ old("shared_ref") = "false" /\ old("indent") = <<0, "none">>
      /\ old("byte_space") = 0 /\ old("byte_wrap") = 0
  BY DEF cbor_init_decode_options
<1>3. old("string_ref") \in BOOLEAN /\ old("space") \in BOOLEAN
  BY DEF cbor_init_decode_options
<1> HIDE DEF old
<1>4. InRange("max_depth", opts)
  <2>1. DecodeSetting("max_depth", opts) = uint32_option(64, opts["max_depth"], MaxDepthLimit)
    BY <1>2 DEF DecodeSetting, SetDecodeOption, old
  <2>2. MaxDepthLimit \in Nat /\ 64 \in 0..MaxDepthLimit
    BY OptionsAssumption
  <2> QED BY Ranges, <1>1, <1>2, <2>1, <2>2, Uint32Range DEF InRange, old
<1>5. InRange("max_size", opts)
  <2> DEFINE r == uint32_option(65536, opts["max_size"], OptUint32Max)
  <2>1. DecodeSetting("max_size", opts) = max_size_option(65536, opts["max_size"])
    BY <1>2 DEF DecodeSetting, SetDecodeOption, old
  <2>2. DecodeSetting("max_size", opts) = IF r.ok /\ r.v > HtMaxSize THEN Set(HtMaxSize) ELSE r
    BY <2>1 DEF max_size_option
  <2>3. OptUint32Max \in Nat /\ 65536 \in 0..OptUint32Max /\ 65536 \in 0..HtMaxSize
        /\ HtMaxSize \in Nat
    BY OptionsAssumption
  <2>4. r.ok => r.v \in 0..OptUint32Max
    BY <1>1, <2>3, Uint32Range
  <2> HIDE DEF r
  <2> QED BY Ranges, <1>2, <2>2, <2>3, <2>4 DEF Set, InRange, old
<1>6. InRange("offset", opts)
  <2>1. DecodeSetting("offset", opts) =
          long_option(old("offset"), opts["offset"], 0, "offset" = "length")
    BY DEF DecodeSetting, SetDecodeOption, old
  <2> QED BY Ranges, <1>1, <1>2, <2>1 DEF long_option, Set, Invalid, InRange, old
<1>7. InRange("length", opts)
  <2>1. DecodeSetting("length", opts) =
          long_option(old("length"), opts["length"], 0, "length" = "length")
    BY DEF DecodeSetting, SetDecodeOption, old
  <2> QED BY Ranges, <1>1, <1>2, <2>1 DEF long_option, Set, Invalid, InRange, old
<1>8. InRange("string_ref", opts)
  <2>1. DecodeSetting("string_ref", opts) = bool_option(old("string_ref"), opts["string_ref"])
    BY DEF DecodeSetting, SetDecodeOption, old
  <2>2. bool_option(old("string_ref"), opts["string_ref"]).v \in BOOLEAN
    BY <1>3, BoolRange
  <2> QED BY Ranges, <1>3, <2>1, <2>2 DEF InRange, old
<1>9. InRange("space", opts)
  <2>1. DecodeSetting("space", opts) = bool_option(old("space"), opts["space"])
    BY DEF DecodeSetting, SetDecodeOption, old
  <2>2. bool_option(old("space"), opts["space"]).v \in BOOLEAN
    BY <1>3, BoolRange
  <2> QED BY Ranges, <1>3, <2>1, <2>2 DEF InRange, old
<1>10. InRange("shared_ref", opts)
  <2> DEFINE other == <<"shareable", "shareable_only", "unsafe_ref">>
             r == bool_n_option("false", opts["shared_ref"], other)
  <2>1. DecodeSetting("shared_ref", opts) = r
    BY <1>2 DEF DecodeSetting, SetDecodeOption, old
  <2>2. r.ok => \/ r.v = "false" \/ r.v \in {"true", "false"}
                \/ \E i \in DOMAIN other : other[i] = r.v
    BY BoolNRange
  <2>3. \A i \in DOMAIN other : other[i] \in SharedRefs
    BY DEF SharedRefs
  <2> HIDE DEF r, other
  <2> QED BY Ranges, <1>2, <2>1, <2>2, <2>3 DEF InRange, old, SharedRefs
<1>11. InRange("indent", opts)
  <2>1. DecodeSetting("indent", opts) = indent_option(<<0, "none">>, opts["indent"])
    BY <1>2 DEF DecodeSetting, SetDecodeOption, old
  <2>2. /\ <<0, "none">> \in Indents /\ <<1, "\t">> \in Indents
        /\ \A n \in 0..16 : <<n, " ">> \in Indents
    <3>1. 0 \in 0..16 /\ "none" \in {"none", " "} /\ " " \in {"none", " "}
      OBVIOUS
    <3>2. \A n \in 0..16, c \in {"none", " "} : <<n, c>> \in (0..16) \X {"none", " "}
      BY Zenon
    <3> QED BY <3>1, <3>2, Zenon DEF Indents
  <2> DEFINE r == indent_option(<<0, "none">>, opts["indent"])
  <2>3. r.ok => \/ r.v = <<0, "none">> \/ r.v = <<1, "\t">>
                \/ \E n \in 0..16 : r.v = <<n, " ">>
    BY DEF indent_option, Set, Invalid
  <2> HIDE DEF r
  <2>4. r.ok => r.v \in Indents
    BY <2>2, <2>3, Zenon
  <2>5. DecodeSetting("indent", opts) = r
    BY <2>1 DEF r
  <2>6. cbor_init_decode_options["indent"] = <<0, "none">>
    BY <1>2 DEF old
  <2> QED BY Ranges, <2>2, <2>4, <2>5, <2>6, Zenon DEF InRange
<1>12. InRange("byte_space", opts)
  <2>1. DecodeSetting("byte_space", opts) = byte_space_option(0, opts["byte_space"])
    BY <1>2 DEF DecodeSetting, SetDecodeOption, old
  <2> DEFINE r == byte_space_option(0, opts["byte_space"])
  <2>2. r.ok => r.v \in 0..63
    BY DEF byte_space_option, Set, Invalid
  <2> HIDE DEF r
  <2>3. DecodeSetting("byte_space", opts) = r
    BY <2>1 DEF r
  <2>4. cbor_init_decode_options["byte_space"] \in 0..63
    BY <1>2 DEF old
  <2>5. RangeOf("byte_space") = 0..63
    BY Ranges
  <2>6. (r.ok => r.v \in RangeOf("byte_space")) /\ cbor_init_decode_options["byte_space"] \in RangeOf("byte_space")
    BY <2>2, <2>4, <2>5
  <2> QED BY <2>3, <2>6, Zenon DEF InRange
<1>13. InRange("byte_wrap", opts)
  <2>1. DecodeSetting("byte_wrap", opts) = byte_wrap_option(0, opts["byte_wrap"])
    BY <1>2 DEF DecodeSetting, SetDecodeOption, old
  <2> DEFINE r == byte_wrap_option(0, opts["byte_wrap"])
  <2>2. r.ok => r.v \in 0..1024
    BY ByteWrapRange
  <2> HIDE DEF r
  <2>3. DecodeSetting("byte_wrap", opts) = r
    BY <2>1 DEF r
  <2>4. cbor_init_decode_options["byte_wrap"] \in 0..1024
    BY <1>2 DEF old
  <2>5. RangeOf("byte_wrap") = 0..1024
    BY Ranges
  <2>6. (r.ok => r.v \in RangeOf("byte_wrap")) /\ cbor_init_decode_options["byte_wrap"] \in RangeOf("byte_wrap")
    BY <2>2, <2>4, <2>5
  <2> QED BY <2>3, <2>6, Zenon DEF InRange
<1> QED BY <1>4, <1>5, <1>6, <1>7, <1>8, <1>9, <1>10, <1>11, <1>12, <1>13 DEF OptionNames

\* An option that is not given leaves the default.
LEMMA AbsentKeeps ==
  ASSUME NEW opts, NEW k \in DOMAIN DecodeOption, opts[DecodeOption[k]] = Absent
  PROVE  DecodeSetting(DecodeOption[k], opts).v = cbor_init_decode_options[DecodeOption[k]]
<1> DEFINE old(name) == cbor_init_decode_options[name]
<1>1. DecodeOption[k] \in {"max_depth", "max_size", "offset", "length", "string_ref", "shared_ref",
                           "indent", "space", "byte_space", "byte_wrap"}
  BY DEF DecodeOption
<1> SUFFICES ASSUME NEW name \in {"max_depth", "max_size", "offset", "length", "string_ref",
                                  "shared_ref", "indent", "space", "byte_space", "byte_wrap"},
                    opts[name] = Absent
             PROVE  DecodeSetting(name, opts).v = old(name)
  BY <1>1
<1>2. Absent.k = "absent"
  BY DEF Absent
<1> HIDE DEF old
<1>3. CASE name = "max_depth"
  BY <1>2, <1>3 DEF DecodeSetting, SetDecodeOption, uint32_option, Set, old
<1>4. CASE name = "max_size"
  <2>1. uint32_option(old(name), Absent, OptUint32Max) = Set(old(name))
    BY <1>2 DEF uint32_option
  <2>2. old(name) = 65536
    BY <1>4 DEF old, cbor_init_decode_options
  <2>3. ~(old(name) > HtMaxSize)
    BY <2>2, OptionsAssumption
  <2>4. max_size_option(old(name), Absent).v = old(name)
    BY <2>1, <2>3 DEF max_size_option, Set
  <2>5. DecodeSetting(name, opts) = max_size_option(old(name), Absent)
    BY <1>4 DEF DecodeSetting, SetDecodeOption, old
  <2> QED BY <2>4, <2>5
<1>5. CASE name \in {"offset", "length"}
  <2>1. DecodeSetting(name, opts) = long_option(old(name), Absent, 0, name = "length")
    BY <1>5 DEF DecodeSetting, SetDecodeOption, old
  <2> QED BY <1>2, <2>1 DEF long_option, Set
<1>6. CASE name \in {"string_ref", "space"}
  <2>1. DecodeSetting(name, opts) = bool_option(old(name), Absent)
    BY <1>6 DEF DecodeSetting, SetDecodeOption, old
  <2> QED BY <1>2, <2>1 DEF bool_option, Set
<1>7. CASE name = "shared_ref"
  BY <1>2, <1>7 DEF DecodeSetting, SetDecodeOption, bool_n_option, Set, old
<1>8. CASE name = "indent"
  BY <1>2, <1>8 DEF DecodeSetting, SetDecodeOption, indent_option, Set, old
<1>9. CASE name = "byte_space"
  BY <1>2, <1>9 DEF DecodeSetting, SetDecodeOption, byte_space_option, Set, old
<1>10. CASE name = "byte_wrap"
  BY <1>2, <1>10 DEF DecodeSetting, SetDecodeOption, byte_wrap_option, Set, old
<1> QED BY <1>3, <1>4, <1>5, <1>6, <1>7, <1>8, <1>9, <1>10

\* What cbor_set_decode_options makes of the defaults: if all options pass,
\* each is either set or kept.
LEMMA DecodeOptionsResult ==
  ASSUME NEW edn \in BOOLEAN, NEW opts
  PROVE  LET dec == cbor_set_decode_options(cbor_init_decode_options, edn, opts)
         IN  /\ DOMAIN dec.v = DOMAIN cbor_init_decode_options
             /\ \A name \in DOMAIN dec.v :
                  \/ dec.v[name] = cbor_init_decode_options[name]
                  \/ /\ dec.v[name] = DecodeSetting(name, opts).v
                     /\ dec.ok => DecodeSetting(name, opts).ok
             /\ dec.v = [name \in DOMAIN dec.v |-> dec.v[name]]
<1> DEFINE args == cbor_init_decode_options
           dec == cbor_set_decode_options(args, edn, opts)
           count == IF edn THEN 10 ELSE 6
           invalid == {k \in 1..count : ~DecodeSetting(DecodeOption[k], opts).ok}
           seen == {DecodeOption[k] : k \in {k \in 1..count : \A j \in invalid : k <= j}}
<1>1. /\ dec.ok <=> invalid = {}
      /\ dec.v = [name \in DOMAIN args |->
                    IF name \in seen THEN DecodeSetting(name, opts).v ELSE args[name]]
  BY DEF cbor_set_decode_options, DecodeSetting
<1>2. ASSUME dec.ok, NEW name \in seen PROVE DecodeSetting(name, opts).ok
  <2>1. PICK k \in 1..count : name = DecodeOption[k]
    OBVIOUS
  <2>2. invalid = {}
    BY <1>1, <1>2
  <2> QED BY <2>1, <2>2
<1> HIDE DEF args, dec, invalid, seen
<1> QED BY <1>1, <1>2 DEF dec, args

\* The checks of options.c are complete: whatever $options holds, the values
\* that the encoder and the decoder go on with are in the documented ranges,
\* for every width of the integers, and what is not given has its default.
THEOREM OptionsCorrect ==
  ASSUME probe.edn \in BOOLEAN, \A name \in Given : probe.opts[name] \in OptVal
  PROVE  OptionsInRange
<1> DEFINE opts == AllOptions
           dec == cbor_set_decode_options(cbor_init_decode_options, probe.edn, opts)
           old == cbor_init_decode_options
<1>1. \A name \in AnyOption : opts[name].n \in Int
  BY DEF AllOptions, Absent, OptVal
<1>2. EncodeOption \subseteq AnyOption
  BY DEF AnyOption
<1> HIDE DEF opts
<1>3. cbor_set_encode_options(opts).ok => cbor_set_encode_options(opts).v \in EncodeRange
  BY <1>1, <1>2, EncodeOptionsRange
<1>4. /\ DOMAIN dec.v = DOMAIN old
      /\ \A name \in DOMAIN dec.v :
           \/ dec.v[name] = old[name]
           \/ /\ dec.v[name] = DecodeSetting(name, opts).v
              /\ dec.ok => DecodeSetting(name, opts).ok
      /\ dec.v = [name \in DOMAIN dec.v |-> dec.v[name]]
  BY DecodeOptionsResult
<1>5. DOMAIN old = OptionNames
  BY DEF cbor_init_decode_options, OptionNames
<1> HIDE DEF dec, old
<1>6. ASSUME dec.ok PROVE dec.v \in DecodeRange
  <2>1. ASSUME NEW name \in OptionNames PROVE dec.v[name] \in RangeOf(name)
    <3>1. InRange(name, opts)
      BY <1>1, DecodeOptionRange
    <3> QED BY <1>4, <1>5, <1>6, <3>1 DEF InRange, old
  <2>2. /\ dec.v["max_depth"] \in 0..MaxDepthLimit /\ dec.v["max_size"] \in 0..HtMaxSize
        /\ dec.v["offset"] \in Nat /\ dec.v["length"] \in Nat \cup {LenDefault}
        /\ dec.v["string_ref"] \in BOOLEAN
        /\ dec.v["shared_ref"] \in SharedRefs
        /\ dec.v["indent"] \in Indents /\ dec.v["space"] \in BOOLEAN
        /\ dec.v["byte_space"] \in 0..63 /\ dec.v["byte_wrap"] \in 0..1024
    <3>1. dec.v["max_depth"] \in 0..MaxDepthLimit
      <4>1. dec.v["max_depth"] \in RangeOf("max_depth")
        BY <2>1 DEF OptionNames
      <4>2. RangeOf("max_depth") = 0..MaxDepthLimit
        BY Ranges
      <4> QED BY <4>1, <4>2
    <3>2. dec.v["max_size"] \in 0..HtMaxSize
      <4>1. dec.v["max_size"] \in RangeOf("max_size")
        BY <2>1 DEF OptionNames
      <4>2. RangeOf("max_size") = 0..HtMaxSize
        BY Ranges
      <4> QED BY <4>1, <4>2
    <3>3. dec.v["offset"] \in Nat
      <4>1. dec.v["offset"] \in RangeOf("offset")
        BY <2>1 DEF OptionNames
      <4> QED BY <4>1, Ranges, Zenon
    <3>4. dec.v["length"] \in Nat \cup {LenDefault}
      <4>1. dec.v["length"] \in RangeOf("length")
        BY <2>1 DEF OptionNames
      <4> QED BY <4>1, Ranges, Zenon
    <3>5. dec.v["string_ref"] \in BOOLEAN
      <4>1. dec.v["string_ref"] \in RangeOf("string_ref")
        BY <2>1 DEF OptionNames
      <4> QED BY <4>1, Ranges, Zenon
    <3>6. dec.v["shared_ref"] \in SharedRefs
      <4>1. dec.v["shared_ref"] \in RangeOf("shared_ref")
        BY <2>1 DEF OptionNames
      <4> QED BY <4>1, Ranges, Zenon
    <3>7. dec.v["indent"] \in Indents
      <4>1. dec.v["indent"] \in RangeOf("indent")
        BY <2>1 DEF OptionNames
      <4> QED BY <4>1, Ranges, Zenon
    <3>8. dec.v["space"] \in BOOLEAN
      <4>1. dec.v["space"] \in RangeOf("space")
        BY <2>1 DEF OptionNames
      <4> QED BY <4>1, Ranges, Zenon
    <3>9. dec.v["byte_space"] \in 0..63
      <4>1. dec.v["byte_space"] \in RangeOf("byte_space")
        BY <2>1 DEF OptionNames
      <4>2. RangeOf("byte_space") = 0..63
        BY Ranges
      <4> QED BY <4>1, <4>2
    <3>10. dec.v["byte_wrap"] \in 0..1024
      <4>1. dec.v["byte_wrap"] \in RangeOf("byte_wrap")
        BY <2>1 DEF OptionNames
      <4>2. RangeOf("byte_wrap") = 0..1024
        BY Ranges
      <4> QED BY <4>1, <4>2
    <3> QED BY <3>1, <3>2, <3>3, <3>4, <3>5, <3>6, <3>7, <3>8, <3>9, <3>10
  <2>3. DOMAIN dec.v = OptionNames /\ dec.v = [name \in OptionNames |-> dec.v[name]]
    BY <1>4, <1>5
  <2> QED BY <2>2, <2>3 DEF DecodeRange, Indents, SharedRefs, OptionNames
<1>7. ASSUME NEW k \in DOMAIN DecodeOption, DecodeOption[k] \notin Given
      PROVE  dec.v[DecodeOption[k]] = old[DecodeOption[k]]
  <2>1. DecodeOption[k] \in AnyOption
    BY DEF AnyOption
  <2>2. opts[DecodeOption[k]] = Absent
    BY <1>7, <2>1 DEF AllOptions, opts
  <2>3. DecodeSetting(DecodeOption[k], opts).v = old[DecodeOption[k]]
    BY <2>2, AbsentKeeps DEF old
  <2>4. DecodeOption[k] \in DOMAIN dec.v
    BY <1>4, <1>5 DEF DecodeOption, OptionNames
  <2> QED BY <1>4, <2>3, <2>4
<1> QED BY <1>3, <1>6, <1>7 DEF OptionsInRange, dec, old, opts

-----------------------------------------------------------------------------
(* Heads.                                                                   *)

\* The initial byte is the major type and the additional information.
LEMMA ByteParts ==
  ASSUME NEW b \in 0..255
  PROVE  /\ b \div 32 \in 0..7 /\ b % 32 \in 0..31
         /\ b = 32 * (b \div 32) + (b % 32)
  OBVIOUS

\* And the other way round
LEMMA IniByte ==
  ASSUME NEW major \in 0..7, NEW info \in 0..31
  PROVE  /\ (32 * major + info) \div 32 = major /\ (32 * major + info) % 32 = info
         /\ 32 * major + info \in 0..255
  OBVIOUS

\* The types of the major types 0 .. 6
LEMMA TypeOfMajor ==
  ASSUME NEW b \in 0..255, b \div 32 # 7
  PROVE  /\ cbor_di_get_type(b) = ByMajor[b \div 32 + 1]
         /\ cbor_di_get_type(b) \notin NoArg \cup {"reserved"}
         /\ cbor_di_get_type(b) \in Indefinite <=> b \div 32 \in {2, 3, 4, 5}
<1>1. b \div 32 \in 0..6
  BY ByteParts
<1> DEFINE m == b \div 32
<1> HIDE DEF m
<1>2. m \in 0..6
  BY <1>1 DEF m
<1>3. cbor_di_get_type(b) = ByMajor[m + 1]
  BY <1>1 DEF cbor_di_get_type, m
<1>4. /\ ByMajor[m + 1] \notin NoArg \cup {"reserved"}
      /\ ByMajor[m + 1] \in Indefinite <=> m \in {2, 3, 4, 5}
  BY <1>2 DEF ByMajor, NoArg, Indefinite
<1> QED BY <1>3, <1>4 DEF m

\* The types of the major type 7
LEMMA TypeOfSimple ==
  ASSUME NEW b \in 0..255, b \div 32 = 7
  PROVE  LET type == cbor_di_get_type(b)
             info == b % 32
         IN  /\ type = ByInfo(info)
             /\ type = "reserved" <=> info \in 28..30
             /\ type \in NoArg <=> info \in {20, 21, 22, 23, 31}
             /\ type \notin Indefinite
<1> DEFINE info == b % 32
<1>1. info \in 0..31
  BY ByteParts
<1>2. cbor_di_get_type(b) = ByInfo(info)
  BY DEF cbor_di_get_type
<1> HIDE DEF info
<1>3. /\ ByInfo(info) = "reserved" <=> info \in 28..30
      /\ ByInfo(info) \in NoArg <=> info \in {20, 21, 22, 23, 31}
      /\ ByInfo(info) \notin Indefinite
  <2>1. CASE info < 20
    <3>1. ByInfo(info) = "simple"
      BY <2>1 DEF ByInfo
    <3> QED BY <1>1, <2>1, <3>1 DEF NoArg, Indefinite
  <2>2. CASE info \in {20, 21, 22, 23, 31}
    <3>1. ByInfo(info) \in {"bool", "null", "undefined", "break"}
      BY <2>2 DEF ByInfo
    <3> QED BY <2>2, <3>1 DEF NoArg, Indefinite
  <2>3. CASE info \in 24..27
    <3>1. ByInfo(info) \in {"simple8", "float16", "float32", "float64"}
      BY <2>3 DEF ByInfo
    <3> QED BY <2>3, <3>1 DEF NoArg, Indefinite
  <2>4. CASE info \in 28..30
    <3>1. ByInfo(info) = "reserved"
      BY <2>4 DEF ByInfo
    <3> QED BY <2>4, <3>1 DEF NoArg, Indefinite
  <2> QED BY <1>1, <2>1, <2>2, <2>3, <2>4
<1> QED BY <1>2, <1>3 DEF info

\* The bytes of an argument
LEMMA Sizes ==
  /\ DOMAIN InfoSize = 24..27
  /\ InfoSize[24] = 1 /\ InfoSize[25] = 2 /\ InfoSize[26] = 4 /\ InfoSize[27] = 8
  BY DEF InfoSize

\* Bytes of the argument behind an initial byte with this information
ArgSize(info) == IF info \in 24..27 THEN InfoSize[info] ELSE 0

\* What dec_item does depends on the additional information first.
LEMMA ReadHeadByInfo ==
  ASSUME NEW s \in Seq(0..255), s # << >>
  PROVE  LET info == s[1] % 32
             major == s[1] \div 32
         IN  /\ info <= 23 /\ major # 7 => ReadHead(s) = ReadOk(Zeros(7) \o <<info>>, 1)
             /\ info <= 23 => ReadHead(s).st = "ok"
             /\ info \in 24..27 => ReadHead(s) = ReadArg(s, InfoSize[info])
             /\ info \in 28..30 => ReadHead(s) = Malformed
             /\ info = 31 /\ major \in {2, 3, 4, 5, 7} => ReadHead(s) = ReadOk(Zeros(8), 1)
             /\ info = 31 /\ major \in {0, 1, 6} => ReadHead(s) = Malformed
<1> DEFINE b == s[1]
           info == b % 32
           major == b \div 32
           type == cbor_di_get_type(b)
           short == ReadOk(Zeros(7) \o <<info>>, 1)
<1>1. b \in 0..255
  <2>1. Len(s) \in Nat /\ Len(s) # 0
    BY EmptySeq
  <2>2. 1 \in 1..Len(s)
    BY <2>1
  <2> QED BY <2>2, ElementOfSeq
<1>2. info \in 0..31 /\ major \in 0..7
  BY <1>1, ByteParts
<1>3. major # 7 => /\ type \notin NoArg \cup {"reserved"}
                   /\ type \in Indefinite <=> major \in {2, 3, 4, 5}
  BY <1>1, TypeOfMajor
<1>4. major = 7 => /\ type = "reserved" <=> info \in 28..30
                   /\ type \in NoArg <=> info \in {20, 21, 22, 23, 31}
                   /\ type \notin Indefinite
  BY <1>1, TypeOfSimple
<1>5. ReadHead(s) =
        CASE type = "reserved" -> Malformed
        [] type \in NoArg -> ReadOk(Zeros(8), 1)
        [] type \notin NoArg \cup {"reserved"} /\ info <= 23 -> short
        [] type \notin NoArg /\ info \in DOMAIN InfoSize -> ReadArg(s, InfoSize[info])
        [] type \in Indefinite /\ info = 31 -> ReadOk(Zeros(8), 1)
        [] OTHER -> Malformed
  BY DEF ReadHead
<1>6. "reserved" \notin NoArg
  BY DEF NoArg
<1>7. short.st = "ok" /\ ReadOk(Zeros(8), 1).st = "ok"
  BY DEF ReadOk
<1> HIDE DEF b, info, major, type, short
<1>8. ASSUME info <= 23, major # 7 PROVE ReadHead(s) = short
  BY <1>2, <1>3, <1>5, <1>8, Sizes
<1>9. ASSUME info <= 23 PROVE ReadHead(s).st = "ok"
  <2>1. type # "reserved"
    BY <1>2, <1>3, <1>4, <1>9
  <2> QED BY <1>2, <1>5, <1>7, <1>9, <2>1, Sizes
<1>10. ASSUME info \in 24..27 PROVE ReadHead(s) = ReadArg(s, InfoSize[info])
  <2>1. type # "reserved" /\ type \notin NoArg
    BY <1>2, <1>3, <1>4, <1>10
  <2> QED BY <1>5, <1>10, <2>1, Sizes
<1>11. ASSUME info \in 28..30 PROVE ReadHead(s) = Malformed
  BY <1>2, <1>3, <1>4, <1>5, <1>11, Sizes
<1>12. ASSUME info = 31, major \in {2, 3, 4, 5, 7} PROVE ReadHead(s) = ReadOk(Zeros(8), 1)
  BY <1>2, <1>3, <1>4, <1>5, <1>6, <1>12, Sizes
<1>13. ASSUME info = 31, major \in {0, 1, 6} PROVE ReadHead(s) = Malformed
  BY <1>2, <1>3, <1>5, <1>13, Sizes
<1> QED BY <1>8, <1>9, <1>10, <1>11, <1>12, <1>13 DEF b, info, major, type, short

\* A sequence of bytes padded with zeros to an argument
LEMMA Padded ==
  ASSUME NEW k \in 0..8, NEW m, m = 8 - k, NEW t \in Seq(0..255), Len(t) = k
  PROVE  LET val == Zeros(m) \o t
         IN  /\ val \in Arg /\ Below(val, k)
             /\ \A i \in 1..8 : val[i] = IF i <= m THEN 0 ELSE t[i - m]
<1> DEFINE z == Zeros(m)
           val == z \o t
<1>1. z \in Seq(0..255) /\ Len(z) = m /\ \A i \in 1..m : z[i] = 0
  BY DEF Zeros
<1> HIDE DEF z
<1>2. val \in Seq(0..255) /\ Len(val) = 8
  BY <1>1
<1>3. \A i \in 1..8 : val[i] = IF i <= m THEN 0 ELSE t[i - m]
  <2> TAKE i \in 1..8
  <2>1. CASE i <= m
    BY <1>1, <2>1
  <2>2. CASE ~(i <= m)
    BY <1>1, <2>2
  <2> QED BY <2>1, <2>2
<1> HIDE DEF val
<1>4. val \in Arg
  BY <1>2, LenProperties DEF Arg
<1>5. Below(val, k)
  BY <1>3 DEF Below
<1> QED BY <1>3, <1>4, <1>5 DEF val, z

\* The argument is written in the fewest bytes that hold it.
LEMMA InfoFits ==
  ASSUME NEW val \in Arg
  PROVE  /\ Info(val) \in 0..27
         /\ Info(val) <= 23 => Below(val, 1) /\ val[8] = Info(val)
         /\ Info(val) >= 24 => Below(val, ArgSize(Info(val)))
         /\ \A k \in {1, 2, 4, 8} : Below(val, k) => ArgSize(Info(val)) <= k
         /\ Below(val, 1) /\ val[8] <= 23 => Info(val) <= 23
<1>1. val[8] \in 0..255
  BY DEF Arg
<1>2. Below(val, 8)
  BY DEF Below
<1>3. (Below(val, 1) => Below(val, 2)) /\ (Below(val, 2) => Below(val, 4))
  BY DEF Below
<1>4. CASE Below(val, 1) /\ val[8] <= 23
  <2>1. Info(val) = val[8]
    BY <1>1, <1>3, <1>4 DEF Info
  <2> QED BY <1>1, <1>4, <2>1 DEF ArgSize
<1>5. CASE Below(val, 1) /\ ~(val[8] <= 23)
  <2>1. Info(val) = 24
    BY <1>1, <1>3, <1>5 DEF Info
  <2> QED BY <1>5, <2>1, Sizes DEF ArgSize
<1>6. CASE Below(val, 2) /\ ~Below(val, 1)
  <2>1. Info(val) = 25
    BY <1>1, <1>3, <1>6 DEF Info
  <2> QED BY <1>6, <2>1, Sizes DEF ArgSize
<1>7. CASE Below(val, 4) /\ ~Below(val, 2)
  <2>1. Info(val) = 26
    BY <1>1, <1>3, <1>7 DEF Info
  <2> QED BY <1>3, <1>7, <2>1, Sizes DEF ArgSize
<1>8. CASE ~Below(val, 4)
  <2>1. Info(val) = 27
    BY <1>1, <1>3, <1>8 DEF Info
  <2> QED BY <1>2, <1>3, <1>8, <2>1, Sizes DEF ArgSize
<1> QED BY <1>3, <1>4, <1>5, <1>6, <1>7, <1>8

\* The bytes that cbor_di_write_int writes
LEMMA Written ==
  ASSUME NEW major \in 0..6, NEW val \in Arg
  PROVE  LET w == cbor_di_write_int(major, val)
             n == ArgSize(Info(val))
         IN  /\ w \in Seq(0..255) /\ Len(w) = 1 + n
             /\ w[1] = 32 * major + Info(val)
             /\ \A i \in 2..(1 + n) : w[i] = val[8 - n + i - 1]
<1> DEFINE info == Info(val)
           n == ArgSize(info)
           ini == 32 * major + info
           tail == SubSeq(val, 9 - n, 8)
<1>1. info \in 0..27
  BY InfoFits
<1>2. n \in {0, 1, 2, 4, 8}
  BY <1>1, Sizes DEF ArgSize
<1>3. \A i \in 1..8 : val[i] \in 0..255
  BY DEF Arg
<1>4. ini \in 0..255
  BY <1>1
<1>5. cbor_di_write_int(major, val) = <<ini>> \o tail
  <2>1. n = IF info <= 23 THEN 0 ELSE InfoSize[info]
    BY <1>1 DEF ArgSize
  <2> HIDE DEF n
  <2> QED BY <2>1 DEF cbor_di_write_int
<1> HIDE DEF info, n, ini
<1>6. tail \in Seq(0..255) /\ Len(tail) = n /\ \A i \in 1..n : tail[i] = val[8 - n + i]
  <2>1. \A i \in (9 - n)..8 : val[i] \in 0..255
    BY <1>2, <1>3
  <2>2. /\ SubSeq(val, 9 - n, 8) \in Seq(0..255)
        /\ Len(SubSeq(val, 9 - n, 8)) = IF 9 - n <= 8 THEN 8 - (9 - n) + 1 ELSE 0
        /\ \A i \in 1..(8 - (9 - n) + 1) : SubSeq(val, 9 - n, 8)[i] = val[9 - n + i - 1]
    BY <1>2, <2>1, SubSeqProperties
  <2>3. 8 - (9 - n) + 1 = n /\ (9 - n <= 8 <=> n >= 1) /\ \A i \in 1..n : 9 - n + i - 1 = 8 - n + i
    BY <1>2
  <2> HIDE DEF tail
  <2>4. Len(tail) = n
    BY <1>2, <2>2, <2>3 DEF tail
  <2> QED BY <2>2, <2>3, <2>4 DEF tail
<1> HIDE DEF tail
<1>7. <<ini>> \o tail \in Seq(0..255) /\ Len(<<ini>> \o tail) = 1 + n
  BY <1>2, <1>4, <1>6
<1>8. (<<ini>> \o tail)[1] = ini
  BY <1>2, <1>4, <1>6
<1>9. \A i \in 2..(1 + n) : (<<ini>> \o tail)[i] = val[8 - n + i - 1]
  <2> TAKE i \in 2..(1 + n)
  <2>1. (<<ini>> \o tail)[i] = tail[i - 1]
    BY <1>2, <1>4, <1>6
  <2>2. tail[i - 1] = val[8 - n + (i - 1)]
    BY <1>2, <1>6
  <2> QED BY <1>2, <2>1, <2>2
<1> QED BY <1>5, <1>7, <1>8, <1>9 DEF info, n, ini

\* ReadArg of a sequence that is long enough
LEMMA ReadArgOk ==
  ASSUME NEW s \in Seq(0..255), NEW k \in {1, 2, 4, 8}, k + 1 <= Len(s)
  PROVE  \E val \in Arg : /\ ReadArg(s, k) = ReadOk(val, k + 1) /\ Below(val, k)
                         /\ \A i \in 1..8 : val[i] = IF i <= 8 - k THEN 0 ELSE s[i - (8 - k) + 1]
<1> DEFINE t == SubSeq(s, 2, k + 1)
           val == Zeros(8 - k) \o t
<1>1. Len(s) \in Nat /\ ~(k > Len(s) - 1)
  OBVIOUS
<1>2. \A i \in 2..(k + 1) : s[i] \in 0..255
  <2>1. \A i \in 2..(k + 1) : i \in 1..Len(s)
    BY <1>1
  <2> QED BY <2>1, ElementOfSeq
<1>3. t \in Seq(0..255) /\ Len(t) = k /\ \A i \in 1..k : t[i] = s[i + 1]
  <2>1. /\ SubSeq(s, 2, k + 1) \in Seq(0..255)
        /\ Len(SubSeq(s, 2, k + 1)) = IF 2 <= k + 1 THEN k + 1 - 2 + 1 ELSE 0
        /\ \A i \in 1..(k + 1 - 2 + 1) : SubSeq(s, 2, k + 1)[i] = s[2 + i - 1]
    <3> DEFINE m == k + 1
    <3>1. 2 \in Int /\ m \in Int /\ \A i \in 2..m : s[i] \in 0..255
      BY <1>2
    <3> HIDE DEF m, t
    <3>2. /\ SubSeq(s, 2, m) \in Seq(0..255)
          /\ Len(SubSeq(s, 2, m)) = IF 2 <= m THEN m - 2 + 1 ELSE 0
          /\ \A i \in 1..(m - 2 + 1) : SubSeq(s, 2, m)[i] = s[2 + i - 1]
      BY <3>1, SubSeqProperties
    <3> QED BY <3>2 DEF m
  <2>2. k + 1 - 2 + 1 = k /\ 2 <= k + 1 /\ \A i \in 1..k : 2 + i - 1 = i + 1
    OBVIOUS
  <2> HIDE DEF t
  <2> QED BY <2>1, <2>2 DEF t
<1>4. ReadArg(s, k) = ReadOk(val, k + 1)
  BY <1>1 DEF ReadArg
<1> HIDE DEF t
<1>5. /\ val \in Arg /\ Below(val, k)
      /\ \A i \in 1..8 : val[i] = IF i <= 8 - k THEN 0 ELSE t[i - (8 - k)]
  <2> DEFINE m == 8 - k
  <2>1. k \in 0..8
    OBVIOUS
  <2>2. m = 8 - k
    OBVIOUS
  <2> HIDE DEF m
  <2>3. /\ Zeros(m) \o t \in Arg /\ Below(Zeros(m) \o t, k)
        /\ \A i \in 1..8 : (Zeros(m) \o t)[i] = IF i <= m THEN 0 ELSE t[i - m]
    <3>1. t \in Seq(0..255) /\ Len(t) = k
      BY <1>3
    <3> QED BY ONLY <2>1, <2>2, <3>1, Padded
  <2> QED BY <2>2, <2>3
<1> HIDE DEF val
<1>6. \A i \in 1..8 : val[i] = IF i <= 8 - k THEN 0 ELSE s[i - (8 - k) + 1]
  <2> TAKE i \in 1..8
  <2>1. CASE i <= 8 - k
    BY <1>5, <2>1
  <2>2. CASE ~(i <= 8 - k)
    <3>1. i - (8 - k) \in 1..k
      BY <2>2
    <3> QED BY <1>3, <1>5, <2>2, <3>1
  <2> QED BY <2>1, <2>2
<1> QED BY <1>4, <1>5, <1>6

\* What is written reads back as the same argument, and no part of it is taken
\* for a head.
LEMMA ReadWritten ==
  ASSUME NEW major \in 0..6, NEW val \in Arg
  PROVE  LET w == cbor_di_write_int(major, val)
         IN  /\ ReadHead(w) = ReadOk(val, Len(w))
             /\ \A j \in 1..(Len(w) - 1) : ReadHead(SubSeq(w, 1, j)) = Truncated
<1> DEFINE w == cbor_di_write_int(major, val)
           info == Info(val)
           n == ArgSize(info)
<1>1. /\ w \in Seq(0..255) /\ Len(w) = 1 + n
      /\ w[1] = 32 * major + info
      /\ \A i \in 2..(1 + n) : w[i] = val[8 - n + i - 1]
  BY Written
<1>2. info \in 0..27
  BY InfoFits
<1>3. /\ info <= 23 => Below(val, 1) /\ val[8] = info
      /\ info >= 24 => Below(val, n)
  BY InfoFits
<1>4. n = IF info \in 24..27 THEN InfoSize[info] ELSE 0
  BY DEF ArgSize
<1>5. \A i \in 1..8 : val[i] \in 0..255
  BY DEF Arg
<1> HIDE DEF w, info, n
<1>6. w[1] \div 32 = major /\ w[1] % 32 = info
  <2>1. major \in 0..7 /\ info \in 0..31
    BY <1>2
  <2> DEFINE ini == 32 * major + info
  <2>2. ini \div 32 = major /\ ini % 32 = info
    BY <2>1, IniByte
  <2>3. w[1] = ini
    BY <1>1
  <2> HIDE DEF ini
  <2> QED BY <2>2, <2>3
<1>7. ASSUME NEW u \in Arg, \A i \in 1..8 : u[i] = val[i]
      PROVE  u = val
  BY <1>7 DEF Arg
<1>8. CASE info <= 23
  <2>1. n = 0
    BY <1>2, <1>4, <1>8
  <2>2. Len(w) = 1 /\ w # << >>
    <3>1. Len(w) = 1
      BY <1>1, <2>1
    <3> QED BY <3>1
  <2>3. ReadHead(w) = ReadOk(Zeros(7) \o <<info>>, 1)
    BY <1>1, <1>6, <1>8, <2>2, ReadHeadByInfo
  <2> DEFINE t == <<info>>
             u == Zeros(7) \o t
  <2>4. t \in Seq(0..255) /\ Len(t) = 1 /\ t[1] = info
    BY <1>2
  <2>5. /\ u \in Arg /\ Below(u, 1)
        /\ \A i \in 1..8 : u[i] = IF i <= 7 THEN 0 ELSE t[i - 7]
    <3> HIDE DEF t
    <3>1. 1 \in 0..8 /\ 7 = 8 - 1
      OBVIOUS
    <3> QED BY <2>4, <3>1, Padded
  <2> HIDE DEF t
  <2>6. u = val
    <3> HIDE DEF u
    <3>1. \A i \in 1..8 : u[i] = val[i]
      <4> TAKE i \in 1..8
      <4>1. CASE i <= 7
        BY <1>3, <1>8, <2>5, <4>1 DEF Below
      <4>2. CASE i = 8
        BY <1>3, <1>8, <2>4, <2>5, <4>2
      <4> QED BY <4>1, <4>2
    <3> QED BY <1>7, <2>5, <3>1
  <2>7. ReadHead(w) = ReadOk(val, Len(w))
    BY <2>2, <2>3, <2>6 DEF t
  <2> QED BY <1>1, <2>1, <2>7 DEF w
<1>9. CASE info \in 24..27
  <2>1. n = InfoSize[info] /\ n \in {1, 2, 4, 8}
    BY <1>4, <1>9, Sizes
  <2>2. w # << >>
    BY <1>1, <2>1
  <2>3. ReadHead(w) = ReadArg(w, n)
    BY <1>1, <1>6, <1>9, <2>1, <2>2, ReadHeadByInfo
  <2>4. PICK u \in Arg : /\ ReadArg(w, n) = ReadOk(u, n + 1) /\ Below(u, n)
                         /\ \A i \in 1..8 : u[i] = IF i <= 8 - n THEN 0 ELSE w[i - (8 - n) + 1]
    <3>1. n + 1 <= Len(w)
      BY <1>1, <2>1
    <3> QED BY <1>1, <2>1, <3>1, ReadArgOk
  <2>5. u = val
    <3>1. \A i \in 1..8 : u[i] = val[i]
      <4> TAKE i \in 1..8
      <4>1. CASE i <= 8 - n
        <5>1. val[i] = 0
          BY <1>3, <1>9, <4>1 DEF Below
        <5> QED BY <2>4, <4>1, <5>1
      <4>2. CASE ~(i <= 8 - n)
        <5>1. i - (8 - n) + 1 \in 2..(1 + n)
          BY <2>1, <4>2
        <5>2. w[i - (8 - n) + 1] = val[8 - n + (i - (8 - n) + 1) - 1]
          BY <1>1, <5>1
        <5>3. 8 - n + (i - (8 - n) + 1) - 1 = i
          BY <2>1
        <5> QED BY <2>4, <4>2, <5>2, <5>3
      <4> QED BY <4>1, <4>2
    <3> QED BY <1>7, <3>1
  <2>6. n + 1 = Len(w)
    BY <1>1, <2>1
  <2>7. ReadHead(w) = ReadOk(val, Len(w))
    BY <2>3, <2>4, <2>5, <2>6
  <2>8. ASSUME NEW j \in 1..(Len(w) - 1) PROVE ReadHead(SubSeq(w, 1, j)) = Truncated
    <3> DEFINE p == SubSeq(w, 1, j)
    <3>1. j \in 1..n
      BY <2>1, <2>6
    <3>2. \A i \in 1..j : w[i] \in 0..255
      BY <1>1, <2>6, <3>1, ElementOfSeq
    <3>3. /\ SubSeq(w, 1, j) \in Seq(0..255)
          /\ Len(SubSeq(w, 1, j)) = IF 1 <= j THEN j - 1 + 1 ELSE 0
          /\ \A i \in 1..(j - 1 + 1) : SubSeq(w, 1, j)[i] = w[1 + i - 1]
      BY <3>2, SubSeqProperties
    <3> HIDE DEF p
    <3>4. p \in Seq(0..255) /\ Len(p) = j /\ p[1] = w[1]
      BY <3>3 DEF p
    <3>5. p # << >>
      BY <3>4
    <3>6. ReadHead(p) = ReadArg(p, n)
      BY <1>6, <1>9, <2>1, <3>4, <3>5, ReadHeadByInfo
    <3>7. n > Len(p) - 1
      BY <2>1, <3>1, <3>4
    <3> QED BY <3>6, <3>7 DEF ReadArg, p
  <2> QED BY <2>7, <2>8 DEF w
<1> QED BY <1>2, <1>8, <1>9

\* A last byte
LEMMA Low ==
  ASSUME NEW q \in Nat, NEW c \in 0..255, NEW n, n = q * 256 + c
  PROVE  n \in Nat /\ n % 256 = c /\ n \div 256 = q
  OBVIOUS

\* a, b and c are the bytes of n.
BytesOf(n, a, b, c) ==
  /\ n \in Nat
  /\ (n \div Place[1]) % 256 = c /\ (n \div Place[2]) % 256 = b
  /\ (n \div Place[3]) % 256 = a /\ (n \div Place[4]) % 256 = 0
  /\ (a = 0 /\ b = 0) => n = c
  /\ (a = 0 /\ b # 0) => n > 255 /\ n < Place[3]
  /\ a # 0 => n >= Place[3]

\* The bytes of a number of 24 bits
LEMMA Places ==
  ASSUME NEW a \in 0..255, NEW b \in 0..255, NEW c \in 0..255
  PROVE  BytesOf((a * 256 + b) * 256 + c, a, b, c)
<1> DEFINE q == a * 256 + b
           n == q * 256 + c
           W == Place[3]
           P == Place[4]
<1>a. a \in 0..255 /\ a \in Nat
  OBVIOUS
<1>b. b \in 0..255 /\ b \in Nat
  OBVIOUS
<1>c. c \in 0..255
  OBVIOUS
<1>p. Place[1] = 1 /\ Place[2] = 256 /\ W = 256 * 256 /\ P = 256 * 256 * 256
  BY DEF Place
<1>q. q = a * 256 + b
  OBVIOUS
<1>n. n = q * 256 + c
  OBVIOUS
<1> HIDE DEF q, n, W, P
<1>1. q \in Nat /\ q % 256 = b /\ q \div 256 = a
  BY ONLY <1>a, <1>b, <1>q, Low
<1>2. n \in Nat /\ n % 256 = c /\ n \div 256 = q
  BY ONLY <1>1, <1>c, <1>n, Low
<1>3. q < 65536 /\ (a = 0 => q = b) /\ (a # 0 => q > 255)
  BY ONLY <1>a, <1>b, <1>q
<1>4. n < P
  BY ONLY <1>1, <1>3, <1>c, <1>n, <1>p
<1>5. n \div 1 = n /\ n \div P = 0
  BY ONLY <1>2, <1>4, <1>p
<1>6. n \div W = q \div 256
  BY ONLY <1>1, <1>n, <1>c, <1>p
<1>7. (n \div Place[1]) % 256 = c
  BY ONLY <1>2, <1>5, <1>p
<1>8. (n \div Place[2]) % 256 = b
  BY ONLY <1>1, <1>2, <1>p
<1>9. (n \div W) % 256 = a
  <2>1. a % 256 = a
    BY ONLY <1>a
  <2>2. n \div W = a
    BY ONLY <1>1, <1>6, Zenon
  <2> QED BY ONLY <2>1, <2>2, Zenon
<1>10. (n \div P) % 256 = 0
  BY ONLY <1>5
<1>11. (a = 0 /\ b = 0) => n = c
  BY ONLY <1>n, <1>3, <1>c
<1>12. (a = 0 /\ b # 0) => n > 255 /\ n < W
  <2>1. (a = 0 /\ b # 0) => n > 255 /\ n <= 65535
    BY ONLY <1>n, <1>3, <1>b, <1>c
  <2> QED BY ONLY <1>2, <1>p, <2>1
<1>13. a # 0 => n >= W
  <2>1. a # 0 => n > 65535
    BY ONLY <1>1, <1>3, <1>n, <1>c
  <2> QED BY ONLY <1>2, <1>p, <2>1
<1> QED BY <1>2, <1>7, <1>8, <1>9, <1>10, <1>11, <1>12, <1>13 DEF BytesOf, n, q, W, P

\* DiEncoder's HeadBytes, on numbers, is cbor_di_write_int on bytes.
LEMMA HeadBytesWritten ==
  ASSUME NEW major \in 0..6, NEW val \in Arg, Below(val, 3)
  PROVE  HeadBytes(major, (val[6] * 256 + val[7]) * 256 + val[8]) = cbor_di_write_int(major, val)
<1> DEFINE N == (val[6] * 256 + val[7]) * 256 + val[8]
           w == cbor_di_write_int(major, val)
           n == ArgSize(Info(val))
<1>1. /\ w \in Seq(0..255) /\ Len(w) = 1 + n
      /\ w[1] = 32 * major + Info(val)
      /\ \A i \in 2..(1 + n) : w[i] = val[8 - n + i - 1]
  BY Written
<1>2. /\ val[6] \in 0..255 /\ val[7] \in 0..255 /\ val[8] \in 0..255
  BY DEF Arg
<1>3. val[1] = 0 /\ val[2] = 0 /\ val[3] = 0 /\ val[4] = 0 /\ val[5] = 0
  BY DEF Below
<1>4. /\ Below(val, 4)
      /\ Below(val, 2) <=> val[6] = 0
      /\ Below(val, 1) <=> val[6] = 0 /\ val[7] = 0
  BY <1>3 DEF Below
<1>p. /\ N \in Nat
      /\ (N \div Place[1]) % 256 = val[8] /\ (N \div Place[2]) % 256 = val[7]
      /\ (N \div Place[3]) % 256 = val[6] /\ (N \div Place[4]) % 256 = 0
      /\ (val[6] = 0 /\ val[7] = 0) => N = val[8]
      /\ (val[6] = 0 /\ val[7] # 0) => N > 255 /\ N <= 65535
      /\ val[6] # 0 => N > 65535
  <2>1. BytesOf(N, val[6], val[7], val[8])
    BY ONLY <1>2, Places
  <2>2. Place[3] = 65536
    BY DEF Place
  <2> HIDE DEF N
  <2>3. /\ (val[6] = 0 /\ val[7] # 0) => N > 255 /\ N <= 65535
        /\ val[6] # 0 => N > 65535
    BY ONLY <2>1, <2>2 DEF BytesOf
  <2> QED BY <2>1, <2>3 DEF BytesOf
<1> HIDE DEF N
<1>5. /\ Below(val, 1) /\ val[8] <= 23 => Info(val) = val[8] /\ n = 0 /\ ArgLen(N) = 0 /\ N = val[8]
      /\ Below(val, 1) /\ val[8] > 23 => Info(val) = 24 /\ n = 1 /\ ArgLen(N) = 1
      /\ Below(val, 2) /\ ~Below(val, 1) => Info(val) = 25 /\ n = 2 /\ ArgLen(N) = 2
      /\ ~Below(val, 2) => Info(val) = 26 /\ n = 4 /\ ArgLen(N) = 4
  <2>1. CASE Below(val, 1) /\ val[8] <= 23
    <3>1. Info(val) = val[8]
      BY <1>2, <1>4, <2>1 DEF Info
    <3> QED BY <1>2, <1>4, <1>p, <2>1, <3>1 DEF ArgSize, ArgLen
  <2>2. CASE Below(val, 1) /\ val[8] > 23
    <3>1. Info(val) = 24
      BY <1>2, <1>4, <2>2 DEF Info
    <3> QED BY <1>2, <1>4, <1>p, <2>2, <3>1, Sizes DEF ArgSize, ArgLen
  <2>3. CASE Below(val, 2) /\ ~Below(val, 1)
    <3>1. Info(val) = 25
      BY <1>2, <1>4, <2>3 DEF Info
    <3> QED BY <1>2, <1>4, <1>p, <2>3, <3>1, Sizes DEF ArgSize, ArgLen
  <2>4. CASE ~Below(val, 2)
    <3>1. Info(val) = 26
      BY <1>2, <1>4, <2>4 DEF Info
    <3> QED BY <1>2, <1>4, <1>p, <2>4, <3>1, Sizes DEF ArgSize, ArgLen
  <2> QED BY <1>2, <1>4, <2>1, <2>2, <2>3, <2>4
<1> HIDE DEF w, n
<1>7. n \in {0, 1, 2, 4} /\ ArgLen(N) = n
  BY <1>2, <1>4, <1>5
<1>8. \A i \in 1..n : (IF n - i > 3 THEN 0 ELSE (N \div Place[n - i + 1]) % 256) = val[8 - n + i]
  <2> TAKE i \in 1..n
  <2>1. CASE n - i = 0
    BY <1>3, <1>p, <1>7, <2>1
  <2>2. CASE n - i = 1
    BY <1>3, <1>p, <1>7, <2>2
  <2>3. CASE n - i = 2
    BY <1>3, <1>p, <1>7, <2>3
  <2>4. CASE n - i = 3
    BY <1>3, <1>p, <1>7, <2>4
  <2> QED BY <1>7, <2>1, <2>2, <2>3, <2>4
<1> DEFINE be == BigEndian(N, n)
           ini == 32 * major + Info(val)
<1>9. HeadBytes(major, N) = <<ini>> \o be
  <2> DEFINE info == CASE ArgLen(N) = 0 -> N [] ArgLen(N) = 1 -> 24 [] ArgLen(N) = 2 -> 25
                       [] OTHER -> 26
  <2>1. info = Info(val)
    BY <1>2, <1>4, <1>5, <1>7
  <2>2. HeadBytes(major, N) = <<32 * major + info>> \o BigEndian(N, ArgLen(N))
    BY DEF HeadBytes
  <2> HIDE DEF info
  <2> QED BY <1>7, <2>1, <2>2
<1>10. be \in Seq(0..255) /\ Len(be) = n /\ \A i \in 1..n : be[i] = val[8 - n + i]
  <2>1. be = [i \in 1..n |-> val[8 - n + i]]
    BY <1>8 DEF BigEndian
  <2>2. \A i \in 1..n : val[8 - n + i] \in 0..255
    BY <1>7 DEF Arg
  <2> QED BY <1>7, <2>1, <2>2
<1> HIDE DEF be
<1>11. ini \in 0..255
  <2>1. Info(val) \in 0..31 /\ major \in 0..7
    BY InfoFits
  <2> QED BY <2>1, IniByte
<1> HIDE DEF ini
<1>12. <<ini>> \o be \in Seq(0..255) /\ Len(<<ini>> \o be) = 1 + n
  BY <1>7, <1>10, <1>11
<1>13. \A i \in 1..(1 + n) : (<<ini>> \o be)[i] = w[i]
  <2> TAKE i \in 1..(1 + n)
  <2>1. CASE i = 1
    <3>1. (<<ini>> \o be)[1] = ini
      BY <1>7, <1>10, <1>11
    <3> QED BY <1>1, <2>1, <3>1 DEF ini
  <2>2. CASE i # 1
    <3>1. (<<ini>> \o be)[i] = be[i - 1]
      BY <1>7, <1>10, <1>11, <2>2
    <3>2. be[i - 1] = val[8 - n + (i - 1)]
      BY <1>7, <1>10, <2>2
    <3>3. w[i] = val[8 - n + i - 1]
      BY <1>1, <1>7, <2>2
    <3>4. 8 - n + i - 1 = 8 - n + (i - 1)
      BY <1>7
    <3> QED BY <3>1, <3>2, <3>3, <3>4
  <2> QED BY <2>1, <2>2
<1>14. <<ini>> \o be = w
  BY <1>1, <1>12, <1>13, SeqEqual
<1> QED BY <1>9, <1>14 DEF N, w

\* The codec of heads is exact on every sequence of bytes, thus on all 2^64
\* arguments: dec_item takes a head if and only if it is well-formed and
\* complete, cbor_di_write_int writes what was read in no more bytes, that
\* reads back the same, and every proper part of it is truncated.
THEOREM HeadsCorrect ==
  ASSUME probe.s \in Seq(0..255)
  PROVE  HeadsExact
<1> DEFINE s == probe.s
           info == InfoOf(s)
           major == MajorOf(s)
           r == ReadHead(s)
           size == IF info \in 24..27 THEN <<1, 2, 4, 8>>[info - 23] ELSE 0
           wellFormed == info \notin 28..30 /\ (info = 31 => major \in {2, 3, 4, 5, 7})
           written == cbor_di_write_int(major, r.val)
<1> SUFFICES ASSUME s # << >>
             PROVE  /\ r.st = IF ~wellFormed THEN "malformed"
                              ELSE IF Len(s) < 1 + size THEN "truncated" ELSE "ok"
                    /\ (r.st = "ok" /\ major # 7 /\ info # 31) =>
                         /\ r.len = 1 + size
                         /\ Len(written) <= r.len
                         /\ ReadHead(written) = [r EXCEPT !.len = Len(written)]
                         /\ cbor_di_get_type(written[1]) = cbor_di_get_type(s[1])
                         /\ \A n \in 1..(Len(written) - 1) :
                              ReadHead(SubSeq(written, 1, n)).st = "truncated"
                         /\ Below(r.val, 3) =>
                              HeadBytes(major, (r.val[6] * 256 + r.val[7]) * 256 + r.val[8]) = written
  BY DEF HeadsExact
<1>1. s \in Seq(0..255) /\ Len(s) \in Nat \ {0}
  BY EmptySeq
<1>2. s[1] \in 0..255
  <2>1. 1 \in 1..Len(s)
    BY <1>1
  <2> QED BY <1>1, <2>1, ElementOfSeq
<1>3. info \in 0..31 /\ major \in 0..7 /\ s[1] = 32 * major + info
  BY <1>2, ByteParts DEF InfoOf, MajorOf
<1>4. /\ info <= 23 /\ major # 7 => r = ReadOk(Zeros(7) \o <<info>>, 1)
      /\ info <= 23 => r.st = "ok"
      /\ info \in 24..27 => r = ReadArg(s, InfoSize[info])
      /\ info \in 28..30 => r = Malformed
      /\ info = 31 /\ major \in {2, 3, 4, 5, 7} => r = ReadOk(Zeros(8), 1)
      /\ info = 31 /\ major \in {0, 1, 6} => r = Malformed
  BY <1>1, ReadHeadByInfo DEF InfoOf, MajorOf
<1>5. size = IF info \in 24..27 THEN InfoSize[info] ELSE 0
  <2> HIDE DEF info
  <2> QED BY Sizes
<1>6. size \in {0, 1, 2, 4, 8} /\ (info \in 24..27 => size \in {1, 2, 4, 8})
  <2> HIDE DEF info, size
  <2> QED BY <1>5, Sizes
<1> HIDE DEF s, info, major, r, size
<1>7. r.st = IF ~wellFormed THEN "malformed" ELSE IF Len(s) < 1 + size THEN "truncated" ELSE "ok"
  <2>1. CASE info <= 23
    BY <1>1, <1>3, <1>4, <1>5, <2>1
  <2>2. CASE info \in 24..27
    <3>1. r = ReadArg(s, size)
      BY <1>4, <1>5, <2>2
    <3>2. CASE Len(s) < 1 + size
      BY <1>1, <1>6, <2>2, <3>1, <3>2 DEF ReadArg, Truncated
    <3>3. CASE ~(Len(s) < 1 + size)
      BY <1>1, <1>6, <2>2, <3>1, <3>3 DEF ReadArg, ReadOk
    <3> QED BY <3>2, <3>3
  <2>3. CASE info \in 28..30
    BY <1>4, <2>3 DEF Malformed
  <2>4. CASE info = 31 /\ major \in {2, 3, 4, 5, 7}
    BY <1>1, <1>4, <1>5, <2>4 DEF ReadOk
  <2>5. CASE info = 31 /\ major \in {0, 1, 6}
    BY <1>4, <2>5 DEF Malformed
  <2> QED BY <1>3, <2>1, <2>2, <2>3, <2>4, <2>5
<1>8. ASSUME r.st = "ok", major # 7, info # 31
      PROVE  /\ r.len = 1 + size
             /\ Len(written) <= r.len
             /\ ReadHead(written) = [r EXCEPT !.len = Len(written)]
             /\ cbor_di_get_type(written[1]) = cbor_di_get_type(s[1])
             /\ \A n \in 1..(Len(written) - 1) : ReadHead(SubSeq(written, 1, n)).st = "truncated"
             /\ Below(r.val, 3) =>
                  HeadBytes(major, (r.val[6] * 256 + r.val[7]) * 256 + r.val[8]) = written
  <2>1. major \in 0..6
    BY <1>3, <1>8
  <2>2. \E val \in Arg : /\ r = ReadOk(val, 1 + size)
                         /\ ArgSize(Info(val)) <= size
    <3>1. CASE info <= 23
      <4> DEFINE t == <<info>>
                 val == Zeros(7) \o t
      <4>1. t \in Seq(0..255) /\ Len(t) = 1 /\ t[1] = info
        BY <1>3
      <4>2. /\ val \in Arg /\ Below(val, 1)
            /\ \A i \in 1..8 : val[i] = IF i <= 7 THEN 0 ELSE t[i - 7]
        <5> HIDE DEF t
        <5>1. 1 \in 0..8 /\ 7 = 8 - 1
          OBVIOUS
        <5> QED BY <4>1, <5>1, Padded
      <4>3. r = ReadOk(val, 1) /\ size = 0
        BY <1>3, <1>4, <1>5, <1>8, <3>1
      <4> HIDE DEF t, val
      <4>4. val[8] = info
        BY <4>1, <4>2
      <4>5. Info(val) \in 0..23
        <5>1. val[8] <= 23
          BY <1>3, <3>1, <4>4
        <5>2. Info(val) \in 0..27 /\ Info(val) <= 23
          BY <4>2, <5>1, InfoFits
        <5> QED BY <5>2
      <4>6. ArgSize(Info(val)) = 0
        <5> DEFINE k == Info(val)
        <5>0. k \in 0..23
          BY <4>5
        <5> HIDE DEF k
        <5>1. k \notin 24..27
          BY ONLY <5>0
        <5> QED BY <5>1 DEF ArgSize, k
      <4> QED BY <4>2, <4>3, <4>6
    <3>2. CASE info \in 24..27
      <4>1. r = ReadArg(s, size) /\ size \in {1, 2, 4, 8}
        BY <1>4, <1>5, <1>6, <3>2
      <4>2. size + 1 <= Len(s)
        BY <1>1, <1>7, <1>8, <3>2, <4>1
      <4>3. PICK val \in Arg : ReadArg(s, size) = ReadOk(val, size + 1) /\ Below(val, size)
        BY <1>1, <4>1, <4>2, ReadArgOk
      <4>4. ArgSize(Info(val)) <= size
        BY <4>1, <4>3, InfoFits
      <4> QED BY <4>1, <4>3, <4>4
    <3>3. info \notin 28..30
      BY <1>4, <1>8 DEF Malformed
    <3> QED BY <1>3, <1>8, <3>1, <3>2, <3>3
  <2>3. PICK val \in Arg : /\ r = ReadOk(val, 1 + size)
                           /\ ArgSize(Info(val)) <= size
    BY <2>2
  <2>4. r.val = val /\ r.len = 1 + size
    BY <2>3 DEF ReadOk
  <2> DEFINE w == cbor_di_write_int(major, val)
  <2>5. w \in Seq(0..255) /\ Len(w) = 1 + ArgSize(Info(val)) /\ w[1] = 32 * major + Info(val)
    BY <2>1, Written
  <2>6. /\ ReadHead(w) = ReadOk(val, Len(w))
        /\ \A j \in 1..(Len(w) - 1) : ReadHead(SubSeq(w, 1, j)) = Truncated
    BY <2>1, ReadWritten
  <2>7. Below(val, 3) => HeadBytes(major, (val[6] * 256 + val[7]) * 256 + val[8]) = w
    BY <2>1, HeadBytesWritten
  <2>8. Info(val) \in 0..27
    BY InfoFits
  <2> HIDE DEF w
  <2>9. written = w
    BY <2>4 DEF w
  <2> HIDE DEF written
  <2>10. Len(w) <= r.len
    BY <1>6, <2>3, <2>4, <2>5, <2>8, Sizes DEF ArgSize
  <2>11. ReadOk(val, Len(w)) = [r EXCEPT !.len = Len(w)]
    BY <2>3 DEF ReadOk
  <2>12. cbor_di_get_type(w[1]) = cbor_di_get_type(s[1])
    <3>1. major \in 0..7 /\ Info(val) \in 0..31
      BY <2>1, <2>8
    <3>2. w[1] \div 32 = major /\ w[1] \in 0..255
      <4> DEFINE ini == 32 * major + Info(val)
      <4>1. ini \div 32 = major /\ ini \in 0..255
        BY <3>1, IniByte
      <4>2. w[1] = ini
        BY <2>5
      <4> HIDE DEF ini
      <4> QED BY <4>1, <4>2
    <3>3. s[1] \div 32 = major
      BY DEF major, MajorOf, s
    <3>4. cbor_di_get_type(w[1]) = ByMajor[major + 1]
      BY <1>8, <3>2, TypeOfMajor
    <3>5. cbor_di_get_type(s[1]) = ByMajor[major + 1]
      BY <1>2, <1>8, <3>3, TypeOfMajor
    <3> QED BY <3>4, <3>5
  <2>13. \A n \in 1..(Len(w) - 1) : ReadHead(SubSeq(w, 1, n)).st = "truncated"
    BY <2>6 DEF Truncated
  <2> QED BY <2>4, <2>6, <2>7, <2>9, <2>10, <2>11, <2>12, <2>13
<1> QED BY <1>7, <1>8

-----------------------------------------------------------------------------
(* Functions that are defined by recursion.                                 *)

\* Of numbers that exist, one is the least, in any order that has < ...
LEMMA MinimalNat ==
  ASSUME NEW R, IsWellFoundedOn(R, Nat), \A x, y \in Nat : y < x => <<y, x>> \in R,
         NEW T \in SUBSET Nat, T # {}
  PROVE  \E x \in T : \A y \in T : x <= y
<1>1. PICK x \in T : \A y \in T : ~(<<y, x>> \in R)
  BY WFMin
<1>2. \A y \in T : ~(y < x)
  BY <1>1
<1> QED BY <1>2

\* ... so that a property that fails has a least number that it fails of.
LEMMA LeastNat ==
  ASSUME NEW T \in SUBSET Nat, T # {}
  PROVE  \E x \in T : \A y \in T : x <= y
<1>1. \E R : IsWellFoundedOn(R, Nat) /\ \A x, y \in Nat : y < x => <<y, x>> \in R
  <2>1. \A x, y \in Nat : y < x => <<y, x>> \in OpToRel(<, Nat)
    BY DEF OpToRel
  <2> QED BY Zenon, <2>1, NatLessThanWellFounded
<1>2. PICK R : IsWellFoundedOn(R, Nat) /\ \A x, y \in Nat : y < x => <<y, x>> \in R
  BY <1>1
<1> QED BY <1>2, MinimalNat

\* The rules by which each value of a function is computed from those of
\* smaller arguments: functions of the function itself.
Rules(N, S) ==
  { rule \in [[0..N -> S] -> [0..N -> S]] :
      \A f, g \in [0..N -> S], n \in 0..N :
        (\A i \in 0..(n - 1) : f[i] = g[i]) => rule[f][n] = rule[g][n] }

\* There is a function that follows the rule: the definition by recursion
\* defines one.
LEMMA RecursionExists ==
  ASSUME NEW N \in Nat, NEW S, S # {}, NEW rule \in Rules(N, S)
  PROVE  \E f \in [0..N -> S] : f = rule[f]
<1> DEFINE Upto(m) == \E f \in [0..N -> S] : \A n \in 0..N : n < m => f[n] = rule[f][n]
           Bad == {m \in Nat : ~Upto(m)}
<1>0. /\ rule \in [[0..N -> S] -> [0..N -> S]]
      /\ \A f, g \in [0..N -> S], n \in 0..N :
           (\A i \in 0..(n - 1) : f[i] = g[i]) => rule[f][n] = rule[g][n]
  BY DEF Rules
<1>1. Upto(0)
  <2>1. PICK x \in S : TRUE
    OBVIOUS
  <2> DEFINE f == [n \in 0..N |-> x]
  <2>2. f \in [0..N -> S]
    BY <2>1
  <2>3. \A n \in 0..N : ~(n < 0)
    OBVIOUS
  <2> HIDE DEF f
  <2> QED BY <2>2, <2>3
<1>2. ASSUME NEW m \in Nat, Upto(m)
      PROVE  Upto(m + 1)
  <2>1. PICK f \in [0..N -> S] : \A n \in 0..N : n < m => f[n] = rule[f][n]
    BY <1>2
  <2>2. CASE m > N
    BY <2>1, <2>2
  <2>3. CASE m \in 0..N
    <3> DEFINE g == [f EXCEPT ![m] = rule[f][m]]
    <3>1. rule[f][m] \in S
      BY <1>0, <2>3
    <3>2. g \in [0..N -> S]
      BY <3>1
    <3>3. \A i \in 0..N : i < m => g[i] = f[i]
      OBVIOUS
    <3>4. ASSUME NEW n \in 0..N, n <= m
          PROVE  rule[g][n] = rule[f][n]
      <4>1. \A i \in 0..(n - 1) : g[i] = f[i]
        BY <2>3, <3>3, <3>4
      <4> QED BY <1>0, <3>2, <4>1
    <3>5. g[m] = rule[f][m]
      BY <2>3
    <3> HIDE DEF g
    <3>6. ASSUME NEW n \in 0..N, n < m + 1
          PROVE  g[n] = rule[g][n]
      <4>1. rule[g][n] = rule[f][n]
        <5>1. n <= m
          BY <3>6
        <5> QED BY <3>4, <5>1
      <4>2. CASE n = m
        BY <3>5, <4>1, <4>2
      <4>3. CASE n < m
        BY <2>1, <3>3, <4>1, <4>3
      <4> QED BY <3>6, <4>2, <4>3
    <3> QED BY <3>2, <3>6
  <2>4. m > N \/ m \in 0..N
    OBVIOUS
  <2> HIDE DEF Upto
  <2> QED BY <2>2, <2>3, <2>4
<1> HIDE DEF Upto
<1>3. Bad = {}
  <2> SUFFICES ASSUME Bad # {}
               PROVE  FALSE
    OBVIOUS
  <2>1. PICK m \in Bad : \A k \in Bad : m <= k
    BY LeastNat
  <2>2. m # 0
    BY <1>1
  <2>3. m - 1 \in Nat /\ m - 1 \notin Bad
    BY <2>1, <2>2
  <2>4. Upto(m)
    BY <1>2, <2>3
  <2> QED BY <2>4
<1>4. Upto(N + 1)
  BY <1>3
<1>5. PICK f \in [0..N -> S] : \A n \in 0..N : f[n] = rule[f][n]
  BY <1>4 DEF Upto
<1>6. rule[f] \in [0..N -> S]
  BY <1>0
<1> QED BY <1>5, <1>6
-----------------------------------------------------------------------------
(* UTF-8.                                                                   *)

States == {0, 12, 24, 36, 48, 60, 72, 84, 96}

LEMMA TransitionType ==
  ASSUME NEW state, NEW type
  PROVE  Transition(state, type) \in States
  BY DEF Transition, REJECT, States

\* The states of cbor_is_utf8 after each byte.
LEMMA StatesExist ==
  ASSUME NEW str \in Seq(0..255)
  PROVE  \E st \in [0..Len(str) -> States] :
           /\ st[0] = ACCEPT
           /\ \A i \in 1..Len(str) : st[i] = Transition(st[i - 1], Type(str[i]))
           /\ cbor_is_utf8(str) <=> st[Len(str)] = ACCEPT
<1> DEFINE N == Len(str)
           rule == [f \in [0..N -> States] |->
                     [n \in 0..N |-> IF n = 0 THEN ACCEPT ELSE Transition(f[n - 1], Type(str[n]))]]
           state[i \in 0..Len(str)] ==
             IF i = 0 THEN ACCEPT ELSE Transition(state[i - 1], Type(str[i]))
<1>1. N \in Nat /\ ACCEPT \in States
  BY DEF ACCEPT, States
<1>2. \A f \in [0..N -> States], n \in 0..N :
        rule[f][n] = IF n = 0 THEN ACCEPT ELSE Transition(f[n - 1], Type(str[n]))
  OBVIOUS
<1>3. rule \in [[0..N -> States] -> [0..N -> States]]
  BY <1>1, TransitionType
<1>4. ASSUME NEW f \in [0..N -> States], NEW g \in [0..N -> States], NEW n \in 0..N,
             \A i \in 0..(n - 1) : f[i] = g[i]
      PROVE  rule[f][n] = rule[g][n]
  <2> HIDE DEF rule
  <2>1. n # 0 => f[n - 1] = g[n - 1]
    BY <1>4
  <2> QED BY <1>2, <2>1
<1> HIDE DEF rule
<1>5. PICK f \in [0..N -> States] : f = rule[f]
  <2>1. States # {}
    BY <1>1
  <2>2. rule \in Rules(N, States)
    BY <1>3, <1>4 DEF Rules
  <2>3. N \in Nat
    BY <1>1
  <2> HIDE DEF N, state
  <2> QED BY <2>1, <2>2, <2>3, RecursionExists
<1>6. f = [i \in 0..Len(str) |-> IF i = 0 THEN ACCEPT ELSE Transition(f[i - 1], Type(str[i]))]
  BY <1>5 DEF rule
<1>7. state = [i \in 0..Len(str) |-> IF i = 0 THEN ACCEPT ELSE Transition(state[i - 1], Type(str[i]))]
  BY <1>6
<1> HIDE DEF state
<1>8. cbor_is_utf8(str) <=> state[Len(str)] = ACCEPT
  BY DEF cbor_is_utf8, state
<1>9. \A i \in 0..N : state[i] \in States
  BY <1>1, <1>7, TransitionType
<1>10. state \in [0..N -> States]
  BY <1>7, <1>9
<1>11. state[0] = ACCEPT /\ \A i \in 1..N : state[i] = Transition(state[i - 1], Type(str[i]))
  BY <1>1, <1>7
<1> QED BY <1>8, <1>10, <1>11
Cont == 128..191

\* The class of a byte, by ranges
LEMMA Types ==
  ASSUME NEW b \in 0..255
  PROVE  /\ b \in 0..127 => Type(b) = 0
         /\ b \in 128..143 => Type(b) = 1
         /\ b \in 144..159 => Type(b) = 9
         /\ b \in 160..191 => Type(b) = 7
         /\ b \in 192..193 => Type(b) = 8
         /\ b \in 194..223 => Type(b) = 2
         /\ b = 224 => Type(b) = 10
         /\ b \in 225..236 => Type(b) = 3
         /\ b = 237 => Type(b) = 4
         /\ b \in 238..239 => Type(b) = 3
         /\ b = 240 => Type(b) = 11
         /\ b \in 241..243 => Type(b) = 6
         /\ b = 244 => Type(b) = 5
         /\ b \in 245..255 => Type(b) = 8
<1>1. ASSUME b \in 0..127
       PROVE  Type(b) = 0
  BY <1>1 DEF Type
<1>2. ASSUME b \in 128..143
       PROVE  Type(b) = 1
  BY <1>2 DEF Type
<1>3. ASSUME b \in 144..159
       PROVE  Type(b) = 9
  BY <1>3 DEF Type
<1>4. ASSUME b \in 160..191
       PROVE  Type(b) = 7
  BY <1>4 DEF Type
<1>5. ASSUME b \in 192..193
       PROVE  Type(b) = 8
  BY <1>5 DEF Type
<1>6. ASSUME b \in 194..223
       PROVE  Type(b) = 2
  BY <1>6 DEF Type
<1>7. ASSUME b = 224
       PROVE  Type(b) = 10
  BY <1>7 DEF Type
<1>8. ASSUME b \in 225..236
       PROVE  Type(b) = 3
  BY <1>8 DEF Type
<1>9. ASSUME b = 237
       PROVE  Type(b) = 4
  BY <1>9 DEF Type
<1>10. ASSUME b \in 238..239
       PROVE  Type(b) = 3
  BY <1>10 DEF Type
<1>11. ASSUME b = 240
       PROVE  Type(b) = 11
  BY <1>11 DEF Type
<1>12. ASSUME b \in 241..243
       PROVE  Type(b) = 6
  BY <1>12 DEF Type
<1>13. ASSUME b = 244
       PROVE  Type(b) = 5
  BY <1>13 DEF Type
<1>14. ASSUME b \in 245..255
       PROVE  Type(b) = 8
  BY <1>14 DEF Type
<1> QED BY <1>1, <1>2, <1>3, <1>4, <1>5, <1>6, <1>7, <1>8, <1>9, <1>10, <1>11, <1>12, <1>13, <1>14

\* The table, by rows
LEMMA Transitions ==
  ASSUME NEW t \in 0..11
  PROVE  /\ t = 0 => Transition(0, t) = 0
         /\ t = 2 => Transition(0, t) = 24
         /\ t = 3 => Transition(0, t) = 36
         /\ t = 4 => Transition(0, t) = 60
         /\ t = 5 => Transition(0, t) = 96
         /\ t = 6 => Transition(0, t) = 84
         /\ t = 10 => Transition(0, t) = 48
         /\ t = 11 => Transition(0, t) = 72
         /\ t \in {1, 7, 8, 9} => Transition(0, t) = 12
         /\ Transition(12, t) = 12
         /\ Transition(24, t) = IF t \in {1, 7, 9} THEN 0 ELSE 12
         /\ Transition(36, t) = IF t \in {1, 7, 9} THEN 24 ELSE 12
         /\ Transition(48, t) = IF t = 7 THEN 24 ELSE 12
         /\ Transition(60, t) = IF t \in {1, 9} THEN 24 ELSE 12
         /\ Transition(72, t) = IF t \in {7, 9} THEN 36 ELSE 12
         /\ Transition(84, t) = IF t \in {1, 7, 9} THEN 36 ELSE 12
         /\ Transition(96, t) = IF t = 1 THEN 36 ELSE 12
  BY DEF Transition, REJECT

\* Where the first byte of a character leads, by its ranges ...
LEMMA LeadStates ==
  ASSUME NEW b \in 0..255
  PROVE  LET q == Transition(0, Type(b))
         IN  /\ q = 0 <=> b \in 0..127
             /\ q = 24 <=> b \in 194..223
             /\ q = 36 <=> b \in 225..236 \/ b \in 238..239
             /\ q = 48 <=> b = 224
             /\ q = 60 <=> b = 237
             /\ q = 72 <=> b = 240
             /\ q = 84 <=> b \in 241..243
             /\ q = 96 <=> b = 244
<1>1. Type(b) \in 0..11
  BY Types
<1> QED BY <1>1, Types, Transitions

\* ... and each further one.
LEMMA ContStates ==
  ASSUME NEW b \in 0..255
  PROVE  LET q(p) == Transition(p, Type(b))
         IN  /\ q(12) = 12
             /\ q(24) = IF b \in Cont THEN 0 ELSE 12
             /\ q(36) = IF b \in Cont THEN 24 ELSE 12
             /\ q(48) = IF b \in 160..191 THEN 24 ELSE 12
             /\ q(60) = IF b \in 128..159 THEN 24 ELSE 12
             /\ q(72) = IF b \in 144..191 THEN 36 ELSE 12
             /\ q(84) = IF b \in Cont THEN 36 ELSE 12
             /\ q(96) = IF b \in 128..143 THEN 36 ELSE 12
<1>1. Type(b) \in 0..11
  BY Types
<1> QED BY <1>1, Types, Transitions DEF Cont

\* Remainders of bytes in the ranges of lead and continuation bytes
LEMMA Remainders ==
  ASSUME NEW b \in 0..255
  PROVE  /\ b \in Cont => b % 64 = b - 128
         /\ b \in 192..223 => b % 32 = b - 192
         /\ b \in 224..239 => b % 16 = b - 224
         /\ b \in 240..247 => b % 8 = b - 240
         /\ b % 64 \in 0..63
  BY DEF Cont

\* PointOf, by lengths
LEMMA PointByLength ==
  ASSUME NEW s
  PROVE  /\ Len(s) = 1 => PointOf(s) = s[1]
         /\ Len(s) = 2 => PointOf(s) = (s[1] % 32) * 64 + (s[2] % 64)
         /\ Len(s) = 3 => PointOf(s) = (s[1] % 16) * 4096 + (s[2] % 64) * 64 + (s[3] % 64)
         /\ Len(s) = 4 =>
              PointOf(s) = (s[1] % 8) * 262144 + (s[2] % 64) * 4096 + (s[3] % 64) * 64 + (s[4] % 64)
<1>1. ASSUME Len(s) = 1
      PROVE  PointOf(s) = s[1]
  BY <1>1 DEF PointOf
<1>2. ASSUME Len(s) = 2
      PROVE  PointOf(s) = (s[1] % 32) * 64 + (s[2] % 64)
  BY <1>2 DEF PointOf
<1>3. ASSUME Len(s) = 3
      PROVE  PointOf(s) = (s[1] % 16) * 4096 + (s[2] % 64) * 64 + (s[3] % 64)
  BY <1>3 DEF PointOf
<1>4. ASSUME Len(s) = 4
      PROVE  PointOf(s) = (s[1] % 8) * 262144 + (s[2] % 64) * 4096 + (s[3] % 64) * 64 + (s[4] % 64)
  BY <1>4 DEF PointOf
<1> QED BY <1>1, <1>2, <1>3, <1>4

\* The code points of sequences of one to four bytes
LEMMA CodePoint1 ==
  ASSUME NEW s, NEW b1, b1 \in 0..255,
         Len(s) = 1, s[1] = b1
  PROVE  CodePoint(s) = IF b1 \in 0..127 THEN b1 ELSE -1
<1>1. LeadBytes[1] = 0..127 /\ LeastPoint[1] = 0
  BY DEF LeadBytes, LeastPoint
<1>2. PointOf(s) = b1
  BY PointByLength
<1>3. \A c \in Int : PointOf(s) = c =>
        CodePoint(s) = IF /\ s[1] \in LeadBytes[1]
                          /\ c >= LeastPoint[1] /\ c <= 1114111 /\ c \notin 55296..57343
                       THEN c ELSE -1
  BY DEF CodePoint
<1>4. \A c \in Int : PointOf(s) = c =>
        CodePoint(s) = IF /\ b1 \in 0..127
                          /\ c >= 0 /\ c <= 1114111 /\ c \notin 55296..57343
                       THEN c ELSE -1
  BY <1>1, <1>3 DEF Cont
<1> QED BY <1>2, <1>4

LEMMA CodePoint2 ==
  ASSUME NEW s, NEW b1, NEW b2, b1 \in 0..255, b2 \in 0..255,
         Len(s) = 2, s[1] = b1, s[2] = b2
  PROVE  CodePoint(s) =
           IF b1 \in 194..223 /\ b2 \in Cont THEN (b1 - 192) * 64 + (b2 - 128) ELSE -1
<1>1. LeadBytes[2] = 192..223 /\ LeastPoint[2] = 128
  BY DEF LeadBytes, LeastPoint
<1>2. PointOf(s) = (b1 % 32) * 64 + (b2 % 64)
  BY PointByLength
<1>3. \A c \in Int : PointOf(s) = c =>
        CodePoint(s) = IF /\ s[1] \in LeadBytes[2] /\ s[2] \in 128..191
                          /\ c >= LeastPoint[2] /\ c <= 1114111 /\ c \notin 55296..57343
                       THEN c ELSE -1
  BY DEF CodePoint
<1>4. \A c \in Int : PointOf(s) = c =>
        CodePoint(s) = IF /\ b1 \in 192..223 /\ b2 \in Cont
                          /\ c >= 128 /\ c <= 1114111 /\ c \notin 55296..57343
                       THEN c ELSE -1
  BY <1>1, <1>3 DEF Cont
<1>5. CASE b1 \in 192..223 /\ b2 \in Cont
  <2>1. PointOf(s) = (b1 - 192) * 64 + (b2 - 128)
    BY <1>2, <1>5, Remainders
  <2> QED BY <1>5, <1>4, <2>1 DEF Cont
<1>6. CASE ~(b1 \in 192..223 /\ b2 \in Cont)
  BY <1>2, <1>6, <1>4, Remainders DEF Cont
<1> QED BY <1>5, <1>6

LEMMA CodePoint3 ==
  ASSUME NEW s, NEW b1, NEW b2, NEW b3, b1 \in 0..255, b2 \in 0..255, b3 \in 0..255,
         Len(s) = 3, s[1] = b1, s[2] = b2, s[3] = b3
  PROVE  CodePoint(s) =
           IF /\ b1 \in 224..239 /\ b2 \in Cont /\ b3 \in Cont
              /\ b1 = 224 => b2 \in 160..191
              /\ b1 = 237 => b2 \in 128..159
           THEN (b1 - 224) * 4096 + (b2 - 128) * 64 + (b3 - 128) ELSE -1
<1>1. LeadBytes[3] = 224..239 /\ LeastPoint[3] = 2048
  BY DEF LeadBytes, LeastPoint
<1>2. PointOf(s) = (b1 % 16) * 4096 + (b2 % 64) * 64 + (b3 % 64)
  BY PointByLength
<1>3. \A c \in Int : PointOf(s) = c =>
        CodePoint(s) = IF /\ s[1] \in LeadBytes[3] /\ s[2] \in 128..191 /\ s[3] \in 128..191
                          /\ c >= LeastPoint[3] /\ c <= 1114111 /\ c \notin 55296..57343
                       THEN c ELSE -1
  BY DEF CodePoint
<1>4. \A c \in Int : PointOf(s) = c =>
        CodePoint(s) = IF /\ b1 \in 224..239 /\ b2 \in Cont /\ b3 \in Cont
                          /\ c >= 2048 /\ c <= 1114111 /\ c \notin 55296..57343
                       THEN c ELSE -1
  BY <1>1, <1>3 DEF Cont
<1>5. CASE b1 \in 224..239 /\ b2 \in Cont /\ b3 \in Cont
  <2>1. PointOf(s) = (b1 - 224) * 4096 + (b2 - 128) * 64 + (b3 - 128)
    BY <1>2, <1>5, Remainders
  <2> QED BY <1>5, <1>4, <2>1 DEF Cont
<1>6. CASE ~(b1 \in 224..239 /\ b2 \in Cont /\ b3 \in Cont)
  BY <1>2, <1>6, <1>4, Remainders DEF Cont
<1> QED BY <1>5, <1>6

LEMMA CodePoint4 ==
  ASSUME NEW s, NEW b1, NEW b2, NEW b3, NEW b4, b1 \in 0..255, b2 \in 0..255, b3 \in 0..255, b4 \in 0..255,
         Len(s) = 4, s[1] = b1, s[2] = b2, s[3] = b3, s[4] = b4
  PROVE  CodePoint(s) =
           IF /\ b1 \in 240..244 /\ b2 \in Cont /\ b3 \in Cont /\ b4 \in Cont
              /\ b1 = 240 => b2 \in 144..191
              /\ b1 = 244 => b2 \in 128..143
           THEN (b1 - 240) * 262144 + (b2 - 128) * 4096 + (b3 - 128) * 64 + (b4 - 128) ELSE -1
<1>1. LeadBytes[4] = 240..247 /\ LeastPoint[4] = 65536
  BY DEF LeadBytes, LeastPoint
<1>2. PointOf(s) = (b1 % 8) * 262144 + (b2 % 64) * 4096 + (b3 % 64) * 64 + (b4 % 64)
  BY PointByLength
<1>3. \A c \in Int : PointOf(s) = c =>
        CodePoint(s) = IF /\ s[1] \in LeadBytes[4] /\ s[2] \in 128..191 /\ s[3] \in 128..191 /\ s[4] \in 128..191
                          /\ c >= LeastPoint[4] /\ c <= 1114111 /\ c \notin 55296..57343
                       THEN c ELSE -1
  BY DEF CodePoint
<1>4. \A c \in Int : PointOf(s) = c =>
        CodePoint(s) = IF /\ b1 \in 240..247 /\ b2 \in Cont /\ b3 \in Cont /\ b4 \in Cont
                          /\ c >= 65536 /\ c <= 1114111 /\ c \notin 55296..57343
                       THEN c ELSE -1
  BY <1>1, <1>3 DEF Cont
<1>5. CASE b1 \in 240..247 /\ b2 \in Cont /\ b3 \in Cont /\ b4 \in Cont
  <2>1. PointOf(s) = (b1 - 240) * 262144 + (b2 - 128) * 4096 + (b3 - 128) * 64 + (b4 - 128)
    BY <1>2, <1>5, Remainders
  <2> QED BY <1>5, <1>4, <2>1 DEF Cont
<1>6. CASE ~(b1 \in 240..247 /\ b2 \in Cont /\ b3 \in Cont /\ b4 \in Cont)
  BY <1>2, <1>6, <1>4, Remainders DEF Cont
<1> QED BY <1>5, <1>6

\* q are the states of the automaton from place i on.
Walks(q, str, i) ==
  /\ q[i - 1] = 0
  /\ \A j \in i..Len(str) : q[j] = Transition(q[j - 1], Type(str[j]))

\* How many bytes there can be before a state since the last character
LEMMA TransitionFrom ==
  ASSUME NEW p, NEW t
  PROVE  /\ Transition(p, t) = 0 => p \in {0, 24}
         /\ Transition(p, t) = 24 => p \in {0, 36, 48, 60}
         /\ Transition(p, t) = 36 => p \in {0, 72, 84, 96}
         /\ Transition(p, t) \in {48, 60, 72, 84, 96} => p = 0
<1>1. ASSUME Transition(p, t) = 0, p \notin {0, 24}
      PROVE  FALSE
  BY <1>1 DEF Transition, REJECT
<1>2. ASSUME Transition(p, t) = 24, p \notin {0, 36, 48, 60}
      PROVE  FALSE
  BY <1>2 DEF Transition, REJECT
<1>3. ASSUME Transition(p, t) = 36, p \notin {0, 72, 84, 96}
      PROVE  FALSE
  BY <1>3 DEF Transition, REJECT
<1>4. ASSUME Transition(p, t) \in {48, 60, 72, 84, 96}, p # 0
      PROVE  FALSE
  BY <1>4 DEF Transition, REJECT
<1> QED BY <1>1, <1>2, <1>3, <1>4

\* A character that ends has begun at most four bytes before.
LEMMA WalkBack ==
  ASSUME NEW str \in Seq(0..255), NEW i \in 1..Len(str), NEW n \in i..Len(str), NEW q,
         Walks(q, str, i), q[n] = 0
  PROVE  \E k \in 1..4 : n - k >= i - 1 /\ q[n - k] = 0 /\ \A j \in (n - k + 1)..(n - 1) : q[j] # 0
<1>1. /\ q[i - 1] = 0
      /\ \A j \in i..n : /\ q[j] = 0 => q[j - 1] \in {0, 24}
                         /\ q[j] = 24 => q[j - 1] \in {0, 36, 48, 60}
                         /\ q[j] = 36 => q[j - 1] \in {0, 72, 84, 96}
                         /\ q[j] \in {48, 60, 72, 84, 96} => q[j - 1] = 0
  <2>1. \A j \in i..n : q[j] = Transition(q[j - 1], Type(str[j]))
    BY DEF Walks
  <2>2. q[i - 1] = 0
    BY DEF Walks
  <2> QED BY <2>1, <2>2, TransitionFrom
<1>2. CASE q[n - 1] = 0
  <2>1. \A j \in n..(n - 1) : q[j] # 0
    OBVIOUS
  <2> QED BY <1>2, <2>1
<1>3. CASE q[n - 1] # 0
  <2>1. q[n - 1] = 24 /\ n - 1 >= i
    BY <1>1, <1>3
  <2>2. q[n - 2] \in {0, 36, 48, 60}
    BY <1>1, <2>1
  <2>3. CASE q[n - 2] = 0
    <3>1. \A j \in (n - 1)..(n - 1) : q[j] # 0
      BY <2>1
    <3> QED BY <2>1, <2>3, <3>1
  <2>4. CASE q[n - 2] # 0
    <3>1. n - 2 >= i
      BY <1>1, <2>1, <2>4
    <3>2. q[n - 3] = 0 \/ (q[n - 2] = 36 /\ q[n - 3] \in {72, 84, 96})
      BY <1>1, <2>2, <2>4, <3>1
    <3>3. CASE q[n - 3] = 0
      <4>1. \A j \in (n - 2)..(n - 1) : q[j] # 0
        BY <2>1, <2>4
      <4> QED BY <3>1, <3>3, <4>1
    <3>4. CASE q[n - 3] \in {72, 84, 96}
      <4>1. n - 3 >= i
        BY <1>1, <3>1, <3>4
      <4>2. q[n - 4] = 0
        BY <1>1, <3>4, <4>1
      <4>3. \A j \in (n - 3)..(n - 1) : q[j] # 0
        BY <2>1, <2>4, <3>4
      <4> QED BY <4>1, <4>2, <4>3
    <3> QED BY <3>2, <3>3, <3>4
  <2> QED BY <2>3, <2>4
<1> QED BY <1>2, <1>3

\* The states on the way over one to four bytes
LEMMA Walk1 ==
  ASSUME NEW c, NEW b1, b1 \in 0..255,
         Len(c) = 1, c[1] = b1,
         NEW q1, q1 = Transition(0, Type(b1))
  PROVE  CodePoint(c) # -1 <=> q1 = 0
<1>1. q1 = 0 <=> b1 \in 0..127
  BY LeadStates
<1>2. CodePoint(c) # -1 <=> b1 \in 0..127
  BY CodePoint1
<1> QED BY <1>1, <1>2

LEMMA Walk2 ==
  ASSUME NEW c, NEW b1, NEW b2, b1 \in 0..255, b2 \in 0..255,
         Len(c) = 2, c[1] = b1, c[2] = b2,
         NEW q1, q1 = Transition(0, Type(b1)),
         NEW q2, q2 = Transition(q1, Type(b2))
  PROVE  CodePoint(c) # -1 <=> q1 # 0 /\ q2 = 0
<1>1. /\ q1 = 0 <=> b1 \in 0..127
      /\ q1 = 24 <=> b1 \in 194..223
      /\ q1 = 36 <=> b1 \in 225..236 \/ b1 \in 238..239
      /\ q1 = 48 <=> b1 = 224
      /\ q1 = 60 <=> b1 = 237
      /\ q1 = 72 <=> b1 = 240
      /\ q1 = 84 <=> b1 \in 241..243
      /\ q1 = 96 <=> b1 = 244
      /\ q1 \in States
  BY LeadStates, TransitionType
<1>2. /\ q1 = 12 => q2 = 12
      /\ q1 = 24 => q2 = IF b2 \in Cont THEN 0 ELSE 12
      /\ q1 = 36 => q2 = IF b2 \in Cont THEN 24 ELSE 12
      /\ q1 = 48 => q2 = IF b2 \in 160..191 THEN 24 ELSE 12
      /\ q1 = 60 => q2 = IF b2 \in 128..159 THEN 24 ELSE 12
      /\ q1 = 72 => q2 = IF b2 \in 144..191 THEN 36 ELSE 12
      /\ q1 = 84 => q2 = IF b2 \in Cont THEN 36 ELSE 12
      /\ q1 = 96 => q2 = IF b2 \in 128..143 THEN 36 ELSE 12
      /\ q2 \in States
  BY ContStates, TransitionType
<1>3. CodePoint(c) # -1 <=>
        b1 \in 194..223 /\ b2 \in Cont
  BY CodePoint2 DEF Cont
<1> QED BY <1>1, <1>2, <1>3 DEF Cont, States

LEMMA Walk3 ==
  ASSUME NEW c, NEW b1, NEW b2, NEW b3, b1 \in 0..255, b2 \in 0..255, b3 \in 0..255,
         Len(c) = 3, c[1] = b1, c[2] = b2, c[3] = b3,
         NEW q1, q1 = Transition(0, Type(b1)),
         NEW q2, q2 = Transition(q1, Type(b2)),
         NEW q3, q3 = Transition(q2, Type(b3))
  PROVE  CodePoint(c) # -1 <=> q1 # 0 /\ q2 # 0 /\ q3 = 0
<1>1. /\ q1 = 0 <=> b1 \in 0..127
      /\ q1 = 24 <=> b1 \in 194..223
      /\ q1 = 36 <=> b1 \in 225..236 \/ b1 \in 238..239
      /\ q1 = 48 <=> b1 = 224
      /\ q1 = 60 <=> b1 = 237
      /\ q1 = 72 <=> b1 = 240
      /\ q1 = 84 <=> b1 \in 241..243
      /\ q1 = 96 <=> b1 = 244
      /\ q1 \in States
  BY LeadStates, TransitionType
<1>2. /\ q1 = 12 => q2 = 12
      /\ q1 = 24 => q2 = IF b2 \in Cont THEN 0 ELSE 12
      /\ q1 = 36 => q2 = IF b2 \in Cont THEN 24 ELSE 12
      /\ q1 = 48 => q2 = IF b2 \in 160..191 THEN 24 ELSE 12
      /\ q1 = 60 => q2 = IF b2 \in 128..159 THEN 24 ELSE 12
      /\ q1 = 72 => q2 = IF b2 \in 144..191 THEN 36 ELSE 12
      /\ q1 = 84 => q2 = IF b2 \in Cont THEN 36 ELSE 12
      /\ q1 = 96 => q2 = IF b2 \in 128..143 THEN 36 ELSE 12
      /\ q2 \in States
  BY ContStates, TransitionType
<1>3. /\ q2 = 12 => q3 = 12
      /\ q2 = 24 => q3 = IF b3 \in Cont THEN 0 ELSE 12
      /\ q2 = 36 => q3 = IF b3 \in Cont THEN 24 ELSE 12
      /\ q2 = 48 => q3 = IF b3 \in 160..191 THEN 24 ELSE 12
      /\ q2 = 60 => q3 = IF b3 \in 128..159 THEN 24 ELSE 12
      /\ q2 = 72 => q3 = IF b3 \in 144..191 THEN 36 ELSE 12
      /\ q2 = 84 => q3 = IF b3 \in Cont THEN 36 ELSE 12
      /\ q2 = 96 => q3 = IF b3 \in 128..143 THEN 36 ELSE 12
      /\ q3 \in States
  BY ContStates, TransitionType
<1>4. CodePoint(c) # -1 <=>
        b1 \in 224..239 /\ b2 \in Cont /\ b3 \in Cont /\ (b1 = 224 => b2 \in 160..191) /\ (b1 = 237 => b2 \in 128..159)
  BY CodePoint3 DEF Cont
<1> QED BY <1>1, <1>2, <1>3, <1>4 DEF Cont, States

LEMMA Walk4 ==
  ASSUME NEW c, NEW b1, NEW b2, NEW b3, NEW b4, b1 \in 0..255, b2 \in 0..255, b3 \in 0..255, b4 \in 0..255,
         Len(c) = 4, c[1] = b1, c[2] = b2, c[3] = b3, c[4] = b4,
         NEW q1, q1 = Transition(0, Type(b1)),
         NEW q2, q2 = Transition(q1, Type(b2)),
         NEW q3, q3 = Transition(q2, Type(b3)),
         NEW q4, q4 = Transition(q3, Type(b4))
  PROVE  CodePoint(c) # -1 <=> q1 # 0 /\ q2 # 0 /\ q3 # 0 /\ q4 = 0
<1>1. /\ q1 = 0 <=> b1 \in 0..127
      /\ q1 = 24 <=> b1 \in 194..223
      /\ q1 = 36 <=> b1 \in 225..236 \/ b1 \in 238..239
      /\ q1 = 48 <=> b1 = 224
      /\ q1 = 60 <=> b1 = 237
      /\ q1 = 72 <=> b1 = 240
      /\ q1 = 84 <=> b1 \in 241..243
      /\ q1 = 96 <=> b1 = 244
      /\ q1 \in States
  BY LeadStates, TransitionType
<1>2. /\ q1 = 12 => q2 = 12
      /\ q1 = 24 => q2 = IF b2 \in Cont THEN 0 ELSE 12
      /\ q1 = 36 => q2 = IF b2 \in Cont THEN 24 ELSE 12
      /\ q1 = 48 => q2 = IF b2 \in 160..191 THEN 24 ELSE 12
      /\ q1 = 60 => q2 = IF b2 \in 128..159 THEN 24 ELSE 12
      /\ q1 = 72 => q2 = IF b2 \in 144..191 THEN 36 ELSE 12
      /\ q1 = 84 => q2 = IF b2 \in Cont THEN 36 ELSE 12
      /\ q1 = 96 => q2 = IF b2 \in 128..143 THEN 36 ELSE 12
      /\ q2 \in States
  BY ContStates, TransitionType
<1>3. /\ q2 = 12 => q3 = 12
      /\ q2 = 24 => q3 = IF b3 \in Cont THEN 0 ELSE 12
      /\ q2 = 36 => q3 = IF b3 \in Cont THEN 24 ELSE 12
      /\ q2 = 48 => q3 = IF b3 \in 160..191 THEN 24 ELSE 12
      /\ q2 = 60 => q3 = IF b3 \in 128..159 THEN 24 ELSE 12
      /\ q2 = 72 => q3 = IF b3 \in 144..191 THEN 36 ELSE 12
      /\ q2 = 84 => q3 = IF b3 \in Cont THEN 36 ELSE 12
      /\ q2 = 96 => q3 = IF b3 \in 128..143 THEN 36 ELSE 12
      /\ q3 \in States
  BY ContStates, TransitionType
<1>4. /\ q3 = 12 => q4 = 12
      /\ q3 = 24 => q4 = IF b4 \in Cont THEN 0 ELSE 12
      /\ q3 = 36 => q4 = IF b4 \in Cont THEN 24 ELSE 12
      /\ q3 = 48 => q4 = IF b4 \in 160..191 THEN 24 ELSE 12
      /\ q3 = 60 => q4 = IF b4 \in 128..159 THEN 24 ELSE 12
      /\ q3 = 72 => q4 = IF b4 \in 144..191 THEN 36 ELSE 12
      /\ q3 = 84 => q4 = IF b4 \in Cont THEN 36 ELSE 12
      /\ q3 = 96 => q4 = IF b4 \in 128..143 THEN 36 ELSE 12
      /\ q4 \in States
  BY ContStates, TransitionType
<1>5. CodePoint(c) # -1 <=>
        b1 \in 240..244 /\ b2 \in Cont /\ b3 \in Cont /\ b4 \in Cont
        /\ (b1 = 240 => b2 \in 144..191) /\ (b1 = 244 => b2 \in 128..143)
  BY CodePoint4 DEF Cont
<1> QED BY <1>1, <1>2, <1>3, <1>4, <1>5 DEF Cont, States

\* c is what str has from place i on, and q the states over it.
Spells(c, str, i) ==
  \A j \in 1..Len(c) : c[j] = str[i + j - 1] /\ c[j] \in 0..255
WalksOver(q, c, str, i) ==
  q[i - 1] = 0 /\ \A j \in i..(i + Len(c) - 1) : q[j] = Transition(q[j - 1], Type(str[j]))

LEMMA WalkAt1 ==
  ASSUME NEW str, NEW i \in Int, NEW c, NEW q,
         Len(c) = 1, Spells(c, str, i), WalksOver(q, c, str, i)
  PROVE  CodePoint(c) # -1 <=> q[i] = 0
<1>1. /\ c[1] = str[i] /\ c[1] \in 0..255
  BY DEF Spells
<1>2. /\ q[i] = Transition(0, Type(str[i]))
  BY DEF WalksOver
<1> QED BY <1>1, <1>2, Walk1

LEMMA WalkAt2 ==
  ASSUME NEW str, NEW i \in Int, NEW c, NEW q,
         Len(c) = 2, Spells(c, str, i), WalksOver(q, c, str, i)
  PROVE  CodePoint(c) # -1 <=> q[i] # 0 /\ q[i + 1] = 0
<1>1. /\ c[1] = str[i] /\ c[1] \in 0..255
      /\ c[2] = str[i + 1] /\ c[2] \in 0..255
  BY DEF Spells
<1>2. /\ q[i] = Transition(0, Type(str[i]))
      /\ q[i + 1] = Transition(q[i], Type(str[i + 1]))
  BY DEF WalksOver
<1> QED BY <1>1, <1>2, Walk2

LEMMA WalkAt3 ==
  ASSUME NEW str, NEW i \in Int, NEW c, NEW q,
         Len(c) = 3, Spells(c, str, i), WalksOver(q, c, str, i)
  PROVE  CodePoint(c) # -1 <=> q[i] # 0 /\ q[i + 1] # 0 /\ q[i + 2] = 0
<1>1. /\ c[1] = str[i] /\ c[1] \in 0..255
      /\ c[2] = str[i + 1] /\ c[2] \in 0..255
      /\ c[3] = str[i + 2] /\ c[3] \in 0..255
  BY DEF Spells
<1>2. /\ q[i] = Transition(0, Type(str[i]))
      /\ q[i + 1] = Transition(q[i], Type(str[i + 1]))
      /\ q[i + 2] = Transition(q[i + 1], Type(str[i + 2]))
  BY DEF WalksOver
<1> QED BY <1>1, <1>2, Walk3

LEMMA WalkAt4 ==
  ASSUME NEW str, NEW i \in Int, NEW c, NEW q,
         Len(c) = 4, Spells(c, str, i), WalksOver(q, c, str, i)
  PROVE  CodePoint(c) # -1 <=> q[i] # 0 /\ q[i + 1] # 0 /\ q[i + 2] # 0 /\ q[i + 3] = 0
<1>1. /\ c[1] = str[i] /\ c[1] \in 0..255
      /\ c[2] = str[i + 1] /\ c[2] \in 0..255
      /\ c[3] = str[i + 2] /\ c[3] \in 0..255
      /\ c[4] = str[i + 3] /\ c[4] \in 0..255
  BY DEF Spells
<1>2. /\ q[i] = Transition(0, Type(str[i]))
      /\ q[i + 1] = Transition(q[i], Type(str[i + 1]))
      /\ q[i + 2] = Transition(q[i + 1], Type(str[i + 2]))
      /\ q[i + 3] = Transition(q[i + 2], Type(str[i + 3]))
  BY DEF WalksOver
<1> QED BY <1>1, <1>2, Walk4

LEMMA SubSeqSpells ==
  ASSUME NEW str \in Seq(0..255), NEW i \in 1..Len(str), NEW n \in i..Len(str)
  PROVE  LET c == SubSeq(str, i, n)
         IN  /\ Len(c) = n - i + 1
             /\ \A j \in 1..(n - i + 1) : c[j] = str[i + j - 1]
             /\ Spells(c, str, i)
<1> DEFINE c == SubSeq(str, i, n)
<1>1. ASSUME NEW j \in i..n
      PROVE  str[j] \in 0..255
  <2>1. j \in 1..Len(str)
    OBVIOUS
  <2> QED BY <2>1, ElementOfSeq
<1>2. Len(c) = n - i + 1 /\ \A j \in 1..(n - i + 1) : c[j] = str[i + j - 1]
  <2>1. i \in Int /\ n \in Int /\ i <= n
    OBVIOUS
  <2> QED BY <1>1, <2>1, SubSeqProperties
<1> HIDE DEF c
<1>3. Spells(c, str, i)
  <2>1. SUFFICES ASSUME NEW j \in 1..(n - i + 1)
                 PROVE  c[j] = str[i + j - 1] /\ c[j] \in 0..255
    BY <1>2 DEF Spells
  <2>2. i + j - 1 \in i..n
    OBVIOUS
  <2> QED BY <1>1, <1>2, <2>2
<1> QED BY <1>2, <1>3 DEF c

\* The automaton gets back to its first state at the end of each character,
\* and not before.
LEMMA WalkIsCharacter ==
  ASSUME NEW str \in Seq(0..255), NEW i \in 1..Len(str), NEW n \in i..Len(str), NEW q,
         Walks(q, str, i)
  PROVE  CodePoint(SubSeq(str, i, n)) # -1 <=> q[n] = 0 /\ \A j \in i..(n - 1) : q[j] # 0
<1> DEFINE c == SubSeq(str, i, n)
<1>1. Len(c) = n - i + 1
  BY SubSeqSpells
<1>2. Spells(c, str, i)
  BY SubSeqSpells
<1> HIDE DEF c
<1>3. q[i - 1] = 0 /\ \A j \in i..n : q[j] = Transition(q[j - 1], Type(str[j]))
  BY DEF Walks
<1>4. WalksOver(q, c, str, i)
  BY <1>1, <1>3 DEF WalksOver
<1>5. CASE n = i
  <2>1. CodePoint(c) # -1 <=> q[i] = 0
    BY <1>1, <1>2, <1>4, <1>5, WalkAt1
  <2>2. \A j \in i..(n - 1) : FALSE
    BY <1>5
  <2> QED BY <1>5, <2>1, <2>2 DEF c
<1>6. CASE n = i + 1
  <2>1. CodePoint(c) # -1 <=> q[i] # 0 /\ q[i + 1] = 0
    BY <1>1, <1>2, <1>4, <1>6, WalkAt2
  <2>2. (\A j \in i..(n - 1) : q[j] # 0) <=> q[i] # 0
    BY <1>6
  <2> QED BY <1>6, <2>1, <2>2 DEF c
<1>7. CASE n = i + 2
  <2>1. CodePoint(c) # -1 <=> q[i] # 0 /\ q[i + 1] # 0 /\ q[i + 2] = 0
    BY <1>1, <1>2, <1>4, <1>7, WalkAt3
  <2>2. (\A j \in i..(n - 1) : q[j] # 0) <=> q[i] # 0 /\ q[i + 1] # 0
    BY <1>7
  <2> QED BY <1>7, <2>1, <2>2 DEF c
<1>8. CASE n = i + 3
  <2>1. CodePoint(c) # -1 <=> q[i] # 0 /\ q[i + 1] # 0 /\ q[i + 2] # 0 /\ q[i + 3] = 0
    BY <1>1, <1>2, <1>4, <1>8, WalkAt4
  <2>2. (\A j \in i..(n - 1) : q[j] # 0) <=> q[i] # 0 /\ q[i + 1] # 0 /\ q[i + 2] # 0
    BY <1>8
  <2> QED BY <1>8, <2>1, <2>2 DEF c
<1>9. CASE n >= i + 4
  <2>1. CodePoint(c) = -1
    <3>1. Len(c) \notin 1..4
      BY <1>1, <1>9
    <3> QED BY <3>1 DEF CodePoint
  <2>2. ASSUME q[n] = 0, \A j \in i..(n - 1) : q[j] # 0
        PROVE  FALSE
    <3>1. PICK k \in 1..4 : n - k >= i - 1 /\ q[n - k] = 0
      BY <2>2, WalkBack
    <3> QED BY <1>9, <2>2, <3>1
  <2> QED BY <2>1, <2>2 DEF c
<1>10. n = i \/ n = i + 1 \/ n = i + 2 \/ n = i + 3 \/ n >= i + 4
  OBVIOUS
<1> QED BY <1>5, <1>6, <1>7, <1>8, <1>9, <1>10
\* The characters that end at each place of a string, by IsText
LEMMA TextExists ==
  ASSUME NEW str \in Seq(0..255)
  PROVE  \E up \in [0..Len(str) -> BOOLEAN] :
           /\ up[0]
           /\ \A n \in 1..Len(str) :
                up[n] <=> \E k \in 1..4 : /\ k <= n /\ up[n - k]
                                          /\ CodePoint(SubSeq(str, n - k + 1, n)) # -1
           /\ IsText(str) <=> up[Len(str)]
<1> DEFINE N == Len(str)
           step(f, n) ==
             n = 0 \/ \E k \in 1..(IF n < 4 THEN n ELSE 4) :
                        f[n - k] /\ CodePoint(SubSeq(str, n - k + 1, n)) # -1
           rule == [f \in [0..N -> BOOLEAN] |-> [n \in 0..N |-> step(f, n)]]
           upTo[n \in 0..Len(str)] ==
             n = 0 \/ \E k \in 1..(IF n < 4 THEN n ELSE 4) :
                        upTo[n - k] /\ CodePoint(SubSeq(str, n - k + 1, n)) # -1
<1>1. N \in Nat
  OBVIOUS
<1>2. \A f, n : step(f, n) \in BOOLEAN
  OBVIOUS
<1>3. ASSUME NEW f, NEW g, NEW n \in 0..N, \A i \in 0..(n - 1) : f[i] = g[i]
      PROVE  step(f, n) = step(g, n)
  <2>1. \A k \in 1..(IF n < 4 THEN n ELSE 4) : f[n - k] = g[n - k]
    BY <1>1, <1>3
  <2> QED BY <2>1
<1> HIDE DEF step
<1>4. rule \in [[0..N -> BOOLEAN] -> [0..N -> BOOLEAN]]
  BY <1>2
<1>5. \A f \in [0..N -> BOOLEAN], n \in 0..N : rule[f][n] = step(f, n)
  OBVIOUS
<1>6. rule \in Rules(N, BOOLEAN)
  <2> HIDE DEF rule
  <2>1. \A f, g \in [0..N -> BOOLEAN], n \in 0..N :
          (\A i \in 0..(n - 1) : f[i] = g[i]) => rule[f][n] = rule[g][n]
    BY <1>3, <1>5
  <2> QED BY <1>4, <2>1 DEF Rules
<1>7. PICK f \in [0..N -> BOOLEAN] : f = rule[f]
  <2>1. BOOLEAN # {}
    OBVIOUS
  <2> HIDE DEF rule, N
  <2> QED BY <1>1, <1>6, <2>1, RecursionExists
<1>8. f = [n \in 0..Len(str) |-> step(f, n)]
  BY <1>7
<1>9. upTo = [n \in 0..Len(str) |-> step(upTo, n)]
  BY <1>8 DEF step
<1>10. IsText(str) <=> upTo[Len(str)]
  BY DEF IsText
<1> HIDE DEF upTo, rule
<1>11. upTo \in [0..N -> BOOLEAN]
  BY <1>2, <1>9
<1>12. \A n \in 0..N : upTo[n] = step(upTo, n)
  BY <1>9
<1>13. upTo[0]
  <2>1. step(upTo, 0)
    BY DEF step
  <2>2. upTo[0] = step(upTo, 0)
    BY <1>1, <1>12
  <2> QED BY <2>1, <2>2
<1>14. ASSUME NEW n \in 1..N
       PROVE  upTo[n] <=> \E k \in 1..4 : /\ k <= n /\ upTo[n - k]
                                          /\ CodePoint(SubSeq(str, n - k + 1, n)) # -1
  <2>3. step(upTo, n) <=> \E k \in 1..(IF n < 4 THEN n ELSE 4) :
                            upTo[n - k] /\ CodePoint(SubSeq(str, n - k + 1, n)) # -1
    BY <1>1 DEF step
  <2>4. upTo[n] = step(upTo, n)
    BY <1>1, <1>12
  <2>1. upTo[n] <=> \E k \in 1..(IF n < 4 THEN n ELSE 4) :
                      upTo[n - k] /\ CodePoint(SubSeq(str, n - k + 1, n)) # -1
    BY <2>3, <2>4
  <2>2. \A k : k \in 1..(IF n < 4 THEN n ELSE 4) <=> k \in 1..4 /\ k <= n
    BY <1>1
  <2> QED BY <2>1, <2>2
<1> QED BY <1>10, <1>11, <1>13, <1>14

\* cbor_is_utf8 accepts exactly the concatenations of characters.
LEMMA AcceptsText ==
  ASSUME NEW str \in Seq(0..255)
  PROVE  cbor_is_utf8(str) <=> IsText(str)
<1> DEFINE N == Len(str)
<1>1. N \in Nat
  OBVIOUS
<1>2. PICK st \in [0..N -> States] :
        /\ st[0] = 0
        /\ \A i \in 1..N : st[i] = Transition(st[i - 1], Type(str[i]))
        /\ cbor_is_utf8(str) <=> st[N] = 0
  BY StatesExist DEF ACCEPT
<1>3. PICK up \in [0..N -> BOOLEAN] :
        /\ up[0]
        /\ \A n \in 1..N :
             up[n] <=> \E k \in 1..4 : /\ k <= n /\ up[n - k]
                                       /\ CodePoint(SubSeq(str, n - k + 1, n)) # -1
        /\ IsText(str) <=> up[N]
  BY TextExists
<1>4. ASSUME NEW i \in 1..N, st[i - 1] = 0
      PROVE  Walks(st, str, i)
  BY <1>1, <1>2, <1>4 DEF Walks
<1> DEFINE Bad == {n \in 0..N : ~(st[n] = 0 <=> up[n])}
<1>5. Bad = {}
  <2> SUFFICES ASSUME Bad # {}
               PROVE  FALSE
    OBVIOUS
  <2>1. PICK n \in Bad : \A m \in Bad : n <= m
    <3>1. Bad \in SUBSET Nat
      BY <1>1
    <3> HIDE DEF Bad
    <3> QED BY <3>1, LeastNat
  <2>2. n \in 1..N /\ \A m \in 0..(n - 1) : st[m] = 0 <=> up[m]
    BY <1>1, <1>2, <1>3, <2>1
  <2>3. ~(st[n] = 0 <=> up[n])
    BY <2>1
  <2> HIDE DEF Bad
  <2>4. ASSUME st[n] = 0
        PROVE  up[n]
    <3>1. Walks(st, str, 1) /\ 1 \in 1..Len(str) /\ n \in 1..Len(str)
      BY <1>1, <1>2, <1>4, <2>2
    <3>2. PICK k \in 1..4 : /\ n - k >= 0 /\ st[n - k] = 0
                            /\ \A j \in (n - k + 1)..(n - 1) : st[j] # 0
      BY <2>4, <3>1, WalkBack
    <3>3. n - k + 1 \in 1..N /\ n \in (n - k + 1)..N /\ st[(n - k + 1) - 1] = 0
      BY <1>1, <2>2, <3>2
    <3>4. Walks(st, str, n - k + 1)
      BY <1>4, <3>3
    <3>5. CodePoint(SubSeq(str, n - k + 1, n)) # -1
      <4>1. PICK i \in 1..N : i = n - k + 1
        BY <3>3
      <4>2. i \in 1..Len(str) /\ n \in i..Len(str) /\ Walks(st, str, i)
        BY <3>3, <3>4, <4>1
      <4>3. CodePoint(SubSeq(str, i, n)) # -1 <=> st[n] = 0 /\ \A j \in i..(n - 1) : st[j] # 0
        BY <4>2, WalkIsCharacter
      <4> QED BY <2>4, <3>2, <4>1, <4>3
    <3>6. up[n - k]
      BY <1>1, <2>2, <3>2
    <3>7. k <= n
      BY <1>1, <2>2, <3>2
    <3>8. \E j \in 1..4 : /\ j <= n /\ up[n - j]
                          /\ CodePoint(SubSeq(str, n - j + 1, n)) # -1
      BY <3>5, <3>6, <3>7
    <3> QED BY <1>3, <2>2, <3>8
  <2>5. ASSUME up[n]
        PROVE  st[n] = 0
    <3>1. PICK k \in 1..4 : k <= n /\ up[n - k] /\ CodePoint(SubSeq(str, n - k + 1, n)) # -1
      BY <1>3, <2>2, <2>5
    <3>2. st[n - k] = 0
      BY <1>1, <2>2, <3>1
    <3>3. n - k + 1 \in 1..N /\ n \in (n - k + 1)..N /\ st[(n - k + 1) - 1] = 0
      BY <1>1, <2>2, <3>1, <3>2
    <3>4. Walks(st, str, n - k + 1)
      BY <1>4, <3>3
    <3> QED BY <3>1, <3>3, <3>4, WalkIsCharacter
  <2> QED BY <2>3, <2>4, <2>5
<1>6. st[N] = 0 <=> up[N]
  BY <1>1, <1>5
<1> QED BY <1>2, <1>3, <1>6

\* What is left of a lead byte
LEMMA LeadMask ==
  ASSUME NEW b \in 0..255
  PROVE  LET rest == b % (255 \div 2^Type(b) + 1)
         IN  /\ b \in 0..127 => rest = b
             /\ b \in 194..223 => rest = b - 192
             /\ b \in 224..239 => rest = b - 224
             /\ b \in 240..244 => rest = b - 240
             /\ rest \in Nat
<1> DEFINE mask(t) == 255 \div 2^t + 1
<1>1. /\ mask(0) = 256 /\ mask(1) = 128 /\ mask(2) = 64 /\ mask(3) = 32 /\ mask(4) = 16
      /\ mask(5) = 8 /\ mask(6) = 4 /\ mask(7) = 2
      /\ mask(8) = 1 /\ mask(9) = 1 /\ mask(10) = 1 /\ mask(11) = 1
  OBVIOUS
<1> HIDE DEF mask
<1>2. Type(b) \in 0..11
  BY Types
<1>3. mask(Type(b)) \in Nat /\ mask(Type(b)) > 0
  BY <1>1, <1>2
<1>4. b % mask(Type(b)) \in Nat
  BY <1>3
<1>5. b \in 0..127 => b % mask(Type(b)) = b
  BY <1>1, Types
<1>6. b \in 194..223 => b % mask(Type(b)) = b - 192
  BY <1>1, Types
<1>7. b \in 224..239 => b % mask(Type(b)) = b - 224
  BY <1>1, Types
<1>8. b \in 240..244 => b % mask(Type(b)) = b - 240
  BY <1>1, Types
<1> QED BY <1>4, <1>5, <1>6, <1>7, <1>8 DEF mask

\* The code point of a character adds up on the way.
LEMMA Point1 ==
  ASSUME NEW c, NEW b1, b1 \in 0..255,
         Len(c) = 1, c[1] = b1,
         CodePoint(c) # -1
  PROVE  CodePoint(c) = b1 % (255 \div 2^Type(b1) + 1)
<1>1. b1 \in 0..127 /\ CodePoint(c) = b1
  BY CodePoint1 DEF Cont
<1> DEFINE rest == b1 % (255 \div 2^Type(b1) + 1)
<1>2. rest = b1
  BY <1>1, LeadMask
<1> HIDE DEF rest
<1>3. CodePoint(c) = rest
  BY <1>1, <1>2
<1> QED BY <1>3 DEF rest

LEMMA Point2 ==
  ASSUME NEW c, NEW b1, NEW b2, b1 \in 0..255, b2 \in 0..255,
         Len(c) = 2, c[1] = b1, c[2] = b2,
         CodePoint(c) # -1
  PROVE  CodePoint(c) = (b1 % (255 \div 2^Type(b1) + 1)) * 64 + (b2 % 64)
<1>1. b1 \in 194..223 /\ b2 \in Cont /\ CodePoint(c) = (b1 - 192) * 64 + (b2 - 128)
  BY CodePoint2 DEF Cont
<1> DEFINE rest == b1 % (255 \div 2^Type(b1) + 1)
<1>2. rest = b1 - 192
  BY <1>1, LeadMask
<1>3. b2 % 64 = b2 - 128
  BY <1>1, Remainders
<1> HIDE DEF rest
<1>4. CodePoint(c) = rest * 64 + (b2 % 64)
  BY <1>1, <1>2, <1>3 DEF Cont
<1> QED BY <1>4 DEF rest

LEMMA Point3 ==
  ASSUME NEW c, NEW b1, NEW b2, NEW b3, b1 \in 0..255, b2 \in 0..255, b3 \in 0..255,
         Len(c) = 3, c[1] = b1, c[2] = b2, c[3] = b3,
         CodePoint(c) # -1
  PROVE  CodePoint(c) = ((b1 % (255 \div 2^Type(b1) + 1)) * 64 + (b2 % 64)) * 64 + (b3 % 64)
<1>1. b1 \in 224..239 /\ b2 \in Cont /\ b3 \in Cont /\ CodePoint(c) = (b1 - 224) * 4096 + (b2 - 128) * 64 + (b3 - 128)
  BY CodePoint3 DEF Cont
<1> DEFINE rest == b1 % (255 \div 2^Type(b1) + 1)
<1>2. rest = b1 - 224
  BY <1>1, LeadMask
<1>3. b2 % 64 = b2 - 128 /\ b3 % 64 = b3 - 128
  BY <1>1, Remainders
<1> HIDE DEF rest
<1>4. CodePoint(c) = (rest * 64 + (b2 % 64)) * 64 + (b3 % 64)
  BY <1>1, <1>2, <1>3 DEF Cont
<1> QED BY <1>4 DEF rest

LEMMA Point4 ==
  ASSUME NEW c, NEW b1, NEW b2, NEW b3, NEW b4, b1 \in 0..255, b2 \in 0..255, b3 \in 0..255, b4 \in 0..255,
         Len(c) = 4, c[1] = b1, c[2] = b2, c[3] = b3, c[4] = b4,
         CodePoint(c) # -1
  PROVE  CodePoint(c) = (((b1 % (255 \div 2^Type(b1) + 1)) * 64 + (b2 % 64)) * 64 + (b3 % 64)) * 64 + (b4 % 64)
<1>1. b1 \in 240..244 /\ b2 \in Cont /\ b3 \in Cont /\ b4 \in Cont /\ CodePoint(c) = (b1 - 240) * 262144 + (b2 - 128) * 4096 + (b3 - 128) * 64 + (b4 - 128)
  BY CodePoint4 DEF Cont
<1> DEFINE rest == b1 % (255 \div 2^Type(b1) + 1)
<1>2. rest = b1 - 240
  BY <1>1, LeadMask
<1>3. b2 % 64 = b2 - 128 /\ b3 % 64 = b3 - 128 /\ b4 % 64 = b4 - 128
  BY <1>1, Remainders
<1> HIDE DEF rest
<1>4. CodePoint(c) = ((rest * 64 + (b2 % 64)) * 64 + (b3 % 64)) * 64 + (b4 % 64)
  BY <1>1, <1>2, <1>3 DEF Cont
<1> QED BY <1>4 DEF rest

\* The states and code points of cbor_next_utf8 after each byte
Steps(r, str, i) ==
  /\ r[i - 1] = [state |-> ACCEPT, cp |-> 0]
  /\ \A j \in i..Len(str) :
       r[j] = [ state |-> Transition(r[j - 1].state, Type(str[j])),
                cp |-> IF j > i THEN r[j - 1].cp * 64 + (str[j] % 64)
                       ELSE str[j] % (255 \div 2^Type(str[j]) + 1) ]

\* ... and the places where they end.
Ends(r, str, i) ==
  {j \in i..Len(str) : r[j].state = ACCEPT /\ \A k \in i..(j - 1) : r[k].state # ACCEPT}

LEMMA MaskedNat ==
  ASSUME NEW b, b \in 0..255
  PROVE  b % (255 \div 2^Type(b) + 1) \in Nat
  BY LeadMask

LEMMA StepsExist ==
  ASSUME NEW str \in Seq(0..255), NEW i \in 1..Len(str)
  PROVE  \E r : /\ Steps(r, str, i)
                /\ cbor_next_utf8(str, i) =
                     IF Ends(r, str, i) = {} THEN NoChar
                     ELSE LET j == CHOOSE j \in Ends(r, str, i) : TRUE
                          IN  [cp |-> r[j].cp, next |-> j + 1]
<1> DEFINE N == Len(str) - (i - 1)
           S == [state : States, cp : Nat]
           next(prev, j) ==
             [ state |-> Transition(prev.state, Type(str[j])),
               cp |-> IF j > i THEN prev.cp * 64 + (str[j] % 64)
                      ELSE str[j] % (255 \div 2^Type(str[j]) + 1) ]
           first == [state |-> ACCEPT, cp |-> 0]
           rule == [f \in [0..N -> S] |->
                     [n \in 0..N |-> IF n = 0 THEN first ELSE next(f[n - 1], i - 1 + n)]]
           run[j \in (i - 1)..Len(str)] ==
             IF j = i - 1 THEN [state |-> ACCEPT, cp |-> 0]
             ELSE LET prev == run[j - 1]
                      type == Type(str[j])
                  IN  [ state |-> Transition(prev.state, type),
                        cp |-> IF j > i THEN prev.cp * 64 + (str[j] % 64)
                               ELSE str[j] % (255 \div 2^type + 1) ]
<1>1. N \in Nat /\ Len(str) \in Nat /\ i \in Nat /\ N = Len(str) - i + 1
  OBVIOUS
<1>2. first \in S /\ S # {}
  <2>1. ACCEPT \in States /\ 0 \in Nat
    BY DEF ACCEPT, States
  <2>2. first \in S
    BY <2>1
  <2> QED BY <2>2
<1>3. ASSUME NEW prev \in S, NEW j \in i..Len(str)
      PROVE  next(prev, j) \in S
  <2>1. PICK b \in 0..255 : b = str[j]
    <3>1. j \in 1..Len(str)
      OBVIOUS
    <3> QED BY <3>1, ElementOfSeq
  <2>2. b % 64 \in Nat /\ b % (255 \div 2^Type(b) + 1) \in Nat
    <3>1. b % 64 \in Nat
      OBVIOUS
    <3>2. b % (255 \div 2^Type(b) + 1) \in Nat
      BY MaskedNat, Zenon
    <3> QED BY <3>1, <3>2
  <2>3. Transition(prev.state, Type(b)) \in States
    BY TransitionType
  <2>4. prev.cp \in Nat
    OBVIOUS
  <2> DEFINE rest == b % (255 \div 2^Type(b) + 1)
  <2>5. next(prev, j) = [ state |-> Transition(prev.state, Type(b)),
                          cp |-> IF j > i THEN prev.cp * 64 + (b % 64) ELSE rest ]
    BY <2>1
  <2>6. rest \in Nat
    BY <2>2
  <2> HIDE DEF next, rest
  <2>7. (IF j > i THEN prev.cp * 64 + (b % 64) ELSE rest) \in Nat
    BY <2>2, <2>4, <2>6
  <2> QED BY <2>3, <2>5, <2>7
<1> HIDE DEF next, first, S
<1>4. rule \in [[0..N -> S] -> [0..N -> S]]
  <2>1. ASSUME NEW f \in [0..N -> S], NEW n \in 0..N, n # 0
        PROVE  next(f[n - 1], i - 1 + n) \in S
    <3>1. n - 1 \in 0..N /\ i - 1 + n \in i..Len(str)
      BY <1>1, <2>1
    <3> QED BY <1>3, <3>1
  <2> QED BY <1>2, <2>1
<1>5. rule \in Rules(N, S)
  <2>1. ASSUME NEW f \in [0..N -> S], NEW g \in [0..N -> S], NEW n \in 0..N,
               \A k \in 0..(n - 1) : f[k] = g[k]
        PROVE  rule[f][n] = rule[g][n]
    <3>1. n # 0 => f[n - 1] = g[n - 1]
      BY <1>1, <2>1
    <3> QED BY <3>1
  <2> HIDE DEF rule
  <2> QED BY <1>4, <2>1 DEF Rules
<1>6. PICK f \in [0..N -> S] : f = rule[f]
  <2> HIDE DEF rule, N
  <2> QED BY <1>1, <1>2, <1>5, RecursionExists
<1>7. \A n \in 0..N : f[n] = IF n = 0 THEN first ELSE next(f[n - 1], i - 1 + n)
  <2>1. rule[f] = [n \in 0..N |-> IF n = 0 THEN first ELSE next(f[n - 1], i - 1 + n)]
    OBVIOUS
  <2> HIDE DEF rule
  <2> QED BY <1>6, <2>1
<1> DEFINE g == [j \in (i - 1)..Len(str) |-> f[j - (i - 1)]]
<1> HIDE DEF rule
<1>8. ASSUME NEW j \in (i - 1)..Len(str)
      PROVE  g[j] = IF j = i - 1 THEN first ELSE next(g[j - 1], j)
  <2>1. j - (i - 1) \in 0..N /\ (j # i - 1 => j - 1 \in (i - 1)..Len(str))
    BY <1>1
  <2>2. g[j] = f[j - (i - 1)] /\ (j # i - 1 => g[j - 1] = f[(j - (i - 1)) - 1])
    BY <1>1, <2>1
  <2>3. i - 1 + (j - (i - 1)) = j /\ (j - (i - 1) = 0 <=> j = i - 1)
    BY <1>1
  <2> HIDE DEF g, N
  <2> QED BY <1>7, <2>1, <2>2, <2>3
<1>9. g = [j \in (i - 1)..Len(str) |-> IF j = i - 1 THEN first ELSE next(g[j - 1], j)]
  <2>1. g = [j \in (i - 1)..Len(str) |-> g[j]]
    OBVIOUS
  <2> HIDE DEF g
  <2> QED BY <1>8, <2>1
<1> HIDE DEF g
<1>10. run = [j \in (i - 1)..Len(str) |-> IF j = i - 1 THEN first ELSE next(run[j - 1], j)]
  BY <1>9 DEF first, next
<1>11. cbor_next_utf8(str, i) =
         IF Ends(run, str, i) = {} THEN NoChar
         ELSE LET j == CHOOSE j \in Ends(run, str, i) : TRUE
              IN  [cp |-> run[j].cp, next |-> j + 1]
  BY Zenon DEF cbor_next_utf8, Ends
<1> HIDE DEF run
<1>12. Steps(run, str, i)
  <2>1. i - 1 \in (i - 1)..Len(str) /\ \A j \in i..Len(str) : j \in (i - 1)..Len(str) /\ j # i - 1
    BY <1>1
  <2>2. run[i - 1] = first
    BY <1>10, <2>1
  <2>3. \A j \in i..Len(str) : run[j] = next(run[j - 1], j)
    BY <1>10, <2>1
  <2> QED BY <2>2, <2>3 DEF Steps, first, next
<1> QED BY <1>11, <1>12

\* The code points of r over c, which str has from place i on
NextPoint(r, str, i, j) ==
  IF j > i THEN r[j - 1].cp * 64 + (str[j] % 64)
  ELSE str[j] % (255 \div 2^Type(str[j]) + 1)

AddsUp(r, c, str, i) ==
  \A j \in i..(i + Len(c) - 1) : r[j].cp = NextPoint(r, str, i, j)

LEMMA PointAt1 ==
  ASSUME NEW str, NEW i \in Int, NEW c, NEW r,
         Len(c) = 1, Spells(c, str, i), AddsUp(r, c, str, i), CodePoint(c) # -1
  PROVE  r[i].cp = CodePoint(c)
<1>1. /\ c[1] = str[i] /\ c[1] \in 0..255
  BY DEF Spells
<1>2. /\ r[i].cp = c[1] % (255 \div 2^Type(c[1]) + 1)
  BY <1>1 DEF AddsUp, NextPoint
<1>3. CodePoint(c) = c[1] % (255 \div 2^Type(c[1]) + 1)
  BY <1>1, Point1
<1> QED BY <1>2, <1>3

LEMMA PointAt2 ==
  ASSUME NEW str, NEW i \in Int, NEW c, NEW r,
         Len(c) = 2, Spells(c, str, i), AddsUp(r, c, str, i), CodePoint(c) # -1
  PROVE  r[i + 1].cp = CodePoint(c)
<1>1. /\ c[1] = str[i] /\ c[1] \in 0..255
      /\ c[2] = str[i + 1] /\ c[2] \in 0..255
  BY DEF Spells
<1>2. /\ r[i].cp = c[1] % (255 \div 2^Type(c[1]) + 1)
      /\ r[i + 1].cp = r[i].cp * 64 + (c[2] % 64)
  BY <1>1 DEF AddsUp, NextPoint
<1>3. CodePoint(c) = (c[1] % (255 \div 2^Type(c[1]) + 1)) * 64 + (c[2] % 64)
  BY <1>1, Point2
<1> QED BY <1>2, <1>3

LEMMA PointAt3 ==
  ASSUME NEW str, NEW i \in Int, NEW c, NEW r,
         Len(c) = 3, Spells(c, str, i), AddsUp(r, c, str, i), CodePoint(c) # -1
  PROVE  r[i + 2].cp = CodePoint(c)
<1>1. /\ c[1] = str[i] /\ c[1] \in 0..255
      /\ c[2] = str[i + 1] /\ c[2] \in 0..255
      /\ c[3] = str[i + 2] /\ c[3] \in 0..255
  BY DEF Spells
<1>2. /\ r[i].cp = c[1] % (255 \div 2^Type(c[1]) + 1)
      /\ r[i + 1].cp = r[i].cp * 64 + (c[2] % 64)
      /\ r[i + 2].cp = r[i + 1].cp * 64 + (c[3] % 64)
  BY <1>1 DEF AddsUp, NextPoint
<1>3. CodePoint(c) = ((c[1] % (255 \div 2^Type(c[1]) + 1)) * 64 + (c[2] % 64)) * 64 + (c[3] % 64)
  BY <1>1, Point3
<1> QED BY <1>2, <1>3

LEMMA PointAt4 ==
  ASSUME NEW str, NEW i \in Int, NEW c, NEW r,
         Len(c) = 4, Spells(c, str, i), AddsUp(r, c, str, i), CodePoint(c) # -1
  PROVE  r[i + 3].cp = CodePoint(c)
<1>1. /\ c[1] = str[i] /\ c[1] \in 0..255
      /\ c[2] = str[i + 1] /\ c[2] \in 0..255
      /\ c[3] = str[i + 2] /\ c[3] \in 0..255
      /\ c[4] = str[i + 3] /\ c[4] \in 0..255
  BY DEF Spells
<1>2. /\ r[i].cp = c[1] % (255 \div 2^Type(c[1]) + 1)
      /\ r[i + 1].cp = r[i].cp * 64 + (c[2] % 64)
      /\ r[i + 2].cp = r[i + 1].cp * 64 + (c[3] % 64)
      /\ r[i + 3].cp = r[i + 2].cp * 64 + (c[4] % 64)
  BY <1>1 DEF AddsUp, NextPoint
<1>3. CodePoint(c) = (((c[1] % (255 \div 2^Type(c[1]) + 1)) * 64 + (c[2] % 64)) * 64 + (c[3] % 64)) * 64 + (c[4] % 64)
  BY <1>1, Point4
<1> QED BY <1>2, <1>3

LEMMA PlacesBefore ==
  ASSUME NEW i \in Nat, NEW L \in Nat, NEW n \in i..L
  PROVE  \A j \in i..n : j \in i..L
  OBVIOUS

\* Where a character of k bytes from place i ends
LEMMA LastPlace ==
  ASSUME NEW i \in Int, NEW n \in Int, NEW k \in Int, k = n - i + 1
  PROVE  /\ i + k - 1 = n
         /\ k = 1 => n = i
         /\ k = 2 => n = i + 1
         /\ k = 3 => n = i + 2
         /\ k = 4 => n = i + 3
  OBVIOUS

\* cbor_next_utf8 finds the character that begins at a place, if there is one.
LEMMA NextCharacter ==
  ASSUME NEW str \in Seq(0..255), NEW i \in 1..Len(str)
  PROVE  /\ (\A n \in i..Len(str) : CodePoint(SubSeq(str, i, n)) = -1) =>
              cbor_next_utf8(str, i) = NoChar
         /\ \A n \in i..Len(str) :
              CodePoint(SubSeq(str, i, n)) # -1 =>
                cbor_next_utf8(str, i) = [cp |-> CodePoint(SubSeq(str, i, n)), next |-> n + 1]
<1>1. PICK r : /\ Steps(r, str, i)
               /\ cbor_next_utf8(str, i) =
                    IF Ends(r, str, i) = {} THEN NoChar
                    ELSE LET j == CHOOSE j \in Ends(r, str, i) : TRUE
                         IN  [cp |-> r[j].cp, next |-> j + 1]
  BY StepsExist
<1> DEFINE q == [j \in (i - 1)..Len(str) |-> r[j].state]
<1>2. Len(str) \in Nat /\ i \in Nat
  OBVIOUS
<1>11. /\ r[i - 1].state = 0
       /\ \A j \in i..Len(str) :
           /\ r[j].state = Transition(r[j - 1].state, Type(str[j]))
           /\ r[j].cp = NextPoint(r, str, i, j)
  <2>1. Steps(r, str, i)
    BY <1>1
  <2>2. ASSUME NEW j \in i..Len(str)
        PROVE  /\ r[j].state = Transition(r[j - 1].state, Type(str[j]))
               /\ r[j].cp = NextPoint(r, str, i, j)
    <3>1. r[j] = [ state |-> Transition(r[j - 1].state, Type(str[j])),
                   cp |-> IF j > i THEN r[j - 1].cp * 64 + (str[j] % 64)
                          ELSE str[j] % (255 \div 2^Type(str[j]) + 1) ]
      BY <2>1, Zenon DEF Steps
    <3>2. r[j] = [ state |-> Transition(r[j - 1].state, Type(str[j])), cp |-> NextPoint(r, str, i, j) ]
      BY <3>1 DEF NextPoint
    <3> QED BY <3>2
  <2>3. r[i - 1] = [state |-> ACCEPT, cp |-> 0]
    BY <2>1 DEF Steps
  <2>4. r[i - 1].state = 0
    BY <2>3 DEF ACCEPT
  <2> QED BY <2>2, <2>4
<1>3. Walks(q, str, i)
  <2>1. q[i - 1] = 0
    BY <1>2, <1>11
  <2>2. ASSUME NEW j \in i..Len(str)
        PROVE  q[j] = Transition(q[j - 1], Type(str[j]))
    <3>1. q[j] = r[j].state /\ q[j - 1] = r[j - 1].state
      BY <1>2
    <3> QED BY <1>11, <3>1
  <2> QED BY <2>1, <2>2 DEF Walks
<1>4. \A j \in i..Len(str) : q[j] = r[j].state
  BY <1>2
<1> HIDE DEF q
<1>5. ASSUME NEW n \in i..Len(str)
      PROVE  n \in Ends(r, str, i) <=> CodePoint(SubSeq(str, i, n)) # -1
  <2>1. CodePoint(SubSeq(str, i, n)) # -1 <=> q[n] = 0 /\ \A j \in i..(n - 1) : q[j] # 0
    BY <1>3, WalkIsCharacter
  <2>2. \A j \in i..(n - 1) : j \in i..Len(str)
    BY <1>2
  <2>3. n \in Ends(r, str, i) <=> r[n].state = 0 /\ \A j \in i..(n - 1) : r[j].state # 0
    BY DEF Ends, ACCEPT
  <2> QED BY <1>4, <2>1, <2>2, <2>3
<1>6. \A m, n \in Ends(r, str, i) : m = n
  BY <1>2 DEF Ends
<1>7. ASSUME NEW n \in i..Len(str), CodePoint(SubSeq(str, i, n)) # -1
      PROVE  r[n].cp = CodePoint(SubSeq(str, i, n))
  <2> DEFINE c == SubSeq(str, i, n)
  <2>1. /\ Len(c) = n - i + 1
        /\ \A j \in 1..(n - i + 1) : c[j] = str[i + j - 1]
        /\ Spells(c, str, i)
    BY SubSeqSpells
  <2> HIDE DEF c
  <2>9. i \in Int /\ n \in Int
    BY <1>2
  <2>10. /\ i + Len(c) - 1 = n
         /\ Len(c) = 1 => n = i
         /\ Len(c) = 2 => n = i + 1
         /\ Len(c) = 3 => n = i + 2
         /\ Len(c) = 4 => n = i + 3
    <3>1. n - i + 1 \in Int
      BY <2>9
    <3>2. Len(c) = n - i + 1
      BY <2>1
    <3>3. Len(c) \in Int
      BY <3>1, <3>2, Zenon
    <3> QED BY <2>9, <3>2, <3>3, LastPlace, Zenon
  <2>2. AddsUp(r, c, str, i)
    <3>1. \A j \in i..n : j \in i..Len(str)
      BY <1>2, PlacesBefore, Zenon
    <3>2. \A j \in i..(i + Len(c) - 1) : j \in i..Len(str)
      BY <2>10, <3>1
    <3> QED BY <1>11, <3>2 DEF AddsUp
  <2>3. CodePoint(c) # -1
    BY <1>7 DEF c
  <2>4. Len(c) \in 1..4
    BY <2>3 DEF CodePoint
  <2>5. CASE Len(c) = 1
    <3>1. n = i /\ i \in Int
      BY <2>9, <2>10, <2>5
    <3>2. r[i].cp = CodePoint(c)
      BY <2>1, <2>2, <2>3, <2>5, <3>1, PointAt1
    <3> QED BY <3>1, <3>2 DEF c
  <2>6. CASE Len(c) = 2
    <3>1. n = i + 1 /\ i \in Int
      BY <2>9, <2>10, <2>6
    <3>2. r[i + 1].cp = CodePoint(c)
      BY <2>1, <2>2, <2>3, <2>6, <3>1, PointAt2
    <3> QED BY <3>1, <3>2 DEF c
  <2>7. CASE Len(c) = 3
    <3>1. n = i + 2 /\ i \in Int
      BY <2>9, <2>10, <2>7
    <3>2. r[i + 2].cp = CodePoint(c)
      BY <2>1, <2>2, <2>3, <2>7, <3>1, PointAt3
    <3> QED BY <3>1, <3>2 DEF c
  <2>8. CASE Len(c) = 4
    <3>1. n = i + 3 /\ i \in Int
      BY <2>9, <2>10, <2>8
    <3>2. r[i + 3].cp = CodePoint(c)
      BY <2>1, <2>2, <2>3, <2>8, <3>1, PointAt4
    <3> QED BY <3>1, <3>2 DEF c
  <2> QED BY <2>4, <2>5, <2>6, <2>7, <2>8
<1>8. ASSUME NEW n \in i..Len(str), CodePoint(SubSeq(str, i, n)) # -1
      PROVE  cbor_next_utf8(str, i) = [cp |-> CodePoint(SubSeq(str, i, n)), next |-> n + 1]
  <2>1. n \in Ends(r, str, i)
    BY <1>5, <1>8
  <2>2. (CHOOSE j \in Ends(r, str, i) : TRUE) = n
    BY <1>6, <2>1
  <2>3. cbor_next_utf8(str, i) = [cp |-> r[n].cp, next |-> n + 1]
    BY <1>1, <2>1, <2>2
  <2>4. r[n].cp = CodePoint(SubSeq(str, i, n))
    BY <1>7, <1>8
  <2> QED BY <2>3, <2>4
<1>9. ASSUME \A n \in i..Len(str) : CodePoint(SubSeq(str, i, n)) = -1
      PROVE  cbor_next_utf8(str, i) = NoChar
  <2>1. Ends(r, str, i) \subseteq i..Len(str)
    BY DEF Ends
  <2>2. Ends(r, str, i) = {}
    BY <1>5, <1>9, <2>1
  <2> QED BY <1>1, <2>2
<1> QED BY <1>8, <1>9

\* The check of text strings and the walk over their characters are right for
\* every sequence of bytes: cbor_is_utf8 accepts the concatenations of
\* characters and nothing else, and cbor_next_utf8 returns the character that
\* a string begins with, if there is one.
THEOREM CharactersCorrect ==
  ASSUME probe.s \in Seq(0..255)
  PROVE  Utf8Correct
<1> DEFINE s == probe.s
           chars == {n \in 1..Len(s) : CodePoint(SubSeq(s, 1, n)) # -1}
<1>1. cbor_is_utf8(s) <=> IsText(s)
  BY AcceptsText
<1>2. ASSUME s # << >>
      PROVE  cbor_next_utf8(s, 1) =
               IF chars = {} THEN NoChar
               ELSE LET n == CHOOSE n \in chars : TRUE
                    IN  [cp |-> CodePoint(SubSeq(s, 1, n)), next |-> n + 1]
  <2>1. 1 \in 1..Len(s)
    BY <1>2, EmptySeq
  <2>2. CASE chars = {}
    <3>1. \A n \in 1..Len(s) : CodePoint(SubSeq(s, 1, n)) = -1
      BY <2>2
    <3>2. cbor_next_utf8(s, 1) = NoChar
      BY <2>1, <3>1, NextCharacter
    <3> QED BY <2>2, <3>2
  <2>3. CASE chars # {}
    <3> DEFINE n == CHOOSE n \in chars : TRUE
    <3>1. n \in chars
      BY <2>3
    <3>2. n \in 1..Len(s) /\ CodePoint(SubSeq(s, 1, n)) # -1
      BY <3>1
    <3> HIDE DEF n
    <3>3. cbor_next_utf8(s, 1) = [cp |-> CodePoint(SubSeq(s, 1, n)), next |-> n + 1]
      BY <2>1, <3>2, NextCharacter
    <3> QED BY <2>3, <3>3 DEF n
  <2> QED BY <2>2, <2>3
<1> QED BY <1>1, <1>2 DEF Utf8Correct

-----------------------------------------------------------------------------
(* EDN text.                                                                *)

Symbol == [k : {"hex", "esc", "u", "raw", "to_bstr", "to_tstr"}, v : Nat \cup Seq(0..255)]

\* What TextReadable says of out, symbol by symbol: the notation that symbol n
\* is in, the bytes of the first n symbols, and what is printed as it is.
InText(out, n) ==
  LET marks == {i \in 1..(n - 1) : out[i] \in {ToBstr, ToTstr}}
  IN  marks = {} \/ \E i \in marks : out[i] = ToTstr /\ \A j \in marks : j <= i

Spelt(out, f) ==
  f = [n \in 0..Len(out) |-> IF n = 0 THEN << >> ELSE f[n - 1] \o SymbolBytes(out[n])]

RawIsPrintable(sym) ==
  sym.k = "raw" =>
    LET cp == CodePoint(sym.v)
    IN  cp # -1 /\ ~IsAsciiCntl(cp) /\ cp \notin Escaped /\ ~IsHidden(cp)

\* out is the text printed for the bytes before place i, and ends in the
\* notation in_text.
Prints(out, i, in_text, str) ==
  /\ out \in Seq(Symbol)
  /\ \E f : Spelt(out, f) /\ f[Len(out)] = SubSeq(str, 1, i - 1)
  /\ \A n \in 1..Len(out) : (out[n].k \in {"hex", "to_tstr"} <=> ~InText(out, n)) /\ RawIsPrintable(out[n])
  /\ in_text <=> InText(out, Len(out) + 1)

LEMMA InTextNext ==
  ASSUME NEW out, NEW n \in Nat, n > 0
  PROVE  InText(out, n + 1) <=> out[n] = ToTstr \/ (out[n] # ToBstr /\ InText(out, n))
<1> DEFINE marks(m) == {i \in 1..(m - 1) : out[i] \in {ToBstr, ToTstr}}
<1>1. marks(n + 1) = marks(n) \cup (IF out[n] \in {ToBstr, ToTstr} THEN {n} ELSE {})
  OBVIOUS
<1>2. \A i \in marks(n) : i \in Nat /\ i < n
  OBVIOUS
<1>3. \A m : InText(out, m) <=>
        marks(m) = {} \/ \E i \in marks(m) : out[i] = ToTstr /\ \A j \in marks(m) : j <= i
  BY DEF InText
<1>4. ToBstr # ToTstr
  BY DEF ToBstr, ToTstr
<1> HIDE DEF marks
<1>5. CASE out[n] = ToTstr
  <2>1. n \in marks(n + 1) /\ \A j \in marks(n + 1) : j <= n
    BY <1>1, <1>2, <1>5
  <2> QED BY <1>3, <1>5, <2>1
<1>6. CASE out[n] = ToBstr
  <2>1. n \in marks(n + 1)
    BY <1>1, <1>6
  <2>2. \A i \in marks(n + 1) : out[i] = ToTstr => i < n
    BY <1>1, <1>2, <1>4, <1>6
  <2>3. \A i \in marks(n + 1) : out[i] = ToTstr => ~(n <= i)
    BY <1>1, <1>2, <2>2
  <2>4. ~InText(out, n + 1)
    BY <1>3, <2>1, <2>3
  <2> QED BY <1>4, <1>6, <2>4
<1>7. CASE out[n] \notin {ToBstr, ToTstr}
  <2>1. marks(n + 1) = marks(n)
    BY <1>1, <1>7
  <2> QED BY <1>3, <1>7, <2>1
<1> QED BY <1>5, <1>6, <1>7

LEMMA InTextSame ==
  ASSUME NEW o, NEW p, NEW n \in Nat, \A i \in 1..(n - 1) : o[i] = p[i]
  PROVE  InText(o, n) <=> InText(p, n)
  BY DEF InText

\* A symbol more, for the bytes from i to before j
LEMMA PrintsMore ==
  ASSUME NEW str \in Seq(0..255), NEW i \in 1..(Len(str) + 1), NEW j \in i..(Len(str) + 1),
         NEW t \in BOOLEAN, NEW u \in BOOLEAN, NEW out, Prints(out, i, t, str),
         NEW sym \in Symbol, SymbolBytes(sym) = SubSeq(str, i, j - 1),
         sym.k \in {"hex", "to_tstr"} <=> ~t,
         RawIsPrintable(sym),
         u <=> sym = ToTstr \/ (sym # ToBstr /\ t)
  PROVE  Prints(Append(out, sym), j, u, str)
<1> DEFINE p == Append(out, sym)
           L == Len(out)
<1>1. /\ out \in Seq(Symbol) /\ L \in Nat
      /\ \A n \in 1..L : (out[n].k \in {"hex", "to_tstr"} <=> ~InText(out, n)) /\ RawIsPrintable(out[n])
      /\ t <=> InText(out, L + 1)
  BY DEF Prints
<1>2. PICK f : Spelt(out, f) /\ f[L] = SubSeq(str, 1, i - 1)
  BY DEF Prints
<1>3. /\ p \in Seq(Symbol) /\ Len(p) = L + 1
      /\ \A n \in 1..L : p[n] = out[n]
      /\ p[L + 1] = sym
  BY <1>1, AppendProperties
<1> HIDE DEF p
<1>4. \A n \in 1..(L + 1) : InText(out, n) <=> InText(p, n)
  BY <1>1, <1>3, InTextSame
<1>5. \A n \in 1..Len(p) : (p[n].k \in {"hex", "to_tstr"} <=> ~InText(p, n)) /\ RawIsPrintable(p[n])
  <2> SUFFICES ASSUME NEW n \in 1..(L + 1)
               PROVE  (p[n].k \in {"hex", "to_tstr"} <=> ~InText(p, n)) /\ RawIsPrintable(p[n])
    BY <1>3
  <2>1. CASE n \in 1..L
    BY <1>1, <1>3, <1>4, <2>1
  <2>2. CASE n = L + 1
    BY <1>1, <1>3, <1>4, <2>2
  <2> QED BY <1>1, <2>1, <2>2
<1>6. u <=> InText(p, Len(p) + 1)
  <2>1. InText(p, L + 1 + 1) <=> p[L + 1] = ToTstr \/ (p[L + 1] # ToBstr /\ InText(p, L + 1))
    BY <1>1, InTextNext
  <2> QED BY <1>1, <1>3, <1>4, <2>1
<1> DEFINE g == [n \in 0..(L + 1) |-> IF n = L + 1 THEN SubSeq(str, 1, j - 1) ELSE f[n]]
<1>7. SubSeq(str, 1, j - 1) = SubSeq(str, 1, i - 1) \o SubSeq(str, i, j - 1)
  <2>1. i - 1 + 1 = i
    OBVIOUS
  <2> QED BY <2>1, ConcatAdjacentSubSeq
<1>8. Spelt(p, g)
  <2> SUFFICES ASSUME NEW n \in 0..(L + 1)
               PROVE  g[n] = IF n = 0 THEN << >> ELSE g[n - 1] \o SymbolBytes(p[n])
    BY <1>3 DEF Spelt
  <2>1. \A m \in 0..L : f[m] = IF m = 0 THEN << >> ELSE f[m - 1] \o SymbolBytes(out[m])
    BY <1>2 DEF Spelt
  <2>2. CASE n \in 0..L
    <3>1. g[n] = f[n] /\ (n # 0 => g[n - 1] = f[n - 1] /\ p[n] = out[n])
      BY <1>1, <1>3, <2>2
    <3> HIDE DEF g
    <3> QED BY <2>1, <2>2, <3>1
  <2>3. CASE n = L + 1
    <3>1. g[n] = SubSeq(str, 1, j - 1) /\ g[n - 1] = f[L] /\ n # 0 /\ p[n] = sym
      BY <1>1, <1>3, <2>3
    <3> HIDE DEF g
    <3> QED BY <1>2, <1>7, <3>1
  <2> QED BY <1>1, <2>2, <2>3
<1>9. g[Len(p)] = SubSeq(str, 1, j - 1)
  BY <1>1, <1>3
<1> HIDE DEF g
<1> QED BY <1>3, <1>5, <1>6, <1>8, <1>9 DEF Prints, p

\* The bytes of the symbols
LEMMA BytesOfSymbols ==
  /\ \A b : SymbolBytes(Hex(b)) = <<b>> /\ SymbolBytes(Esc(b)) = <<b>>
  /\ \A bytes : SymbolBytes(Raw(bytes)) = bytes
  /\ SymbolBytes(ToBstr) = << >> /\ SymbolBytes(ToTstr) = << >>
<1>1. \A b : SymbolBytes(Hex(b)) = <<b>>
  BY DEF SymbolBytes, Hex
<1>2. \A b : SymbolBytes(Esc(b)) = <<b>>
  BY DEF SymbolBytes, Esc
<1>3. \A bytes : SymbolBytes(Raw(bytes)) = bytes
  BY DEF SymbolBytes, Raw
<1>4. SymbolBytes(ToBstr) = << >>
  BY DEF SymbolBytes, ToBstr
<1>5. SymbolBytes(ToTstr) = << >>
  BY DEF SymbolBytes, ToTstr
<1> QED BY <1>1, <1>2, <1>3, <1>4, <1>5

LEMMA BytesOfUnicode ==
  ASSUME NEW cp
  PROVE  SymbolBytes(Unicode(cp)) = UnicodeBytes(cp)
  BY DEF SymbolBytes, Unicode

\* What needs no escape
Plain(cp) == ~IsAsciiCntl(cp) /\ cp \notin Escaped

\* A character by its number of bytes
TwoByteSum(c) ==
  c[1] \in 194..223 /\ c[2] \in Cont /\ CodePoint(c) = (c[1] - 192) * 64 + (c[2] - 128)
ThreeByteSum(c) ==
  /\ c[1] \in 224..239 /\ c[2] \in Cont /\ c[3] \in Cont
  /\ CodePoint(c) = (c[1] - 224) * 4096 + (c[2] - 128) * 64 + (c[3] - 128)
  /\ CodePoint(c) > 2047

LEMMA AsciiNotHidden ==
  ASSUME NEW cp, cp \in 0..127
  PROVE  ~IsHidden(cp)
  BY DEF IsHidden

LEMMA FourNotHidden ==
  ASSUME NEW c, NEW b1, NEW b2, NEW b3, NEW b4,
         b1 \in 0..255, b2 \in 0..255, b3 \in 0..255, b4 \in 0..255,
         Len(c) = 4, c[1] = b1, c[2] = b2, c[3] = b3, c[4] = b4, CodePoint(c) # -1
  PROVE  ~IsHidden(CodePoint(c)) /\ Plain(CodePoint(c))
<1> DEFINE Valid == /\ b1 \in 240..244 /\ b2 \in Cont /\ b3 \in Cont /\ b4 \in Cont
                    /\ b1 = 240 => b2 \in 144..191
                    /\ b1 = 244 => b2 \in 128..143
           Sum == (b1 - 240) * 262144 + (b2 - 128) * 4096 + (b3 - 128) * 64 + (b4 - 128)
<1>1. CodePoint(c) = IF Valid THEN Sum ELSE -1
  BY CodePoint4, SMT
<1>2. PICK cp : cp = Sum
  OBVIOUS
<1>3. Valid => ~IsHidden(cp) /\ Plain(cp)
  <2>1. Valid => cp \in Nat /\ cp >= 65536
    BY <1>2, SMT DEF Cont
  <2> HIDE DEF Valid
  <2> QED BY <2>1, SMT DEF IsHidden, Plain, IsAsciiCntl, Escaped
<1> HIDE DEF Valid, Sum
<1> QED BY <1>1, <1>2, <1>3, Zenon

LEMMA CharacterBytes ==
  ASSUME NEW c, \A j \in 1..Len(c) : c[j] \in 0..255, CodePoint(c) # -1
  PROVE  /\ Len(c) = 2 \/ Len(c) = 3 \/ Len(c) = 1 \/ Len(c) = 4
         /\ Len(c) = 1 => c[1] \in 0..127 /\ CodePoint(c) = c[1]
         /\ Len(c) = 2 => TwoByteSum(c)
         /\ Len(c) = 3 => ThreeByteSum(c)
         /\ Len(c) \in {1, 4} => ~IsHidden(CodePoint(c))
         /\ Len(c) = 4 => Plain(CodePoint(c))
<1>1. Len(c) \in 1..4
  BY DEF CodePoint
<1>2. ASSUME Len(c) = 1
      PROVE  c[1] \in 0..127 /\ CodePoint(c) = c[1] /\ ~IsHidden(CodePoint(c))
  <2>1. PICK b1 : b1 \in 0..255 /\ c[1] = b1
    BY <1>2
  <2>2. b1 \in 0..127 /\ CodePoint(c) = b1
    BY <1>2, <2>1, CodePoint1
  <2>3. ~IsHidden(b1)
    BY <2>2, AsciiNotHidden, Zenon
  <2> QED BY <2>1, <2>2, <2>3
<1>3. ASSUME Len(c) = 2
      PROVE  TwoByteSum(c)
  <2>1. PICK b1, b2 : b1 \in 0..255 /\ b2 \in 0..255 /\ c[1] = b1 /\ c[2] = b2
    BY <1>3
  <2>2. b1 \in 194..223 /\ b2 \in Cont /\ CodePoint(c) = (b1 - 192) * 64 + (b2 - 128)
    BY <1>3, <2>1, CodePoint2 DEF Cont
  <2> QED BY <2>1, <2>2 DEF TwoByteSum
<1>4. ASSUME Len(c) = 3
      PROVE  ThreeByteSum(c)
  <2>1. PICK b1, b2, b3 : /\ b1 \in 0..255 /\ b2 \in 0..255 /\ b3 \in 0..255
                          /\ c[1] = b1 /\ c[2] = b2 /\ c[3] = b3
    BY <1>4
  <2>2. /\ b1 \in 224..239 /\ b2 \in Cont /\ b3 \in Cont /\ (b1 = 224 => b2 \in 160..191)
        /\ CodePoint(c) = (b1 - 224) * 4096 + (b2 - 128) * 64 + (b3 - 128)
    BY <1>4, <2>1, CodePoint3 DEF Cont
  <2>3. CodePoint(c) > 2047
    BY <2>2 DEF Cont
  <2> QED BY <2>1, <2>2, <2>3 DEF ThreeByteSum
<1>5. ASSUME Len(c) = 4
      PROVE  ~IsHidden(CodePoint(c)) /\ Plain(CodePoint(c))
  <2>1. PICK b1, b2, b3, b4 : /\ b1 \in 0..255 /\ b2 \in 0..255 /\ b3 \in 0..255 /\ b4 \in 0..255
                              /\ c[1] = b1 /\ c[2] = b2 /\ c[3] = b3 /\ c[4] = b4
    BY <1>5
  <2> QED BY <1>5, <2>1, FourNotHidden, Zenon
<1> QED BY <1>1, <1>2, <1>3, <1>4, <1>5

LEMMA UnicodeBytes2 ==
  ASSUME NEW b1, NEW b2, b1 \in 194..223, b2 \in 128..191,
         NEW cp, cp = (b1 - 192) * 64 + (b2 - 128)
  PROVE  UnicodeBytes(cp) = <<b1, b2>>
<1>1. cp \in 128..2047 /\ cp \div 64 = b1 - 192 /\ cp % 64 = b2 - 128
  OBVIOUS
<1>2. 192 + cp \div 64 = b1 /\ 128 + (cp % 64) = b2 /\ ~(cp < 128) /\ cp < 2048
  BY <1>1
<1> QED BY <1>2 DEF UnicodeBytes

LEMMA UnicodeBytes3 ==
  ASSUME NEW b1, NEW b2, NEW b3, b1 \in 224..239, b2 \in 128..191, b3 \in 128..191,
         NEW cp, cp = (b1 - 224) * 4096 + (b2 - 128) * 64 + (b3 - 128), cp > 2047
  PROVE  UnicodeBytes(cp) = <<b1, b2, b3>>
<1>1. cp \in Nat /\ cp \div 4096 = b1 - 224 /\ cp \div 64 = (b1 - 224) * 64 + (b2 - 128)
      /\ cp % 64 = b3 - 128
  OBVIOUS
<1>2. (cp \div 64) % 64 = b2 - 128
  BY <1>1
<1>3. /\ 224 + cp \div 4096 = b1 /\ 128 + ((cp \div 64) % 64) = b2 /\ 128 + (cp % 64) = b3
      /\ ~(cp < 128) /\ ~(cp < 2048)
  BY <1>1, <1>2
<1> QED BY <1>3 DEF UnicodeBytes

LEMMA TwoBytes ==
  ASSUME NEW c \in Seq(0..255), Len(c) = 2
  PROVE  c = <<c[1], c[2]>>
  OBVIOUS

LEMMA ThreeBytes ==
  ASSUME NEW c \in Seq(0..255), Len(c) = 3
  PROVE  c = <<c[1], c[2], c[3]>>
  OBVIOUS

\* \uXXXX of a character that is not shown stands for its bytes.
LEMMA BytesOfHidden ==
  ASSUME NEW c \in Seq(0..255), CodePoint(c) # -1, IsHidden(CodePoint(c))
  PROVE  SymbolBytes(Unicode(CodePoint(c))) = c
<1>2. \A j \in 1..Len(c) : c[j] \in 0..255
  BY ElementOfSeq
<1>3. /\ Len(c) = 2 \/ Len(c) = 3
      /\ Len(c) = 2 => TwoByteSum(c)
      /\ Len(c) = 3 => ThreeByteSum(c)
  BY <1>2, CharacterBytes, Zenon
<1>4. CASE Len(c) = 2
  <2>1. UnicodeBytes(CodePoint(c)) = <<c[1], c[2]>>
    BY <1>3, <1>4, UnicodeBytes2 DEF Cont, TwoByteSum
  <2> QED BY <1>4, <2>1, TwoBytes, BytesOfUnicode
<1>5. CASE Len(c) = 3
  <2>1. UnicodeBytes(CodePoint(c)) = <<c[1], c[2], c[3]>>
    BY <1>3, <1>5, UnicodeBytes3 DEF Cont, ThreeByteSum
  <2> QED BY <1>5, <2>1, ThreeBytes, BytesOfUnicode
<1> QED BY <1>3, <1>4, <1>5

LEMMA SymbolTypes ==
  /\ \A b \in 0..255 : Hex(b) \in Symbol /\ Hex(b).k = "hex"
  /\ \A b \in 0..255 : Esc(b) \in Symbol /\ Esc(b).k = "esc"
  /\ \A cp \in Nat : Unicode(cp) \in Symbol /\ Unicode(cp).k = "u"
  /\ \A c \in Seq(0..255) : Raw(c) \in Symbol /\ Raw(c).k = "raw" /\ Raw(c).v = c
  /\ ToBstr \in Symbol /\ ToBstr.k = "to_bstr"
  /\ ToTstr \in Symbol /\ ToTstr.k = "to_tstr"
  BY DEF Symbol, Hex, Esc, Unicode, Raw, ToBstr, ToTstr

\* Sequences with one more at the end
LEMMA OneMore ==
  ASSUME NEW S, NEW out \in Seq(S), NEW a \in S, NEW b \in S
  PROVE  /\ out \o (<< >> \o <<a>>) = Append(out, a)
         /\ out \o (<<a>> \o <<b>>) = Append(Append(out, a), b)
         /\ out \o <<a>> = Append(out, a)
         /\ out \o (<<a>> \o << >>) = Append(out, a)
<1>1. << >> \o <<a>> = <<a>> /\ <<a>> \o << >> = <<a>>
  <2>1. <<a>> \in Seq(S)
    OBVIOUS
  <2> QED BY <2>1, ConcatEmptySeq
<1>2. out \o <<a>> = Append(out, a)
  BY AppendIsConcat
<1>3. out \o (<<a>> \o <<b>>) = Append(Append(out, a), b)
  <2>1. <<a>> \in Seq(S) /\ <<b>> \in Seq(S) /\ Append(out, a) \in Seq(S)
    OBVIOUS
  <2>2. (out \o <<a>>) \o <<b>> = out \o (<<a>> \o <<b>>)
    BY <2>1, ConcatAssociative
  <2>3. Append(Append(out, a), b) = Append(out, a) \o <<b>>
    BY <2>1, AppendIsConcat
  <2> QED BY <1>2, <2>2, <2>3
<1> QED BY <1>1, <1>2, <1>3

\* What is printed as text, after the switch if it is needed
TextSymbol(sym, str, i, j) ==
  /\ sym \in Symbol /\ SymbolBytes(sym) = SubSeq(str, i, j - 1)
  /\ sym.k \in {"esc", "u", "raw"} /\ RawIsPrintable(sym)

LEMMA AsTextPrints ==
  ASSUME NEW str, NEW i, NEW j, NEW t, NEW out, NEW sym, str \in Seq(0..255),
         i \in 1..(Len(str) + 1), j \in i..(Len(str) + 1), t \in BOOLEAN, Prints(out, i, t, str),
         TextSymbol(sym, str, i, j)
  PROVE  Prints(out \o AsText(t, j, sym).out, j, TRUE, str)
<1>0. /\ sym \in Symbol /\ SymbolBytes(sym) = SubSeq(str, i, j - 1)
      /\ sym.k \in {"esc", "u", "raw"} /\ RawIsPrintable(sym)
  BY DEF TextSymbol
<1>1. out \in Seq(Symbol)
  BY DEF Prints
<1>2. sym # ToBstr /\ sym # ToTstr /\ ToBstr # ToTstr /\ ~(sym.k \in {"hex", "to_tstr"})
  BY <1>0, SymbolTypes
<1>3. AsText(t, j, sym).out = (IF t THEN << >> ELSE <<ToTstr>>) \o <<sym>>
  BY DEF AsText, Turn
<1>4. CASE t = TRUE
  <2>1. out \o AsText(t, j, sym).out = Append(out, sym)
    BY <1>0, <1>1, <1>3, <1>4, OneMore
  <2>2. Prints(Append(out, sym), j, TRUE, str)
    BY <1>0, <1>2, <1>4, PrintsMore
  <2> QED BY <1>3, <2>1, <2>2
<1>5. CASE t = FALSE
  <2>1. ToTstr \in Symbol /\ SymbolBytes(ToTstr) = << >> /\ ToTstr.k = "to_tstr"
    BY SymbolTypes, BytesOfSymbols
  <2>2. out \o AsText(t, j, sym).out = Append(Append(out, ToTstr), sym)
    BY <1>0, <1>1, <1>3, <1>5, <2>1, OneMore
  <2>3. SymbolBytes(ToTstr) = SubSeq(str, i, i - 1) /\ i \in i..(Len(str) + 1)
    BY <2>1
  <2>4. RawIsPrintable(ToTstr)
    BY <2>1 DEF RawIsPrintable
  <2>5. Prints(Append(out, ToTstr), i, TRUE, str)
    BY <1>2, <1>5, <2>1, <2>3, <2>4, PrintsMore
  <2>6. Prints(Append(Append(out, ToTstr), sym), j, TRUE, str)
    BY <1>0, <1>2, <2>5, PrintsMore
  <2> QED BY <1>3, <2>2, <2>6
<1> QED BY <1>4, <1>5

\* The switch to h'...'
LEMMA ToBstrPrints ==
  ASSUME NEW str \in Seq(0..255), NEW i \in 1..(Len(str) + 1), NEW out, Prints(out, i, TRUE, str)
  PROVE  Prints(Append(out, ToBstr), i, FALSE, str)
<1>1. ToBstr \in Symbol /\ SymbolBytes(ToBstr) = << >> /\ ToBstr.k = "to_bstr"
  BY SymbolTypes, BytesOfSymbols
<1>2. SymbolBytes(ToBstr) = SubSeq(str, i, i - 1) /\ i \in i..(Len(str) + 1)
  BY <1>1
<1>3. RawIsPrintable(ToBstr) /\ ToBstr # ToTstr
  BY <1>1, SymbolTypes DEF RawIsPrintable
<1>4. ~(ToBstr.k \in {"hex", "to_tstr"})
  BY <1>1
<1> QED BY <1>1, <1>2, <1>3, <1>4, PrintsMore

\* A byte in h'...'
LEMMA OneByte ==
  ASSUME NEW c \in Seq(0..255), Len(c) = 1
  PROVE  c = <<c[1]>>
  OBVIOUS

LEMMA ByteAt ==
  ASSUME NEW str, NEW i \in Int, str[i] \in 0..255
  PROVE  SubSeq(str, i, i) = <<str[i]>>
<1>1. \A k \in i..i : str[k] \in 0..255
  OBVIOUS
<1>2. /\ SubSeq(str, i, i) \in Seq(0..255) /\ Len(SubSeq(str, i, i)) = 1
      /\ SubSeq(str, i, i)[1] = str[i]
  <2>1. i - i + 1 = 1 /\ i <= i /\ i + 1 - 1 = i
    OBVIOUS
  <2> QED BY <1>1, <2>1, SubSeqProperties
<1> QED BY <1>2, OneByte, Zenon

LEMMA HexMore ==
  ASSUME NEW str \in Seq(0..255), NEW i \in 1..(Len(str) + 1), NEW j \in i..(Len(str) + 1),
         NEW out, Prints(out, i, FALSE, str),
         NEW sym \in Symbol, SymbolBytes(sym) = SubSeq(str, i, j - 1), sym.k = "hex"
  PROVE  Prints(Append(out, sym), j, FALSE, str)
<1>1. RawIsPrintable(sym) /\ sym # ToTstr /\ sym # ToBstr
  BY SymbolTypes DEF RawIsPrintable
<1>2. sym.k \in {"hex", "to_tstr"}
  OBVIOUS
<1> QED BY <1>1, <1>2, PrintsMore

LEMMA HexPrints ==
  ASSUME NEW str \in Seq(0..255), NEW i \in 1..Len(str), NEW out, Prints(out, i, FALSE, str)
  PROVE  Prints(Append(out, Hex(str[i])), i + 1, FALSE, str)
<1>1. str[i] \in 0..255
  BY ElementOfSeq
<1>2. PICK sym : sym = Hex(str[i])
  OBVIOUS
<1>3. sym \in Symbol /\ SymbolBytes(sym) = <<str[i]>> /\ sym.k = "hex"
  BY <1>1, <1>2, SymbolTypes, BytesOfSymbols
<1>4. PICK j : j = i + 1
  OBVIOUS
<1>5. i \in 1..(Len(str) + 1) /\ j \in i..(Len(str) + 1) /\ j - 1 = i /\ i \in Int
  BY <1>4
<1>6. SymbolBytes(sym) = SubSeq(str, i, j - 1)
  BY <1>1, <1>3, <1>5, ByteAt, Zenon
<1>7. Prints(Append(out, sym), j, FALSE, str)
  BY <1>3, <1>5, <1>6, HexMore, Zenon
<1> QED BY <1>2, <1>4, <1>7, Zenon

\* The bytes that are not text, by induction on their number
HexRun(str, i, m) == [k \in 1..m |-> Hex(str[i + k - 1])]

LEMMA HexRunMore ==
  ASSUME NEW str, NEW i \in Int, NEW m \in Nat
  PROVE  HexRun(str, i, m + 1) = Append(HexRun(str, i, m), Hex(str[i + m]))
<1>1. i + (m + 1) - 1 = i + m
  OBVIOUS
<1>2. \A k \in 1..(m + 1) : k = m + 1 \/ k \in 1..m
  OBVIOUS
<1> QED BY <1>1, <1>2 DEF HexRun

LEMMA HexRunType ==
  ASSUME NEW str \in Seq(0..255), NEW i \in 1..(Len(str) + 1), NEW m \in Nat, i + m <= Len(str) + 1
  PROVE  HexRun(str, i, m) \in Seq(Symbol)
<1>1. \A k \in 1..m : i + k - 1 \in 1..Len(str)
  OBVIOUS
<1>2. \A k \in 1..m : str[i + k - 1] \in 0..255
  BY <1>1, ElementOfSeq
<1>3. \A k \in 1..m : Hex(str[i + k - 1]) \in Symbol
  BY <1>2, SymbolTypes
<1> QED BY <1>3 DEF HexRun

AppendsAfter(out, run, a) == Append(out \o run, a) = out \o Append(run, a)

LEMMA AppendAfter ==
  ASSUME NEW S, NEW out, NEW run, NEW a, out \in Seq(S), run \in Seq(S), a \in S
  PROVE  AppendsAfter(out, run, a)
<1>1. out \o run \in Seq(S) /\ <<a>> \in Seq(S)
  BY ConcatProperties
<1>2. Append(out \o run, a) = (out \o run) \o <<a>> /\ Append(run, a) = run \o <<a>>
  BY <1>1, AppendIsConcat
<1> QED BY <1>1, <1>2, ConcatAssociative DEF AppendsAfter

LEMMA HexRunPrints ==
  ASSUME NEW str \in Seq(0..255), NEW i \in 1..(Len(str) + 1), NEW out, Prints(out, i, FALSE, str),
         NEW m \in Nat, i + m <= Len(str) + 1
  PROVE  Prints(out \o HexRun(str, i, m), i + m, FALSE, str)
<1> DEFINE P(n) == i + n <= Len(str) + 1 => Prints(out \o HexRun(str, i, n), i + n, FALSE, str)
<1>1. out \in Seq(Symbol) /\ i \in Int /\ Len(str) \in Nat /\ i >= 1
  BY DEF Prints
<1>2. P(0)
  <2>1. HexRun(str, i, 0) = << >> /\ i + 0 = i
    BY <1>1 DEF HexRun
  <2>2. out \o << >> = out
    BY <1>1, ConcatEmptySeq
  <2> QED BY <2>1, <2>2
<1>3. ASSUME NEW n \in Nat, P(n), i + (n + 1) <= Len(str) + 1
      PROVE  Prints(out \o HexRun(str, i, n + 1), i + (n + 1), FALSE, str)
  <2>1. PICK j : j = i + n
    OBVIOUS
  <2>2. j \in 1..Len(str) /\ i + n <= Len(str) + 1 /\ i + (n + 1) = j + 1
    BY <1>1, <1>3, <2>1
  <2>3. PICK run : run = HexRun(str, i, n)
    OBVIOUS
  <2>4. Prints(out \o run, j, FALSE, str)
    BY <1>3, <2>1, <2>2, <2>3
  <2>5. Prints(Append(out \o run, Hex(str[j])), j + 1, FALSE, str)
    BY <2>2, <2>4, HexPrints, Zenon
  <2>6. run \in Seq(Symbol) /\ Hex(str[j]) \in Symbol
    <3>1. run \in Seq(Symbol)
      BY <2>2, <2>3, HexRunType
    <3>2. str[j] \in 0..255
      BY <2>2, ElementOfSeq
    <3> QED BY <3>1, <3>2, SymbolTypes
  <2>7. Append(out \o run, Hex(str[j])) = out \o Append(run, Hex(str[j]))
    <3>1. AppendsAfter(out, run, Hex(str[j]))
      BY <1>1, <2>6, AppendAfter, Zenon
    <3> QED BY <3>1 DEF AppendsAfter
  <2>8. HexRun(str, i, n + 1) = Append(run, Hex(str[j]))
    BY <1>1, <2>1, <2>3, HexRunMore
  <2> QED BY <2>2, <2>5, <2>7, <2>8
<1>4. ASSUME NEW n \in Nat, P(n)
      PROVE  P(n + 1)
  BY <1>3, <1>4
<1> HIDE DEF P
<1>5. \A n \in Nat : P(n)
  <2> DEFINE Bad == {n \in Nat : ~P(n)}
  <2>1. SUFFICES ASSUME Bad # {}
                 PROVE  FALSE
    OBVIOUS
  <2>2. PICK x \in Bad : \A y \in Bad : x <= y
    BY <2>1, LeastNat
  <2>3. x # 0
    BY <1>2, <2>2
  <2>4. x - 1 \in Nat /\ x - 1 + 1 = x /\ ~(x <= x - 1)
    BY <2>2, <2>3
  <2>5. P(x - 1)
    BY <2>2, <2>4
  <2> QED BY <1>4, <2>2, <2>4, <2>5
<1> QED BY <1>5 DEF P

LEMMA NoLeadByte ==
  ASSUME NEW b \in 0..255, ~(b < 192)
  PROVE  b >= 192
  OBVIOUS

\* The invalid bytes end
LEMMA InvalidEndIn ==
  ASSUME NEW str \in Seq(0..255), NEW i \in 1..Len(str)
  PROVE  InvalidEnd(str, i) \in (i + 1)..(Len(str) + 1)
<1> DEFINE Stops == {j \in Nat : j \in (i + 1)..(Len(str) + 1) /\ (j <= Len(str) => str[j] < 192)}
<1>1. i \in Nat /\ Len(str) \in Nat /\ i <= Len(str) /\ i >= 1
  OBVIOUS
<1>2. Len(str) + 1 \in Stops
  BY <1>1
<1>3. PICK x \in Stops : \A y \in Stops : x <= y
  BY <1>2, LeastNat
<1>4. ASSUME NEW k \in (i + 1)..(x - 1)
      PROVE  str[k] >= 192
  <2>1. k \in Nat /\ ~(x <= k) /\ k <= Len(str) /\ k \in (i + 1)..(Len(str) + 1) /\ k \in 1..Len(str)
    BY <1>1, <1>3
  <2>2. ~(str[k] < 192)
    BY <1>3, <2>1
  <2>3. str[k] \in 0..255
    BY <2>1, ElementOfSeq
  <2> QED BY <2>2, <2>3, NoLeadByte, Zenon
<1>5. x \in (i + 1)..(Len(str) + 1) /\ (x <= Len(str) => str[x] < 192)
  BY <1>3
<1>6. \E j \in (i + 1)..(Len(str) + 1) :
        /\ \A k \in (i + 1)..(j - 1) : str[k] >= 192
        /\ j <= Len(str) => str[j] < 192
  BY <1>4, <1>5
<1> QED BY <1>6 DEF InvalidEnd

LEMMA PlainSum2 ==
  ASSUME NEW b1, NEW b2, b1 \in 194..223, b2 \in 128..191,
         NEW cp, cp = (b1 - 192) * 64 + (b2 - 128)
  PROVE  Plain(cp)
  BY DEF Plain, IsAsciiCntl, Escaped

\* A character that is more than a byte needs no escape.
LEMMA PlainCharacter ==
  ASSUME NEW c, \A j \in 1..Len(c) : c[j] \in 0..255, CodePoint(c) # -1, Plain(c[1])
  PROVE  Plain(CodePoint(c))
<1>1. /\ Len(c) = 2 \/ Len(c) = 3 \/ Len(c) = 1 \/ Len(c) = 4
      /\ Len(c) = 1 => CodePoint(c) = c[1]
      /\ Len(c) = 2 => TwoByteSum(c)
      /\ Len(c) = 3 => ThreeByteSum(c)
      /\ Len(c) = 4 => Plain(CodePoint(c))
  BY CharacterBytes, Zenon
<1>2. ASSUME TwoByteSum(c)
      PROVE  Plain(CodePoint(c))
  <2>1. PICK b1, b2 : /\ b1 \in 194..223 /\ b2 \in 128..191
                      /\ CodePoint(c) = (b1 - 192) * 64 + (b2 - 128)
    BY <1>2 DEF TwoByteSum, Cont
  <2> QED BY <2>1, PlainSum2, Zenon
<1>3. ASSUME ThreeByteSum(c)
      PROVE  Plain(CodePoint(c))
  <2>1. CodePoint(c) > 2047
    BY <1>3 DEF ThreeByteSum
  <2>2. CodePoint(c) \in Nat
    <3>1. PICK b1, b2, b3 : /\ b1 \in 224..239 /\ b2 \in 128..191 /\ b3 \in 128..191
                            /\ CodePoint(c) = (b1 - 224) * 4096 + (b2 - 128) * 64 + (b3 - 128)
      BY <1>3 DEF ThreeByteSum, Cont
    <3> QED BY <3>1
  <2>3. PICK cp \in Nat : cp = CodePoint(c) /\ cp > 2047
    BY <2>1, <2>2
  <2>4. Plain(cp)
    BY <2>3, SMT DEF Plain, IsAsciiCntl, Escaped
  <2> QED BY <2>3, <2>4
<1> QED BY <1>1, <1>2, <1>3, Zenon

\* What a turn at place i must do
GoodTurn(turn, str, i, t, out) ==
  /\ Prints(out \o turn.out, turn.next, turn.in_text, str)
  /\ turn.next \in i..(Len(str) + 1) /\ turn.in_text \in BOOLEAN
  /\ turn.next = i => t /\ ~turn.in_text

\* A byte in hexadecimal
LEMMA HexTurn ==
  ASSUME NEW str \in Seq(0..255), NEW i \in 1..Len(str), NEW out, Prints(out, i, FALSE, str)
  PROVE  GoodTurn(Turn(i + 1, FALSE, <<Hex(str[i])>>), str, i, FALSE, out)
<1>1. PICK sym : sym = Hex(str[i])
  OBVIOUS
<1>2. out \in Seq(Symbol) /\ sym \in Symbol
  <2>1. str[i] \in 0..255
    BY ElementOfSeq
  <2> QED BY <1>1, <2>1, SymbolTypes DEF Prints
<1>3. out \o <<sym>> = Append(out, sym)
  BY <1>2, AppendIsConcat
<1>4. Prints(Append(out, sym), i + 1, FALSE, str)
  BY <1>1, HexPrints
<1>5. i + 1 \in i..(Len(str) + 1) /\ i + 1 # i
  OBVIOUS
<1>6. PICK turn : turn = Turn(i + 1, FALSE, <<sym>>)
  OBVIOUS
<1>7. turn.next = i + 1 /\ turn.in_text = FALSE /\ turn.out = <<sym>>
  BY <1>6 DEF Turn
<1>8. GoodTurn(turn, str, i, FALSE, out)
  BY <1>3, <1>4, <1>5, <1>7 DEF GoodTurn
<1> QED BY <1>1, <1>6, <1>8

\* A symbol in "..."
LEMMA TextSymbolTurn ==
  ASSUME NEW str, NEW i, NEW j, NEW t, NEW out, NEW sym, str \in Seq(0..255),
         i \in 1..Len(str), j \in (i + 1)..(Len(str) + 1), t \in BOOLEAN, Prints(out, i, t, str),
         TextSymbol(sym, str, i, j)
  PROVE  GoodTurn(AsText(t, j, sym), str, i, t, out)
<1>1. i \in 1..(Len(str) + 1) /\ j \in i..(Len(str) + 1) /\ j # i
  OBVIOUS
<1>2. Prints(out \o AsText(t, j, sym).out, j, TRUE, str)
  BY <1>1, AsTextPrints, Zenon
<1>3. AsText(t, j, sym).next = j /\ AsText(t, j, sym).in_text = TRUE
  BY DEF AsText, Turn
<1> QED BY <1>1, <1>2, <1>3 DEF GoodTurn

\* The switch to h'...' on its own
LEMMA SwitchTurn ==
  ASSUME NEW str \in Seq(0..255), NEW i \in 1..Len(str), NEW out, Prints(out, i, TRUE, str)
  PROVE  GoodTurn(Turn(i, FALSE, <<ToBstr>>), str, i, TRUE, out)
<1>1. out \in Seq(Symbol) /\ ToBstr \in Symbol
  BY SymbolTypes DEF Prints
<1>2. out \o <<ToBstr>> = Append(out, ToBstr)
  BY <1>1, AppendIsConcat
<1>3. i \in 1..(Len(str) + 1) /\ i \in i..(Len(str) + 1)
  OBVIOUS
<1>4. Prints(Append(out, ToBstr), i, FALSE, str)
  BY <1>3, ToBstrPrints
<1>5. PICK turn : turn = Turn(i, FALSE, <<ToBstr>>)
  OBVIOUS
<1>6. turn.next = i /\ turn.in_text = FALSE /\ turn.out = <<ToBstr>>
  BY <1>5 DEF Turn
<1>7. GoodTurn(turn, str, i, TRUE, out)
  BY <1>2, <1>3, <1>4, <1>6 DEF GoodTurn
<1> QED BY <1>5, <1>7

\* The bytes that are not text, after the switch if it is needed
LEMMA InvalidTurn ==
  ASSUME NEW str \in Seq(0..255), NEW i \in 1..Len(str), NEW j \in (i + 1)..(Len(str) + 1),
         NEW t \in BOOLEAN, NEW out, Prints(out, i, t, str)
  PROVE  GoodTurn(Turn(j, FALSE, (IF t THEN <<ToBstr>> ELSE << >>) \o HexRun(str, i, j - i)),
                  str, i, t, out)
<1> DEFINE run == HexRun(str, i, j - i)
           printed == (IF t THEN <<ToBstr>> ELSE << >>) \o run
<1>1. /\ i \in 1..(Len(str) + 1) /\ j - i \in Nat /\ i + (j - i) = j /\ i + (j - i) <= Len(str) + 1
      /\ j \in i..(Len(str) + 1) /\ j # i
  OBVIOUS
<1>2. out \in Seq(Symbol) /\ ToBstr \in Symbol /\ <<ToBstr>> \in Seq(Symbol)
  BY SymbolTypes DEF Prints
<1>3. run \in Seq(Symbol)
  BY <1>1, HexRunType
<1>4. \A o : Prints(o, i, FALSE, str) => Prints(o \o run, j, FALSE, str)
  BY <1>1, HexRunPrints
<1> HIDE DEF run
<1>5. Prints(out \o printed, j, FALSE, str)
  <2>1. CASE t = TRUE
    <3>1. Prints(Append(out, ToBstr), i, FALSE, str)
      BY <1>1, <2>1, ToBstrPrints
    <3>2. Prints(Append(out, ToBstr) \o run, j, FALSE, str)
      BY <1>4, <3>1
    <3>3. Append(out, ToBstr) = out \o <<ToBstr>>
      BY <1>2, AppendIsConcat
    <3>4. (out \o <<ToBstr>>) \o run = out \o (<<ToBstr>> \o run)
      BY <1>2, <1>3, ConcatAssociative
    <3> QED BY <2>1, <3>2, <3>3, <3>4
  <2>2. CASE t = FALSE
    <3>1. << >> \o run = run
      BY <1>3, ConcatEmptySeq
    <3> QED BY <1>4, <2>2, <3>1
  <2> QED BY <2>1, <2>2
<1> HIDE DEF printed
<1>6. PICK turn : turn = Turn(j, FALSE, printed)
  OBVIOUS
<1>7. turn.next = j /\ turn.in_text = FALSE /\ turn.out = printed
  BY <1>6 DEF Turn
<1>8. GoodTurn(turn, str, i, t, out)
  BY <1>1, <1>5, <1>7 DEF GoodTurn
<1>9. GoodTurn(Turn(j, FALSE, printed), str, i, t, out)
  BY <1>6, <1>8
<1> QED BY <1>9 DEF printed, run

\* A byte as an escape or as \uXXXX
LEMMA ByteSymbol ==
  ASSUME NEW str, NEW i \in Int, str[i] \in 0..255, NEW sym \in Symbol, sym.k \in {"esc", "u"},
         SymbolBytes(sym) = <<str[i]>>
  PROVE  TextSymbol(sym, str, i, i + 1)
<1>1. i + 1 - 1 = i
  OBVIOUS
<1>2. SubSeq(str, i, i) = <<str[i]>>
  BY ByteAt
<1>3. RawIsPrintable(sym)
  BY DEF RawIsPrintable
<1> QED BY <1>1, <1>2, <1>3 DEF TextSymbol

LEMMA EscSymbol ==
  ASSUME NEW str, NEW i \in Int, str[i] \in 0..255
  PROVE  TextSymbol(Esc(str[i]), str, i, i + 1)
<1>1. Esc(str[i]) \in Symbol /\ Esc(str[i]).k = "esc" /\ SymbolBytes(Esc(str[i])) = <<str[i]>>
  BY SymbolTypes, BytesOfSymbols
<1> QED BY <1>1, ByteSymbol

LEMMA ControlSymbol ==
  ASSUME NEW str, NEW i \in Int, str[i] \in 0..255, IsAsciiCntl(str[i])
  PROVE  TextSymbol(Unicode(str[i]), str, i, i + 1)
<1>1. str[i] \in Nat
  OBVIOUS
<1>2. Unicode(str[i]) \in Symbol /\ Unicode(str[i]).k = "u"
  BY <1>1, SymbolTypes
<1>3. UnicodeBytes(str[i]) = <<str[i]>>
  BY DEF UnicodeBytes, IsAsciiCntl
<1>4. SymbolBytes(Unicode(str[i])) = <<str[i]>>
  BY <1>3, BytesOfUnicode
<1> QED BY <1>2, <1>4, ByteSymbol

LEMMA HiddenNat ==
  ASSUME NEW cp, IsHidden(cp)
  PROVE  cp \in Nat
  BY DEF IsHidden

\* A character, as it is or as \uXXXX
LEMMA CharacterSymbol ==
  ASSUME NEW str \in Seq(0..255), NEW i \in 1..Len(str), NEW n \in i..Len(str),
         CodePoint(SubSeq(str, i, n)) # -1, Plain(str[i])
  PROVE  LET c == SubSeq(str, i, n)
         IN  TextSymbol(IF IsHidden(CodePoint(c)) THEN Unicode(CodePoint(c)) ELSE Raw(c), str, i, n + 1)
<1> DEFINE c == SubSeq(str, i, n)
<1>1. Len(c) = n - i + 1 /\ \A j \in 1..(n - i + 1) : c[j] = str[i + j - 1]
  BY SubSeqSpells
<1>2. c[1] = str[i]
  <2>1. 1 \in 1..(n - i + 1) /\ i + 1 - 1 = i
    OBVIOUS
  <2> QED BY <1>1, <2>1
<1>3. c \in Seq(0..255)
  <2>1. \A k \in i..n : k \in 1..Len(str)
    OBVIOUS
  <2>2. \A k \in i..n : str[k] \in 0..255
    BY <2>1, ElementOfSeq
  <2>3. i \in Int /\ n \in Int
    OBVIOUS
  <2> QED BY <2>2, <2>3, SubSeqProperties
<1>4. CodePoint(c) # -1 /\ n + 1 - 1 = n
  OBVIOUS
<1>5. \A j \in 1..Len(c) : c[j] \in 0..255
  BY <1>3, ElementOfSeq
<1>6. c = SubSeq(str, i, n + 1 - 1)
  BY <1>4
<1> HIDE DEF c
<1>7. CASE IsHidden(CodePoint(c))
  <2>1. SymbolBytes(Unicode(CodePoint(c))) = c
    BY <1>3, <1>4, <1>7, BytesOfHidden
  <2>2. CodePoint(c) \in Nat
    BY <1>7, HiddenNat, Zenon
  <2>3. PICK sym : sym = Unicode(CodePoint(c))
    OBVIOUS
  <2>4. sym \in Symbol /\ sym.k = "u"
    BY <2>2, <2>3, SymbolTypes
  <2>5. RawIsPrintable(sym)
    BY <2>4 DEF RawIsPrintable
  <2>6. TextSymbol(sym, str, i, n + 1)
    BY <1>6, <2>1, <2>3, <2>4, <2>5 DEF TextSymbol
  <2> QED BY <1>7, <2>3, <2>6 DEF c
<1>8. CASE ~IsHidden(CodePoint(c))
  <2>1. Plain(CodePoint(c))
    BY <1>2, <1>4, <1>5, PlainCharacter
  <2>2. PICK sym : sym = Raw(c)
    OBVIOUS
  <2>3. sym \in Symbol /\ sym.k = "raw" /\ sym.v = c /\ SymbolBytes(sym) = c
    BY <1>3, <2>2, SymbolTypes, BytesOfSymbols
  <2>4. RawIsPrintable(sym)
    BY <1>4, <1>8, <2>1, <2>3 DEF RawIsPrintable, Plain
  <2>5. TextSymbol(sym, str, i, n + 1)
    BY <1>6, <2>3, <2>4 DEF TextSymbol
  <2> QED BY <1>8, <2>2, <2>5 DEF c
<1> QED BY <1>7, <1>8 DEF c

\* The turns of the loop
LEMMA ControlTurns ==
  ASSUME NEW str, NEW i, NEW t \in BOOLEAN, ~Plain(str[i])
  PROVE  TextTurn(str, i, t) =
           IF ~t /\ IsAsciiCntl(str[i]) THEN Turn(i + 1, FALSE, <<Hex(str[i])>>)
           ELSE IF str[i] \in Escaped THEN AsText(t, i + 1, Esc(str[i]))
           ELSE IF i < Len(str) /\ IsAsciiCntl(str[i + 1]) THEN Turn(i, FALSE, <<ToBstr>>)
           ELSE AsText(TRUE, i + 1, Unicode(str[i]))
<1>1. IsAsciiCntl(str[i]) \/ str[i] \in Escaped
  BY DEF Plain
<1>2. CASE ~t /\ IsAsciiCntl(str[i])
  BY <1>2, Zenon DEF TextTurn
<1>3. CASE str[i] \in Escaped /\ (t \/ ~IsAsciiCntl(str[i]))
  BY <1>3, Zenon DEF TextTurn
<1>4. CASE t /\ IsAsciiCntl(str[i]) /\ str[i] \notin Escaped
  BY <1>4, Zenon DEF TextTurn
<1> QED BY <1>1, <1>2, <1>3, <1>4

LEMMA PlainTurns ==
  ASSUME NEW str, NEW i, NEW t \in BOOLEAN, Plain(str[i])
  PROVE  LET char == cbor_next_utf8(str, i)
             end == InvalidEnd(str, i)
         IN  TextTurn(str, i, t) =
               IF char = NoChar
               THEN Turn(end, FALSE, (IF t THEN <<ToBstr>> ELSE << >>) \o HexRun(str, i, end - i))
               ELSE AsText(t, char.next, IF IsHidden(char.cp) THEN Unicode(char.cp)
                                         ELSE Raw(SubSeq(str, i, char.next - 1)))
<1>1. ~IsAsciiCntl(str[i]) /\ str[i] \notin Escaped
  BY DEF Plain
<1> QED BY <1>1, Zenon DEF TextTurn, HexRun

LEMMA TurnPrints ==
  ASSUME NEW str \in Seq(0..255), NEW i \in 1..Len(str), NEW t \in BOOLEAN, NEW out, Prints(out, i, t, str)
  PROVE  GoodTurn(TextTurn(str, i, t), str, i, t, out)
<1>1. str[i] \in 0..255 /\ i \in Int /\ i + 1 \in (i + 1)..(Len(str) + 1)
  <2>1. str[i] \in 0..255
    BY ElementOfSeq
  <2> QED BY <2>1
<1>2. CASE ~Plain(str[i])
  <2>1. TextTurn(str, i, t) =
          IF ~t /\ IsAsciiCntl(str[i]) THEN Turn(i + 1, FALSE, <<Hex(str[i])>>)
          ELSE IF str[i] \in Escaped THEN AsText(t, i + 1, Esc(str[i]))
          ELSE IF i < Len(str) /\ IsAsciiCntl(str[i + 1]) THEN Turn(i, FALSE, <<ToBstr>>)
          ELSE AsText(TRUE, i + 1, Unicode(str[i]))
    BY <1>2, ControlTurns, Zenon
  <2>2. CASE ~t /\ IsAsciiCntl(str[i])
    <3>1. t = FALSE /\ TextTurn(str, i, t) = Turn(i + 1, FALSE, <<Hex(str[i])>>)
      BY <2>1, <2>2, Zenon
    <3> QED BY <3>1, HexTurn
  <2>3. CASE str[i] \in Escaped /\ ~(~t /\ IsAsciiCntl(str[i]))
    <3>1. TextTurn(str, i, t) = AsText(t, i + 1, Esc(str[i]))
      BY <2>1, <2>3, Zenon
    <3>2. TextSymbol(Esc(str[i]), str, i, i + 1)
      BY <1>1, EscSymbol
    <3> QED BY <1>1, <3>1, <3>2, TextSymbolTurn
  <2>4. CASE str[i] \notin Escaped /\ ~(~t /\ IsAsciiCntl(str[i]))
    <3>1. t = TRUE /\ IsAsciiCntl(str[i])
      BY <1>2, <2>4, Zenon DEF Plain
    <3>2. CASE i < Len(str) /\ IsAsciiCntl(str[i + 1])
      <4>1. TextTurn(str, i, t) = Turn(i, FALSE, <<ToBstr>>)
        BY <2>1, <2>4, <3>2, Zenon
      <4> QED BY <3>1, <4>1, SwitchTurn
    <3>3. CASE ~(i < Len(str) /\ IsAsciiCntl(str[i + 1]))
      <4>1. TextTurn(str, i, t) = AsText(t, i + 1, Unicode(str[i]))
        BY <2>1, <2>4, <3>1, <3>3, Zenon
      <4>2. TextSymbol(Unicode(str[i]), str, i, i + 1)
        BY <1>1, <3>1, ControlSymbol
      <4> QED BY <1>1, <4>1, <4>2, TextSymbolTurn
    <3> QED BY <3>2, <3>3
  <2> QED BY <2>2, <2>3, <2>4
<1>3. CASE Plain(str[i])
  <2> DEFINE char == cbor_next_utf8(str, i)
             end == InvalidEnd(str, i)
             sym == IF IsHidden(char.cp) THEN Unicode(char.cp) ELSE Raw(SubSeq(str, i, char.next - 1))
  <2>1. TextTurn(str, i, t) =
          IF char = NoChar
          THEN Turn(end, FALSE, (IF t THEN <<ToBstr>> ELSE << >>) \o HexRun(str, i, end - i))
          ELSE AsText(t, char.next, sym)
    BY <1>3, PlainTurns, Zenon
  <2>2. end \in (i + 1)..(Len(str) + 1)
    BY InvalidEndIn
  <2>3. char = NoChar \/
        \E n \in i..Len(str) : /\ CodePoint(SubSeq(str, i, n)) # -1
                               /\ char = [cp |-> CodePoint(SubSeq(str, i, n)), next |-> n + 1]
    BY NextCharacter
  <2>4. CASE char = NoChar
    <3> HIDE DEF end, char, sym
    <3>1. TextTurn(str, i, t) = Turn(end, FALSE, (IF t THEN <<ToBstr>> ELSE << >>) \o HexRun(str, i, end - i))
      BY <2>1, <2>4
    <3> QED BY <2>2, <3>1, InvalidTurn
  <2>5. CASE char # NoChar
    <3>1. PICK n \in i..Len(str) : /\ CodePoint(SubSeq(str, i, n)) # -1
                                   /\ char = [cp |-> CodePoint(SubSeq(str, i, n)), next |-> n + 1]
      BY <2>3, <2>5
    <3>2. char.cp = CodePoint(SubSeq(str, i, n)) /\ char.next = n + 1 /\ char.next - 1 = n
      BY <3>1
    <3>3. TextTurn(str, i, t) = AsText(t, char.next, sym)
      BY <2>1, <2>5, Zenon
    <3> HIDE DEF end, char
    <3>4. TextSymbol(sym, str, i, n + 1)
      BY <1>3, <3>1, <3>2, CharacterSymbol
    <3> HIDE DEF sym
    <3>5. n + 1 \in (i + 1)..(Len(str) + 1)
      OBVIOUS
    <3> QED BY <3>2, <3>3, <3>4, <3>5, TextSymbolTurn
  <2> QED BY <2>4, <2>5
<1> QED BY <1>2, <1>3

\* What the loop does in a turn, and where it may be
TextStep(str, prev) ==
  LET turn == TextTurn(str, prev.next, prev.in_text)
  IN  IF prev.next > Len(str) THEN prev ELSE [turn EXCEPT !.out = prev.out \o @]

Turns(str) ==
  { turn \in [next : 1..(Len(str) + 1), in_text : BOOLEAN, out : Seq(Symbol)] :
      Prints(turn.out, turn.next, turn.in_text, str) }

IsTurn(turn) == \E j, u, o : turn = Turn(j, u, o)

LEMMA TurnForm ==
  ASSUME NEW str, NEW i, NEW t, t \in BOOLEAN
  PROVE  IsTurn(TextTurn(str, i, t))
<1>1. \A j, u, o : IsTurn(Turn(j, u, o))
  BY DEF IsTurn
<1>2. \A u, j, sym : IsTurn(AsText(u, j, sym))
  BY <1>1 DEF AsText
<1>3. CASE ~Plain(str[i])
  <2>1. \/ TextTurn(str, i, t) = Turn(i + 1, FALSE, <<Hex(str[i])>>)
        \/ TextTurn(str, i, t) = AsText(t, i + 1, Esc(str[i]))
        \/ TextTurn(str, i, t) = Turn(i, FALSE, <<ToBstr>>)
        \/ TextTurn(str, i, t) = AsText(TRUE, i + 1, Unicode(str[i]))
    BY <1>3, ControlTurns, Zenon
  <2> QED BY <1>1, <1>2, <2>1
<1>4. CASE Plain(str[i])
  <2> DEFINE char == cbor_next_utf8(str, i)
             end == InvalidEnd(str, i)
             printed == (IF t THEN <<ToBstr>> ELSE << >>) \o HexRun(str, i, end - i)
             sym == IF IsHidden(char.cp) THEN Unicode(char.cp) ELSE Raw(SubSeq(str, i, char.next - 1))
  <2>1. \/ TextTurn(str, i, t) = Turn(end, FALSE, printed)
        \/ TextTurn(str, i, t) = AsText(t, char.next, sym)
    BY <1>4, PlainTurns, Zenon
  <2> HIDE DEF char, end, printed, sym
  <2> QED BY <1>1, <1>2, <2>1
<1> QED BY <1>3, <1>4

\* A turn goes on, or only changes the notation to h'...'.
Progress(turn) == 2 * (turn.next - 1) + (IF turn.in_text THEN 0 ELSE 1)

LEMMA StepKeeps ==
  ASSUME NEW str \in Seq(0..255), NEW prev \in Turns(str)
  PROVE  /\ TextStep(str, prev) \in Turns(str)
         /\ prev.next > Len(str) => TextStep(str, prev) = prev
         /\ prev.next <= Len(str) =>
              TextStep(str, prev).next > Len(str) \/ Progress(TextStep(str, prev)) >= Progress(prev) + 1
<1>1. /\ prev.next \in 1..(Len(str) + 1) /\ prev.in_text \in BOOLEAN /\ prev.out \in Seq(Symbol)
      /\ Prints(prev.out, prev.next, prev.in_text, str)
  BY DEF Turns
<1>2. Len(str) \in Nat
  OBVIOUS
<1>3. CASE prev.next > Len(str)
  <2>1. TextStep(str, prev) = prev
    BY <1>3, Zenon DEF TextStep
  <2>2. ~(prev.next <= Len(str))
    BY <1>1, <1>2, <1>3
  <2> QED BY <1>3, <2>1, <2>2, Zenon
<1>4. CASE ~(prev.next > Len(str))
  <2>1. PICK i \in 1..Len(str) : i = prev.next
    BY <1>1, <1>2, <1>4
  <2>2. PICK t \in BOOLEAN : t = prev.in_text
    BY <1>1
  <2>3. PICK turn : turn = TextTurn(str, i, t)
    OBVIOUS
  <2>4. PICK j, u, o : turn = Turn(j, u, o)
    <3>1. IsTurn(turn)
      BY <2>3, TurnForm, Zenon
    <3> QED BY <3>1 DEF IsTurn
  <2>5. turn.next = j /\ turn.in_text = u /\ turn.out = o
    BY <2>4 DEF Turn
  <2>6. GoodTurn(turn, str, i, t, prev.out)
    BY <1>1, <2>1, <2>2, <2>3, TurnPrints
  <2>7. /\ Prints(prev.out \o o, j, u, str) /\ j \in i..(Len(str) + 1) /\ u \in BOOLEAN
        /\ j = i => t /\ ~u
    BY <2>5, <2>6 DEF GoodTurn
  <2>8. TextStep(str, prev) = [next |-> j, in_text |-> u, out |-> prev.out \o o]
    <3>1. TextStep(str, prev) = [turn EXCEPT !.out = prev.out \o @]
      BY <1>4, <2>1, <2>2, <2>3, Zenon DEF TextStep
    <3>2. turn = [next |-> j, in_text |-> u, out |-> o]
      BY <2>4 DEF Turn
    <3> QED BY <3>1, <3>2
  <2>9. prev.out \o o \in Seq(Symbol)
    BY <2>7 DEF Prints
  <2>10. TextStep(str, prev) \in Turns(str)
    <3>1. PICK r : r = TextStep(str, prev)
      OBVIOUS
    <3>2. r.next = j /\ r.in_text = u /\ r.out = prev.out \o o
      BY <2>8, <3>1
    <3>3. j \in 1..(Len(str) + 1)
      BY <1>2, <2>1, <2>7
    <3>4. r \in [next : 1..(Len(str) + 1), in_text : BOOLEAN, out : Seq(Symbol)]
      BY <2>7, <2>8, <2>9, <3>1, <3>3
    <3>5. Prints(r.out, r.next, r.in_text, str)
      BY <2>7, <3>2
    <3>6. r \in Turns(str)
      BY <3>4, <3>5 DEF Turns
    <3> QED BY <3>1, <3>6
  <2>11. 2 * (j - 1) + (IF u THEN 0 ELSE 1) >= 2 * (i - 1) + (IF t THEN 0 ELSE 1) + 1
    BY <2>7
  <2>12. Progress(TextStep(str, prev)) >= Progress(prev) + 1
    BY <2>1, <2>2, <2>8, <2>11 DEF Progress
  <2> QED BY <1>4, <2>10, <2>12
<1> QED BY <1>3, <1>4

LEMMA NothingPrinted ==
  ASSUME NEW str \in Seq(0..255)
  PROVE  Turn(1, TRUE, << >>) \in Turns(str)
<1>1. << >> \in Seq(Symbol) /\ Len(<< >>) = 0 /\ 1 \in 1..(Len(str) + 1)
  OBVIOUS
<1>2. SubSeq(str, 1, 1 - 1) = << >>
  OBVIOUS
<1>3. Prints(<< >>, 1, TRUE, str)
  <2> DEFINE f == [n \in 0..0 |-> << >>]
  <2>1. f[0] = << >> /\ f = [n \in 0..0 |-> IF n = 0 THEN << >> ELSE f[n - 1] \o SymbolBytes(<< >>[n])]
    OBVIOUS
  <2> HIDE DEF f
  <2>2. Spelt(<< >>, f) /\ f[Len(<< >>)] = SubSeq(str, 1, 1 - 1)
    BY <1>1, <1>2, <2>1 DEF Spelt
  <2>3. InText(<< >>, 1)
    BY DEF InText
  <2>4. \A n \in 1..0 : FALSE
    OBVIOUS
  <2> QED BY <1>1, <2>2, <2>3, <2>4 DEF Prints
<1>4. PICK turn : turn = Turn(1, TRUE, << >>)
  OBVIOUS
<1>5. turn = [next |-> 1, in_text |-> TRUE, out |-> << >>]
  BY <1>4 DEF Turn
<1>6. turn \in Turns(str)
  BY <1>1, <1>3, <1>5 DEF Turns
<1> QED BY <1>4, <1>6

\* The loop of edn_text: its turns, and that they are enough
LEMMA LoopExists ==
  ASSUME NEW str \in Seq(0..255)
  PROVE  \E from : /\ edn_text(str) = from[2 * Len(str) + 1]
                   /\ from[0] \in Turns(str)
                   /\ \A n \in 1..(2 * Len(str) + 1) : from[n] = TextStep(str, from[n - 1])
<1> DEFINE N == 2 * Len(str) + 1
           S == Turns(str)
           first == Turn(1, TRUE, << >>)
           next(prev) == TextStep(str, prev)
           rule == [f \in [0..N -> S] |-> [n \in 0..N |-> IF n = 0 THEN first ELSE next(f[n - 1])]]
           from[n \in 0..(2 * Len(str) + 1)] ==
             IF n = 0 THEN Turn(1, TRUE, << >>)
             ELSE LET prev == from[n - 1]
                      turn == TextTurn(str, prev.next, prev.in_text)
                  IN  IF prev.next > Len(str) THEN prev
                      ELSE [turn EXCEPT !.out = prev.out \o @]
<1>1. N \in Nat
  OBVIOUS
<1>2. first \in S /\ S # {}
  BY NothingPrinted
<1>3. \A prev \in S : next(prev) \in S
  BY StepKeeps
<1>4. edn_text(str) = from[2 * Len(str) + 1]
  BY Zenon DEF edn_text
<1> HIDE DEF next, first, S, N, from
<1>5. rule \in [[0..N -> S] -> [0..N -> S]]
  <2>1. ASSUME NEW f \in [0..N -> S], NEW n \in 0..N, n # 0
        PROVE  next(f[n - 1]) \in S
    <3>1. n - 1 \in 0..N
      BY <1>1, <2>1
    <3> QED BY <1>3, <3>1
  <2> QED BY <1>2, <2>1
<1>6. rule \in Rules(N, S)
  <2>1. ASSUME NEW f \in [0..N -> S], NEW g \in [0..N -> S], NEW n \in 0..N,
               \A k \in 0..(n - 1) : f[k] = g[k]
        PROVE  rule[f][n] = rule[g][n]
    <3>1. n # 0 => f[n - 1] = g[n - 1]
      BY <1>1, <2>1
    <3> QED BY <3>1
  <2> HIDE DEF rule
  <2> QED BY <1>5, <2>1 DEF Rules
<1>7. PICK f \in [0..N -> S] : f = rule[f]
  <2> HIDE DEF rule
  <2> QED BY <1>1, <1>2, <1>6, RecursionExists
<1>8. f = [n \in 0..N |-> IF n = 0 THEN first ELSE next(f[n - 1])]
  <2>1. rule[f] = [n \in 0..N |-> IF n = 0 THEN first ELSE next(f[n - 1])]
    OBVIOUS
  <2> HIDE DEF rule
  <2> QED BY <1>7, <2>1
<1> HIDE DEF rule
<1>9. from = [n \in 0..N |-> IF n = 0 THEN first ELSE next(from[n - 1])]
  BY <1>8 DEF from, first, next, N, TextStep
<1>10. from[0] = first /\ \A n \in 1..N : from[n] = next(from[n - 1])
  <2>1. 0 \in 0..N /\ \A n \in 1..N : n \in 0..N /\ n # 0
    BY <1>1
  <2> QED BY <1>9, <2>1
<1> QED BY <1>2, <1>4, <1>10 DEF S, N, next

LEMMA LoopEnds ==
  ASSUME NEW str \in Seq(0..255)
  PROVE  edn_text(str) \in Turns(str) /\ edn_text(str).next = Len(str) + 1
<1> DEFINE N == 2 * Len(str) + 1
<1>1. Len(str) \in Nat /\ N \in Nat
  OBVIOUS
<1>2. PICK from : /\ edn_text(str) = from[N]
                  /\ from[0] \in Turns(str)
                  /\ \A n \in 1..N : from[n] = TextStep(str, from[n - 1])
  BY LoopExists
<1> DEFINE P(n) == n <= N => /\ from[n] \in Turns(str)
                             /\ from[n].next > Len(str) \/ Progress(from[n]) >= n
<1>3. \A turn \in Turns(str) : /\ turn.next \in 1..(Len(str) + 1) /\ turn.in_text \in BOOLEAN
                               /\ Progress(turn) = 2 * (turn.next - 1) + (IF turn.in_text THEN 0 ELSE 1)
  BY DEF Turns, Progress
<1>4. \A turn \in Turns(str) : Progress(turn) \in Nat /\ (turn.next <= Len(str) => Progress(turn) < N)
  BY <1>1, <1>3
<1>5. P(0)
  BY <1>2, <1>4
<1>6. ASSUME NEW n \in Nat, P(n), n + 1 <= N
      PROVE  /\ from[n + 1] \in Turns(str)
             /\ from[n + 1].next > Len(str) \/ Progress(from[n + 1]) >= n + 1
  <2>1. PICK prev \in Turns(str) : prev = from[n] /\ (prev.next > Len(str) \/ Progress(prev) >= n)
    BY <1>1, <1>6
  <2>2. from[n + 1] = TextStep(str, prev)
    <3>1. n + 1 \in 1..N /\ n + 1 - 1 = n
      BY <1>1, <1>6
    <3> QED BY <1>2, <2>1, <3>1
  <2>3. PICK turn \in Turns(str) : /\ turn = TextStep(str, prev)
                                   /\ prev.next > Len(str) => turn = prev
                                   /\ prev.next <= Len(str) =>
                                        turn.next > Len(str) \/ Progress(turn) >= Progress(prev) + 1
    BY StepKeeps
  <2>4. turn.next > Len(str) \/ Progress(turn) >= n + 1
    <3>1. prev.next > Len(str) \/ prev.next <= Len(str)
      BY <1>1, <1>3
    <3>2. CASE prev.next > Len(str)
      BY <2>3, <3>2
    <3>3. CASE prev.next <= Len(str) /\ ~(prev.next > Len(str))
      <4>1. Progress(prev) \in Nat /\ Progress(turn) \in Nat /\ Progress(prev) >= n
        BY <1>4, <2>1, <3>3
      <4> QED BY <2>3, <3>3, <4>1
    <3> QED BY <3>1, <3>2, <3>3
  <2> QED BY <2>2, <2>3, <2>4
<1>7. ASSUME NEW n \in Nat, P(n)
      PROVE  P(n + 1)
  BY <1>6, <1>7
<1> HIDE DEF P
<1>8. \A n \in Nat : P(n)
  <2> DEFINE Bad == {n \in Nat : ~P(n)}
  <2>1. SUFFICES ASSUME Bad # {}
                 PROVE  FALSE
    OBVIOUS
  <2>2. PICK x \in Bad : \A y \in Bad : x <= y
    BY <2>1, LeastNat
  <2>3. x # 0
    BY <1>5, <2>2
  <2>4. x - 1 \in Nat /\ x - 1 + 1 = x /\ ~(x <= x - 1)
    BY <2>2, <2>3
  <2>5. P(x - 1)
    BY <2>2, <2>4
  <2> QED BY <1>7, <2>2, <2>4, <2>5
<1>9. PICK turn : turn = from[N]
  OBVIOUS
<1>10. turn \in Turns(str) /\ (turn.next > Len(str) \/ Progress(turn) >= N)
  BY <1>1, <1>8, <1>9 DEF P
<1> HIDE DEF N
<1>11. turn.next > Len(str)
  BY <1>1, <1>3, <1>4, <1>10
<1>12. turn.next = Len(str) + 1
  BY <1>1, <1>3, <1>10, <1>11
<1> QED BY <1>2, <1>9, <1>10, <1>12

LEMMA SpeltOnce ==
  ASSUME NEW out \in Seq(Symbol), NEW f, Spelt(out, f), NEW g, Spelt(out, g)
  PROVE  f[Len(out)] = g[Len(out)]
<1> DEFINE Bad == {n \in Nat : n <= Len(out) /\ f[n] # g[n]}
<1>1. /\ \A n \in 0..Len(out) : f[n] = IF n = 0 THEN << >> ELSE f[n - 1] \o SymbolBytes(out[n])
      /\ \A n \in 0..Len(out) : g[n] = IF n = 0 THEN << >> ELSE g[n - 1] \o SymbolBytes(out[n])
  BY DEF Spelt
<1>2. Len(out) \in Nat
  OBVIOUS
<1>3. ASSUME Bad # {}
      PROVE  FALSE
  <2>1. PICK x \in Bad : \A y \in Bad : x <= y
    BY <1>3, LeastNat
  <2>2. x \in 0..Len(out) /\ x # 0
    BY <1>1, <1>2, <2>1
  <2>3. x - 1 \in Nat /\ x - 1 <= Len(out) /\ ~(x <= x - 1)
    BY <1>2, <2>2
  <2>4. f[x - 1] = g[x - 1]
    BY <2>1, <2>3
  <2> QED BY <1>1, <2>1, <2>2, <2>4
<1> QED BY <1>2, <1>3

\* The EDN printed for the bytes of a text string, valid or not and of any
\* length, reads back as these bytes (edn_do_xstring): nothing is lost where
\* the notation changes, and no control character, quote or part of a
\* character is printed as it is.
THEOREM PrintingCorrect ==
  ASSUME probe.s \in Seq(0..255)
  PROVE  TextReadable
<1> DEFINE str == probe.s
           out == edn_text(probe.s).out
           bytes[n \in 0..Len(out)] == IF n = 0 THEN << >> ELSE bytes[n - 1] \o SymbolBytes(out[n])
<1>1. edn_text(str) \in Turns(str) /\ edn_text(str).next = Len(str) + 1
  BY LoopEnds
<1>2. out \in Seq(Symbol) /\ Prints(out, Len(str) + 1, edn_text(str).in_text, str)
  BY <1>1 DEF Turns
<1> HIDE DEF out
<1>3. PICK f : Spelt(out, f) /\ f[Len(out)] = SubSeq(str, 1, Len(str) + 1 - 1)
  BY <1>2 DEF Prints
<1>4. Spelt(out, bytes)
  <2>1. f = [n \in 0..Len(out) |-> IF n = 0 THEN << >> ELSE f[n - 1] \o SymbolBytes(out[n])]
    BY <1>3 DEF Spelt
  <2> QED BY <2>1 DEF Spelt
<1> HIDE DEF bytes
<1>5. bytes[Len(out)] = str
  <2>1. bytes[Len(out)] = f[Len(out)]
    BY <1>2, <1>3, <1>4, SpeltOnce
  <2>2. Len(str) + 1 - 1 = Len(str)
    OBVIOUS
  <2>3. SubSeq(str, 1, Len(str)) = str
    BY SubSeqFull
  <2> QED BY <1>3, <2>1, <2>2, <2>3
<1>6. \A n \in DOMAIN out : (out[n].k \in {"hex", "to_tstr"} <=> ~InText(out, n)) /\ RawIsPrintable(out[n])
  <2>1. DOMAIN out = 1..Len(out)
    BY <1>2
  <2> QED BY <1>2, <2>1 DEF Prints
<1> QED BY <1>1, <1>5, <1>6, Zenon DEF TextReadable, InText, RawIsPrintable, out, bytes

=============================================================================
