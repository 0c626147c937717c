------------------------------- MODULE Options -------------------------------
(***************************************************************************)
(* options.c: how the $options array of cbor_encode, cbor_decode and        *)
(* Cbor\Decoder becomes the arguments of the encoder and the decoder.       *)
(***************************************************************************)
EXTENDS Integers

CONSTANTS
  OptUint32Max,   \* 0xffffffff, scaled down
  MaxDepthLimit,  \* the largest max_depth, 10000, scaled down
  HtMaxSize       \* HT_MAX_SIZE, scaled down

\* The defaults, 64 and 65536, are within the limits.
ASSUME OptionsAssumption ==
  /\ OptUint32Max \in Nat /\ MaxDepthLimit \in 64..OptUint32Max
  /\ HtMaxSize \in 65536..OptUint32Max

\* A PHP value given for an option: k is its type ("absent": there is none),
\* n an integer, s a string.
OptVal == [k : {"absent", "null", "true", "false", "long", "string", "other"}, n : Int, s : STRING]
Absent == [k |-> "absent", n |-> 0, s |-> "none"]

\* What a function returns, CBOR_ERROR_INVALID_OPTIONS or 0, and what it
\* leaves in the variable of the option.
Set(x) == [ok |-> TRUE, v |-> x]
Invalid(old) == [ok |-> FALSE, v |-> old]

bool_option(old, opt) ==
  CASE opt.k = "absent" -> Set(old)
    [] opt.k \in {"true", "false"} -> Set(opt.k = "true")
    [] OTHER -> Invalid(old)

\* The names of the values beyond true and false; "-" has no meaning for this
\* option.
bool_n_option(old, opt, other_values) ==
  CASE opt.k = "absent" -> Set(old)
    [] opt.k \in {"true", "false"} -> Set(opt.k)
    [] opt.k = "string" /\ opt.s # "-" /\ \E i \in DOMAIN other_values : other_values[i] = opt.s ->
         Set(opt.s)
    [] OTHER -> Invalid(old)

\* The largest value is that of the type.
long_option(old, opt, min, nullable) ==
  CASE opt.k = "absent" \/ (nullable /\ opt.k = "null") -> Set(old)
    [] opt.k = "long" /\ opt.n >= min -> Set(opt.n)
    [] OTHER -> Invalid(old)

\* The value is cut to 32 bits, stored, and then compared.
uint32_option(old, opt, max) ==
  LET cut == opt.n % (OptUint32Max + 1)
  IN  CASE opt.k = "absent" -> Set(old)
        [] opt.k = "long" /\ opt.n >= 0 -> [ok |-> cut <= max, v |-> cut]
        [] OTHER -> Invalid(old)

-----------------------------------------------------------------------------
ExtOption == {"datetime", "bignum", "decimal", "uri"}

\* opts gives an OptVal for each of them.
cbor_override_encode_options(ext, opts) ==
  LET on(name) == bool_option(name \in ext, opts[name])
  IN  [ok |-> \A name \in ExtOption : on(name).ok, v |-> {name \in ExtOption : on(name).v}]

cbor_set_encode_options(opts) ==
  LET max_depth == uint32_option(64, opts.max_depth, MaxDepthLimit)
      string_ref == bool_n_option("false", opts.string_ref, <<"explicit">>)
      shared_ref == bool_n_option("false", opts.shared_ref, <<"-", "-", "unsafe_ref">>)
      ext == cbor_override_encode_options(ExtOption, opts)
  IN  [ ok |-> max_depth.ok /\ string_ref.ok /\ shared_ref.ok /\ ext.ok,
        v |-> [ max_depth |-> max_depth.v, string_ref |-> string_ref.v,
                shared_ref |-> shared_ref.v, ext |-> ext.v ] ]

-----------------------------------------------------------------------------
(* Decoding.  indent is edn.indent with edn.indent_char.                    *)

LenDefault == -1

cbor_init_decode_options ==
  [ max_depth |-> 64, max_size |-> 65536,
    offset |-> 0, length |-> LenDefault, string_ref |-> TRUE, shared_ref |-> "false",
    indent |-> <<0, "none">>, space |-> TRUE, byte_space |-> 0, byte_wrap |-> 0 ]

indent_option(old, opt) ==
  CASE opt.k = "absent" -> Set(old)
    [] opt.k = "false" -> Set(<<0, "none">>)
    [] opt.k = "long" /\ opt.n \in 0..16 -> Set(<<opt.n, " ">>)
    [] opt.k = "string" /\ opt.s = "\t" -> Set(<<1, "\t">>)
    [] OTHER -> Invalid(old)

byte_space_option(old, opt) ==
  CASE opt.k = "absent" -> Set(old)
    [] opt.k = "long" /\ opt.n \in 0..63 -> Set(opt.n)
    [] OTHER -> Invalid(old)

byte_wrap_option(old, opt) ==
  CASE opt.k = "absent" -> Set(old)
    [] opt.k = "false" -> Set(0)
    [] opt.k = "long" /\ opt.n \in 1..1024 -> Set(opt.n)
    [] OTHER -> Invalid(old)

\* Mutant: the largest size is not cut down to what an array can hold.
Bug_max_size_option(old, opt) == uint32_option(old, opt, OptUint32Max)

\* Sizes beyond HT_MAX_SIZE are silently reduced.
max_size_option(old, opt) ==
  LET r == uint32_option(old, opt, OptUint32Max)
  IN  IF r.ok /\ r.v > HtMaxSize THEN Set(HtMaxSize) ELSE r

\* The options in the order they are looked at, the last four with CBOR_EDN
\* only.
DecodeOption ==
  <<"max_depth", "max_size", "offset", "length", "string_ref", "shared_ref",
    "indent", "space", "byte_space", "byte_wrap">>

SetDecodeOption(name, old, opt) ==
  CASE name = "max_depth" -> uint32_option(old, opt, MaxDepthLimit)
    [] name = "max_size" -> max_size_option(old, opt)
    [] name \in {"offset", "length"} -> long_option(old, opt, 0, name = "length")
    [] name \in {"string_ref", "space"} -> bool_option(old, opt)
    [] name = "shared_ref" -> bool_n_option(old, opt, <<"shareable", "shareable_only", "unsafe_ref">>)
    [] name = "indent" -> indent_option(old, opt)
    [] name = "byte_space" -> byte_space_option(old, opt)
    [] name = "byte_wrap" -> byte_wrap_option(old, opt)

\* The options are looked at up to the first one that is not valid; what was
\* set stays.
cbor_set_decode_options(args, edn, opts) ==
  LET count == IF edn THEN 10 ELSE 6
      set(name) == SetDecodeOption(name, args[name], opts[name])
      invalid == {k \in 1..count : ~set(DecodeOption[k]).ok}
      seen == {DecodeOption[k] : k \in {k \in 1..count : \A j \in invalid : k <= j}}
  IN  [ ok |-> invalid = {},
        v |-> [name \in DOMAIN args |-> IF name \in seen THEN set(name).v ELSE args[name]] ]

=============================================================================
