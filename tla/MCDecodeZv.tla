----------------------------- MODULE MCDecodeZv -----------------------------
(***************************************************************************)
(* DecodeZv on small inputs: the alphabets of data items and the option     *)
(* sets of the runs, and the properties that compare a decoded value with   *)
(* the reference definition of CborReference.                               *)
(***************************************************************************)
EXTENDS DecodeZv, CborReference

Tok(type, num, str, bytes) == [t |-> type, n |-> num, s |-> str, len |-> bytes]
Op(type) == Tok(type, 0, << >>, 1)
Uint(n) == Tok("uint", n, << >>, 1)
Arr_(n) == Tok("array", n, << >>, 1)
Map_(n) == Tok("map", n, << >>, 1)
Tag(n, bytes) == Tok("tag", n, << >>, bytes)
Bytes(s) == Tok("bytes", 0, s, 1 + Len(s))
Text(s) == Tok("text", 0, s, 1 + Len(s))

Options(depth, size, flags, string_ref, shared_ref) ==
  [ max_depth |-> depth, max_size |-> size, flags |-> flags,
    string_ref |-> string_ref, shared_ref |-> shared_ref ]

-----------------------------------------------------------------------------
(* An alphabet: the data items, data lengths, modes and option sets that   *)
(* are explored together.  No option set is in two of them.                 *)

\* Nesting of everything that nests, well-formed or not.
Structure ==
  [ tokens |->
      { Uint(1), Bytes(<<"a">>), Text(<<"a">>), Op("bytes_start"), Op("text_start"),
        Arr_(0), Arr_(2), Op("array_start"), Map_(1), Op("map_start"),
        Tag(6, 1), Op("break"), Op("reserved") },
    lengths |-> 0..5, modes |-> BOOLEAN,
    args |->
      { Options(2, 1, {"BYTE", "KEY_BYTE", "INT_KEY"}, FALSE, "false"),
        Options(3, 2, {"TEXT", "KEY_TEXT", "INT_KEY", "MAP_AS_ARRAY", "SELF_DESCRIBE"}, FALSE, "false") } ]

\* Keys of maps: integers within and beyond zend_long, numeric and reserved
\* names, keys of other types.
Keys ==
  [ tokens |->
      { Uint(1), Tok("nint", 0, << >>, 1), Tok("uint", LongMax + 1, << >>, 2), Tok("nint", LongMax + 1, << >>, 2),
        Bytes(<<"1">>), Bytes(<<"nul">>), Text(<<"hi">>), Text(<<"hi", "lo">>),
        Map_(2), Map_(1), Op("map_start"), Op("break"), Op("null"),
        Tok("float16", 0, << >>, 3), Op("undefined"), Tag(6, 1), Arr_(0) },
    lengths |-> {3, 6}, modes |-> BOOLEAN,
    args |->
      { Options(1, 1, {"BYTE", "KEY_BYTE", "INT_KEY"}, FALSE, "false") } \cup
      { Options(2, 2, f, FALSE, "false") : f \in
          { {"BYTE", "KEY_BYTE", "KEY_TEXT", "INT_KEY", "MAP_NO_DUP_KEY"},
            {"BYTE", "KEY_BYTE", "INT_KEY", "MAP_AS_ARRAY"},
            {"BYTE", "KEY_BYTE", "INT_KEY", "MAP_AS_ARRAY", "MAP_NO_DUP_KEY", "UNSAFE_TEXT", "KEY_TEXT"},
            {"TEXT", "KEY_BYTE", "FLOAT16"} } } ]

\* Integer keys at the ends of zend_long and of 64 bits, and strings that are
\* their decimal notation.  Each item counts one byte: the bound is one on data
\* items.
IntKeys ==
  [ tokens |->
      { Uint(n) : n \in {LongMax, LongMax + 1, Uint64Max} } \cup
      { Tok("nint", n, << >>, 1) : n \in {LongMax, LongMax + 1, Uint64Max - 1, Uint64Max} } \cup
      { Tok("bytes", 0, Numeral(n), 1) : n \in {LongMax, -LongMax - 1, -Uint64Max - 1} } \cup
      { Map_(2), Op("null") },
    lengths |-> {5}, modes |-> {TRUE},
    args |->
      { Options(1, 2, f, FALSE, "false") : f \in
          { {"KEY_BYTE", "INT_KEY"}, {"KEY_BYTE", "INT_KEY", "MAP_NO_DUP_KEY"},
            {"KEY_BYTE", "INT_KEY", "MAP_AS_ARRAY"} } } ]

\* Values that are no containers, the self-describe tag and long heads.
Scalars ==
  [ tokens |->
      { Uint(1), Tok("uint", LongMax + 1, << >>, 9), Tok("nint", LongMax + 1, << >>, 9), Tok("bool", 0, << >>, 1),
        Tok("float16", 0, << >>, 3), Tok("float32", 0, << >>, 5), Tok("float64", 0, << >>, 9),
        Op("null"), Op("undefined"), Tok("simple", 0, << >>, 1), Tok("simple8", 31, << >>, 2),
        Tok("simple8", 32, << >>, 2), Op("reserved"), Tag(TagSelfDescribe, 3), Tag(LongMax + 1, 5),
        Tok("array", 256, << >>, 3), Tok("map", 256, << >>, 3), Tok("map", 128, << >>, 2),
        Arr_(1), Text(<<"hi", "lo">>), Text(<<"hi">>), Op("text_start"), Op("break") },
    lengths |-> {0, 1, 2, 9, 10}, modes |-> BOOLEAN,
    args |->
      { Options(3, 200, {"BYTE", "KEY_BYTE"}, FALSE, "false"),
        Options(3, 1, {"UNSAFE_TEXT", "FLOAT16", "FLOAT32", "SELF_DESCRIBE"}, FALSE, "false") } ]

\* String references, nested namespaces, strings too short for an index or
\* in chunks.  Strings and tags count one byte here and below: the bound is one
\* on data items.
Str_(s) == Tok("bytes", 0, s, 1)
abc == <<"a", "b", "c">>
StringRefs ==
  [ tokens |->
      { Uint(0), Str_(abc), Str_(<<"a">>), Arr_(2), Arr_(3),
        Map_(1), Op("bytes_start"), Op("break"), Tag(TagStringRefNs, 1), Tag(TagStringRef, 1) },
    lengths |-> {6}, modes |-> {FALSE},
    args |->
      { Options(4, 3, {"BYTE", "TEXT", "KEY_BYTE", "KEY_TEXT"}, TRUE, "false"),
        Options(3, 3, {}, TRUE, "false") } ]

\* Tables up to the index max: a string has to be longer than a reference to
\* the next index, and that gets longer on the way.
LongTable(str_lens, max) ==
  [ tokens |->
      { Str_(SubSeq(<<"a", "b", "c", "a", "b", "c", "a">>, 1, n)) : n \in str_lens } \cup
      { Uint(max), Arr_(max + 2), Tag(TagStringRefNs, 1), Tag(TagStringRef, 1) },
    lengths |-> {max + 5}, modes |-> {TRUE},
    args |-> { Options(3, max + 2, {"BYTE"}, TRUE, "false") } ]

\* Shareable values and references to them
SharedRefs ==
  [ tokens |->
      { Uint(0), Uint(1), Bytes(<< >>), Arr_(2), Map_(0), Map_(1),
        Tag(6, 1), Tag(TagShareable, 1), Tag(TagSharedRef, 1) },
    lengths |-> {6}, modes |-> {FALSE},
    args |->
      { Options(4, 2, {"BYTE", "KEY_BYTE"}, FALSE, m) : m \in {"true", "shareable", "shareable_only", "unsafe_ref"} } ]

Alphabets == {Structure, Keys, IntKeys, Scalars, StringRefs, LongTable(3..5, 2), LongTable(6..7, 3), SharedRefs}

\* The values of the constants
MCArgs == UNION {b.args : b \in Alphabets}
MCTokens == UNION {b.tokens : b \in Alphabets}
MCLengths == UNION {b.lengths : b \in Alphabets}
AlphabetOf == [a \in MCArgs |-> CHOOSE b \in Alphabets : a \in b.args]
TokensOf == [a \in MCArgs |-> AlphabetOf[a].tokens]
MCExplored(a) == TokensOf[a]
MCExploredLengths(a) == AlphabetOf[a].lengths

\* Bound: the option sets liveness is checked with; data comes in pieces with
\* those of the first two.
LiveArgs ==
  Structure.args \cup Scalars.args \cup
  { a \in StringRefs.args \cup SharedRefs.args : a.max_depth = 3 \/ a.shared_ref = "unsafe_ref" }

\* The specification, with every option set in the modes of its alphabet and
\* fairness where liveness is checked
MCInit == Init /\ oneshot \in AlphabetOf[args].modes
MCSpec == MCInit /\ [][Next]_vars /\ WF_vars(args \in LiveArgs /\ Run)

-----------------------------------------------------------------------------
\* Bound: the items that are added to see whether a rejected input could have
\* become a value.
MaxCompletion == 6

\* The data items of the input, without a self-describe tag that is skipped.
Document(n) ==
  LET doc == SubSeq(input, 1, n)
      skipped == /\ "SELF_DESCRIBE" \notin args.flags /\ n > 0
                 /\ doc[1].t = "tag" /\ doc[1].n = TagSelfDescribe
  IN  IF skipped THEN Tail(doc) ELSE doc

SyntaxErrors ==
  { "SYNTAX_BREAK_UNDERFLOW", "SYNTAX_BREAK_UNEXPECTED", "SYNTAX_INCONSISTENT_STRING_TYPE",
    "SYNTAX_INDEF_STRING_CHUNK_TYPE", "MALFORMED" }

\* The decoder accepts what the grammar derives and rejects as a syntax error
\* only what no continuation of the input makes well-formed; it asks for more
\* data only when the input is a proper prefix of something well-formed, but
\* for a container or tag that is open inside of an indefinite-length string,
\* which is rejected once it is complete.
AgreesWithGrammar ==
  /\ pc = "end" /\ error \in {"none", "EXTRANEOUS"} =>
       LET p == ParseCbor(Document(pos)) IN p.st = "ok" /\ p.nxt = Len(Document(pos)) + 1
  /\ pc = "end" /\ error \in SyntaxErrors => ParseCbor(Document(Len(input))).st = "bad"
  /\ pc = "stop" /\ error = "TRUNCATED" =>
       /\ ParseItem(Document(pos), 1, TRUE).st = "short"
       /\ \/ ParseCbor(Document(pos)).st = "short"
          \/ \E i \in DOMAIN stack : IsString(stack[i]) /\ (i < Len(stack) \/ cb_error = "TRUNCATED")

RECURSIVE Completed(_, _)
\* The input with its open items closed, if at most n more items do so.
Completed(doc, n) ==
  LET closed == Append(doc, Op("break"))
  IN  IF n = 0 \/ ParseCbor(doc).st # "short" THEN doc
      ELSE IF ParseCbor(closed).st # "bad" THEN Completed(closed, n - 1)
      ELSE Completed(Append(doc, Uint(0)), n - 1)

\* The decoded value is the one of the reference definition (which is one of
\* values without sharing), however the input was cut into pieces.  What is
\* rejected has no value, nor has it when the rest of the data comes: limits,
\* keys and types reject nothing else.
Decodes ==
  pc = "end" /\ args.shared_ref = "false" =>
    LET r == Decoded(args, Document(pos))
    IN  CASE error = "none" -> r.ok /\ Unfold(heap, root) = r.v
          [] error = "EXTRANEOUS" -> r.ok
          [] error = "TRUNCATED" -> ~r.ok
          [] OTHER -> ~Decoded(args, Completed(Document(Len(input)), MaxCompletion)).ok

\* Every call of the decoder with these option sets comes to a result, the
\* calls that go on with data cut off earlier included.
CallsTerminate == args \in LiveArgs => Terminates

\* The fewest bytes an open item still takes after the one being read.
Outstanding(item) ==
  CASE item.si_type \in {"tag", "tag_handled"} -> 0
    [] item.si_type = "array" /\ item.count > 0 -> item.count - 1
    [] item.si_type = "map" /\ item.count > 0 -> 2 * item.count - (IF ExpectsKey(item) THEN 1 ELSE 2)
    [] item.si_type = "map" /\ ExpectsKey(item) -> 2
    [] OTHER -> 1

\* cbor_decode reports truncated data only where the rest of the data cannot
\* hold what is missing: checking the count of an array or a map against
\* mem->limit ahead of its elements rejects nothing that would be complete.
TruncatedIsShort ==
  pc = "stop" /\ error = "TRUNCATED" /\ oneshot =>
    LET open == FoldLeft(LAMBDA sum, item : sum + Outstanding(item), 0, stack)
        missing == IF pos < Len(input) THEN input[pos + 1].len
                   ELSE IF pos = 0 \/ cb_error = "none" THEN 1
                   ELSE input[pos].n * (IF input[pos].t = "map" THEN 2 ELSE 1)
    IN  missing + open > length - offset

-----------------------------------------------------------------------------
(* What the documentation, the comments and the assertions say and the code *)
(* does not do.                                                             *)

\* Maps tagged {shareable} are wrapped into Cbor\Shareable with the option
\* 'shareable_only'.
ShareableOnlyWraps ==
  args.shared_ref = "shareable_only" =>
    \A i \in DOMAIN refs : refs[i].k = "obj" => heap[refs[i].n].c = "Shareable"

\* The constants of that run
ShareableOnlyArgs == { Options(3, 2, {"BYTE", "KEY_BYTE"}, FALSE, "shareable_only") }
ShareableOnlyItems(a) == SharedRefs.tokens
ShareableOnlyLengths(a) == SharedRefs.lengths

-----------------------------------------------------------------------------
\* The alphabets are such that the theorem about shared values applies.
ASSUME AlphabetAssumption == NoTrue

=============================================================================
