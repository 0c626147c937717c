--------------------------- MODULE CborReference ---------------------------
(***************************************************************************)
(* What decoding a sequence of data items should give, as recursive         *)
(* definitions over the whole input: the grammar of RFC 8949 (Parse), and   *)
(* the PHP value the README describes for a parsed item (Eval).  The stack  *)
(* machine of DecodeZv is checked against them.  Shared references are not  *)
(* part of it.                                                              *)
(***************************************************************************)
EXTENDS CborData, SequencesExt

(* An item of the syntax tree: tok is its head, kids its content.           *)
Ast(tok, kids) == [tok |-> tok, kids |-> kids]

(* Result of parsing from some place: st is "ok", "short" (the input ends   *)
(* before the item does) or "bad" (no continuation makes it well-formed).   *)
Parsed(status, nxt, items) == [st |-> status, nxt |-> nxt, items |-> items]

LeafType == { "uint", "nint", "bytes", "text", "bool", "null", "undefined",
              "simple", "float16", "float32", "float64" }

RECURSIVE ParseItem(_, _, _), ParseMany(_, _, _, _), ParseUntilBreak(_, _, _, _), ParseChunks(_, _, _, _)

\* One data item that starts at doc[i].  mixed: FALSE for the grammar of CBOR;
\* TRUE lets an indefinite-length string have items in it that are no strings.
ParseItem(doc, i, mixed) ==
  IF i > Len(doc) THEN Parsed("short", i, << >>)
  ELSE LET tok == doc[i]
           wrap(r) == IF r.st = "ok" THEN Parsed("ok", r.nxt, <<Ast(tok, r.items)>>) ELSE r
       IN  CASE tok.t \in LeafType -> Parsed("ok", i + 1, <<Ast(tok, << >>)>>)
             [] tok.t = "simple8" /\ tok.n > 31 -> Parsed("ok", i + 1, <<Ast(tok, << >>)>>)
             [] tok.t = "array" -> wrap(ParseMany(doc, i + 1, tok.n, mixed))
             [] tok.t = "map" -> wrap(ParseMany(doc, i + 1, 2 * tok.n, mixed))
             [] tok.t = "tag" -> wrap(ParseMany(doc, i + 1, 1, mixed))
             [] tok.t \in {"array_start", "map_start"} ->
                  wrap(ParseUntilBreak(doc, i + 1, tok.t = "map_start", mixed))
             [] tok.t = "bytes_start" -> wrap(ParseChunks(doc, i + 1, "bytes", mixed))
             [] tok.t = "text_start" -> wrap(ParseChunks(doc, i + 1, "text", mixed))
             [] OTHER -> Parsed("bad", i, << >>)

\* The result r, and that of what comes behind it.
Then(r, rest) ==
  IF r.st # "ok" THEN r
  ELSE IF rest.st # "ok" THEN rest
  ELSE Parsed("ok", rest.nxt, r.items \o rest.items)

\* n data items, one after the other.
ParseMany(doc, i, n, mixed) ==
  IF n = 0 THEN Parsed("ok", i, << >>)
  ELSE LET r == ParseItem(doc, i, mixed)
       IN  Then(r, ParseMany(doc, r.nxt, n - 1, mixed))

\* Data items up to a break, which comes after whole pairs in a map.
ParseUntilBreak(doc, i, inPairs, mixed) ==
  IF i <= Len(doc) /\ doc[i].t = "break" THEN Parsed("ok", i + 1, << >>)
  ELSE LET r == ParseMany(doc, i, IF inPairs THEN 2 ELSE 1, mixed)
       IN  Then(r, ParseUntilBreak(doc, r.nxt, inPairs, mixed))

\* Definite-length strings of one type up to a break, or whatever is no
\* definite-length string of the other type.
ParseChunks(doc, i, type, mixed) ==
  IF i > Len(doc) THEN Parsed("short", i, << >>)
  ELSE IF doc[i].t = "break" THEN Parsed("ok", i + 1, << >>)
  ELSE IF doc[i].t # type /\ (doc[i].t \in {"bytes", "text"} \/ ~mixed) THEN Parsed("bad", i, << >>)
  ELSE LET r == ParseItem(doc, i, mixed)
       IN  Then(r, ParseChunks(doc, r.nxt, type, mixed))

\* What is well-formed.
ParseCbor(doc) == ParseItem(doc, 1, FALSE)

-----------------------------------------------------------------------------
(* A PHP value as a tree, without heap.                                     *)
Tree(kind, num, str, class, entries) ==
  [k |-> kind, n |-> num, s |-> str, c |-> class, ent |-> entries]
Leaf(kind, num) == Tree(kind, num, << >>, "none", << >>)
StrTree(str) == Tree("str", 0, str, "none", << >>)
Wrapped(class, num, t) == Tree("obj", num, << >>, class, <<[key |-> Undef, v |-> t]>>)

RECURSIVE Unfold(_, _)
\* The tree of a value of the heap.
Unfold(hp, v) ==
  IF v.k \notin {"arr", "obj", "ref"} THEN Tree(v.k, v.n, v.s, "none", << >>)
  ELSE LET node == hp[v.n]
       IN  Tree(v.k, node.tag, << >>, node.c,
                [i \in DOMAIN node.ent |->
                   [key |-> node.ent[i].key, v |-> Unfold(hp, node.ent[i].v)]])

-----------------------------------------------------------------------------
(* Evaluation of a syntax tree.  a: options; depth: levels left; tables:    *)
(* string tables of the namespaces around, innermost last.                  *)
Result(success, tree, tables) == [ok |-> success, v |-> tree, tables |-> tables]
Failure(tables) == Result(FALSE, Leaf("undef", 0), tables)

\* A string, by where it stands and by the flags.
StringTree(a, s, is_text, isKey) ==
  IF isKey \/ (IF is_text THEN "TEXT" ELSE "BYTE") \in a.flags
  THEN StrTree(s) ELSE Wrapped(IF is_text THEN "Text" ELSE "Byte", 0, StrTree(s))

StringAllowed(a, is_text, isKey) ==
  isKey => (IF is_text THEN "KEY_TEXT" ELSE "KEY_BYTE") \in a.flags

TextAllowed(a, is_text, s) == is_text /\ "UNSAFE_TEXT" \notin a.flags => IsUtf8(s)

\* A string is worth a reference if that takes fewer bytes than the string and
\* its head: the tag takes two and the index as many as its size asks for.
IndexBytes(index) ==
  CASE index <= IndexMax1 -> 1 [] index \in (IndexMax1 + 1)..IndexMax2 -> 2
    [] index \in (IndexMax2 + 1)..IndexMax3 -> 3 [] OTHER -> 5
Worth(len, index) == len + 1 > 2 + IndexBytes(index)

\* What a string reference refers to is kept as the string itself.
Remember(tables, s, is_text) ==
  IF tables # << >> /\ Worth(Len(s), Len(Last(tables)))
  THEN [tables EXCEPT ![Len(tables)] = Append(@, [s |-> s, is_text |-> is_text])]
  ELSE tables

\* The value of key k is the last one given, at the place of the first one.
Entries(pairs) ==
  LET firsts == {i \in DOMAIN pairs : \A j \in 1..(i - 1) : pairs[j].key # pairs[i].key}
      last(key) == CHOOSE j \in DOMAIN pairs :
                     /\ pairs[j].key = key
                     /\ \A l \in (j + 1)..Len(pairs) : pairs[l].key # key
      order == SetToSortSeq(firsts, <)
  IN  [i \in DOMAIN order |-> pairs[last(pairs[order[i]].key)]]

RECURSIVE Numeral(_)
\* An integer in decimal
Numeral(n) ==
  IF n < 0 THEN <<"-">> \o Numeral(-n)
  ELSE IF n < 10 THEN <<Digit[n + 1]>>
  ELSE Append(Numeral(n \div 10), Digit[(n % 10) + 1])

IsInt(t) == t.k \in {"long", "xuint", "xnint"}
IntOf(t) == IF t.k = "xnint" THEN -1 - t.n ELSE t.n

\* Keys of properties are strings, keys of arrays integers where they can.
KeyOf(a, t) ==
  LET str == StrVal(IF IsInt(t) THEN Numeral(IntOf(t)) ELSE t.s)
  IN  IF "MAP_AS_ARRAY" \in a.flags THEN SymtableKey(str) ELSE str

KeyAllowed(a, t) ==
  /\ t.k = "str" \/ (IsInt(t) /\ "INT_KEY" \in a.flags)
  /\ "MAP_AS_ARRAY" \notin a.flags => ~(Len(t.s) >= 1 /\ t.s[1] = "nul")

RECURSIVE Eval(_, _, _, _, _), EvalMany(_, _, _, _, _)

\* The value of one item; isKey: it stands where a map key does.
Eval(a, ast, isKey, depth, tables) ==
  LET tok == ast.tok
      is_text == tok.t \in {"text", "text_start"}
      leaf(t) == Result(TRUE, t, tables)
      whole == FlattenSeq([i \in DOMAIN ast.kids |-> ast.kids[i].tok.s])
      many == EvalMany(a, ast, 1, depth - 1, tables)
      isMap == tok.t \in {"map", "map_start"}
      size == IF isMap THEN Len(ast.kids) \div 2 ELSE Len(ast.kids)
      isEmpty == tok.t \in {"array", "map"} /\ size = 0
      vals == many.vals
      listed == [i \in DOMAIN vals |-> [key |-> Scalar("long", i - 1), v |-> vals[i]]]
      pairs == [i \in 1..(Len(vals) \div 2) |->
                  [key |-> KeyOf(a, vals[2 * i - 1]), v |-> vals[2 * i]]]
      keys == {pairs[i].key : i \in DOMAIN pairs}
      inner == Eval(a, ast.kids[1], FALSE, depth - 1, tables)
  IN  CASE tok.t = "uint" -> leaf(Leaf(IF tok.n > LongMax THEN "xuint" ELSE "long", tok.n))
        [] tok.t = "nint" -> leaf(IF tok.n > LongMax THEN Leaf("xnint", tok.n) ELSE Leaf("long", -1 - tok.n))
        [] tok.t \in {"bytes", "text"} ->
             IF StringAllowed(a, is_text, isKey) /\ TextAllowed(a, is_text, tok.s)
             THEN Result(TRUE, StringTree(a, tok.s, is_text, isKey), Remember(tables, tok.s, is_text))
             ELSE Failure(tables)
        [] tok.t \in {"bytes_start", "text_start"} ->
             IF /\ depth > 0 /\ StringAllowed(a, is_text, isKey)
                /\ \A i \in DOMAIN ast.kids : TextAllowed(a, is_text, ast.kids[i].tok.s)
             THEN leaf(StringTree(a, whole, is_text, isKey))
             ELSE Failure(tables)
        [] tok.t \in {"array", "array_start"} ->
             IF isEmpty THEN leaf(Tree("arr", 0, << >>, "array", << >>))
             ELSE IF depth > 0 /\ size <= a.max_size /\ many.ok
             THEN Result(TRUE, Tree("arr", 0, << >>, "array", listed), many.tables)
             ELSE Failure(tables)
        [] isMap ->
             LET class == IF "MAP_AS_ARRAY" \in a.flags THEN "array" ELSE "stdClass"
                 kind == IF "MAP_AS_ARRAY" \in a.flags THEN "arr" ELSE "obj"
             IN  IF isEmpty THEN leaf(Tree(kind, 0, << >>, class, << >>))
                 ELSE IF depth > 0 /\ size <= a.max_size /\ many.ok
                         /\ ("MAP_NO_DUP_KEY" \in a.flags => Cardinality(keys) = Len(pairs))
                 THEN Result(TRUE, Tree(kind, 0, << >>, class, Entries(pairs)), many.tables)
                 ELSE Failure(tables)
        [] tok.t = "tag" /\ tok.n = 256 /\ a.string_ref ->
             \* stringref-namespace: a table of its own, gone afterwards
             LET r == Eval(a, ast.kids[1], FALSE, depth - 1, Append(tables, << >>))
             IN  IF depth > 0 /\ r.ok THEN Result(TRUE, r.v, tables) ELSE Failure(tables)
        [] tok.t = "tag" /\ tok.n = 25 /\ a.string_ref ->
             \* stringref: the string with that index
             IF /\ depth > 0 /\ tables # << >> /\ inner.ok
                /\ inner.v.k = "long" /\ inner.v.n \in 0..(Len(Last(tables)) - 1)
             THEN LET str == Last(tables)[inner.v.n + 1]
                  IN  Result(TRUE, StringTree(a, str.s, str.is_text, isKey), tables)
             ELSE Failure(tables)
        [] tok.t = "tag" ->
             IF depth > 0 /\ tok.n <= LongMax /\ inner.ok /\ inner.v.k \notin {"xuint", "xnint"}
             THEN Result(TRUE, Wrapped("Tag", tok.n, inner.v), inner.tables)
             ELSE Failure(tables)
        [] tok.t = "float16" ->
             leaf(IF "FLOAT16" \in a.flags THEN Leaf("double", tok.n)
                  ELSE Wrapped("Float16", 0, Leaf("double", tok.n)))
        [] tok.t = "float32" ->
             leaf(IF "FLOAT32" \in a.flags THEN Leaf("double", tok.n)
                  ELSE Wrapped("Float32", 0, Leaf("double", tok.n)))
        [] tok.t = "float64" -> leaf(Leaf("double", tok.n))
        [] tok.t = "bool" -> leaf(Leaf("bool", tok.n))
        [] tok.t = "null" -> leaf(Leaf("null", 0))
        [] tok.t = "undefined" -> leaf(Leaf("undefobj", 0))
        [] OTHER -> Failure(tables)

\* The values of the content of a container, from the i-th on.
EvalMany(a, ast, i, depth, tables) ==
  IF i > Len(ast.kids) THEN [ok |-> TRUE, vals |-> << >>, tables |-> tables]
  ELSE LET isKey == ast.tok.t \in {"map", "map_start"} /\ i % 2 = 1
           r == Eval(a, ast.kids[i], isKey, depth, tables)
           rest == EvalMany(a, ast, i + 1, depth, r.tables)
           allowed == IF isKey THEN KeyAllowed(a, r.v) ELSE r.v.k \notin {"xuint", "xnint"}
       IN  IF r.ok /\ allowed /\ rest.ok
           THEN [ok |-> TRUE, vals |-> <<r.v>> \o rest.vals, tables |-> rest.tables]
           ELSE [ok |-> FALSE, vals |-> << >>, tables |-> tables]

-----------------------------------------------------------------------------
\* The value of a document, or a failure.
Decoded(a, doc) ==
  LET p == ParseCbor(doc)
      r == Eval(a, p.items[1], FALSE, a.max_depth, << >>)
  IN  IF p.st = "ok" /\ p.nxt = Len(doc) + 1 /\ r.v.k \notin {"xuint", "xnint"}
      THEN r ELSE Failure(<< >>)

=============================================================================
