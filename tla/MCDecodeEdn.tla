---------------------------- MODULE MCDecodeEdn ----------------------------
(***************************************************************************)
(* DecodeEdn on all inputs of some data items, compared with the grammar of *)
(* CborReference and with a printer that is defined on syntax trees.        *)
(***************************************************************************)
EXTENDS DecodeEdn, CborReference

Tok(type, num, bytes, size) == [t |-> type, n |-> num, s |-> bytes, len |-> size]
Bare(type, num) == Tok(type, num, << >>, 1)

MCTokens ==
  { Bare(type, 1) : type \in {"uint", "bytes_start", "text_start", "array_start", "map_start", "break", "simple8"} }
  \cup { Bare("array", n) : n \in 0..3 } \cup { Bare("map", n) : n \in 0..1 }
  \cup { Tok("bytes", 0, <<"a", "b", "c">>, 4), Tok("text", 0, <<"a", "b", "c">>, 4),
         Tok("tag", 5, << >>, 1), Tok("tag", TagSelfDescribe, << >>, 3) }

OneLine == [max_depth |-> 3, self_describe |-> TRUE, indent_char |-> FALSE, indent |-> 0, space |-> TRUE, byte_wrap |-> 2]
MCArgs ==
  { OneLine,
    [OneLine EXCEPT !.max_depth = 2, !.self_describe = FALSE, !.space = FALSE],
    [OneLine EXCEPT !.indent_char = TRUE, !.indent = 2] }

-----------------------------------------------------------------------------
\* The data without a self-described tag that was skipped
doc == IF ~args.self_describe /\ input # << >> /\ IsSelfDescribe(input[1])
       THEN Tail(input) ELSE input
Skipped == Len(input) - Len(doc)

\* The notation has no error exactly if the data is one data item, says that it
\* is truncated exactly if it can go on, and otherwise that it is wrong; all of
\* that by the grammar in which an indefinite-length string may have items in
\* it that are no strings, which this decoder lets pass at any nesting.
EdnAgreesWithGrammar ==
  pc = "end" =>
    LET p == ParseItem(doc, 1, TRUE)
    IN  \/ error \in {"none", "EXTRANEOUS"} /\ p.st = "ok" /\ p.nxt = Len(doc) + 1
        \/ error \in {"TRUNCATED", "DEPTH", "UNSUPPORTED_SIZE"} /\ p.st = "short"
        \/ error \in {"SYNTAX", "MALFORMED"} /\ p.st = "bad"

\* "Indefinite-length string can only contain definite-length strings of the
\* same type as chunks": data that has something else is not passed for a data
\* item.
OnlyChunksInStrings ==
  pc = "end" /\ error = "none" => ParseCbor(doc).st = "ok"

-----------------------------------------------------------------------------
(* The notation of a syntax tree.                                           *)

IsIndef(ast) == ast.tok.t \in {"bytes_start", "text_start", "array_start", "map_start"}

RECURSIVE Size(_), Notation(_, _, _), Items(_, _, _, _)

\* The data items of a tree, breaks included
Size(ast) == FoldFunction(+, 1 + (IF IsIndef(ast) THEN 1 ELSE 0), [i \in DOMAIN ast.kids |-> Size(ast.kids[i])])

Line(level) == IF args.indent_char THEN <<Nl(level)>> ELSE << >>
LineOrSpace(level) == IF args.indent_char THEN <<Nl(level)>> ELSE IF args.space THEN <<Sym(" ")>> ELSE << >>
ValueAt(at) == <<[c |-> "v", n |-> at]>>

\* The pieces of a byte string of a size
Broken(s) == args.byte_wrap # 0 /\ Len(s) > args.byte_wrap
StringAt(tok, at, level) ==
  IF tok.t = "bytes" /\ Broken(tok.s)
  THEN FlattenSeq([i \in 1..((Len(tok.s) + args.byte_wrap - 1) \div args.byte_wrap) |->
                     (IF i = 1 THEN << >> ELSE LineOrSpace(level)) \o ValueAt(at)])
  ELSE ValueAt(at)

\* The items of a container from the i-th on, separated
Items(ast, i, at, level) ==
  LET isKey == ast.tok.t \in {"map", "map_start"} /\ i % 2 = 1
      sep == IF i = Len(ast.kids) THEN << >>
             ELSE IF isKey THEN <<Sym(":")>> \o (IF args.space THEN <<Sym(" ")>> ELSE << >>)
             ELSE <<Sym(",")>> \o LineOrSpace(level)
  IN  IF i > Len(ast.kids) THEN << >>
      ELSE Notation(ast.kids[i], at, level) \o sep \o Items(ast, i + 1, at + Size(ast.kids[i]), level)

\* The notation of a tree whose head is the data item at, at a level
Notation(ast, at, level) ==
  LET type == ast.tok.t
      deeper == level + Width
      open == CASE type = "array" -> "[" [] type = "array_start" -> "[_"
                [] type = "map" -> "{" [] type = "map_start" -> "{_" [] OTHER -> "(_"
      close == CASE open \in {"[", "[_"} -> "]" [] open \in {"{", "{_"} -> "}" [] OTHER -> ")"
  IN  CASE type \in {"bytes", "text"} -> StringAt(ast.tok, at, level)
        [] type \in {"bytes_start", "text_start"} /\ ast.kids = << >> -> ValueAt(at + 1)
        [] type \in {"array", "map"} /\ ast.kids = << >> -> ValueAt(at)
        [] type = "tag" /\ ast.kids[1].tok.t = "bytes" /\ Broken(ast.kids[1].tok.s) ->
             ValueAt(at) \o <<Sym("(")>> \o Line(deeper) \o StringAt(ast.kids[1].tok, at + 1, deeper)
               \o Line(level) \o <<Sym(")")>>
        [] type = "tag" -> ValueAt(at) \o <<Sym("(")>> \o Notation(ast.kids[1], at + 1, level) \o <<Sym(")")>>
        [] type \in LeafType \cup {"simple8"} -> ValueAt(at)
        [] OTHER -> <<Sym(open)>> \o (IF IsIndef(ast) THEN LineOrSpace(deeper) ELSE Line(deeper))
                      \o Items(ast, 1, at + 1, deeper) \o Line(level) \o <<Sym(close)>>

\* The notation that was written while the data was read, separators taken
\* back included, is that of the syntax tree.
Prints ==
  pc = "end" /\ error = "none" =>
    LET p == ParseCbor(doc) IN p.st = "ok" => str = Notation(p.items[1], Skipped + 1, 0)

=============================================================================
