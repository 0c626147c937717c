----------------------------- MODULE DecodeEdn -----------------------------
(***************************************************************************)
(* cbor_decode with CBOR_EDN: decode_edn.h writes the diagnostic notation   *)
(* of the data while it reads it.  As in DecodeZv a complete container is   *)
(* appended to the one below, one level of edn_append at a step:            *)
(*   start   cbor_decode_process                                            *)
(*   item    head of the loop of decode_nested                              *)
(*   append  edn_append, its text is in `str` already                       *)
(*   loop    dec_item returned to decode_nested                             *)
(*   stop    cbor_decode_process returned `error`                           *)
(*   end     edn_dec_finish is done                                         *)
(***************************************************************************)
EXTENDS CborData

CONSTANTS
  ArgsSet,    \* the option sets of the calls
  Tokens,     \* the data items the input is made of
  MaxItems    \* bound: data items of the input

\* indent_char: whether there are new lines at all; indent is the width
Args == [max_depth : Nat, self_describe : BOOLEAN,
         indent_char : BOOLEAN, indent : Nat, space : BOOLEAN, byte_wrap : Nat]

ASSUME EdnAssumption ==
  /\ ArgsSet \subseteq Args
  /\ Tokens \subseteq Token
  /\ MaxItems \in Nat

TagSelfDescribe == 55799

VARIABLES
  args,          \* ctx->args
  input,         \* data items looked at so far
  pos,           \* data items consumed
  pc, error,
  cb_error,      \* ctx->cb_error
  stack,         \* ctx->stack_top and below, the top last
  str,           \* u.edn.str
  indent_level   \* u.edn.indent_level

vars == <<args, input, pos, pc, error, cb_error, stack, str, indent_level>>

\* stack_item_edn
Item == [ si_type : {"byte", "text", "array", "map", "tag"}, count : Nat,
          indef_appended : BOOLEAN, opt_indent : 0..2, map_is_key : BOOLEAN ]

stack_new_item(type, cnt) ==
  [ si_type |-> type, count |-> cnt, indef_appended |-> FALSE, opt_indent |-> 0,
    map_is_key |-> type = "map" ]

\* The notation is a sequence of symbols: brackets and separators, "nl" with
\* the indentation that follows it, and "v" for the text of a data item, of
\* which n is the place in the input.
Symbol == [ c : {"[", "[_", "]", "{", "{_", "}", "(", "(_", ")", ",", ":", " ", "nl", "v", "error"},
            n : Nat ]
Sym(c) == [c |-> c, n |-> 0]
Text == [c |-> "v", n |-> pos + 1]
Nl(level) == [c |-> "nl", n |-> level]

Top == stack[Len(stack)]
Below == SubSeq(stack, 1, Len(stack) - 1)
IsString(item) == item.si_type \in {"byte", "text"}

-----------------------------------------------------------------------------
(* Space and indentation.                                                   *)

edn_append_space == IF args.space THEN <<Sym(" ")>> ELSE << >>

edn_append_nl(level, space) ==
  IF args.indent_char THEN <<Nl(level)>> ELSE IF space THEN edn_append_space ELSE << >>

\* The level after edn_indent
Indented == IF args.indent_char THEN indent_level + args.indent ELSE indent_level

\* Mutant: the level goes back by one, not by the width.
Bug_Deindented == IF args.indent_char THEN indent_level - 1 ELSE indent_level

Deindented == IF args.indent_char THEN indent_level - args.indent ELSE indent_level

-----------------------------------------------------------------------------
(* How a callback ends, and the stack.                                      *)

\* RETURN_CB_ERROR
Raise(e) == cb_error' = e /\ pc' = "loop"

\* The callback calls edn_append: text is written and the stack looked at.
edn_append(out, items) ==
  /\ str' = out
  /\ stack' = items
  /\ pc' = "append"
  /\ UNCHANGED cb_error

\* stack_push_item after the opening text was written
stack_push_item(out, item) ==
  /\ str' = out
  /\ \/ /\ Len(stack) >= args.max_depth
        /\ Raise("DEPTH")
        /\ UNCHANGED stack
     \/ /\ Len(stack) < args.max_depth
        /\ stack' = Append(stack, item)
        /\ pc' = "loop"
        /\ UNCHANGED cb_error

Consume == pos' = pos + 1

-----------------------------------------------------------------------------
(* edn_append, one level.                                                   *)

\* The separator after an item of a container that goes on
Separator == <<Sym(",")>> \o edn_append_nl(indent_level, TRUE)

\* The end of a container with a length
Closed(bracket) == edn_append_nl(Deindented, FALSE) \o <<Sym(bracket)>>

\* The items left in a container; 0 stands for indefinite length.
CountDown(count) == IF count = 0 THEN 0 ELSE count - 1

\* Nothing is open: the notation is complete.
AppendToRoot ==
  /\ pc = "append" /\ stack = << >>
  /\ pc' = "loop"
  /\ UNCHANGED <<args, input, pos, error, cb_error, stack, str, indent_level>>

edn_append_to_array ==
  /\ pc = "append" /\ stack # << >> /\ Top.si_type = "array"
  /\ \/ /\ Top.count = 1
        /\ edn_append(str \o Closed("]"), Below)
        /\ indent_level' = Deindented
     \/ /\ Top.count # 1
        /\ stack' = Append(Below, [Top EXCEPT !.indef_appended = TRUE,
                                              !.count = CountDown(@)])
        /\ str' = str \o Separator
        /\ pc' = "loop"
        /\ UNCHANGED <<cb_error, indent_level>>
  /\ UNCHANGED <<args, input, pos, error>>

edn_append_to_map ==
  /\ pc = "append" /\ stack # << >> /\ Top.si_type = "map"
  /\ \/ /\ Top.map_is_key
        /\ stack' = Append(Below, [Top EXCEPT !.map_is_key = FALSE])
        /\ str' = str \o <<Sym(":")>> \o edn_append_space
        /\ pc' = "loop"
        /\ UNCHANGED <<cb_error, indent_level>>
     \/ /\ ~Top.map_is_key /\ Top.count = 1
        /\ edn_append(str \o Closed("}"), Below)
        /\ indent_level' = Deindented
     \/ /\ ~Top.map_is_key /\ Top.count # 1
        /\ stack' = Append(Below, [Top EXCEPT !.indef_appended = TRUE, !.map_is_key = TRUE,
                                              !.count = CountDown(@)])
        /\ str' = str \o Separator
        /\ pc' = "loop"
        /\ UNCHANGED <<cb_error, indent_level>>
  /\ UNCHANGED <<args, input, pos, error>>

\* edn_si_pop: a tag that was indented for a long byte string ends its line.
edn_append_to_tag ==
  /\ pc = "append" /\ stack # << >> /\ Top.si_type = "tag"
  /\ \/ /\ Top.opt_indent = 2
        /\ edn_append(str \o Closed(")"), Below)
        /\ indent_level' = Deindented
     \/ /\ Top.opt_indent # 2
        /\ edn_append(Append(str, Sym(")")), Below)
        /\ UNCHANGED indent_level
  /\ UNCHANGED <<args, input, pos, error>>

\* Inside of an indefinite-length string nothing is written after an item.
AppendToString ==
  /\ pc = "append" /\ stack # << >> /\ IsString(Top)
  /\ pc' = "loop"
  /\ UNCHANGED <<args, input, pos, error, cb_error, stack, str, indent_level>>

-----------------------------------------------------------------------------
(* The callbacks of dec_item.                                               *)

AtItem(tok, types) == pc = "item" /\ tok.t \in types

\* Integers, floats and simple values
ProcScalar(tok) ==
  /\ AtItem(tok, {"uint", "nint", "float16", "float32", "float64", "null", "undefined", "bool",
                  "simple", "simple8"})
  /\ tok.t = "simple8" => tok.n > 31
  /\ Consume
  /\ edn_append(Append(str, Text), stack)
  /\ UNCHANGED <<args, error, indent_level>>

\* The text of a string: a byte string is broken into pieces.
StringText(tok, level) ==
  LET wrap == IF tok.t = "bytes" THEN args.byte_wrap ELSE 0
      breaks == IF wrap = 0 \/ tok.s = << >> THEN 0 ELSE (Len(tok.s) - 1) \div wrap
      between == edn_append_nl(level, TRUE)
      step == Len(between) + 1
  IN  [i \in 1..(step * breaks + 1) |-> IF (i - 1) % step = 0 THEN Text ELSE between[1]]

\* edn_do_xstring: a string of its own, or a part of an indefinite-length one
\* (the first part opens it), or the content of a tag, which is given a line
\* of its own if it is to be broken.
edn_do_xstring(tok) ==
  LET type == IF tok.t = "text" THEN "text" ELSE "byte"
      isPart == stack # << >> /\ IsString(Top)
      isFirst == isPart /\ ~Top.indef_appended
      isWrapped == /\ tok.t = "bytes" /\ args.byte_wrap # 0 /\ Len(tok.s) > args.byte_wrap
                   /\ stack # << >> /\ Top.opt_indent = 1
      level == IF isFirst \/ isWrapped THEN Indented ELSE indent_level
      before == IF isFirst THEN <<Sym("(_")>> \o edn_append_nl(level, TRUE)
                ELSE IF isPart THEN Separator
                ELSE IF isWrapped THEN edn_append_nl(level, FALSE)
                ELSE << >>
      top == IF isPart THEN [Top EXCEPT !.indef_appended = TRUE] ELSE [Top EXCEPT !.opt_indent = 2]
  IN  /\ AtItem(tok, {"bytes", "text"})
      /\ Consume
      /\ \/ /\ isPart /\ Top.si_type # type
            /\ Raise("SYNTAX")
            /\ UNCHANGED <<str, stack, indent_level>>
         \/ /\ ~(isPart /\ Top.si_type # type)
            /\ indent_level' = level
            /\ edn_append(str \o before \o StringText(tok, level),
                          IF isPart \/ isWrapped THEN Append(Below, top) ELSE stack)
      /\ UNCHANGED <<args, error>>

ProcStringStart(tok) ==
  /\ AtItem(tok, {"bytes_start", "text_start"})
  /\ Consume
  /\ stack_push_item(str, stack_new_item(IF tok.t = "text_start" THEN "text" ELSE "byte", 0))
  /\ UNCHANGED <<args, error, indent_level>>

\* Arrays and maps, with a length or without; an empty one is one piece.
ProcContainerStart(tok) ==
  LET isMap == tok.t \in {"map", "map_start"}
      isIndef == tok.t \in {"array_start", "map_start"}
      bracket == IF isMap THEN (IF isIndef THEN "{_" ELSE "{") ELSE (IF isIndef THEN "[_" ELSE "[")
  IN  /\ AtItem(tok, {"array", "array_start", "map", "map_start"})
      /\ isIndef \/ tok.n <= Uint32Max
      /\ Consume
      /\ \/ /\ ~isIndef /\ tok.n = 0
            /\ edn_append(Append(str, Text), stack)
            /\ UNCHANGED indent_level
         \/ /\ isIndef \/ tok.n # 0
            /\ indent_level' = Indented
            /\ stack_push_item(str \o <<Sym(bracket)>> \o edn_append_nl(Indented, isIndef),
                               stack_new_item(IF isMap THEN "map" ELSE "array", IF isIndef THEN 0 ELSE tok.n))
      /\ UNCHANGED <<args, error>>

edn_proc_tag(tok) ==
  /\ AtItem(tok, {"tag"})
  /\ Consume
  /\ stack_push_item(str \o <<Text, Sym("(")>>, [stack_new_item("tag", 1) EXCEPT !.opt_indent = 1])
  /\ UNCHANGED <<args, error, indent_level>>

\* Mutant: only the comma and one space are taken back.
Bug_WithoutSeparator(out) == SubSeq(out, 1, Len(out) - 2)

\* Separators are written after an item; the last one is taken back.
WithoutSeparator(out) ==
  LET kept == {i \in DOMAIN out : out[i].c \notin {" ", "nl", ","}}
  IN  SubSeq(out, 1, CHOOSE i \in kept : \A j \in kept : j <= i)

\* Mutant: a map may end after a key.
Bug_BreakAllowed(item) == item.count = 0

BreakAllowed(item) == item.count = 0 /\ (item.si_type = "map" => item.map_is_key)

\* DI_BREAK and edn_proc_indef_break; the item on top is popped in any case.
ProcBreak(tok) ==
  /\ AtItem(tok, {"break"})
  /\ Consume
  /\ \/ /\ stack = << >>
        /\ Raise("SYNTAX")
        /\ UNCHANGED <<str, stack, indent_level>>
     \/ /\ stack # << >> /\ IsString(Top) /\ ~Top.indef_appended
        /\ edn_append(Append(str, Text), Below)
        /\ UNCHANGED indent_level
     \/ /\ stack # << >> /\ IsString(Top) /\ Top.indef_appended
        /\ edn_append(str \o Closed(")"), Below)
        /\ indent_level' = Deindented
     \/ /\ stack # << >> /\ ~IsString(Top) /\ ~BreakAllowed(Top)
        /\ stack' = Below
        /\ Raise("SYNTAX")
        /\ UNCHANGED <<str, indent_level>>
     \/ /\ stack # << >> /\ ~IsString(Top) /\ BreakAllowed(Top)
        /\ edn_append((IF Top.indef_appended THEN WithoutSeparator(str) ELSE str)
                        \o Closed(IF Top.si_type = "map" THEN "}" ELSE "]"), Below)
        /\ indent_level' = Deindented
  /\ UNCHANGED <<args, error>>

\* What dec_item itself reports: sizes beyond 32 bits, malformed heads
DecItemError(tok) ==
  /\ pc = "item"
  /\ \/ /\ tok.t \in {"array", "map"} /\ tok.n > Uint32Max
        /\ error' = "UNSUPPORTED_SIZE"
     \/ /\ tok.t = "reserved" \/ (tok.t = "simple8" /\ tok.n <= 31)
        /\ error' = "MALFORMED"
  /\ Consume
  /\ pc' = "stop"
  /\ UNCHANGED <<args, cb_error, stack, str, indent_level>>

IsSelfDescribe(tok) == tok.t = "tag" /\ tok.n = TagSelfDescribe

\* The next data item; Start has skipped the tag in front of the first one.
DecItem(tok) ==
  /\ pos < MaxItems
  /\ pos = 0 /\ IsSelfDescribe(tok) => args.self_describe
  /\ input' = Append(input, tok)
  /\ \/ ProcScalar(tok) \/ edn_do_xstring(tok) \/ ProcStringStart(tok) \/ ProcContainerStart(tok)
     \/ edn_proc_tag(tok) \/ ProcBreak(tok) \/ DecItemError(tok)

-----------------------------------------------------------------------------
(* The call.                                                                *)

\* cbor_decode_process: the self-described tag is skipped unless it is wanted.
Start ==
  /\ pc = "start"
  /\ pc' = "item"
  /\ \/ UNCHANGED <<input, pos>>
     \/ /\ ~args.self_describe
        /\ \E tok \in Tokens : IsSelfDescribe(tok) /\ input' = <<tok>>
        /\ pos' = 1
  /\ UNCHANGED <<args, error, cb_error, stack, str, indent_level>>

\* The data ends where an item is expected, or in the middle of one.
Truncated ==
  /\ pc = "item"
  /\ error' = "TRUNCATED"
  /\ pc' = "stop"
  /\ UNCHANGED <<args, input, pos, cb_error, stack, str, indent_level>>

\* The loop of decode_nested
Loop ==
  /\ pc = "loop"
  /\ \/ /\ cb_error = "none" /\ stack # << >>
        /\ pc' = "item"
        /\ UNCHANGED error
     \/ /\ cb_error # "none" \/ stack = << >>
        /\ error' = cb_error
        /\ pc' = "stop"
  /\ UNCHANGED <<args, input, pos, cb_error, stack, str, indent_level>>

\* The end of cbor_decode, with more data left or not, and edn_dec_finish: an
\* error is a comment of the notation.
Finish ==
  /\ pc = "stop"
  /\ pc' = "end"
  /\ error' \in IF error = "none" THEN {"none", "EXTRANEOUS"} ELSE {error}
  /\ str' = IF error' = "none" THEN str ELSE Append(str, Sym("error"))
  /\ UNCHANGED <<args, input, pos, cb_error, stack, indent_level>>

Init ==
  /\ args \in ArgsSet
  /\ input = << >> /\ pos = 0
  /\ pc = "start"
  /\ error = "none" /\ cb_error = "none"
  /\ stack = << >>
  /\ str = << >>
  /\ indent_level = 0

EdnAppend ==
  AppendToRoot \/ edn_append_to_array \/ edn_append_to_map \/ edn_append_to_tag \/ AppendToString

Next ==
  \/ Start
  \/ \E tok \in Tokens : DecItem(tok)
  \/ EdnAppend \/ Truncated \/ Loop \/ Finish

Spec == Init /\ [][Next]_vars

-----------------------------------------------------------------------------
(* Properties.                                                              *)

\* The variables have the types of the fields they stand for; indent_level is
\* never negative, which would be a huge number of spaces.
TypeOK ==
  /\ args \in Args
  /\ input \in Seq(Token) /\ pos \in Nat
  /\ pc \in {"start", "item", "append", "loop", "stop", "end"}
  /\ error \in {"none", "DEPTH", "SYNTAX", "UNSUPPORTED_SIZE", "MALFORMED", "TRUNCATED", "EXTRANEOUS"}
  /\ cb_error \in {"none", "DEPTH", "SYNTAX"}
  /\ stack \in Seq(Item)
  /\ str \in Seq(Symbol)
  /\ indent_level \in Nat

\* The items of the stack that have indented what is in them
Indents(item) ==
  item.si_type \in {"array", "map"} \/ (IsString(item) /\ item.indef_appended) \/ item.opt_indent = 2

Width == IF args.indent_char THEN args.indent ELSE 0

\* As long as there is no error, the indentation is that of the open items:
\* every way in which an item ends takes back what its start has added.
IndentMatchesStack ==
  pc # "end" /\ cb_error = "none" =>
    indent_level = Width * Cardinality({i \in DOMAIN stack : Indents(stack[i])})

-----------------------------------------------------------------------------
(* The inductive invariant.                                                 *)

\* A callback that fails is the last of its call.
ErrorInv == pc \in {"start", "item", "append"} => cb_error = "none"

\* Only tags are given a line of their own, and only tags have one item left
\* that no break can end.
ItemInv ==
  \A i \in DOMAIN stack :
    /\ stack[i].opt_indent # 0 => stack[i].si_type = "tag"
    /\ stack[i].si_type = "tag" => stack[i].count = 1

\* The notation begins with the text of an item or a bracket, so that there is
\* always something in front of the separators that a break takes back.
Written == str # << >> /\ str[1].c \notin {" ", "nl", ","}
TextInv ==
  /\ str = << >> \/ Written
  /\ pc = "append" => Written
  /\ \A i \in DOMAIN stack : ~IsString(stack[i]) \/ stack[i].indef_appended => Written

IInv == TypeOK /\ ErrorInv /\ ItemInv /\ TextInv /\ IndentMatchesStack

=============================================================================
