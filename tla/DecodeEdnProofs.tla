-------------------------- MODULE DecodeEdnProofs --------------------------
(***************************************************************************)
(* Proofs about DecodeEdn for every set of options and every input.         *)
(***************************************************************************)
EXTENDS DecodeEdn, FiniteSetTheorems, SequenceTheorems, WellFoundedInduction, TLAPS

-----------------------------------------------------------------------------
(* The stack and the indentation.                                           *)

\* The parts of IInv that are about the stack
ItemOK(item) ==
  /\ item.opt_indent # 0 => item.si_type = "tag"
  /\ item.si_type = "tag" => item.count = 1
StackTyped == stack \in Seq(Item) /\ ItemInv /\ indent_level \in Nat
Level(items) == Cardinality({i \in DOMAIN items : Indents(items[i])})
LevelOK == indent_level = Width * Level(stack)

\* One more item is one more level if it indents.
LEMMA LevelAppend ==
  ASSUME NEW items \in Seq(Item), NEW item \in Item
  PROVE  /\ Level(items) \in Nat
         /\ Level(Append(items, item)) = IF Indents(item) THEN Level(items) + 1 ELSE Level(items)
<1> DEFINE S == {i \in 1..Len(items) : Indents(items[i])}
           T == {i \in 1..(Len(items) + 1) : Indents(Append(items, item)[i])}
<1>1. IsFiniteSet(S)
  <2>1. IsFiniteSet(1..Len(items))
    BY FS_Interval
  <2> QED BY <2>1, FS_Subset
<1>2. Level(items) = Cardinality(S) /\ Level(Append(items, item)) = Cardinality(T)
  <2>1. DOMAIN items = 1..Len(items) /\ DOMAIN Append(items, item) = 1..(Len(items) + 1)
    OBVIOUS
  <2> QED BY <2>1 DEF Level
<1>3. T = IF Indents(item) THEN S \cup {Len(items) + 1} ELSE S
  OBVIOUS
<1>4. Len(items) + 1 \notin S
  OBVIOUS
<1>5. Cardinality(S) \in Nat /\ Cardinality(S \cup {Len(items) + 1}) = Cardinality(S) + 1
  BY <1>1, <1>4, FS_AddElement, FS_CardinalityType
<1> HIDE DEF S, T
<1> QED BY <1>2, <1>3, <1>5

\* A stack that is not empty is what is below its top, and its top.
LEMMA TopAndBelow ==
  ASSUME stack \in Seq(Item), stack # << >>
  PROVE  Top \in Item /\ Below \in Seq(Item) /\ stack = Append(Below, Top)
  BY DEF Top, Below

\* Multiplication by a level
LEMMA OneMore == \A w, n \in Nat : w * (n + 1) = w * n + w /\ w * n \in Nat
  OBVIOUS

\* The width is a number, and what Indented and Deindented go by.
LEMMA WidthType ==
  ASSUME args \in Args, indent_level \in Nat
  PROVE  Width \in Nat /\ Indented = indent_level + Width /\ Deindented = indent_level - Width
  BY DEF Args, Width, Indented, Deindented

\* The items of a longer stack are those of the stack and one more.
LEMMA ItemsAppend ==
  ASSUME NEW items \in Seq(Item), NEW item \in Item, ItemOK(item),
         \A i \in DOMAIN items : ItemOK(items[i])
  PROVE  \A i \in DOMAIN Append(items, item) : ItemOK(Append(items, item)[i])
  BY DEF ItemOK

\* An item that is pushed after it has indented
LEMMA Push ==
  ASSUME StackTyped, LevelOK, args \in Args, UNCHANGED args, NEW item \in Item, ItemOK(item),
         stack' = Append(stack, item),
         indent_level' = IF Indents(item) THEN Indented ELSE indent_level
  PROVE  StackTyped' /\ LevelOK'
<1>1. stack' \in Seq(Item)
  BY DEF StackTyped
<1>2. ItemInv'
  BY ItemsAppend DEF StackTyped, ItemInv, ItemOK
<1>3. Width \in Nat /\ Indented = indent_level + Width
  BY WidthType DEF StackTyped
<1>4. Width' = Width
  BY DEF Width
<1>5. /\ Level(stack) \in Nat
      /\ Level(stack') = IF Indents(item) THEN Level(stack) + 1 ELSE Level(stack)
  BY LevelAppend DEF StackTyped
<1>6. LevelOK' <=> indent_level' = Width' * Level(stack')
  BY DEF LevelOK, Level, Indents, IsString
<1>8. indent_level = Width * Level(stack)
  BY DEF LevelOK
<1>9. indent_level' \in Nat /\ indent_level' = Width * Level(stack')
  BY <1>1, <1>3, <1>5, <1>8, OneMore DEF StackTyped
<1> QED BY <1>1, <1>2, <1>4, <1>6, <1>9 DEF StackTyped

\* An item that is popped takes back its indentation.
LEMMA Pop ==
  ASSUME StackTyped, LevelOK, args \in Args, UNCHANGED args, stack # << >>,
         stack' = Below,
         indent_level' = IF Indents(Top) THEN Deindented ELSE indent_level
  PROVE  StackTyped' /\ LevelOK'
<1>1. Top \in Item /\ Below \in Seq(Item) /\ stack = Append(Below, Top)
  BY TopAndBelow DEF StackTyped
<1>2. ItemInv'
  BY <1>1 DEF StackTyped, ItemInv
<1>3. Width \in Nat /\ Deindented = indent_level - Width
  BY WidthType DEF StackTyped
<1>4. Width' = Width
  BY DEF Width
<1>5. /\ Level(Below) \in Nat
      /\ Level(stack) = IF Indents(Top) THEN Level(Below) + 1 ELSE Level(Below)
  BY <1>1, LevelAppend
<1>6. LevelOK' <=> indent_level' = Width' * Level(stack')
  BY DEF LevelOK, Level, Indents, IsString
<1>8. indent_level = Width * Level(stack)
  BY DEF LevelOK
<1>9. indent_level' \in Nat /\ indent_level' = Width * Level(stack')
  BY <1>1, <1>3, <1>5, <1>8, OneMore DEF StackTyped
<1> QED BY <1>1, <1>2, <1>4, <1>6, <1>9 DEF StackTyped

\* The item on top changes and may begin to indent.
LEMMA Change ==
  ASSUME StackTyped, LevelOK, args \in Args, UNCHANGED args, stack # << >>, NEW item \in Item, ItemOK(item),
         stack' = Append(Below, item), Indents(Top) => Indents(item),
         indent_level' = IF Indents(item) /\ ~Indents(Top) THEN Indented ELSE indent_level
  PROVE  StackTyped' /\ LevelOK'
<1>1. Top \in Item /\ Below \in Seq(Item) /\ stack = Append(Below, Top)
  BY TopAndBelow DEF StackTyped
<1>2. ItemInv'
  <2>1. \A i \in DOMAIN Below : ItemOK(Below[i])
    BY <1>1 DEF StackTyped, ItemInv, ItemOK
  <2> QED BY <1>1, <2>1, ItemsAppend DEF ItemInv, ItemOK
<1>3. Width \in Nat /\ Indented = indent_level + Width
  BY WidthType DEF StackTyped
<1>4. Width' = Width
  BY DEF Width
<1>5. /\ Level(Below) \in Nat
      /\ Level(stack) = IF Indents(Top) THEN Level(Below) + 1 ELSE Level(Below)
      /\ Level(stack') = IF Indents(item) THEN Level(Below) + 1 ELSE Level(Below)
  BY <1>1, LevelAppend
<1>6. LevelOK' <=> indent_level' = Width' * Level(stack')
  BY DEF LevelOK, Level, Indents, IsString
<1>7. stack' \in Seq(Item)
  BY <1>1
<1>8. indent_level = Width * Level(stack)
  BY DEF LevelOK
<1>9. indent_level' \in Nat /\ indent_level' = Width * Level(stack')
  BY <1>1, <1>3, <1>5, <1>8, OneMore DEF StackTyped
<1> QED BY <1>2, <1>4, <1>6, <1>7, <1>9 DEF StackTyped

-----------------------------------------------------------------------------
(* The text.                                                                *)

\* The parts of IInv that are about the text and about the rest
Kept(sym) == sym.c \notin {" ", "nl", ","}
TextTyped == str \in Seq(Symbol) /\ TextInv
Control ==
  /\ args \in Args
  /\ input \in Seq(Token) /\ pos \in Nat
  /\ pc \in {"start", "item", "append", "loop", "stop", "end"}
  /\ error \in {"none", "DEPTH", "SYNTAX", "UNSUPPORTED_SIZE", "MALFORMED", "TRUNCATED", "EXTRANEOUS"}
  /\ cb_error \in {"none", "DEPTH", "SYNTAX"}
  /\ ErrorInv

\* IInv by its parts
LEMMA Parts ==
  IInv <=> /\ Control /\ StackTyped /\ TextTyped
           /\ pc # "end" /\ cb_error = "none" => LevelOK
  BY DEF IInv, Control, StackTyped, TextTyped, LevelOK, TypeOK, IndentMatchesStack, Level

\* Symbols and what is made of them
LEMMA SymbolType ==
  /\ \A c \in {"[", "[_", "]", "{", "{_", "}", "(", "(_", ")", ",", ":", " ", "nl", "v", "error"} :
       Sym(c) \in Symbol /\ Sym(c).c = c
  /\ \A n \in Nat : Nl(n) \in Symbol
  /\ pos \in Nat => Text \in Symbol /\ Text.c = "v"
  BY DEF Sym, Nl, Text, Symbol

\* Sequences of one and of two parts; the first of the whole is that of the
\* first part, unless that is empty.
LEMMA Single ==
  ASSUME NEW x \in Symbol
  PROVE  <<x>> \in Seq(Symbol) /\ Len(<<x>>) = 1 /\ <<x>> # << >> /\ <<x>>[1] = x
  OBVIOUS

LEMMA Concat ==
  ASSUME NEW s \in Seq(Symbol), NEW t \in Seq(Symbol)
  PROVE  /\ s \o t \in Seq(Symbol)
         /\ s # << >> => s \o t # << >> /\ (s \o t)[1] = s[1]
         /\ s = << >> => s \o t = t
  OBVIOUS

\* Space and line breaks are at most one symbol.
LEMMA SpaceType ==
  ASSUME NEW level \in Nat, NEW space \in BOOLEAN
  PROVE  /\ edn_append_space \in Seq(Symbol)
         /\ edn_append_nl(level, space) \in Seq(Symbol)
         /\ Len(edn_append_nl(level, space)) \in {0, 1}
<1>1. Sym(" ") \in Symbol /\ Nl(level) \in Symbol
  BY SymbolType
<1>2. edn_append_space \in Seq(Symbol) /\ Len(edn_append_space) \in {0, 1}
  <2>1. << >> \in Seq(Symbol) /\ Len(<< >>) = 0
    OBVIOUS
  <2> QED BY <1>1, <2>1, Single DEF edn_append_space
<1>3. <<Nl(level)>> \in Seq(Symbol) /\ Len(<<Nl(level)>>) = 1
  BY <1>1, Single
<1>4. << >> \in Seq(Symbol) /\ Len(<< >>) = 0
  OBVIOUS
<1> QED BY <1>2, <1>3, <1>4 DEF edn_append_nl

\* Separators and closing brackets are text.
LEMMA SeparatorType ==
  ASSUME indent_level \in Nat
  PROVE  /\ Separator \in Seq(Symbol)
         /\ Deindented \in Nat => \A bracket \in {"]", "}", ")"} : Closed(bracket) \in Seq(Symbol)
<1>1. Separator \in Seq(Symbol)
  <2>1. Sym(",") \in Symbol
    BY SymbolType
  <2>2. edn_append_nl(indent_level, TRUE) \in Seq(Symbol)
    BY SpaceType
  <2> QED BY <2>1, <2>2, Single, Concat DEF Separator
<1>2. ASSUME Deindented \in Nat, NEW bracket \in {"]", "}", ")"} PROVE Closed(bracket) \in Seq(Symbol)
  <2>1. Sym(bracket) \in Symbol
    BY SymbolType
  <2>2. edn_append_nl(Deindented, FALSE) \in Seq(Symbol)
    BY <1>2, SpaceType
  <2> QED BY <2>1, <2>2, Single, Concat DEF Closed
<1> QED BY <1>1, <1>2

\* The text of a string begins with an item's text.
LEMMA StringTextType ==
  ASSUME args \in Args, pos \in Nat, NEW tok \in Token, NEW level \in Nat
  PROVE  /\ StringText(tok, level) \in Seq(Symbol)
         /\ StringText(tok, level) # << >> /\ Kept(StringText(tok, level)[1])
<1> DEFINE wrap == IF tok.t = "bytes" THEN args.byte_wrap ELSE 0
           breaks == IF wrap = 0 \/ tok.s = << >> THEN 0 ELSE (Len(tok.s) - 1) \div wrap
           between == edn_append_nl(level, TRUE)
           step == Len(between) + 1
           sym(i) == IF (i - 1) % step = 0 THEN Text ELSE between[1]
<1>1. wrap \in Nat /\ tok.s \in Seq(Byte)
  BY DEF Args, Token, Str
<1>2. breaks \in Nat
  <2>1. CASE wrap = 0 \/ tok.s = << >>
    BY <2>1
  <2>2. CASE wrap # 0 /\ tok.s # << >>
    <3>1. Len(tok.s) - 1 \in Nat
      BY <1>1, <2>2
    <3> HIDE DEF wrap
    <3>2. \A m, w \in Nat : w # 0 => m \div w \in Nat
      OBVIOUS
    <3>3. (Len(tok.s) - 1) \div wrap \in Nat
      BY <1>1, <2>2, <3>1, <3>2
    <3> QED BY <2>2, <3>3 DEF breaks
  <2> QED BY <2>1, <2>2
<1>3. between \in Seq(Symbol) /\ step \in {1, 2} /\ Text \in Symbol /\ Text.c = "v"
  <2>1. between \in Seq(Symbol) /\ Len(between) \in {0, 1}
    BY SpaceType
  <2>2. Text \in Symbol /\ Text.c = "v"
    BY SymbolType
  <2> HIDE DEF between
  <2>3. step \in {1, 2}
    BY <2>1
  <2> QED BY <2>1, <2>2, <2>3
<1> HIDE DEF wrap, breaks, between
<1>4. \A i \in 1..(step * breaks + 1) : sym(i) \in Symbol
  BY <1>2, <1>3
<1>5. step * breaks + 1 \in Nat /\ step * breaks + 1 >= 1
  BY <1>2, <1>3
<1>6. sym(1) = Text
  BY <1>3
<1>7. StringText(tok, level) = [i \in 1..(step * breaks + 1) |-> sym(i)]
  BY DEF StringText, wrap, breaks, between
<1> DEFINE size == step * breaks + 1
           text == [i \in 1..size |-> sym(i)]
<1> HIDE DEF sym, step
<1>8. size \in Nat /\ 1 \in 1..size
  BY <1>5
<1>9. \A i \in 1..size : sym(i) \in Symbol
  BY <1>4
<1> HIDE DEF size
<1>10. text \in Seq(Symbol) /\ Len(text) = size /\ text[1] = Text
  BY <1>6, <1>8, <1>9
<1>11. text # << >>
  BY <1>8, <1>10
<1>12. StringText(tok, level) = text
  BY <1>7 DEF size
<1> HIDE DEF text
<1> QED BY <1>3, <1>10, <1>11, <1>12 DEF Kept

\* What is taken back leaves the begin of the text.
LEMMA WithoutSeparatorType ==
  ASSUME NEW out \in Seq(Symbol), out # << >>, Kept(out[1])
  PROVE  /\ WithoutSeparator(out) \in Seq(Symbol)
         /\ WithoutSeparator(out) # << >> /\ WithoutSeparator(out)[1] = out[1]
<1> DEFINE kept == {i \in DOMAIN out : out[i].c \notin {" ", "nl", ","}}
           dist == {n \in Nat : \E i \in kept : n = Len(out) - i}
<1>1. 1 \in kept /\ kept \subseteq 1..Len(out) /\ Len(out) \in Nat
  <2>1. DOMAIN out = 1..Len(out) /\ Len(out) \in Nat /\ Len(out) # 0
    OBVIOUS
  <2>2. 1 \in DOMAIN out
    BY <2>1
  <2>3. 1 \in kept
    BY <2>2 DEF Kept
  <2>4. kept \subseteq DOMAIN out
    OBVIOUS
  <2> QED BY <2>1, <2>3, <2>4
<1> HIDE DEF kept
<1>2. dist # {} /\ dist \subseteq Nat
  <2>1. Len(out) - 1 \in dist
    BY <1>1
  <2> QED BY <2>1
<1>3. PICK n \in dist : \A m \in dist : ~(<<m, n>> \in OpToRel(<, Nat))
  BY <1>2, WFMin, NatLessThanWellFounded
<1>4. ASSUME NEW m \in dist PROVE n <= m
  <2>1. m \in Nat /\ n \in Nat
    BY <1>2
  <2>2. ~(m < n)
    BY <1>3, <2>1 DEF OpToRel
  <2> QED BY <2>1, <2>2
<1>5. \E i \in kept : \A j \in kept : j <= i
  <2>1. PICK i \in kept : n = Len(out) - i
    OBVIOUS
  <2>2. ASSUME NEW j \in kept PROVE j <= i
    <3>1. i \in Nat /\ j \in Nat /\ Len(out) - j \in dist
      BY <1>1
    <3>2. n <= Len(out) - j
      BY <1>4, <3>1
    <3> QED BY <1>1, <2>1, <3>1, <3>2
  <2> QED BY <2>2
<1> DEFINE last == CHOOSE i \in kept : \A j \in kept : j <= i
<1>6. last \in kept
  BY <1>5
<1>7. WithoutSeparator(out) = SubSeq(out, 1, last)
  BY DEF WithoutSeparator, kept
<1> HIDE DEF last
<1>8. last \in 1..Len(out)
  BY <1>1, <1>6
<1> QED BY <1>7, <1>8

-----------------------------------------------------------------------------
(* What is common to the steps.                                             *)

\* IInv holds again if its parts do.
LEMMA PartsNext ==
  ASSUME Control', StackTyped', TextTyped', pc' # "end" /\ cb_error' = "none" => LevelOK'
  PROVE  IInv'
  BY DEF IInv, Control, StackTyped, TextTyped, LevelOK, TypeOK, IndentMatchesStack, Level

\* The stack and its level stay as they are.
LEMMA SameStack ==
  ASSUME StackTyped, UNCHANGED <<args, stack, indent_level>>
  PROVE  StackTyped' /\ (LevelOK => LevelOK')
  BY DEF StackTyped, ItemInv, LevelOK, Level, Width, Indents, IsString

\* The text stays as it is, and nothing is pending.
LEMMA SameText ==
  ASSUME TextTyped, UNCHANGED <<stack, str>>, pc' # "append"
  PROVE  TextTyped'
  BY DEF TextTyped, TextInv, Written, IsString

\* Text is added to what there is, or is the first and no separator.
LEMMA Grows ==
  ASSUME TextTyped, NEW more \in Seq(Symbol), str' = str \o more,
         Written \/ (more # << >> /\ Kept(more[1]))
  PROVE  TextTyped' /\ Written'
<1>1. str \in Seq(Symbol) /\ (str = << >> \/ Written)
  BY DEF TextTyped, TextInv
<1>2. str' \in Seq(Symbol)
  BY <1>1, Concat
<1>3. CASE str # << >>
  <2>1. str' # << >> /\ str'[1] = str[1]
    BY <1>1, <1>3, Concat
  <2>2. Written'
    BY <1>1, <1>3, <2>1 DEF Written
  <2> QED BY <1>2, <2>2 DEF TextTyped, TextInv
<1>4. CASE str = << >>
  <2>1. str' = more
    BY <1>1, <1>4, Concat
  <2>2. Written'
    BY <1>4, <2>1 DEF Written, Kept
  <2> QED BY <1>2, <2>2 DEF TextTyped, TextInv
<1> QED BY <1>3, <1>4

\* ... by one symbol
LEMMA GrowsByOne ==
  ASSUME TextTyped, NEW sym \in Symbol, str' = Append(str, sym), Kept(sym)
  PROVE  TextTyped' /\ Written'
<1>1. str' = str \o <<sym>>
  BY DEF TextTyped
<1> QED BY <1>1, Grows, Single

-----------------------------------------------------------------------------
(* One step each.                                                           *)

\* The steps that leave the stack and the text alone keep IInv.
LEMMA ControlSteps ==
  ASSUME IInv, Start \/ Truncated \/ Loop \/ AppendToRoot \/ AppendToString
  PROVE  IInv'
<1>1. Control /\ StackTyped /\ TextTyped /\ (pc # "end" /\ cb_error = "none" => LevelOK)
  BY Parts
<1>2. UNCHANGED <<args, stack, str, indent_level, cb_error>> /\ pc' # "append" /\ pc # "end"
  BY DEF Start, Truncated, Loop, AppendToRoot, AppendToString
<1>3. Control'
  <2>1. CASE Start
    <3>1. input' \in Seq(Token)
      <4>1. CASE UNCHANGED <<input, pos>>
        BY <1>1, <4>1 DEF Control
      <4>2. CASE \E tok \in Tokens : IsSelfDescribe(tok) /\ input' = <<tok>>
        <5>1. PICK tok \in Tokens : input' = <<tok>>
          BY <4>2
        <5>2. tok \in Token
          BY EdnAssumption
        <5> QED BY <5>1, <5>2
      <4> QED BY <2>1, <4>1, <4>2 DEF Start
    <3> QED BY <1>1, <2>1, <3>1 DEF Start, Control, ErrorInv
  <2>2. CASE Truncated
    BY <1>1, <2>2 DEF Truncated, Control, ErrorInv
  <2>3. CASE Loop
    BY <1>1, <2>3 DEF Loop, Control, ErrorInv
  <2>4. CASE AppendToRoot \/ AppendToString
    BY <1>1, <2>4 DEF AppendToRoot, AppendToString, Control, ErrorInv
  <2> QED BY <2>1, <2>2, <2>3, <2>4
<1> QED BY <1>1, <1>2, <1>3, SameStack, SameText, PartsNext

\* The end of the call adds the error.
LEMMA FinishStep == ASSUME IInv, Finish PROVE IInv'
<1>1. Control /\ StackTyped /\ TextTyped
  BY Parts
<1>2. Control' /\ StackTyped'
  BY <1>1, SameStack DEF Finish, Control, ErrorInv
<1>3. TextTyped'
  <2>1. CASE error' = "none"
    BY <1>1, <2>1, SameText DEF Finish
  <2>2. CASE error' # "none"
    <3>1. Sym("error") \in Symbol /\ Kept(Sym("error"))
      BY SymbolType DEF Kept
    <3> QED BY <1>1, <2>2, <3>1, GrowsByOne DEF Finish
  <2> QED BY <2>1, <2>2
<1> QED BY <1>2, <1>3, PartsNext DEF Finish

\* A separator after an item of a container
LEMMA SeparateStep ==
  ASSUME IInv, pc = "append", stack # << >>, NEW item \in Item, ItemOK(item), Indents(Top) <=> Indents(item),
         NEW more \in Seq(Symbol), str' = str \o more, stack' = Append(Below, item), pc' = "loop",
         UNCHANGED <<args, input, pos, error, cb_error, indent_level>>
  PROVE  IInv'
<1>1. Control /\ StackTyped /\ TextTyped /\ LevelOK /\ Written
  BY Parts DEF Control, ErrorInv, TextTyped, TextInv
<1>2. Control'
  BY <1>1 DEF Control, ErrorInv
<1>3. StackTyped' /\ LevelOK'
  BY <1>1, Change DEF Control
<1>4. TextTyped'
  BY <1>1, Grows
<1> QED BY <1>2, <1>3, <1>4, PartsNext

\* An item is complete and is appended to the one below.
LEMMA CloseStep ==
  ASSUME IInv, pc \in {"append", "item"}, stack # << >>, NEW more \in Seq(Symbol), str' = str \o more,
         Written \/ (more # << >> /\ Kept(more[1])), stack' = Below, pc' = "append",
         input' \in Seq(Token), pos' \in Nat,
         UNCHANGED <<args, error, cb_error>>,
         indent_level' = IF Indents(Top) THEN Deindented ELSE indent_level
  PROVE  IInv'
<1>1. Control /\ StackTyped /\ TextTyped /\ LevelOK /\ cb_error = "none"
  BY Parts DEF Control, ErrorInv
<1>2. Control'
  BY <1>1 DEF Control, ErrorInv
<1>3. StackTyped' /\ LevelOK'
  BY <1>1, Pop DEF Control
<1>4. TextTyped'
  BY <1>1, Grows
<1> QED BY <1>2, <1>3, <1>4, PartsNext

\* There is something to take back.
LEMMA DeindentedType ==
  ASSUME IInv, pc \in {"append", "item"}, stack # << >>, Indents(Top)
  PROVE  Deindented \in Nat
<1>1. args \in Args /\ StackTyped /\ LevelOK
  BY Parts DEF Control, ErrorInv
<1>2. Top \in Item /\ Below \in Seq(Item) /\ stack = Append(Below, Top)
  BY <1>1, TopAndBelow DEF StackTyped
<1>3. Level(Below) \in Nat /\ Level(stack) = Level(Below) + 1
  BY <1>2, LevelAppend
<1>4. Width \in Nat /\ Deindented = indent_level - Width /\ indent_level = Width * Level(stack)
  BY <1>1, WidthType DEF StackTyped, LevelOK
<1> QED BY <1>3, <1>4, OneMore

\* What is left of a count is a number.
LEMMA CountDownType == \A n \in Nat : CountDown(n) \in Nat
  BY DEF CountDown

\* Separators and brackets of the item on top
LEMMA TopText ==
  ASSUME IInv, pc \in {"append", "item"}, stack # << >>
  PROVE  /\ Top \in Item /\ ItemOK(Top) /\ Separator \in Seq(Symbol)
         /\ Indents(Top) => \A bracket \in {"]", "}", ")"} : Closed(bracket) \in Seq(Symbol)
<1>1. StackTyped
  BY Parts
<1>2. Top \in Item /\ ItemOK(Top)
  BY <1>1, TopAndBelow DEF StackTyped, ItemInv, ItemOK, Top
<1> QED BY <1>1, <1>2, DeindentedType, SeparatorType DEF StackTyped

\* An item of an array
LEMMA ArrayStep == ASSUME IInv, edn_append_to_array PROVE IInv'
<1>1. pc = "append" /\ stack # << >> /\ Top.si_type = "array"
  BY DEF edn_append_to_array
<1>2. Top \in Item /\ ItemOK(Top) /\ Indents(Top) /\ Separator \in Seq(Symbol) /\ Closed("]") \in Seq(Symbol)
  BY <1>1, TopText DEF Indents
<1>3. Written /\ input \in Seq(Token) /\ pos \in Nat
  BY <1>1 DEF IInv, TypeOK, TextInv
<1>4. CASE Top.count = 1
  BY <1>1, <1>2, <1>3, <1>4, CloseStep DEF edn_append_to_array, edn_append
<1>5. CASE Top.count # 1
  <2> DEFINE item == [Top EXCEPT !.indef_appended = TRUE, !.count = CountDown(@)]
  <2>1. item \in Item /\ ItemOK(item) /\ Indents(item)
    BY <1>1, <1>2, CountDownType DEF Item, ItemOK, Indents
  <2>2. stack' = Append(Below, item) /\ str' = str \o Separator /\ pc' = "loop"
    BY <1>5 DEF edn_append_to_array
  <2> HIDE DEF item
  <2> QED BY <1>1, <1>2, <1>5, <2>1, <2>2, SeparateStep DEF edn_append_to_array
<1> QED BY <1>4, <1>5

\* A key or a value of a map
LEMMA MapStep == ASSUME IInv, edn_append_to_map PROVE IInv'
<1>1. pc = "append" /\ stack # << >> /\ Top.si_type = "map"
  BY DEF edn_append_to_map
<1>2. Top \in Item /\ ItemOK(Top) /\ Indents(Top) /\ Separator \in Seq(Symbol) /\ Closed("}") \in Seq(Symbol)
  BY <1>1, TopText DEF Indents
<1>3. Written /\ input \in Seq(Token) /\ pos \in Nat /\ str \in Seq(Symbol)
  BY <1>1 DEF IInv, TypeOK, TextInv
<1>4. CASE Top.map_is_key
  <2> DEFINE item == [Top EXCEPT !.map_is_key = FALSE]
             more == <<Sym(":")>> \o edn_append_space
  <2>1. item \in Item /\ ItemOK(item) /\ Indents(item)
    BY <1>1, <1>2 DEF Item, ItemOK, Indents
  <2>2. <<Sym(":")>> \in Seq(Symbol) /\ edn_append_space \in Seq(Symbol) /\ more \in Seq(Symbol)
    BY SymbolType, SpaceType, Single, Concat
  <2>3. str' = str \o more
    <3>1. str' = str \o <<Sym(":")>> \o edn_append_space
      BY <1>4 DEF edn_append_to_map
    <3> QED BY <1>3, <2>2, <3>1, ConcatAssociative
  <2>4. stack' = Append(Below, item) /\ pc' = "loop"
    BY <1>4 DEF edn_append_to_map
  <2> HIDE DEF item, more
  <2> QED BY <1>1, <1>2, <1>4, <2>1, <2>2, <2>3, <2>4, SeparateStep DEF edn_append_to_map
<1>5. CASE ~Top.map_is_key /\ Top.count = 1
  BY <1>1, <1>2, <1>3, <1>5, CloseStep DEF edn_append_to_map, edn_append
<1>6. CASE ~Top.map_is_key /\ Top.count # 1
  <2> DEFINE item == [Top EXCEPT !.indef_appended = TRUE, !.map_is_key = TRUE, !.count = CountDown(@)]
  <2>1. item \in Item /\ ItemOK(item) /\ Indents(item)
    BY <1>1, <1>2, CountDownType DEF Item, ItemOK, Indents
  <2>2. stack' = Append(Below, item) /\ str' = str \o Separator /\ pc' = "loop"
    BY <1>6 DEF edn_append_to_map
  <2> HIDE DEF item
  <2> QED BY <1>1, <1>2, <1>6, <2>1, <2>2, SeparateStep DEF edn_append_to_map
<1> QED BY <1>4, <1>5, <1>6

\* The content of a tag
LEMMA TagStep == ASSUME IInv, edn_append_to_tag PROVE IInv'
<1>1. pc = "append" /\ stack # << >> /\ Top.si_type = "tag"
  BY DEF edn_append_to_tag
<1>2. Top \in Item /\ (Indents(Top) <=> Top.opt_indent = 2) /\ (Indents(Top) => Closed(")") \in Seq(Symbol))
  BY <1>1, TopText DEF Indents, IsString
<1>3. Written /\ input \in Seq(Token) /\ pos \in Nat /\ str \in Seq(Symbol)
  BY <1>1 DEF IInv, TypeOK, TextInv
<1>4. CASE Top.opt_indent = 2
  BY <1>1, <1>2, <1>3, <1>4, CloseStep DEF edn_append_to_tag, edn_append
<1>5. CASE Top.opt_indent # 2
  <2>1. Sym(")") \in Symbol
    BY SymbolType
  <2>2. str' = str \o <<Sym(")")>> /\ <<Sym(")")>> \in Seq(Symbol)
    BY <1>3, <1>5, <2>1 DEF edn_append_to_tag, edn_append
  <2> QED BY <1>1, <1>2, <1>3, <1>5, <2>2, CloseStep DEF edn_append_to_tag, edn_append
<1> QED BY <1>4, <1>5

-----------------------------------------------------------------------------
(* The callbacks of dec_item.                                               *)

\* What every callback but a failing one leaves: the input goes on.
Reading(tok) == pc = "item" /\ input' = Append(input, tok) /\ Consume /\ UNCHANGED <<args, error>>

\* The callback keeps the parts of IInv that are not about stack and text.
LEMMA ReadingControl ==
  ASSUME IInv, NEW tok \in Token, Reading(tok)
  PROVE  /\ Control /\ StackTyped /\ TextTyped /\ LevelOK /\ cb_error = "none"
         /\ input' \in Seq(Token) /\ pos' \in Nat
         /\ pc' \in {"append", "loop"} /\ UNCHANGED cb_error => Control'
         /\ pc' = "loop" /\ cb_error' \in {"DEPTH", "SYNTAX"} => Control'
<1>1. Control /\ StackTyped /\ TextTyped /\ LevelOK /\ cb_error = "none"
  BY Parts DEF Control, ErrorInv, Reading
<1>2. input' \in Seq(Token) /\ pos' \in Nat
  BY <1>1 DEF Control, Reading, Consume
<1> QED BY <1>1, <1>2 DEF Control, ErrorInv, Reading

\* The callback fails and leaves the stack and the text alone.
LEMMA RaiseStep ==
  ASSUME IInv, NEW tok \in Token, Reading(tok), cb_error' \in {"DEPTH", "SYNTAX"}, pc' = "loop",
         UNCHANGED <<stack, str, indent_level>>
  PROVE  IInv'
<1>1. Control' /\ StackTyped /\ TextTyped
  BY ReadingControl
<1>2. StackTyped' /\ TextTyped'
  BY <1>1, SameStack, SameText DEF Reading
<1> QED BY <1>1, <1>2, PartsNext

\* The callback writes an item that is complete.
LEMMA LeafStep ==
  ASSUME IInv, NEW tok \in Token, Reading(tok), NEW more \in Seq(Symbol), more # << >>, Kept(more[1]),
         str' = str \o more, pc' = "append", UNCHANGED <<cb_error, stack, indent_level>>
  PROVE  IInv'
<1>1. Control' /\ StackTyped /\ TextTyped /\ LevelOK
  BY ReadingControl
<1>2. StackTyped' /\ LevelOK' /\ TextTyped'
  BY <1>1, SameStack, Grows DEF Reading
<1> QED BY <1>1, <1>2, PartsNext

\* The text of an item that is one piece
LEMMA TextStep ==
  ASSUME IInv, NEW tok \in Token, Reading(tok), edn_append(Append(str, Text), stack), UNCHANGED indent_level
  PROVE  IInv'
<1>1. pos \in Nat /\ str \in Seq(Symbol)
  BY DEF IInv, TypeOK
<1>2. Text \in Symbol /\ Kept(Text)
  BY <1>1, SymbolType DEF Kept
<1>3. Append(str, Text) = str \o <<Text>>
  BY <1>1
<1>4. str' = str \o <<Text>> /\ pc' = "append" /\ UNCHANGED <<cb_error, stack>>
  BY <1>3 DEF edn_append
<1>5. <<Text>> \in Seq(Symbol) /\ <<Text>> # << >> /\ <<Text>>[1] = Text
  BY <1>2, Single
<1> QED BY <1>2, <1>4, <1>5, LeafStep

\* The callback writes an item into the one on top, which changes.
LEMMA PartStep ==
  ASSUME IInv, NEW tok \in Token, Reading(tok), stack # << >>, NEW item \in Item, ItemOK(item),
         stack' = Append(Below, item), Indents(Top) => Indents(item),
         indent_level' = (IF Indents(item) /\ ~Indents(Top) THEN Indented ELSE indent_level),
         NEW more \in Seq(Symbol), str' = str \o more, Written \/ (more # << >> /\ Kept(more[1])),
         pc' = "append", UNCHANGED cb_error
  PROVE  IInv'
<1>1. Control /\ Control' /\ StackTyped /\ TextTyped /\ LevelOK
  BY ReadingControl
<1>2. TextTyped'
  BY <1>1, Grows
<1>3. StackTyped' /\ LevelOK'
  BY <1>1, Change DEF Reading, Control
<1> QED BY <1>1, <1>2, <1>3, PartsNext

\* The callback pushes an item, if the depth allows it.
LEMMA PushStep ==
  ASSUME IInv, NEW tok \in Token, Reading(tok), NEW item \in Item, ItemOK(item), NEW out, stack_push_item(out, item),
         indent_level' = (IF Indents(item) THEN Indented ELSE indent_level),
         (out = str /\ IsString(item) /\ ~item.indef_appended) \/ (TextTyped' /\ Written')
  PROVE  IInv'
<1>1. Control /\ StackTyped /\ TextTyped /\ LevelOK /\ stack \in Seq(Item) /\ str' = out
  BY ReadingControl DEF StackTyped, stack_push_item
<1>2. CASE cb_error' = "DEPTH" /\ pc' = "loop" /\ UNCHANGED stack
  <2>1. indent_level' \in Nat
    BY <1>1, WidthType DEF StackTyped, Control
  <2>2. StackTyped'
    BY <1>1, <1>2, <2>1 DEF StackTyped, ItemInv
  <2>3. TextTyped'
    BY <1>1, <1>2, SameText
  <2>4. Control'
    BY <1>2, ReadingControl
  <2> QED BY <1>2, <2>2, <2>3, <2>4, PartsNext
<1>3. CASE stack' = Append(stack, item) /\ pc' = "loop" /\ UNCHANGED cb_error
  <2>1. StackTyped' /\ LevelOK'
    BY <1>1, <1>3, Push DEF Reading, Control
  <2>2. TextTyped'
    <3>1. ASSUME out = str, IsString(item), ~item.indef_appended PROVE TextTyped'
      <4>1. \A i \in DOMAIN stack' : (i \in DOMAIN stack /\ stack'[i] = stack[i]) \/ stack'[i] = item
        BY <1>1, <1>3
      <4> QED BY <1>1, <1>3, <3>1, <4>1 DEF TextTyped, TextInv, Written, IsString
    <3> QED BY <3>1
  <2>3. Control'
    BY <1>3, ReadingControl
  <2> QED BY <2>1, <2>2, <2>3, PartsNext
<1> QED BY <1>2, <1>3 DEF stack_push_item, Raise

\* The callback pops the item on top, which is complete.
LEMMA PopStep ==
  ASSUME IInv, NEW tok \in Token, Reading(tok), stack # << >>, stack' = Below, pc' = "append", UNCHANGED cb_error,
         indent_level' = (IF Indents(Top) THEN Deindented ELSE indent_level),
         TextTyped'
  PROVE  IInv'
<1>1. Control /\ Control' /\ StackTyped /\ LevelOK
  BY ReadingControl
<1>2. StackTyped' /\ LevelOK'
  BY <1>1, Pop DEF Reading, Control
<1> QED BY <1>1, <1>2, PartsNext

\* Integers, floats and simple values
LEMMA ScalarStep ==
  ASSUME IInv, NEW tok \in Token, input' = Append(input, tok), ProcScalar(tok)
  PROVE  IInv'
<1>1. Reading(tok) /\ edn_append(Append(str, Text), stack) /\ UNCHANGED indent_level
  BY DEF ProcScalar, AtItem, Reading
<1> QED BY <1>1, TextStep

\* Errors of dec_item
LEMMA ErrorStep ==
  ASSUME IInv, NEW tok \in Token, input' = Append(input, tok), DecItemError(tok)
  PROVE  IInv'
<1>1. Control /\ StackTyped /\ TextTyped /\ LevelOK
  BY Parts DEF Control, ErrorInv, DecItemError
<1>2. Control'
  BY <1>1 DEF Control, ErrorInv, DecItemError, Consume
<1>3. StackTyped' /\ LevelOK' /\ TextTyped'
  BY <1>1, SameStack, SameText DEF DecItemError
<1> QED BY <1>2, <1>3, PartsNext

\* A new item of the stack
LEMMA NewItemType ==
  ASSUME NEW type \in {"byte", "text", "array", "map", "tag"}, NEW cnt \in Nat
  PROVE  /\ stack_new_item(type, cnt) \in Item
         /\ (type = "tag" => cnt = 1) => ItemOK(stack_new_item(type, cnt))
         /\ Indents(stack_new_item(type, cnt)) <=> type \in {"array", "map"}
  BY DEF stack_new_item, Item, ItemOK, Indents, IsString

\* The start of an indefinite-length string
LEMMA StringStartStep ==
  ASSUME IInv, NEW tok \in Token, input' = Append(input, tok), ProcStringStart(tok)
  PROVE  IInv'
<1> DEFINE type == IF tok.t = "text_start" THEN "text" ELSE "byte"
           item == stack_new_item(type, 0)
<1>1. Reading(tok) /\ stack_push_item(str, item) /\ UNCHANGED indent_level
  BY DEF ProcStringStart, AtItem, Reading
<1>2. item \in Item /\ ItemOK(item) /\ ~Indents(item)
  BY NewItemType
<1>3. IsString(item) /\ ~item.indef_appended
  BY DEF stack_new_item, IsString
<1> HIDE DEF item
<1> QED BY <1>1, <1>2, <1>3, PushStep

\* The start of a tag
LEMMA TagStartStep ==
  ASSUME IInv, NEW tok \in Token, input' = Append(input, tok), edn_proc_tag(tok)
  PROVE  IInv'
<1> DEFINE item == [stack_new_item("tag", 1) EXCEPT !.opt_indent = 1]
           more == <<Text, Sym("(")>>
<1>1. Reading(tok) /\ stack_push_item(str \o more, item) /\ UNCHANGED indent_level
  BY DEF edn_proc_tag, AtItem, Reading
<1>2. item \in Item /\ ItemOK(item) /\ ~Indents(item)
  <2> DEFINE new == stack_new_item("tag", 1)
  <2>1. new \in Item
    BY NewItemType
  <2>2. new.si_type = "tag" /\ new.count = 1
    BY DEF stack_new_item
  <2> HIDE DEF new
  <2>3. [new EXCEPT !.opt_indent = 1] \in Item /\ ItemOK([new EXCEPT !.opt_indent = 1])
        /\ ~Indents([new EXCEPT !.opt_indent = 1])
    BY <2>1, <2>2 DEF Item, ItemOK, Indents, IsString
  <2> QED BY <2>3 DEF new
<1>3. TextTyped /\ pos \in Nat
  BY Parts DEF Control
<1>4. more \in Seq(Symbol) /\ more # << >> /\ Kept(more[1])
  <2>1. Text \in Symbol /\ Kept(Text) /\ Sym("(") \in Symbol
    BY <1>3, SymbolType DEF Kept
  <2> HIDE DEF Text
  <2>2. more \in Seq(Symbol) /\ Len(more) = 2 /\ more[1] = Text
    BY <2>1
  <2> QED BY <2>1, <2>2
<1>5. str' = str \o more
  BY <1>1 DEF stack_push_item
<1> HIDE DEF item, more
<1>6. TextTyped' /\ Written'
  BY <1>3, <1>4, <1>5, Grows
<1> QED BY <1>1, <1>2, <1>6, PushStep

\* The start of an array or a map
LEMMA ContainerStep ==
  ASSUME IInv, NEW tok \in Token, input' = Append(input, tok), ProcContainerStart(tok)
  PROVE  IInv'
<1> DEFINE isMap == tok.t \in {"map", "map_start"}
           isIndef == tok.t \in {"array_start", "map_start"}
           bracket == IF isMap THEN (IF isIndef THEN "{_" ELSE "{") ELSE (IF isIndef THEN "[_" ELSE "[")
           item == stack_new_item(IF isMap THEN "map" ELSE "array", IF isIndef THEN 0 ELSE tok.n)
           nl == edn_append_nl(Indented, isIndef)
           more == <<Sym(bracket)>> \o nl
<1>1. Reading(tok)
  BY DEF ProcContainerStart, AtItem, Reading
<1>2. CASE edn_append(Append(str, Text), stack) /\ UNCHANGED indent_level
  BY <1>1, <1>2, TextStep
<1>3. CASE indent_level' = Indented /\ stack_push_item(str \o <<Sym(bracket)>> \o nl, item)
  <2>1. item \in Item /\ ItemOK(item) /\ Indents(item)
    <3>1. tok.n \in Nat
      BY DEF Token
    <3> QED BY <3>1, NewItemType
  <2>2. TextTyped /\ str \in Seq(Symbol) /\ Indented \in Nat
    BY Parts, WidthType DEF Control, StackTyped, TextTyped
  <2>3. Sym(bracket) \in Symbol /\ Kept(Sym(bracket))
    BY SymbolType DEF Kept
  <2>4. <<Sym(bracket)>> \in Seq(Symbol) /\ <<Sym(bracket)>> # << >> /\ <<Sym(bracket)>>[1] = Sym(bracket)
    BY <2>3, Single
  <2>5. nl \in Seq(Symbol)
    <3>1. isIndef \in BOOLEAN
      OBVIOUS
    <3> HIDE DEF isIndef
    <3> QED BY <2>2, <3>1, SpaceType
  <2> HIDE DEF item, nl, bracket
  <2>6. more \in Seq(Symbol) /\ more # << >> /\ Kept(more[1])
    BY <2>3, <2>4, <2>5, Concat
  <2>7. str' = str \o more
    <3>1. str' = str \o <<Sym(bracket)>> \o nl
      BY <1>3 DEF stack_push_item
    <3> QED BY <2>2, <2>4, <2>5, <3>1, ConcatAssociative
  <2> HIDE DEF more
  <2>8. TextTyped' /\ Written'
    BY <2>2, <2>6, <2>7, Grows
  <2> QED BY <1>1, <1>3, <2>1, <2>8, PushStep
<1> QED BY <1>2, <1>3 DEF ProcContainerStart

\* A string, a part of one or the content of a tag
LEMMA StringStep ==
  ASSUME IInv, NEW tok \in Token, input' = Append(input, tok), edn_do_xstring(tok)
  PROVE  IInv'
<1> DEFINE type == IF tok.t = "text" THEN "text" ELSE "byte"
           isPart == stack # << >> /\ IsString(Top)
           isFirst == isPart /\ ~Top.indef_appended
           isWrapped == /\ tok.t = "bytes" /\ args.byte_wrap # 0 /\ Len(tok.s) > args.byte_wrap
                        /\ stack # << >> /\ Top.opt_indent = 1
           level == IF isFirst \/ isWrapped THEN Indented ELSE indent_level
           before == IF isFirst THEN <<Sym("(_")>> \o edn_append_nl(level, TRUE)
                     ELSE IF isPart THEN Separator
                     ELSE IF isWrapped THEN edn_append_nl(level, FALSE)
                     ELSE << >>
           top == IF isPart THEN [Top EXCEPT !.indef_appended = TRUE] ELSE [Top EXCEPT !.opt_indent = 2]
           text == StringText(tok, level)
           more == before \o text
<1>1. Reading(tok)
  BY DEF edn_do_xstring, AtItem, Reading
<1>2. TextTyped /\ str \in Seq(Symbol) /\ pos \in Nat /\ args \in Args /\ indent_level \in Nat /\ Indented \in Nat
  BY Parts, WidthType DEF Control, StackTyped, TextTyped
<1>3. CASE isPart /\ Top.si_type # type
  <2>1. cb_error' = "SYNTAX" /\ pc' = "loop" /\ UNCHANGED <<str, stack, indent_level>>
    BY <1>3 DEF edn_do_xstring, Raise
  <2> QED BY <1>1, <2>1, RaiseStep
<1>4. CASE ~(isPart /\ Top.si_type # type)
  <2>1. /\ indent_level' = level
        /\ edn_append(str \o before \o text, IF isPart \/ isWrapped THEN Append(Below, top) ELSE stack)
    BY <1>4 DEF edn_do_xstring
  <2>2. level \in Nat
    BY <1>2
  <2>3. text \in Seq(Symbol) /\ text # << >> /\ Kept(text[1])
    <3> HIDE DEF level
    <3> QED BY <1>2, <2>2, StringTextType
  <2>4. before \in Seq(Symbol) /\ (isFirst => before # << >> /\ Kept(before[1]))
    <3> HIDE DEF level
    <3>1. Sym("(_") \in Symbol /\ Kept(Sym("(_"))
      BY SymbolType DEF Kept
    <3>2. <<Sym("(_")>> \in Seq(Symbol) /\ <<Sym("(_")>> # << >> /\ <<Sym("(_")>>[1] = Sym("(_")
      BY <3>1, Single
    <3>3. edn_append_nl(level, TRUE) \in Seq(Symbol) /\ edn_append_nl(level, FALSE) \in Seq(Symbol)
      BY <2>2, SpaceType
    <3>4. Separator \in Seq(Symbol)
      BY <1>2, SeparatorType
    <3> DEFINE first == <<Sym("(_")>> \o edn_append_nl(level, TRUE)
    <3>5. first \in Seq(Symbol) /\ first # << >> /\ Kept(first[1])
      BY <3>1, <3>2, <3>3, Concat
    <3>6. << >> \in Seq(Symbol)
      OBVIOUS
    <3> HIDE DEF first, isFirst, isPart, isWrapped
    <3> QED BY <3>3, <3>4, <3>5, <3>6 DEF first
  <2>5. str' = str \o more
    <3> HIDE DEF before, text
    <3>1. str' = str \o before \o text
      BY <2>1 DEF edn_append
    <3>2. text \in Seq(Symbol) /\ before \in Seq(Symbol)
      BY <2>3, <2>4
    <3>3. (str \o before) \o text = str \o (before \o text)
      BY <1>2, <3>2, ConcatAssociative
    <3> QED BY <3>1, <3>3
  <2>6. more \in Seq(Symbol) /\ (isFirst \/ before = << >> => more # << >> /\ Kept(more[1]))
    <3> HIDE DEF before, text, isFirst
    <3> QED BY <2>3, <2>4, Concat
  <2>7. pc' = "append" /\ UNCHANGED cb_error
    BY <2>1 DEF edn_append
  <2>8. CASE isPart \/ isWrapped
    <3>1. stack # << >> /\ stack' = Append(Below, top)
      BY <2>1, <2>8 DEF edn_append
    <3>2. Top \in Item /\ ItemOK(Top)
      BY <1>1, <3>1, TopText DEF Reading
    <3>3. CASE isPart
      <4> DEFINE new == [Top EXCEPT !.indef_appended = TRUE]
      <4>1. new \in Item /\ ItemOK(new) /\ Indents(new) /\ (Indents(Top) <=> Top.indef_appended) /\ ~isWrapped
        <5>1. Top.si_type \in {"byte", "text"} /\ Top.opt_indent = 0
          BY <3>2, <3>3 DEF ItemOK, IsString, Item
        <5>2. new \in Item
          BY <3>2 DEF Item
        <5>3. new.si_type = Top.si_type /\ new.opt_indent = 0 /\ new.indef_appended
          BY <3>2, <5>1 DEF Item
        <5>4. ~isWrapped
          BY <5>1
        <5> HIDE DEF new, isWrapped
        <5> QED BY <5>1, <5>2, <5>3, <5>4 DEF ItemOK, Indents, IsString
      <4>2. Top.indef_appended => Written
        BY <1>2, <3>1 DEF TextTyped, TextInv, Top
      <4>3. indent_level' = (IF Indents(new) /\ ~Indents(Top) THEN Indented ELSE indent_level)
        BY <2>1, <3>3, <4>1
      <4>4. Written \/ (more # << >> /\ Kept(more[1]))
        BY <2>6, <3>3, <4>2
      <4>5. stack' = Append(Below, new)
        BY <3>1, <3>3
      <4> HIDE DEF more, new
      <4> QED BY <1>1, <2>5, <2>6, <2>7, <3>1, <4>1, <4>3, <4>4, <4>5, PartStep
    <3>4. CASE ~isPart /\ isWrapped
      <4> DEFINE new == [Top EXCEPT !.opt_indent = 2]
      <4>1. new \in Item /\ ItemOK(new) /\ Indents(new) /\ ~Indents(Top)
        BY <3>2, <3>4 DEF Item, ItemOK, Indents, IsString
      <4>2. Written
        BY <1>2, <3>1, <3>4 DEF TextTyped, TextInv, Top
      <4>3. indent_level' = (IF Indents(new) /\ ~Indents(Top) THEN Indented ELSE indent_level)
        BY <2>1, <3>4, <4>1
      <4>4. stack' = Append(Below, new)
        BY <3>1, <3>4
      <4> HIDE DEF more, new
      <4> QED BY <1>1, <2>5, <2>6, <2>7, <3>1, <4>1, <4>2, <4>3, <4>4, PartStep
    <3> QED BY <2>8, <3>3, <3>4
  <2>9. CASE ~isPart /\ ~isWrapped
    <3>1. before = << >> /\ level = indent_level
      BY <2>9
    <3>2. UNCHANGED <<stack, indent_level>>
      BY <2>1, <2>9, <3>1 DEF edn_append
    <3> HIDE DEF more
    <3> QED BY <1>1, <2>5, <2>6, <2>7, <3>1, <3>2, LeafStep
  <2> QED BY <2>8, <2>9
<1> QED BY <1>3, <1>4

\* A break
LEMMA BreakStep ==
  ASSUME IInv, NEW tok \in Token, input' = Append(input, tok), ProcBreak(tok)
  PROVE  IInv'
<1>1. Reading(tok) /\ pc = "item"
  BY DEF ProcBreak, AtItem, Reading
<1>2. TextTyped /\ StackTyped /\ str \in Seq(Symbol) /\ pos \in Nat
  BY Parts DEF Control, TextTyped
<1>3. CASE stack = << >>
  BY <1>1, <1>3, RaiseStep DEF ProcBreak, Raise
<1>4. ASSUME stack # << >>, IsString(Top) PROVE IInv'
  <2>1. Top \in Item /\ (Indents(Top) <=> Top.indef_appended) /\ (Indents(Top) => Closed(")") \in Seq(Symbol))
    <3>1. Top \in Item /\ ItemOK(Top) /\ (Indents(Top) => Closed(")") \in Seq(Symbol))
      BY <1>1, <1>4, TopText
    <3> QED BY <1>4, <3>1 DEF ItemOK, Indents, IsString, Item
  <2>2. CASE ~Top.indef_appended
    <3>1. stack' = Below /\ str' = Append(str, Text) /\ pc' = "append" /\ UNCHANGED <<cb_error, indent_level>>
      BY <1>4, <2>2 DEF ProcBreak, edn_append
    <3>2. Text \in Symbol /\ Kept(Text)
      BY <1>2, SymbolType DEF Kept
    <3>3. TextTyped'
      BY <1>2, <3>1, <3>2, GrowsByOne
    <3> QED BY <1>1, <1>4, <2>1, <2>2, <3>1, <3>3, PopStep
  <2>3. CASE Top.indef_appended
    <3>1. /\ stack' = Below /\ str' = str \o Closed(")") /\ pc' = "append" /\ UNCHANGED cb_error
          /\ indent_level' = Deindented
      BY <1>4, <2>3 DEF ProcBreak, edn_append
    <3>2. Written
      BY <1>2, <1>4, <2>3 DEF TextTyped, TextInv, Top, StackTyped
    <3>3. TextTyped'
      BY <1>2, <2>1, <2>3, <3>1, <3>2, Grows
    <3> QED BY <1>1, <1>4, <2>1, <2>3, <3>1, <3>3, PopStep
  <2> QED BY <2>2, <2>3
<1>5. ASSUME stack # << >>, ~IsString(Top), ~BreakAllowed(Top) PROVE IInv'
  <2>1. stack' = Below /\ cb_error' = "SYNTAX" /\ pc' = "loop" /\ UNCHANGED <<str, indent_level>>
    BY <1>5 DEF ProcBreak, Raise
  <2>2. StackTyped'
    <3>1. Top \in Item /\ Below \in Seq(Item) /\ stack = Append(Below, Top)
      BY <1>2, <1>5, TopAndBelow DEF StackTyped
    <3> QED BY <1>2, <2>1, <3>1 DEF StackTyped, ItemInv
  <2>3. Written
    BY <1>2, <1>5 DEF TextTyped, TextInv, Top, StackTyped
  <2>4. TextTyped'
    BY <1>2, <2>1, <2>3 DEF TextTyped, TextInv, Written
  <2>5. Control'
    BY <1>1, <2>1, ReadingControl
  <2> QED BY <2>1, <2>2, <2>4, <2>5, PartsNext
<1>6. ASSUME stack # << >>, ~IsString(Top), BreakAllowed(Top) PROVE IInv'
  <2> DEFINE bracket == IF Top.si_type = "map" THEN "}" ELSE "]"
             kept == IF Top.indef_appended THEN WithoutSeparator(str) ELSE str
  <2>1. /\ stack' = Below /\ str' = kept \o Closed(bracket) /\ pc' = "append" /\ UNCHANGED cb_error
        /\ indent_level' = Deindented
    BY <1>6 DEF ProcBreak, edn_append
  <2>2. Indents(Top)
    <3>1. Top \in Item /\ ItemOK(Top)
      BY <1>1, <1>6, TopText
    <3>2. Top.si_type # "tag"
      BY <1>6, <3>1 DEF BreakAllowed, ItemOK
    <3> QED BY <1>6, <3>1, <3>2 DEF Indents, IsString, Item
  <2>3. Closed(bracket) \in Seq(Symbol)
    BY <1>1, <1>6, <2>2, TopText
  <2>4. Written
    BY <1>2, <1>6 DEF TextTyped, TextInv, Top, StackTyped
  <2>5. kept \in Seq(Symbol) /\ kept # << >> /\ kept[1] = str[1]
    BY <1>2, <2>4, WithoutSeparatorType DEF Written, Kept
  <2> HIDE DEF kept, bracket
  <2>6. str' \in Seq(Symbol) /\ str' # << >> /\ str'[1] = str[1]
    BY <2>1, <2>3, <2>5, Concat
  <2>7. Written'
    BY <2>4, <2>6 DEF Written
  <2>8. TextTyped'
    BY <2>6, <2>7 DEF TextTyped, TextInv
  <2> QED BY <1>1, <1>6, <2>1, <2>2, <2>8, PopStep
<1> QED BY <1>3, <1>4, <1>5, <1>6

-----------------------------------------------------------------------------
(* Theorems.                                                                *)

\* The decoder starts with nothing written, open or indented.
LEMMA Initially == Init => IInv
<1> SUFFICES ASSUME Init PROVE IInv
  OBVIOUS
<1>1. TypeOK
  BY EdnAssumption DEF Init, TypeOK
<1>2. ErrorInv /\ ItemInv /\ TextInv
  BY DEF Init, ErrorInv, ItemInv, TextInv
<1>3. IndentMatchesStack
  <2>1. {i \in DOMAIN stack : Indents(stack[i])} = {}
    BY DEF Init
  <2>2. Width \in Nat
    BY <1>1, WidthType DEF TypeOK
  <2> QED BY <2>1, <2>2, FS_EmptySet DEF Init, IndentMatchesStack
<1> QED BY <1>1, <1>2, <1>3 DEF IInv

\* Every step keeps the invariant.
LEMMA Step == IInv /\ [Next]_vars => IInv'
<1> SUFFICES ASSUME IInv, [Next]_vars PROVE IInv'
  OBVIOUS
<1>1. ASSUME NEW tok \in Tokens, DecItem(tok) PROVE IInv'
  <2>1. tok \in Token /\ input' = Append(input, tok)
    BY <1>1, EdnAssumption DEF DecItem
  <2> QED BY <1>1, <2>1, ScalarStep, StringStep, StringStartStep, ContainerStep, TagStartStep, BreakStep,
             ErrorStep DEF DecItem
<1>2. CASE Start \/ Truncated \/ Loop \/ AppendToRoot \/ AppendToString
  BY <1>2, ControlSteps
<1>3. CASE edn_append_to_array \/ edn_append_to_map \/ edn_append_to_tag
  BY <1>3, ArrayStep, MapStep, TagStep
<1>4. CASE Finish
  BY <1>4, FinishStep
<1>5. CASE UNCHANGED vars
  BY <1>5 DEF vars, IInv, TypeOK, ErrorInv, ItemInv, TextInv, Written, IndentMatchesStack, Indents, IsString, Width
<1> QED BY <1>1, <1>2, <1>3, <1>4, <1>5 DEF Next, EdnAppend

\* The inductive invariant of the EDN decoder holds in every reachable state.
THEOREM Invariance == Spec => []IInv
  BY Initially, Step, PTL DEF Spec

\* The context of decode_edn.h is well-typed; the indentation is never
\* negative, though edn_indent subtracts without a check.
THEOREM TypeCorrect == Spec => []TypeOK
<1>1. IInv => TypeOK
  BY DEF IInv
<1> QED BY <1>1, Invariance, PTL

\* The indentation is that of the open items, for every nesting and option.
THEOREM IndentCorrect == Spec => []IndentMatchesStack
<1>1. IInv => IndentMatchesStack
  BY DEF IInv
<1> QED BY <1>1, Invariance, PTL

=============================================================================
