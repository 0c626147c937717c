--------------------------- MODULE DecodeZvProofs ---------------------------
(***************************************************************************)
(* Proofs about DecodeZv for every set of options, every input and every    *)
(* way to cut it into pieces.                                               *)
(***************************************************************************)
EXTENDS DecodeZv, FiniteSetTheorems, SequenceTheorems, TLAPS

-----------------------------------------------------------------------------
(* Types of the operators on data.                                          *)

\* A scalar of a zval type is a value.
LEMMA ScalarType == \A kind \in Kind, num \in Int : Scalar(kind, num) \in Value
  BY DEF Scalar, Value, Str

\* A string is a value.
LEMMA StrValType == \A s \in Str : StrVal(s) \in Value
  BY DEF StrVal, Value, Kind

\* The constants NULL and UNDEF are values.
LEMMA ConstType == Undef \in Value /\ Null \in Value
  BY ScalarType DEF Undef, Null, Kind

\* A wrapper or a reference is a node.
LEMMA HolderType ==
  \A class \in Class, id \in Int, v \in Value : Holder(class, id, v) \in Node
  BY ConstType DEF Holder, Node, Entry

\* An empty container is a node.
LEMMA EmptyType == \A class \in Class : Empty(class) \in Node
  BY DEF Empty, Node

\* Storing an entry keeps a list of entries.
LEMMA PutEntryType ==
  ASSUME NEW ent \in Seq(Entry), NEW key \in Value, NEW v \in Value
  PROVE  PutEntry(ent, key, v) \in Seq(Entry)
<1>1. CASE HasKey(ent, key)
  <2>1. DOMAIN ent = 1..Len(ent)
    OBVIOUS
  <2>2. ASSUME NEW i \in 1..Len(ent) PROVE ent[i] \in Entry /\ [ent[i] EXCEPT !.v = v] \in Entry
    <3>1. ent[i] \in Entry
      OBVIOUS
    <3> QED BY <3>1 DEF Entry
  <2> DEFINE e(i) == IF ent[i].key = key THEN [ent[i] EXCEPT !.v = v] ELSE ent[i]
  <2>3. \A i \in 1..Len(ent) : e(i) \in Entry
    BY <2>2
  <2> HIDE DEF e
  <2>4. [i \in 1..Len(ent) |-> e(i)] \in Seq(Entry)
    BY <2>3
  <2> QED BY <1>1, <2>1, <2>4 DEF PutEntry, e
<1>2. CASE ~HasKey(ent, key)
  <2>1. [key |-> key, v |-> v] \in Entry
    BY DEF Entry
  <2> QED BY <1>2, <2>1 DEF PutEntry
<1> QED BY <1>1, <1>2

\* The decimal notation of an integer is a string.
LEMMA DecimalType == ASSUME NEW m PROVE Decimal(m) \in Str
<1> DEFINE S == {d \in 1..(MaxDigits - 1) : m >= 10^d}
           D(place) == {d \in 1..9 : (m \div 10^place) % 10 >= d}
           width == Cardinality(S) + 1
<1>1. IsFiniteSet(1..(MaxDigits - 1)) /\ IsFiniteSet(1..9) /\ Cardinality(1..9) = 9
  <2>1. MaxDigits - 1 \in Int /\ 1 \in Int /\ 9 \in Int
    BY NumberAssumption
  <2>2. IsFiniteSet(1..(MaxDigits - 1))
    BY <2>1, FS_Interval
  <2>3. IsFiniteSet(1..9) /\ Cardinality(1..9) = IF 1 > 9 THEN 0 ELSE 9 - 1 + 1
    BY <2>1, FS_Interval
  <2> QED BY <2>2, <2>3
<1>2. IsFiniteSet(S)
  BY <1>1, FS_Subset
<1>3. width \in Nat
  BY <1>2, FS_CardinalityType
<1>4. ASSUME NEW place PROVE Digit[Cardinality(D(place)) + 1] \in Byte
  <2>1. IsFiniteSet(D(place)) /\ Cardinality(D(place)) <= 9
    BY <1>1, FS_Subset
  <2>2. Cardinality(D(place)) \in 0..9
    BY <2>1, FS_CardinalityType
  <2> DEFINE x == Cardinality(D(place))
  <2> HIDE DEF x
  <2>3. ASSUME x \in 0..9 PROVE Digit[x + 1] \in Byte
    <3>1. \A i \in 1..10 : Digit[i] \in Byte
      BY DEF Digit, Byte
    <3> QED BY <2>3, <3>1
  <2> QED BY <2>2, <2>3 DEF x
<1> HIDE DEF width, D
<1>5. [i \in 1..width |-> Digit[Cardinality(D(width - i)) + 1]] \in Seq(Byte)
  BY <1>3, <1>4
<1> QED BY <1>5 DEF Decimal, width, D, Str

\* The decimal notation of an integer is a string, with a sign too.
LEMMA IntToStrType == ASSUME NEW n PROVE IntToStr(n) \in Str
<1>1. Decimal(n) \in Str /\ Decimal(-n) \in Str
  BY DecimalType
<1>2. <<"-">> \in Seq(Byte)
  BY DEF Byte
<1>3. \A s \in Str : <<"-">> \o s \in Str
  BY <1>2, ConcatProperties DEF Str
<1> QED BY <1>1, <1>3 DEF IntToStr

\* Correcting the last digit leaves a string.
LEMMA LastDigitUpType == ASSUME NEW buf \in Str PROVE LastDigitUp(buf) \in Str
<1> DEFINE up(b) == IF \E d \in 0..8 : b = Digit[d + 1]
                    THEN Digit[(CHOOSE d \in 0..8 : b = Digit[d + 1]) + 2] ELSE b
           c(i) == IF i = Len(buf) THEN up(buf[i]) ELSE buf[i]
<1>1. \A i \in 1..10 : Digit[i] \in Byte
  BY DEF Digit, Byte
<1>2. ASSUME NEW b \in Byte PROVE up(b) \in Byte
  <2>1. CASE \E d \in 0..8 : b = Digit[d + 1]
    <3> DEFINE x == CHOOSE d \in 0..8 : b = Digit[d + 1]
    <3>1. x \in 0..8
      BY <2>1
    <3> HIDE DEF x
    <3>2. x + 2 \in 1..10
      BY <3>1
    <3>3. Digit[x + 2] \in Byte
      BY <1>1, <3>2
    <3> QED BY <2>1, <3>3 DEF x
  <2> QED BY <1>2, <2>1
<1> HIDE DEF up
<1>3. \A i \in 1..Len(buf) : c(i) \in Byte
  BY <1>2 DEF Str
<1> HIDE DEF c
<1>4. [i \in 1..Len(buf) |-> c(i)] \in Seq(Byte)
  BY <1>3 DEF Str
<1>5. DOMAIN buf = 1..Len(buf)
  BY DEF Str
<1> QED BY <1>4, <1>5 DEF LastDigitUp, c, up, Str

\* cbor_int_to_str makes a string, at the boundary of the word too.
LEMMA cbor_int_to_strType ==
  ASSUME NEW value, NEW is_negative PROVE cbor_int_to_str(value, is_negative) \in Str
<1> DEFINE n_value == (value + 1) % (Uint64Max + 1)
<1>1. Decimal(value) \in Str /\ Decimal(Uint64Max) \in Str /\ Decimal(n_value) \in Str
  BY DecimalType
<1> HIDE DEF n_value
<1>2. <<"-">> \in Seq(Byte)
  BY DEF Byte
<1>3. \A s \in Str : <<"-">> \o s \in Str
  BY <1>2, ConcatProperties DEF Str
<1>4. LastDigitUp(<<"-">> \o Decimal(Uint64Max)) \in Str
  BY <1>1, <1>3, LastDigitUpType
<1> QED BY <1>1, <1>3, <1>4 DEF cbor_int_to_str, n_value

\* The key of a symbol table is a value.
LEMMA SymtableKeyType == ASSUME NEW key \in Value PROVE SymtableKey(key) \in Value
<1> DEFINE n == StrToInt(key.s)
<1> HIDE DEF n
<1>1. n \in (-LongMax - 1)..LongMax => n \in Int
  BY NumberAssumption
<1>2. n \in Int => Scalar("long", n) \in Value
  BY ScalarType DEF Kind
<1> QED BY <1>1, <1>2 DEF SymtableKey, n

\* The key an entry is stored under is a value.
LEMMA DestKeyType == ASSUME NEW item, item.key \in Value PROVE DestKey(item) \in Value
<1>1. XIntToStr(item.key) \in Value
  BY cbor_int_to_strType, StrValType DEF XIntToStr
<1>2. SymtableKey(XIntToStr(item.key)) \in Value
  BY <1>1, SymtableKeyType
<1>3. StrVal(IntToStr(XIntToStr(item.key).n)) \in Value
  BY IntToStrType, StrValType
<1> QED BY <1>1, <1>2, <1>3 DEF DestKey

\* Replacing an element, if there is one, keeps a sequence and its length.
LEMMA ExceptAny ==
  ASSUME NEW S, NEW seq \in Seq(S), NEW i, NEW e, i \in DOMAIN seq => e \in S
  PROVE  /\ [seq EXCEPT ![i] = e] \in Seq(S)
         /\ Len([seq EXCEPT ![i] = e]) = Len(seq)
<1>1. CASE i \in DOMAIN seq
  BY <1>1, ExceptSeq
<1>2. CASE i \notin DOMAIN seq
  <2>1. [seq EXCEPT ![i] = e] = [j \in DOMAIN seq |-> seq[j]]
    BY <1>2
  <2>2. [j \in DOMAIN seq |-> seq[j]] = seq
    OBVIOUS
  <2> QED BY <2>1, <2>2
<1> QED BY <1>1, <1>2

\* Replacing the entries of a node keeps the heap.
LEMMA HeapEntType ==
  ASSUME NEW hp \in Seq(Node), NEW i, NEW e, i \in DOMAIN hp => e \in Seq(Entry)
  PROVE  /\ [hp EXCEPT ![i].ent = e] \in Seq(Node)
         /\ Len([hp EXCEPT ![i].ent = e]) = Len(hp)
<1>1. i \in DOMAIN hp => [hp[i] EXCEPT !.ent = e] \in Node
  <2> SUFFICES ASSUME i \in DOMAIN hp PROVE [hp[i] EXCEPT !.ent = e] \in Node
    OBVIOUS
  <2>1. hp[i] \in Node
    OBVIOUS
  <2> QED BY <2>1, Zenon DEF Node
<1> QED BY <1>1, ExceptAny

\* The entries of a node are a list of entries.
LEMMA NodeType ==
  ASSUME NEW hp \in Seq(Node), NEW i \in DOMAIN hp
  PROVE  hp[i].ent \in Seq(Entry)
<1>1. hp[i] \in Node
  OBVIOUS
<1> QED BY <1>1 DEF Node

\* Assigning a property keeps the heap.
LEMMA WritePropertyType ==
  ASSUME heap \in Seq(Node), NEW node, NEW key \in Value, NEW v \in Value
  PROVE  /\ WriteProperty(node, key, v) \in Seq(Node)
         /\ Len(WriteProperty(node, key, v)) = Len(heap)
<1> DEFINE ent == heap[node].ent
<1>1. node \in DOMAIN heap => PutEntry(ent, key, v) \in Seq(Entry)
  BY NodeType, PutEntryType
<1>2. Holder("reference", 0, v) \in Node
  BY HolderType DEF Class
<1>3. /\ [heap EXCEPT ![node].ent = PutEntry(ent, key, v)] \in Seq(Node)
      /\ Len([heap EXCEPT ![node].ent = PutEntry(ent, key, v)]) = Len(heap)
  BY <1>1, HeapEntType
<1>4. \A i : /\ [heap EXCEPT ![i] = Holder("reference", 0, v)] \in Seq(Node)
             /\ Len([heap EXCEPT ![i] = Holder("reference", 0, v)]) = Len(heap)
  BY <1>2, ExceptAny
<1> QED BY <1>3, <1>4, Zenon DEF WriteProperty

\* So does the update of a shared object.
LEMMA UpdateValuePropertyType ==
  ASSUME heap \in Seq(Node), NEW node, NEW v \in Value
  PROVE  /\ UpdateValueProperty(node, v) \in Seq(Node)
         /\ Len(UpdateValueProperty(node, v)) = Len(heap)
<1>1. Holder("Shareable", 0, v) \in Node
  BY HolderType DEF Class
<1>2. /\ [heap EXCEPT ![node] = Holder("Shareable", 0, v)] \in Seq(Node)
      /\ Len([heap EXCEPT ![node] = Holder("Shareable", 0, v)]) = Len(heap)
  BY <1>1, ExceptAny
<1>3. <<"value">> \in Str
  BY DEF Str, Byte
<1>4. StrVal(<<"value">>) \in Value
  BY <1>3, StrValType
<1> QED BY <1>2, <1>4, WritePropertyType DEF UpdateValueProperty

\* What a value is dereferenced to is a value.
LEMMA DerefType == ASSUME heap \in Seq(Node), NEW v \in Value PROVE Deref(v) \in Value
<1>1. CASE v.k = "ref" /\ v.n \in DOMAIN heap /\ heap[v.n].ent # << >>
  <2>1. heap[v.n].ent \in Seq(Entry)
    BY <1>1, NodeType
  <2>2. heap[v.n].ent[1] \in Entry
    BY <1>1, <2>1
  <2> QED BY <1>1, <2>2 DEF Deref, Entry
<1>2. CASE ~(v.k = "ref" /\ v.n \in DOMAIN heap /\ heap[v.n].ent # << >>)
  BY <1>2 DEF Deref
<1> QED BY <1>1, <1>2

-----------------------------------------------------------------------------
(* Types of the operations on the stack.                                    *)

\* A new item has the type of items.
LEMMA NewItemType ==
  ASSUME NEW type \in SiType, NEW cnt \in Nat
  PROVE  stack_new_item(type, cnt) \in Item
<1>1. << >> \in Str
  BY DEF Str
<1> QED BY <1>1, ConstType DEF stack_new_item, Item, Thi

\* The item on top is an item; what is below is a stack.
LEMMA TopType ==
  ASSUME stack \in Seq(Item), stack # << >>
  PROVE  /\ Top \in Item
         /\ Len(stack) \in Nat \ {0}
         /\ Len(stack) \in DOMAIN stack
         /\ DOMAIN stack = 1..Len(stack)
  BY DEF Top

\* A sequence without its last element.
LEMMA FrontType ==
  ASSUME NEW S, NEW seq \in Seq(S), seq # << >>
  PROVE  /\ SubSeq(seq, 1, Len(seq) - 1) \in Seq(S)
         /\ Len(SubSeq(seq, 1, Len(seq) - 1)) = Len(seq) - 1
         /\ \A i \in 1..(Len(seq) - 1) : SubSeq(seq, 1, Len(seq) - 1)[i] = seq[i]
<1> DEFINE n == Len(seq) - 1
<1>1. n \in Nat /\ n \in Int /\ 1 \in Int /\ n - 1 + 1 = n /\ Len(seq) = n + 1
  OBVIOUS
<1> HIDE DEF n
<1>2. \A i \in 1..n : seq[i] \in S
  BY <1>1
<1>3. /\ SubSeq(seq, 1, n) \in Seq(S)
      /\ Len(SubSeq(seq, 1, n)) = IF 1 <= n THEN n - 1 + 1 ELSE 0
      /\ \A i \in 1..(n - 1 + 1) : SubSeq(seq, 1, n)[i] = seq[1 + i - 1]
  BY <1>1, <1>2, SubSeqProperties
<1>4. Len(SubSeq(seq, 1, n)) = n
  BY <1>1, <1>3
<1>5. ASSUME NEW i \in 1..n PROVE SubSeq(seq, 1, n)[i] = seq[i]
  <2>1. 1 + i - 1 = i
    BY <1>1
  <2> QED BY <1>1, <1>3, <2>1
<1> QED BY <1>3, <1>4, <1>5 DEF n

\* What is below the top item is a stack.
LEMMA BelowType ==
  ASSUME stack \in Seq(Item), stack # << >>
  PROVE  /\ Below \in Seq(Item)
         /\ Len(Below) = Len(stack) - 1
         /\ \A i \in 1..(Len(stack) - 1) : Below[i] = stack[i]
  BY FrontType DEF Below

\* The handlers that a nested item inherits leave it an item.
LEMMA StrRefNsChildType ==
  ASSUME NEW item \in Item
  PROVE  StrRefNsChild(item) \in Item
<1>1. [item EXCEPT !.thi_child = @ \cup {"str_ref_ns"}, !.thi_data = "str_ref_ns"] \in Item
  BY DEF Item, Thi
<1> QED BY <1>1 DEF StrRefNsChild

\* Pushing an item keeps the types, whichever way it ends.
LEMMA PushType ==
  ASSUME TypeOK, NEW item \in Item, NEW rs \in Seq(Value), NEW hp \in Seq(Node),
         stack_push_item(item, rs, hp)
  PROVE  /\ val' \in Value
         /\ pc' = "loop"
         /\ cb_error' \in Errors
         /\ stack' \in Seq(Item)
         /\ stack_depth' \in Int
         /\ refs' \in Seq(Value)
         /\ heap' \in Seq(Node)
<1>1. val' \in Value /\ pc' = "loop"
  BY ConstType DEF stack_push_item, zv_si_push
<1>2. CASE DepthExceeded
  BY <1>1, <1>2 DEF stack_push_item, zv_si_push, TypeOK, stackVars, Errors
<1>3. CASE ~DepthExceeded /\ ~HasChildHandler("shareable")
  <2>1. StrRefNsChild(item) \in Item
    BY StrRefNsChildType
  <2>2. stack \in Seq(Item) /\ Append(stack, StrRefNsChild(item)) \in Seq(Item)
    BY <2>1, AppendProperties DEF TypeOK
  <2>3. /\ stack' = Append(stack, StrRefNsChild(item)) /\ refs' = rs /\ heap' = hp
        /\ cb_error' = cb_error /\ stack_depth' = stack_depth + 1
    BY <1>3 DEF stack_push_item, zv_si_push
  <2> QED BY <1>1, <2>2, <2>3 DEF TypeOK
<1>4. CASE ~DepthExceeded /\ HasChildHandler("shareable")
  <2> DEFINE new == StrRefNsChild(item)
  <2>1. new \in Item
    BY StrRefNsChildType
  <2>2. stack \in Seq(Item) /\ stack # << >> /\ Top \in Item
    BY <1>4, TopType DEF HasChildHandler, TypeOK
  <2>3. ASSUME NEW v \in Value
        PROVE  /\ Append([stack EXCEPT ![Len(stack)].v = v], new) \in Seq(Item)
               /\ [rs EXCEPT ![Top.index + 1] = v] \in Seq(Value)
    <3>1. [stack[Len(stack)] EXCEPT !.v = v] \in Item
      BY <2>2 DEF Item, Top
    <3>2. [stack EXCEPT ![Len(stack)].v = v] \in Seq(Item)
      BY <2>2, <3>1, ExceptAny
    <3>3. [rs EXCEPT ![Top.index + 1] = v] \in Seq(Value)
      BY ExceptAny
    <3> QED BY <2>1, <3>2, <3>3
  <2>4. /\ item.v \in Value
        /\ Scalar("obj", Len(hp) + 1) \in Value
        /\ Scalar("ref", Len(hp) + 1) \in Value
        /\ Scalar("bool", 1) \in Value
    <3>1. Len(hp) + 1 \in Int
      OBVIOUS
    <3> QED BY <3>1, ScalarType DEF Kind, Item
  <2>5. /\ Holder("Shareable", 0, Scalar("bool", 1)) \in Node
        /\ Holder("reference", 0, Undef) \in Node
    BY <2>4, ConstType, HolderType DEF Class
  <2>6. /\ ShareableChild(item, rs, hp)
        /\ stack_depth' \in Int
    BY <1>4 DEF stack_push_item, zv_si_push, TypeOK
  <2> DEFINE share(v) == /\ stack' = Append([stack EXCEPT ![Len(stack)].v = v], new)
                         /\ refs' = [rs EXCEPT ![Top.index + 1] = v]
                         /\ cb_error' = cb_error
             isObj == item.si_type = "map" /\ item.v.k = "obj"
  <2>7. \/ share(item.v) /\ heap' = hp
        \/ /\ share(Scalar("obj", Len(hp) + 1))
           /\ heap' = Append(hp, Holder("Shareable", 0, Scalar("bool", 1)))
        \/ /\ share(Scalar("ref", Len(hp) + 1))
           /\ heap' = Append(hp, Holder("reference", 0, Undef))
        \/ /\ cb_error' = "TAG_TYPE_SHARE_INCOMPATIBLE" /\ stack' = Append(stack, new)
           /\ refs' = rs /\ heap' = hp
    BY <2>6 DEF ShareableChild
  <2> HIDE DEF new
  <2>8. ASSUME NEW v \in Value, share(v)
        PROVE  stack' \in Seq(Item) /\ refs' \in Seq(Value) /\ cb_error' \in Errors
    BY <2>3, <2>8 DEF TypeOK
  <2>9. Append(stack, new) \in Seq(Item) /\ "TAG_TYPE_SHARE_INCOMPATIBLE" \in Errors
    BY <2>1, <2>2 DEF Errors
  <2> HIDE DEF share
  <2>10. stack' \in Seq(Item) /\ refs' \in Seq(Value) /\ cb_error' \in Errors
    BY <2>4, <2>7, <2>8, <2>9
  <2>11. heap' \in Seq(Node)
    <3>1. \A x \in Node : Append(hp, x) \in Seq(Node)
      BY AppendProperties
    <3> QED BY <2>5, <2>7, <3>1
  <2> QED BY <1>1, <2>6, <2>10, <2>11
<1> QED BY <1>2, <1>3, <1>4

-----------------------------------------------------------------------------
(* What the steps have in common.                                           *)

\* TypeOK in parts: input and options, control, and the structures.
MemOK ==
  /\ args \in Args /\ oneshot \in BOOLEAN /\ input \in Seq(Token) /\ pos \in Nat
  /\ offset \in Nat /\ length \in Nat /\ skip_self_desc \in BOOLEAN /\ read_len \in Nat
  /\ error \in Errors

ControlOK ==
  /\ pc \in {"start", "item", "append", "loop", "stop", "end"}
  /\ cb_error \in Errors
  /\ val \in Value

StackOK == stack \in Seq(Item) /\ stack_depth \in Int

ZvOK ==
  /\ root \in Value /\ srns \in Seq(Seq(Value)) /\ refs \in Seq(Value)
  /\ heap \in Seq(Node)

\* The parts make up the type invariant, before and after a step.
LEMMA TypeParts ==
  /\ TypeOK <=> MemOK /\ ControlOK /\ StackOK /\ ZvOK
  /\ TypeOK' <=> MemOK' /\ ControlOK' /\ StackOK' /\ ZvOK'
  BY DEF TypeOK, MemOK, ControlOK, StackOK, ZvOK

\* How a callback that was called without an error ends, and what that means
\* for ErrorInv: it does not report truncated data unless all data is there.
Ends == \/ \E e \in Errors : Raise(e) /\ (e = "TRUNCATED" => oneshot)
        \/ Return
        \/ \E v \in Value : CallAppend(v)

\* A callback leaves control in a proper state.
LEMMA EndsOK ==
  ASSUME TypeOK, ErrorInv, pc \in {"item", "append"}, Ends, UNCHANGED <<args, oneshot>>
  PROVE  ControlOK' /\ ErrorInv' /\ pc' \in {"append", "loop"}
<1>1. cb_error = "none"
  BY DEF ErrorInv
<1>2. CASE \E e \in Errors : Raise(e) /\ (e = "TRUNCATED" => oneshot)
  BY <1>1, <1>2, ConstType DEF Raise, ControlOK, ErrorInv
<1>3. CASE Return
  BY <1>1, <1>3, ConstType DEF Return, ControlOK, ErrorInv, Errors
<1>4. CASE \E v \in Value : CallAppend(v)
  BY <1>1, <1>4 DEF CallAppend, ControlOK, ErrorInv, Errors
<1> QED BY <1>2, <1>3, <1>4 DEF Ends

\* What a step does to the stack, the namespaces and the shared values.  If
\* the callback fails, the rest of the context does not matter any more.
Stay ==
  /\ UNCHANGED <<stack, stack_depth, refs>>
  /\ Len(srns') = Len(srns)
  /\ pc = "append" => stack = << >> \/ ~Live'

Change ==
  /\ stack # << >> /\ Top.thi = "none"
  /\ \E item \in Item :
       /\ SetTop(item)
       /\ item.si_type = Top.si_type /\ item.thi = Top.thi /\ item.thi_data = Top.thi_data
       /\ item.thi_child = Top.thi_child /\ item.v = Top.v
  /\ UNCHANGED <<stack_depth, refs, srns>>

Pop ==
  /\ stack # << >> /\ stack_pop_item
  /\ Len(refs') = Len(refs)
  /\ ~Live' => refs' = refs
  /\ Live' =>
       /\ pc' = "append"
       /\ Top.si_type = "map" => val' = Top.v
       /\ Len(srns') = IF Top.thi = "str_ref_ns" THEN Len(srns) - 1 ELSE Len(srns)
       /\ IF Top.thi = "shareable" /\ Top.v.k = "null"
          THEN /\ val'.k \in {"obj", "undefobj", "ref"}
               /\ refs' = [refs EXCEPT ![Top.index + 1] = val']
          ELSE refs' = refs

\* hp and rs are the heap and the shared values with what the callback added.
IsPush(item, rs, hp) ==
  /\ pc = "item"
  /\ stack_push_item(item, rs, hp)
  /\ item.thi # "none" => item.si_type = "tag_handled" /\ item.count = 1
  /\ "shareable" \in item.thi_child <=> item.thi = "shareable"
  /\ IF item.thi = "shareable"
     THEN /\ ~IsNestedShareable
          /\ rs = Append(refs, Null) /\ item.v = Null
          /\ item.id = TagShareable /\ item.index = Len(refs)
     ELSE rs = refs
  /\ IF item.thi = "str_ref_ns"
     THEN srns' = Append(srns, << >>) /\ Records(item)
     ELSE srns' = srns /\ item.thi_data = "none" /\ "str_ref_ns" \notin item.thi_child
  /\ item.thi = "str_ref" => srns # << >>
  /\ Len(hp) >= Len(heap)

Push == \E item \in Item, rs \in Seq(Value), hp \in Seq(Node) : IsPush(item, rs, hp)

Effect == Stay \/ Change \/ Pop \/ Push

\* Heap nodes are never removed.
HeapGrows == heap' \in Seq(Node) /\ Len(heap') >= Len(heap)

\* Objects in the string tables do not go away.
LEMMA TableKept ==
  ASSUME TypeOK, TableInv, HeapGrows, UNCHANGED srns
  PROVE  TableInv'
  BY DEF TypeOK, TableInv, HeapGrows

\* zv_append does not touch the input.
LEMMA MemKept == ASSUME TypeOK, UNCHANGED <<memVars, error>> PROVE MemOK'
  BY DEF TypeOK, MemOK, memVars

-----------------------------------------------------------------------------
(* zv_append.                                                               *)

\* What is shown of every step of a callback.
StepOK == TypeOK' /\ TableInv' /\ ErrorInv' /\ Effect /\ UNCHANGED args /\ (Live' => Live)

\* What is left to show of a step of zv_append.
LEMMA AppendStep ==
  ASSUME IInv, pc = "append", UNCHANGED <<memVars, error>>, Ends, Effect,
         StackOK', HeapGrows, root' \in Value, refs' \in Seq(Value),
         srns' \in Seq(Seq(Value)), TableInv'
  PROVE  StepOK
<1>1. TypeOK /\ ErrorInv
  BY DEF IInv
<1>2. MemOK'
  BY <1>1, MemKept
<1>3. ControlOK' /\ ErrorInv'
  BY <1>1, EndsOK DEF memVars
<1>4. Live /\ UNCHANGED args
  BY <1>1 DEF Live, ErrorInv, memVars
<1> QED BY <1>2, <1>3, <1>4, TypeParts DEF StepOK, ZvOK, HeapGrows

\* Popping the top item leaves a stack.
LEMMA PopOK == ASSUME TypeOK, stack # << >>, stack_pop_item PROVE StackOK'
  BY BelowType DEF TypeOK, StackOK, stack_pop_item

\* Replacing the top item leaves a stack.
LEMMA SetTopOK ==
  ASSUME TypeOK, NEW item \in Item, SetTop(item), UNCHANGED stack_depth
  PROVE  StackOK'
<1>1. [stack EXCEPT ![Len(stack)] = item] \in Seq(Item)
  BY ExceptAny DEF TypeOK
<1> QED BY <1>1 DEF TypeOK, StackOK, SetTop

\* Only handled tags have a handler.
LEMMA TopInv ==
  ASSUME TypeOK, ItemInv, stack # << >>
  PROVE  /\ Top \in Item
         /\ Top.si_type # "tag_handled" \/ Top.count # 1 => Top.thi = "none"
         /\ "shareable" \in Top.thi_child <=> Top.thi = "shareable"
         /\ Top.thi = "shareable" => /\ Top.id = TagShareable /\ Top.si_type = "tag_handled"
                                     /\ Top.index < Len(refs)
<1>1. Top \in Item /\ Len(stack) \in DOMAIN stack
  BY TopType DEF TypeOK
<1> QED BY <1>1 DEF ItemInv, Top

\* The end of zv_append_to_array and zv_append_to_map.
LEMMA CountDownOK ==
  ASSUME TypeOK, ItemInv, stack # << >>, Top.si_type # "tag_handled",
         NEW item \in Item, item.si_type = Top.si_type, item.thi = Top.thi,
         item.thi_data = Top.thi_data, item.thi_child = Top.thi_child, item.v = Top.v,
         CountDown(item), UNCHANGED <<refs, srns>>
  PROVE  Ends /\ StackOK' /\ Effect
<1>1. Top.thi = "none"
  BY TopInv
<1>2. CASE item.count = 1
  <2>1. stack_pop_item /\ CallAppend(item.v) /\ item.v \in Value
    BY <1>2 DEF CountDown, Item
  <2>2. Pop
    BY <1>1, <2>1 DEF Pop, CallAppend
  <2> QED BY <2>1, <2>2, PopOK DEF Ends, Effect
<1>3. CASE item.count # 1
  <2> DEFINE new == [item EXCEPT !.count = IF @ = 0 THEN 0 ELSE @ - 1]
  <2>1. new \in Item
    BY DEF Item
  <2>2. SetTop(new) /\ Return /\ UNCHANGED stack_depth
    BY <1>3 DEF CountDown, SetTop
  <2>3. /\ new.si_type = item.si_type /\ new.thi = item.thi /\ new.thi_data = item.thi_data
        /\ new.thi_child = item.thi_child /\ new.v = item.v
    BY DEF Item
  <2> HIDE DEF new
  <2>4. Change
    BY <1>1, <2>1, <2>2, <2>3 DEF Change
  <2> QED BY <2>1, <2>2, <2>4, SetTopOK DEF Ends, Effect
<1> QED BY <1>2, <1>3

\* A callback that fails leaves the stack to be freed.
LEMMA RaiseStays ==
  ASSUME ErrorInv, pc \in {"item", "append"}, NEW e \in Errors \ {"none", "TRUNCATED"}, Raise(e)
  PROVE  Ends /\ ~Live'
  BY DEF Raise, Ends, Live, ErrorInv

\* Nothing but control changes.
LEMMA SameOK ==
  ASSUME TypeOK, UNCHANGED <<stack, stack_depth>>
  PROVE  StackOK'
  BY DEF TypeOK, StackOK

\* Scalars of a new node.
LEMMA NewNodeType ==
  ASSUME heap \in Seq(Node)
  PROVE  /\ Obj \in Value /\ Arr \in Value /\ Ref \in Value
         /\ Obj.k = "obj" /\ Ref.k = "ref" /\ Obj.n = Len(heap) + 1
<1>1. Len(heap) + 1 \in Int
  OBVIOUS
<1> QED BY <1>1, ScalarType DEF Obj, Arr, Ref, NewNode, Kind, Scalar

\* Appending a node, or keeping the heap as it is.
LEMMA HeapAppend ==
  ASSUME heap \in Seq(Node), NEW node \in Node, heap' = Append(heap, node)
  PROVE  HeapGrows
  BY AppendProperties DEF HeapGrows

\* A heap that is kept has not lost a node.
LEMMA HeapSame == ASSUME heap \in Seq(Node), heap' = heap PROVE HeapGrows
  BY DEF HeapGrows

\* The root is set, or an integer too large for it rejected.
LEMMA AppendRootOK == ASSUME IInv, AppendRoot PROVE StepOK
<1>1. TypeOK /\ ErrorInv /\ TableInv
  BY DEF IInv
<1>2. /\ pc = "append" /\ stack = << >> /\ UNCHANGED <<memVars, error>>
      /\ UNCHANGED <<stack, stack_depth, srns, refs, heap>>
  BY DEF AppendRoot, stackVars
<1>3. Ends /\ root' \in Value
  <2>1. CASE IsXInt(val) /\ Raise("INT_RANGE") /\ UNCHANGED root
    BY <1>1, <2>1 DEF Ends, TypeOK, Errors
  <2>2. CASE ~IsXInt(val) /\ root' = val /\ Return
    BY <1>1, <2>2 DEF Ends, TypeOK
  <2> QED BY <2>1, <2>2 DEF AppendRoot
<1>4. HeapGrows /\ StackOK' /\ Stay
  BY <1>1, <1>2, HeapSame, SameOK DEF TypeOK, Stay
<1> QED BY <1>1, <1>2, <1>3, <1>4, AppendStep, TableKept DEF TypeOK, Effect

\* What is no chunk of a string is rejected.
LEMMA AppendToStringOK == ASSUME IInv, AppendToString PROVE StepOK
<1>1. TypeOK /\ ErrorInv /\ TableInv
  BY DEF IInv
<1>2. /\ pc = "append" /\ UNCHANGED <<memVars, error>> /\ UNCHANGED <<stack, stack_depth>>
      /\ UNCHANGED <<root, srns, refs, heap>>
  BY DEF AppendToString, stackVars, zvVars
<1>3. Ends /\ ~Live'
  BY <1>1, <1>2, RaiseStays DEF AppendToString, Errors
<1>4. HeapGrows /\ StackOK' /\ Stay
  BY <1>1, <1>2, <1>3, HeapSame, SameOK DEF TypeOK, Stay
<1> QED BY <1>1, <1>2, <1>3, <1>4, AppendStep, TableKept DEF TypeOK, Effect

\* zv_append_to_array, whether the array is popped or not.
LEMMA AppendToArrayOK == ASSUME IInv, AppendToArray PROVE StepOK
<1>1. TypeOK /\ ErrorInv /\ TableInv /\ ItemInv
  BY DEF IInv
<1>2. /\ pc = "append" /\ stack # << >> /\ Top.si_type = "array"
      /\ UNCHANGED <<memVars, error>> /\ UNCHANGED <<root, srns, refs>>
  BY DEF AppendToArray, AtAppend
<1>3. Top \in Item
  BY <1>1, <1>2, TopType DEF TypeOK
<1> DEFINE ent == heap[Top.v.n].ent
           new == Append(ent, [key |-> Scalar("long", Len(ent)), v |-> val])
<1>4. CASE \E e \in {"INT_RANGE", "UNSUPPORTED_SIZE"} :
             Raise(e) /\ UNCHANGED <<stack, stack_depth, heap>>
  <2>1. Ends /\ ~Live'
    BY <1>1, <1>2, <1>4, RaiseStays DEF Errors
  <2>2. HeapGrows /\ StackOK' /\ Stay
    BY <1>1, <1>2, <1>4, <2>1, HeapSame, SameOK DEF TypeOK, Stay
  <2> QED BY <1>1, <1>2, <2>1, <2>2, AppendStep, TableKept DEF TypeOK, Effect
<1>5. CASE heap' = [heap EXCEPT ![Top.v.n].ent = new] /\ CountDown(Top)
  <2>1. Ends /\ StackOK' /\ Effect
    BY <1>1, <1>2, <1>3, <1>5, CountDownOK
  <2>2. Top.v.n \in DOMAIN heap => new \in Seq(Entry)
    <3> SUFFICES ASSUME Top.v.n \in DOMAIN heap PROVE new \in Seq(Entry)
      OBVIOUS
    <3>1. ent \in Seq(Entry)
      BY <1>1, NodeType DEF TypeOK
    <3>2. Scalar("long", Len(ent)) \in Value
      <4>1. Len(ent) \in Int
        BY <3>1
      <4> QED BY <4>1, ScalarType DEF Kind
    <3>3. [key |-> Scalar("long", Len(ent)), v |-> val] \in Entry
      BY <1>1, <3>2 DEF TypeOK, Entry
    <3> QED BY <3>1, <3>3, AppendProperties
  <2> HIDE DEF new
  <2>3. HeapGrows
    <3>1. heap \in Seq(Node)
      BY <1>1 DEF TypeOK
    <3>2. /\ [heap EXCEPT ![Top.v.n].ent = new] \in Seq(Node)
          /\ Len([heap EXCEPT ![Top.v.n].ent = new]) = Len(heap)
      BY <2>2, <3>1, HeapEntType
    <3> QED BY <1>5, <3>1, <3>2 DEF HeapGrows
  <2> QED BY <1>1, <1>2, <2>1, <2>3, AppendStep, TableKept DEF TypeOK
<1> QED BY <1>4, <1>5 DEF AppendToArray, stackVars

\* zv_append_to_map with a key.
LEMMA AppendMapKeyOK == ASSUME IInv, AppendMapKey PROVE StepOK
<1>1. TypeOK /\ ErrorInv /\ TableInv /\ ItemInv
  BY DEF IInv
<1>2. /\ pc = "append" /\ stack # << >> /\ Top.si_type = "map"
      /\ UNCHANGED <<memVars, error>> /\ UNCHANGED <<stack_depth, root, srns, refs, heap>>
  BY DEF AppendMapKey, AtAppend, zvVars
<1>3. Top \in Item /\ Top.thi = "none"
  BY <1>1, <1>2, TopInv
<1> DEFINE item == [Top EXCEPT !.extra = IF Top.count = 0 THEN @ + 1 ELSE @]
<1>4. \E new \in {item, [item EXCEPT !.key = val]} : SetTop(new)
  BY DEF AppendMapKey
<1>5. Ends
  <2>1. \/ Raise("UNSUPPORTED_SIZE") \/ Raise("UNSUPPORTED_KEY_TYPE") \/ Return
    BY DEF AppendMapKey
  <2> QED BY <2>1 DEF Ends, Errors
<1>6. ASSUME NEW new \in {item, [item EXCEPT !.key = val]}
      PROVE  /\ new \in Item
             /\ new.si_type = Top.si_type /\ new.thi = Top.thi /\ new.thi_data = Top.thi_data
             /\ new.thi_child = Top.thi_child /\ new.v = Top.v
  <2>1. item \in Item
    BY <1>3 DEF Item
  <2>2. [item EXCEPT !.key = val] \in Item
    <3> HIDE DEF item
    <3> QED BY <1>1, <2>1 DEF Item, TypeOK
  <2> QED BY <1>3, <2>1, <2>2 DEF Item
<1> HIDE DEF item
<1>7. StackOK' /\ Change
  BY <1>1, <1>2, <1>3, <1>4, <1>6, SetTopOK DEF Change
<1>8. HeapGrows
  BY <1>1, <1>2, HeapSame DEF TypeOK
<1> QED BY <1>1, <1>2, <1>5, <1>7, <1>8, AppendStep, TableKept DEF TypeOK, Effect

\* zv_append_to_map with a value, in an object or an array.
LEMMA AppendMapValueOK == ASSUME IInv, AppendMapValue PROVE StepOK
<1>1. TypeOK /\ ErrorInv /\ TableInv /\ ItemInv
  BY DEF IInv
<1>2. /\ pc = "append" /\ stack # << >> /\ Top.si_type = "map"
      /\ UNCHANGED <<memVars, error>> /\ UNCHANGED <<root, srns, refs>>
  BY DEF AppendMapValue, AtAppend
<1>3. Top \in Item
  BY <1>1, <1>2, TopType DEF TypeOK
<1> DEFINE item == [Top EXCEPT !.key = Undef]
           key == DestKey(Top)
<1>4. CASE \E e \in {"INT_RANGE", "UNSUPPORTED_KEY_VALUE", "DUPLICATE_KEY"} :
             Raise(e) /\ UNCHANGED <<stack, stack_depth, heap>>
  <2>1. Ends /\ ~Live'
    BY <1>1, <1>2, <1>4, RaiseStays DEF Errors
  <2>2. HeapGrows /\ StackOK' /\ Stay
    BY <1>1, <1>2, <1>4, <2>1, HeapSame, SameOK DEF TypeOK, Stay
  <2> QED BY <1>1, <1>2, <2>1, <2>2, AppendStep, TableKept DEF TypeOK, Effect
<1>5. CASE /\ \/ heap' = WriteProperty(Top.v.n, key, val)
              \/ heap' = [heap EXCEPT ![Top.v.n].ent = PutEntry(@, key, val)]
           /\ CountDown(item)
  <2>1. item \in Item /\ item.si_type = Top.si_type /\ item.thi = Top.thi
        /\ item.thi_data = Top.thi_data /\ item.thi_child = Top.thi_child /\ item.v = Top.v
    BY <1>3, ConstType DEF Item
  <2> HIDE DEF item
  <2>2. Ends /\ StackOK' /\ Effect
    BY <1>1, <1>2, <1>3, <1>5, <2>1, CountDownOK
  <2>3. key \in Value
    BY <1>3, DestKeyType DEF Item
  <2> HIDE DEF key
  <2>4. Top.v.n \in DOMAIN heap => PutEntry(heap[Top.v.n].ent, key, val) \in Seq(Entry)
    BY <1>1, <2>3, NodeType, PutEntryType DEF TypeOK
  <2>5. HeapGrows
    <3>1. CASE heap' = WriteProperty(Top.v.n, key, val)
      BY <1>1, <2>3, <3>1, WritePropertyType DEF TypeOK, HeapGrows
    <3>2. CASE heap' = [heap EXCEPT ![Top.v.n].ent = PutEntry(@, key, val)]
      <4>1. heap \in Seq(Node)
        BY <1>1 DEF TypeOK
      <4> DEFINE e == PutEntry(heap[Top.v.n].ent, key, val)
      <4>2. heap' = [heap EXCEPT ![Top.v.n].ent = e]
        BY <3>2
      <4> HIDE DEF e
      <4>3. /\ [heap EXCEPT ![Top.v.n].ent = e] \in Seq(Node)
            /\ Len([heap EXCEPT ![Top.v.n].ent = e]) = Len(heap)
        BY <2>4, <4>1, HeapEntType DEF e
      <4> QED BY <4>1, <4>2, <4>3 DEF HeapGrows
    <3> QED BY <1>5, <3>1, <3>2
  <2> QED BY <1>1, <1>2, <2>2, <2>5, AppendStep, TableKept DEF TypeOK
<1> QED BY <1>4, <1>5 DEF AppendMapValue, stackVars

\* zv_append_to_tag
LEMMA AppendToTagOK == ASSUME IInv, AppendToTag PROVE StepOK
<1>1. TypeOK /\ ErrorInv /\ TableInv /\ ItemInv
  BY DEF IInv
<1>2. /\ pc = "append" /\ stack # << >> /\ Top.si_type = "tag"
      /\ UNCHANGED <<memVars, error>> /\ UNCHANGED <<root, srns, refs>>
  BY DEF AppendToTag, AtAppend
<1>3. Top \in Item /\ Top.thi = "none"
  BY <1>1, <1>2, TopInv
<1>4. CASE Raise("INT_RANGE") /\ UNCHANGED <<stack, stack_depth, heap>>
  <2>1. Ends /\ ~Live'
    BY <1>1, <1>2, <1>4, RaiseStays DEF Errors
  <2>2. HeapGrows /\ StackOK' /\ Stay
    BY <1>1, <1>2, <1>4, <2>1, HeapSame, SameOK DEF TypeOK, Stay
  <2> QED BY <1>1, <1>2, <2>1, <2>2, AppendStep, TableKept DEF TypeOK, Effect
<1>5. CASE /\ heap' = Append(heap, Holder("Tag", Top.id, Deref(val)))
           /\ stack_pop_item /\ CallAppend(Obj)
  <2>1. Holder("Tag", Top.id, Deref(val)) \in Node
    BY <1>1, <1>3, DerefType, HolderType DEF TypeOK, Class, Item
  <2>2. HeapGrows
    BY <1>1, <1>5, <2>1, HeapAppend DEF TypeOK
  <2>3. Ends /\ pc' = "append"
    BY <1>1, <1>5, NewNodeType DEF Ends, TypeOK, CallAppend
  <2>4. StackOK' /\ Pop
    BY <1>1, <1>2, <1>3, <1>5, <2>3, PopOK DEF Pop
  <2> QED BY <1>1, <1>2, <2>2, <2>3, <2>4, AppendStep, TableKept DEF TypeOK, Effect
<1> QED BY <1>4, <1>5 DEF AppendToTag, stackVars

\* There are finitely many namespaces open.
LEMMA OpenFinite == ASSUME TypeOK PROVE IsFiniteSet(OpenNamespaces)
<1>1. DOMAIN stack = 1..Len(stack) /\ Len(stack) \in Int /\ 1 \in Int
  BY DEF TypeOK
<1>2. IsFiniteSet(1..Len(stack))
  BY <1>1, FS_Interval
<1> QED BY <1>1, <1>2, FS_Subset DEF OpenNamespaces

\* An item that depends on a namespace finds a string table.
LEMMA NamespaceExists ==
  ASSUME TypeOK, NamespaceInv, Live, NEW i \in DOMAIN stack,
         NeedsNamespace(stack[i]) \/ stack[i].thi = "str_ref_ns"
  PROVE  srns # << >> /\ Len(srns) > 0 /\ srns[Len(srns)] \in Seq(Value)
<1>1. OpenNamespaces # {}
  BY DEF NamespaceInv, OpenNamespaces, TypeOK
<1>2. IsFiniteSet(OpenNamespaces)
  BY OpenFinite
<1>3. Len(srns) # 0
  BY <1>1, <1>2, FS_EmptySet DEF NamespaceInv
<1> QED BY <1>3 DEF TypeOK

\* The end of a namespace: there is a table to drop.
LEMMA StrRefNsExitOK == ASSUME IInv, StrRefNsExit PROVE StepOK
<1>1. TypeOK /\ ErrorInv /\ TableInv /\ ItemInv /\ NamespaceInv
  BY DEF IInv
<1>2. /\ pc = "append" /\ stack # << >> /\ Top.thi = "str_ref_ns" /\ Top.si_type = "tag_handled"
      /\ UNCHANGED <<memVars, error>> /\ UNCHANGED <<root, refs, heap>>
      /\ stack_pop_item /\ srns' = SubSeq(srns, 1, Len(srns) - 1) /\ CallAppend(val)
  BY DEF StrRefNsExit, AtExit, AtAppend
<1>3. Len(srns) > 0
  <2>1. Len(stack) \in DOMAIN stack /\ Live
    BY <1>1, <1>2, TopType DEF TypeOK, Live, ErrorInv
  <2> QED BY <1>1, <1>2, <2>1, NamespaceExists DEF Top
<1>4. /\ srns' \in Seq(Seq(Value)) /\ Len(srns') = Len(srns) - 1
      /\ \A t \in 1..(Len(srns) - 1) : srns'[t] = srns[t]
  <2>1. srns \in Seq(Seq(Value)) /\ Len(srns) \in Nat
    BY <1>1 DEF TypeOK
  <2>2. srns # << >>
    BY <1>3, <2>1
  <2> QED BY <1>2, <2>1, <2>2, FrontType
<1>5. TableInv'
  BY <1>1, <1>2, <1>4 DEF TableInv, TypeOK
<1>6. Ends /\ HeapGrows
  BY <1>1, <1>2, HeapSame DEF Ends, TypeOK
<1>7. StackOK' /\ Pop
  BY <1>1, <1>2, <1>4, PopOK DEF Pop, CallAppend
<1> QED BY <1>1, <1>2, <1>4, <1>5, <1>6, <1>7, AppendStep DEF TypeOK, Effect

\* The end of a {stringref}: there are a table and a string.
LEMMA StrRefExitOK == ASSUME IInv, StrRefExit PROVE StepOK
<1>1. TypeOK /\ ErrorInv /\ TableInv /\ ItemInv /\ NamespaceInv
  BY DEF IInv
<1>2. /\ pc = "append" /\ stack # << >> /\ Top.thi = "str_ref" /\ Top.si_type = "tag_handled"
      /\ UNCHANGED <<memVars, error>> /\ UNCHANGED <<root, srns, refs>>
      /\ stack_pop_item
  BY DEF StrRefExit, AtExit, AtAppend
<1>3. Len(srns) > 0 /\ srns[Len(srns)] \in Seq(Value)
  <2>1. Len(stack) \in DOMAIN stack /\ Live
    BY <1>1, <1>2, TopType DEF TypeOK, Live, ErrorInv
  <2> QED BY <1>1, <1>2, <2>1, NamespaceExists DEF Top, NeedsNamespace
<1> DEFINE str_table == srns[Len(srns)]
           inRange == val.n \in 0..(Len(str_table) - 1)
           str == str_table[val.n + 1]
<1>4. inRange => str \in Value /\ (str.k = "obj" => heap[str.n] \in Node)
  <2> SUFFICES ASSUME inRange PROVE str \in Value /\ (str.k = "obj" => heap[str.n] \in Node)
    OBVIOUS
  <2>1. val.n + 1 \in DOMAIN str_table /\ Len(srns) \in DOMAIN srns
    BY <1>1, <1>3 DEF TypeOK
  <2>2. str \in Value
    BY <1>3, <2>1
  <2>3. str.k = "obj" => str.n \in DOMAIN heap
    BY <1>1, <2>1 DEF TableInv
  <2> QED BY <1>1, <2>2, <2>3, SMTT(30) DEF TypeOK
<1>5. StackOK' /\ (Live' => pc' = "append") => Pop
  BY <1>1, <1>2 DEF Pop
<1>6. StackOK'
  BY <1>1, <1>2, PopOK
<1>7. \/ /\ \E e \in {"TAG_TYPE_STR_REF_NOT_INT", "TAG_VALUE_STR_REF_RANGE"} : Raise(e)
         /\ UNCHANGED heap
      \/ inRange /\ CallAppend(str) /\ UNCHANGED heap
      \/ inRange /\ str.k = "obj" /\ CallAppend(Obj) /\ heap' = Append(heap, heap[str.n])
  BY DEF StrRefExit
<1> HIDE DEF inRange, str
<1>8. Ends /\ (Live' => pc' = "append") /\ HeapGrows
  <2>1. CASE /\ \E e \in {"TAG_TYPE_STR_REF_NOT_INT", "TAG_VALUE_STR_REF_RANGE"} : Raise(e)
             /\ UNCHANGED heap
    BY <1>1, <1>2, <2>1, RaiseStays, HeapSame DEF Errors, TypeOK
  <2>2. CASE inRange /\ CallAppend(str) /\ UNCHANGED heap
    BY <1>1, <1>4, <2>2, HeapSame DEF Ends, CallAppend, TypeOK
  <2>3. CASE inRange /\ str.k = "obj" /\ CallAppend(Obj) /\ heap' = Append(heap, heap[str.n])
    <3>1. heap \in Seq(Node) /\ Obj \in Value /\ heap[str.n] \in Node
      BY <1>1, <1>4, <2>3, NewNodeType DEF TypeOK
    <3> QED BY <2>3, <3>1, HeapAppend DEF Ends, CallAppend
  <2> QED BY <1>7, <2>1, <2>2, <2>3
<1> QED BY <1>1, <1>2, <1>5, <1>6, <1>8, AppendStep, TableKept DEF TypeOK, Effect

\* The end of a {sharedref}.
LEMMA SharedRefExitOK == ASSUME IInv, SharedRefExit PROVE StepOK
<1>1. TypeOK /\ ErrorInv /\ TableInv /\ ItemInv
  BY DEF IInv
<1>2. /\ pc = "append" /\ stack # << >> /\ Top.thi = "shared_ref" /\ Top.si_type = "tag_handled"
      /\ UNCHANGED <<memVars, error>> /\ UNCHANGED <<root, srns, refs, heap>>
      /\ stack_pop_item
  BY DEF SharedRefExit, AtExit, AtAppend, zvVars
<1>3. \/ \E e \in {"TAG_TYPE_SHARE_NOT_INT", "TAG_VALUE_SHARE_RANGE"} : Raise(e)
      \/ \E v \in Value : CallAppend(v)
  <2>1. val.n \in 0..(Len(refs) - 1) => refs[val.n + 1] \in Value
    BY <1>1 DEF TypeOK
  <2> QED BY <2>1 DEF SharedRefExit
<1>4. Ends /\ (Live' => pc' = "append")
  <2>1. CASE \E e \in {"TAG_TYPE_SHARE_NOT_INT", "TAG_VALUE_SHARE_RANGE"} : Raise(e)
    BY <1>1, <1>2, <2>1, RaiseStays DEF Errors
  <2>2. CASE \E v \in Value : CallAppend(v)
    BY <2>2 DEF Ends, CallAppend
  <2> QED BY <1>3, <2>1, <2>2
<1>5. StackOK' /\ Pop /\ HeapGrows
  BY <1>1, <1>2, <1>4, PopOK, HeapSame DEF Pop, TypeOK
<1> QED BY <1>1, <1>2, <1>4, <1>5, AppendStep, TableKept DEF TypeOK, Effect

\* The end of a {shareable} whose content was not pushed.
LEMMA ShareableExitLeafOK == ASSUME IInv, ShareableExitLeaf PROVE StepOK
<1>1. TypeOK /\ ErrorInv /\ TableInv /\ ItemInv
  BY DEF IInv
<1>2. /\ pc = "append" /\ stack # << >> /\ Top.thi = "shareable" /\ Top.v.k = "null"
      /\ Top.si_type = "tag_handled"
      /\ UNCHANGED <<memVars, error>> /\ UNCHANGED <<root, srns>>
      /\ stack_pop_item
  BY DEF ShareableExitLeaf, AtExit, AtAppend
<1> DEFINE share(v) == refs' = [refs EXCEPT ![Top.index + 1] = v] /\ CallAppend(v)
<1>3. \/ /\ \E e \in {"INT_RANGE", "TAG_TYPE_SHARE_INCOMPATIBLE"} : Raise(e)
         /\ UNCHANGED <<refs, heap>>
      \/ IsObject(val) /\ share(val) /\ UNCHANGED heap
      \/ share(Ref) /\ heap' = Append(heap, Holder("reference", 0, val))
      \/ share(Obj) /\ heap' = Append(heap, Holder("Shareable", 0, val))
  BY DEF ShareableExitLeaf, ShareLeaf
<1>4. StackOK'
  BY <1>1, <1>2, PopOK
<1>5. ASSUME NEW v \in Value, v.k \in {"obj", "undefobj", "ref"}, share(v)
      PROVE  Ends /\ Pop /\ refs' \in Seq(Value)
  <2>1. /\ [refs EXCEPT ![Top.index + 1] = v] \in Seq(Value)
        /\ Len([refs EXCEPT ![Top.index + 1] = v]) = Len(refs)
    <3>1. refs \in Seq(Value)
      BY <1>1 DEF TypeOK
    <3> DEFINE i == Top.index + 1
    <3> HIDE DEF i
    <3>2. [refs EXCEPT ![i] = v] \in Seq(Value) /\ Len([refs EXCEPT ![i] = v]) = Len(refs)
      BY <3>1, ExceptAny
    <3> QED BY <3>2 DEF i
  <2>2. Ends /\ pc' = "append" /\ val' = v /\ Live'
    BY <1>1, <1>2, <1>5 DEF Ends, CallAppend, Live, ErrorInv
  <2>3. Pop
    BY <1>2, <1>5, <2>1, <2>2 DEF Pop
  <2> QED BY <1>5, <2>1, <2>2, <2>3
<1>6. /\ val \in Value /\ Ref \in Value /\ Obj \in Value /\ Ref.k = "ref" /\ Obj.k = "obj"
      /\ Holder("reference", 0, val) \in Node /\ Holder("Shareable", 0, val) \in Node
      /\ heap \in Seq(Node)
  BY <1>1, NewNodeType, HolderType DEF TypeOK, Class
<1> HIDE DEF share
<1>7. Ends /\ Pop /\ refs' \in Seq(Value) /\ HeapGrows
  <2>1. CASE /\ \E e \in {"INT_RANGE", "TAG_TYPE_SHARE_INCOMPATIBLE"} : Raise(e)
             /\ UNCHANGED <<refs, heap>>
    <3>1. Ends /\ ~Live'
      BY <1>1, <1>2, <2>1, RaiseStays DEF Errors
    <3> QED BY <1>1, <1>2, <1>6, <2>1, <3>1, HeapSame DEF Pop, TypeOK
  <2>2. CASE IsObject(val) /\ share(val) /\ UNCHANGED heap
    BY <1>5, <1>6, <2>2, HeapSame DEF IsObject
  <2>3. CASE share(Ref) /\ heap' = Append(heap, Holder("reference", 0, val))
    BY <1>5, <1>6, <2>3, HeapAppend
  <2>4. CASE share(Obj) /\ heap' = Append(heap, Holder("Shareable", 0, val))
    BY <1>5, <1>6, <2>4, HeapAppend
  <2> QED BY <1>3, <2>1, <2>2, <2>3, <2>4
<1> QED BY <1>1, <1>2, <1>4, <1>7, AppendStep, TableKept DEF TypeOK, Effect

\* The end of a {shareable} whose content was pushed.
LEMMA ShareableExitNestedOK == ASSUME IInv, ShareableExitNested PROVE StepOK
<1>1. TypeOK /\ ErrorInv /\ TableInv /\ ItemInv
  BY DEF IInv
<1>2. /\ pc = "append" /\ stack # << >> /\ Top.thi = "shareable" /\ Top.v.k # "null"
      /\ Top.si_type = "tag_handled"
      /\ UNCHANGED <<memVars, error>> /\ UNCHANGED <<root, srns, refs>>
      /\ stack_pop_item
  BY DEF ShareableExitNested, AtExit, AtAppend
<1>3. Top.v \in Value /\ val \in Value /\ heap \in Seq(Node)
  BY <1>1, <1>2, TopType DEF Item, TypeOK
<1>4. \/ \E e \in {"INT_RANGE", "TAG_VALUE_SHARE_SELF"} : Raise(e)
      \/ CallAppend(Top.v)
      \/ CallAppend(val)
  BY DEF ShareableExitNested
<1>5. Ends /\ (Live' => pc' = "append")
  <2>1. CASE \E e \in {"INT_RANGE", "TAG_VALUE_SHARE_SELF"} : Raise(e)
    BY <1>1, <1>2, <2>1, RaiseStays DEF Errors
  <2>2. CASE CallAppend(Top.v) \/ CallAppend(val)
    BY <1>3, <2>2 DEF Ends, CallAppend
  <2> QED BY <1>4, <2>1, <2>2
<1>6. HeapGrows
  <2>1. \/ UNCHANGED heap
        \/ heap' = UpdateValueProperty(Top.v.n, val)
        \/ heap' = [heap EXCEPT ![Top.v.n] = Holder("reference", 0, val)]
    BY DEF ShareableExitNested
  <2>2. /\ UpdateValueProperty(Top.v.n, val) \in Seq(Node)
        /\ Len(UpdateValueProperty(Top.v.n, val)) = Len(heap)
    BY <1>3, UpdateValuePropertyType
  <2>3. Holder("reference", 0, val) \in Node
    BY <1>3, HolderType DEF Class
  <2>4. /\ [heap EXCEPT ![Top.v.n] = Holder("reference", 0, val)] \in Seq(Node)
        /\ Len([heap EXCEPT ![Top.v.n] = Holder("reference", 0, val)]) = Len(heap)
    BY <1>3, <2>3, ExceptAny
  <2> QED BY <1>3, <2>1, <2>2, <2>4 DEF HeapGrows
<1>7. StackOK' /\ Pop
  BY <1>1, <1>2, <1>5, PopOK DEF Pop
<1> QED BY <1>1, <1>2, <1>5, <1>6, <1>7, AppendStep, TableKept DEF TypeOK, Effect

\* Every step of zv_append keeps the types.
LEMMA ZvAppendOK == ASSUME IInv, ZvAppend PROVE StepOK
  BY AppendRootOK, AppendToStringOK, AppendToArrayOK, AppendMapKeyOK, AppendMapValueOK,
     AppendToTagOK, StrRefNsExitOK, StrRefExitOK, SharedRefExitOK, ShareableExitLeafOK,
     ShareableExitNestedOK
  DEF ZvAppend

-----------------------------------------------------------------------------
(* dec_item, items that push nothing.                                       *)

\* Reading an item keeps the types of the input and what is read of it.
LEMMA ReadOK ==
  ASSUME TypeOK, NEW tok \in Tokens, NEW type, Read(tok, type)
  PROVE  /\ MemOK' /\ UNCHANGED <<args, oneshot>>
         /\ pc = "item" /\ tok \in Token /\ tok.t = type
<1>1. tok \in Token
  BY TokensAssumption
<1>2. Seen(tok) \in Seq(Token)
  BY <1>1 DEF TypeOK, Seen
<1> QED BY <1>1, <1>2 DEF TypeOK, MemOK, Read, Token

\* What is left to show of a callback.
LEMMA ReadStep ==
  ASSUME IInv, MemOK', UNCHANGED <<args, oneshot>>, pc = "item", Ends, Effect,
         StackOK', HeapGrows, UNCHANGED root, refs' \in Seq(Value),
         srns' \in Seq(Seq(Value)), TableInv'
  PROVE  StepOK
<1>1. TypeOK /\ ErrorInv
  BY DEF IInv
<1>2. ControlOK' /\ ErrorInv'
  BY <1>1, EndsOK
<1>3. Live
  BY <1>1 DEF Live, ErrorInv
<1> QED BY <1>1, <1>2, <1>3, TypeParts DEF TypeOK, StepOK, ZvOK, HeapGrows

\* Callbacks that hand a value on or fail.
LEMMA ReadScalar ==
  ASSUME IInv, MemOK', UNCHANGED <<args, oneshot>>, pc = "item", Ends, HeapGrows,
         UNCHANGED <<stack, stack_depth, root, srns, refs>>
  PROVE  StepOK
<1>1. TypeOK /\ TableInv
  BY DEF IInv
<1>2. StackOK' /\ Stay
  BY <1>1, SameOK DEF Stay
<1> QED BY <1>1, <1>2, ReadStep, TableKept DEF TypeOK, Effect

\* Numbers, simple values and tags that are out of range.
LEMMA ProcScalarOK ==
  ASSUME IInv, NEW tok \in Tokens,
         \/ ProcUint(tok) \/ ProcNint(tok) \/ ProcFloatx(tok) \/ ProcPrimitive(tok)
         \/ ProcSimple(tok) \/ TagOutOfRange(tok)
  PROVE  StepOK
<1>1. TypeOK /\ heap \in Seq(Node)
  BY DEF IInv, TypeOK
<1>2. \E type : Read(tok, type)
  BY DEF ProcUint, ProcNint, ProcFloatx, ProcPrimitive, ProcSimple, TagOutOfRange
<1>3. MemOK' /\ UNCHANGED <<args, oneshot>> /\ pc = "item" /\ tok.n \in Nat
  BY <1>1, <1>2, ReadOK DEF Token
<1>4. UNCHANGED <<stack, stack_depth, root, srns, refs>>
  BY DEF ProcUint, ProcNint, ProcFloatx, ProcPrimitive, ProcSimple, TagOutOfRange, stackVars, zvVars
<1>5. Ends
  <2>1. /\ \A kind \in {"xuint", "long", "xnint", "double", "undefobj", "bool"} :
             Scalar(kind, tok.n) \in Value
        /\ Scalar("long", -tok.n - 1) \in Value
        /\ Scalar("undefobj", 0) \in Value
        /\ Obj \in Value /\ Null \in Value
    BY <1>1, <1>3, ScalarType, ConstType, NewNodeType DEF Kind
  <2>2. CASE ProcUint(tok)
    BY <2>1, <2>2 DEF ProcUint, Ends
  <2>3. CASE ProcNint(tok)
    BY <2>1, <2>3 DEF ProcNint, Ends
  <2>4. CASE ProcFloatx(tok)
    BY <2>1, <2>4 DEF ProcFloatx, Ends
  <2>5. CASE ProcPrimitive(tok)
    BY <2>1, <2>5 DEF ProcPrimitive, Ends
  <2>6. CASE ProcSimple(tok) \/ TagOutOfRange(tok)
    BY <2>6 DEF ProcSimple, TagOutOfRange, Ends, Errors
  <2> QED BY <2>2, <2>3, <2>4, <2>5, <2>6
<1>6. HeapGrows
  <2>1. CASE ProcFloatx(tok)
    <3> DEFINE class == IF tok.t = "float16" THEN "Float16" ELSE "Float32"
    <3>1. Holder(class, 0, Scalar("double", tok.n)) \in Node
      BY <1>3, ScalarType, HolderType DEF Kind, Class
    <3>2. heap' = heap \/ heap' = Append(heap, Holder(class, 0, Scalar("double", tok.n)))
      BY <2>1 DEF ProcFloatx
    <3> HIDE DEF class
    <3> QED BY <1>1, <3>1, <3>2, HeapSame, HeapAppend
  <2>2. CASE ~ProcFloatx(tok)
    <3>1. heap' = heap
      BY <2>2 DEF ProcUint, ProcNint, ProcPrimitive, ProcSimple, TagOutOfRange, zvVars
    <3> QED BY <1>1, <3>1, HeapSame
  <2> QED BY <2>1, <2>2
<1> QED BY <1>3, <1>4, <1>5, <1>6, ReadScalar

\* tag_handler_str_ref_ns_data
LEMMA StrRefNsDataOK ==
  ASSUME TypeOK, TableInv, HeapGrows, NEW v \in Value, v.k = "obj" => v.n \in DOMAIN heap',
         NEW len, srns' = StrRefNsData(v, len)
  PROVE  srns' \in Seq(Seq(Value)) /\ Len(srns') = Len(srns) /\ TableInv'
<1> DEFINE str_table == srns[Len(srns)]
           new == Append(str_table, v)
<1>1. srns \in Seq(Seq(Value)) /\ heap \in Seq(Node)
  BY DEF TypeOK
<1>2. CASE srns' = srns
  BY <1>1, <1>2, TableKept
<1>3. CASE srns' = [srns EXCEPT ![Len(srns)] = new]
  <2>1. Len(srns) \in DOMAIN srns => str_table \in Seq(Value)
    BY <1>1
  <2>2. Len(srns) \in DOMAIN srns =>
          /\ new \in Seq(Value) /\ Len(new) = Len(str_table) + 1
          /\ \A e \in 1..Len(str_table) : new[e] = str_table[e]
          /\ new[Len(str_table) + 1] = v
    BY <2>1, AppendProperties
  <2> HIDE DEF new
  <2>3. srns' \in Seq(Seq(Value)) /\ Len(srns') = Len(srns)
    BY <1>1, <1>3, <2>2, ExceptAny
  <2>4. DOMAIN heap \subseteq DOMAIN heap'
    BY <1>1 DEF HeapGrows
  <2>5. ASSUME NEW t \in DOMAIN srns', NEW e \in DOMAIN srns'[t], srns'[t][e].k = "obj"
        PROVE  srns'[t][e].n \in DOMAIN heap'
    <3>1. t \in DOMAIN srns
      BY <1>1, <2>3
    <3>2. CASE t # Len(srns)
      <4>1. srns'[t] = srns[t]
        BY <1>3, <3>1, <3>2
      <4> QED BY <2>4, <2>5, <3>1, <4>1 DEF TableInv
    <3>3. CASE t = Len(srns)
      <4>1. srns'[t] = new
        BY <1>3, <3>1, <3>3
      <4>2. CASE e \in 1..Len(str_table)
        <5>1. srns'[t][e] = srns[t][e] /\ e \in DOMAIN srns[t]
          BY <2>1, <2>2, <3>1, <3>3, <4>1, <4>2
        <5> QED BY <2>4, <2>5, <3>1, <5>1 DEF TableInv
      <4>3. CASE e = Len(str_table) + 1
        BY <2>2, <2>5, <3>1, <3>3, <4>1, <4>3
      <4>4. e \in 1..(Len(str_table) + 1)
        BY <2>2, <2>5, <3>1, <3>3, <4>1
      <4>5. Len(str_table) \in Nat
        BY <2>1, <3>1, <3>3
      <4> QED BY <4>2, <4>3, <4>4, <4>5
    <3> QED BY <3>2, <3>3
  <2> QED BY <2>3, <2>5 DEF TableInv
<1> QED BY <1>2, <1>3 DEF StrRefNsData

\* zv_append_string_item
LEMMA StringItemOK ==
  ASSUME IInv, pc = "item", NEW st, NEW str \in Str, NEW is_text, NEW is_indef,
         zv_append_string_item(st, str, is_text, is_indef)
  PROVE  /\ Ends /\ (Live' => pc' = "append")
         /\ HeapGrows
         /\ srns' \in Seq(Seq(Value)) /\ Len(srns') = Len(srns) /\ TableInv'
<1>1. TypeOK /\ ErrorInv /\ TableInv /\ heap \in Seq(Node) /\ srns \in Seq(Seq(Value))
  BY DEF IInv, TypeOK
<1>2. CASE Raise("UNSUPPORTED_KEY_TYPE") /\ UNCHANGED <<srns, heap>>
  <2>1. Ends /\ ~Live'
    BY <1>1, <1>2, RaiseStays DEF Errors
  <2> QED BY <1>1, <1>2, <2>1, HeapSame, TableKept
<1> DEFINE node == Holder(StringClass(is_text), 0, StrVal(str))
<1>3. CASE \E plain \in BOOLEAN :
             LET v == IF plain THEN StrVal(str) ELSE Obj
             IN  /\ heap' = IF plain THEN heap ELSE Append(heap, node)
                 /\ srns' = StrRefNsData(v, Len(str)) \/ srns' = srns
                 /\ CallAppend(v)
  <2>1. PICK plain \in BOOLEAN :
             LET v == IF plain THEN StrVal(str) ELSE Obj
             IN  /\ heap' = IF plain THEN heap ELSE Append(heap, node)
                 /\ srns' = StrRefNsData(v, Len(str)) \/ srns' = srns
                 /\ CallAppend(v)
    BY <1>3
  <2> DEFINE v == IF plain THEN StrVal(str) ELSE Obj
  <2>2. StrVal(str) \in Value /\ Obj \in Value /\ StrVal(str).k = "str" /\ Obj.n = Len(heap) + 1
    BY <1>1, StrValType, NewNodeType DEF StrVal
  <2>3. node \in Node
    BY <2>2, HolderType DEF Class, StringClass
  <2> HIDE DEF node
  <2>4. HeapGrows
    BY <1>1, <2>1, <2>3, HeapSame, HeapAppend
  <2>5. v \in Value /\ (v.k = "obj" => v.n \in DOMAIN heap')
    <3>1. CASE plain
      BY <2>2, <3>1
    <3>2. CASE ~plain
      <4>1. Len(heap') = Len(heap) + 1 /\ heap' \in Seq(Node)
        BY <1>1, <2>1, <2>3, <3>2, AppendProperties
      <4> QED BY <1>1, <2>2, <3>2, <4>1
    <3> QED BY <3>1, <3>2
  <2>6. srns' = StrRefNsData(v, Len(str)) \/ srns' = srns
    BY <2>1
  <2>7. CallAppend(v)
    BY <2>1
  <2> HIDE DEF v
  <2>8. srns' \in Seq(Seq(Value)) /\ Len(srns') = Len(srns) /\ TableInv'
    BY <1>1, <2>4, <2>5, <2>6, StrRefNsDataOK, TableKept
  <2> QED BY <2>4, <2>5, <2>7, <2>8 DEF Ends, CallAppend
<1> QED BY <1>2, <1>3 DEF zv_append_string_item

\* zv_do_xstring, a chunk or a string.
LEMMA ProcStringOK == ASSUME IInv, NEW tok \in Tokens, ProcString(tok) PROVE StepOK
<1>1. TypeOK /\ ErrorInv /\ TableInv /\ ItemInv /\ heap \in Seq(Node) /\ srns \in Seq(Seq(Value))
  BY DEF IInv, TypeOK
<1>2. \E type : Read(tok, type)
  BY DEF ProcString
<1>3. MemOK' /\ UNCHANGED <<args, oneshot>> /\ pc = "item" /\ tok.s \in Str
  BY <1>1, <1>2, ReadOK DEF Token
<1>4. UNCHANGED <<stack_depth, root, refs>>
  BY DEF ProcString
<1>5. CASE /\ \E e \in {"UTF8", "SYNTAX_INCONSISTENT_STRING_TYPE"} : Raise(e)
           /\ UNCHANGED <<stack, srns, heap>>
  BY <1>1, <1>3, <1>4, <1>5, ReadScalar, HeapSame DEF Ends, Errors
<1>6. CASE /\ stack # << >> /\ IsString(Top)
           /\ SetTop([Top EXCEPT !.str = @ \o tok.s]) /\ Return /\ UNCHANGED <<srns, heap>>
  <2> DEFINE item == [Top EXCEPT !.str = @ \o tok.s]
  <2>1. Top \in Item /\ Top.thi = "none"
    BY <1>1, <1>6, TopInv DEF IsString
  <2>2. Top.str \o tok.s \in Str
    <3>1. Top.str \in Str
      BY <2>1 DEF Item
    <3> QED BY <1>3, <3>1, ConcatProperties DEF Str
  <2>3. /\ item \in Item /\ item.si_type = Top.si_type /\ item.thi = Top.thi
        /\ item.thi_data = Top.thi_data /\ item.thi_child = Top.thi_child /\ item.v = Top.v
    BY <2>1, <2>2 DEF Item
  <2>4. SetTop(item)
    BY <1>6
  <2> HIDE DEF item
  <2>5. StackOK' /\ Change
    BY <1>1, <1>4, <1>6, <2>1, <2>3, <2>4, SetTopOK DEF Change
  <2> QED BY <1>1, <1>3, <1>4, <1>6, <2>5, ReadStep, HeapSame, TableKept DEF Ends, Effect, TypeOK
<1>7. CASE UNCHANGED stack /\ zv_append_string_item(stack, tok.s, tok.t = "text", FALSE)
  <2>1. /\ Ends /\ HeapGrows
        /\ srns' \in Seq(Seq(Value)) /\ Len(srns') = Len(srns) /\ TableInv'
    BY <1>3, <1>7, StringItemOK
  <2>2. StackOK' /\ Stay
    BY <1>1, <1>3, <1>4, <1>7, <2>1, SameOK DEF Stay
  <2> QED BY <1>1, <1>3, <1>4, <2>1, <2>2, ReadStep DEF Effect, TypeOK
<1> QED BY <1>5, <1>6, <1>7 DEF ProcString

\* DI_BREAK; a handled tag is never closed by it.
LEMMA ProcBreakOK == ASSUME IInv, NEW tok \in Tokens, ProcBreak(tok) PROVE StepOK
<1>1. /\ TypeOK /\ ErrorInv /\ TableInv /\ ItemInv /\ heap \in Seq(Node)
      /\ srns \in Seq(Seq(Value)) /\ refs \in Seq(Value)
  BY DEF IInv, TypeOK
<1>2. MemOK' /\ UNCHANGED <<args, oneshot>> /\ pc = "item" /\ UNCHANGED <<root, refs>>
  BY <1>1, ReadOK DEF ProcBreak
<1>3. CASE Raise("SYNTAX_BREAK_UNDERFLOW") /\ UNCHANGED <<stack, stack_depth, srns, heap>>
  BY <1>1, <1>2, <1>3, ReadScalar, HeapSame DEF Ends, Errors
<1>4. CASE stack # << >> /\ stack_pop_item /\ IsString(Top)
           /\ zv_append_string_item(Below, Top.str, Top.si_type = "text", TRUE)
  <2>1. Top \in Item /\ Top.thi = "none" /\ Top.str \in Str
    BY <1>1, <1>4, TopInv DEF IsString, Item
  <2>2. /\ Ends /\ (Live' => pc' = "append") /\ HeapGrows
        /\ srns' \in Seq(Seq(Value)) /\ Len(srns') = Len(srns) /\ TableInv'
    BY <1>2, <1>4, <2>1, StringItemOK
  <2>3. StackOK' /\ Pop
    BY <1>1, <1>2, <1>4, <2>1, <2>2, PopOK DEF Pop, IsString
  <2> QED BY <1>1, <1>2, <2>2, <2>3, ReadStep DEF Effect
<1>5. CASE stack # << >> /\ stack_pop_item /\ Raise("SYNTAX_BREAK_UNEXPECTED")
           /\ UNCHANGED <<srns, heap>>
  <2>1. Ends /\ ~Live'
    BY <1>1, <1>2, <1>5, RaiseStays DEF Errors
  <2>2. StackOK' /\ Pop
    BY <1>1, <1>2, <1>5, <2>1, PopOK DEF Pop
  <2> QED BY <1>1, <1>2, <1>5, <2>1, <2>2, ReadStep, HeapSame, TableKept DEF Effect
<1>6. CASE stack # << >> /\ IsBreakable(Top) /\ stack_pop_item /\ CallAppend(Top.v)
           /\ UNCHANGED <<srns, heap>>
  <2>1. Top \in Item /\ Top.v \in Value
    BY <1>1, <1>6, TopInv DEF Item
  <2>2. Ends /\ pc' = "append"
    BY <1>6, <2>1 DEF Ends, CallAppend
  <2>3. Top.thi = "none"
    BY <1>1, <1>6, TopInv DEF IsBreakable
  <2>4. StackOK' /\ Pop
    BY <1>1, <1>2, <1>6, <2>2, <2>3, PopOK DEF Pop, CallAppend
  <2> QED BY <1>1, <1>2, <1>6, <2>2, <2>4, ReadStep, HeapSame, TableKept DEF Effect
<1> QED BY <1>3, <1>4, <1>5, <1>6 DEF ProcBreak, stackVars

-----------------------------------------------------------------------------
(* dec_item, items that are pushed.                                         *)

\* A push keeps types, tables and the error state.
LEMMA PushStep ==
  ASSUME IInv, MemOK', UNCHANGED <<args, oneshot, root>>, Push
  PROVE  StepOK
<1>1. PICK item \in Item, rs \in Seq(Value), hp \in Seq(Node) : IsPush(item, rs, hp)
  BY DEF Push
<1>2. TypeOK /\ ErrorInv /\ TableInv /\ cb_error = "none"
  BY <1>1 DEF IInv, ErrorInv, IsPush
<1>3. stack_push_item(item, rs, hp)
  BY <1>1 DEF IsPush
<1>4. /\ val' \in Value /\ pc' = "loop" /\ cb_error' \in Errors
      /\ stack' \in Seq(Item) /\ stack_depth' \in Int
      /\ refs' \in Seq(Value) /\ heap' \in Seq(Node)
  BY <1>2, <1>3, PushType
<1>5. cb_error' \in {"none", "DEPTH", "TAG_TYPE_SHARE_INCOMPATIBLE"}
  BY <1>2, <1>3 DEF stack_push_item, zv_si_push, ShareableChild
<1>6. ErrorInv'
  BY <1>2, <1>4, <1>5 DEF ErrorInv
<1>7. Len(heap') >= Len(heap)
  <2>1. Len(hp) >= Len(heap) /\ Len(hp) \in Nat /\ Len(heap) \in Nat
    BY <1>1, <1>2 DEF IsPush, TypeOK
  <2>2. heap' = hp \/ \E node : heap' = Append(hp, node)
    BY <1>3 DEF stack_push_item, zv_si_push, ShareableChild
  <2>3. \A node : Len(Append(hp, node)) = Len(hp) + 1
    OBVIOUS
  <2> QED BY <2>1, <2>2, <2>3
<1>8. srns' \in Seq(Seq(Value)) /\ TableInv'
  <2>1. HeapGrows /\ srns \in Seq(Seq(Value)) /\ heap \in Seq(Node)
    BY <1>2, <1>4, <1>7 DEF HeapGrows, TypeOK
  <2>2. CASE srns' = srns
    BY <1>2, <2>1, <2>2, TableKept
  <2>3. CASE srns' = Append(srns, << >>)
    <3>1. /\ srns' \in Seq(Seq(Value)) /\ Len(srns') = Len(srns) + 1
          /\ \A t \in 1..Len(srns) : srns'[t] = srns[t]
          /\ srns'[Len(srns) + 1] = << >>
      BY <2>1, <2>3, AppendProperties
    <3>2. ASSUME NEW t \in DOMAIN srns', NEW e \in DOMAIN srns'[t], srns'[t][e].k = "obj"
          PROVE  srns'[t][e].n \in DOMAIN heap'
      <4>1. t \in 1..(Len(srns) + 1) /\ Len(srns) \in Nat
        BY <2>1, <3>1
      <4>2. t # Len(srns) + 1
        BY <3>1, <3>2
      <4>3. t \in DOMAIN srns /\ srns'[t] = srns[t]
        <5>1. t \in 1..Len(srns)
          BY <4>1, <4>2
        <5>2. DOMAIN srns = 1..Len(srns)
          BY <2>1
        <5> QED BY <3>1, <5>1, <5>2
      <4>4. srns[t][e].n \in DOMAIN heap
        BY <1>2, <3>2, <4>3 DEF TableInv
      <4> QED BY <2>1, <4>3, <4>4 DEF HeapGrows
    <3> QED BY <3>1, <3>2 DEF TableInv
  <2> QED BY <1>1, <2>2, <2>3 DEF IsPush
<1>9. TypeOK'
  BY <1>2, <1>4, <1>8, TypeParts DEF TypeOK, ControlOK, StackOK, ZvOK
<1>10. Live
  BY <1>1, <1>2 DEF Live, IsPush
<1> QED BY <1>6, <1>8, <1>9, <1>10 DEF StepOK, Effect

\* Items of strings, arrays, maps and tags without handler.
PlainItem(item) ==
  item \in Item /\ item.thi = "none" /\ item.thi_data = "none" /\ item.thi_child = {}

\* A push of an item without handlers is such a push.
LEMMA PlainPush ==
  ASSUME IInv, NEW tok \in Tokens, NEW type, Read(tok, type), NEW item, PlainItem(item),
         NEW hp \in Seq(Node), Len(hp) >= Len(heap),
         stack_push_item(item, refs, hp), UNCHANGED <<root, srns>>
  PROVE  StepOK
<1>1. TypeOK
  BY DEF IInv
<1>2. MemOK' /\ UNCHANGED <<args, oneshot>> /\ pc = "item"
  BY <1>1, ReadOK
<1>3. refs \in Seq(Value) /\ item \in Item /\ IsPush(item, refs, hp)
  BY <1>1, <1>2 DEF TypeOK, IsPush, PlainItem
<1> QED BY <1>2, <1>3, PushStep DEF Push

\* A new item with its destination or tag number is such an item.
LEMMA NewPlainItem ==
  ASSUME NEW type \in SiType, NEW cnt \in Nat
  PROVE  /\ PlainItem(stack_new_item(type, cnt))
         /\ \A v \in Value : PlainItem([stack_new_item(type, cnt) EXCEPT !.v = v])
         /\ \A n \in Nat : PlainItem([stack_new_item(type, cnt) EXCEPT !.id = n])
<1> DEFINE item == stack_new_item(type, cnt)
<1>1. item \in Item
  BY NewItemType
<1>2. item.thi = "none" /\ item.thi_data = "none" /\ item.thi_child = {}
  BY DEF stack_new_item
<1> HIDE DEF item
<1>3. ASSUME NEW v \in Value PROVE PlainItem([item EXCEPT !.v = v])
  BY <1>1, <1>2 DEF PlainItem, Item
<1>4. ASSUME NEW n \in Nat PROVE PlainItem([item EXCEPT !.id = n])
  BY <1>1, <1>2 DEF PlainItem, Item
<1> QED BY <1>1, <1>2, <1>3, <1>4 DEF PlainItem, item

\* The start of an indefinite-length string.
LEMMA ProcStringStartOK ==
  ASSUME IInv, NEW tok \in Tokens, ProcStringStart(tok) PROVE StepOK
<1> DEFINE item == stack_new_item(IF tok.t = "text_start" THEN "text" ELSE "byte", 0)
<1>1. PlainItem(item)
  BY NewPlainItem DEF SiType
<1>2. \E type : Read(tok, type)
  BY DEF ProcStringStart, zv_stack_push_xstring
<1>3. stack_push_item(item, refs, heap) /\ UNCHANGED <<root, srns>>
  BY DEF ProcStringStart, zv_stack_push_xstring
<1>4. heap \in Seq(Node) /\ Len(heap) >= Len(heap)
  BY DEF IInv, TypeOK
<1> HIDE DEF item
<1> QED BY <1>1, <1>2, <1>3, <1>4, PlainPush

\* An array or a map: its node is made, then it is pushed, handed on if it is
\* empty, or rejected.
LEMMA ContainerOK ==
  ASSUME IInv, NEW tok \in Tokens, NEW type, Read(tok, type), NEW st \in {"array", "map"},
         NEW dest \in Value, NEW node \in Node, NEW cnt \in Nat, NEW n, UNCHANGED <<root, srns>>,
         LET err == StartError(tok, n)
             hp == Append(heap, node)
         IN  \/ err # "none" /\ Raise(err) /\ UNCHANGED <<stackVars, refs, heap>>
             \/ stack_push_item([stack_new_item(st, cnt) EXCEPT !.v = dest], refs, hp)
             \/ heap' = hp /\ CallAppend(dest) /\ UNCHANGED <<stackVars, refs>>
  PROVE  StepOK
<1> DEFINE err == StartError(tok, n)
           hp == Append(heap, node)
           item == [stack_new_item(st, cnt) EXCEPT !.v = dest]
<1>1. TypeOK /\ heap \in Seq(Node)
  BY DEF IInv, TypeOK
<1>2. MemOK' /\ UNCHANGED <<args, oneshot>> /\ pc = "item"
  BY <1>1, ReadOK
<1>3. hp \in Seq(Node) /\ Len(hp) >= Len(heap)
  BY <1>1, AppendProperties
<1>4. CASE err # "none" /\ Raise(err) /\ UNCHANGED <<stackVars, refs, heap>>
  <2>1. err \in Errors /\ (err = "TRUNCATED" => oneshot)
    BY DEF StartError, ExceedsLimit, limit, Errors
  <2> HIDE DEF err
  <2>2. Ends
    BY <1>4, <2>1 DEF Ends
  <2> QED BY <1>1, <1>2, <1>4, <2>2, ReadScalar, HeapSame DEF stackVars
<1>5. CASE stack_push_item(item, refs, hp)
  <2>1. PlainItem(item)
    BY NewPlainItem DEF SiType
  <2> HIDE DEF item, hp
  <2> QED BY <1>3, <1>5, <2>1, PlainPush
<1>6. CASE heap' = hp /\ CallAppend(dest) /\ UNCHANGED <<stackVars, refs>>
  <2>1. HeapGrows /\ Ends
    BY <1>1, <1>6, HeapAppend DEF Ends
  <2> QED BY <1>2, <1>6, <2>1, ReadScalar DEF stackVars
<1> QED BY <1>4, <1>5, <1>6

\* The destination of a map and its node.
LEMMA MapDestType ==
  ASSUME heap \in Seq(Node)
  PROVE  MapDest \in Value /\ MapNode \in Node /\ Arr \in Value /\ Empty("array") \in Node
  BY NewNodeType, EmptyType DEF MapDest, MapNode, Class

\* The start of an array or a map.
LEMMA ProcContainerOK ==
  ASSUME IInv, NEW tok \in Tokens,
         \/ ProcArrayStart(tok) \/ ProcIndefArrayStart(tok)
         \/ ProcMapStart(tok) \/ ProcIndefMapStart(tok)
  PROVE  StepOK
<1>1. /\ heap \in Seq(Node) /\ tok.n \in Nat
      /\ MapDest \in Value /\ MapNode \in Node /\ Arr \in Value /\ Empty("array") \in Node
  <2>1. tok \in Token /\ heap \in Seq(Node)
    BY TokensAssumption DEF IInv, TypeOK
  <2> QED BY <2>1, MapDestType DEF Token
<1>2. CASE ProcArrayStart(tok)
  BY <1>1, <1>2, ContainerOK DEF ProcArrayStart, zv_stack_push_counted
<1>3. CASE ProcIndefArrayStart(tok)
  BY <1>1, <1>3, ContainerOK DEF ProcIndefArrayStart, zv_stack_push_counted
<1>4. CASE ProcMapStart(tok)
  BY <1>1, <1>4, ContainerOK DEF ProcMapStart, zv_stack_push_map
<1>5. CASE ProcIndefMapStart(tok)
  BY <1>1, <1>5, ContainerOK DEF ProcIndefMapStart, zv_stack_push_map
<1> QED BY <1>2, <1>3, <1>4, <1>5

\* A tag without handler.
LEMMA ProcTagOK == ASSUME IInv, NEW tok \in Tokens, ProcTag(tok) PROVE StepOK
<1> DEFINE item == [stack_new_item("tag", 1) EXCEPT !.id = tok.n]
<1>1. tok.n \in Nat /\ heap \in Seq(Node) /\ Len(heap) >= Len(heap)
  BY TokensAssumption DEF Token, IInv, TypeOK
<1>2. PlainItem(item)
  BY <1>1, NewPlainItem DEF SiType
<1>3. Read(tok, "tag") /\ stack_push_item(item, refs, heap) /\ UNCHANGED <<root, srns>>
  BY DEF ProcTag, ReadTag, zv_stack_push_tag
<1> HIDE DEF item
<1> QED BY <1>1, <1>2, <1>3, PlainPush

\* An item of a handled tag.
LEMMA HandledItemType ==
  ASSUME NEW tok \in Tokens, NEW handler \in Thi
  PROVE  LET item == HandledItem(tok, handler)
         IN  /\ item \in Item /\ item.si_type = "tag_handled" /\ item.count = 1
             /\ item.thi = handler /\ item.id = tok.n
             /\ item.thi_data = "none" /\ item.thi_child = {}
<1> DEFINE new == stack_new_item("tag_handled", 1)
<1>1. tok.n \in Nat
  BY TokensAssumption DEF Token
<1>2. new \in Item
  BY NewItemType DEF SiType
<1>3. /\ new.si_type = "tag_handled" /\ new.count = 1
      /\ new.thi_data = "none" /\ new.thi_child = {}
  BY DEF stack_new_item
<1> HIDE DEF new
<1>4. HandledItem(tok, handler) = [new EXCEPT !.id = tok.n, !.thi = handler]
  BY DEF HandledItem, new
<1> QED BY <1>1, <1>2, <1>3, <1>4 DEF Item

\* The enter handlers of the four tags.
LEMMA TagHandlerOK ==
  ASSUME IInv, NEW tok \in Tokens,
         StrRefNsEnter(tok) \/ StrRefEnter(tok) \/ ShareableEnter(tok) \/ SharedRefEnter(tok)
  PROVE  StepOK
<1>1. /\ TypeOK /\ ErrorInv /\ heap \in Seq(Node) /\ Len(heap) >= Len(heap)
      /\ refs \in Seq(Value) /\ srns \in Seq(Seq(Value))
  BY DEF IInv, TypeOK
<1>2. Read(tok, "tag")
  BY DEF StrRefNsEnter, StrRefEnter, ShareableEnter, SharedRefEnter, ReadTag
<1>3. MemOK' /\ UNCHANGED <<args, oneshot>> /\ pc = "item"
  BY <1>1, <1>2, ReadOK
<1>4. CASE StrRefNsEnter(tok)
  <2> DEFINE h == HandledItem(tok, "str_ref_ns")
             item == [h EXCEPT !.thi_data = "str_ref_ns", !.thi_child = {"str_ref_ns"}]
  <2>1. /\ h \in Item /\ h.si_type = "tag_handled" /\ h.count = 1 /\ h.thi = "str_ref_ns"
    BY HandledItemType DEF Thi
  <2>2. stack_push_item(item, refs, heap) /\ srns' = Append(srns, << >>) /\ UNCHANGED root
    BY <1>4 DEF StrRefNsEnter
  <2> HIDE DEF h
  <2>3. /\ item \in Item /\ item.si_type = "tag_handled" /\ item.count = 1
        /\ item.thi = "str_ref_ns" /\ "shareable" \notin item.thi_child /\ Records(item)
    BY <2>1 DEF Item, Thi, Records
  <2> HIDE DEF item
  <2>4. IsPush(item, refs, heap)
    BY <1>1, <1>3, <2>2, <2>3 DEF IsPush
  <2> QED BY <1>1, <1>3, <2>2, <2>3, <2>4, PushStep DEF Push
<1>5. CASE StrRefEnter(tok)
  <2>1. CASE Raise("TAG_SYNTAX_STR_REF_NO_NS") /\ UNCHANGED <<stackVars, root, srns, refs, heap>>
    BY <1>1, <1>3, <2>1, ReadScalar, HeapSame DEF Ends, Errors, stackVars
  <2> DEFINE item == HandledItem(tok, "str_ref")
  <2>2. CASE srns # << >> /\ stack_push_item(item, refs, heap) /\ UNCHANGED <<root, srns>>
    <3>1. /\ item \in Item /\ item.si_type = "tag_handled" /\ item.count = 1
          /\ item.thi = "str_ref" /\ item.thi_data = "none" /\ item.thi_child = {}
      BY HandledItemType DEF Thi
    <3> HIDE DEF item
    <3>2. IsPush(item, refs, heap)
      BY <1>1, <1>3, <2>2, <3>1 DEF IsPush
    <3> QED BY <1>1, <1>3, <2>2, <3>1, <3>2, PushStep DEF Push
  <2> QED BY <1>5, <2>1, <2>2 DEF StrRefEnter
<1>6. CASE ShareableEnter(tok)
  <2>1. CASE Raise("TAG_SYNTAX_SHARE_NESTED") /\ UNCHANGED <<stackVars, root, srns, refs, heap>>
    BY <1>1, <1>3, <2>1, ReadScalar, HeapSame DEF Ends, Errors, stackVars
  <2> DEFINE h == HandledItem(tok, "shareable")
             item == [h EXCEPT !.thi_child = {"shareable"}, !.v = Null, !.index = Len(refs)]
             rs == Append(refs, Null)
  <2>2. CASE ~IsNestedShareable /\ stack_push_item(item, rs, heap) /\ UNCHANGED <<root, srns>>
    <3>1. tok.n = TagShareable
      BY <1>6 DEF ShareableEnter, ReadTag, Handler
    <3>2. /\ h \in Item /\ h.si_type = "tag_handled" /\ h.count = 1 /\ h.thi = "shareable"
          /\ h.id = TagShareable /\ h.thi_data = "none"
      BY <3>1, HandledItemType DEF Thi
    <3>3. Null \in Value /\ Len(refs) \in Nat /\ rs \in Seq(Value)
      BY <1>1, ConstType
    <3> HIDE DEF h
    <3>4. /\ item \in Item /\ item.si_type = "tag_handled" /\ item.count = 1
          /\ item.thi = "shareable" /\ item.id = TagShareable /\ item.thi_data = "none"
          /\ item.thi_child = {"shareable"} /\ item.v = Null /\ item.index = Len(refs)
      BY <3>2, <3>3 DEF Item, Thi
    <3> HIDE DEF item
    <3>5. IsPush(item, rs, heap)
      BY <1>1, <1>3, <2>2, <3>4 DEF IsPush
    <3> QED BY <1>1, <1>3, <2>2, <3>3, <3>4, <3>5, PushStep DEF Push
  <2> QED BY <1>6, <2>1, <2>2 DEF ShareableEnter, ShareableItem
<1>7. CASE SharedRefEnter(tok)
  <2> DEFINE item == HandledItem(tok, "shared_ref")
  <2>1. stack_push_item(item, refs, heap) /\ UNCHANGED <<root, srns>>
    BY <1>7 DEF SharedRefEnter
  <2>2. /\ item \in Item /\ item.si_type = "tag_handled" /\ item.count = 1
        /\ item.thi = "shared_ref" /\ item.thi_data = "none" /\ item.thi_child = {}
    BY HandledItemType DEF Thi
  <2> HIDE DEF item
  <2>3. IsPush(item, refs, heap)
    BY <1>1, <1>3, <2>1, <2>2 DEF IsPush
  <2> QED BY <1>1, <1>3, <2>1, <2>2, <2>3, PushStep DEF Push
<1> QED BY <1>4, <1>5, <1>6, <1>7

-----------------------------------------------------------------------------
(* decode_nested and cbor_decode_process.                                   *)

\* Steps that leave the structures alone.
LEMMA ControlStep ==
  ASSUME IInv, MemOK', ControlOK', ErrorInv', UNCHANGED <<stackVars, zvVars>>, UNCHANGED args,
         pc \notin {"append", "end"}, cb_error' = cb_error \/ pc = "start"
  PROVE  StepOK
<1>1. TypeOK /\ TableInv
  BY DEF IInv
<1>2. StackOK' /\ ZvOK' /\ Stay
  BY <1>1 DEF TypeOK, StackOK, ZvOK, Stay, stackVars, zvVars
<1>3. TableInv'
  BY <1>1 DEF TableInv, zvVars
<1>4. Live' => Live
  BY DEF IInv, ErrorInv, Live
<1> QED BY <1>2, <1>3, <1>4, TypeParts DEF StepOK, Effect

\* dec_item rejects an item.
LEMMA ReadMalformedOK == ASSUME IInv, NEW tok \in Tokens, ReadMalformed(tok) PROVE StepOK
<1>1. TypeOK /\ ErrorInv /\ tok \in Token
  BY TokensAssumption DEF IInv
<1>2. Seen(tok) \in Seq(Token)
  BY <1>1 DEF TypeOK, Seen
<1>3. MemOK' /\ ControlOK' /\ ErrorInv'
  <2>1. /\ pc = "item" /\ pc' = "stop" /\ error' \in {"MALFORMED", "UNSUPPORTED_SIZE"}
        /\ offset' \in Nat /\ input' = Seen(tok)
        /\ UNCHANGED <<args, oneshot, pos, length, skip_self_desc, read_len, cb_error, val>>
    BY <1>1 DEF ReadMalformed, Stop, TypeOK, Token
  <2> QED BY <1>1, <1>2, <2>1 DEF TypeOK, MemOK, ControlOK, ErrorInv, Errors
<1> QED BY <1>3, ControlStep DEF ReadMalformed

\* dec_item finds the data too short.
LEMMA ReadTruncatedOK == ASSUME IInv, ReadTruncated PROVE StepOK
<1>1. TypeOK /\ ErrorInv
  BY DEF IInv
<1>2. input' \in Seq(Token)
  <2>1. \A tok \in NextToken : Seen(tok) \in Seq(Token)
    BY <1>1, TokensAssumption DEF TypeOK, Seen, NextToken, Alphabet
  <2> QED BY <1>1, <2>1 DEF ReadTruncated, TypeOK
<1>3. MemOK' /\ ControlOK' /\ ErrorInv'
  <2>1. /\ pc = "item" /\ pc' = "stop" /\ error' = "TRUNCATED" /\ offset' = offset + 0
        /\ UNCHANGED <<args, oneshot, pos, length, skip_self_desc, read_len, cb_error, val>>
    BY DEF ReadTruncated, Stop
  <2> QED BY <1>1, <1>2, <2>1 DEF TypeOK, MemOK, ControlOK, ErrorInv, Errors
<1> QED BY <1>3, ControlStep DEF ReadTruncated

\* The end of the loop of decode_nested.
LEMMA LoopOK == ASSUME IInv, Loop PROVE StepOK
<1>1. TypeOK /\ ErrorInv
  BY DEF IInv
<1>2. MemOK'
  BY <1>1 DEF TypeOK, MemOK, Loop
<1>3. ControlOK' /\ ErrorInv'
  BY <1>1 DEF TypeOK, ControlOK, ErrorInv, Loop
<1> QED BY <1>2, <1>3, ControlStep DEF Loop

\* The check for the self-describe tag.
LEMMA SelfDescribeOK == ASSUME IInv, SelfDescribe PROVE StepOK
<1>1. TypeOK /\ ErrorInv /\ pc = "start" /\ cb_error = "none"
  BY DEF IInv, SelfDescribe, ErrorInv
<1>2. input' \in Seq(Token)
  <2>1. \A tok \in NextToken : Seen(tok) \in Seq(Token)
    BY <1>1, TokensAssumption DEF TypeOK, Seen, NextToken, Alphabet
  <2> QED BY <1>1, <2>1 DEF SelfDescribe, TypeOK
<1>3. /\ UNCHANGED <<args, oneshot, length, read_len, val>> /\ UNCHANGED <<stackVars, zvVars>>
      /\ \/ pc' = "stop" /\ error' = "TRUNCATED" /\ offset' = offset + 0 /\ pos' = pos
            /\ skip_self_desc' = skip_self_desc /\ cb_error' = cb_error
         \/ /\ pc' = "item" /\ error' = error /\ skip_self_desc' = FALSE /\ cb_error' = "none"
            /\ \E n \in {0, 1} : offset' = offset + 3 * n /\ pos' = pos + n
  BY DEF SelfDescribe, Stop
<1>4. MemOK'
  <2>1. offset \in Nat /\ pos \in Nat
    BY <1>1 DEF TypeOK
  <2>2. offset' \in Nat /\ pos' \in Nat
    BY <1>3, <2>1
  <2>3. error' \in Errors /\ skip_self_desc' \in BOOLEAN
    BY <1>1, <1>3 DEF TypeOK, Errors
  <2> QED BY <1>1, <1>2, <1>3, <2>2, <2>3 DEF TypeOK, MemOK
<1>5. ControlOK' /\ ErrorInv'
  BY <1>1, <1>3 DEF TypeOK, ControlOK, ErrorInv, Errors
<1> QED BY <1>1, <1>3, <1>4, <1>5, ControlStep

\* The start of decode_nested.
LEMMA StartOK == ASSUME IInv, Start PROVE StepOK
<1>1. TypeOK /\ ErrorInv
  BY DEF IInv
<1>2. MemOK' /\ ControlOK' /\ ErrorInv'
  BY <1>1 DEF TypeOK, MemOK, ControlOK, ErrorInv, Errors, Start, memVars
<1> QED BY <1>2, ControlStep DEF Start, memVars

\* A context that ran out of data is resumed.
LEMMA ResumeOK == ASSUME IInv, Resume PROVE StepOK
<1>1. TypeOK /\ ErrorInv
  BY DEF IInv
<1>2. MemOK'
  BY <1>1, LengthsAssumption DEF TypeOK, MemOK, Errors, Resume
<1>3. ControlOK' /\ ErrorInv'
  BY <1>1 DEF TypeOK, ControlOK, ErrorInv, Resume
<1> QED BY <1>2, <1>3, ControlStep DEF Resume

-----------------------------------------------------------------------------
(* The effects keep the rest of the invariant.                              *)

\* What an item inherits is the handlers of a namespace, nothing else.
LEMMA ChildFields ==
  ASSUME NEW item \in Item
  PROVE  LET c == StrRefNsChild(item)
         IN  /\ c \in Item /\ c.si_type = item.si_type /\ c.count = item.count /\ c.thi = item.thi
             /\ c.id = item.id /\ c.index = item.index /\ c.v = item.v
             /\ "shareable" \in c.thi_child <=> "shareable" \in item.thi_child
             /\ NeedsNamespace(c) => NeedsNamespace(item) \/ HasChildHandler("str_ref_ns")
             /\ Records(item) \/ (HasChildHandler("str_ref_ns") /\ ~IsString(item)) => Records(c)
<1> DEFINE new == [item EXCEPT !.thi_child = @ \cup {"str_ref_ns"}, !.thi_data = "str_ref_ns"]
<1>1. /\ new.si_type = item.si_type /\ new.count = item.count /\ new.thi = item.thi
      /\ new.id = item.id /\ new.index = item.index /\ new.v = item.v
      /\ "shareable" \in new.thi_child <=> "shareable" \in item.thi_child
      /\ Records(new)
  BY DEF Item, Records
<1>2. StrRefNsChild(item) \in Item
  BY StrRefNsChildType
<1> HIDE DEF new
<1>3. StrRefNsChild(item) = IF HasChildHandler("str_ref_ns") /\ ~IsString(item) THEN new ELSE item
  BY DEF StrRefNsChild, new
<1> QED BY <1>1, <1>2, <1>3

\* Two items that differ in their value at most.
SameButValue(a, b) ==
  /\ a.si_type = b.si_type /\ a.count = b.count /\ a.thi = b.thi /\ a.thi_data = b.thi_data
  /\ a.thi_child = b.thi_child /\ a.id = b.id /\ a.index = b.index

\* The shape of the stack after a push that is not rejected.
LEMMA PushShape ==
  ASSUME IInv, NEW item \in Item, NEW rs \in Seq(Value), NEW hp \in Seq(Node),
         stack_push_item(item, rs, hp)
  PROVE  LET n == Len(stack)
         IN  \/ UNCHANGED <<stack, stack_depth>> /\ refs' = rs /\ ~Live'
             \/ /\ ~DepthExceeded /\ stack_depth' = stack_depth + 1
                /\ Len(stack') = n + 1 /\ stack'[n + 1] = StrRefNsChild(item)
                /\ \A i \in 1..n : SameButValue(stack'[i], stack[i])
                /\ \A i \in 1..(n - 1) : stack'[i] = stack[i]
                /\ Len(refs') = Len(rs)
                /\ IF HasChildHandler("shareable")
                   THEN \/ refs' = rs /\ ~Live'
                        \/ /\ stack'[n].v.k \in {"obj", "ref"}
                           /\ args.shared_ref = "unsafe_ref" /\ stack'[n].v.k # "ref" =>
                                item.si_type = "map" /\ stack'[n].v = item.v
                           /\ refs' = [rs EXCEPT ![Top.index + 1] = stack'[n].v]
                   ELSE refs' = rs /\ \A i \in 1..n : stack'[i] = stack[i]
<1> DEFINE n == Len(stack)
           new == StrRefNsChild(item)
<1>1. stack \in Seq(Item) /\ n \in Nat /\ new \in Item /\ item.v \in Value
  BY StrRefNsChildType DEF IInv, TypeOK, Item
<1>2. CASE DepthExceeded
  BY <1>2 DEF stack_push_item, zv_si_push, stackVars, Live
<1> HIDE DEF new
<1>3. /\ Len(Append(stack, new)) = n + 1 /\ Append(stack, new)[n + 1] = new
      /\ \A i \in 1..n : Append(stack, new)[i] = stack[i]
  BY <1>1, AppendProperties
<1>4. CASE ~DepthExceeded /\ ~HasChildHandler("shareable")
  <2>1. stack_depth' = stack_depth + 1 /\ stack' = Append(stack, new) /\ refs' = rs
    BY <1>4 DEF stack_push_item, zv_si_push, new
  <2>2. \A i \in 1..n : stack'[i] = stack[i] /\ SameButValue(stack'[i], stack[i])
    BY <1>3, <2>1 DEF SameButValue
  <2> QED BY <1>1, <1>3, <1>4, <2>1, <2>2 DEF new
<1>5. CASE ~DepthExceeded /\ HasChildHandler("shareable")
  <2>1. stack_depth' = stack_depth + 1 /\ ShareableChild(item, rs, hp)
    BY <1>5 DEF stack_push_item, zv_si_push
  <2> DEFINE st(v) == [stack EXCEPT ![Len(stack)].v = v]
             share(v) == /\ stack' = Append(st(v), new)
                         /\ refs' = [rs EXCEPT ![Top.index + 1] = v]
  <2> DEFINE own(v) == args.shared_ref = "unsafe_ref" /\ v.k # "ref" =>
                         item.si_type = "map" /\ v = item.v
  <2>2. \/ \E v \in Value : v.k \in {"obj", "ref"} /\ share(v) /\ own(v)
        \/ stack' = Append(stack, new) /\ refs' = rs /\ ~Live'
    <3>1. /\ Scalar("obj", Len(hp) + 1) \in Value /\ Scalar("obj", Len(hp) + 1).k = "obj"
          /\ Scalar("ref", Len(hp) + 1) \in Value /\ Scalar("ref", Len(hp) + 1).k = "ref"
      <4>1. Len(hp) + 1 \in Int
        OBVIOUS
      <4> QED BY <4>1, ScalarType DEF Kind, Scalar
    <3>2. \/ item.v.k = "obj" /\ share(item.v) /\ item.si_type = "map"
          \/ share(Scalar("obj", Len(hp) + 1)) /\ args.shared_ref # "unsafe_ref"
          \/ share(Scalar("ref", Len(hp) + 1))
          \/ stack' = Append(stack, new) /\ refs' = rs /\ cb_error' = "TAG_TYPE_SHARE_INCOMPATIBLE"
      BY <2>1 DEF ShareableChild, new
    <3> HIDE DEF share
    <3> QED BY <1>1, <3>1, <3>2 DEF Live
  <2>3. n # 0 /\ stack # << >> /\ Top \in Item
    BY <1>1, <1>5, TopType DEF HasChildHandler
  <2>4. CASE stack' = Append(stack, new) /\ refs' = rs /\ ~Live'
    <3>1. \A i \in 1..n : stack'[i] = stack[i] /\ SameButValue(stack'[i], stack[i])
      BY <1>3, <2>4 DEF SameButValue
    <3> QED BY <1>1, <1>3, <1>5, <2>1, <2>4, <3>1 DEF new
  <2>5. ASSUME NEW v \in Value, v.k \in {"obj", "ref"}, share(v), own(v)
        PROVE  /\ Len(stack') = n + 1 /\ stack'[n + 1] = new
               /\ \A i \in 1..n : SameButValue(stack'[i], stack[i])
               /\ \A i \in 1..(n - 1) : stack'[i] = stack[i]
               /\ stack'[n].v = v /\ own(v)
               /\ Len(refs') = Len(rs) /\ refs' = [rs EXCEPT ![Top.index + 1] = v]
    <3>1. [stack[n] EXCEPT !.v = v] \in Item /\ n \in 1..n
      <4>1. stack[n] \in Item
        BY <2>3 DEF Top
      <4>2. [stack[n] EXCEPT !.v = v] \in Item
        BY <4>1 DEF Item
      <4> QED BY <1>1, <2>3, <4>2
    <3>2. /\ st(v) \in Seq(Item) /\ Len(st(v)) = n
          /\ \A i \in 1..n : st(v)[i] = IF i = n THEN [stack[n] EXCEPT !.v = v] ELSE stack[i]
      BY <1>1, <3>1, ExceptSeq
    <3>3. /\ Len(stack') = n + 1 /\ stack'[n + 1] = new
          /\ \A i \in 1..n : stack'[i] = st(v)[i]
      <4> HIDE DEF st
      <4> QED BY <1>1, <2>5, <3>2, AppendProperties
    <3>4. /\ SameButValue([stack[n] EXCEPT !.v = v], stack[n])
          /\ [stack[n] EXCEPT !.v = v].v = v
      BY <1>1, <2>3 DEF SameButValue, Item, Top
    <3>5. \A i \in 1..n : SameButValue(stack[i], stack[i])
      BY DEF SameButValue
    <3>6. Len([rs EXCEPT ![Top.index + 1] = v]) = Len(rs)
      <4> DEFINE i == Top.index + 1
      <4> HIDE DEF i
      <4>1. Len([rs EXCEPT ![i] = v]) = Len(rs)
        BY ExceptAny
      <4> QED BY <4>1 DEF i
    <3> HIDE DEF st
    <3>7. \A i \in 1..n : SameButValue(stack'[i], stack[i])
      BY <3>2, <3>3, <3>4, <3>5
    <3>8. stack'[n].v = v /\ \A i \in 1..(n - 1) : stack'[i] = stack[i]
      <4>1. stack'[n] = [stack[n] EXCEPT !.v = v]
        BY <3>1, <3>2, <3>3
      <4>2. ASSUME NEW i \in 1..(n - 1) PROVE stack'[i] = stack[i]
        <5>1. i \in 1..n /\ i # n
          BY <1>1
        <5> QED BY <3>2, <3>3, <5>1
      <4> QED BY <3>4, <4>1, <4>2
    <3> QED BY <2>5, <3>3, <3>6, <3>7, <3>8
  <2> HIDE DEF share
  <2>6. CASE \E v \in Value : v.k \in {"obj", "ref"} /\ share(v) /\ own(v)
    <3>1. PICK v \in Value : v.k \in {"obj", "ref"} /\ share(v) /\ own(v)
      BY <2>6
    <3> HIDE DEF own
    <3>2. /\ Len(stack') = n + 1 /\ stack'[n + 1] = new
          /\ \A i \in 1..n : SameButValue(stack'[i], stack[i])
          /\ \A i \in 1..(n - 1) : stack'[i] = stack[i]
          /\ stack'[n].v = v /\ own(v)
          /\ Len(refs') = Len(rs) /\ refs' = [rs EXCEPT ![Top.index + 1] = v]
      BY <2>5, <3>1
    <3> QED BY <1>5, <2>1, <3>1, <3>2 DEF new, own
  <2> QED BY <2>2, <2>4, <2>6
<1> QED BY <1>2, <1>4, <1>5

\* The shape of the stack after a change of the top item.
LEMMA ChangeShape ==
  ASSUME IInv, Change
  PROVE  /\ Len(stack') = Len(stack) /\ Len(stack) \in Nat \ {0}
         /\ \A i \in 1..Len(stack) :
              /\ stack'[i].si_type = stack[i].si_type /\ stack'[i].thi = stack[i].thi
              /\ stack'[i].thi_data = stack[i].thi_data
              /\ stack'[i].thi_child = stack[i].thi_child /\ stack'[i].v = stack[i].v
         /\ \A i \in 1..(Len(stack) - 1) : stack'[i] = stack[i]
         /\ stack'[Len(stack)].thi = "none"
<1> DEFINE n == Len(stack)
<1>1. stack \in Seq(Item) /\ n \in Nat \ {0} /\ n \in 1..n
  BY TopType DEF IInv, TypeOK, Change
<1>2. PICK item \in Item :
         /\ SetTop(item)
         /\ item.si_type = Top.si_type /\ item.thi = Top.thi /\ item.thi_data = Top.thi_data
         /\ item.thi_child = Top.thi_child /\ item.v = Top.v
  BY DEF Change
<1>3. /\ Len(stack') = n
      /\ \A i \in 1..n : stack'[i] = IF i = n THEN item ELSE stack[i]
  BY <1>1, <1>2, ExceptSeq DEF SetTop
<1>4. Top = stack[n] /\ Top.thi = "none"
  BY DEF Top, Change
<1>5. \A i \in 1..n :
              /\ stack'[i].si_type = stack[i].si_type /\ stack'[i].thi = stack[i].thi
              /\ stack'[i].thi_data = stack[i].thi_data
              /\ stack'[i].thi_child = stack[i].thi_child /\ stack'[i].v = stack[i].v
  <2> HIDE DEF n
  <2> QED BY <1>2, <1>3, <1>4
<1>6. ASSUME NEW i \in 1..(n - 1) PROVE stack'[i] = stack[i]
  <2>1. i \in 1..n /\ i # n
    BY <1>1
  <2> QED BY <1>3, <2>1
<1>7. stack'[n].thi = "none"
  BY <1>1, <1>4, <1>5
<1> QED BY <1>1, <1>3, <1>5, <1>6, <1>7

\* Nesting is counted and bounded.
LEMMA DepthKept == ASSUME IInv, StepOK PROVE DepthBounded'
<1>1. /\ stack \in Seq(Item) /\ stack_depth = Len(stack) /\ Len(stack) <= args.max_depth
      /\ args' = args /\ args.max_depth \in Nat /\ Len(stack) \in Nat
  BY DEF IInv, TypeOK, DepthBounded, StepOK, Args
<1>2. CASE Stay
  BY <1>1, <1>2 DEF Stay, DepthBounded
<1>3. CASE Change
  BY <1>1, <1>3, ChangeShape DEF Change, DepthBounded
<1>4. CASE Pop
  BY <1>1, <1>4, BelowType DEF Pop, stack_pop_item, DepthBounded
<1>5. CASE Push
  <2>1. PICK item \in Item, rs \in Seq(Value), hp \in Seq(Node) : IsPush(item, rs, hp)
    BY <1>5 DEF Push
  <2>2. \/ UNCHANGED <<stack, stack_depth>>
        \/ ~DepthExceeded /\ stack_depth' = stack_depth + 1 /\ Len(stack') = Len(stack) + 1
    BY <2>1, PushShape DEF IsPush
  <2> QED BY <1>1, <2>2 DEF DepthBounded, DepthExceeded
<1> QED BY <1>2, <1>3, <1>4, <1>5 DEF StepOK, Effect

\* Which items have handlers.
LEMMA ItemKept == ASSUME IInv, StepOK PROVE ItemInv'
<1>1. /\ stack \in Seq(Item) /\ DOMAIN stack = 1..Len(stack) /\ Len(stack) \in Nat
      /\ stack' \in Seq(Item) /\ DOMAIN stack' = 1..Len(stack')
      /\ Len(refs) \in Nat /\ ItemInv
  BY DEF IInv, TypeOK, StepOK
<1>2. ASSUME NEW i \in 1..Len(stack) PROVE stack[i].index \in Nat
  <2>1. stack[i] \in Item
    BY <1>1
  <2> QED BY <2>1 DEF Item
<1>3. CASE Stay
  BY <1>1, <1>3 DEF Stay, ItemInv
<1>4. CASE Change
  <2>1. ASSUME NEW i \in 1..Len(stack)
        PROVE  /\ stack'[i].thi # "none" => stack'[i] = stack[i]
               /\ stack'[i].thi = stack[i].thi /\ stack'[i].thi_child = stack[i].thi_child
    BY <1>4, ChangeShape
  <2>2. Len(stack') = Len(stack) /\ refs' = refs
    BY <1>4, ChangeShape DEF Change
  <2> QED BY <1>1, <2>1, <2>2 DEF ItemInv
<1>5. CASE Pop
  <2>1. /\ Len(stack') = Len(stack) - 1 /\ Len(refs') = Len(refs)
        /\ \A i \in 1..(Len(stack) - 1) : stack'[i] = stack[i]
    BY <1>1, <1>5, BelowType DEF Pop, stack_pop_item
  <2>2. \A i \in 1..(Len(stack) - 1) : i \in 1..Len(stack)
    BY <1>1
  <2> QED BY <1>1, <2>1, <2>2 DEF ItemInv
<1>6. CASE Push
  <2>1. PICK item \in Item, rs \in Seq(Value), hp \in Seq(Node) : IsPush(item, rs, hp)
    BY <1>6 DEF Push
  <2>2. /\ item.thi # "none" => item.si_type = "tag_handled" /\ item.count = 1
        /\ "shareable" \in item.thi_child <=> item.thi = "shareable"
        /\ item.thi = "shareable" =>
             item.id = TagShareable /\ item.index = Len(refs) /\ Len(rs) = Len(refs) + 1
        /\ item.thi # "shareable" => Len(rs) = Len(refs)
    BY <2>1 DEF IsPush
  <2>3. CASE UNCHANGED <<stack, stack_depth>> /\ refs' = rs
    <3>1. Len(refs') >= Len(refs) /\ Len(refs') \in Nat
      BY <1>1, <2>2, <2>3
    <3>2. \A i \in DOMAIN stack : stack[i].index \in Nat
      BY <1>1, <1>2
    <3> QED BY <1>1, <2>3, <3>1, <3>2 DEF ItemInv
  <2>4. CASE /\ Len(stack') = Len(stack) + 1 /\ stack'[Len(stack) + 1] = StrRefNsChild(item)
             /\ \A i \in 1..Len(stack) : SameButValue(stack'[i], stack[i])
             /\ Len(refs') = Len(rs)
    <3>1. Len(refs') >= Len(refs) /\ Len(refs') \in Nat
      BY <1>1, <2>2, <2>4
    <3> DEFINE c == StrRefNsChild(item)
    <3>2. /\ c.thi # "none" => c.si_type = "tag_handled" /\ c.count = 1
          /\ "shareable" \in c.thi_child <=> c.thi = "shareable"
          /\ c.thi = "shareable" => c.id = TagShareable /\ c.index < Len(refs')
      BY <1>1, <2>2, <2>4, ChildFields
    <3> HIDE DEF c
    <3>3. ASSUME NEW i \in 1..Len(stack)
          PROVE  /\ stack'[i].thi # "none" => stack'[i].si_type = "tag_handled" /\ stack'[i].count = 1
                 /\ "shareable" \in stack'[i].thi_child <=> stack'[i].thi = "shareable"
                 /\ stack'[i].thi = "shareable" =>
                      stack'[i].id = TagShareable /\ stack'[i].index < Len(refs')
      <4>1. stack[i].index \in Nat
        BY <1>2
      <4> QED BY <1>1, <2>4, <3>1, <4>1, SMTT(30) DEF ItemInv, SameButValue
    <3>4. \A i \in DOMAIN stack' : i \in 1..Len(stack) \/ i = Len(stack) + 1
      BY <1>1, <2>4
    <3>5. stack'[Len(stack) + 1] = c
      BY <2>4 DEF c
    <3> QED BY <3>2, <3>3, <3>4, <3>5 DEF ItemInv
  <2> QED BY <2>1, <2>3, <2>4, PushShape DEF IsPush
<1> QED BY <1>3, <1>4, <1>5, <1>6 DEF StepOK, Effect

\* There is a string table for each namespace, and items that depend on one
\* are inside of one.
LEMMA NamespaceKept == ASSUME IInv, StepOK, Live' PROVE NamespaceInv'
<1>1. /\ stack \in Seq(Item) /\ DOMAIN stack = 1..Len(stack) /\ Len(stack) \in Nat
      /\ stack' \in Seq(Item) /\ DOMAIN stack' = 1..Len(stack') /\ TypeOK
      /\ srns \in Seq(Seq(Value)) /\ Len(srns) \in Nat
  BY DEF IInv, TypeOK, StepOK
<1>2. /\ Live /\ Len(srns) = Cardinality(OpenNamespaces)
      /\ \A i \in 1..Len(stack) :
           NeedsNamespace(stack[i]) => \E j \in 1..i : stack[j].thi = "str_ref_ns"
  BY <1>1 DEF IInv, StepOK, NamespaceInv
<1>3. IsFiniteSet(OpenNamespaces) /\ Cardinality(OpenNamespaces) \in Nat
  BY <1>1, OpenFinite, FS_CardinalityType
<1>4. CASE Stay
  <2>1. stack' = stack /\ Len(srns') = Len(srns)
    BY <1>4 DEF Stay
  <2> QED BY <1>1, <1>2, <2>1 DEF NamespaceInv, OpenNamespaces, NeedsNamespace
<1>5. CASE Change
  <2>1. /\ Len(stack') = Len(stack) /\ srns' = srns
        /\ \A i \in 1..Len(stack) :
              /\ stack'[i].thi = stack[i].thi /\ stack'[i].thi_data = stack[i].thi_data
              /\ stack'[i].thi_child = stack[i].thi_child
    BY <1>5, ChangeShape DEF Change
  <2>2. OpenNamespaces' = OpenNamespaces
    BY <1>1, <2>1 DEF OpenNamespaces
  <2>3. ASSUME NEW i \in 1..Len(stack), NeedsNamespace(stack'[i])
        PROVE  \E j \in 1..i : stack'[j].thi = "str_ref_ns"
    <3>1. NeedsNamespace(stack[i])
      BY <2>1, <2>3 DEF NeedsNamespace
    <3>2. PICK j \in 1..i : stack[j].thi = "str_ref_ns"
      BY <1>2, <3>1
    <3>3. j \in 1..Len(stack)
      BY <1>1, <3>2
    <3> QED BY <2>1, <3>2, <3>3
  <2> QED BY <1>1, <1>2, <2>1, <2>2, <2>3 DEF NamespaceInv
<1>6. CASE Pop
  <2> DEFINE n == Len(stack)
  <2>1. /\ n # 0 /\ Len(stack') = n - 1
        /\ \A i \in 1..(n - 1) : stack'[i] = stack[i]
    <3>1. stack # << >> /\ stack' = Below
      BY <1>6 DEF Pop, stack_pop_item
    <3>2. n # 0
      BY <1>1, <3>1
    <3> QED BY <1>1, <3>1, <3>2, BelowType
  <2>2. Len(srns') = IF stack[Len(stack)].thi = "str_ref_ns" THEN Len(srns) - 1 ELSE Len(srns)
    BY <1>6 DEF Pop, Top
  <2>3. OpenNamespaces' = OpenNamespaces \ {Len(stack)}
    <3>1. DOMAIN stack' = 1..(n - 1) /\ \A i : i \in 1..(n - 1) <=> i \in 1..n /\ i # n
      BY <1>1, <2>1
    <3> HIDE DEF n
    <3> QED BY <1>1, <2>1, <3>1 DEF OpenNamespaces, n
  <2>4. Len(stack) \in OpenNamespaces <=> stack[Len(stack)].thi = "str_ref_ns"
    BY <1>1, <2>1 DEF OpenNamespaces
  <2>5. Len(srns') = Cardinality(OpenNamespaces')
    BY <1>2, <1>3, <2>2, <2>3, <2>4, FS_RemoveElement
  <2>6. ASSUME NEW i \in 1..(Len(stack) - 1), NeedsNamespace(stack'[i])
        PROVE  \E j \in 1..i : stack'[j].thi = "str_ref_ns"
    <3>1. i \in 1..Len(stack) /\ NeedsNamespace(stack[i])
      BY <1>1, <2>1, <2>6
    <3>2. PICK j \in 1..i : stack[j].thi = "str_ref_ns"
      BY <1>2, <3>1
    <3>3. j \in 1..(Len(stack) - 1)
      BY <1>1, <3>2
    <3> QED BY <2>1, <3>2, <3>3
  <2> QED BY <1>1, <2>1, <2>5, <2>6 DEF NamespaceInv
<1>7. CASE Push
  <2> DEFINE n == Len(stack)
  <2>1. PICK item \in Item, rs \in Seq(Value), hp \in Seq(Node) : IsPush(item, rs, hp)
    BY <1>7 DEF Push
  <2> DEFINE c == StrRefNsChild(item)
  <2>2. /\ Len(stack') = n + 1 /\ stack'[n + 1] = c
        /\ \A i \in 1..n : SameButValue(stack'[i], stack[i])
    BY <2>1, PushShape DEF IsPush
  <2>3. /\ c.thi = item.thi
        /\ NeedsNamespace(c) => NeedsNamespace(item) \/ HasChildHandler("str_ref_ns")
    BY ChildFields
  <2>4. /\ IF item.thi = "str_ref_ns" THEN srns' = Append(srns, << >>) ELSE srns' = srns
        /\ NeedsNamespace(item) => item.thi = "str_ref_ns" \/ srns # << >>
    BY <2>1 DEF IsPush, NeedsNamespace
  <2> HIDE DEF c
  <2>5. ASSUME NEW i \in 1..n
        PROVE  /\ stack'[i].thi = stack[i].thi
               /\ NeedsNamespace(stack'[i]) => NeedsNamespace(stack[i])
    <3>1. SameButValue(stack'[i], stack[i])
      BY <2>2
    <3> QED BY <3>1 DEF SameButValue, NeedsNamespace
  <2>6. n + 1 \notin OpenNamespaces
    BY <1>1 DEF OpenNamespaces
  <2>7. Len(srns') = Cardinality(OpenNamespaces')
    <3>1. \A i : i \in DOMAIN stack' <=> i \in DOMAIN stack \/ i = n + 1
      BY <1>1, <2>2
    <3>2. \A i \in DOMAIN stack : stack'[i].thi = stack[i].thi
      BY <1>1, <2>5
    <3>3. stack'[n + 1].thi = item.thi
      BY <2>2, <2>3
    <3>4. CASE item.thi = "str_ref_ns"
      <4>1. OpenNamespaces' = OpenNamespaces \cup {n + 1}
        BY <3>4, <3>1, <3>2, <3>3 DEF OpenNamespaces
      <4>2. Len(srns') = Len(srns) + 1
        BY <1>1, <2>4, <3>4
      <4> QED BY <1>2, <1>3, <2>6, <4>1, <4>2, FS_AddElement
    <3>5. CASE item.thi # "str_ref_ns"
      <4>1. OpenNamespaces' = OpenNamespaces
        BY <3>5, <3>1, <3>2, <3>3 DEF OpenNamespaces
      <4> QED BY <1>2, <2>4, <3>5, <4>1
    <3> QED BY <3>4, <3>5
  <2>8. ASSUME NEW i \in 1..n, NeedsNamespace(stack'[i])
        PROVE  \E j \in 1..i : stack'[j].thi = "str_ref_ns"
    <3>1. NeedsNamespace(stack[i])
      BY <2>5, <2>8
    <3>2. PICK j \in 1..i : stack[j].thi = "str_ref_ns"
      BY <1>2, <3>1
    <3>3. j \in 1..n
      BY <1>1, <3>2
    <3>4. stack'[j].thi = stack[j].thi
      BY <2>5, <3>3
    <3> QED BY <3>2, <3>4
  <2>9. ASSUME NeedsNamespace(c)
        PROVE  \E j \in 1..(n + 1) : stack'[j].thi = "str_ref_ns"
    <3>1. CASE item.thi = "str_ref_ns"
      <4>1. n + 1 \in 1..(n + 1)
        BY <1>1
      <4> QED BY <2>2, <2>3, <3>1, <4>1
    <3>2. CASE \E j \in 1..n : stack[j].thi = "str_ref_ns"
      <4>1. PICK j \in 1..n : stack[j].thi = "str_ref_ns"
        BY <3>2
      <4>2. j \in 1..(n + 1)
        BY <1>1, <4>1
      <4>3. stack'[j].thi = stack[j].thi
        BY <2>5, <4>1
      <4> QED BY <4>1, <4>2, <4>3
    <3>3. CASE srns # << >>
      <4>1. Len(srns) # 0
        BY <1>1, <3>3
      <4>2. OpenNamespaces # {}
        BY <1>2, <4>1, FS_EmptySet
      <4> QED BY <1>1, <3>2, <4>2 DEF OpenNamespaces
    <3>4. CASE HasChildHandler("str_ref_ns")
      <4>1. n \in 1..n /\ NeedsNamespace(stack[n])
        BY <1>1, <3>4 DEF HasChildHandler, NeedsNamespace, Top
      <4> QED BY <1>2, <3>2, <4>1
    <3> QED BY <2>3, <2>4, <2>9, <3>1, <3>3, <3>4
  <2>10. \A i \in DOMAIN stack' : i \in 1..n \/ i = n + 1
    BY <1>1, <2>2
  <2> QED BY <2>2, <2>7, <2>8, <2>9, <2>10 DEF NamespaceInv
<1> QED BY <1>4, <1>5, <1>6, <1>7 DEF StepOK, Effect

\* Items whose stack below is the same, but for values, record as before.
LEMMA SameRecords ==
  ASSUME InheritInv, stack \in Seq(Item), NEW m \in 0..Len(stack),
         \A i \in 1..m :
           /\ stack'[i].si_type = stack[i].si_type /\ stack'[i].thi = stack[i].thi
           /\ stack'[i].thi_data = stack[i].thi_data /\ stack'[i].thi_child = stack[i].thi_child
  PROVE  \A i \in 1..m :
           /\ \A j \in 1..i : ~IsString(stack'[j])
           /\ \E j \in 1..i : stack'[j].thi = "str_ref_ns"
           => Records(stack'[i])
<1> SUFFICES ASSUME NEW i \in 1..m, \A j \in 1..i : ~IsString(stack'[j]),
                    NEW k \in 1..i, stack'[k].thi = "str_ref_ns"
             PROVE  Records(stack'[i])
  OBVIOUS
<1>1. i \in DOMAIN stack /\ k \in 1..m /\ \A j \in 1..i : j \in 1..m
  OBVIOUS
<1>2. \A j \in 1..i : ~IsString(stack[j])
  BY <1>1 DEF IsString
<1>3. stack[k].thi = "str_ref_ns"
  BY <1>1
<1>4. Records(stack[i])
  BY <1>1, <1>2, <1>3 DEF InheritInv
<1> QED BY <1>4 DEF Records

\* The contents of a namespace record their strings.
LEMMA InheritKept == ASSUME IInv, StepOK PROVE InheritInv'
<1> DEFINE n == Len(stack)
           Same(m) == \A i \in 1..m :
             /\ stack'[i].si_type = stack[i].si_type /\ stack'[i].thi = stack[i].thi
             /\ stack'[i].thi_data = stack[i].thi_data /\ stack'[i].thi_child = stack[i].thi_child
<1>1. /\ stack \in Seq(Item) /\ DOMAIN stack = 1..n /\ n \in Nat /\ InheritInv
      /\ stack' \in Seq(Item) /\ DOMAIN stack' = 1..Len(stack')
  BY DEF IInv, TypeOK, StepOK
<1>2. ASSUME NEW m \in 0..n, Len(stack') = m, Same(m) PROVE InheritInv'
  BY <1>1, <1>2, SameRecords DEF InheritInv
<1>3. CASE Stay
  <2>1. stack' = stack
    BY <1>3 DEF Stay
  <2>2. Len(stack') = n /\ Same(n) /\ n \in 0..n
    BY <1>1, <2>1
  <2> QED BY <1>2, <2>2
<1>4. CASE Change
  <2>1. Len(stack') = n /\ Same(n)
    BY <1>4, ChangeShape
  <2>2. n \in 0..n
    BY <1>1
  <2> QED BY <1>2, <2>1, <2>2
<1>5. CASE Pop
  <2>1. stack # << >> /\ stack' = Below
    BY <1>5 DEF Pop, stack_pop_item
  <2>2. n # 0
    BY <1>1, <2>1
  <2>3. Len(stack') = n - 1 /\ \A i \in 1..(n - 1) : stack'[i] = stack[i]
    BY <1>1, <2>1, <2>2, BelowType
  <2>4. n - 1 \in 0..n /\ Same(n - 1)
    BY <1>1, <2>2, <2>3
  <2> QED BY <1>2, <2>3, <2>4
<1>6. CASE Push
  <2>1. PICK item \in Item, rs \in Seq(Value), hp \in Seq(Node) : IsPush(item, rs, hp)
    BY <1>6 DEF Push
  <2> DEFINE c == StrRefNsChild(item)
  <2>2. \/ stack' = stack
        \/ /\ Len(stack') = n + 1 /\ stack'[n + 1] = c
           /\ \A i \in 1..n : SameButValue(stack'[i], stack[i])
    BY <2>1, PushShape DEF IsPush
  <2>3. CASE stack' = stack
    <3>1. Len(stack') = n /\ Same(n) /\ n \in 0..n
      BY <1>1, <2>3
    <3> QED BY <1>2, <3>1
  <2>4. CASE /\ Len(stack') = n + 1 /\ stack'[n + 1] = c
             /\ \A i \in 1..n : SameButValue(stack'[i], stack[i])
    <3>1. Same(n) /\ n \in 0..n
      <4>1. n \in 0..n
        BY <1>1
      <4>2. ASSUME NEW i \in 1..n
            PROVE  /\ stack'[i].si_type = stack[i].si_type /\ stack'[i].thi = stack[i].thi
                   /\ stack'[i].thi_data = stack[i].thi_data
                   /\ stack'[i].thi_child = stack[i].thi_child
        <5>1. SameButValue(stack'[i], stack[i])
          BY <2>4
        <5> QED BY ONLY <5>1 DEF SameButValue
      <4> QED BY <4>1, <4>2
    <3>2. /\ c.thi = item.thi /\ c.si_type = item.si_type
          /\ Records(item) \/ (HasChildHandler("str_ref_ns") /\ ~IsString(item)) => Records(c)
      BY ChildFields
    <3>3. item.thi = "str_ref_ns" => Records(item)
      BY <2>1 DEF IsPush
    <3> HIDE DEF c
    <3>4. ASSUME NEW i \in 1..n, \A j \in 1..i : ~IsString(stack'[j]),
                 \E j \in 1..i : stack'[j].thi = "str_ref_ns"
          PROVE  Records(stack'[i])
      BY <1>1, <3>1, <3>4, SameRecords
    <3>5. ASSUME \A j \in 1..(n + 1) : ~IsString(stack'[j]),
                 NEW k \in 1..(n + 1), stack'[k].thi = "str_ref_ns"
          PROVE  Records(c)
      <4>1. ~IsString(item)
        <5>1. n + 1 \in 1..(n + 1)
          BY <1>1
        <5> QED BY <2>4, <3>2, <3>5, <5>1 DEF IsString
      <4>2. CASE k = n + 1
        BY <2>4, <3>2, <3>3, <3>5, <4>2
      <4>3. CASE k # n + 1
        <5>1. k \in 1..n /\ n \in 1..n /\ \A j \in 1..n : j \in 1..(n + 1)
          BY <1>1, <4>3
        <5>2. Records(stack'[n])
          BY <3>4, <3>5, <5>1
        <5>3. "str_ref_ns" \in stack[n].thi_child
          BY <3>1, <5>1, <5>2 DEF Records
        <5>4. stack # << >>
          BY <1>1, <5>1
        <5>5. HasChildHandler("str_ref_ns")
          BY <5>3, <5>4 DEF HasChildHandler, Top
        <5> QED BY <3>2, <4>1, <5>5
      <4> QED BY <4>2, <4>3
    <3>6. \A i \in DOMAIN stack' : i \in 1..n \/ i = n + 1
      BY <1>1, <2>4
    <3> QED BY <2>4, <3>4, <3>5, <3>6 DEF InheritInv
  <2> QED BY <2>2, <2>3, <2>4
<1> QED BY <1>3, <1>4, <1>5, <1>6 DEF StepOK, Effect

\* If no {shareable} on top awaits its content, every index has its value.
LEMMA AllShared ==
  ASSUME IInv, Live, ~(stack # << >> /\ Top.thi = "shareable" /\ Top.v.k = "null"),
         NEW i \in DOMAIN refs
  PROVE  refs[i].k \in {"obj", "undefobj", "ref"}
  BY DEF IInv, ShareInv, IsPlaceholder

\* Otherwise every other index has.
LEMMA OthersShared ==
  ASSUME IInv, Live, stack # << >>, NEW i \in DOMAIN refs, i # Top.index + 1
  PROVE  refs[i].k \in {"obj", "undefobj", "ref"}
  BY DEF IInv, ShareInv, IsPlaceholder

\* All shared values but the one under construction stay.
LEMMA ShareKept == ASSUME IInv, StepOK, Live' PROVE ShareInv'
<1> DEFINE n == Len(stack)
           shared == {"obj", "undefobj", "ref"}
<1>1. /\ stack \in Seq(Item) /\ n \in Nat /\ stack' \in Seq(Item) /\ refs \in Seq(Value)
      /\ refs' \in Seq(Value) /\ TypeOK /\ ItemInv
  BY DEF IInv, TypeOK, StepOK
<1>2. /\ Live
      /\ \A i \in 1..(n - 1) : stack[i].thi = "shareable" => stack[i].v.k # "null"
      /\ stack # << >> /\ Top.thi = "shareable" /\ (Top.v.k = "null" \/ pc # "append") =>
           Top.v.k = "null" /\ refs[Top.index + 1].k = "null"
  BY DEF IInv, StepOK, ShareInv
<1>3. CASE Stay
  <2>1. /\ stack' = stack /\ refs' = refs
        /\ pc = "append" => stack = << >>
    BY <1>3 DEF Stay
  <2>2. ShareInv
    BY DEF IInv
  <2> QED BY <1>2, <2>1, <2>2 DEF ShareInv, IsPlaceholder, Top
<1>4. CASE Change
  <2>1. Len(stack') = n /\ n # 0 /\ refs' = refs /\ stack'[n].thi = "none" /\ stack # << >>
        /\ Top.thi = "none" /\ \A i \in 1..(n - 1) : stack'[i] = stack[i]
    BY <1>4, ChangeShape DEF Change
  <2>2. \A i \in DOMAIN refs' : refs'[i].k \in shared
    BY <1>2, <2>1, AllShared
  <2>3. \A i \in 1..(n - 1) : stack'[i].thi = "shareable" => stack'[i].v.k # "null"
    BY <1>2, <2>1
  <2> QED BY <2>1, <2>2, <2>3 DEF ShareInv, Top
<1>5. CASE Pop
  <2>1. stack # << >> /\ stack' = Below /\ pc' = "append"
    BY <1>5 DEF Pop, stack_pop_item
  <2>2. n # 0 /\ Len(stack') = n - 1 /\ \A i \in 1..(n - 1) : stack'[i] = stack[i]
    BY <1>1, <2>1, BelowType
  <2>3. ASSUME NEW i \in 1..(n - 1)
        PROVE  stack'[i].thi = "shareable" => stack'[i].v.k # "null"
    BY <1>2, <2>2
  <2>4. ASSUME NEW i \in DOMAIN refs' PROVE refs'[i].k \in shared
    <3>1. CASE Top.thi = "shareable" /\ Top.v.k = "null"
      <4>1. /\ val'.k \in shared
            /\ refs' = [refs EXCEPT ![Top.index + 1] = val']
        BY <1>5, <3>1 DEF Pop
      <4>2. i \in DOMAIN refs
        BY <4>1
      <4>3. CASE i = Top.index + 1
        BY <4>1, <4>2, <4>3
      <4>4. CASE i # Top.index + 1
        <5>1. refs'[i] = refs[i]
          BY <4>1, <4>2, <4>4
        <5> QED BY <1>2, <2>1, <4>2, <4>4, <5>1, OthersShared
      <4> QED BY <4>3, <4>4
    <3>2. CASE ~(Top.thi = "shareable" /\ Top.v.k = "null")
      <4>1. refs' = refs
        BY <1>5, <3>2 DEF Pop
      <4> QED BY <1>2, <3>2, <4>1, AllShared
    <3> QED BY <3>1, <3>2
  <2>5. ASSUME stack' # << >> PROVE Top'.thi = "shareable" => Top'.v.k # "null"
    <3>1. Len(stack') # 0
      BY <1>1, <2>5
    <3>2. n - 1 \in 1..(n - 1)
      BY <1>1, <2>2, <3>1
    <3> QED BY <2>2, <2>3, <3>2 DEF Top
  <2>6. \A i \in 1..(Len(stack') - 1) : stack'[i].thi = "shareable" => stack'[i].v.k # "null"
    BY <1>1, <2>2, <2>3
  <2> QED BY <2>1, <2>4, <2>5, <2>6 DEF ShareInv
<1>6. CASE Push
  <2>1. PICK item \in Item, rs \in Seq(Value), hp \in Seq(Node) : IsPush(item, rs, hp)
    BY <1>6 DEF Push
  <2> DEFINE c == StrRefNsChild(item)
             child == HasChildHandler("shareable")
  <2>2. /\ Len(stack') = n + 1 /\ stack'[n + 1] = c
        /\ \A i \in 1..(n - 1) : stack'[i] = stack[i]
        /\ child => /\ stack'[n].v.k \in {"obj", "ref"}
                    /\ refs' = [rs EXCEPT ![Top.index + 1] = stack'[n].v]
        /\ ~child => refs' = rs /\ \A i \in 1..n : stack'[i] = stack[i]
    BY <2>1, PushShape DEF IsPush
  <2>3. c.thi = item.thi /\ c.index = item.index /\ c.v = item.v
    BY ChildFields
  <2>4. /\ item.thi = "shareable" =>
             ~IsNestedShareable /\ rs = Append(refs, Null) /\ item.v = Null /\ item.index = Len(refs)
        /\ item.thi # "shareable" => rs = refs
    BY <2>1 DEF IsPush
  <2> HIDE DEF c
  <2>5. Top' = c /\ stack' # << >>
    BY <1>1, <2>2 DEF Top
  <2>6. child <=> stack # << >> /\ Top.thi = "shareable"
    BY <1>1, TopInv DEF HasChildHandler
  <2>7. CASE child
    <3>1. item.thi # "shareable" /\ rs = refs
      BY <1>1, <2>4, <2>6, <2>7, TopInv DEF IsNestedShareable
    <3>2. refs' = [refs EXCEPT ![Top.index + 1] = stack'[n].v] /\ stack'[n].v.k \in {"obj", "ref"}
      BY <2>2, <2>7, <3>1
    <3>3. ASSUME NEW i \in DOMAIN refs' PROVE refs'[i].k \in shared
      <4>1. i \in DOMAIN refs
        BY <3>2
      <4>2. CASE i = Top.index + 1
        BY <3>2, <4>1, <4>2
      <4>3. CASE i # Top.index + 1
        <5>1. refs'[i] = refs[i]
          BY <3>2, <4>1, <4>3
        <5> QED BY <1>2, <2>6, <2>7, <4>1, <4>3, <5>1, OthersShared
      <4> QED BY <4>2, <4>3
    <3>4. ASSUME NEW i \in 1..n
          PROVE  stack'[i].thi = "shareable" => stack'[i].v.k # "null"
      <4>1. CASE i = n
        BY <3>2, <4>1
      <4>2. CASE i # n
        <5>1. i \in 1..(n - 1)
          BY <1>1, <4>2
        <5> QED BY <1>2, <2>2, <5>1
      <4> QED BY <4>1, <4>2
    <3>5. Top'.thi # "shareable"
      BY <2>3, <2>5, <3>1
    <3>6. Len(stack') - 1 = n
      BY <1>1, <2>2
    <3> QED BY <3>3, <3>4, <3>5, <3>6 DEF ShareInv
  <2>8. CASE ~child
    <3>1. refs' = rs /\ \A i \in 1..n : stack'[i] = stack[i]
      BY <2>2, <2>8
    <3>2. ASSUME NEW i \in 1..n
          PROVE  stack'[i].thi = "shareable" => stack'[i].v.k # "null"
      <4>1. CASE i = n
        <5>1. stack # << >> /\ stack'[i] = Top
          BY <1>1, <3>1, <4>1 DEF Top
        <5> QED BY <2>6, <2>8, <5>1
      <4>2. CASE i # n
        <5>1. i \in 1..(n - 1)
          BY <1>1, <4>2
        <5> QED BY <1>2, <2>2, <5>1
      <4> QED BY <4>1, <4>2
    <3>3. Len(stack') - 1 = n
      BY <1>1, <2>2
    <3>4. \A i \in DOMAIN refs : refs[i].k \in shared
      BY <1>2, <2>6, <2>8, AllShared
    <3>5. CASE item.thi # "shareable"
      <4>1. refs' = refs /\ Top'.thi # "shareable"
        BY <2>3, <2>4, <2>5, <3>1, <3>5
      <4> QED BY <3>2, <3>3, <3>4, <4>1 DEF ShareInv
    <3>6. CASE item.thi = "shareable"
      <4>1. refs' = Append(refs, Null) /\ Null \in Value /\ Null.k = "null"
        BY <2>4, <3>1, <3>6, ConstType DEF Null, Scalar
      <4>2. /\ Len(refs') = Len(refs) + 1 /\ refs'[Len(refs) + 1] = Null
            /\ \A i \in 1..Len(refs) : refs'[i] = refs[i]
        BY <1>1, <4>1, AppendProperties
      <4>3. Top'.thi = "shareable" /\ Top'.index = Len(refs) /\ Top'.v.k = "null"
        BY <2>3, <2>4, <2>5, <3>6, <4>1
      <4>4. ASSUME NEW i \in DOMAIN refs'
            PROVE  refs'[i].k \in shared \/ (refs'[i].k = "null" /\ IsPlaceholder(i)')
        <5>1. i \in 1..Len(refs) \/ i = Len(refs) + 1
          BY <1>1, <4>2
        <5>2. CASE i \in 1..Len(refs)
          <6>1. i \in DOMAIN refs
            BY <1>1, <5>2, LenProperties
          <6>2. refs'[i] = refs[i]
            BY <4>2, <5>2
          <6>3. refs[i].k \in shared
            BY <3>4, <6>1, Zenon
          <6> QED BY <6>2, <6>3, Zenon
        <5>3. CASE i = Len(refs) + 1
          BY <2>5, <4>1, <4>2, <4>3, <5>3 DEF IsPlaceholder
        <5> QED BY <5>1, <5>2, <5>3
      <4>5. Top'.v.k = "null" /\ refs'[Top'.index + 1].k = "null"
        BY <4>1, <4>2, <4>3
      <4> QED BY <3>2, <3>3, <4>4, <4>5 DEF ShareInv
    <3> QED BY <3>5, <3>6
  <2> QED BY <2>7, <2>8
<1> QED BY <1>3, <1>4, <1>5, <1>6 DEF StepOK, Effect

\* What a {shareable} holds stays the value of its index.
LEMMA IdentityKept == ASSUME IInv, StepOK, Live' PROVE IdentityInv'
<1> DEFINE n == Len(stack)
           Held(i) == stack[i].thi = "shareable" /\ stack[i].v.k # "null"
           OwnObject(i) == stack[i].thi = "shareable" /\ stack[i].v.k \notin {"null", "ref"}
<1>1. /\ stack \in Seq(Item) /\ DOMAIN stack = 1..n /\ n \in Nat /\ refs \in Seq(Value)
      /\ stack' \in Seq(Item) /\ DOMAIN stack' = 1..Len(stack') /\ TypeOK /\ ItemInv
      /\ args' = args
  BY DEF IInv, TypeOK, StepOK
<1>0. n \in Nat
  BY <1>1
<1>2. /\ Live
      /\ \A i \in 1..n : Held(i) => refs[stack[i].index + 1] = stack[i].v
  BY <1>1 DEF IInv, StepOK, IdentityInv
<1>3. ASSUME args.shared_ref = "unsafe_ref", NEW i \in 1..n, OwnObject(i)
      PROVE  IF i = n THEN val = stack[i].v
             ELSE stack[i + 1].si_type = "map" /\ stack[i + 1].v = stack[i].v
  BY <1>1, <1>2, <1>3 DEF IInv, IdentityInv
<1>4. ASSUME NEW i \in 1..n, Held(i)
      PROVE  /\ stack[i].index \in Nat /\ stack[i].index + 1 \in DOMAIN refs
  <2>1. stack[i] \in Item
    BY <1>1
  <2>2. stack[i].index \in Nat /\ stack[i].index < Len(refs)
    BY <1>1, <1>4, <2>1 DEF Item, ItemInv
  <2> QED BY <1>1, <2>2
<1>5. CASE Stay
  <2>1. stack' = stack /\ refs' = refs /\ (pc = "append" => stack = << >>)
    BY <1>5 DEF Stay
  <2>2. ASSUME n \in 1..n PROVE ~OwnObject(n)
    <3>1. stack # << >> /\ pc # "append" /\ Top = stack[n]
      BY <1>1, <2>1, <2>2 DEF Top
    <3> QED BY <1>2, <3>1 DEF IInv, ShareInv
  <2>3. \A i \in 1..n : Held(i) => refs'[stack'[i].index + 1] = stack'[i].v
    BY <1>2, <2>1
  <2>4. ASSUME args.shared_ref = "unsafe_ref", NEW i \in 1..n, OwnObject(i)
        PROVE  i # n /\ stack[i + 1].si_type = "map" /\ stack[i + 1].v = stack[i].v
    BY <1>3, <2>2, <2>4
  <2> QED BY <1>1, <2>1, <2>3, <2>4 DEF IdentityInv
<1>6. CASE Change
  <2>1. /\ Len(stack') = n /\ n \in 1..n /\ refs' = refs /\ stack'[n].thi = "none"
        /\ \A i \in 1..(n - 1) : stack'[i] = stack[i]
        /\ \A i \in 1..n : stack'[i].si_type = stack[i].si_type /\ stack'[i].v = stack[i].v
    BY <1>6, ChangeShape DEF Change
  <2>2. ASSUME NEW i \in 1..n, stack'[i].thi = "shareable"
        PROVE  /\ i \in 1..(n - 1) /\ i + 1 \in 1..n /\ i # n /\ stack'[i] = stack[i]
               /\ stack'[i + 1].si_type = stack[i + 1].si_type /\ stack'[i + 1].v = stack[i + 1].v
    <3>1. i # n
      BY <2>1, <2>2
    <3>2. i \in 1..(n - 1) /\ i + 1 \in 1..n
      BY ONLY <1>0, <3>1, i \in 1..n
    <3> QED BY <2>1, <3>1, <3>2
  <2>3. ASSUME NEW i \in 1..n, stack'[i].thi = "shareable", stack'[i].v.k # "null"
        PROVE  refs'[stack'[i].index + 1] = stack'[i].v
    BY <1>2, <2>1, <2>2, <2>3
  <2>4. ASSUME args.shared_ref = "unsafe_ref", NEW i \in 1..n,
               stack'[i].thi = "shareable", stack'[i].v.k \notin {"null", "ref"}
        PROVE  i # n /\ stack'[i + 1].si_type = "map" /\ stack'[i + 1].v = stack'[i].v
    BY <1>3, <2>2, <2>4
  <2> QED BY <1>1, <2>1, <2>3, <2>4 DEF IdentityInv
<1>7. CASE Pop
  <2>1. /\ stack # << >> /\ stack' = Below
        /\ Top.si_type = "map" => val' = Top.v
        /\ \/ refs' = refs
           \/ /\ refs' = [refs EXCEPT ![Top.index + 1] = val']
              /\ Top.thi = "shareable" /\ Top.v.k = "null"
    BY <1>7 DEF Pop, stack_pop_item
  <2>2. n # 0 /\ Len(stack') = n - 1 /\ \A i \in 1..(n - 1) : stack'[i] = stack[i]
    <3>1. n # 0
      BY <1>1, <2>1
    <3> QED BY <1>1, <2>1, <3>1, BelowType
  <2>3. ASSUME NEW i \in 1..(n - 1) PROVE i \in 1..n /\ i # n /\ stack'[i] = stack[i]
    <3>1. i \in 1..n /\ i # n
      BY ONLY <1>0, i \in 1..(n - 1)
    <3> QED BY <2>2, <3>1
  <2>4. ASSUME NEW i \in 1..(n - 1), Held(i)
        PROVE  refs'[stack[i].index + 1] = stack[i].v
    <3>1. refs[stack[i].index + 1] = stack[i].v /\ stack[i].v.k # "null"
      BY <1>2, <2>3, <2>4
    <3>2. CASE refs' = [refs EXCEPT ![Top.index + 1] = val']
               /\ Top.thi = "shareable" /\ Top.v.k = "null"
      <4>1. refs[Top.index + 1].k = "null"
        BY <1>2, <2>1, <3>2 DEF IInv, ShareInv
      <4>2. stack[i].index + 1 # Top.index + 1
        BY <3>1, <4>1
      <4>3. stack[i].index + 1 \in DOMAIN refs
        BY <1>4, <2>3, <2>4
      <4> QED BY <3>1, <3>2, <4>2, <4>3
    <3> QED BY <2>1, <3>1, <3>2
  <2>5. ASSUME args.shared_ref = "unsafe_ref", NEW i \in 1..(n - 1), OwnObject(i)
        PROVE  IF i = n - 1 THEN val' = stack[i].v
               ELSE stack'[i + 1].si_type = "map" /\ stack'[i + 1].v = stack[i].v
    <3>1. stack[i + 1].si_type = "map" /\ stack[i + 1].v = stack[i].v
      BY <1>3, <2>3, <2>5
    <3>2. CASE i = n - 1
      <4>1. i + 1 = n
        BY <1>1, <3>2
      <4>2. Top = stack[i + 1]
        BY <4>1 DEF Top
      <4> QED BY <2>1, <3>1, <3>2, <4>2
    <3>3. CASE i # n - 1
      <4>1. i + 1 \in 1..(n - 1)
        BY ONLY <1>0, <3>3, i \in 1..(n - 1)
      <4> QED BY <2>3, <3>1, <3>3, <4>1
    <3> QED BY <3>2, <3>3
  <2>6. DOMAIN stack' = 1..(n - 1)
    BY <1>1, <2>2
  <2>7. ASSUME NEW i \in DOMAIN stack', stack'[i].thi = "shareable", stack'[i].v.k # "null"
        PROVE  refs'[stack'[i].index + 1] = stack'[i].v
    <3>1. i \in 1..(n - 1)
      BY ONLY <2>6, i \in DOMAIN stack'
    <3>2. stack'[i] = stack[i]
      BY <2>3, <3>1
    <3>3. Held(i)
      BY <2>7, <3>2
    <3>4. refs'[stack[i].index + 1] = stack[i].v
      BY <2>4, <3>1, <3>3
    <3> QED BY ONLY <3>2, <3>4
  <2>8. ASSUME args'.shared_ref = "unsafe_ref", NEW i \in DOMAIN stack',
               stack'[i].thi = "shareable", stack'[i].v.k \notin {"null", "ref"}
        PROVE  IF i = Len(stack') THEN val' = stack'[i].v
               ELSE stack'[i + 1].si_type = "map" /\ stack'[i + 1].v = stack'[i].v
    <3>1. i \in 1..(n - 1)
      BY ONLY <2>6, i \in DOMAIN stack'
    <3>2. stack'[i] = stack[i] /\ Len(stack') = n - 1
      BY <2>2, <2>3, <3>1
    <3>3. OwnObject(i) /\ args.shared_ref = "unsafe_ref"
      BY <1>1, <2>8, <3>2
    <3>4. IF i = n - 1 THEN val' = stack[i].v
          ELSE stack'[i + 1].si_type = "map" /\ stack'[i + 1].v = stack[i].v
      BY <2>5, <3>1, <3>3
    <3> QED BY ONLY <3>2, <3>4
  <2> QED BY <2>7, <2>8 DEF IdentityInv
<1>8. CASE Push
  <2>1. PICK item \in Item, rs \in Seq(Value), hp \in Seq(Node) : IsPush(item, rs, hp)
    BY <1>8 DEF Push
  <2> DEFINE c == StrRefNsChild(item)
             child == HasChildHandler("shareable")
  <2>2. /\ Len(stack') = n + 1 /\ stack'[n + 1] = c
        /\ \A i \in 1..n : SameButValue(stack'[i], stack[i])
        /\ \A i \in 1..(n - 1) : stack'[i] = stack[i]
        /\ child => /\ args.shared_ref = "unsafe_ref" /\ stack'[n].v.k # "ref" =>
                         item.si_type = "map" /\ stack'[n].v = item.v
                    /\ refs' = [rs EXCEPT ![Top.index + 1] = stack'[n].v]
        /\ ~child => refs' = rs /\ \A i \in 1..n : stack'[i] = stack[i]
    BY <2>1, PushShape DEF IsPush
  <2>3. c.thi = item.thi /\ c.si_type = item.si_type /\ c.v = item.v
    BY ChildFields
  <2>4. /\ item.thi = "shareable" => item.v.k = "null"
        /\ rs = refs \/ rs = Append(refs, Null)
        /\ pc = "item"
    BY <2>1 DEF IsPush, Null, Scalar
  <2> HIDE DEF c
  <2>5. \A i \in DOMAIN refs : i \in DOMAIN rs /\ rs[i] = refs[i]
    <3>1. CASE rs = refs
      BY ONLY <3>1
    <3>2. CASE rs = Append(refs, Null)
      <4>1. refs \in Seq(Value) /\ Null \in Value
        BY <1>1, ConstType
      <4>2. /\ Len(Append(refs, Null)) = Len(refs) + 1
            /\ Append(refs, Null) \in Seq(Value)
            /\ \A i \in 1..Len(refs) : Append(refs, Null)[i] = refs[i]
        BY ONLY <4>1, AppendProperties
      <4>3. /\ DOMAIN refs = 1..Len(refs) /\ Len(refs) \in Nat
            /\ DOMAIN Append(refs, Null) = 1..(Len(refs) + 1)
        BY ONLY <4>1, <4>2
      <4>4. \A i \in 1..Len(refs) : i \in 1..(Len(refs) + 1)
        BY ONLY <4>3
      <4> QED BY ONLY <3>2, <4>2, <4>3, <4>4
    <3> QED BY <2>4, <3>1, <3>2
  <2>6. child <=> stack # << >> /\ Top.thi = "shareable"
    BY <1>1, TopInv DEF HasChildHandler
  <2>7. ASSUME NEW i \in 1..(n - 1)
        PROVE  i \in 1..n /\ i # n /\ stack'[i] = stack[i]
    <3>1. i \in 1..n /\ i # n
      BY ONLY <1>0, i \in 1..(n - 1)
    <3> QED BY <2>2, <3>1
  <2>8. ASSUME NEW i \in 1..(n - 1), Held(i)
        PROVE  refs'[stack[i].index + 1] = stack[i].v
    <3>1. /\ refs[stack[i].index + 1] = stack[i].v /\ stack[i].v.k # "null"
          /\ stack[i].index + 1 \in DOMAIN refs
      BY <1>2, <1>4, <2>7, <2>8
    <3>2. stack[i].index + 1 \in DOMAIN rs /\ rs[stack[i].index + 1] = stack[i].v
      BY <2>5, <3>1
    <3>3. CASE child
      <4>1. refs[Top.index + 1].k = "null"
        BY <1>2, <2>4, <2>6, <3>3 DEF IInv, ShareInv
      <4>2. stack[i].index + 1 # Top.index + 1
        BY <3>1, <4>1
      <4> QED BY <2>2, <3>2, <3>3, <4>2
    <3>4. CASE ~child
      BY <2>2, <3>2, <3>4
    <3> QED BY <3>3, <3>4
  <2>9. ASSUME n \in 1..n, stack'[n].thi = "shareable"
        PROVE  /\ child
               /\ refs'[stack'[n].index + 1] = stack'[n].v
    <3>1. /\ stack # << >> /\ Top = stack[n] /\ stack[n].thi = "shareable"
          /\ stack'[n].index = Top.index
      <4>1. SameButValue(stack'[n], stack[n])
        BY <2>2, <2>9
      <4>2. stack # << >>
        BY <1>1, <2>9
      <4>3. Top = stack[n]
        BY DEF Top
      <4> QED BY <2>9, <4>1, <4>2, <4>3 DEF SameButValue
    <3>2. child
      BY <2>6, <3>1
    <3>3. Top.index \in Nat /\ Top.index < Len(refs)
      BY <1>1, <3>1, TopInv DEF Item
    <3>4. Top.index + 1 \in DOMAIN refs
      BY <1>1, <3>3
    <3>5. Top.index + 1 \in DOMAIN rs
      BY <2>5, <3>4
    <3> QED BY <2>2, <3>1, <3>2, <3>5
  <2>10. \A i \in DOMAIN stack' : i \in 1..(n - 1) \/ (i = n /\ n \in 1..n) \/ i = n + 1
    BY <1>1, <2>2
  <2>11. ASSUME NEW i \in DOMAIN stack', stack'[i].thi = "shareable", stack'[i].v.k # "null"
         PROVE  refs'[stack'[i].index + 1] = stack'[i].v /\ i # n + 1
    <3>1. i # n + 1
      BY <2>2, <2>3, <2>4, <2>11
    <3>2. CASE i \in 1..(n - 1)
      BY <2>7, <2>8, <2>11, <3>1, <3>2
    <3>3. CASE i = n /\ n \in 1..n
      BY <2>9, <2>11, <3>1, <3>3
    <3> QED BY <2>10, <3>1, <3>2, <3>3
  <2>12. ASSUME args.shared_ref = "unsafe_ref", NEW i \in DOMAIN stack',
                stack'[i].thi = "shareable", stack'[i].v.k \notin {"null", "ref"}
         PROVE  i # n + 1 /\ stack'[i + 1].si_type = "map" /\ stack'[i + 1].v = stack'[i].v
    <3>1. i # n + 1
      BY <2>11, <2>12
    <3>2. CASE i \in 1..(n - 1)
      <4>1. i \in 1..n /\ i # n /\ stack'[i] = stack[i]
        BY <2>7, <3>2
      <4>2. stack[i + 1].si_type = "map" /\ stack[i + 1].v = stack[i].v
        BY <1>3, <2>12, <4>1
      <4>3. stack'[i + 1].si_type = stack[i + 1].si_type /\ stack'[i + 1].v = stack[i + 1].v
        <5>1. CASE i + 1 \in 1..(n - 1)
          BY <2>7, <5>1
        <5>2. CASE i + 1 = n
          <6>1. n \in 1..n
            BY <1>1, <3>2, <5>2
          <6>2. stack # << >> /\ Top.si_type = "map"
            BY <1>1, <4>2, <5>2, <6>1 DEF Top
          <6>3. Top.thi # "shareable"
            BY <1>1, <6>2, TopInv
          <6>4. ~child
            BY <2>6, <6>3
          <6> QED BY <2>2, <5>2, <6>1, <6>4
        <5>3. i + 1 \in 1..(n - 1) \/ i + 1 = n
          BY <1>1, <3>2
        <5> QED BY <5>1, <5>2, <5>3
      <4> QED BY <3>1, <4>1, <4>2, <4>3
    <3>3. CASE i = n /\ n \in 1..n
      <4>1. child
        BY <2>9, <2>12, <3>3
      <4> QED BY <2>2, <2>3, <2>12, <3>1, <3>3, <4>1
    <3> QED BY <2>10, <3>1, <3>2, <3>3
  <2> HIDE DEF child
  <2> QED BY <1>1, <2>2, <2>11, <2>12 DEF IdentityInv
<1> QED BY <1>5, <1>6, <1>7, <1>8 DEF StepOK, Effect

-----------------------------------------------------------------------------
(* The theorems.                                                            *)

\* Every step but the last keeps the types and has one of the effects.
LEMMA NextOK == ASSUME IInv, Next, ~Finish PROVE StepOK
<1>1. ASSUME NEW tok \in Tokens, DecItem(tok) PROVE StepOK
  BY <1>1, ProcScalarOK, ProcStringOK, ProcBreakOK, ProcStringStartOK, ProcContainerOK,
     ProcTagOK, TagHandlerOK, ReadMalformedOK
  DEF DecItem
<1> QED
  BY <1>1, ZvAppendOK, ReadTruncatedOK, LoopOK, SelfDescribeOK, StartOK, ResumeOK
  DEF Next, Run, Alphabet

\* cbor_decode_finish and cbor_decode_free leave nothing behind.
LEMMA FinishOK == ASSUME IInv, Finish PROVE IInv'
<1>1. TypeOK /\ ErrorInv
  BY DEF IInv
<1>2. MemOK' /\ ControlOK' /\ StackOK'
  BY <1>1 DEF TypeOK, MemOK, ControlOK, StackOK, Finish, zv_dec_finish, zv_ctx_free, Errors, memVars
<1>3. ZvOK'
  <2>1. Deref(root) \in Value
    BY <1>1, DerefType DEF TypeOK
  <2> QED BY <1>1, <2>1, ConstType DEF TypeOK, ZvOK, Finish, zv_dec_finish, zv_ctx_free
<1>4. DepthBounded'
  BY <1>1 DEF TypeOK, Args, Finish, zv_dec_finish, zv_ctx_free, DepthBounded, memVars
<1>5. ErrorInv' /\ ItemInv' /\ NamespaceInv' /\ InheritInv' /\ TableInv' /\ ShareInv'
      /\ IdentityInv'
  BY <1>1 DEF Finish, zv_dec_finish, zv_ctx_free, ErrorInv, ItemInv, NamespaceInv, InheritInv, TableInv,
              ShareInv, IdentityInv, Live, memVars
<1> QED BY <1>2, <1>3, <1>4, <1>5, TypeParts DEF IInv

\* A new context has the invariant.
LEMMA InitOK == Init => IInv
<1> SUFFICES ASSUME Init PROVE IInv
  OBVIOUS
<1>1. TypeOK
  <2>1. args \in Args /\ oneshot \in BOOLEAN /\ length \in Nat
    BY ArgsAssumption, ModesAssumption, LengthsAssumption DEF Init
  <2>2. skip_self_desc \in BOOLEAN
    BY DEF Init
  <2> QED BY <2>1, <2>2, ConstType DEF Init, zv_ctx_init, TypeOK, Errors
<1>2. DepthBounded
  BY <1>1 DEF Init, zv_ctx_init, TypeOK, Args, DepthBounded
<1>3. OpenNamespaces = {}
  BY DEF Init, zv_ctx_init, OpenNamespaces
<1>4. NamespaceInv
  BY <1>3, FS_EmptySet DEF Init, zv_ctx_init, NamespaceInv
<1>5. ErrorInv /\ ItemInv /\ InheritInv /\ TableInv /\ ShareInv /\ IdentityInv
  BY DEF Init, zv_ctx_init, ErrorInv, ItemInv, InheritInv, TableInv, ShareInv,
         IdentityInv
<1> QED BY <1>1, <1>2, <1>4, <1>5 DEF IInv

\* Every step keeps the invariant.
LEMMA NextKeepsInv == IInv /\ [Next]_vars => IInv'
<1> SUFFICES ASSUME IInv, [Next]_vars PROVE IInv'
  OBVIOUS
<1>1. CASE Next /\ ~Finish
  <2>1. StepOK
    BY <1>1, NextOK
  <2>2. DepthBounded' /\ ItemInv' /\ InheritInv'
    BY <2>1, DepthKept, ItemKept, InheritKept
  <2>3. NamespaceInv' /\ ShareInv' /\ IdentityInv'
    <3>1. CASE Live'
      BY <2>1, <3>1, NamespaceKept, ShareKept, IdentityKept
    <3>2. CASE ~Live'
      BY <3>2 DEF NamespaceInv, ShareInv, IdentityInv
    <3> QED BY <3>1, <3>2
  <2> QED BY <2>1, <2>2, <2>3 DEF IInv, StepOK
<1>2. CASE Finish
  BY <1>2, FinishOK
<1>3. CASE UNCHANGED vars
  BY <1>3 DEF vars, memVars, stackVars, zvVars, IInv, TypeOK, DepthBounded, ErrorInv, ItemInv,
              NamespaceInv, InheritInv, TableInv, ShareInv, IdentityInv, Live, OpenNamespaces, IsPlaceholder, Top
<1> QED BY <1>1, <1>2, <1>3

\* IInv is an invariant of the decoder.
THEOREM Invariance == Spec => []IInv
  BY InitOK, NextKeepsInv, PTL DEF Spec

\* The fields of the context keep their types whatever the input, the options
\* and the points at which the input is cut; in particular zv_append always
\* is handed a value, and a {stringref} finds its table and its string.
THEOREM TypeCorrect == Spec => []TypeOK
<1>1. IInv => TypeOK
  BY DEF IInv
<1> QED BY <1>1, Invariance, PTL

\* stack_depth counts the items of the stack through pushes, failed pushes,
\* pops, errors and resumed calls, and never exceeds max_depth.
THEOREM DepthCorrect == Spec => []DepthBounded
<1>1. IInv => DepthBounded
  BY DEF IInv
<1> QED BY <1>1, Invariance, PTL

\* tag_handler_str_ref_exit and tag_handler_str_ref_ns_data never meet a NULL
\* ctx->srns.
THEOREM NamespaceCorrect == Spec => []NamespaceInScope
<1>1. IInv => NamespaceInScope
  <2> SUFFICES ASSUME IInv, pc \in {"item", "append"}, NEW i \in DOMAIN stack,
                      stack[i].thi \in {"str_ref_ns", "str_ref"} \/ stack[i].thi_data # "none"
               PROVE  srns # << >>
    BY DEF NamespaceInScope
  <2>1. TypeOK /\ NamespaceInv /\ Live
    BY DEF IInv, ErrorInv, Live
  <2> QED BY <2>1, NamespaceExists DEF NeedsNamespace
<1> QED BY <1>1, Invariance, PTL

\* There is a string table for each {stringref-namespace} that is open, and
\* strings are recorded exactly inside of one: zv_str_ref_ns_child passes the
\* data handler on to all that is nested in a namespace, and to nothing else.
THEOREM BalancedCorrect == Spec => []NamespacesBalanced
<1>1. IInv => NamespacesBalanced
  <2> SUFFICES ASSUME IInv, pc \in {"item", "append"} PROVE NamespacesBalanced
    BY DEF NamespacesBalanced
  <2>1. Live /\ NamespaceInv /\ InheritInv
    BY DEF IInv, ErrorInv, Live
  <2>2. Len(srns) = Cardinality({i \in DOMAIN stack : stack[i].thi = "str_ref_ns"})
    BY <2>1 DEF NamespaceInv, OpenNamespaces
  <2>3. ASSUME NEW i \in DOMAIN stack, \A j \in 1..i : ~IsString(stack[j])
        PROVE  stack[i].thi_data # "none" <=> \E j \in 1..i : stack[j].thi = "str_ref_ns"
    BY <2>1, <2>3 DEF NamespaceInv, NeedsNamespace, InheritInv, Records
  <2> QED BY <2>2, <2>3 DEF NamespacesBalanced
<1> QED BY <1>1, Invariance, PTL

\* tag_handler_shared_ref_exit never takes a count on the NULL placeholder of
\* tag_handler_shareable_enter.
THEOREM PlaceholderCorrect == Spec => []PlaceholderNotShared
<1>1. IInv => PlaceholderNotShared
  <2> SUFFICES ASSUME IInv, AtExit("shared_ref"), val.n \in 0..(Len(refs) - 1)
               PROVE  refs[val.n + 1].k \in {"obj", "undefobj", "ref"}
    BY DEF PlaceholderNotShared
  <2>1. Live /\ Top.thi # "shareable"
    BY DEF IInv, ErrorInv, Live, AtExit, AtAppend
  <2>2. val.n + 1 \in DOMAIN refs
    BY DEF IInv, TypeOK
  <2> QED BY <2>1, <2>2, AllShared
<1> QED BY <1>1, Invariance, PTL

\* A step changes no shared value but the placeholder.
LEMMA SharedStep ==
  ASSUME IInv, StepOK, NEW i \in DOMAIN refs, refs[i].k # "null"
  PROVE  refs'[i] = refs[i]
<1>1. refs \in Seq(Value) /\ TypeOK /\ ItemInv
  BY DEF IInv, TypeOK
<1>2. CASE Stay \/ Change
  BY <1>2 DEF Stay, Change
<1>3. CASE Pop
  <2>1. CASE Live' /\ Top.thi = "shareable" /\ Top.v.k = "null"
    <3>1. refs[Top.index + 1].k = "null"
      BY <1>3, <2>1 DEF IInv, ShareInv, StepOK, Pop
    <3>2. refs' = [refs EXCEPT ![Top.index + 1] = val']
      BY <1>3, <2>1 DEF Pop
    <3> QED BY <3>1, <3>2
  <2>2. CASE ~(Live' /\ Top.thi = "shareable" /\ Top.v.k = "null")
    BY <1>3, <2>2 DEF Pop
  <2> QED BY <2>1, <2>2
<1>4. CASE Push
  <2>1. PICK item \in Item, rs \in Seq(Value), hp \in Seq(Node) : IsPush(item, rs, hp)
    BY <1>4 DEF Push
  <2>2. rs[i] = refs[i] /\ i \in DOMAIN rs
    <3>1. rs = refs \/ rs = Append(refs, Null)
      BY <2>1 DEF IsPush
    <3>2. Null \in Value
      BY ConstType
    <3> QED BY <1>1, <3>1, <3>2, AppendProperties
  <2>3. refs' = rs \/ (HasChildHandler("shareable") /\ \E v : refs' = [rs EXCEPT ![Top.index + 1] = v])
    BY <2>1, PushShape DEF IsPush
  <2>4. HasChildHandler("shareable") => refs[Top.index + 1].k = "null"
    <3>1. Live /\ pc # "append"
      BY <2>1 DEF IInv, ErrorInv, Live, IsPush
    <3>2. HasChildHandler("shareable") => stack # << >> /\ Top.thi = "shareable"
      BY <1>1, TopInv DEF HasChildHandler
    <3> QED BY <3>1, <3>2 DEF IInv, ShareInv
  <2>5. CASE i # Top.index + 1
    BY <2>2, <2>3, <2>5
  <2>6. CASE i = Top.index + 1
    BY <2>2, <2>3, <2>4, <2>6
  <2> QED BY <2>5, <2>6
<1> QED BY <1>2, <1>3, <1>4 DEF StepOK, Effect

\* The value of a {shareable} index never changes once it exists, so all
\* {sharedref}s to it have one identity.
THEOREM SharedCorrect == Spec => SharedValueStable
<1> DEFINE A == pc' # "end" => \A i \in DOMAIN refs : refs[i].k # "null" => refs'[i] = refs[i]
<1>1. IInv /\ [Next]_vars => [A]_vars
  <2> SUFFICES ASSUME IInv, Next, pc' # "end", NEW i \in DOMAIN refs, refs[i].k # "null"
               PROVE  refs'[i] = refs[i]
    OBVIOUS
  <2>1. ~Finish
    BY DEF Finish, zv_dec_finish, zv_ctx_free
  <2>2. StepOK
    BY <2>1, NextOK
  <2> QED BY <2>2, SharedStep
<1> QED BY <1>1, Invariance, PTL DEF Spec, SharedValueStable

\* What tag_handler_shareable_exit leaves in place of a {shareable} is the
\* very value that its {sharedref}s give, whatever the content and the option:
\* also where unsafe_ref meets an object, and the value that arrived is kept.
THEOREM IdentityCorrect == Spec => SharedIdentity
<1> DEFINE A == AtExit("shareable") /\ pc' = "append" => val' = refs'[Top.index + 1]
<1>1. IInv /\ [Next]_vars => [A]_vars
  <2> SUFFICES ASSUME IInv, Next, AtExit("shareable"), pc' = "append"
               PROVE  val' = refs'[Top.index + 1]
    OBVIOUS
  <2>1. /\ pc = "append" /\ stack # << >> /\ Top.si_type = "tag_handled"
        /\ Top.thi = "shareable"
    BY DEF AtExit, AtAppend
  <2>2. ShareableExitLeaf \/ ShareableExitNested
    <3>1. ZvAppend
      BY <2>1 DEF Next, Run, DecItem, ReadTruncated, Loop, SelfDescribe, Start, Resume, Finish,
                  ReadMalformed, Read, ProcUint, ProcNint, ProcString, ProcStringStart,
                  ProcArrayStart, ProcIndefArrayStart, ProcMapStart, ProcIndefMapStart,
                  TagOutOfRange, ProcTag, StrRefNsEnter, StrRefEnter, ShareableEnter,
                  SharedRefEnter, ReadTag, ProcFloatx, ProcPrimitive, ProcSimple, ProcBreak
    <3> QED BY <2>1, <3>1 DEF ZvAppend, AppendRoot, AppendToString, AppendToArray, AppendMapKey,
                  AppendMapValue, AppendToTag, StrRefNsExit, StrRefExit, SharedRefExit,
                  AtExit, AtAppend, IsString
  <2>3. TypeOK /\ ItemInv /\ refs \in Seq(Value) /\ Live
    BY <2>1 DEF IInv, TypeOK, ErrorInv, Live
  <2>4. Top.index + 1 \in DOMAIN refs
    <3>1. Top.index \in Nat /\ Top.index < Len(refs)
      BY <2>1, <2>3, TopInv DEF Item
    <3> QED BY <2>3, <3>1
  <2>5. CASE ShareableExitLeaf
    <3>1. \E v : refs' = [refs EXCEPT ![Top.index + 1] = v] /\ val' = v
      BY <2>5 DEF ShareableExitLeaf, ShareLeaf, CallAppend, Raise
    <3> QED BY <2>4, <3>1
  <2>6. CASE ShareableExitNested
    <3>1. Top.v.k # "null" /\ refs' = refs
      BY <2>6 DEF ShareableExitNested
    <3>2. \/ val' = Top.v
          \/ val' = val /\ args.shared_ref = "unsafe_ref" /\ Top.v.k # "ref"
      BY <2>6 DEF ShareableExitNested, CallAppend, Raise
    <3>3. Len(stack) \in DOMAIN stack /\ Top = stack[Len(stack)]
      BY <2>1, <2>3, TopType DEF TypeOK, Top
    <3>4. refs[Top.index + 1] = Top.v
      BY <2>1, <2>3, <3>1, <3>3 DEF IInv, IdentityInv
    <3>5. args.shared_ref = "unsafe_ref" /\ Top.v.k # "ref" => val = Top.v
      BY <2>1, <2>3, <3>1, <3>3 DEF IInv, IdentityInv
    <3> QED BY <3>1, <3>2, <3>4, <3>5
  <2> QED BY <2>2, <2>5, <2>6
<1> QED BY <1>1, Invariance, PTL DEF Spec, SharedIdentity

=============================================================================
