------------------------------ MODULE DecodeZv ------------------------------
(***************************************************************************)
(* The decoding context of decode.c with the callbacks of decode_zv.h: one  *)
(* data item at a time is read from the fragment `mem`, turned into a PHP   *)
(* value and appended to the container on top of the stack; a container     *)
(* that is complete is popped and appended to the one below.                *)
(*                                                                         *)
(* The code is one recursive descent of zv_append up the stack; each level  *)
(* of it is one step here.  pc says where the code is:                      *)
(*   start   cbor_decode_process is called (again)                          *)
(*   item    head of the loop of decode_nested, an item is to be read       *)
(*   append  zv_append(ctx, val)                                            *)
(*   loop    dec_item returned to decode_nested                             *)
(*   stop    cbor_decode_process returned `error`                           *)
(*   end     cbor_decode_finish is done and the context freed               *)
(***************************************************************************)
EXTENDS CborData

CONSTANTS
  ArgsSet,   \* the option sets a context may be created with
  Tokens,    \* the data items the input is made of
  Uint64Max, \* UINT64_MAX, scaled down
  Modes,     \* values of oneshot: TRUE is cbor_decode, FALSE Cbor\Decoder
  Lengths,   \* bound: the numbers of bytes the fragment may hold
  Explored(_),        \* bound: the data items explored with an option set
  ExploredLengths(_)  \* bound: the numbers of bytes explored with an option set

Flag == { "SELF_DESCRIBE", "BYTE", "TEXT", "INT_KEY", "KEY_BYTE", "KEY_TEXT",
          "UNSAFE_TEXT", "MAP_AS_ARRAY", "MAP_NO_DUP_KEY", "FLOAT16", "FLOAT32" }

\* shared_ref: false, OPT_TRUE, OPT_SHAREABLE, OPT_SHAREABLE_ONLY, OPT_UNSAFE_REF
SharedRefOption == {"false", "true", "shareable", "shareable_only", "unsafe_ref"}

Args == [ max_depth : Nat, max_size : Nat, flags : SUBSET Flag,
          string_ref : BOOLEAN, shared_ref : SharedRefOption ]

ASSUME ArgsAssumption == ArgsSet \subseteq Args
ASSUME TokensAssumption == Tokens \subseteq Token
ASSUME Uint64MaxAssumption == Uint64Max \in Nat /\ Uint64Max % 10 = 5
ASSUME ModesAssumption == Modes \subseteq BOOLEAN
ASSUME LengthsAssumption == Lengths \subseteq Nat

\* Tag numbers of tags.h
TagStringRefNs == 256
TagStringRef == 25
TagShareable == 28
TagSharedRef == 29
TagSelfDescribe == 55799

VARIABLES
  args,            \* ctx->args
  oneshot,         \* cbor_decode (mem.limit known) or Cbor\Decoder (limit 0)
  input,           \* data items of mem->ptr looked at so far
  pos,             \* data items consumed
  offset, length,  \* mem->offset, mem->length
  skip_self_desc,
  pc,
  error,           \* what cbor_decode_process returned
  cb_error,        \* ctx->cb_error
  read_len,        \* out->read_len of the item being processed
  val,             \* argument of the pending zv_append
  stack,           \* ctx->stack_top and below; the top is the last element
  stack_depth,     \* ctx->stack_depth
  root,            \* u.zv.root
  srns,            \* u.zv.srns: string tables, innermost namespace last
  refs,            \* u.zv.refs: values of the shareable tags seen
  heap             \* PHP arrays, objects and references created

memVars == <<args, oneshot, input, pos, offset, length, skip_self_desc, read_len>>
stackVars == <<stack, stack_depth>>
zvVars == <<root, srns, refs, heap>>
vars == <<memVars, pc, error, cb_error, val, stackVars, zvVars>>

SiType == {"byte", "text", "array", "map", "tag", "tag_handled"}
Thi == {"none", "str_ref_ns", "str_ref", "shareable", "shared_ref"}

\* stack_item_zv.  v is v.value, v.map.dest or v.tag_h.v.shareable.value.
Item == [ si_type : SiType, count : Nat, thi_data : Thi, thi_child : SUBSET Thi,
          v : Value, key : Value, extra : Nat, str : Str,
          id : Nat, thi : Thi, index : Nat ]

stack_new_item(type, cnt) ==
  [ si_type |-> type, count |-> cnt, thi_data |-> "none", thi_child |-> {},
    v |-> Undef, key |-> Undef, extra |-> 0, str |-> << >>,
    id |-> 0, thi |-> "none", index |-> 0 ]

Top == stack[Len(stack)]
Below == SubSeq(stack, 1, Len(stack) - 1)

IsString(item) == item.si_type \in {"byte", "text"}

SetTop(item) == stack' = [stack EXCEPT ![Len(stack)] = item]

\* mem->limit: cbor_decode knows where the data ends.
limit == IF oneshot THEN length ELSE 0

\* Values that live in a new heap node.
NewNode == Len(heap) + 1
Obj == Scalar("obj", NewNode)
Arr == Scalar("arr", NewNode)
Ref == Scalar("ref", NewNode)

\* ZVAL_DEREF: what a reference refers to
Deref(v) ==
  IF v.k = "ref" /\ v.n \in DOMAIN heap /\ heap[v.n].ent # << >>
  THEN heap[v.n].ent[1].v ELSE v

-----------------------------------------------------------------------------
(* How a callback ends.                                                     *)

\* RETURN_CB_ERROR: the first error is kept.
Raise(e) ==
  /\ cb_error' = IF cb_error = "none" THEN e ELSE cb_error
  /\ val' = Undef
  /\ pc' = "loop"

\* The callback is done and decode_nested goes on.
Return ==
  /\ val' = Undef
  /\ pc' = "loop"
  /\ UNCHANGED cb_error

\* The callback calls zv_append(ctx, v).
CallAppend(v) ==
  /\ val' = v
  /\ pc' = "append"
  /\ UNCHANGED cb_error

-----------------------------------------------------------------------------
(* The stack.                                                               *)

stack_pop_item ==
  /\ stack' = Below
  /\ stack_depth' = stack_depth - 1

\* Mutant: one level too many.
Bug_DepthExceeded == stack_depth > args.max_depth

DepthExceeded == stack_depth >= args.max_depth

HasChildHandler(thi) == stack # << >> /\ thi \in Top.thi_child

\* Mutant: strings of nested items are not recorded.
Bug_StrRefNsChild(item) ==
  IF HasChildHandler("str_ref_ns") /\ ~IsString(item)
  THEN [item EXCEPT !.thi_child = @ \cup {"str_ref_ns"}]
  ELSE item

\* tag_handler_str_ref_ns_child: the handlers of a namespace are inherited
\* by every nested item but the chunks of a string.
StrRefNsChild(item) ==
  IF HasChildHandler("str_ref_ns") /\ ~IsString(item)
  THEN [item EXCEPT !.thi_child = @ \cup {"str_ref_ns"}, !.thi_data = "str_ref_ns"]
  ELSE item

\* tag_handler_shareable_child: the value that {sharedref} may refer to while
\* the content is being decoded replaces the placeholder.
ShareableChild(item, rs, hp) ==
  LET share(v) ==
        /\ stack' = Append([stack EXCEPT ![Len(stack)].v = v], StrRefNsChild(item))
        /\ refs' = [rs EXCEPT ![Top.index + 1] = v]
        /\ UNCHANGED cb_error
  IN  \/ /\ item.si_type = "map" /\ item.v.k = "obj"
         /\ share(item.v)
         /\ heap' = hp
      \/ /\ ~(item.si_type = "map" /\ item.v.k = "obj")
         /\ args.shared_ref \in {"shareable", "shareable_only"}
         /\ share(Scalar("obj", Len(hp) + 1))
         /\ heap' = Append(hp, Holder("Shareable", 0, Scalar("bool", 1)))
      \/ /\ ~(item.si_type = "map" /\ item.v.k = "obj")
         /\ args.shared_ref = "unsafe_ref"
         /\ share(Scalar("ref", Len(hp) + 1))
         /\ heap' = Append(hp, Holder("reference", 0, Undef))
      \/ /\ ~(item.si_type = "map" /\ item.v.k = "obj")
         /\ args.shared_ref = "true"
         /\ cb_error' = "TAG_TYPE_SHARE_INCOMPATIBLE"
         /\ stack' = Append(stack, StrRefNsChild(item))
         /\ refs' = rs
         /\ heap' = hp

\* zv_si_push: the handlers of the item on top are told of the nested one.
zv_si_push(item, rs, hp) ==
  \/ HasChildHandler("shareable") /\ ShareableChild(item, rs, hp)
  \/ /\ ~HasChildHandler("shareable")
     /\ stack' = Append(stack, StrRefNsChild(item))
     /\ refs' = rs
     /\ heap' = hp
     /\ UNCHANGED cb_error

\* rs and hp are refs and heap with what the caller added for the item.
stack_push_item(item, rs, hp) ==
  /\ val' = Undef
  /\ pc' = "loop"
  /\ \/ /\ DepthExceeded
        /\ cb_error' = "DEPTH"
        /\ refs' = rs
        /\ heap' = hp
        /\ UNCHANGED stackVars
     \/ /\ ~DepthExceeded
        /\ stack_depth' = stack_depth + 1
        /\ zv_si_push(item, rs, hp)

zv_stack_push_xstring(si_type) ==
  stack_push_item(stack_new_item(si_type, 0), refs, heap)

zv_stack_push_counted(si_type, value, count, hp) ==
  stack_push_item([stack_new_item(si_type, count) EXCEPT !.v = value], refs, hp)

zv_stack_push_map(si_type, value, count, hp) ==
  stack_push_item([stack_new_item(si_type, count) EXCEPT !.v = value], refs, hp)

zv_stack_push_tag(tag_id) ==
  stack_push_item([stack_new_item("tag", 1) EXCEPT !.id = tag_id], refs, heap)

-----------------------------------------------------------------------------
(* zv_append, by the item on top of the stack.                              *)

AtAppend(type) == pc = "append" /\ stack # << >> /\ Top.si_type = type

\* The stack is empty: the value is the root.
AppendRoot ==
  /\ pc = "append" /\ stack = << >>
  /\ \/ IsXInt(val) /\ Raise("INT_RANGE") /\ UNCHANGED root
     \/ ~IsXInt(val) /\ root' = val /\ Return
  /\ UNCHANGED <<memVars, error, stackVars, srns, refs, heap>>

\* Only chunks may be inside of an indefinite-length string.
AppendToString ==
  /\ pc = "append" /\ stack # << >> /\ IsString(Top)
  /\ Raise("SYNTAX_INDEF_STRING_CHUNK_TYPE")
  /\ UNCHANGED <<memVars, error, stackVars, zvVars>>

\* The end of zv_append_to_array and zv_append_to_map: a definite-length
\* container that got its last element is popped and appended in turn.
CountDown(item) ==
  \/ /\ item.count = 1
     /\ stack_pop_item
     /\ CallAppend(item.v)
  \/ /\ item.count # 1
     /\ stack' = [stack EXCEPT ![Len(stack)] =
                    [item EXCEPT !.count = IF @ = 0 THEN 0 ELSE @ - 1]]
     /\ Return
     /\ UNCHANGED stack_depth

\* Indefinite-length arrays are checked against max_size on append.
ArrayIsFull(item) ==
  item.count = 0 /\ Len(heap[item.v.n].ent) >= args.max_size

AppendToArray ==
  /\ AtAppend("array")
  /\ LET ent == heap[Top.v.n].ent
     IN  \/ /\ IsXInt(val)
            /\ Raise("INT_RANGE")
            /\ UNCHANGED <<stackVars, heap>>
         \/ /\ ~IsXInt(val) /\ ArrayIsFull(Top)
            /\ Raise("UNSUPPORTED_SIZE")
            /\ UNCHANGED <<stackVars, heap>>
         \/ /\ ~IsXInt(val) /\ ~ArrayIsFull(Top)
            /\ heap' = [heap EXCEPT ![Top.v.n].ent =
                          Append(ent, [key |-> Scalar("long", Len(ent)), v |-> val])]
            /\ CountDown(Top)
  /\ UNCHANGED <<memVars, error, root, srns, refs>>

ExpectsKey(item) == item.si_type = "map" /\ item.key.k = "undef"

IsKeyType(v) ==
  v.k = "str" \/ ("INT_KEY" \in args.flags /\ (v.k = "long" \/ IsXInt(v)))

\* Indefinite-length maps are checked against max_size by the keys given.
MapIsFull(item) == item.count = 0 /\ item.extra > args.max_size

\* zv_append_to_map, key: an indefinite-length map counts the keys it was
\* given, and the type of the key is checked.
AppendMapKey ==
  /\ AtAppend("map") /\ ExpectsKey(Top)
  /\ LET item == [Top EXCEPT !.extra = IF Top.count = 0 THEN @ + 1 ELSE @]
     IN  \/ MapIsFull(item) /\ Raise("UNSUPPORTED_SIZE") /\ SetTop(item)
         \/ ~MapIsFull(item) /\ ~IsKeyType(val) /\ Raise("UNSUPPORTED_KEY_TYPE") /\ SetTop(item)
         \/ ~MapIsFull(item) /\ IsKeyType(val) /\ SetTop([item EXCEPT !.key = val]) /\ Return
  /\ UNCHANGED <<memVars, error, stack_depth, zvVars>>

\* buf[len - 1]++, on a digit
LastDigitUp(buf) ==
  LET up(b) == IF \E d \in 0..8 : b = Digit[d + 1]
               THEN Digit[(CHOOSE d \in 0..8 : b = Digit[d + 1]) + 2] ELSE b
  IN  [i \in DOMAIN buf |-> IF i = Len(buf) THEN up(buf[i]) ELSE buf[i]]

\* Mutant: the 64-bit integer that wrapped to 0 is printed.
Bug_cbor_int_to_str(value, is_negative) ==
  IF is_negative THEN <<"-">> \o Decimal((value + 1) % (Uint64Max + 1)) ELSE Decimal(value)

\* The number -1 - value is printed by value + 1, which wraps for the least
\* one: then UINT64_MAX is printed, and its last digit corrected.
cbor_int_to_str(value, is_negative) ==
  LET n_value == (value + 1) % (Uint64Max + 1)
      fix == n_value = 0
  IN  IF ~is_negative THEN Decimal(value)
      ELSE IF fix THEN LastDigitUp(<<"-">> \o Decimal(Uint64Max))
      ELSE <<"-">> \o Decimal(n_value)

\* convert_xz_xint_to_string, applied to integers beyond zend_long.
XIntToStr(key) ==
  IF IsXInt(key) THEN StrVal(cbor_int_to_str(key.n, key.k # "xuint")) ELSE key

\* The key under which the destination files the entry: property names are
\* strings, arrays are symbol tables.
DestKey(item) ==
  LET key == XIntToStr(item.key)
  IN  IF item.v.k = "arr" THEN SymtableKey(key)
      ELSE IF key.k = "long" THEN StrVal(IntToStr(key.n))
      ELSE key

IsReservedName(item) ==
  LET name == DestKey(item).s
  IN  item.v.k = "obj" /\ Len(name) >= 1 /\ name[1] = "nul"

IsDuplicateKey(item) ==
  "MAP_NO_DUP_KEY" \in args.flags /\ HasKey(heap[item.v.n].ent, DestKey(item))

\* zend_std_write_property: assigning to a property that holds a reference
\* assigns to what it refers to.
WriteProperty(node, key, v) ==
  LET ent == heap[node].ent
      held == {i \in DOMAIN ent : ent[i].key = key /\ ent[i].v.k = "ref"}
  IN  IF held = {} THEN [heap EXCEPT ![node].ent = PutEntry(ent, key, v)]
      ELSE [heap EXCEPT ![ent[CHOOSE i \in held : TRUE].v.n] = Holder("reference", 0, v)]

\* zv_append_to_map, value: the entry is stored and the key cleared.
AppendMapValue ==
  /\ AtAppend("map") /\ ~ExpectsKey(Top)
  /\ \/ /\ IsXInt(val)
        /\ Raise("INT_RANGE")
        /\ UNCHANGED <<stackVars, heap>>
     \/ /\ ~IsXInt(val) /\ IsReservedName(Top)
        /\ Raise("UNSUPPORTED_KEY_VALUE")
        /\ UNCHANGED <<stackVars, heap>>
     \/ /\ ~IsXInt(val) /\ ~IsReservedName(Top) /\ IsDuplicateKey(Top)
        /\ Raise("DUPLICATE_KEY")
        /\ UNCHANGED <<stackVars, heap>>
     \/ /\ ~IsXInt(val) /\ ~IsReservedName(Top) /\ ~IsDuplicateKey(Top)
        /\ heap' = IF Top.v.k = "obj"
                   THEN WriteProperty(Top.v.n, DestKey(Top), val)
                   ELSE [heap EXCEPT ![Top.v.n].ent = PutEntry(@, DestKey(Top), val)]
        /\ CountDown([Top EXCEPT !.key = Undef])
  /\ UNCHANGED <<memVars, error, root, srns, refs>>

\* zv_append_to_tag: the content is passed by value to Cbor\Tag's constructor.
AppendToTag ==
  /\ AtAppend("tag")
  /\ \/ /\ IsXInt(val)
        /\ Raise("INT_RANGE")
        /\ UNCHANGED <<stackVars, heap>>
     \/ /\ ~IsXInt(val)
        /\ heap' = Append(heap, Holder("Tag", Top.id, Deref(val)))
        /\ stack_pop_item
        /\ CallAppend(Obj)
  /\ UNCHANGED <<memVars, error, root, srns, refs>>

-----------------------------------------------------------------------------
(* zv_append_to_tag_handled: the item is popped, then its exit handler       *)
(* yields the value to append.                                              *)

AtExit(thi) == AtAppend("tag_handled") /\ Top.thi = thi

\* tag_handler_str_ref_ns_exit
StrRefNsExit ==
  /\ AtExit("str_ref_ns")
  /\ stack_pop_item
  /\ srns' = SubSeq(srns, 1, Len(srns) - 1)
  /\ CallAppend(val)
  /\ UNCHANGED <<memVars, error, root, refs, heap>>

\* Mutant: the object of the table is handed out, not a clone of it.
Bug_StrRefExit ==
  /\ AtExit("str_ref")
  /\ stack_pop_item
  /\ LET str_table == srns[Len(srns)]
         inRange == val.n \in 0..(Len(str_table) - 1)
     IN  \/ val.k # "long" /\ Raise("TAG_TYPE_STR_REF_NOT_INT")
         \/ val.k = "long" /\ ~inRange /\ Raise("TAG_VALUE_STR_REF_RANGE")
         \/ val.k = "long" /\ inRange /\ CallAppend(str_table[val.n + 1])
  /\ UNCHANGED <<memVars, error, zvVars>>

\* tag_handler_str_ref_exit: the string is copied, a wrapper object cloned
\* (where the table is its only holder, handing it out comes to the same).
StrRefExit ==
  /\ AtExit("str_ref")
  /\ stack_pop_item
  /\ LET str_table == srns[Len(srns)]
         inRange == val.n \in 0..(Len(str_table) - 1)
         str == str_table[val.n + 1]
     IN  \/ val.k # "long" /\ Raise("TAG_TYPE_STR_REF_NOT_INT") /\ UNCHANGED heap
         \/ val.k = "long" /\ ~inRange /\ Raise("TAG_VALUE_STR_REF_RANGE") /\ UNCHANGED heap
         \/ val.k = "long" /\ inRange /\ str.k # "obj" /\ CallAppend(str) /\ UNCHANGED heap
         \/ /\ val.k = "long" /\ inRange /\ str.k = "obj"
            /\ CallAppend(Obj)
            /\ heap' = Append(heap, heap[str.n])
  /\ UNCHANGED <<memVars, error, root, srns, refs>>

\* tag_handler_shared_ref_exit
SharedRefExit ==
  /\ AtExit("shared_ref")
  /\ stack_pop_item
  /\ LET inRange == val.n \in 0..(Len(refs) - 1)
     IN  \/ val.k # "long" /\ Raise("TAG_TYPE_SHARE_NOT_INT")
         \/ val.k = "long" /\ ~inRange /\ Raise("TAG_VALUE_SHARE_RANGE")
         \/ val.k = "long" /\ inRange /\ CallAppend(refs[val.n + 1])
  /\ UNCHANGED <<memVars, error, zvVars>>

\* Mutant: the bare content stays in place of the shared value.
Bug_ShareLeaf(v) ==
  /\ refs' = [refs EXCEPT ![Top.index + 1] = v]
  /\ CallAppend(val)

\* The shared value replaces the placeholder and is the result.
ShareLeaf(v) ==
  /\ refs' = [refs EXCEPT ![Top.index + 1] = v]
  /\ CallAppend(v)

\* tag_handler_shareable_exit when no item was pushed for the content: the
\* placeholder is replaced here.
ShareableExitLeaf ==
  /\ AtExit("shareable") /\ Top.v.k = "null"
  /\ stack_pop_item
  /\ LET bare == IsObject(val) /\ args.shared_ref # "shareable_only"
     IN  \/ /\ IsXInt(val)
            /\ Raise("INT_RANGE")
            /\ UNCHANGED <<refs, heap>>
         \/ ~IsXInt(val) /\ bare /\ ShareLeaf(val) /\ UNCHANGED heap
         \/ /\ ~IsXInt(val) /\ ~bare /\ args.shared_ref = "unsafe_ref"
            /\ ShareLeaf(Ref)
            /\ heap' = Append(heap, Holder("reference", 0, val))
         \/ /\ ~IsXInt(val) /\ ~bare /\ args.shared_ref \in {"shareable", "shareable_only"}
            /\ ShareLeaf(Obj)
            /\ heap' = Append(heap, Holder("Shareable", 0, val))
         \/ /\ ~IsXInt(val) /\ ~bare /\ args.shared_ref = "true"
            /\ Raise("TAG_TYPE_SHARE_INCOMPATIBLE")
            /\ UNCHANGED <<refs, heap>>
  /\ UNCHANGED <<memVars, error, root, srns>>

\* Mutant: the content is not stored.
Bug_UpdateValueProperty(node, v) == heap

\* zend_update_property_ex of "value" on the shared object.
UpdateValueProperty(node, v) ==
  IF heap[node].c = "Shareable"
  THEN [heap EXCEPT ![node] = Holder("Shareable", 0, v)]
  ELSE WriteProperty(node, StrVal(<<"value">>), v)

\* tag_handler_shareable_exit when the child handler made the shared value.
\* Where assert(Z_ISREF_P(real_v)) is compiled out and the value is not a
\* reference, the value is copied over the result.
ShareableExitNested ==
  /\ AtExit("shareable") /\ Top.v.k # "null"
  /\ stack_pop_item
  /\ LET real_v == Top.v
         isSelf == val.k = "ref" /\ val = real_v
     IN  \/ /\ IsXInt(val)
            /\ Raise("INT_RANGE")
            /\ UNCHANGED heap
         \/ /\ ~IsXInt(val) /\ args.shared_ref = "true"
            /\ CallAppend(real_v)
            /\ UNCHANGED heap
         \/ /\ ~IsXInt(val) /\ args.shared_ref \in {"shareable", "shareable_only"}
            /\ heap' = UpdateValueProperty(real_v.n, val)
            /\ CallAppend(real_v)
         \/ /\ ~IsXInt(val) /\ args.shared_ref = "unsafe_ref" /\ isSelf
            /\ Raise("TAG_VALUE_SHARE_SELF")
            /\ UNCHANGED heap
         \/ /\ ~IsXInt(val) /\ args.shared_ref = "unsafe_ref" /\ ~isSelf /\ real_v.k = "ref"
            /\ heap' = [heap EXCEPT ![real_v.n] = Holder("reference", 0, val)]
            /\ CallAppend(real_v)
         \/ /\ ~IsXInt(val) /\ args.shared_ref = "unsafe_ref" /\ ~isSelf /\ real_v.k # "ref"
            /\ CallAppend(val)
            /\ UNCHANGED heap
  /\ UNCHANGED <<memVars, error, root, srns, refs>>

-----------------------------------------------------------------------------
(* dec_item of decode_base.h: one data item is read and its callback runs.  *)

Alphabet == Explored(args) \cap Tokens
IsNext(tok) == pos < Len(input) => tok = input[pos + 1]
NextToken == IF pos < Len(input) THEN {input[pos + 1]} ELSE Alphabet
Seen(tok) == IF pos < Len(input) THEN input ELSE Append(input, tok)

\* The cbor_di_read_* functions: the whole item is there.
Fits(tok) == offset + tok.len <= length

Read(tok, type) ==
  /\ pc = "item" /\ offset < length
  /\ tok.t = type /\ IsNext(tok) /\ Fits(tok)
  /\ input' = Seen(tok)
  /\ read_len' = tok.len
  /\ UNCHANGED <<args, oneshot, pos, offset, length, skip_self_desc, error>>

\* zv_proc_uint32, zv_proc_uint64
ProcUint(tok) ==
  /\ Read(tok, "uint")
  /\ CallAppend(Scalar(IF tok.n > LongMax THEN "xuint" ELSE "long", tok.n))
  /\ UNCHANGED <<stackVars, zvVars>>

\* zv_proc_nint32, zv_proc_nint64: the value is -1 - n
ProcNint(tok) ==
  /\ Read(tok, "nint")
  /\ CallAppend(IF tok.n > LongMax THEN Scalar("xnint", tok.n) ELSE Scalar("long", -tok.n - 1))
  /\ UNCHANGED <<stackVars, zvVars>>

\* tag_handler_str_ref_ns_data: the string enters the innermost table.
StrRefNsData(v, str_len) ==
  LET str_table == srns[Len(srns)]
  IN  IF cbor_is_len_string_ref(str_len, Len(str_table))
      THEN [srns EXCEPT ![Len(srns)] = Append(str_table, v)]
      ELSE srns

TypeFlag(is_text) == IF is_text THEN "TEXT" ELSE "BYTE"
KeyFlag(is_text) == IF is_text THEN "KEY_TEXT" ELSE "KEY_BYTE"
StringClass(is_text) == IF is_text THEN "Text" ELSE "Byte"

\* zv_append_string_item, where st is the stack at the call.
zv_append_string_item(st, s, is_text, is_indef) ==
  LET top == st[Len(st)]
      isKey == st # << >> /\ ExpectsKey(top)
      isPlain == isKey \/ TypeFlag(is_text) \in args.flags
      v == IF isPlain THEN StrVal(s) ELSE Obj
      isData == ~is_indef /\ st # << >> /\ top.thi_data = "str_ref_ns"
  IN  \/ /\ isKey /\ KeyFlag(is_text) \notin args.flags
         /\ Raise("UNSUPPORTED_KEY_TYPE")
         /\ UNCHANGED <<srns, heap>>
      \/ /\ isKey => KeyFlag(is_text) \in args.flags
         /\ heap' = IF isPlain THEN heap
                    ELSE Append(heap, Holder(StringClass(is_text), 0, StrVal(s)))
         /\ srns' = IF isData THEN StrRefNsData(v, Len(s)) ELSE srns
         /\ CallAppend(v)

\* zv_do_xstring: a chunk of the indefinite-length string on top of the
\* stack, or a string of its own.
ProcString(tok) ==
  LET is_text == tok.t = "text"
      invalid == is_text /\ "UNSAFE_TEXT" \notin args.flags /\ ~IsUtf8(tok.s)
      isChunk == stack # << >> /\ IsString(Top)
  IN  /\ Read(tok, "bytes") \/ Read(tok, "text")
      /\ \/ /\ invalid
            /\ Raise("UTF8")
            /\ UNCHANGED <<stack, srns, heap>>
         \/ /\ ~invalid /\ isChunk /\ Top.si_type # (IF is_text THEN "text" ELSE "byte")
            /\ Raise("SYNTAX_INCONSISTENT_STRING_TYPE")
            /\ UNCHANGED <<stack, srns, heap>>
         \/ /\ ~invalid /\ isChunk /\ Top.si_type = (IF is_text THEN "text" ELSE "byte")
            /\ SetTop([Top EXCEPT !.str = @ \o tok.s])
            /\ Return
            /\ UNCHANGED <<srns, heap>>
         \/ /\ ~invalid /\ ~isChunk
            /\ zv_append_string_item(stack, tok.s, is_text, FALSE)
            /\ UNCHANGED stack
      /\ UNCHANGED <<stack_depth, root, refs>>

\* zv_proc_byte_string_start, zv_proc_text_string_start
ProcStringStart(tok) ==
  /\ Read(tok, "bytes_start") \/ Read(tok, "text_start")
  /\ zv_stack_push_xstring(IF tok.t = "text_start" THEN "text" ELSE "byte")
  /\ UNCHANGED <<root, srns>>

\* Mutant: elements that end where the data ends are taken for missing.
Bug_ExceedsLimit(n) == limit # 0 /\ offset + 1 + n >= limit

\* The check of zv_proc_array_start and zv_proc_map_start that the elements,
\* of one byte each at least, are within the data.  `n` is uint32_t.
ExceedsLimit(n) == limit # 0 /\ offset + 1 + n > limit

\* zv_proc_array_start and zv_proc_map_start up to the first early return.
StartError(tok, n) ==
  IF tok.n > args.max_size THEN "UNSUPPORTED_SIZE"
  ELSE IF ExceedsLimit(n) THEN "TRUNCATED"
  ELSE "none"

ProcArrayStart(tok) ==
  LET err == StartError(tok, tok.n)
      hp == Append(heap, Empty("array"))
  IN  /\ Read(tok, "array") /\ tok.n <= Uint32Max
      /\ \/ /\ err # "none"
            /\ Raise(err)
            /\ UNCHANGED <<stackVars, refs, heap>>
         \/ /\ err = "none" /\ tok.n > 0
            /\ zv_stack_push_counted("array", Arr, tok.n, hp)
         \/ /\ err = "none" /\ tok.n = 0
            /\ heap' = hp
            /\ CallAppend(Arr)
            /\ UNCHANGED <<stackVars, refs>>
      /\ UNCHANGED <<root, srns>>

ProcIndefArrayStart(tok) ==
  /\ Read(tok, "array_start")
  /\ zv_stack_push_counted("array", Arr, 0, Append(heap, Empty("array")))
  /\ UNCHANGED <<root, srns>>

\* CBOR_MAP_AS_ARRAY or a stdClass
MapDest == IF "MAP_AS_ARRAY" \in args.flags THEN Arr ELSE Obj
MapNode == IF "MAP_AS_ARRAY" \in args.flags THEN Empty("array") ELSE Empty("stdClass")

ProcMapStart(tok) ==
  LET err == StartError(tok, (tok.n * 2) % (Uint32Max + 1))
      hp == Append(heap, MapNode)
  IN  /\ Read(tok, "map") /\ tok.n <= Uint32Max
      /\ \/ /\ err # "none"
            /\ Raise(err)
            /\ UNCHANGED <<stackVars, refs, heap>>
         \/ /\ err = "none" /\ tok.n > 0
            /\ zv_stack_push_map("map", MapDest, tok.n, hp)
         \/ /\ err = "none" /\ tok.n = 0
            /\ heap' = hp
            /\ CallAppend(MapDest)
            /\ UNCHANGED <<stackVars, refs>>
      /\ UNCHANGED <<root, srns>>

ProcIndefMapStart(tok) ==
  /\ Read(tok, "map_start")
  /\ zv_stack_push_map("map", MapDest, 0, Append(heap, MapNode))
  /\ UNCHANGED <<root, srns>>

-----------------------------------------------------------------------------
(* Tags: zv_proc_tag and zv_do_tag_enter.                                   *)

HandledItem(tok, handler) ==
  [stack_new_item("tag_handled", 1) EXCEPT !.id = tok.n, !.thi = handler]

\* The choice of zv_do_tag_enter
Handler(n) ==
  IF n = TagStringRefNs /\ args.string_ref THEN "str_ref_ns"
  ELSE IF n = TagStringRef /\ args.string_ref THEN "str_ref"
  ELSE IF n = TagShareable /\ args.shared_ref # "false" THEN "shareable"
  ELSE IF n = TagSharedRef /\ args.shared_ref # "false" THEN "shared_ref"
  ELSE "none"

ReadTag(tok, thi) == Read(tok, "tag") /\ tok.n <= LongMax /\ Handler(tok.n) = thi

\* The tag number is beyond zend_long.
TagOutOfRange(tok) ==
  /\ Read(tok, "tag") /\ tok.n > LongMax
  /\ Raise("INT_RANGE")
  /\ UNCHANGED <<stackVars, zvVars>>

\* A tag without handler
ProcTag(tok) ==
  /\ ReadTag(tok, "none")
  /\ zv_stack_push_tag(tok.n)
  /\ UNCHANGED <<root, srns>>

\* tag_handler_str_ref_ns_enter: a new string table
StrRefNsEnter(tok) ==
  /\ ReadTag(tok, "str_ref_ns")
  /\ srns' = Append(srns, << >>)
  /\ stack_push_item([HandledItem(tok, "str_ref_ns") EXCEPT
                        !.thi_data = "str_ref_ns", !.thi_child = {"str_ref_ns"}], refs, heap)
  /\ UNCHANGED root

\* Mutant: no check for an outer namespace.
Bug_StrRefEnter(tok) ==
  /\ ReadTag(tok, "str_ref")
  /\ stack_push_item(HandledItem(tok, "str_ref"), refs, heap)
  /\ UNCHANGED <<root, srns>>

\* tag_handler_str_ref_enter: an outer namespace is expected.
StrRefEnter(tok) ==
  /\ ReadTag(tok, "str_ref")
  /\ \/ /\ srns = << >>
        /\ Raise("TAG_SYNTAX_STR_REF_NO_NS")
        /\ UNCHANGED <<stackVars, refs, heap>>
     \/ /\ srns # << >>
        /\ stack_push_item(HandledItem(tok, "str_ref"), refs, heap)
  /\ UNCHANGED <<root, srns>>

IsNestedShareable ==
  stack # << >> /\ Top.si_type = "tag_handled" /\ Top.id = TagShareable

\* Mutant: no child handler, so that nested content leaves the placeholder.
Bug_ShareableItem(tok) ==
  [HandledItem(tok, "shareable") EXCEPT !.v = Null, !.index = Len(refs)]

\* Mutant: the index is not set.
Bug_ShareableIndex(tok) ==
  [HandledItem(tok, "shareable") EXCEPT !.thi_child = {"shareable"}, !.v = Null]

\* The item of a {shareable}: its value is to come, its index the next one.
ShareableItem(tok) ==
  [HandledItem(tok, "shareable") EXCEPT
     !.thi_child = {"shareable"}, !.v = Null, !.index = Len(refs)]

\* tag_handler_shareable_enter: the next index is taken by a placeholder.
ShareableEnter(tok) ==
  /\ ReadTag(tok, "shareable")
  /\ \/ /\ IsNestedShareable
        /\ Raise("TAG_SYNTAX_SHARE_NESTED")
        /\ UNCHANGED <<stackVars, refs, heap>>
     \/ /\ ~IsNestedShareable
        /\ stack_push_item(ShareableItem(tok), Append(refs, Null), heap)
  /\ UNCHANGED <<root, srns>>

\* tag_handler_shared_ref_enter
SharedRefEnter(tok) ==
  /\ ReadTag(tok, "shared_ref")
  /\ stack_push_item(HandledItem(tok, "shared_ref"), refs, heap)
  /\ UNCHANGED <<root, srns>>

-----------------------------------------------------------------------------
(* Floats, simple values and the break.                                     *)

\* zv_do_floatx: a PHP float with the flag of the width, an object without.
ProcFloatx(tok) ==
  LET isDouble == (IF tok.t = "float16" THEN "FLOAT16" ELSE "FLOAT32") \in args.flags
      class == IF tok.t = "float16" THEN "Float16" ELSE "Float32"
  IN  /\ Read(tok, "float16") \/ Read(tok, "float32")
      /\ CallAppend(IF isDouble THEN Scalar("double", tok.n) ELSE Obj)
      /\ heap' = IF isDouble THEN heap
                 ELSE Append(heap, Holder(class, 0, Scalar("double", tok.n)))
      /\ UNCHANGED <<stackVars, root, srns, refs>>

\* zv_proc_float64, zv_proc_null, zv_proc_undefined, zv_proc_boolean
ProcPrimitive(tok) ==
  /\ \/ Read(tok, "float64") /\ CallAppend(Scalar("double", tok.n))
     \/ Read(tok, "null") /\ CallAppend(Null)
     \/ Read(tok, "undefined") /\ CallAppend(Scalar("undefobj", 0))
     \/ Read(tok, "bool") /\ CallAppend(Scalar("bool", tok.n))
  /\ UNCHANGED <<stackVars, zvVars>>

\* Simple values of two bytes that have a one-byte form are not well-formed.
IsReservedSimple(n) == n <= 31

\* zv_proc_simple
ProcSimple(tok) ==
  /\ Read(tok, "simple") \/ (Read(tok, "simple8") /\ ~IsReservedSimple(tok.n))
  /\ Raise("UNSUPPORTED_TYPE")
  /\ UNCHANGED <<stackVars, zvVars>>

\* Mutant: a break is accepted where the value of a key is due.
Bug_IsBreakable(item) == item.count = 0

\* A break closes the item on top, if that is of indefinite length and no
\* map value is due.
IsBreakable(item) ==
  item.count = 0 /\ ~(item.si_type = "map" /\ item.key.k # "undef")

\* DI_BREAK with zv_proc_indef_break
ProcBreak(tok) ==
  /\ Read(tok, "break")
  /\ \/ /\ stack = << >>
        /\ Raise("SYNTAX_BREAK_UNDERFLOW")
        /\ UNCHANGED <<stackVars, srns, heap>>
     \/ /\ stack # << >> /\ IsString(Top)
        /\ stack_pop_item
        /\ zv_append_string_item(Below, Top.str, Top.si_type = "text", TRUE)
     \/ /\ stack # << >> /\ ~IsString(Top) /\ ~IsBreakable(Top)
        /\ stack_pop_item
        /\ Raise("SYNTAX_BREAK_UNEXPECTED")
        /\ UNCHANGED <<srns, heap>>
     \/ /\ stack # << >> /\ ~IsString(Top) /\ IsBreakable(Top)
        /\ stack_pop_item
        /\ CallAppend(Top.v)
        /\ UNCHANGED <<srns, heap>>
  /\ UNCHANGED <<root, refs>>

-----------------------------------------------------------------------------
(* decode_nested and cbor_decode_process.                                   *)

\* cbor_decode_process returns e, n bytes further.
Stop(e, n) ==
  /\ error' = e
  /\ offset' = offset + n
  /\ pc' = "stop"

\* The head of an item that is no data item is rejected by dec_item itself.
ReadMalformed(tok) ==
  /\ pc = "item" /\ offset < length /\ IsNext(tok) /\ Fits(tok)
  /\ \/ tok.t = "reserved" /\ Stop("MALFORMED", 0)
     \/ tok.t = "simple8" /\ IsReservedSimple(tok.n) /\ Stop("MALFORMED", tok.len)
     \/ tok.t \in {"array", "map"} /\ tok.n > Uint32Max /\ Stop("UNSUPPORTED_SIZE", tok.len)
  /\ input' = Seen(tok)
  /\ UNCHANGED <<args, oneshot, pos, length, skip_self_desc, read_len, cb_error, val, stackVars, zvVars>>

\* The item is not there, or not all of it: nothing is consumed.
ReadTruncated ==
  /\ pc = "item"
  /\ \/ offset >= length /\ UNCHANGED input
     \/ /\ offset < length
        /\ \E tok \in NextToken : ~Fits(tok) /\ input' = Seen(tok)
  /\ Stop("TRUNCATED", 0)
  /\ UNCHANGED <<args, oneshot, pos, length, skip_self_desc, read_len, cb_error, val, stackVars, zvVars>>

\* The end of the loop body of decode_nested.
Loop ==
  /\ pc = "loop"
  /\ offset' = offset + read_len
  /\ pos' = pos + 1
  /\ read_len' = 0
  /\ pc' = IF cb_error = "none" /\ stack_depth # 0 THEN "item" ELSE "stop"
  /\ error' = cb_error
  /\ UNCHANGED <<args, oneshot, input, length, skip_self_desc, cb_error, val, stackVars, zvVars>>

\* cbor_decode_process: a leading self-describe tag is skipped once.
SelfDescribe ==
  /\ pc = "start" /\ skip_self_desc
  /\ \/ /\ offset = length
        /\ Stop("TRUNCATED", 0)
        /\ UNCHANGED <<input, pos, skip_self_desc, cb_error>>
     \/ /\ offset < length
        /\ \E tok \in NextToken :
             LET is0xd9 == tok.t = "tag" /\ tok.len = 3
                 n == IF is0xd9 /\ tok.n = TagSelfDescribe THEN 1 ELSE 0
             IN  /\ input' = Seen(tok)
                 /\ \/ /\ is0xd9 /\ length - offset < 3
                       /\ Stop("TRUNCATED", 0)
                       /\ UNCHANGED <<pos, skip_self_desc, cb_error>>
                    \/ /\ ~(is0xd9 /\ length - offset < 3)
                       /\ offset' = offset + 3 * n
                       /\ pos' = pos + n
                       /\ skip_self_desc' = FALSE
                       /\ cb_error' = "none"
                       /\ pc' = "item"
                       /\ UNCHANGED error
  /\ UNCHANGED <<args, oneshot, length, read_len, val, stackVars, zvVars>>

\* Mutant: an item that an earlier call left half-read is not gone on with.
Bug_Start ==
  /\ pc = "start" /\ ~skip_self_desc /\ stack_depth = 0
  /\ cb_error' = "none"
  /\ pc' = "item"
  /\ UNCHANGED <<memVars, error, val, stackVars, zvVars>>

\* cbor_decode_process without that check: decode_nested starts.
Start ==
  /\ pc = "start" /\ ~skip_self_desc
  /\ cb_error' = "none"
  /\ pc' = "item"
  /\ UNCHANGED <<memVars, error, val, stackVars, zvVars>>

\* Cbor\Decoder: more data was added and process() called again.
Resume ==
  /\ pc = "stop" /\ ~oneshot /\ error = "TRUNCATED"
  /\ length' \in {n \in ExploredLengths(args) \cap Lengths : n > length}
  /\ error' = "none"
  /\ pc' = "start"
  /\ UNCHANGED <<args, oneshot, input, pos, offset, skip_self_desc, read_len,
                 cb_error, val, stackVars, zvVars>>

\* The root is handed out, dereferenced.
zv_dec_finish(err) == root' = IF err = "none" THEN Deref(root) ELSE Undef

\* cbor_decode_free, with zv_si_free for the items that are left on the stack
zv_ctx_free ==
  /\ stack' = << >>
  /\ stack_depth' = 0
  /\ srns' = << >>
  /\ refs' = << >>

\* The end of cbor_decode, and decode_buffer of Cbor\Decoder: a one-shot
\* decoder wants all of the data used.
Finish ==
  /\ pc = "stop" /\ (oneshot \/ error # "TRUNCATED")
  /\ error' = IF oneshot /\ error = "none" /\ offset # length THEN "EXTRANEOUS" ELSE error
  /\ zv_dec_finish(error')
  /\ zv_ctx_free
  /\ pc' = "end"
  /\ UNCHANGED <<memVars, cb_error, val, heap>>

-----------------------------------------------------------------------------
zv_ctx_init ==
  /\ root = Undef
  /\ srns = << >>
  /\ refs = << >>
  /\ heap = << >>

\* cbor_decode_init
Init ==
  /\ args \in ArgsSet
  /\ oneshot \in Modes
  /\ input = << >>
  /\ pos = 0
  /\ offset = 0
  /\ length \in ExploredLengths(args) \cap Lengths
  /\ skip_self_desc = ("SELF_DESCRIBE" \notin args.flags)
  /\ pc = "start"
  /\ error = "none"
  /\ cb_error = "none"
  /\ read_len = 0
  /\ val = Undef
  /\ stack = << >>
  /\ stack_depth = 0
  /\ zv_ctx_init

ZvAppend ==
  \/ AppendRoot \/ AppendToString \/ AppendToArray \/ AppendMapKey \/ AppendMapValue
  \/ AppendToTag \/ StrRefNsExit \/ StrRefExit \/ SharedRefExit
  \/ ShareableExitLeaf \/ ShareableExitNested

DecItem(tok) ==
  \/ ProcUint(tok) \/ ProcNint(tok) \/ ProcString(tok) \/ ProcStringStart(tok)
  \/ ProcArrayStart(tok) \/ ProcIndefArrayStart(tok)
  \/ ProcMapStart(tok) \/ ProcIndefMapStart(tok)
  \/ TagOutOfRange(tok) \/ ProcTag(tok) \/ StrRefNsEnter(tok) \/ StrRefEnter(tok)
  \/ ShareableEnter(tok) \/ SharedRefEnter(tok)
  \/ ProcFloatx(tok) \/ ProcPrimitive(tok) \/ ProcSimple(tok) \/ ProcBreak(tok)
  \/ ReadMalformed(tok)

Run ==
  \/ SelfDescribe \/ Start
  \/ pc = "item" /\ \E tok \in Alphabet : DecItem(tok)
  \/ ReadTruncated
  \/ ZvAppend
  \/ Loop
  \/ Finish

Next == Run \/ Resume

Spec == Init /\ [][Next]_vars

\* The decoder runs on one thread to the end of the call; whether Cbor\Decoder
\* is given more data (Resume) is up to its user.
FairSpec == Spec /\ WF_vars(Run)

-----------------------------------------------------------------------------
(* Properties.                                                              *)

Errors ==
  { "none", "TRUNCATED", "MALFORMED", "EXTRANEOUS", "DEPTH", "UTF8", "INT_RANGE",
    "UNSUPPORTED_TYPE", "UNSUPPORTED_SIZE", "UNSUPPORTED_KEY_TYPE",
    "UNSUPPORTED_KEY_VALUE", "DUPLICATE_KEY", "SYNTAX_BREAK_UNDERFLOW",
    "SYNTAX_BREAK_UNEXPECTED", "SYNTAX_INCONSISTENT_STRING_TYPE",
    "SYNTAX_INDEF_STRING_CHUNK_TYPE", "TAG_SYNTAX_STR_REF_NO_NS",
    "TAG_SYNTAX_SHARE_NESTED", "TAG_TYPE_STR_REF_NOT_INT", "TAG_TYPE_SHARE_NOT_INT",
    "TAG_TYPE_SHARE_INCOMPATIBLE", "TAG_VALUE_STR_REF_RANGE",
    "TAG_VALUE_SHARE_RANGE", "TAG_VALUE_SHARE_SELF" }

\* The types of the context's fields: what a callback leaves behind is always
\* an item, a value or an error the other callbacks know.
TypeOK ==
  /\ args \in Args
  /\ oneshot \in BOOLEAN
  /\ input \in Seq(Token)
  /\ pos \in Nat
  /\ offset \in Nat
  /\ length \in Nat
  /\ skip_self_desc \in BOOLEAN
  /\ pc \in {"start", "item", "append", "loop", "stop", "end"}
  /\ error \in Errors
  /\ cb_error \in Errors
  /\ read_len \in Nat
  /\ val \in Value
  /\ stack \in Seq(Item)
  /\ stack_depth \in Int
  /\ root \in Value
  /\ srns \in Seq(Seq(Value))
  /\ refs \in Seq(Value)
  /\ heap \in Seq(Node)

\* stack_depth, which ends the loop of decode_nested and bounds nesting, is
\* the length of the linked list it counts, through every push, pop, failed
\* push and resumed call, and max_depth is never exceeded.
DepthBounded == stack_depth = Len(stack) /\ Len(stack) <= args.max_depth

\* Where ctx->srns->str_table is read (a {stringref} about to be resolved, a
\* string about to be recorded), ctx->srns is not NULL.
NamespaceInScope ==
  pc \in {"item", "append"} =>
    \A i \in DOMAIN stack :
      stack[i].thi \in {"str_ref_ns", "str_ref"} \/ stack[i].thi_data # "none" => srns # << >>

\* The tables are those of the namespaces open on the stack, and strings are
\* recorded exactly inside of a namespace (what is inside of an indefinite-
\* length string is bound to be rejected).
NamespacesBalanced ==
  pc \in {"item", "append"} =>
    /\ Len(srns) = Cardinality({i \in DOMAIN stack : stack[i].thi = "str_ref_ns"})
    /\ \A i \in DOMAIN stack :
         (\A j \in 1..i : ~IsString(stack[j])) =>
           (stack[i].thi_data # "none") =
             (\E j \in 1..i : stack[j].thi = "str_ref_ns")

\* A {sharedref} resolves to a counted value that {shareable} made, never to
\* the NULL placeholder of an index whose value does not exist yet.
PlaceholderNotShared ==
  AtExit("shared_ref") /\ val.k = "long" /\ val.n \in 0..(Len(refs) - 1) =>
    refs[val.n + 1].k \in {"obj", "undefobj", "ref"}

\* The value of a {shareable} index, once it exists, stays the same value:
\* all of its {sharedref}s give one identity.
SharedValueStable ==
  [][pc' # "end" => \A i \in DOMAIN refs : refs[i].k # "null" => refs'[i] = refs[i]]_vars

\* What a completed {shareable} leaves in its place is the very value that its
\* {sharedref}s give.
SharedIdentity ==
  [][AtExit("shareable") /\ pc' = "append" => val' = refs'[Top.index + 1]]_vars

\* A successful decode leaves no Cbor\Shareable with the `true` it is created
\* with, and no reference to nothing (no run has a `true` in its input).
SharedComplete ==
  pc = "stop" /\ error = "none" =>
    \A i \in DOMAIN heap :
      /\ heap[i].c = "Shareable" => heap[i].ent[1].v # Scalar("bool", 1)
      /\ heap[i].c = "reference" => heap[i].ent[1].v # Undef

\* Without shared references no object is in two places, the decoded value
\* among them: a string object that is referred to by {stringref} is cloned,
\* so that changing one does not change the other.
NoAliases ==
  pc = "stop" /\ error = "none" /\ args.shared_ref = "false" =>
    \A i \in DOMAIN heap : \A e \in DOMAIN heap[i].ent :
      heap[i].ent[e].v.k = "obj" =>
        /\ heap[i].ent[e].v # root
        /\ \A j \in DOMAIN heap : \A f \in DOMAIN heap[j].ent :
             <<i, e>> # <<j, f>> => heap[i].ent[e].v # heap[j].ent[f].v

\* Every call comes to a result, the first process() of a Cbor\Decoder as well
\* as any that goes on with an item which earlier calls left half-read: either
\* the context is done with, or the call says that data is missing, which
\* cbor_decode may not leave it at.
Terminates ==
  pc = "start" ~> (pc = "end" \/ (pc = "stop" /\ error = "TRUNCATED" /\ ~oneshot))

-----------------------------------------------------------------------------
(* The inductive invariant of the proofs.  A context that failed is only     *)
(* freed, so most of it is about contexts that go on.                        *)

Live == cb_error = "none" /\ pc # "end"

\* Items are processed and the context resumed only as long as there is no
\* error of a callback.
ErrorInv ==
  /\ pc \in {"start", "item", "append"} => cb_error = "none"
  /\ ~oneshot => cb_error # "TRUNCATED"
  /\ pc = "stop" /\ error = "TRUNCATED" /\ ~oneshot => cb_error = "none"

\* Which items have handlers, and the child handler and index of {shareable}.
ItemInv ==
  \A i \in DOMAIN stack :
    /\ stack[i].thi # "none" => stack[i].si_type = "tag_handled" /\ stack[i].count = 1
    /\ "shareable" \in stack[i].thi_child <=> stack[i].thi = "shareable"
    /\ stack[i].thi = "shareable" => stack[i].id = TagShareable /\ stack[i].index < Len(refs)

OpenNamespaces == {i \in DOMAIN stack : stack[i].thi = "str_ref_ns"}

NeedsNamespace(item) ==
  item.thi = "str_ref" \/ item.thi_data # "none" \/ "str_ref_ns" \in item.thi_child

\* There is a table for each namespace on the stack, and items that depend on
\* a namespace are inside of one.
NamespaceInv ==
  Live =>
    /\ Len(srns) = Cardinality(OpenNamespaces)
    /\ \A i \in DOMAIN stack :
         NeedsNamespace(stack[i]) => \E j \in 1..i : stack[j].thi = "str_ref_ns"

\* An item in a namespace records its strings and passes that on to its
\* content, unless an indefinite-length string is around it.
Records(item) == item.thi_data # "none" /\ "str_ref_ns" \in item.thi_child

InheritInv ==
  \A i \in DOMAIN stack :
    (\A j \in 1..i : ~IsString(stack[j])) /\ (\E j \in 1..i : stack[j].thi = "str_ref_ns") =>
      Records(stack[i])

\* The objects in the string tables exist.
TableInv ==
  \A t \in DOMAIN srns : \A e \in DOMAIN srns[t] :
    srns[t][e].k = "obj" => srns[t][e].n \in DOMAIN heap

\* The item on top awaits its content, which nothing has been shared for yet.
IsPlaceholder(i) ==
  stack # << >> /\ Top.thi = "shareable" /\ Top.index + 1 = i /\ Top.v.k = "null"

\* An index has its value unless it is the one of the {shareable} on top, and
\* that has none until its content is there.
ShareInv ==
  Live =>
    /\ \A i \in DOMAIN refs :
         refs[i].k \in {"obj", "undefobj", "ref"} \/ (refs[i].k = "null" /\ IsPlaceholder(i))
    /\ \A i \in 1..(Len(stack) - 1) : stack[i].thi = "shareable" => stack[i].v.k # "null"
    /\ stack # << >> /\ Top.thi = "shareable" /\ (Top.v.k = "null" \/ pc # "append") =>
         Top.v.k = "null" /\ refs[Top.index + 1].k = "null"

\* The value of an index is what its {shareable} on the stack holds.  With
\* unsafe_ref, what it holds is a reference unless its content is a map that
\* becomes an object: that map is the next item, and its object the content.
IdentityInv ==
  Live =>
    /\ \A i \in DOMAIN stack :
         stack[i].thi = "shareable" /\ stack[i].v.k # "null" =>
           refs[stack[i].index + 1] = stack[i].v
    /\ args.shared_ref = "unsafe_ref" =>
         \A i \in DOMAIN stack :
           stack[i].thi = "shareable" /\ stack[i].v.k \notin {"null", "ref"} =>
             IF i = Len(stack) THEN val = stack[i].v
             ELSE stack[i + 1].si_type = "map" /\ stack[i + 1].v = stack[i].v

IInv ==
  /\ TypeOK
  /\ DepthBounded
  /\ ErrorInv
  /\ ItemInv
  /\ NamespaceInv
  /\ InheritInv
  /\ TableInv
  /\ ShareInv
  /\ IdentityInv

-----------------------------------------------------------------------------
(* ... and the part of it that is about the heap.                            *)

HasNode(v) == v.k \in {"arr", "obj"}

\* A value's node exists, and is a reference for ZVAL_DEREF.
GoodValue(v, hp) ==
  /\ HasNode(v) \/ v.k = "ref" => v.n \in DOMAIN hp
  /\ v.k = "ref" => hp[v.n].c = "reference"

\* String objects hold strings; objects that only some options make.
GoodNode(node, hp, shared_ref) ==
  /\ \A e \in DOMAIN node.ent : GoodValue(node.ent[e].v, hp)
  /\ node.c \in {"Byte", "Text"} => \A e \in DOMAIN node.ent : node.ent[e].v.k = "str"
  /\ node.c = "Shareable" => shared_ref \in {"shareable", "shareable_only"}
  /\ node.c = "reference" => shared_ref = "unsafe_ref"

\* What an item holds: its array or map, and the value of a {shareable}.
GoodItem(item, hp, shared_ref) ==
  /\ item.si_type \in {"array", "map"} =>
       /\ HasNode(item.v) /\ item.v.n \in DOMAIN hp
       /\ hp[item.v.n].c = IF item.v.k = "obj" THEN "stdClass" ELSE "array"
  /\ item.si_type \in {"tag", "tag_handled"} => item.count = 1
  /\ item.thi \in {"shareable", "shared_ref"} => shared_ref # "false"
  /\ item.thi = "shareable" =>
       /\ item.v.k \in {"null", "obj", "ref"} /\ GoodValue(item.v, hp)
       /\ item.v.k = "obj" => hp[item.v.n].c \in {"Shareable", "stdClass"}
       /\ item.v.k = "null" => item.v = Null
  /\ item.si_type \notin {"array", "map"} /\ item.thi # "shareable" => item.v = Undef

\* An entry of a string table: a string or a string object
GoodString(v, hp) ==
  v.k = "str" \/ (v.k = "obj" /\ v.n \in DOMAIN hp /\ hp[v.n].c \in {"Byte", "Text"})

\* Every value that a context can still give out is whole.
GoodHeap ==
  Live =>
    /\ GoodValue(val, heap) /\ GoodValue(root, heap)
    /\ \A i \in DOMAIN stack : GoodItem(stack[i], heap, args.shared_ref)
    /\ \A t \in DOMAIN srns : \A e \in DOMAIN srns[t] : GoodString(srns[t][e], heap)
    /\ \A i \in DOMAIN refs : GoodValue(refs[i], heap)
    /\ \A i \in DOMAIN heap : GoodNode(heap[i], heap, args.shared_ref)

\* A context that stops without error is done.
StopInv == pc = "stop" /\ error = "none" => Live /\ stack = << >>

\* The places that hold a node: the argument of zv_append, the root, the items
\* of the stack and the entries of the other nodes.
Place(st, hp) ==
  {<<0, 0>>, <<1, 0>>} \cup { <<2, i>> : i \in DOMAIN st }
  \cup UNION { { <<3, i, e>> : e \in DOMAIN hp[i].ent } : i \in DOMAIN hp }
ValueAt(p, v, rt, st, hp) ==
  IF p[1] = 0 THEN v ELSE IF p[1] = 1 THEN rt ELSE IF p[1] = 2 THEN st[p[2]].v ELSE hp[p[2]].ent[p[3]].v

\* No node is in two places.
OneHolder(v, rt, st, hp) ==
  \A p, q \in Place(st, hp) :
    LET a == ValueAt(p, v, rt, st, hp)
        b == ValueAt(q, v, rt, st, hp)
    IN  HasNode(a) /\ HasNode(b) /\ a.n = b.n => p = q

\* The keys of a map are distinct.
DistinctKeys(ent) == \A e, f \in DOMAIN ent : ent[e].key = ent[f].key => e = f

HolderInv ==
  Live /\ args.shared_ref = "false" =>
    /\ OneHolder(val, root, stack, heap)
    /\ \A i \in DOMAIN stack : stack[i].si_type = "map" => DistinctKeys(heap[stack[i].v.n].ent)

\* What is still to be filled is the value of a {shareable} that is open.
Unfilled(node) ==
  \/ node.c = "Shareable" /\ node.ent[1].v = Scalar("bool", 1)
  \/ node.c = "reference" /\ node.ent[1].v = Undef

\* No value is `true`.
NoTrue == \A tok \in Tokens : ~(tok.t = "bool" /\ tok.n = 1)

FillInv ==
  Live =>
    /\ pc = "append" => val # Undef /\ val # Scalar("bool", 1)
    /\ \A i \in DOMAIN heap : Unfilled(heap[i]) =>
         \E s \in DOMAIN stack : stack[s].thi = "shareable" /\ stack[s].v.k # "null" /\ stack[s].v.n = i

HeapInv == GoodHeap /\ StopInv /\ HolderInv /\ FillInv

=============================================================================
