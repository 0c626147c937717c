------------------------------ MODULE EncodeZv ------------------------------
(***************************************************************************)
(* cbor_encode: the walk of encode.c over a PHP value, which writes the     *)
(* data items of its CBOR representation.                                   *)
(*                                                                         *)
(* The code is a recursion of enc_zval through one function for each kind   *)
(* of container; here the calls are frames of `stack`.  pc says where the   *)
(* code is:                                                                 *)
(*   start   PHP called cbor_encode                                         *)
(*   call    enc_zval(ctx, val) is called                                   *)
(*   type    the switch of enc_zval, label RETRY                            *)
(*   ret     the frame on top goes on: it was just entered, or what it      *)
(*           called returned `error`                                        *)
(*   end     cbor_encode returned                                           *)
(* The steps between two of these are those during which user code may run *)
(* or another value is reached.                                             *)
(***************************************************************************)
EXTENDS DiEncoder, IntString, Options

CONSTANTS
  Calls,   \* the calls: value graph, root, flags and options
  Addr,    \* bound: the addresses of arrays, objects and references
  Fresh    \* the objects a cborSerialize method may create

\* Addresses are not 0, which stands for a value that has none.
ASSUME AddrAssumption == Addr \subseteq Nat \ {0}

Flag == { "SELF_DESCRIBE", "BYTE", "TEXT", "INT_KEY", "KEY_BYTE", "KEY_TEXT",
          "UNSAFE_TEXT", "MAP_NO_DUP_KEY", "FLOAT16", "FLOAT32", "CDE" }

Args == [ u_flags : SUBSET Flag, e_flags : SUBSET Flag, max_depth : Nat,
          string_ref : {"false", "true", "explicit"},
          shared_ref : {"false", "true", "unsafe_ref"}, ext : SUBSET ExtOption ]

\* A heap node: arrays, references and objects.  num is the tag number of a
\* Cbor\Tag, the value of count() of a Countable (-2: it is none) and 1 for a
\* negative bignum or decimal; rc the reference count; par the parameters of
\* an EncodeParams, where `bad` names those of a wrong type.
SrcClass == { "array", "stdClass", "Byte", "Text", "Float16", "Float32", "Tag", "Shareable",
              "EncodeParams", "Serializable", "Traversable", "DateTime", "GMP", "Decimal",
              "Uri", "reference", "other" }
Params == [ clear : SUBSET Flag, set : SUBSET Flag, on : SUBSET ExtOption, off : SUBSET ExtOption,
            bad : SUBSET {"flags_clear", "flags", "options"} ]
SrcNode == [c : SrcClass, num : Int, ent : Seq(Entry), rc : Nat, par : Params]

VARIABLES
  call,            \* what PHP called cbor_encode with
  pc,
  error,           \* what the last function returned
  exception,       \* EG(exception)
  val, is_ref,     \* argument and local variable of enc_zval
  stack,           \* the functions that called enc_zval, the innermost last
  args,            \* ctx->args
  cur_depth, in_enc_params,
  buf,             \* *ctx->buf
  srns,            \* ctx->srns: whether there is one, and its strings
  refs,            \* ctx->refs: addresses in the order of their indices
  ref_lock,        \* ctx->ref_lock
  protected,       \* the values with GC_PROTECTED set
  heap             \* PHP arrays, objects and references by address

ctxVars == <<args, cur_depth, in_enc_params, srns, refs, ref_lock>>
vars == <<call, pc, error, exception, val, is_ref, stack, ctxVars, buf, protected, heap>>

\* A frame: the function (for enc_traversable, where it is), the value, the
\* entries done and its local variables: cde_ht or keys_ht, out_buf,
\* saved_args, orig_srns and count.  flag is may_be_shared, new_srns, whether
\* there is a keys_ht, or for enc_cde_map whether enc_hash called it.
FrameType == {"hash", "cde_map", "tag", "shareable", "serializable", "encodeparams",
              "count", "rewind", "next", "key", "forward", "traversed"}

Bucket == [key : Seq(Token), v : Value]
Error == { "none", "INVALID_FLAGS", "INVALID_OPTIONS", "DEPTH", "RECURSION", "SYNTAX", "UTF8",
           "UNSUPPORTED_TYPE", "UNSUPPORTED_SIZE", "UNSUPPORTED_VALUE", "DUPLICATE_KEY", "EXTRANEOUS", "TRUNCATED",
           "TAG_SYNTAX", "TAG_TYPE", "TAG_VALUE", "INTERNAL", "EXCEPTION" }
Srns == [on : BOOLEAN, tab : Seq([text : BOOLEAN, s : Str])]
Frame == [ f : FrameType, n : Nat, i : Nat, ht : Seq(Bucket), out : Seq(Token),
           args : Args, srns : Srns, count : Int, flag : BOOLEAN ]

NoSrns == [on |-> FALSE, tab |-> << >>]
NewSrns == [on |-> TRUE, tab |-> << >>]

NewFrame(type, node) ==
  [ f |-> type, n |-> node, i |-> 0, ht |-> << >>, out |-> << >>,
    args |-> args, srns |-> srns, count |-> -1, flag |-> FALSE ]

Top == stack[Len(stack)]
Below == SubSeq(stack, 1, Len(stack) - 1)

TagStringRefNs == 256
TagStringRef == 25
TagShareable == 28
TagSharedRef == 29
TagSelfDescribe == 55799

Has(flag) == flag \in args.e_flags

-----------------------------------------------------------------------------
(* Calls and returns.                                                       *)

\* The label ENCODED of enc_zval: the caller goes on with e.
Encoded(e) ==
  /\ error' = e
  /\ pc' = "ret"
  /\ cur_depth' = cur_depth - 1

\* The function of the frame on top returns e to enc_zval, which returns it.
Leave(e) == stack' = Below /\ Encoded(e)

\* The function on top, as frame, calls enc_zval(v).
CallZval(frames, v) ==
  /\ stack' = frames
  /\ val' = v
  /\ error' = "none"
  /\ pc' = "call"
  /\ UNCHANGED cur_depth

\* The function on top goes on.
GoOn(frames) ==
  /\ stack' = frames
  /\ error' = "none"
  /\ pc' = "ret"
  /\ UNCHANGED cur_depth

\* enc_zval, up to the switch.  An error leaves cur_depth as it is.
EncZval ==
  /\ pc = "call"
  /\ cur_depth' = cur_depth + 1
  /\ is_ref' = FALSE
  /\ \/ cur_depth > args.max_depth /\ error' = "DEPTH" /\ pc' = "ret"
     \/ cur_depth <= args.max_depth /\ pc' = "type" /\ UNCHANGED error
  /\ UNCHANGED <<call, exception, val, stack, args, in_enc_params, srns, refs, ref_lock,
                 buf, protected, heap>>

\* The switch of enc_zval is at an object of a class.
AtObject(class) == pc = "type" /\ val.k = "obj" /\ heap[val.n].c = class
Content == heap[val.n].ent[1].v

-----------------------------------------------------------------------------
(* Scalars and strings.                                                     *)

\* What a float is, is not looked at; the size that holds it exactly is.
FpSize(n) == CASE n % 3 = 0 -> 2 [] n % 3 = 1 -> 4 [] OTHER -> 8
\* ... and what is left of it in a smaller size.
Narrow(n, size) == IF FpSize(n) <= size THEN n ELSE n - (n % 3)

\* enc_z_double
enc_z_double(n) ==
  LET size == IF Has("FLOAT16") /\ Has("FLOAT32") THEN FpSize(n)
              ELSE IF Has("FLOAT16") THEN 2
              ELSE IF Has("FLOAT32") THEN 4
              ELSE 8
  IN  WriteFloat(size, Narrow(n, size))

ScalarItem(v) ==
  CASE v.k = "null" -> WriteSimple("null", 0)
    [] v.k = "bool" -> WriteSimple("bool", v.n)
    [] v.k = "long" -> WriteLong(v.n)
    [] v.k = "double" -> enc_z_double(v.n)
    [] v.k = "undefobj" -> WriteSimple("undefined", 0)

EncScalar ==
  /\ pc = "type" /\ val.k \in {"null", "bool", "long", "double", "undefobj"}
  /\ buf' = Append(buf, ScalarItem(val))
  /\ Encoded("none")
  /\ UNCHANGED <<call, exception, val, is_ref, stack, args, in_enc_params, srns, refs, ref_lock,
                 protected, heap>>

\* enc_typed_floatx: Cbor\Float16 and Cbor\Float32 keep their size, unless
\* the encoding is to be deterministic.
EncFloatx ==
  /\ AtObject("Float16") \/ AtObject("Float32")
  /\ LET size == IF heap[val.n].c = "Float16" \/ (Has("CDE") /\ FpSize(Content.n) = 2) THEN 2 ELSE 4
     IN  buf' = Append(buf, WriteFloat(size, Content.n))
  /\ Encoded("none")
  /\ UNCHANGED <<call, exception, val, is_ref, stack, args, in_enc_params, srns, refs, ref_lock,
                 protected, heap>>

\* What enc_string returns, writes and makes of ctx->srns.
StringResult(e, toks, tables) == [error |-> e, toks |-> toks, srns |-> tables]

\* The entry of a string in the table of its type.
TableEntry(s, to_text) == [text |-> to_text, s |-> s]

\* enc_string, enc_string_len and enc_string_ref
enc_string(s, to_text) ==
  LET found == {i \in DOMAIN srns.tab : srns.tab[i] = TableEntry(s, to_text)}
      isNew == srns.on /\ cbor_is_len_string_ref(Len(s), Len(srns.tab))
      tables == IF isNew THEN [srns EXCEPT !.tab = Append(@, TableEntry(s, to_text))] ELSE srns
  IN  IF srns.on /\ found # {}
      THEN StringResult("none", <<WriteInt("tag", TagStringRef),
                                  WriteInt("uint", (CHOOSE i \in found : TRUE) - 1)>>, srns)
      ELSE IF isNew /\ Len(srns.tab) = Uint32Max THEN StringResult("INTERNAL", << >>, srns)
      ELSE IF to_text /\ ~Has("UNSAFE_TEXT") /\ ~IsUtf8(s) THEN StringResult("UTF8", << >>, tables)
      ELSE StringResult("none", <<WriteString(to_text, s)>>, tables)

\* enc_string as the last call of a function, after the items of `before`
EncString(before, s, to_text) ==
  LET r == enc_string(s, to_text)
  IN  /\ buf' = buf \o before \o r.toks
      /\ srns' = r.srns
      /\ Encoded(r.error)

EncStr ==
  /\ pc = "type" /\ val.k = "str"
  /\ \/ ~(Has("BYTE") \/ Has("TEXT")) /\ Encoded("INVALID_FLAGS") /\ UNCHANGED <<buf, srns>>
     \/ (Has("BYTE") \/ Has("TEXT")) /\ EncString(<< >>, val.s, Has("TEXT"))
  /\ UNCHANGED <<call, exception, val, is_ref, stack, args, in_enc_params, refs, ref_lock,
                 protected, heap>>

\* enc_typed_byte, enc_typed_text
EncXString ==
  /\ \/ AtObject("Byte") /\ EncString(<< >>, Content.s, FALSE)
     \/ AtObject("Text") /\ EncString(<< >>, Content.s, TRUE)
  /\ UNCHANGED <<call, exception, val, is_ref, stack, args, in_enc_params, refs, ref_lock,
                 protected, heap>>

-----------------------------------------------------------------------------
(* Shared values.                                                           *)

Indices(a) == {i \in DOMAIN refs : refs[i] = a}

\* {sharedref} and the index of a value that was written before
SharedRefItems(a) ==
  <<WriteInt("tag", TagSharedRef), WriteInt("uint", (CHOOSE i \in Indices(a) : TRUE) - 1)>>

AddRef(hp, a) == [hp EXCEPT ![a].rc = @ + 1]

\* Mutant: the value is not kept alive.
Bug_Lock(a) == ref_lock' = ref_lock /\ heap' = heap

\* ctx->ref_lock owns the value.
Lock(a) == ref_lock' = Append(ref_lock, a) /\ heap' = AddRef(heap, a)

\* enc_ref_counted of a value that is new: it gets the next index.
NewShareable(a) == refs' = Append(refs, a) /\ Lock(a)

\* Mutant: the reference is not followed.
Bug_Deref(v) == v

\* ZVAL_DEREF
Deref(v) == heap[v.n].ent[1].v

\* A reference is shared only with the option 'unsafe_ref', and never when it
\* refers to an object; then what it refers to is encoded.
EncReference ==
  /\ pc = "type" /\ val.k = "ref"
  /\ LET shared == args.shared_ref = "unsafe_ref" /\ ~IsObject(Content)
         deref == val' = Deref(val) /\ is_ref' = TRUE /\ UNCHANGED <<pc, error, cur_depth>>
     IN  \/ /\ shared /\ Indices(val.n) # {}
            /\ buf' = buf \o SharedRefItems(val.n)
            /\ Encoded("none")
            /\ UNCHANGED <<val, is_ref, refs, ref_lock, heap>>
         \/ /\ shared /\ Indices(val.n) = {}
            /\ NewShareable(val.n)
            /\ buf' = Append(buf, WriteInt("tag", TagShareable))
            /\ deref
         \/ /\ ~shared
            /\ deref
            /\ UNCHANGED <<buf, refs, ref_lock, heap>>
  /\ UNCHANGED <<call, exception, stack, args, in_enc_params, srns, protected>>

\* enc_shareable: Cbor\Shareable is written with its tag, whatever the option.
EncShareable ==
  /\ AtObject("Shareable")
  /\ \/ Has("CDE") /\ Encoded("INTERNAL") /\ UNCHANGED <<val, stack, buf, refs, ref_lock, heap>>
     \/ /\ ~Has("CDE") /\ Indices(val.n) # {}
        /\ buf' = buf \o SharedRefItems(val.n)
        /\ Encoded("none")
        /\ UNCHANGED <<val, stack, refs, ref_lock, heap>>
     \/ /\ ~Has("CDE") /\ Indices(val.n) = {}
        /\ NewShareable(val.n)
        /\ buf' = Append(buf, WriteInt("tag", TagShareable))
        /\ LET nested == Content.k = "obj" /\ heap[Content.n].c = "Shareable"
           IN  \/ nested /\ Encoded("TAG_VALUE") /\ UNCHANGED <<val, stack>>
               \/ ~nested /\ CallZval(Append(stack, NewFrame("shareable", val.n)), Content)
  /\ UNCHANGED <<call, exception, is_ref, args, in_enc_params, srns, protected>>

ShareableDone ==
  /\ pc = "ret" /\ stack # << >> /\ Top.f = "shareable"
  /\ Leave(error)
  /\ UNCHANGED <<call, exception, val, is_ref, args, in_enc_params, srns, refs, ref_lock,
                 buf, protected, heap>>

-----------------------------------------------------------------------------
(* Arrays and stdClass: enc_hash and enc_cde_map.                           *)

\* zend_array_is_list
IsList(ent) == \A i \in DOMAIN ent : ent[i].key = Scalar("long", i - 1)

\* The length is written before the entries are, unless they are to be sorted.
InKeyOrder(node) == Has("CDE") /\ ~(node.c = "array" /\ IsList(node.ent))
HashHead(node) ==
  IF node.c = "array" /\ IsList(node.ent) THEN WriteInt("array", Len(node.ent))
  ELSE WriteInt("map", Len(node.ent))

\* Mutant: a value is left marked when it has no entries.
Bug_EnterHash(before) ==
  LET node == heap[val.n]
  IN  \/ val.n \in protected /\ Encoded("RECURSION") /\ buf' = buf \o before /\ UNCHANGED <<stack, protected>>
      \/ /\ val.n \notin protected
         /\ protected' = protected \cup {val.n}
         /\ \/ node.ent = << >> /\ Encoded("none") /\ UNCHANGED stack
            \/ node.ent # << >> /\ GoOn(Append(stack, NewFrame("hash", val.n)))
         /\ buf' = buf \o before \o (IF node.ent # << >> /\ InKeyOrder(node) THEN << >> ELSE <<HashHead(node)>>)

\* enc_hash, up to the loop
EnterHash(before) ==
  LET node == heap[val.n]
  IN  \/ /\ val.n \in protected
         /\ buf' = buf \o before
         /\ Encoded("RECURSION")
         /\ UNCHANGED <<stack, protected>>
      \/ /\ val.n \notin protected /\ node.ent = << >>
         /\ buf' = buf \o Append(before, HashHead(node))
         /\ Encoded("none")
         /\ UNCHANGED <<stack, protected>>
      \/ /\ val.n \notin protected /\ node.ent # << >>
         /\ buf' = buf \o before \o (IF InKeyOrder(node) THEN << >> ELSE <<HashHead(node)>>)
         /\ protected' = protected \cup {val.n}
         /\ GoOn(Append(stack, NewFrame("hash", val.n)))

EncArray ==
  /\ pc = "type" /\ val.k = "arr"
  /\ EnterHash(<< >>)
  /\ UNCHANGED <<call, exception, val, is_ref, args, in_enc_params, srns, refs, ref_lock, heap>>

\* Mutant: an object below a shared EncodeParams is taken for a new one.
Bug_MayBeShared(node) == args.shared_ref # "false" /\ (node.rc > 1 \/ is_ref)

\* Somebody else may hold the object, or hold what holds it.
MayBeShared(node) == args.shared_ref # "false" /\ (node.rc > 1 \/ is_ref \/ in_enc_params > 0)

EncStdClass ==
  /\ AtObject("stdClass")
  /\ LET shared == MayBeShared(heap[val.n])
     IN  \/ /\ shared /\ Indices(val.n) # {}
            /\ buf' = buf \o SharedRefItems(val.n)
            /\ Encoded("none")
            /\ UNCHANGED <<stack, refs, ref_lock, protected, heap>>
         \/ /\ shared /\ Indices(val.n) = {}
            /\ NewShareable(val.n)
            /\ EnterHash(<<WriteInt("tag", TagShareable)>>)
         \/ /\ ~shared
            /\ EnterHash(<< >>)
            /\ UNCHANGED <<refs, ref_lock, heap>>
  /\ UNCHANGED <<call, exception, val, is_ref, args, in_enc_params, srns>>

\* The key of an entry: an integer, or a string of the type of the flags.
EncKey(key) ==
  LET int == convert_string_to_int(key.s)
      str == IF key.k = "str" THEN key.s ELSE IntToStr(key.n)
  IN  IF Has("INT_KEY") /\ key.k = "long" THEN StringResult("none", <<WriteLong(key.n)>>, srns)
      ELSE IF Has("INT_KEY") /\ int.ok
      THEN StringResult("none", <<WriteInt(IF int.is_negative THEN "nint" ELSE "uint", int.value)>>, srns)
      ELSE IF ~(Has("KEY_BYTE") \/ Has("KEY_TEXT")) THEN StringResult("INVALID_FLAGS", << >>, srns)
      ELSE enc_string(str, Has("KEY_TEXT"))

AtHash == pc = "ret" /\ stack # << >> /\ Top.f = "hash"

\* One round of the loop over the entries: a key that is to be sorted is kept
\* with its value.
HashNext ==
  /\ AtHash /\ error = "none" /\ Top.i < Len(heap[Top.n].ent)
  /\ LET node == heap[Top.n]
         e == node.ent[Top.i + 1]
         k == IF node.c = "array" /\ IsList(node.ent) THEN StringResult("none", << >>, srns)
              ELSE EncKey(e.key)
         next == [Top EXCEPT !.i = @ + 1]
     IN  /\ srns' = k.srns
         /\ \/ /\ k.error # "none"
               /\ protected' = protected \ {Top.n}
               /\ Leave(k.error)
               /\ UNCHANGED <<val, buf>>
            \/ /\ k.error = "none" /\ InKeyOrder(node)
               /\ GoOn(Append(Below, [next EXCEPT !.ht = Append(@, [key |-> k.toks, v |-> e.v])]))
               /\ UNCHANGED <<val, buf, protected>>
            \/ /\ k.error = "none" /\ ~InKeyOrder(node)
               /\ buf' = buf \o k.toks
               /\ CallZval(Append(Below, next), e.v)
               /\ UNCHANGED protected
  /\ UNCHANGED <<call, exception, is_ref, args, in_enc_params, refs, ref_lock, heap>>

\* Mutant: the order of the entries is that of the array.
Bug_SortByKey(ht) == {ht}

\* zend_hash_sort with bucket_cmp_key_cde: the entries in the order of their
\* keys, which is one sequence if the keys are distinct.
SortByKey(ht) ==
  LET before(i, j) == Less(Bytes(ht[i].key), Bytes(ht[j].key))
      orders == { p \in [DOMAIN ht -> DOMAIN ht] :
                    \A m, n \in DOMAIN ht : m < n => p[m] # p[n] /\ ~before(p[n], p[m]) }
  IN  { [n \in DOMAIN ht |-> ht[p[n]]] : p \in orders }

\* enc_cde_map, up to the loop
CdeFrame(node, sorted, from_hash) ==
  [NewFrame("cde_map", node) EXCEPT !.ht = sorted, !.flag = from_hash]

\* The end of enc_hash; the mark is off when sorted entries are encoded.
HashDone ==
  /\ AtHash /\ (error # "none" \/ Top.i = Len(heap[Top.n].ent))
  /\ protected' = protected \ {Top.n}
  /\ \/ /\ error = "none" /\ InKeyOrder(heap[Top.n])
        /\ buf' = Append(buf, WriteInt("map", Len(Top.ht)))
        /\ \E sorted \in SortByKey(Top.ht) : GoOn(Append(Below, CdeFrame(Top.n, sorted, TRUE)))
     \/ /\ ~(error = "none" /\ InKeyOrder(heap[Top.n]))
        /\ Leave(error)
        /\ UNCHANGED buf
  /\ UNCHANGED <<call, exception, val, is_ref, args, in_enc_params, srns, refs, ref_lock, heap>>

AtCdeMap == pc = "ret" /\ stack # << >> /\ Top.f = "cde_map"

CdeMapNext ==
  /\ AtCdeMap /\ error = "none" /\ Top.i < Len(Top.ht)
  /\ buf' = buf \o Top.ht[Top.i + 1].key
  /\ CallZval(Append(Below, [Top EXCEPT !.i = @ + 1]), Top.ht[Top.i + 1].v)
  /\ UNCHANGED <<call, exception, is_ref, args, in_enc_params, srns, refs, ref_lock, protected, heap>>

\* ... and its end, which is that of enc_hash too if that called it.
CdeMapDone ==
  /\ AtCdeMap /\ (error # "none" \/ Top.i = Len(Top.ht))
  /\ \/ Top.flag /\ Leave(error)
     \/ ~Top.flag /\ stack' = Below /\ UNCHANGED <<error, pc, cur_depth>>
  /\ UNCHANGED <<call, exception, val, is_ref, args, in_enc_params, srns, refs, ref_lock,
                 buf, protected, heap>>

-----------------------------------------------------------------------------
(* Cbor\Tag and Cbor\EncodeParams.                                          *)

\* What enc_tag checks of the number and of the content of {stringref}.
TagError(node) ==
  LET content == node.ent[1].v
      isRef == node.num = TagStringRef /\ args.string_ref # "false"
  IN  IF node.num < 0 THEN "SYNTAX"
      ELSE IF isRef /\ content.k # "long" THEN "TAG_TYPE"
      ELSE IF isRef /\ ~srns.on THEN "TAG_SYNTAX"
      ELSE IF isRef /\ content.n \notin 0..(Len(srns.tab) - 1) THEN "TAG_VALUE"
      ELSE "none"

EncTag ==
  /\ AtObject("Tag")
  /\ LET node == heap[val.n]
         isNs == node.num = TagStringRefNs /\ args.string_ref # "false"
     IN  /\ buf' = IF node.num < 0 THEN buf ELSE Append(buf, WriteInt("tag", node.num))
         /\ \/ TagError(node) # "none" /\ Encoded(TagError(node)) /\ UNCHANGED <<val, stack, srns>>
            \/ /\ TagError(node) = "none"
               /\ srns' = IF isNs THEN NewSrns ELSE srns
               /\ CallZval(Append(stack, [NewFrame("tag", val.n) EXCEPT !.flag = isNs]), Content)
  /\ UNCHANGED <<call, exception, is_ref, args, in_enc_params, refs, ref_lock, protected, heap>>

\* The namespace of the tag ends with its content.
RestoreSrns(frame) == IF frame.flag THEN frame.srns ELSE srns

TagDone ==
  /\ pc = "ret" /\ stack # << >> /\ Top.f = "tag"
  /\ srns' = RestoreSrns(Top)
  /\ Leave(error)
  /\ UNCHANGED <<call, exception, val, is_ref, args, in_enc_params, refs, ref_lock,
                 buf, protected, heap>>

\* The flags that a flag given to EncodeParams switches off
MutexFlags(set) ==
  (IF "BYTE" \in set THEN {"TEXT"} ELSE IF "TEXT" \in set THEN {"BYTE"} ELSE {}) \cup
  (IF "KEY_BYTE" \in set THEN {"KEY_TEXT"} ELSE IF "KEY_TEXT" \in set THEN {"KEY_BYTE"} ELSE {})

\* Mutant: what depends on the context is not checked.
Bug_CheckParams(a) ==
  IF {"BYTE", "TEXT"} \subseteq a.u_flags \/ {"KEY_BYTE", "KEY_TEXT"} \subseteq a.u_flags THEN Invalid(a)
  ELSE Set([a EXCEPT !.e_flags = a.u_flags \cup
              (IF "CDE" \in a.u_flags THEN {"FLOAT16", "FLOAT32", "MAP_NO_DUP_KEY"} ELSE {})])

\* cbor_check_encode_params
CheckParams(a) ==
  IF {"BYTE", "TEXT"} \subseteq a.u_flags \/ {"KEY_BYTE", "KEY_TEXT"} \subseteq a.u_flags THEN Invalid(a)
  ELSE IF "CDE" \in a.u_flags /\ (a.string_ref # "false" \/ a.shared_ref # "false") THEN Invalid(a)
  ELSE Set([a EXCEPT !.e_flags = a.u_flags \cup
              (IF "CDE" \in a.u_flags THEN {"FLOAT16", "FLOAT32", "MAP_NO_DUP_KEY"} ELSE {})])

\* The flags and options in effect below an EncodeParams
OverriddenArgs(par) ==
  [args EXCEPT !.u_flags = ((@ \ par.clear) \ MutexFlags(par.set)) \cup par.set,
               !.ext = (@ \cup par.on) \ par.off]

ParamsError(par) ==
  IF val.n \in protected THEN "RECURSION"
  ELSE IF "flags_clear" \in par.bad \/ "CDE" \in par.clear \/ "flags" \in par.bad THEN "INVALID_FLAGS"
  ELSE IF "options" \in par.bad THEN "INVALID_OPTIONS"
  ELSE IF ~CheckParams(OverriddenArgs(par)).ok THEN "INVALID_FLAGS"
  ELSE "none"

EncEncodeParams ==
  /\ AtObject("EncodeParams")
  /\ LET node == heap[val.n]
         may_be_shared == node.rc > 1
     IN  \/ /\ ParamsError(node.par) # "none"
            /\ Encoded(ParamsError(node.par))
            /\ UNCHANGED <<val, stack, args, in_enc_params, protected>>
         \/ /\ ParamsError(node.par) = "none"
            /\ args' = CheckParams(OverriddenArgs(node.par)).v
            /\ in_enc_params' = in_enc_params + (IF may_be_shared THEN 1 ELSE 0)
            /\ protected' = protected \cup {val.n}
            /\ CallZval(Append(stack, [NewFrame("encodeparams", val.n) EXCEPT !.flag = may_be_shared]),
                        Content)
  /\ UNCHANGED <<call, exception, is_ref, srns, refs, ref_lock, buf, heap>>

\* Mutant: the flags are left in effect when the value could not be encoded.
Bug_RestoreArgs(frame) == IF error = "none" THEN frame.args ELSE args

\* ctx->args = saved_args
RestoreArgs(frame) == frame.args

\* Mutant: the counter goes down whether it went up or not.
Bug_LeaveParams(frame) == in_enc_params - 1

LeaveParams(frame) == in_enc_params - (IF frame.flag THEN 1 ELSE 0)

EncodeParamsDone ==
  /\ pc = "ret" /\ stack # << >> /\ Top.f = "encodeparams"
  /\ args' = RestoreArgs(Top)
  /\ in_enc_params' = LeaveParams(Top)
  /\ protected' = protected \ {Top.n}
  /\ Leave(error)
  /\ UNCHANGED <<call, exception, val, is_ref, srns, refs, ref_lock, buf, heap>>

-----------------------------------------------------------------------------
(* Objects that run user code: Cbor\Serializable and Traversable.           *)

\* User code throws.
Throw == exception' = "user"

\* The address a value holds a count of, 0 if it is not counted
Held(v) == IF v.k \in {"arr", "obj", "ref"} THEN v.n ELSE 0

\* zval_ptr_dtor of the values at some addresses: each gives back a count, and
\* with the last one the value is freed.
ReleaseAll(hp, owned) ==
  LET held(a) == Cardinality({i \in DOMAIN owned : owned[i] = a})
  IN  [a \in {b \in DOMAIN hp : hp[b].rc > held(b)} |-> [hp[a] EXCEPT !.rc = @ - held(a)]]

\* enc_serializable: cborSerialize returns a value it has or makes a new one,
\* at an address that is not in use.
EncSerializable ==
  /\ AtObject("Serializable")
  /\ LET frame == NewFrame("serializable", val.n)
         returned == heap[val.n].ent
     IN  \/ /\ val.n \in protected
            /\ Encoded("RECURSION")
            /\ UNCHANGED <<exception, val, stack, protected, heap>>
         \/ /\ val.n \notin protected
            /\ Throw
            /\ Encoded("EXCEPTION")
            /\ UNCHANGED <<val, stack, protected, heap>>
         \/ /\ val.n \notin protected /\ returned # << >>
            /\ heap' = IF Held(Content) # 0 THEN AddRef(heap, Content.n) ELSE heap
            /\ protected' = protected \cup {val.n}
            /\ CallZval(Append(stack, frame), Content)
            /\ UNCHANGED exception
         \/ /\ val.n \notin protected /\ returned = << >>
            /\ \E a \in Addr \ DOMAIN heap, node \in Fresh :
                 /\ heap' = [b \in DOMAIN heap \cup {a} |-> IF b = a THEN node ELSE heap[b]]
                 /\ protected' = protected \cup {val.n}
                 /\ CallZval(Append(stack, [frame EXCEPT !.i = a]), Scalar("obj", a))
                 /\ UNCHANGED exception
  /\ UNCHANGED <<call, is_ref, args, in_enc_params, srns, refs, ref_lock, buf>>

\* The value that cborSerialize returned, by what it returned
ReturnedValue(frame) ==
  IF frame.i # 0 THEN Scalar("obj", frame.i) ELSE heap[frame.n].ent[1].v

SerializableDone ==
  /\ pc = "ret" /\ stack # << >> /\ Top.f = "serializable"
  /\ heap' = ReleaseAll(heap, <<Held(ReturnedValue(Top))>>)
  /\ protected' = protected \ {Top.n}
  /\ Leave(error)
  /\ UNCHANGED <<call, exception, val, is_ref, args, in_enc_params, srns, refs, ref_lock, buf>>

\* num of a Traversable that has no count()
NotCountable == -2

\* enc_traversable, up to the first call of user code
EncTraversable ==
  /\ AtObject("Traversable")
  /\ LET is_indef == Has("CDE") \/ heap[val.n].num = NotCountable
     IN  \/ /\ val.n \in protected
            /\ Encoded("RECURSION")
            /\ UNCHANGED <<stack, buf, protected>>
         \/ /\ val.n \notin protected
            /\ protected' = protected \cup {val.n}
            /\ buf' = IF is_indef /\ ~Has("CDE") THEN Append(buf, WriteSimple("map_start", 0)) ELSE buf
            /\ GoOn(Append(stack, NewFrame(IF is_indef THEN "rewind" ELSE "count", val.n)))
  /\ UNCHANGED <<call, exception, val, is_ref, args, in_enc_params, srns, refs, ref_lock, heap>>

AtTraversable(where) == pc = "ret" /\ stack # << >> /\ Top.f = where

\* keys_ht holds values, without having counted them, only to sort them.
KeysHtValues == [i \in DOMAIN Top.ht |-> IF Has("CDE") THEN Held(Top.ht[i].v) ELSE 0]

\* The label ENCODED of enc_traversable; out is what ctx->buf points to then,
\* owned what was given back on the way, with keys_ht.
TraversableLeaves(e, out, owned) ==
  /\ protected' = protected \ {Top.n}
  /\ buf' = out
  /\ heap' = ReleaseAll(heap, owned)
  /\ Leave(e)

TraversableDone(e, out) == TraversableLeaves(e, out, KeysHtValues)

\* User code throws in one of the iterator's functions.
TraversableThrows ==
  /\ Throw
  /\ TraversableDone("EXCEPTION", buf)
  /\ UNCHANGED val

\* count() of a Countable
TraversableCount ==
  /\ AtTraversable("count")
  /\ LET count == heap[Top.n].num
     IN  \/ TraversableThrows
         \/ /\ count < 0 \/ count > HtMaxSize
            /\ TraversableDone(IF count < 0 THEN "INTERNAL" ELSE "UNSUPPORTED_SIZE", buf)
            /\ UNCHANGED <<exception, val>>
         \/ /\ count \in 0..HtMaxSize
            /\ buf' = Append(buf, WriteInt("map", count))
            /\ GoOn(Append(Below, [Top EXCEPT !.f = "rewind", !.count = count]))
            /\ UNCHANGED <<exception, val, protected, heap>>
  /\ UNCHANGED <<call, is_ref, args, in_enc_params, srns, refs, ref_lock>>

\* Mutant: -1 is taken for no entries.
Bug_HasKeysHt(count) == count > 0 /\ Has("MAP_NO_DUP_KEY")

\* Keys are compared, unless there are none.
HasKeysHt(count) == count # 0 /\ Has("MAP_NO_DUP_KEY")

\* get_iterator() and rewind()
TraversableRewind ==
  /\ AtTraversable("rewind")
  /\ \/ TraversableThrows
     \/ /\ GoOn(Append(Below, [Top EXCEPT !.f = "next", !.flag = HasKeysHt(Top.count)]))
        /\ UNCHANGED <<exception, val, buf, protected, heap>>
  /\ UNCHANGED <<call, is_ref, args, in_enc_params, srns, refs, ref_lock>>

\* valid() and key(): the key is written to a buffer of its own if it is to
\* be compared with the others.
TraversableNext ==
  /\ AtTraversable("next") /\ Top.i < Len(heap[Top.n].ent)
  /\ \/ TraversableThrows
     \/ /\ Top.i = Top.count
        /\ TraversableDone("EXTRANEOUS", buf)
        /\ UNCHANGED <<exception, val>>
     \/ /\ Top.i # Top.count
        /\ LET next == [Top EXCEPT !.f = "key", !.i = @ + 1]
               key == heap[Top.n].ent[next.i].key
           IN  \/ /\ Top.flag
                  /\ buf' = << >>
                  /\ CallZval(Append(Below, [next EXCEPT !.out = buf]), key)
               \/ /\ ~Top.flag
                  /\ CallZval(Append(Below, next), key)
                  /\ UNCHANGED buf
        /\ UNCHANGED <<exception, protected, heap>>
  /\ UNCHANGED <<call, is_ref, args, in_enc_params, srns, refs, ref_lock>>

\* The key was encoded: it is compared with the others, and current() called.
TraversableKey ==
  /\ AtTraversable("key")
  /\ LET out == IF Top.flag THEN Top.out ELSE buf
         isDuplicate == Top.flag /\ \E i \in DOMAIN Top.ht : Top.ht[i].key = buf
         current == heap[Top.n].ent[Top.i].v
         written == IF ~Top.flag THEN buf ELSE IF Has("CDE") THEN Top.out ELSE Top.out \o buf
         next == [Top EXCEPT !.f = "forward", !.out = << >>,
                             !.ht = IF Top.flag THEN Append(@, [key |-> buf, v |-> current]) ELSE @]
     IN  \/ /\ error # "none"
            /\ TraversableDone(error, out)
            /\ UNCHANGED <<exception, val>>
         \/ /\ error = "none" /\ isDuplicate
            /\ TraversableDone("DUPLICATE_KEY", out)
            /\ UNCHANGED <<exception, val>>
         \/ /\ error = "none" /\ ~isDuplicate
            /\ Throw
            /\ TraversableDone("EXCEPTION", written)
            /\ UNCHANGED val
         \/ /\ error = "none" /\ ~isDuplicate
            /\ buf' = written
            /\ \/ Has("CDE") /\ GoOn(Append(Below, next)) /\ UNCHANGED val
               \/ ~Has("CDE") /\ CallZval(Append(Below, next), current)
            /\ UNCHANGED <<exception, protected, heap>>
  /\ UNCHANGED <<call, is_ref, args, in_enc_params, srns, refs, ref_lock>>

\* Mutant: next() is not followed by a look at EG(exception).
Bug_TraversableForward ==
  /\ AtTraversable("forward")
  /\ \/ error # "none" /\ TraversableDone(error, buf) /\ UNCHANGED <<exception, val>>
     \/ /\ error = "none"
        /\ exception' \in {exception, "user"}
        /\ GoOn(Append(Below, [Top EXCEPT !.f = "next"]))
        /\ UNCHANGED <<val, buf, protected, heap>>
  /\ UNCHANGED <<call, is_ref, args, in_enc_params, srns, refs, ref_lock>>

\* The value was encoded, and a count of it is given back, or it is kept to
\* be sorted: next(), which may throw.
TraversableForward ==
  /\ AtTraversable("forward")
  /\ LET current == <<IF Has("CDE") THEN 0 ELSE Held(heap[Top.n].ent[Top.i].v)>>
     IN  \/ /\ error # "none"
            /\ TraversableDone(error, buf)
            /\ UNCHANGED <<exception, val>>
         \/ /\ error = "none"
            /\ Throw
            /\ TraversableLeaves("EXCEPTION", buf, current \o KeysHtValues)
            /\ UNCHANGED val
         \/ /\ error = "none"
            /\ heap' = ReleaseAll(heap, current)
            /\ GoOn(Append(Below, [Top EXCEPT !.f = "next"]))
            /\ UNCHANGED <<exception, val, buf, protected>>
  /\ UNCHANGED <<call, is_ref, args, in_enc_params, srns, refs, ref_lock>>

CountError(frame) == IF frame.i = frame.count THEN "none" ELSE "TRUNCATED"

\* The iterator is at its end.
TraversableEnd ==
  /\ AtTraversable("next") /\ Top.i = Len(heap[Top.n].ent)
  /\ \/ TraversableThrows
     \/ /\ Has("CDE")
        /\ buf' = Append(buf, WriteInt("map", Len(Top.ht)))
        /\ \E sorted \in SortByKey(Top.ht) :
             GoOn(Below \o <<[Top EXCEPT !.f = "traversed"], CdeFrame(Top.n, sorted, FALSE)>>)
        /\ UNCHANGED <<exception, val, protected, heap>>
     \/ /\ ~Has("CDE") /\ Top.count = -1
        /\ TraversableDone("none", Append(buf, WriteSimple("break", 0)))
        /\ UNCHANGED <<exception, val>>
     \/ /\ ~Has("CDE") /\ Top.count # -1
        /\ TraversableDone(CountError(Top), buf)
        /\ UNCHANGED <<exception, val>>
  /\ UNCHANGED <<call, is_ref, args, in_enc_params, srns, refs, ref_lock>>

\* enc_cde_map returned.
Traversed ==
  /\ AtTraversable("traversed")
  /\ TraversableDone(error, buf)
  /\ UNCHANGED <<call, exception, val, is_ref, args, in_enc_params, srns, refs, ref_lock>>

-----------------------------------------------------------------------------
(* Classes of other extensions, each with an option of its own.  These      *)
(* answer as they document: the checks of the type of an answer, which lead *)
(* to INTERNAL or TAG_TYPE, are left out.                                   *)

ExtOptionOf == [DateTime |-> "datetime", GMP |-> "bignum", Decimal |-> "decimal", Uri |-> "uri"]

AtExtension(class) == AtObject(class) /\ ExtOptionOf[class] \in args.ext

\* enc_bin_int: an integer within 64 bits; more bytes make a bignum.
BigInt(before, v, is_negative) ==
  \/ /\ v.k = "long"
     /\ buf' = buf \o Append(before, WriteInt(IF is_negative THEN "nint" ELSE "uint", v.n))
     /\ Encoded("none")
     /\ UNCHANGED srns
  \/ /\ v.k = "str"
     /\ EncString(Append(before, WriteInt("tag", IF is_negative THEN 3 ELSE 2)), v.s, FALSE)

\* enc_datetime: what format() returns is not of the length expected (num = 1)
\* for a year beyond 9999.  format() is taken to return a string.  The method of
\* a subclass may throw instead, or return something else, and the code looks
\* neither at EG(exception) nor at the type: what it does then is undefined, and
\* such objects are left out of the graphs.
EncDateTime ==
  /\ AtExtension("DateTime")
  /\ \/ heap[val.n].num = 0 /\ EncString(<<WriteInt("tag", 0)>>, Content.s, TRUE)
     \/ heap[val.n].num # 0 /\ Encoded("INTERNAL") /\ UNCHANGED <<buf, srns>>
  /\ UNCHANGED <<call, exception, val, is_ref, stack, args, in_enc_params, refs, ref_lock,
                 protected, heap>>

\* enc_bignum
EncBignum ==
  /\ AtExtension("GMP")
  /\ BigInt(<< >>, Content, heap[val.n].num = 1)
  /\ UNCHANGED <<call, exception, val, is_ref, stack, args, in_enc_params, refs, ref_lock,
                 protected, heap>>

\* enc_decimal: a decimal that is no number is a float, an exponent beyond
\* zend_long (undef) an error; an integer within 64 bits is written as one.
EncDecimal ==
  LET exp == heap[val.n].ent[2].v
      isPlain == exp.n = 0 /\ Content.k = "long"
      fraction == <<WriteInt("tag", 4), WriteInt("array", 2), WriteLong(exp.n)>>
  IN  /\ AtExtension("Decimal")
      /\ \/ /\ Content.k = "double"
            /\ buf' = Append(buf, enc_z_double(Content.n))
            /\ Encoded("none")
            /\ UNCHANGED srns
         \/ /\ Content.k # "double" /\ exp.k # "long"
            /\ Encoded("UNSUPPORTED_VALUE")
            /\ UNCHANGED <<buf, srns>>
         \/ /\ Content.k # "double" /\ exp.k = "long"
            /\ BigInt(IF isPlain THEN << >> ELSE fraction, Content, heap[val.n].num = 1)
      /\ UNCHANGED <<call, exception, val, is_ref, stack, args, in_enc_params, refs, ref_lock,
                     protected, heap>>

\* enc_uri: the conversion to a string may throw.
EncUri ==
  /\ AtExtension("Uri")
  /\ \/ /\ EncString(<<WriteInt("tag", 32)>>, Content.s, TRUE)
        /\ UNCHANGED exception
     \/ /\ Throw
        /\ Encoded("EXCEPTION")
        /\ UNCHANGED <<buf, srns>>
  /\ UNCHANGED <<call, val, is_ref, stack, args, in_enc_params, refs, ref_lock, protected, heap>>

EncUnsupported ==
  /\ \/ AtObject("other")
     \/ \E class \in DOMAIN ExtOptionOf : AtObject(class) /\ ~AtExtension(class)
  /\ Encoded("UNSUPPORTED_TYPE")
  /\ UNCHANGED <<call, exception, val, is_ref, stack, args, in_enc_params, srns, refs, ref_lock,
                 buf, protected, heap>>

-----------------------------------------------------------------------------
(* The call.                                                                *)

\* cbor_throw_error: an exception of user code is kept.
Thrown(e) == IF e = "none" \/ (e = "EXCEPTION" /\ exception = "user") THEN exception ELSE "cbor"

\* The arguments of the call, checked
CallArgs ==
  LET o == cbor_set_encode_options(call.options)
  IN  IF ~o.ok THEN Invalid(args)
      ELSE CheckParams([ u_flags |-> call.flags, e_flags |-> {}, max_depth |-> o.v.max_depth,
                         string_ref |-> o.v.string_ref, shared_ref |-> o.v.shared_ref, ext |-> o.v.ext ])

\* PHP_FUNCTION(cbor_encode) and cbor_encode, up to enc_zval
Start ==
  /\ pc = "start"
  /\ \/ /\ ~CallArgs.ok
        /\ error' = IF cbor_set_encode_options(call.options).ok THEN "INVALID_FLAGS" ELSE "INVALID_OPTIONS"
        /\ exception' = Thrown(error')
        /\ pc' = "end"
        /\ UNCHANGED <<val, args, srns, buf>>
     \/ /\ CallArgs.ok
        /\ args' = CallArgs.v
        /\ buf' = (IF "SELF_DESCRIBE" \in args'.e_flags THEN <<WriteInt("tag", TagSelfDescribe)>> ELSE << >>)
                  \o (IF args'.string_ref = "true" THEN <<WriteInt("tag", TagStringRefNs)>> ELSE << >>)
        /\ srns' = IF args'.string_ref = "true" THEN NewSrns ELSE NoSrns
        /\ val' = call.root
        /\ pc' = "call"
        /\ UNCHANGED <<error, exception>>
  /\ UNCHANGED <<call, is_ref, stack, cur_depth, in_enc_params, refs, ref_lock, protected, heap>>

\* Mutant: the lock is not destroyed.
Bug_Unlock(hp) == hp

\* The heap after ctx->ref_lock is destroyed
Unlock(hp) == ReleaseAll(hp, ref_lock)

\* The end of cbor_encode: data or an exception
Finish ==
  /\ pc = "ret" /\ stack = << >>
  /\ exception' = Thrown(error)
  /\ buf' = IF error = "none" THEN buf ELSE << >>
  /\ srns' = NoSrns
  /\ refs' = << >>
  /\ ref_lock' = << >>
  /\ heap' = Unlock(heap)
  /\ pc' = "end"
  /\ UNCHANGED <<call, error, val, is_ref, stack, args, cur_depth, in_enc_params, protected>>

NoArgs == [ u_flags |-> {}, e_flags |-> {}, max_depth |-> 0, string_ref |-> "false",
            shared_ref |-> "false", ext |-> {} ]

Init ==
  /\ call \in Calls
  /\ pc = "start"
  /\ error = "none"
  /\ exception = "none"
  /\ val = Undef
  /\ is_ref = FALSE
  /\ stack = << >>
  /\ args = NoArgs
  /\ cur_depth = 0
  /\ in_enc_params = 0
  /\ buf = << >>
  /\ srns = NoSrns
  /\ refs = << >>
  /\ ref_lock = << >>
  /\ protected = {}
  /\ heap = call.heap

Traverse ==
  \/ TraversableCount \/ TraversableRewind \/ TraversableNext \/ TraversableKey
  \/ TraversableForward \/ TraversableEnd \/ Traversed

Next ==
  \/ Start \/ EncZval
  \/ EncScalar \/ EncFloatx \/ EncStr \/ EncXString
  \/ EncReference \/ EncShareable \/ ShareableDone
  \/ EncArray \/ EncStdClass \/ HashNext \/ HashDone \/ CdeMapNext \/ CdeMapDone
  \/ EncTag \/ TagDone \/ EncEncodeParams \/ EncodeParamsDone
  \/ EncSerializable \/ SerializableDone \/ EncTraversable \/ Traverse
  \/ EncDateTime \/ EncBignum \/ EncDecimal \/ EncUri \/ EncUnsupported
  \/ Finish

Spec == Init /\ [][Next]_vars

\* The encoder runs on one thread to the end of the call, provided that the
\* user code it calls returns.
FairSpec == Spec /\ WF_vars(Next)

-----------------------------------------------------------------------------
(* Properties.                                                              *)

OptionName == {"max_depth", "string_ref", "shared_ref"} \cup ExtOption

IsHeap(hp) == DOMAIN hp \subseteq Addr /\ hp \in [DOMAIN hp -> SrcNode]

\* The variables have the types of the fields of enc_context and of the local
\* variables they stand for.
TypeOK ==
  /\ pc \in {"start", "call", "type", "ret", "end"}
  /\ error \in Error
  /\ exception \in {"none", "user", "cbor"}
  /\ val \in Value /\ is_ref \in BOOLEAN
  /\ stack \in Seq(Frame)
  /\ args \in Args
  /\ cur_depth \in Nat /\ in_enc_params \in Nat
  /\ buf \in Seq(Token)
  /\ srns \in Srns
  /\ refs \in Seq(Addr) /\ ref_lock \in Seq(Addr)
  /\ protected \subseteq Addr
  /\ IsHeap(heap)

\* Functions that mark the value they are about
Protecting == {"hash", "serializable", "encodeparams", "count", "rewind", "next", "key", "forward",
               "traversed"}

\* A value has its recursion mark exactly as long as the function that set it
\* runs, on every way out of it: an error or an exception deep inside leaves
\* no mark behind, which would make the next cbor_encode report a recursion.
MarksMatchStack ==
  /\ protected = {stack[i].n : i \in {j \in DOMAIN stack : stack[j].f \in Protecting}}
  /\ \A i, j \in DOMAIN stack :
       i # j /\ stack[i].f \in Protecting /\ stack[j].f \in Protecting => stack[i].n # stack[j].n
  /\ in_enc_params = Cardinality({i \in DOMAIN stack : stack[i].f = "encodeparams" /\ stack[i].flag})

\* When the outermost enc_zval is about to return, with a value, an error or
\* an exception, the flags and options are those of the call again and, unless
\* it was the depth that failed, so is the depth.
Unwound ==
  pc = "ret" /\ stack = << >> =>
    /\ args = CallArgs.v
    /\ error # "DEPTH" => cur_depth = 0
    /\ args.string_ref # "true" => ~srns.on

\* CBOR_CDE stays in effect below the EncodeParams that switched it on, and
\* nothing that depends on the context is in use then: no string table, no
\* shared references.
CdeContextFree ==
  /\ "CDE" \in args.e_flags => ~srns.on /\ args.shared_ref = "false"
  /\ \A i \in DOMAIN stack : "CDE" \in stack[i].args.e_flags => "CDE" \in args.e_flags

\* What ctx->refs has an index for lives until the end of the call: an object
\* that cborSerialize makes does not get the address of one that is written
\* already, and with it the index of that.
RefsAlive ==
  \A i \in DOMAIN refs : refs[i] \in DOMAIN heap

\* The values of the call hold no iterator, which gives back counts that it
\* did not take.
NoIterators == \A a \in DOMAIN call.heap : call.heap[a].c # "Traversable"

\* After the call, failed or not, every value has the owners it had before,
\* and what cborSerialize made is gone.
CountsRestored == pc = "end" /\ NoIterators => heap = call.heap

\* The call gives data or an exception; an exception of user code is passed on
\* as it is and stops the encoder, and no other error hides it.
DataOrException ==
  /\ pc = "end" => (error = "none") = (exception = "none")
  /\ exception = "user" => error = "EXCEPTION"
  /\ error = "EXCEPTION" => exception = "user"

\* Every call ends, cyclic values included.
Terminates == <>(pc = "end")

-----------------------------------------------------------------------------
(* The inductive invariant of the counts, for graphs that hold together and  *)
(* have no iterators.                                                       *)

CountedKind == {"arr", "obj", "ref"}

\* A value in the graph hp, if it is counted
InGraph(v, hp) == v.k \in CountedKind => v.n \in DOMAIN hp /\ (v.k = "ref" => hp[v.n].c = "reference")

\* The classes whose first entry is looked at
Wrapping == {"reference", "Shareable", "Tag", "EncodeParams"}
Wraps(node) == node.c \in Wrapping => node.ent # << >>

\* PHP hands cbor_encode a graph that it keeps alive, and a method returns a
\* new object that nobody else holds, and that holds nothing of the graph.
GraphsOwned ==
  \A c \in Calls :
    /\ IsHeap(c.heap) /\ InGraph(c.root, c.heap)
    /\ \A a \in DOMAIN c.heap :
         /\ c.heap[a].rc > 0 /\ Wraps(c.heap[a])
         /\ \A i \in DOMAIN c.heap[a].ent : InGraph(c.heap[a].ent[i].v, c.heap)
FreshOwned ==
  \A node \in Fresh :
    /\ node \in SrcNode /\ node.c # "Traversable" /\ node.rc = 1 /\ Wraps(node)
    /\ \A i \in DOMAIN node.ent : node.ent[i].v.k \notin CountedKind

\* What the classes keep, and what their numbers and lengths may be
Unsigned(v) == v.k \in {"bool", "double"} => v.n \in Nat
Holds(node) ==
  /\ node.c \in {"Byte", "Text", "Float16", "Float32", "DateTime", "GMP", "Uri"} => node.ent # << >>
  /\ node.c = "Decimal" => Len(node.ent) >= 2
  /\ node.c \in {"Float16", "Float32"} => node.ent[1].v.n \in Nat
  /\ node.c \in {"GMP", "Decimal"} /\ node.ent[1].v.k = "long" => node.ent[1].v.n \in Nat
  /\ \A i \in DOMAIN node.ent : Unsigned(node.ent[i].v)
GraphsTyped ==
  /\ \A c \in Calls :
       /\ c.root \in Value /\ Unsigned(c.root)
       /\ c.flags \subseteq Flag /\ c.options \in [OptionName -> OptVal]
       /\ \A a \in DOMAIN c.heap : Holds(c.heap[a])
  /\ \A node \in Fresh : Holds(node)

\* What enc_serializable holds a count of while it runs, in a call for graph
Claim(frame, graph) ==
  IF frame.f # "serializable" THEN 0
  ELSE IF frame.i # 0 THEN frame.i
  ELSE IF frame.n \in DOMAIN graph THEN Held(graph[frame.n].ent[1].v)
  ELSE 0

\* How many owners a value has besides those it had before the call
Owners(a, locks, frames, graph) ==
  Cardinality({i \in DOMAIN locks : locks[i] = a}) + Cardinality({i \in DOMAIN frames : Claim(frames[i], graph) = a})

\* The heap is that of the call with the counts of the encoder added, and the
\* objects that cborSerialize made as long as the encoder holds them.
Owned(hp, locks, frames, graph) ==
  /\ DOMAIN hp \subseteq Addr
  /\ \A a \in DOMAIN graph :
       a \in DOMAIN hp /\ hp[a] = [graph[a] EXCEPT !.rc = @ + Owners(a, locks, frames, graph)]
  /\ \A a \in DOMAIN hp \ DOMAIN graph :
       /\ Owners(a, locks, frames, graph) > 0
       /\ \E node \in Fresh : hp[a] = [node EXCEPT !.rc = Owners(a, locks, frames, graph)]
  /\ \A i \in DOMAIN locks : locks[i] \in DOMAIN hp
  /\ \A i \in DOMAIN frames : Claim(frames[i], graph) # 0 => Claim(frames[i], graph) \in DOMAIN hp
OwnInv == Owned(heap, ref_lock, stack, call.heap)

\* What has an index is locked, until the end of the call.
LockInv ==
  /\ refs = ref_lock /\ ref_lock \in Seq(Addr)
  /\ pc \in {"start", "end"} => ref_lock = << >>

\* A method made the object at n, and runs.
MadeBy(frame, n) == frame.f = "serializable" /\ frame.i = n /\ n # 0

\* What a function works on is in the graph, or it is right above the method
\* that made it.  No entry holds what is new.
Reached(frames, i, hp, graph) ==
  /\ frames[i].f \in {"hash", "cde_map", "tag", "shareable", "serializable", "encodeparams"}
  /\ frames[i].n \in DOMAIN graph \/ (i > 1 /\ MadeBy(frames[i - 1], frames[i].n))
  /\ frames[i].f = "serializable" /\ frames[i].i = 0 => hp[frames[i].n].ent # << >>
  /\ \A j \in DOMAIN frames[i].ht : InGraph(frames[i].ht[j].v, graph)
ReachInv ==
  /\ pc \in {"call", "type"} =>
       InGraph(val, call.heap) \/ (val.k = "obj" /\ stack # << >> /\ MadeBy(Top, val.n))
  /\ \A i \in DOMAIN stack : Reached(stack, i, heap, call.heap)

CountInv == NoIterators => OwnInv /\ LockInv /\ ReachInv

=============================================================================
