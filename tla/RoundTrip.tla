----------------------------- MODULE RoundTrip -----------------------------
(***************************************************************************)
(* cbor_encode and then cbor_decode on what it gave: the encoder of         *)
(* EncodeZv and the decoder of DecodeZv, one after the other.  The options  *)
(* of the decoder are those that accept what the encoder was asked for.     *)
(***************************************************************************)
EXTENDS EncodeZv

VARIABLES
  d_args, d_oneshot, d_input, d_pos, d_offset, d_length, d_skip_self_desc, d_pc, d_error, d_cb_error,
  d_read_len, d_val, d_stack, d_stack_depth, d_root, d_srns, d_refs, d_heap

dvars == <<d_args, d_oneshot, d_input, d_pos, d_offset, d_length, d_skip_self_desc, d_pc, d_error, d_cb_error,
           d_read_len, d_val, d_stack, d_stack_depth, d_root, d_srns, d_refs, d_heap>>

NoItem(a) == {}
NoLength(a) == {0}

D == INSTANCE DecodeZv WITH
       ArgsSet <- {}, Tokens <- {}, Modes <- {TRUE}, Lengths <- {0}, Explored <- NoItem, ExploredLengths <- NoLength,
       args <- d_args, oneshot <- d_oneshot, input <- d_input, pos <- d_pos, offset <- d_offset,
       length <- d_length, skip_self_desc <- d_skip_self_desc, pc <- d_pc, error <- d_error,
       cb_error <- d_cb_error, read_len <- d_read_len, val <- d_val, stack <- d_stack,
       stack_depth <- d_stack_depth, root <- d_root, srns <- d_srns, refs <- d_refs, heap <- d_heap

\* Bounds of the decoder, beyond those of the values
DecodeDepth == 40
DecodeSize == 10

\* The options of cbor_decode for what cbor_encode gives with the flags and
\* options of a call
DecodeArgs ==
  [ max_depth |-> DecodeDepth, max_size |-> DecodeSize,
    flags |-> {"KEY_BYTE", "KEY_TEXT", "INT_KEY", "UNSAFE_TEXT"} \cup (call.flags \cap {"BYTE", "TEXT"}),
    string_ref |-> args.string_ref # "false",
    shared_ref |-> IF args.shared_ref = "unsafe_ref" THEN "unsafe_ref" ELSE "shareable" ]

\* The bytes of some data items
Length(toks) ==
  LET upTo[i \in 0..Len(toks)] == IF i = 0 THEN 0 ELSE upTo[i - 1] + toks[i].len IN upTo[Len(toks)]

NoDecodeArgs ==
  [max_depth |-> 0, max_size |-> 0, flags |-> {}, string_ref |-> FALSE, shared_ref |-> "false"]

RoundTripInit ==
  /\ Init
  /\ d_args = NoDecodeArgs /\ d_oneshot = TRUE
  /\ d_input = << >> /\ d_pos = 0 /\ d_offset = 0 /\ d_length = 0
  /\ d_skip_self_desc = FALSE
  /\ d_pc = "idle" /\ d_error = "none" /\ d_cb_error = "none"
  /\ d_read_len = 0 /\ d_val = Undef
  /\ d_stack = << >> /\ d_stack_depth = 0
  /\ D!zv_ctx_init

\* cbor_decode is called with the data.
CallDecode ==
  /\ pc = "end" /\ error = "none" /\ d_pc = "idle"
  /\ d_args' = DecodeArgs
  /\ d_input' = buf
  /\ d_length' = Length(buf)
  /\ d_skip_self_desc' = TRUE
  /\ d_pc' = "start"
  /\ UNCHANGED <<vars, d_oneshot, d_pos, d_offset, d_error, d_cb_error, d_read_len, d_val,
                 d_stack, d_stack_depth, d_root, d_srns, d_refs, d_heap>>

\* A step of cbor_decode
Decode ==
  /\ \/ D!SelfDescribe
     \/ D!Start
     \/ d_pos < Len(d_input) /\ D!DecItem(d_input[d_pos + 1])
     \/ D!ReadTruncated
     \/ D!ZvAppend
     \/ D!Loop
     \/ D!Finish
  /\ UNCHANGED vars

RoundTripNext == (Next /\ UNCHANGED dvars) \/ CallDecode \/ Decode

RoundTripSpec == RoundTripInit /\ [][RoundTripNext]_<<vars, dvars>> /\ WF_<<vars, dvars>>(RoundTripNext)

-----------------------------------------------------------------------------
(* When a decoded value is what was encoded.                                *)

\* The value that is written for a value: what EncodeParams or cborSerialize
\* stands for, and what a reference refers to unless that is shared.
RECURSIVE Written(_)
Written(v) ==
  IF v.k = "obj" /\ call.heap[v.n].c \in {"EncodeParams", "Serializable"} /\ call.heap[v.n].ent # << >>
  THEN Written(call.heap[v.n].ent[1].v)
  ELSE IF v.k = "ref" /\ (args.shared_ref # "unsafe_ref" \/ IsObject(call.heap[v.n].ent[1].v))
  THEN Written(call.heap[v.n].ent[1].v)
  ELSE IF v.k = "obj" /\ call.heap[v.n].c = "Tag" /\ call.heap[v.n].num = TagStringRefNs /\ args.string_ref # "false"
  THEN Written(call.heap[v.n].ent[1].v)
  ELSE v

SrcClassOf(v) == IF v.k \in {"arr", "obj", "ref"} THEN call.heap[v.n].c ELSE v.k
DecodedClass(v) == IF v.k \in {"arr", "obj", "ref"} THEN d_heap[v.n].c ELSE v.k

\* The property that a key is written to and read back as
NameOf(key) == IF key.k = "long" THEN IntToStr(key.n) ELSE key.s
Names(ent) == { NameOf(ent[i].key) : i \in DOMAIN ent }

\* A {stringref} that the value itself gives
IsGivenRef(s) == SrcClassOf(s) = "Tag" /\ call.heap[s.n].num = TagStringRef /\ args.string_ref # "false"

\* The values that two containers hold under the same name, if that is the
\* name of one entry only: an iterator may yield 1 and "1".
Inner(s, d) ==
  IF /\ s.k \in {"arr", "obj", "ref"} /\ d.k \in {"arr", "obj", "ref"}
     /\ SrcClassOf(s) \notin DOMAIN ExtOptionOf /\ ~IsGivenRef(s)
  THEN LET from == call.heap[s.n].ent
           to == d_heap[d.n].ent
           isOnly(i) == \A j \in DOMAIN from : NameOf(from[j].key) = NameOf(from[i].key) => j = i
       IN  { <<Written(from[p[1]].v), to[p[2]].v>> :
               p \in { q \in (DOMAIN from) \X (DOMAIN to) :
                         isOnly(q[1]) /\ NameOf(from[q[1]].key) = NameOf(to[q[2]].key) } }
  ELSE {}

\* A {shareable} that holds an object is decoded to that object.
Step(pairs) ==
  pairs \cup UNION { IF SrcClassOf(p[1]) = "Shareable" /\ DecodedClass(p[2]) \notin {"Shareable", "reference"}
                     THEN {<<Written(call.heap[p[1].n].ent[1].v), p[2]>>}
                     ELSE Inner(p[1], p[2]) : p \in pairs }

\* The values of the call and the decoded values that have come of them
RECURSIVE Fixpoint(_)
Fixpoint(pairs) == IF Step(pairs) = pairs THEN pairs ELSE Fixpoint(Step(pairs))
Pairs == Fixpoint({<<Written(call.root), d_root>>})

\* The decoder gives a map below {shareable} a property "value" (see the run
\* MCShareableOnly); its other keys are those that were encoded.
SameKeys(s, d) ==
  LET to == d_heap[d.n].ent
      isOwn(i) == to[i].v # d \/ to[i].key # StrVal(<<"value">>)
  IN  Names(call.heap[s.n].ent) = { NameOf(to[i].key) : i \in {j \in DOMAIN to : isOwn(j)} }

\* A string that is decoded, and whether it was a text string
StringOf(d) == IF d.k = "str" THEN d.s ELSE d_heap[d.n].ent[1].v.s
IsText(d) == IF d.k = "str" THEN "TEXT" \in call.flags ELSE d_heap[d.n].c = "Text"

\* A value and what has come of it agree, apart from what they hold.
Alike(s, d) ==
  LET class == SrcClassOf(s)
      is(k, c) == d.k = k /\ DecodedClass(d) = c
      isStr == DecodedClass(d) \in {"str", "Byte", "Text"}
      isFloat == DecodedClass(d) \in {"double", "Float16", "Float32"}
      float == IF d.k = "obj" THEN d_heap[d.n].ent[1].v.n ELSE d.n
  IN  CASE class \in {"null", "bool", "long", "undefobj"} -> d = s
        [] class = "double" -> isFloat /\ (Cardinality(call.flags \cap {"FLOAT16", "FLOAT32"}) # 1 => float = s.n)
        [] class \in {"Float16", "Float32"} -> isFloat /\ float = call.heap[s.n].ent[1].v.n
        [] IsGivenRef(s) -> isStr
        [] class = "str" -> isStr /\ StringOf(d) = s.s
        [] class \in {"Byte", "Text"} ->
             isStr /\ StringOf(d) = call.heap[s.n].ent[1].v.s /\ IsText(d) = (class = "Text")
        [] class = "array" /\ IsList(call.heap[s.n].ent) -> is("arr", "array") /\ SameKeys(s, d)
        [] class \in {"array", "stdClass", "Traversable"} -> is("obj", "stdClass") /\ SameKeys(s, d)
        [] class = "Tag" -> is("obj", "Tag") /\ d_heap[d.n].tag = call.heap[s.n].num
        [] class = "reference" -> is("ref", "reference")
        [] class = "Shareable" ->
             IF args.shared_ref = "unsafe_ref" THEN d.k \in {"ref", "obj"} ELSE d.k = "obj"
        \* cborSerialize made a value of its own; what other extensions have, as it is written
        [] class = "Serializable" \/ class \in DOMAIN ExtOptionOf -> TRUE
        [] OTHER -> FALSE

\* Values that have an identity in PHP and in the data
Distinguished(s) == SrcClassOf(s) \in {"stdClass", "Shareable", "reference"}

\* Values that are shared by the option: objects that others hold too, or that
\* are reached through an EncodeParams that others hold too, and references.
IsShared(s) ==
  LET byParams == \E a \in DOMAIN call.heap :
                    /\ call.heap[a].c = "EncodeParams" /\ call.heap[a].rc > 1
                    /\ Written(Scalar("obj", a)) = s
  IN  \/ args.shared_ref # "false" /\ SrcClassOf(s) = "stdClass" /\ (call.heap[s.n].rc > 1 \/ byParams)
      \/ SrcClassOf(s) \in {"Shareable", "reference"}

HasOtherKeys ==
  \E a \in DOMAIN call.heap : call.heap[a].c = "Traversable" /\ \E i \in DOMAIN call.heap[a].ent :
    call.heap[a].ent[i].key.k \notin {"long", "str"}
HasNestedShareable ==
  \E i \in 1..(Len(buf) - 1) : buf[i] = WriteInt("tag", TagShareable) /\ buf[i + 1] = buf[i]

\* The decoder accepts what the encoder gives, except for keys of iterators
\* that PHP arrays and objects cannot have and for a {shareable} in a
\* {shareable}.
Accepted ==
  d_pc = "end" =>
    CASE d_error = "none" -> TRUE
      [] d_error = "UNSUPPORTED_KEY_TYPE" -> HasOtherKeys
      [] d_error = "TAG_SYNTAX_SHARE_NESTED" -> HasNestedShareable
      [] OTHER -> FALSE

\* The data is accepted, and what comes back is the value that was encoded,
\* with every string, text or bytes, key and tag of it.  Objects that were two
\* are two, and those that were one in two places are one again if shared
\* references are on.
RoundTrips ==
  /\ Accepted
  /\ d_pc = "end" /\ d_error = "none" =>
       LET pairs == Pairs
       IN  /\ \A p \in pairs : Alike(p[1], p[2])
           /\ \A p, q \in pairs :
                /\ Distinguished(p[1]) /\ Distinguished(q[1]) /\ SrcClassOf(p[1]) = SrcClassOf(q[1])
                     /\ p[2] = q[2] => p[1] = q[1]
                /\ p[1] = q[1] /\ IsShared(p[1]) => p[2] = q[2]

=============================================================================
