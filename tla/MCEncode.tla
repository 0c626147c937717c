------------------------------ MODULE MCEncode ------------------------------
(***************************************************************************)
(* EncodeZv on small value graphs: which values, flags and options          *)
(* cbor_encode is called with, and the properties of the data it gives,     *)
(* which are stated with the grammar of CborReference.                      *)
(***************************************************************************)
EXTENDS RoundTrip, CborReference

Obj(a) == Scalar("obj", a)
Arr(a) == Scalar("arr", a)
Ref(a) == Scalar("ref", a)
Long(n) == Scalar("long", n)

NoParams == [clear |-> {}, set |-> {}, on |-> {}, off |-> {}, bad |-> {}]
KeyVal(key, v) == [key |-> key, v |-> v]
SrcNodeOf(class, num, ent, par) == [c |-> class, num |-> num, ent |-> ent, rc |-> 0, par |-> par]
Plain(class, ent) == SrcNodeOf(class, 0, ent, NoParams)
Items(vals) == [i \in DOMAIN vals |-> KeyVal(Long(i - 1), vals[i])]
Props(vals) == [i \in DOMAIN vals |-> KeyVal(StrVal(<<<<"a", "b", "c">>[i]>>), vals[i])]
Holding(class, num, v) == SrcNodeOf(class, num, <<KeyVal(Undef, v)>>, NoParams)

\* Owners outside of the graph of what an iterator yields: enc_traversable
\* gives back counts of it that it did not take.
OtherOwners == 9

\* Reference counts: who holds a node in the graph, a local variable that
\* holds the root, and those that hold other nodes.
Counted(nodes, root, variables) ==
  LET holders(a) == { <<b, i>> \in (DOMAIN nodes) \X (1..3) :
                        i \in DOMAIN nodes[b].ent /\ Held(nodes[b].ent[i].v) = a }
      keyHolders(a) == { <<b, i>> \in (DOMAIN nodes) \X (1..3) :
                           i \in DOMAIN nodes[b].ent /\ Held(nodes[b].ent[i].key) = a }
      yielded(a) == \E b \in DOMAIN nodes : nodes[b].c = "Traversable" /\ \E i \in 1..3 : <<b, i>> \in holders(a)
      outside(a) == (IF Held(root) = a THEN 1 ELSE 0) + (IF a \in variables THEN 1 ELSE 0)
                    + (IF yielded(a) THEN OtherOwners ELSE 0)
      rc(a) == Cardinality(holders(a)) + Cardinality(keyHolders(a)) + outside(a)
  IN  [a \in {b \in DOMAIN nodes : rc(b) > 0} |-> [nodes[a] EXCEPT !.rc = rc(a)]]

DefaultOptions == [name \in OptionName |-> Absent]
OptStr(str) == IF str \in {"true", "false"} THEN [Absent EXCEPT !.k = str] ELSE [Absent EXCEPT !.k = "string", !.s = str]
OptLong(num) == [Absent EXCEPT !.k = "long", !.n = num]
With(depth, string_ref, shared_ref) ==
  [DefaultOptions EXCEPT !.max_depth = OptLong(depth), !.string_ref = OptStr(string_ref),
                         !.shared_ref = OptStr(shared_ref)]

CallOf(nodes, root, variables, flags, options) ==
  [heap |-> Counted(nodes, root, variables), root |-> root, flags |-> flags, options |-> options]

-----------------------------------------------------------------------------
(* Shared and cyclic values: three nodes that hold each other in every way. *)

Kinds == {"array", "stdClass", "reference", "Shareable", "Tag", "EncodeParams", "Serializable", "Traversable"}
ValueOf(class, a) ==
  IF class = "array" THEN Arr(a) ELSE IF class = "reference" THEN Ref(a) ELSE Obj(a)

ShapeOf(class, v) ==
  CASE class = "array" -> Plain("array", Items(<<v>>))
    [] class = "stdClass" -> Plain("stdClass", Props(<<v>>))
    [] class = "Tag" -> Holding("Tag", 6, v)
    [] class = "Made" -> Plain("Serializable", << >>)
    [] class = "Traversable" -> SrcNodeOf("Traversable", NotCountable, Props(<<v>>), NoParams)
    [] OTHER -> Holding(class, 0, v)

\* What PHP values can be: only objects hold what may hold them, an array or
\* reference in turn only through a reference or an object; no reference is
\* to a reference, and those of wrappers are gone.
Feasible(nodes) ==
  /\ \A a \in DOMAIN nodes, i \in 1..3 :
       i \in DOMAIN nodes[a].ent /\ nodes[a].ent[i].v.k = "ref" => nodes[a].c \in {"array", "stdClass"}
  /\ \A a, b \in DOMAIN nodes :
       /\ nodes[a].c = "array" /\ nodes[b].c = "array"
       /\ \E i \in DOMAIN nodes[a].ent : nodes[a].ent[i].v = Arr(b)
       => ~ \E i \in DOMAIN nodes[b].ent : nodes[b].ent[i].v = Arr(a)

SharingGraphs(rootKinds, kinds2, kinds3) ==
  { g \in UNION { LET v == [a \in 1..3 |-> ValueOf(<<k1, k2, k3>>[a], a)]
                      root(x, y) == IF k1 = "array" THEN Plain("array", Items(<<x, y>>))
                                    ELSE Plain("stdClass", Props(<<x, y>>))
                  IN  { [nodes |-> <<root(x, y), ShapeOf(k2, c2), ShapeOf(k3, c3)>>, root |-> v[1]] :
                          x \in {v[2], v[3]}, y \in {v[2], v[3]},
                          c2 \in {v[1], v[2], v[3]}, c3 \in {v[1], v[2], Long(1)} }
                  : k1 \in rootKinds, k2 \in kinds2, k3 \in kinds3 }
    : Feasible(g.nodes) }

SharingCalls ==
  { CallOf(g.nodes, g.root, vs, {"BYTE", "KEY_BYTE"}, With(4, "false", s)) :
      g \in SharingGraphs({"array", "stdClass"}, Kinds, {"stdClass", "Made"}),
      vs \in {{}, {3}}, s \in {"false", "true", "unsafe_ref"} }

-----------------------------------------------------------------------------
(* Strings: byte and text strings long enough for an index or not, and the  *)
(* tags {stringref-namespace} and {stringref} that user code may give.      *)

abc == <<"a", "b", "c">>

StringNodes(x, y, z, inNs, index) ==
  << Plain("array", Items(<<x, y, z>>)), Holding("Byte", 0, StrVal(abc)), Holding("Text", 0, StrVal(abc)),
     Holding("Tag", TagStringRefNs, inNs), Holding("Tag", TagStringRef, index),
     Plain("array", Items(<<StrVal(abc), Obj(5)>>)) >>

StringCalls ==
  { CallOf(StringNodes(x, y, z, inNs, index), Arr(1), {}, flags, With(6, r, "false")) :
      x \in {StrVal(abc), Obj(3), Obj(4)}, y \in {StrVal(abc), Obj(2), Obj(4), Obj(5)},
      z \in {StrVal(abc), Obj(5)},
      inNs \in {StrVal(abc), Arr(6)}, index \in {Long(0), Long(1), StrVal(abc)},
      flags \in {{"BYTE"}, {"TEXT"}}, r \in {"false", "true", "explicit"} } \cup
  { CallOf(<<Plain("array", Items(<<StrVal(<<"hi">>)>>))>>, Arr(1), {}, flags, With(6, "true", "false")) :
      flags \in {{}, {"BYTE"}, {"TEXT"}, {"TEXT", "UNSAFE_TEXT"}} }

\* A table that grows past every index at which references get longer: after
\* two strings that have an index come strings of every length that matters
\* there, in any order and several times.
Lengthy(n) == SubSeq(<<"b", "c", "a", "b", "c", "a", "b">>, 1, n)
TableCalls ==
  { CallOf(<<Plain("array", Items(<<StrVal(abc), StrVal(<<"a", "b">>), StrVal(abc \o abc)>>
                                  \o [i \in 1..4 |-> StrVal(Lengthy(<<x, y, z, w>>[i]))]))>>,
           Arr(1), {}, {"BYTE"}, With(6, "true", "false")) :
      x \in 3..7, y \in 3..7, z \in 3..7, w \in 3..7 }

-----------------------------------------------------------------------------
(* Maps: keys of arrays, properties and iterators.                          *)

ArrayKeys == {Long(1), Long(-1), Long(10), StrVal(<<"a">>), StrVal(<<"a", "b">>), StrVal(<<"-">>)}
PropertyKeys == { StrVal(s) : s \in { <<"1">>, <<"-", "1">>, <<"a">>, <<"0", "1">>, <<"6", "5", "5", "3", "5">>,
                                      <<"6", "5", "5", "3", "6">>, <<"-", "6", "5", "5", "3", "6">>, << >> } }
IteratorKeys == {Long(1), StrVal(<<"1">>), Obj(2)}

KeyPairs(keys) == { <<k, l>> \in keys \X keys : k # l }
TwoEntries(kl, v) == <<KeyVal(kl[1], v), KeyVal(kl[2], Long(7))>>

\* Node 2 is a map that is not in order itself.
MapNodes(node) == <<node, Plain("stdClass", TwoEntries(<<StrVal(<<"b">>), StrVal(<<"a">>)>>, Null))>>

KeyFlags == { {"BYTE", "KEY_BYTE", "INT_KEY"}, {"BYTE", "KEY_TEXT"}, {"BYTE", "INT_KEY"},
              {"BYTE", "KEY_BYTE", "INT_KEY", "CDE"}, {"BYTE", "KEY_TEXT", "CDE"}, {"KEY_BYTE", "MAP_NO_DUP_KEY"} }

MapCalls ==
  { CallOf(MapNodes(Plain("array", TwoEntries(kl, v))), Arr(1), {}, f, DefaultOptions) :
      kl \in KeyPairs(ArrayKeys), v \in {Long(3), Obj(2)}, f \in KeyFlags } \cup
  { CallOf(MapNodes(Plain("stdClass", TwoEntries(kl, v))), Obj(1), {}, f, DefaultOptions) :
      kl \in KeyPairs(PropertyKeys), v \in {Long(3), Obj(2)}, f \in KeyFlags }

\* Iterators: as many entries as they count, more or fewer, the same key twice
Iterators ==
  { SrcNodeOf("Traversable", count, SubSeq(TwoEntries(kl, v), 1, n), NoParams) :
      kl \in IteratorKeys \X IteratorKeys, v \in {Long(3), Obj(2)}, n \in {0, 1, 2},
      count \in {NotCountable, -1, 0, 1, 2, 3, HtMaxSize + 1} }

IteratorCalls ==
  { CallOf(MapNodes(it), Obj(1), {}, f, DefaultOptions) :
      it \in Iterators, f \in {{"KEY_BYTE"}, {"BYTE", "KEY_BYTE", "MAP_NO_DUP_KEY"}, {"BYTE", "KEY_BYTE", "CDE"}} }

-----------------------------------------------------------------------------
(* Cbor\EncodeParams, one inside of the other, around a map.                *)

ParamChoices ==
  { NoParams, [NoParams EXCEPT !.set = {"CDE"}], [NoParams EXCEPT !.clear = {"CDE"}],
    [NoParams EXCEPT !.set = {"TEXT", "KEY_TEXT"}], [NoParams EXCEPT !.clear = {"BYTE", "KEY_BYTE"}],
    [NoParams EXCEPT !.set = {"BYTE", "TEXT"}], [NoParams EXCEPT !.off = {"uri"}],
    [NoParams EXCEPT !.bad = {"flags"}], [NoParams EXCEPT !.bad = {"flags_clear"}],
    [NoParams EXCEPT !.bad = {"options"}] }

ParamNodes(p, q, v) ==
  << Plain("array", Items(<<Obj(2), StrVal(abc)>>)),
     SrcNodeOf("EncodeParams", 0, <<KeyVal(Undef, Obj(3))>>, p),
     SrcNodeOf("EncodeParams", 0, <<KeyVal(Undef, v)>>, q),
     Plain("stdClass", <<KeyVal(StrVal(<<"b">>), StrVal(abc)), KeyVal(StrVal(<<"a">>), Obj(5))>>),
     Holding("Uri", 0, StrVal(abc)), Holding("Shareable", 0, Long(1)) >>

ParamCalls ==
  { CallOf(ParamNodes(p, q, v), Arr(1), {}, f, With(8, r, s)) :
      p \in ParamChoices, q \in ParamChoices, v \in {Obj(4), Obj(6)},
      f \in {{"BYTE", "KEY_BYTE"}, {"BYTE", "KEY_BYTE", "CDE"}},
      <<r, s>> \in {<<"false", "false">>, <<"false", "true">>, <<"explicit", "false">>} }

-----------------------------------------------------------------------------
(* Single values, the classes of other extensions, and the options.         *)

Scalars ==
  { Null, Scalar("undefobj", 0), Scalar("bool", 1), Long(LongMax), Long(-LongMax - 1),
    Scalar("double", 0), Scalar("double", 1), Scalar("double", 2) }
Singles ==
  { Holding("Float16", 0, Scalar("double", 0)), Holding("Float32", 0, Scalar("double", 0)),
    Holding("Float32", 0, Scalar("double", 1)), Holding("DateTime", 0, StrVal(abc)),
    Holding("DateTime", 1, StrVal(abc)), Holding("Uri", 0, StrVal(abc)), Holding("Uri", 0, StrVal(<<"hi">>)),
    Plain("other", << >>), Holding("Tag", -1, Null), Plain("array", << >>), Plain("stdClass", << >>) } \cup
  { Holding("GMP", sign, v) : sign \in {0, 1}, v \in {Long(1), StrVal(abc)} } \cup
  { SrcNodeOf("Decimal", sign, <<KeyVal(Undef, v), KeyVal(Undef, exp)>>, NoParams) :
      sign \in {0, 1}, v \in {Long(1), StrVal(abc), Scalar("double", 0)}, exp \in {Long(0), Long(-1), Undef} }
FloatFlags == {{}, {"FLOAT16"}, {"FLOAT32"}, {"FLOAT16", "FLOAT32"}, {"CDE", "SELF_DESCRIBE"}}

SingleCalls ==
  { CallOf(<<Plain("array", Items(<<v>>))>>, Arr(1), {}, f, DefaultOptions) : v \in Scalars, f \in FloatFlags } \cup
  { CallOf(<<Plain("array", Items(<<ValueOf(node.c, 2)>>)), node>>, Arr(1), {}, f, DefaultOptions) :
      node \in Singles, f \in FloatFlags } \cup
  { CallOf(<<node>>, Obj(1), {}, {}, [DefaultOptions EXCEPT ![opt] = OptStr("false")]) :
      node \in {n \in Singles : n.c \in DOMAIN ExtOptionOf}, opt \in ExtOption }

OptionChoices ==
  { [DefaultOptions EXCEPT ![opt] = v] : opt \in OptionName,
      v \in {OptLong(0), OptLong(-1), OptLong(MaxDepthLimit), OptLong(MaxDepthLimit + 1),
             OptLong(OptUint32Max + 1), [Absent EXCEPT !.k = "null"],
             OptStr("true"), OptStr("-"), OptStr("explicit"), OptStr("shareable"), OptStr("unsafe_ref")} }
OptionCalls ==
  { CallOf(<<Plain("array", Items(<<Obj(2), Obj(2)>>)), Plain("stdClass", << >>)>>, Arr(1), {}, f, o) :
      o \in OptionChoices, f \in {{}, {"CDE"}, {"KEY_BYTE", "KEY_TEXT"}} }

\* An iterator with keys that are long enough for a string reference
LongKeyCalls ==
  { CallOf(<<SrcNodeOf("Traversable", NotCountable, TwoEntries(<<k, l>>, Long(1)), NoParams)>>, Obj(1), {},
           {"BYTE", "MAP_NO_DUP_KEY"}, With(4, r, "false")) :
      k \in {StrVal(abc), StrVal(<<"a">>)}, l \in {StrVal(abc), StrVal(<<"a">>)}, r \in {"false", "true"} }

-----------------------------------------------------------------------------
MCCalls == SharingCalls \cup StringCalls \cup MapCalls \cup IteratorCalls \cup ParamCalls \cup SingleCalls
           \cup OptionCalls \cup TableCalls
MCAddr == 1..6
MCFresh == { [Plain("stdClass", << >>) EXCEPT !.rc = 1], [Holding("Shareable", 0, Long(1)) EXCEPT !.rc = 1] }

-----------------------------------------------------------------------------
(* Properties of the data.                                                  *)

RECURSIVE Within(_)
\* An item and the items it contains
Within(item) == {item} \cup UNION { Within(item.kids[i]) : i \in DOMAIN item.kids }

RECURSIVE Flat(_)
\* The heads of an item
Flat(item) == <<item.tok>> \o FlattenSeq([i \in DOMAIN item.kids |-> Flat(item.kids[i])])

\* The keys of a map, encoded
MapKeys(map) == [i \in 1..(Len(map.kids) \div 2) |-> Flat(map.kids[2 * i - 1])]
Maps(item) == { m \in Within(item) : m.tok.t \in {"map", "map_start"} }

\* With CBOR_CDE the data is in deterministic encoding: lengths come first,
\* floats have the shortest form and the keys of every map, also of iterators
\* and of maps inside of maps, are in ascending order.
Deterministic ==
  pc = "end" /\ error = "none" /\ "CDE" \in call.flags =>
    LET item == ParseCbor(buf).items[1]
    IN  /\ \A i \in DOMAIN buf : buf[i].t \notin {"map_start", "array_start", "break"}
        /\ \A i \in DOMAIN buf : buf[i].t \in {"float16", "float32", "float64"} =>
             buf[i].t = FloatType(FpSize(buf[i].n))
        /\ \A m \in Maps(item) : \A i \in 1..(Len(MapKeys(m)) - 1) :
             Less(Bytes(MapKeys(m)[i]), Bytes(MapKeys(m)[i + 1]))

\* With CBOR_MAP_NO_DUP_KEY no map of the data has a key twice, if strings are
\* written as they are.
NoDuplicateKeys ==
  pc = "end" /\ error = "none" /\ {"CDE", "MAP_NO_DUP_KEY"} \cap call.flags # {} /\ args.string_ref = "false" =>
    \A m \in Maps(ParseCbor(buf).items[1]) : \A i, j \in DOMAIN MapKeys(m) :
      i # j => MapKeys(m)[i] # MapKeys(m)[j]

\* With CBOR_MAP_NO_DUP_KEY an iterator that yields a key twice is an error,
\* also with string references.
NoDuplicateIteratorKeys ==
  pc = "end" /\ error = "none" /\ "MAP_NO_DUP_KEY" \in call.flags =>
    \A a \in DOMAIN call.heap : call.heap[a].c = "Traversable" =>
      \A i, j \in DOMAIN call.heap[a].ent : i # j => call.heap[a].ent[i].key # call.heap[a].ent[j].key

\* The data has no {shareable} directly inside of a {shareable}, which the
\* decoder does not accept.
NoNestedShareable == pc = "end" => ~HasNestedShareable

-----------------------------------------------------------------------------
\* The graphs and objects are such that the theorems about counts and types apply.
ASSUME GraphsAssumption == GraphsOwned /\ FreshOwned /\ GraphsTyped

=============================================================================
