------------------------- MODULE DecodeZvHeapProofs -------------------------
(***************************************************************************)
(* Proofs about the PHP values DecodeZv makes: that no object is in two     *)
(* places without shared references, and that nothing that is shared is     *)
(* left without its content.                                                *)
(***************************************************************************)
EXTENDS DecodeZvProofs

-----------------------------------------------------------------------------
(* Heaps that grow.                                                         *)

\* Nodes are added and changed but keep their class.
HeapKept(hp, new) ==
  /\ hp \in Seq(Node) /\ new \in Seq(Node)
  /\ Len(new) >= Len(hp)
  /\ \A i \in DOMAIN hp : new[i].c = hp[i].c

\* What is good stays good as the heap grows.
LEMMA GoodGrows ==
  ASSUME NEW hp, NEW new, HeapKept(hp, new)
  PROVE  /\ DOMAIN hp \subseteq DOMAIN new
         /\ \A v : GoodValue(v, hp) => GoodValue(v, new)
         /\ \A v : GoodString(v, hp) => GoodString(v, new)
         /\ \A node, opt : GoodNode(node, hp, opt) => GoodNode(node, new, opt)
         /\ \A item, opt : GoodItem(item, hp, opt) => GoodItem(item, new, opt)
<1>1. DOMAIN hp \subseteq DOMAIN new /\ \A i \in DOMAIN hp : new[i].c = hp[i].c
  BY DEF HeapKept
<1>2. \A v : GoodValue(v, hp) => GoodValue(v, new)
  BY <1>1 DEF GoodValue
<1>3. \A v : GoodString(v, hp) => GoodString(v, new)
  BY <1>1 DEF GoodString
<1>4. \A node, opt : GoodNode(node, hp, opt) => GoodNode(node, new, opt)
  BY <1>2 DEF GoodNode
<1>5. ASSUME NEW item, NEW opt, GoodItem(item, hp, opt) PROVE GoodItem(item, new, opt)
  <2>1. GoodValue(item.v, hp) => GoodValue(item.v, new)
    BY <1>2
  <2>2. item.v.k = "obj" /\ GoodValue(item.v, hp) => item.v.n \in DOMAIN hp
    BY DEF GoodValue, HasNode
  <2> QED BY <1>1, <1>5, <2>1, <2>2 DEF GoodItem
<1> QED BY <1>1, <1>2, <1>3, <1>4, <1>5

\* The heap as it is, or with a node more
LEMMA KeptSame == ASSUME NEW hp \in Seq(Node) PROVE HeapKept(hp, hp)
  BY DEF HeapKept

\* A heap with one more node: the others stay.
LEMMA KeptAppend ==
  ASSUME NEW hp \in Seq(Node), NEW node \in Node
  PROVE  /\ HeapKept(hp, Append(hp, node))
         /\ Len(Append(hp, node)) = Len(hp) + 1
         /\ DOMAIN Append(hp, node) = DOMAIN hp \cup {Len(hp) + 1}
         /\ Append(hp, node)[Len(hp) + 1] = node
         /\ \A i \in DOMAIN hp : Append(hp, node)[i] = hp[i]
<1>1. /\ Append(hp, node) \in Seq(Node) /\ Len(Append(hp, node)) = Len(hp) + 1
      /\ Append(hp, node)[Len(hp) + 1] = node
      /\ \A i \in 1..Len(hp) : Append(hp, node)[i] = hp[i]
  BY AppendProperties
<1> QED BY <1>1 DEF HeapKept

\* ... or with a node that gets other entries, or another content
LEMMA KeptEntries ==
  ASSUME NEW hp \in Seq(Node), NEW i \in DOMAIN hp, NEW e \in Seq(Entry)
  PROVE  /\ HeapKept(hp, [hp EXCEPT ![i].ent = e])
         /\ DOMAIN [hp EXCEPT ![i].ent = e] = DOMAIN hp
         /\ [hp EXCEPT ![i].ent = e][i].ent = e
         /\ [hp EXCEPT ![i].ent = e][i].c = hp[i].c
         /\ \A j \in DOMAIN hp \ {i} : [hp EXCEPT ![i].ent = e][j] = hp[j]
<1>1. /\ [hp EXCEPT ![i].ent = e] \in Seq(Node)
      /\ Len([hp EXCEPT ![i].ent = e]) = Len(hp)
  BY HeapEntType
<1>2. hp[i] \in Node
  OBVIOUS
<1> QED BY <1>1, <1>2 DEF HeapKept, Node

\* A heap with another node in place of one, of the same class
LEMMA KeptNode ==
  ASSUME NEW hp \in Seq(Node), NEW i \in DOMAIN hp, NEW node \in Node, node.c = hp[i].c
  PROVE  /\ HeapKept(hp, [hp EXCEPT ![i] = node])
         /\ DOMAIN [hp EXCEPT ![i] = node] = DOMAIN hp
         /\ [hp EXCEPT ![i] = node][i] = node
         /\ \A j \in DOMAIN hp \ {i} : [hp EXCEPT ![i] = node][j] = hp[j]
<1>1. /\ [hp EXCEPT ![i] = node] \in Seq(Node)
      /\ Len([hp EXCEPT ![i] = node]) = Len(hp)
  BY ExceptAny
<1> QED BY <1>1 DEF HeapKept

\* The entries of a list with an entry stored are those of the list or new.
LEMMA PutEntryValues ==
  ASSUME NEW ent \in Seq(Entry), NEW key, NEW v, NEW e \in DOMAIN PutEntry(ent, key, v)
  PROVE  \/ PutEntry(ent, key, v)[e].v = v
         \/ e \in DOMAIN ent /\ PutEntry(ent, key, v)[e].v = ent[e].v
<1>1. CASE HasKey(ent, key)
  <2>1. e \in DOMAIN ent /\ ent[e] \in Entry
    BY <1>1 DEF PutEntry
  <2> QED BY <1>1, <2>1 DEF PutEntry, Entry
<1>2. CASE ~HasKey(ent, key)
  <2>1. PutEntry(ent, key, v) = Append(ent, [key |-> key, v |-> v])
    BY <1>2 DEF PutEntry
  <2> DEFINE x == [key |-> key, v |-> v]
  <2>2. x.v = v
    OBVIOUS
  <2> HIDE DEF x
  <2>3. e \in 1..(Len(ent) + 1) /\ Append(ent, x)[e] = IF e = Len(ent) + 1 THEN x ELSE ent[e]
    BY <2>1 DEF x
  <2> QED BY <2>1, <2>2, <2>3 DEF x
<1> QED BY <1>1, <1>2

\* What a wrapper holds
LEMMA HolderFields ==
  ASSUME NEW class, NEW id, NEW v
  PROVE  LET node == Holder(class, id, v)
         IN  node.c = class /\ DOMAIN node.ent = {1} /\ node.ent[1].v = v
  BY DEF Holder

\* The node of a class with one value is good if the class allows the value.
LEMMA HolderGood ==
  ASSUME NEW class, NEW id, NEW v, NEW hp, GoodValue(v, hp),
         class \in {"Byte", "Text"} => v.k = "str",
         class = "Shareable" => args.shared_ref \in {"shareable", "shareable_only"},
         class = "reference" => args.shared_ref = "unsafe_ref"
  PROVE  GoodNode(Holder(class, id, v), hp, args.shared_ref)
  BY HolderFields DEF GoodNode

\* A value that has no node is good in every heap.
LEMMA PlainGood ==
  ASSUME NEW v, v.k \notin {"arr", "obj", "ref"} PROVE \A hp : GoodValue(v, hp) /\ ~HasNode(v)
  BY DEF GoodValue, HasNode

-----------------------------------------------------------------------------
(* What a step adds to the heap and to what refers to it.                   *)

GoodStep ==
  /\ HeapKept(heap, heap')
  /\ GoodValue(val', heap')
  /\ \A i \in DOMAIN stack' :
       (i \in DOMAIN stack /\ stack'[i] = stack[i]) \/ GoodItem(stack'[i], heap', args.shared_ref)
  /\ \A t \in DOMAIN srns' : \A e \in DOMAIN srns'[t] :
       \/ t \in DOMAIN srns /\ e \in DOMAIN srns[t] /\ srns'[t][e] = srns[t][e]
       \/ GoodString(srns'[t][e], heap')
  /\ \A i \in DOMAIN refs' : (i \in DOMAIN refs /\ refs'[i] = refs[i]) \/ GoodValue(refs'[i], heap')
  /\ \A i \in DOMAIN heap' : (i \in DOMAIN heap /\ heap'[i] = heap[i]) \/ GoodNode(heap'[i], heap', args.shared_ref)

\* A step that adds what is good keeps the heap good.
LEMMA GoodKept ==
  ASSUME GoodHeap, StepOK, Live' => GoodStep, root' \in {root, val} PROVE GoodHeap'
<1> SUFFICES ASSUME Live' PROVE GoodHeap'
  BY DEF GoodHeap
<1>1. Live /\ args' = args
  BY DEF StepOK
<1>2. GoodStep
  OBVIOUS
<1>3. /\ \A v : GoodValue(v, heap) => GoodValue(v, heap')
      /\ \A v : GoodString(v, heap) => GoodString(v, heap')
      /\ \A node, opt : GoodNode(node, heap, opt) => GoodNode(node, heap', opt)
      /\ \A item, opt : GoodItem(item, heap, opt) => GoodItem(item, heap', opt)
  BY <1>2, GoodGrows DEF GoodStep
<1>4. /\ GoodValue(val', heap') /\ GoodValue(root', heap')
      /\ \A i \in DOMAIN stack' : GoodItem(stack'[i], heap', args.shared_ref)
      /\ \A t \in DOMAIN srns' : \A e \in DOMAIN srns'[t] : GoodString(srns'[t][e], heap')
      /\ \A i \in DOMAIN refs' : GoodValue(refs'[i], heap')
      /\ \A i \in DOMAIN heap' : GoodNode(heap'[i], heap', args.shared_ref)
  BY <1>1, <1>2, <1>3 DEF GoodStep, GoodHeap
<1> QED BY <1>1, <1>4 DEF GoodHeap

\* The parts that a step leaves alone
LEMMA SameHeap ==
  ASSUME TypeOK, heap' = heap
  PROVE  /\ HeapKept(heap, heap')
         /\ \A i \in DOMAIN heap' : i \in DOMAIN heap /\ heap'[i] = heap[i]
  BY KeptSame DEF TypeOK

\* A step that only hands a value on or takes it
LEMMA SameGood ==
  ASSUME TypeOK, heap' = heap, srns' = srns, refs' = refs, GoodValue(val', heap),
         \A i \in DOMAIN stack' :
           (i \in DOMAIN stack /\ stack'[i] = stack[i]) \/ GoodItem(stack'[i], heap, args.shared_ref)
  PROVE  GoodStep
  BY SameHeap DEF GoodStep

\* A step that makes a node
LEMMA NewGood ==
  ASSUME TypeOK, NEW node \in Node, heap' = Append(heap, node), GoodNode(node, heap', args.shared_ref),
         refs' = refs, srns' = srns, GoodValue(val', heap'),
         \A i \in DOMAIN stack' :
           (i \in DOMAIN stack /\ stack'[i] = stack[i]) \/ GoodItem(stack'[i], heap', args.shared_ref)
  PROVE  GoodStep
<1>1. heap \in Seq(Node)
  BY DEF TypeOK
<1>2. /\ HeapKept(heap, heap')
      /\ DOMAIN heap' = DOMAIN heap \cup {Len(heap) + 1} /\ heap'[Len(heap) + 1] = node
      /\ \A i \in DOMAIN heap : heap'[i] = heap[i]
  BY <1>1, KeptAppend
<1> QED BY <1>2 DEF GoodStep

\* The value of a node that a step makes
LEMMA FreshGood ==
  ASSUME TypeOK, NEW node \in Node, heap' = Append(heap, node)
  PROVE  /\ GoodValue(Obj, heap') /\ GoodValue(Arr, heap')
         /\ node.c = "reference" => GoodValue(Ref, heap')
         /\ Obj.k = "obj" /\ Arr.k = "arr" /\ Ref.k = "ref"
         /\ Obj.n = Len(heap) + 1 /\ Arr.n = Len(heap) + 1 /\ Ref.n = Len(heap) + 1
         /\ Len(heap) + 1 \in DOMAIN heap' /\ heap'[Len(heap) + 1] = node
<1>1. heap \in Seq(Node)
  BY DEF TypeOK
<1>2. DOMAIN heap' = DOMAIN heap \cup {Len(heap) + 1} /\ heap'[Len(heap) + 1] = node
  BY <1>1, KeptAppend
<1> QED BY <1>2 DEF Obj, Arr, Ref, NewNode, Scalar, GoodValue, HasNode

\* What the item on top holds, and what is below it
LEMMA GoodTop ==
  ASSUME TypeOK, GoodHeap, Live, stack # << >>
  PROVE  /\ Top \in Item /\ GoodItem(Top, heap, args.shared_ref)
         /\ \A i \in DOMAIN Below : i \in DOMAIN stack /\ Below[i] = stack[i]
<1>1. Top \in Item /\ Len(stack) \in DOMAIN stack
  BY TopType DEF TypeOK
<1>2. \A i \in 1..(Len(stack) - 1) : Below[i] = stack[i]
  BY BelowType DEF TypeOK
<1>3. DOMAIN Below = 1..(Len(stack) - 1)
  <2>1. Below \in Seq(Item) /\ Len(Below) = Len(stack) - 1
    BY BelowType DEF TypeOK
  <2> QED BY <2>1
<1> QED BY <1>1, <1>2, <1>3 DEF GoodHeap, Top, TypeOK

\* A changed item on top
LEMMA GoodSetTop ==
  ASSUME TypeOK, GoodHeap, Live, stack # << >>, NEW item, SetTop(item), NEW hp, HeapKept(heap, hp),
         item.si_type = Top.si_type, item.thi = Top.thi, item.v = Top.v,
         item.count = Top.count \/ Top.si_type \notin {"tag", "tag_handled"}
  PROVE  \A i \in DOMAIN stack' :
           (i \in DOMAIN stack /\ stack'[i] = stack[i]) \/ GoodItem(stack'[i], hp, args.shared_ref)
<1>1. GoodItem(Top, heap, args.shared_ref)
  BY GoodTop
<1>2. GoodItem(Top, hp, args.shared_ref)
  BY <1>1, GoodGrows
<1>3. GoodItem(item, hp, args.shared_ref)
  BY <1>2 DEF GoodItem
<1>4. \A i \in DOMAIN stack' : i \in DOMAIN stack /\ (stack'[i] = stack[i] \/ stack'[i] = item)
  BY DEF SetTop, TypeOK
<1> QED BY <1>3, <1>4


-----------------------------------------------------------------------------
(* zv_append.                                                               *)

\* A callback that fails ends the context.
LEMMA RaiseDead == ASSUME NEW e, e # "none", Raise(e) PROVE ~Live'
  BY DEF Raise, Live

\* UNDEF and NULL have no node.
LEMMA UndefGood == \A hp : GoodValue(Undef, hp) /\ GoodValue(Null, hp)
  BY DEF Undef, Null, Scalar, GoodValue, HasNode

\* The end of zv_append_to_array and zv_append_to_map
LEMMA CountDownGood ==
  ASSUME TypeOK, GoodHeap, Live, stack # << >>, Top.si_type \in {"array", "map"}, HeapKept(heap, heap'),
         NEW item, item.si_type = Top.si_type, item.thi = Top.thi, item.v = Top.v, CountDown(item)
  PROVE  /\ GoodValue(val', heap')
         /\ \A i \in DOMAIN stack' :
              (i \in DOMAIN stack /\ stack'[i] = stack[i]) \/ GoodItem(stack'[i], heap', args.shared_ref)
<1>1. GoodItem(Top, heap', args.shared_ref)
  BY GoodTop, GoodGrows
<1>2. CASE CountDown(item) /\ item.count = 1
  <2>1. stack' = Below /\ val' = Top.v
    BY <1>2 DEF CountDown, stack_pop_item, CallAppend
  <2>2. GoodValue(Top.v, heap')
    BY <1>1 DEF GoodItem, GoodValue, HasNode
  <2> QED BY <2>1, <2>2, GoodTop
<1>3. CASE CountDown(item) /\ item.count # 1
  <2> DEFINE x == [item EXCEPT !.count = IF @ = 0 THEN 0 ELSE @ - 1]
  <2>1. stack' = [stack EXCEPT ![Len(stack)] = x] /\ val' = Undef
    BY <1>3 DEF CountDown, Return
  <2>2. \E y : /\ SetTop(y) /\ y.si_type = item.si_type /\ y.thi = item.thi /\ y.v = item.v
    <3>1. SetTop(x)
      BY <2>1 DEF SetTop
    <3>2. x.si_type = item.si_type /\ x.thi = item.thi /\ x.v = item.v
      OBVIOUS
    <3> QED BY <3>1, <3>2
  <2> HIDE DEF x
  <2>3. PICK y : SetTop(y) /\ y.si_type = item.si_type /\ y.thi = item.thi /\ y.v = item.v
    BY <2>2
  <2> QED BY <2>1, <2>3, GoodSetTop, UndefGood
<1> QED BY <1>2, <1>3

\* A node that gets other entries
LEMMA EntriesGood ==
  ASSUME TypeOK, GoodHeap, Live, NEW n \in DOMAIN heap, NEW ent \in Seq(Entry),
         heap[n].c \in {"array", "stdClass"},
         \A e \in DOMAIN ent : GoodValue(ent[e].v, heap),
         heap' = [heap EXCEPT ![n].ent = ent]
  PROVE  /\ HeapKept(heap, heap')
         /\ \A i \in DOMAIN heap' :
              (i \in DOMAIN heap /\ heap'[i] = heap[i]) \/ GoodNode(heap'[i], heap', args.shared_ref)
<1>1. heap \in Seq(Node)
  BY DEF TypeOK
<1>2. /\ HeapKept(heap, heap') /\ DOMAIN heap' = DOMAIN heap
      /\ heap'[n].ent = ent /\ heap'[n].c = heap[n].c
      /\ \A j \in DOMAIN heap \ {n} : heap'[j] = heap[j]
  BY <1>1, KeptEntries
<1>3. \A e \in DOMAIN ent : GoodValue(ent[e].v, heap')
  BY <1>2, GoodGrows
<1>4. GoodNode(heap'[n], heap', args.shared_ref)
  BY <1>2, <1>3 DEF GoodNode
<1> QED BY <1>2, <1>4

\* A value that is stored
LEMMA PutGood ==
  ASSUME TypeOK, GoodHeap, Live, NEW n \in DOMAIN heap, heap[n].c \in {"array", "stdClass"},
         NEW key \in Value, NEW v \in Value, GoodValue(v, heap),
         heap' = [heap EXCEPT ![n].ent = PutEntry(heap[n].ent, key, v)]
  PROVE  /\ HeapKept(heap, heap')
         /\ \A i \in DOMAIN heap' :
              (i \in DOMAIN heap /\ heap'[i] = heap[i]) \/ GoodNode(heap'[i], heap', args.shared_ref)
<1> DEFINE ent == PutEntry(heap[n].ent, key, v)
<1>1. heap[n].ent \in Seq(Entry)
  BY NodeType DEF TypeOK
<1>2. ent \in Seq(Entry)
  BY <1>1, PutEntryType
<1>3. \A e \in DOMAIN heap[n].ent : GoodValue(heap[n].ent[e].v, heap)
  BY DEF GoodHeap, GoodNode
<1>4. \A e \in DOMAIN ent : GoodValue(ent[e].v, heap)
  BY <1>1, <1>3, PutEntryValues
<1>5. heap' = [heap EXCEPT ![n].ent = ent]
  OBVIOUS
<1> HIDE DEF ent
<1> QED BY <1>2, <1>4, <1>5, EntriesGood

\* A reference or Cbor\Shareable that gets its content
LEMMA FillGood ==
  ASSUME TypeOK, GoodHeap, Live, NEW n \in DOMAIN heap, NEW class \in {"reference", "Shareable"}, heap[n].c = class,
         NEW v \in Value, GoodValue(v, heap), heap' = [heap EXCEPT ![n] = Holder(class, 0, v)]
  PROVE  /\ HeapKept(heap, heap')
         /\ \A i \in DOMAIN heap' :
              (i \in DOMAIN heap /\ heap'[i] = heap[i]) \/ GoodNode(heap'[i], heap', args.shared_ref)
<1> DEFINE node == Holder(class, 0, v)
<1>1. heap \in Seq(Node) /\ node \in Node
  <2>1. class \in Class /\ 0 \in Int
    BY DEF Class
  <2>2. node \in Node
    BY <2>1, HolderType
  <2> HIDE DEF node
  <2> QED BY <2>2 DEF TypeOK
<1>2. node.c = heap[n].c
  BY HolderFields
<1>3. heap' = [heap EXCEPT ![n] = node]
  OBVIOUS
<1>4. GoodNode(heap[n], heap, args.shared_ref)
  BY DEF GoodHeap
<1>5. GoodNode(node, heap, args.shared_ref)
  BY <1>4, HolderGood DEF GoodNode
<1> HIDE DEF node
<1>6. /\ HeapKept(heap, [heap EXCEPT ![n] = node]) /\ DOMAIN [heap EXCEPT ![n] = node] = DOMAIN heap
      /\ [heap EXCEPT ![n] = node][n] = node /\ \A j \in DOMAIN heap \ {n} : [heap EXCEPT ![n] = node][j] = heap[j]
  BY ONLY <1>1, <1>2, n \in DOMAIN heap, KeptNode
<1>7. /\ HeapKept(heap, heap') /\ DOMAIN heap' = DOMAIN heap
      /\ heap'[n] = node /\ \A j \in DOMAIN heap \ {n} : heap'[j] = heap[j]
  BY ONLY <1>3, <1>6
<1>8. GoodNode(node, heap', args.shared_ref)
  BY <1>5, <1>7, GoodGrows
<1> QED BY <1>7, <1>8

\* A property that is written, or what it refers to
LEMMA WriteGood ==
  ASSUME TypeOK, GoodHeap, Live, NEW n \in DOMAIN heap, heap[n].c = "stdClass",
         NEW key \in Value, NEW v \in Value, GoodValue(v, heap), heap' = WriteProperty(n, key, v)
  PROVE  /\ HeapKept(heap, heap')
         /\ \A i \in DOMAIN heap' :
              (i \in DOMAIN heap /\ heap'[i] = heap[i]) \/ GoodNode(heap'[i], heap', args.shared_ref)
<1> DEFINE ent == heap[n].ent
           held == {i \in DOMAIN ent : ent[i].key = key /\ ent[i].v.k = "ref"}
<1>1. CASE held = {}
  <2>1. heap' = [heap EXCEPT ![n].ent = PutEntry(heap[n].ent, key, v)]
    BY <1>1 DEF WriteProperty
  <2> QED BY <2>1, PutGood
<1>2. CASE held # {}
  <2> DEFINE i == CHOOSE i \in held : TRUE
  <2>1. i \in held
    BY <1>2
  <2>2. heap' = [heap EXCEPT ![ent[i].v.n] = Holder("reference", 0, v)]
    BY <1>2 DEF WriteProperty
  <2> HIDE DEF i
  <2>3. GoodValue(ent[i].v, heap) /\ ent[i].v.k = "ref"
    BY <2>1 DEF GoodHeap, GoodNode
  <2>4. ent[i].v.n \in DOMAIN heap /\ heap[ent[i].v.n].c = "reference"
    BY <2>3 DEF GoodValue
  <2> DEFINE m == ent[i].v.n
  <2>5. heap' = [heap EXCEPT ![m] = Holder("reference", 0, v)] /\ m \in DOMAIN heap /\ heap[m].c = "reference"
    BY <2>2, <2>4
  <2> HIDE DEF m
  <2> QED BY <2>5, FillGood
<1> QED BY <1>1, <1>2

\* zv_append gives the root its value.
LEMMA AppendRootGood == ASSUME IInv, GoodHeap, Live, AppendRoot, Live' PROVE GoodStep
<1>1. TypeOK
  BY DEF IInv
<1>2. ~Raise("INT_RANGE")
  BY RaiseDead
<1>3. val' = Undef /\ UNCHANGED <<stack, srns, refs, heap>>
  BY <1>2 DEF AppendRoot, Return, stackVars
<1> QED BY <1>1, <1>3, UndefGood, SameGood

\* A chunk of a wrong type is always an error.
LEMMA AppendToStringGood == ASSUME IInv, GoodHeap, Live, AppendToString, Live' PROVE GoodStep
  BY RaiseDead DEF AppendToString

\* The element goes to the array of the item on top.
LEMMA AppendToArrayGood == ASSUME IInv, GoodHeap, Live, AppendToArray, Live' PROVE GoodStep
<1>1. TypeOK /\ stack # << >> /\ Top.si_type = "array" /\ srns' = srns /\ refs' = refs
  BY DEF IInv, AppendToArray, AtAppend
<1> DEFINE n == Top.v.n
           ent == heap[n].ent
           e == [key |-> Scalar("long", Len(ent)), v |-> val]
           new == Append(ent, e)
<1>2. ~Raise("INT_RANGE") /\ ~Raise("UNSUPPORTED_SIZE")
  BY RaiseDead
<1>3. heap' = [heap EXCEPT ![n].ent = new] /\ CountDown(Top)
  BY <1>2 DEF AppendToArray
<1>4. n \in DOMAIN heap /\ heap[n].c \in {"array", "stdClass"}
  BY <1>1, GoodTop DEF GoodItem
<1>5. ent \in Seq(Entry) /\ e \in Entry
  <2>1. ent \in Seq(Entry)
    BY <1>1, <1>4, NodeType DEF TypeOK
  <2>2. Scalar("long", Len(ent)) \in Value
    <3>1. Len(ent) \in Int
      BY <2>1
    <3> QED BY <3>1, ScalarType DEF Kind
  <2> QED BY <1>1, <2>1, <2>2 DEF TypeOK, Entry
<1>6. \A i \in DOMAIN ent : GoodValue(ent[i].v, heap)
  BY <1>4 DEF GoodHeap, GoodNode
<1>7. GoodValue(e.v, heap)
  BY DEF GoodHeap
<1> HIDE DEF n, ent, e
<1>8. new \in Seq(Entry) /\ \A i \in DOMAIN new : GoodValue(new[i].v, heap)
  <2>1. \A i \in DOMAIN new : (i \in DOMAIN ent /\ new[i] = ent[i]) \/ new[i] = e
    BY <1>5
  <2> QED BY <1>5, <1>6, <1>7, <2>1
<1> HIDE DEF new
<1>9. /\ HeapKept(heap, heap')
      /\ \A i \in DOMAIN heap' :
           (i \in DOMAIN heap /\ heap'[i] = heap[i]) \/ GoodNode(heap'[i], heap', args.shared_ref)
  BY <1>1, <1>3, <1>4, <1>8, EntriesGood DEF n
<1>10. /\ GoodValue(val', heap')
       /\ \A i \in DOMAIN stack' :
            (i \in DOMAIN stack /\ stack'[i] = stack[i]) \/ GoodItem(stack'[i], heap', args.shared_ref)
  BY <1>1, <1>3, <1>9, CountDownGood
<1> QED BY <1>1, <1>9, <1>10 DEF GoodStep

\* The key goes to the item of the map.
LEMMA AppendMapKeyGood == ASSUME IInv, GoodHeap, Live, AppendMapKey, Live' PROVE GoodStep
<1>1. TypeOK /\ stack # << >> /\ Top.si_type = "map" /\ UNCHANGED <<srns, refs, heap>>
  BY DEF IInv, AppendMapKey, AtAppend, zvVars
<1> DEFINE item == [Top EXCEPT !.extra = IF Top.count = 0 THEN @ + 1 ELSE @]
           x == [item EXCEPT !.key = val]
<1>2. ~Raise("UNSUPPORTED_SIZE") /\ ~Raise("UNSUPPORTED_KEY_TYPE")
  BY RaiseDead
<1>3. SetTop(x) /\ val' = Undef
  BY <1>2 DEF AppendMapKey, Return
<1>4. x.si_type = Top.si_type /\ x.thi = Top.thi /\ x.v = Top.v /\ x.count = Top.count
  OBVIOUS
<1> HIDE DEF x
<1>5. HeapKept(heap, heap)
  BY <1>1, KeptSame DEF TypeOK
<1>6. \A i \in DOMAIN stack' :
        (i \in DOMAIN stack /\ stack'[i] = stack[i]) \/ GoodItem(stack'[i], heap, args.shared_ref)
  BY <1>1, <1>3, <1>4, <1>5, GoodSetTop
<1> QED BY <1>1, <1>3, <1>6, UndefGood, SameGood

\* The entry goes to the map of the item on top.
LEMMA AppendMapValueGood == ASSUME IInv, GoodHeap, Live, AppendMapValue, Live' PROVE GoodStep
<1>1. TypeOK /\ stack # << >> /\ Top.si_type = "map" /\ srns' = srns /\ refs' = refs
  BY DEF IInv, AppendMapValue, AtAppend
<1> DEFINE n == Top.v.n
           key == DestKey(Top)
           item == [Top EXCEPT !.key = Undef]
<1>2. ~Raise("INT_RANGE") /\ ~Raise("UNSUPPORTED_KEY_VALUE") /\ ~Raise("DUPLICATE_KEY")
  BY RaiseDead
<1>3. /\ heap' = IF Top.v.k = "obj" THEN WriteProperty(n, key, val)
                 ELSE [heap EXCEPT ![n].ent = PutEntry(@, key, val)]
      /\ CountDown(item)
  BY <1>2 DEF AppendMapValue
<1>4. n \in DOMAIN heap /\ heap[n].c = IF Top.v.k = "obj" THEN "stdClass" ELSE "array"
  BY <1>1, GoodTop DEF GoodItem
<1>5. key \in Value
  BY <1>1, TopType, DestKeyType DEF TypeOK, Item
<1>6. val \in Value /\ GoodValue(val, heap)
  BY <1>1 DEF TypeOK, GoodHeap
<1>7. item.si_type = Top.si_type /\ item.thi = Top.thi /\ item.v = Top.v
  OBVIOUS
<1> HIDE DEF n, key, item
<1>8. /\ HeapKept(heap, heap')
      /\ \A i \in DOMAIN heap' :
           (i \in DOMAIN heap /\ heap'[i] = heap[i]) \/ GoodNode(heap'[i], heap', args.shared_ref)
  <2>1. CASE Top.v.k = "obj"
    BY <1>1, <1>3, <1>4, <1>5, <1>6, <2>1, WriteGood
  <2>2. CASE Top.v.k # "obj"
    <3>1. heap' = [heap EXCEPT ![n].ent = PutEntry(heap[n].ent, key, val)]
      BY <1>3, <1>4, <2>2
    <3> QED BY <1>1, <1>4, <1>5, <1>6, <2>2, <3>1, PutGood
  <2> QED BY <2>1, <2>2
<1>9. /\ GoodValue(val', heap')
      /\ \A i \in DOMAIN stack' :
           (i \in DOMAIN stack /\ stack'[i] = stack[i]) \/ GoodItem(stack'[i], heap', args.shared_ref)
  BY <1>1, <1>3, <1>7, <1>8, CountDownGood
<1> QED BY <1>1, <1>8, <1>9 DEF GoodStep

\* What a reference refers to is good.
LEMMA DerefGood ==
  ASSUME TypeOK, GoodHeap, Live, NEW v, GoodValue(v, heap) PROVE GoodValue(Deref(v), heap)
<1>1. CASE v.k = "ref" /\ v.n \in DOMAIN heap /\ heap[v.n].ent # << >>
  <2>1. heap[v.n].ent \in Seq(Entry)
    BY <1>1, NodeType DEF TypeOK
  <2>2. 1 \in DOMAIN heap[v.n].ent
    BY <1>1, <2>1
  <2> QED BY <1>1, <2>2 DEF Deref, GoodHeap, GoodNode
<1>2. CASE ~(v.k = "ref" /\ v.n \in DOMAIN heap /\ heap[v.n].ent # << >>)
  BY <1>2 DEF Deref
<1> QED BY <1>1, <1>2

\* A new wrapper
LEMMA NewHolder ==
  ASSUME TypeOK, NEW class \in Class, NEW id \in Int, NEW v \in Value, GoodValue(v, heap),
         class \in {"Byte", "Text"} => v.k = "str",
         class = "Shareable" => args.shared_ref \in {"shareable", "shareable_only"},
         class = "reference" => args.shared_ref = "unsafe_ref",
         heap' = Append(heap, Holder(class, id, v))
  PROVE  /\ HeapKept(heap, heap')
         /\ \E node \in Node :
              heap' = Append(heap, node) /\ node.c = class /\ GoodNode(node, heap', args.shared_ref)
         /\ \A i \in DOMAIN heap' :
              (i \in DOMAIN heap /\ heap'[i] = heap[i]) \/ GoodNode(heap'[i], heap', args.shared_ref)
         /\ GoodValue(Obj, heap')
         /\ class = "reference" => GoodValue(Ref, heap')
<1> DEFINE node == Holder(class, id, v)
<1>1. node \in Node
  BY HolderType
<1>2. node.c = class
  BY HolderFields
<1>3. heap' = Append(heap, node) /\ heap \in Seq(Node)
  BY DEF TypeOK
<1>4. GoodNode(node, heap, args.shared_ref)
  BY HolderGood
<1> HIDE DEF node
<1>5. /\ HeapKept(heap, heap') /\ DOMAIN heap' = DOMAIN heap \cup {Len(heap) + 1}
      /\ heap'[Len(heap) + 1] = node /\ \A i \in DOMAIN heap : heap'[i] = heap[i]
  BY <1>1, <1>3, KeptAppend
<1>6. GoodNode(node, heap', args.shared_ref)
  BY <1>4, <1>5, GoodGrows
<1>7. GoodValue(Obj, heap') /\ (node.c = "reference" => GoodValue(Ref, heap'))
  BY <1>1, <1>3, FreshGood
<1> QED BY <1>1, <1>2, <1>3, <1>5, <1>6, <1>7

\* The content of a tag goes to a Cbor\Tag.
LEMMA AppendToTagGood == ASSUME IInv, GoodHeap, Live, AppendToTag, Live' PROVE GoodStep
<1>1. TypeOK /\ stack # << >> /\ srns' = srns /\ refs' = refs
  BY DEF IInv, AppendToTag, AtAppend
<1>2. ~Raise("INT_RANGE")
  BY RaiseDead
<1>3. heap' = Append(heap, Holder("Tag", Top.id, Deref(val))) /\ stack' = Below /\ val' = Obj
  BY <1>2 DEF AppendToTag, stack_pop_item, CallAppend
<1>4. Top.id \in Int /\ "Tag" \in Class /\ Deref(val) \in Value
  BY <1>1, TopType, DerefType DEF TypeOK, Item, Class
<1>5. GoodValue(Deref(val), heap)
  BY <1>1, DerefGood DEF GoodHeap
<1>6. /\ HeapKept(heap, heap') /\ GoodValue(Obj, heap')
      /\ \A i \in DOMAIN heap' :
           (i \in DOMAIN heap /\ heap'[i] = heap[i]) \/ GoodNode(heap'[i], heap', args.shared_ref)
  BY <1>1, <1>3, <1>4, <1>5, NewHolder
<1> QED BY <1>1, <1>3, <1>6, GoodTop DEF GoodStep

-----------------------------------------------------------------------------
(* The exit handlers.                                                       *)

\* The values of the exit handlers: the value itself, ...
LEMMA StrRefNsExitGood == ASSUME IInv, GoodHeap, Live, StrRefNsExit, Live' PROVE GoodStep
<1>1. TypeOK /\ stack # << >> /\ refs' = refs /\ heap' = heap /\ val' = val /\ stack' = Below
      /\ srns' = SubSeq(srns, 1, Len(srns) - 1)
  BY DEF IInv, StrRefNsExit, AtExit, AtAppend, stack_pop_item, CallAppend
<1>2. srns # << >>
  <2>1. stack[Len(stack)].thi = "str_ref_ns" /\ Len(stack) \in DOMAIN stack
    BY <1>1, TopType DEF StrRefNsExit, AtExit, Top, TypeOK
  <2> QED BY <1>1, <2>1, NamespaceExists DEF IInv
<1>3. \A t \in DOMAIN srns' : t \in DOMAIN srns /\ srns'[t] = srns[t]
  <2>1. srns \in Seq(Seq(Value))
    BY <1>1 DEF TypeOK
  <2>2. srns' \in Seq(Seq(Value)) /\ Len(srns') = Len(srns) - 1 /\ \A i \in 1..(Len(srns) - 1) : srns'[i] = srns[i]
    BY <1>1, <1>2, <2>1, FrontType
  <2>3. Len(srns) \in Nat /\ DOMAIN srns = 1..Len(srns) /\ DOMAIN srns' = 1..(Len(srns) - 1)
    BY <2>1, <2>2
  <2> QED BY <2>2, <2>3
<1>4. GoodValue(val, heap)
  BY DEF GoodHeap
<1> QED BY <1>1, <1>3, <1>4, GoodTop, SameHeap DEF GoodStep

\* ... a string of the innermost table, an object being cloned, ...
LEMMA StrRefExitGood == ASSUME IInv, GoodHeap, Live, StrRefExit, Live' PROVE GoodStep
<1>1. TypeOK /\ stack # << >> /\ refs' = refs /\ srns' = srns /\ stack' = Below
  BY DEF IInv, StrRefExit, AtExit, AtAppend, stack_pop_item
<1>2. ~Raise("TAG_TYPE_STR_REF_NOT_INT") /\ ~Raise("TAG_VALUE_STR_REF_RANGE")
  BY RaiseDead
<1> DEFINE str == srns[Len(srns)][val.n + 1]
<1>3. /\ val.n \in 0..(Len(srns[Len(srns)]) - 1)
      /\ \/ str.k # "obj" /\ val' = str /\ heap' = heap
         \/ str.k = "obj" /\ val' = Obj /\ heap' = Append(heap, heap[str.n])
  BY <1>2 DEF StrRefExit, CallAppend
<1>4. srns # << >> /\ Len(srns) > 0 /\ srns[Len(srns)] \in Seq(Value)
  <2>1. NeedsNamespace(stack[Len(stack)]) /\ Len(stack) \in DOMAIN stack
    BY <1>1, TopType DEF StrRefExit, AtExit, Top, TypeOK, NeedsNamespace
  <2> QED BY <1>1, <2>1, NamespaceExists DEF IInv
<1>5. Len(srns) \in DOMAIN srns /\ val.n + 1 \in DOMAIN srns[Len(srns)]
  BY <1>1, <1>3, <1>4 DEF TypeOK
<1>6. GoodString(str, heap)
  BY <1>5 DEF GoodHeap
<1> HIDE DEF str
<1>7. CASE str.k # "obj"
  <2>1. GoodValue(str, heap)
    BY <1>6, <1>7 DEF GoodString, GoodValue, HasNode
  <2> QED BY <1>1, <1>3, <1>7, <2>1, GoodTop, SameGood
<1>8. CASE str.k = "obj"
  <2> DEFINE node == heap[str.n]
  <2>1. str.n \in DOMAIN heap
    BY <1>6, <1>8 DEF GoodString
  <2>2. node \in Node /\ GoodNode(node, heap, args.shared_ref)
    BY <1>1, <2>1 DEF TypeOK, GoodHeap
  <2>3. heap' = Append(heap, node) /\ val' = Obj
    BY <1>3, <1>8
  <2> HIDE DEF node
  <2>4. HeapKept(heap, heap') /\ GoodValue(Obj, heap')
    BY <1>1, <2>2, <2>3, KeptAppend, FreshGood DEF TypeOK
  <2>5. GoodNode(node, heap', args.shared_ref)
    BY <2>2, <2>4, GoodGrows
  <2> QED BY <1>1, <2>2, <2>3, <2>4, <2>5, GoodTop, NewGood
<1> QED BY <1>7, <1>8

\* ... the value of an index, ...
LEMMA SharedRefExitGood == ASSUME IInv, GoodHeap, Live, SharedRefExit, Live' PROVE GoodStep
<1>1. TypeOK /\ stack # << >> /\ UNCHANGED <<refs, srns, heap>> /\ stack' = Below
  BY DEF IInv, SharedRefExit, AtExit, AtAppend, stack_pop_item, zvVars
<1>2. ~Raise("TAG_TYPE_SHARE_NOT_INT") /\ ~Raise("TAG_VALUE_SHARE_RANGE")
  BY RaiseDead
<1>3. val.n \in 0..(Len(refs) - 1) /\ val' = refs[val.n + 1]
  BY <1>2 DEF SharedRefExit, CallAppend
<1>4. val.n + 1 \in DOMAIN refs
  BY <1>1, <1>3 DEF TypeOK
<1>5. GoodValue(val', heap)
  BY <1>3, <1>4 DEF GoodHeap
<1> QED BY <1>1, <1>5, GoodTop, SameGood

\* An index that gets its value
LEMMA RefsGood ==
  ASSUME refs \in Seq(Value), NEW j, NEW v, refs' = [refs EXCEPT ![j] = v], NEW hp, GoodValue(v, hp)
  PROVE  \A i \in DOMAIN refs' : (i \in DOMAIN refs /\ refs'[i] = refs[i]) \/ GoodValue(refs'[i], hp)
  OBVIOUS

\* ... and the value of a {shareable}, whether it is made here ...
LEMMA ShareableExitLeafGood ==
  ASSUME IInv, GoodHeap, Live, ShareableExitLeaf, Live' PROVE GoodStep
<1>1. TypeOK /\ stack # << >> /\ srns' = srns /\ stack' = Below
  BY DEF IInv, ShareableExitLeaf, AtExit, AtAppend, stack_pop_item
<1>2. ~Raise("INT_RANGE") /\ ~Raise("TAG_TYPE_SHARE_INCOMPATIBLE")
  BY RaiseDead
<1>3. \/ ShareLeaf(val) /\ heap' = heap
      \/ args.shared_ref = "unsafe_ref" /\ ShareLeaf(Ref) /\ heap' = Append(heap, Holder("reference", 0, val))
      \/ /\ args.shared_ref \in {"shareable", "shareable_only"}
         /\ ShareLeaf(Obj) /\ heap' = Append(heap, Holder("Shareable", 0, val))
  BY <1>2 DEF ShareableExitLeaf
<1>4. refs \in Seq(Value) /\ val \in Value /\ GoodValue(val, heap)
  BY <1>1 DEF TypeOK, GoodHeap
<1>5. HeapKept(heap, heap') /\ GoodValue(val', heap') /\ refs' = [refs EXCEPT ![Top.index + 1] = val']
      /\ \A i \in DOMAIN heap' :
           (i \in DOMAIN heap /\ heap'[i] = heap[i]) \/ GoodNode(heap'[i], heap', args.shared_ref)
  <2>1. CASE ShareLeaf(val) /\ heap' = heap
    BY <1>1, <1>4, <2>1, SameHeap DEF ShareLeaf, CallAppend
  <2>2. CASE args.shared_ref = "unsafe_ref" /\ ShareLeaf(Ref) /\ heap' = Append(heap, Holder("reference", 0, val))
    <3>1. "reference" \in Class /\ 0 \in Int
      BY DEF Class
    <3>2. val' = Ref /\ refs' = [refs EXCEPT ![Top.index + 1] = val']
      BY <2>2 DEF ShareLeaf, CallAppend
    <3> QED BY <1>1, <1>4, <2>2, <3>1, <3>2, NewHolder
  <2>3. CASE /\ args.shared_ref \in {"shareable", "shareable_only"}
             /\ ShareLeaf(Obj) /\ heap' = Append(heap, Holder("Shareable", 0, val))
    <3>1. "Shareable" \in Class /\ 0 \in Int
      BY DEF Class
    <3>2. val' = Obj /\ refs' = [refs EXCEPT ![Top.index + 1] = val']
      BY <2>3 DEF ShareLeaf, CallAppend
    <3> QED BY <1>1, <1>4, <2>3, <3>1, <3>2, NewHolder
  <2> QED BY <1>3, <2>1, <2>2, <2>3
<1>6. \A i \in DOMAIN refs' : (i \in DOMAIN refs /\ refs'[i] = refs[i]) \/ GoodValue(refs'[i], heap')
  BY <1>4, <1>5, RefsGood
<1> QED BY <1>1, <1>5, <1>6, GoodTop DEF GoodStep

\* "value" of the shared object is written.
LEMMA UpdateGood ==
  ASSUME TypeOK, GoodHeap, Live, NEW n \in DOMAIN heap, heap[n].c \in {"Shareable", "stdClass"},
         NEW v \in Value, GoodValue(v, heap), heap' = UpdateValueProperty(n, v)
  PROVE  /\ HeapKept(heap, heap')
         /\ \A i \in DOMAIN heap' :
              (i \in DOMAIN heap /\ heap'[i] = heap[i]) \/ GoodNode(heap'[i], heap', args.shared_ref)
<1>1. CASE heap[n].c = "Shareable"
  <2>1. heap' = [heap EXCEPT ![n] = Holder("Shareable", 0, v)]
    BY <1>1 DEF UpdateValueProperty
  <2> QED BY <1>1, <2>1, FillGood
<1>2. CASE heap[n].c = "stdClass"
  <2>1. StrVal(<<"value">>) \in Value
    <3>1. <<"value">> \in Str
      BY DEF Str, Byte
    <3> QED BY <3>1, StrValType
  <2>2. heap' = WriteProperty(n, StrVal(<<"value">>), v)
    BY <1>2 DEF UpdateValueProperty
  <2> QED BY <1>2, <2>1, <2>2, WriteGood
<1> QED BY <1>1, <1>2

\* ... or was by the item of its content.
LEMMA ShareableExitNestedGood ==
  ASSUME IInv, GoodHeap, Live, ShareableExitNested, Live' PROVE GoodStep
<1>1. TypeOK /\ stack # << >> /\ srns' = srns /\ refs' = refs /\ stack' = Below /\ Top.thi = "shareable"
      /\ Top.v.k # "null"
  BY DEF IInv, ShareableExitNested, AtExit, AtAppend, stack_pop_item
<1>2. ~Raise("INT_RANGE") /\ ~Raise("TAG_VALUE_SHARE_SELF")
  BY RaiseDead
<1> DEFINE real_v == Top.v
<1>3. \/ heap' = heap /\ val' \in {val, real_v}
      \/ /\ args.shared_ref \in {"shareable", "shareable_only"}
         /\ heap' = UpdateValueProperty(real_v.n, val) /\ val' = real_v
      \/ /\ args.shared_ref = "unsafe_ref" /\ real_v.k = "ref"
         /\ heap' = [heap EXCEPT ![real_v.n] = Holder("reference", 0, val)] /\ val' = real_v
  BY <1>2 DEF ShareableExitNested, CallAppend
<1>4. val \in Value /\ GoodValue(val, heap)
  BY <1>1 DEF TypeOK, GoodHeap
<1>5. GoodItem(Top, heap, args.shared_ref)
  BY <1>1, GoodTop
<1>6. /\ GoodValue(real_v, heap) /\ real_v.k \in {"obj", "ref"} /\ real_v.n \in DOMAIN heap
      /\ real_v.k = "obj" => heap[real_v.n].c \in {"Shareable", "stdClass"}
      /\ real_v.k = "ref" => heap[real_v.n].c = "reference"
  BY <1>1, <1>5 DEF GoodItem, GoodValue, HasNode
<1> HIDE DEF real_v
<1>7. /\ HeapKept(heap, heap')
      /\ \A i \in DOMAIN heap' :
           (i \in DOMAIN heap /\ heap'[i] = heap[i]) \/ GoodNode(heap'[i], heap', args.shared_ref)
  <2>1. CASE heap' = heap
    BY <1>1, <2>1, SameHeap
  <2>2. CASE args.shared_ref \in {"shareable", "shareable_only"} /\ heap' = UpdateValueProperty(real_v.n, val)
    <3>1. real_v.k # "ref"
      BY <1>6, <2>2 DEF GoodHeap, GoodNode
    <3> QED BY <1>1, <1>4, <1>6, <2>2, <3>1, UpdateGood
  <2>3. CASE real_v.k = "ref" /\ heap' = [heap EXCEPT ![real_v.n] = Holder("reference", 0, val)]
    BY <1>1, <1>4, <1>6, <2>3, FillGood
  <2> QED BY <1>3, <2>1, <2>2, <2>3
<1>8. GoodValue(val', heap')
  BY <1>3, <1>4, <1>6, <1>7, GoodGrows
<1> QED BY <1>1, <1>7, <1>8, GoodTop DEF GoodStep

\* Every step of zv_append
LEMMA ZvAppendGood == ASSUME IInv, GoodHeap, Live, ZvAppend, Live' PROVE GoodStep
  BY AppendRootGood, AppendToStringGood, AppendToArrayGood, AppendMapKeyGood, AppendMapValueGood,
     AppendToTagGood, StrRefNsExitGood, StrRefExitGood, SharedRefExitGood, ShareableExitLeafGood,
     ShareableExitNestedGood
  DEF ZvAppend

-----------------------------------------------------------------------------
(* Data items.                                                              *)

\* No string is recorded.
OldTables ==
  \A t \in DOMAIN srns' : \A e \in DOMAIN srns'[t] :
    t \in DOMAIN srns /\ e \in DOMAIN srns[t] /\ srns'[t][e] = srns[t][e]

\* What an item is nested in goes on as it is, or gets what is shared.
LEMMA PushGood ==
  ASSUME IInv, GoodHeap, Live, Live', NEW item \in Item, NEW rs \in Seq(Value), NEW hp \in Seq(Node),
         stack_push_item(item, rs, hp), HeapKept(heap, hp), OldTables,
         GoodItem(item, hp, args.shared_ref), UNCHANGED args,
         \A i \in DOMAIN rs : (i \in DOMAIN refs /\ rs[i] = refs[i]) \/ GoodValue(rs[i], hp),
         \A i \in DOMAIN hp : (i \in DOMAIN heap /\ hp[i] = heap[i]) \/ GoodNode(hp[i], hp, args.shared_ref)
  PROVE  GoodStep
<1>1. TypeOK /\ ItemInv
  BY DEF IInv
<1>2. ~DepthExceeded /\ zv_si_push(item, rs, hp) /\ val' = Undef
  BY DEF stack_push_item, Live
<1>3. GoodItem(StrRefNsChild(item), hp, args.shared_ref)
  BY ChildFields DEF GoodItem
<1>4. CASE UNCHANGED cb_error /\ stack' = Append(stack, StrRefNsChild(item)) /\ refs' = rs /\ heap' = hp
  <2>1. \A i \in DOMAIN stack' : (i \in DOMAIN stack /\ stack'[i] = stack[i]) \/ stack'[i] = StrRefNsChild(item)
    <3>1. stack \in Seq(Item) /\ StrRefNsChild(item) \in Item
      BY <1>1, ChildFields DEF TypeOK
    <3> QED BY <1>4, <3>1
  <2> QED BY <1>2, <1>3, <1>4, <2>1, UndefGood DEF GoodStep, OldTables
<1>5. CASE HasChildHandler("shareable") /\ ShareableChild(item, rs, hp)
  <2>1. stack # << >> /\ Top.thi = "shareable" /\ Top \in Item /\ GoodItem(Top, heap, args.shared_ref)
    <3>1. stack # << >> /\ "shareable" \in Top.thi_child
      BY <1>5 DEF HasChildHandler
    <3>2. Len(stack) \in DOMAIN stack
      BY <1>1, <3>1, TopType DEF TypeOK
    <3> QED BY <1>1, <3>1, <3>2, GoodTop DEF ItemInv, Top
  <2>2. cb_error' # "TAG_TYPE_SHARE_INCOMPATIBLE"
    BY DEF Live
  <2> DEFINE Share(v) == /\ stack' = Append([stack EXCEPT ![Len(stack)].v = v], StrRefNsChild(item))
                         /\ refs' = [rs EXCEPT ![Top.index + 1] = v]
  <2>3. PICK v : /\ Share(v)
                 /\ \/ item.si_type = "map" /\ item.v.k = "obj" /\ v = item.v /\ heap' = hp
                    \/ /\ args.shared_ref \in {"shareable", "shareable_only"}
                       /\ v = Scalar("obj", Len(hp) + 1) /\ heap' = Append(hp, Holder("Shareable", 0, Scalar("bool", 1)))
                    \/ /\ args.shared_ref = "unsafe_ref"
                       /\ v = Scalar("ref", Len(hp) + 1) /\ heap' = Append(hp, Holder("reference", 0, Undef))
    BY <1>5, <2>2 DEF ShareableChild
  <2>4. /\ HeapKept(hp, heap') /\ GoodValue(v, heap')
        /\ \A i \in DOMAIN heap' : (i \in DOMAIN hp /\ heap'[i] = hp[i]) \/ GoodNode(heap'[i], heap', args.shared_ref)
        /\ v.k = "ref" \/ (v.k = "obj" /\ heap'[v.n].c \in {"Shareable", "stdClass"})
    <3>1. CASE item.si_type = "map" /\ item.v.k = "obj" /\ v = item.v /\ heap' = hp
      BY <3>1, KeptSame DEF GoodItem, GoodValue, HasNode
    <3>2. ASSUME NEW class \in {"Shareable", "reference"}, NEW k, NEW c \in Value, c.k \in {"bool", "undef"},
                 k = IF class = "reference" THEN "ref" ELSE "obj",
                 class = "Shareable" => args.shared_ref \in {"shareable", "shareable_only"},
                 class = "reference" => args.shared_ref = "unsafe_ref",
                 v = Scalar(k, Len(hp) + 1), heap' = Append(hp, Holder(class, 0, c))
          PROVE  /\ HeapKept(hp, heap') /\ GoodValue(v, heap')
                 /\ \A i \in DOMAIN heap' :
                      (i \in DOMAIN hp /\ heap'[i] = hp[i]) \/ GoodNode(heap'[i], heap', args.shared_ref)
                 /\ v.k = "ref" \/ (v.k = "obj" /\ heap'[v.n].c \in {"Shareable", "stdClass"})
      <4> DEFINE node == Holder(class, 0, c)
      <4>1. node \in Node
        <5>1. class \in Class /\ 0 \in Int
          BY DEF Class
        <5> QED BY <3>2, <5>1, HolderType
      <4>2. node.c = class
        BY HolderFields
      <4>3. GoodNode(node, heap', args.shared_ref)
        BY <3>2, PlainGood, HolderGood
      <4> HIDE DEF node
      <4>4. /\ HeapKept(hp, heap') /\ DOMAIN heap' = DOMAIN hp \cup {Len(hp) + 1}
            /\ heap'[Len(hp) + 1] = node /\ \A i \in DOMAIN hp : heap'[i] = hp[i]
        BY <3>2, <4>1, KeptAppend DEF node
      <4>5. v.k = k /\ v.n = Len(hp) + 1
        BY <3>2 DEF Scalar
      <4> QED BY <3>2, <4>2, <4>3, <4>4, <4>5 DEF GoodValue, HasNode
    <3>3. Scalar("bool", 1) \in Value /\ Undef \in Value /\ Scalar("bool", 1).k = "bool" /\ Undef.k = "undef"
      <4>1. "bool" \in Kind /\ 1 \in Int
        BY DEF Kind
      <4>2. Scalar("bool", 1) \in Value
        BY <4>1, ScalarType
      <4> QED BY <4>2, ConstType DEF Scalar, Undef
    <3> QED BY <2>3, <3>1, <3>2, <3>3
  <2>5. /\ HeapKept(heap, heap')
        /\ \A i \in DOMAIN heap' :
             (i \in DOMAIN heap /\ heap'[i] = heap[i]) \/ GoodNode(heap'[i], heap', args.shared_ref)
    <3>1. HeapKept(heap, heap')
      BY <2>4 DEF HeapKept
    <3>2. \A i \in DOMAIN hp : GoodNode(hp[i], hp, args.shared_ref) => GoodNode(hp[i], heap', args.shared_ref)
      BY <2>4, GoodGrows
    <3> QED BY <2>4, <3>1, <3>2
  <2>6. \A i \in DOMAIN refs' : (i \in DOMAIN refs /\ refs'[i] = refs[i]) \/ GoodValue(refs'[i], heap')
    <3>1. \A i \in DOMAIN refs' : i \in DOMAIN rs /\ (refs'[i] = rs[i] \/ refs'[i] = v)
      BY <2>3
    <3>2. \A i \in DOMAIN rs : GoodValue(rs[i], hp) => GoodValue(rs[i], heap')
      BY <2>4, GoodGrows
    <3> QED BY <2>4, <3>1, <3>2
  <2>7. \A i \in DOMAIN stack' :
          (i \in DOMAIN stack /\ stack'[i] = stack[i]) \/ GoodItem(stack'[i], heap', args.shared_ref)
    <3> DEFINE top == [Top EXCEPT !.v = v]
    <3>1. top.si_type = Top.si_type /\ top.thi = Top.thi /\ top.v = v /\ top.count = Top.count
      BY <2>1 DEF Item
    <3>2. GoodItem(top, heap', args.shared_ref)
      <4>1. Top.si_type \notin {"array", "map"}
        BY <1>1, <2>1, TopInv
      <4>2. v.k \in {"obj", "ref"}
        BY <2>4
      <4> HIDE DEF top
      <4> QED BY <2>1, <2>4, <3>1, <4>1, <4>2 DEF GoodItem
    <3>3. GoodItem(StrRefNsChild(item), heap', args.shared_ref)
      BY <1>3, <2>4, GoodGrows
    <3>4. stack' = Append([stack EXCEPT ![Len(stack)] = top], StrRefNsChild(item))
      BY <2>3 DEF Top
    <3> HIDE DEF top
    <3>5. \A i \in DOMAIN stack' : \/ i \in DOMAIN stack /\ stack'[i] = stack[i]
                                   \/ stack'[i] = top \/ stack'[i] = StrRefNsChild(item)
      <4>1. stack \in Seq(Item) /\ Len(stack) \in Nat
        BY <1>1 DEF TypeOK
      <4> DEFINE mid == [stack EXCEPT ![Len(stack)] = top]
      <4>2. DOMAIN mid = DOMAIN stack /\ Len(mid) = Len(stack) /\ \A i \in DOMAIN stack : mid[i] = stack[i] \/ mid[i] = top
        BY <4>1
      <4> HIDE DEF mid
      <4>3. \A i \in DOMAIN stack' : (i \in DOMAIN mid /\ stack'[i] = mid[i]) \/ stack'[i] = StrRefNsChild(item)
        BY <3>4, <4>1, <4>2 DEF mid
      <4> QED BY <4>2, <4>3
    <3> QED BY <3>2, <3>3, <3>5
  <2> QED BY <1>2, <2>4, <2>5, <2>6, <2>7, UndefGood DEF GoodStep, OldTables
<1> QED BY <1>2, <1>4, <1>5 DEF zv_si_push

\* What a data item does: a value is read, alone or as the end of a string,
\* a chunk goes to its string, a container is closed, an item is pushed, or
\* nothing changes but the position.
Strings(v, hp) ==
  \A t \in DOMAIN srns' : \A e \in DOMAIN srns'[t] :
    \/ t \in DOMAIN srns /\ e \in DOMAIN srns[t] /\ srns'[t][e] = srns[t][e]
    \/ srns'[t][e] = v /\ GoodString(v, hp)

\* A new node that holds no other
Leaf(node) ==
  /\ node \in Node /\ node.c \notin {"Shareable", "reference"}
  /\ \A e \in DOMAIN node.ent : ~HasNode(node.ent[e].v) /\ node.ent[e].v.k # "ref"
  /\ node.c \in {"Byte", "Text"} => \A e \in DOMAIN node.ent : node.ent[e].v.k = "str"

PlainKind == {"null", "bool", "long", "xuint", "xnint", "double", "str", "undefobj"}

ReadsValue ==
  /\ UNCHANGED <<root, refs>>
  /\ stack' = stack \/ (stack # << >> /\ IsString(Top) /\ stack' = Below)
  /\ \/ /\ heap' = heap /\ val'.k \in PlainKind
        /\ NoTrue => val' # Scalar("bool", 1)
     \/ \E node : Leaf(node) /\ heap' = Append(heap, node) /\ val' \in {Obj, Arr}
  /\ Strings(val', heap')

ReadsChunk ==
  /\ UNCHANGED <<root, refs, srns, heap>> /\ val' = Undef /\ pc' = "loop"
  /\ stack # << >>
  /\ \E item : /\ SetTop(item) /\ item.si_type = Top.si_type /\ item.thi = Top.thi
               /\ item.v = Top.v /\ item.count = Top.count

ReadsBreak ==
  /\ UNCHANGED <<root, refs, srns, heap>>
  /\ stack # << >> /\ stack' = Below /\ val' = Top.v
  /\ ~IsString(Top) /\ Top.count = 0

\* The items that are pushed, with what is added to refs and heap for them
NewItem(item, rs, hp) ==
  /\ item.si_type \in {"tag", "tag_handled"} => item.count = 1
  /\ item.thi \in {"shareable", "shared_ref"} => args.shared_ref # "false"
  /\ \/ /\ item.si_type \notin {"array", "map"} /\ item.thi # "shareable" /\ item.v = Undef
        /\ rs = refs /\ hp = heap
     \/ /\ item.si_type = "tag_handled" /\ item.thi = "shareable" /\ item.v = Null
        /\ rs = Append(refs, Null) /\ hp = heap
     \/ /\ item.si_type \in {"array", "map"} /\ item.thi = "none" /\ rs = refs
        /\ \/ item.v = Arr /\ hp = Append(heap, Empty("array"))
           \/ item.v = Obj /\ hp = Append(heap, Empty("stdClass"))

ReadsItem ==
  /\ root' = root /\ OldTables
  /\ \E item \in Item, rs \in Seq(Value), hp \in Seq(Node) :
       stack_push_item(item, rs, hp) /\ NewItem(item, rs, hp)

ReadsNothing == UNCHANGED <<val, stackVars, zvVars>> /\ pc' = "stop"

ReadShape == ReadsValue \/ ReadsChunk \/ ReadsBreak \/ ReadsItem \/ ReadsNothing

\* Tables that stay
LEMMA OldStrings ==
  /\ srns' = srns => OldTables
  /\ OldTables => \A v, hp : Strings(v, hp)
  BY DEF OldTables, Strings

\* Numbers, simple values and tags that are out of range
LEMMA ScalarShape ==
  ASSUME IInv, NEW tok \in Tokens, Live',
         \/ ProcUint(tok) \/ ProcNint(tok) \/ ProcFloatx(tok) \/ ProcPrimitive(tok)
         \/ ProcSimple(tok) \/ TagOutOfRange(tok)
  PROVE  ReadsValue
<1>1. TypeOK /\ tok \in Token
  BY TokensAssumption DEF IInv
<1>2. UNCHANGED <<stack, stack_depth, root, srns, refs>>
  BY DEF ProcUint, ProcNint, ProcFloatx, ProcPrimitive, ProcSimple, TagOutOfRange, stackVars, zvVars
<1>3. ~ProcSimple(tok) /\ ~TagOutOfRange(tok)
  BY RaiseDead DEF ProcSimple, TagOutOfRange
<1>4. CASE ProcUint(tok) \/ ProcNint(tok) \/ ProcPrimitive(tok)
  <2>1. heap' = heap /\ val'.k \in PlainKind
    BY <1>4 DEF ProcUint, ProcNint, ProcPrimitive, CallAppend, PlainKind, Scalar, Null, zvVars
  <2>2. NoTrue => val' # Scalar("bool", 1)
    <3>1. CASE ProcUint(tok)
      BY <3>1 DEF ProcUint, CallAppend, Scalar
    <3>2. CASE ProcNint(tok)
      BY <3>2 DEF ProcNint, CallAppend, Scalar
    <3>3. CASE ProcPrimitive(tok)
      BY <3>3 DEF ProcPrimitive, CallAppend, Scalar, Null, NoTrue, Read
    <3> QED BY <1>4, <3>1, <3>2, <3>3
  <2> QED BY <1>2, <2>1, <2>2, OldStrings DEF ReadsValue
<1>5. CASE ProcFloatx(tok)
  <2> DEFINE class == IF tok.t = "float16" THEN "Float16" ELSE "Float32"
             v == Scalar("double", tok.n)
             node == Holder(class, 0, v)
  <2>1. \/ heap' = heap /\ val' = v
        \/ heap' = Append(heap, node) /\ val' = Obj
    BY <1>5 DEF ProcFloatx, CallAppend
  <2>2. v.k = "double" /\ v # Scalar("bool", 1)
    BY DEF Scalar
  <2>3. Leaf(node)
    <3>1. v \in Value /\ class \in Class /\ 0 \in Int
      BY <1>1, ScalarType DEF Kind, Class, Token
    <3>2. node \in Node
      BY <3>1, HolderType
    <3>3. node.c = class /\ DOMAIN node.ent = {1} /\ node.ent[1].v = v
      BY HolderFields
    <3> HIDE DEF node, v
    <3> QED BY <2>2, <3>2, <3>3 DEF Leaf, HasNode
  <2> HIDE DEF node, v
  <2> QED BY <1>2, <2>1, <2>2, <2>3, OldStrings DEF ReadsValue, PlainKind
<1> QED BY <1>3, <1>4, <1>5

\* A string, alone, as a chunk or the end of its chunks
LEMMA StringShape ==
  ASSUME IInv, Live', NEW st, NEW str \in Str, NEW is_text, NEW is_indef,
         zv_append_string_item(st, str, is_text, is_indef)
  PROVE  /\ \/ heap' = heap /\ val'.k = "str"
            \/ \E node : Leaf(node) /\ heap' = Append(heap, node) /\ val' = Obj
         /\ Strings(val', heap')
<1>1. TypeOK /\ srns \in Seq(Seq(Value))
  BY DEF IInv, TypeOK
<1>2. ~Raise("UNSUPPORTED_KEY_TYPE")
  BY RaiseDead
<1> DEFINE node == Holder(StringClass(is_text), 0, StrVal(str))
<1>3. \E plain \in BOOLEAN :
        /\ val' = IF plain THEN StrVal(str) ELSE Obj
        /\ heap' = IF plain THEN heap ELSE Append(heap, node)
        /\ srns' = srns \/ srns' = StrRefNsData(val', Len(str))
  BY <1>2 DEF zv_append_string_item, CallAppend
<1>4. StrVal(str).k = "str" /\ Obj.k = "obj" /\ Obj.n = Len(heap) + 1
  BY DEF StrVal, Obj, Scalar, NewNode
<1>5. Leaf(node) /\ node.c \in {"Byte", "Text"}
  <2>1. StrVal(str) \in Value /\ StringClass(is_text) \in Class /\ 0 \in Int
    BY StrValType DEF StringClass, Class
  <2>2. node \in Node
    BY <2>1, HolderType
  <2>3. node.c = StringClass(is_text) /\ DOMAIN node.ent = {1} /\ node.ent[1].v = StrVal(str)
    BY HolderFields
  <2> HIDE DEF node
  <2> QED BY <1>4, <2>2, <2>3 DEF Leaf, HasNode, StringClass
<1> HIDE DEF node
<1>6. GoodString(val', heap')
  <2>1. CASE val' = StrVal(str)
    BY <1>4, <2>1 DEF GoodString
  <2>2. CASE val' = Obj /\ heap' = Append(heap, node)
    <3>1. Len(heap) + 1 \in DOMAIN heap' /\ heap'[Len(heap) + 1] = node
      BY <1>1, <1>5, <2>2, KeptAppend DEF TypeOK, Leaf
    <3> QED BY <1>4, <1>5, <2>2, <3>1 DEF GoodString
  <2> QED BY <1>3, <2>1, <2>2
<1>7. Strings(val', heap')
  <2>1. CASE srns' = srns
    BY <2>1, OldStrings
  <2>2. CASE srns' = StrRefNsData(val', Len(str)) /\ srns' # srns
    <3> DEFINE tab == srns[Len(srns)]
    <3>1. srns' = [srns EXCEPT ![Len(srns)] = Append(tab, val')]
      BY <2>2 DEF StrRefNsData
    <3> DEFINE new == Append(tab, val')
    <3>2. ASSUME Len(srns) \in DOMAIN srns, NEW e \in DOMAIN new
          PROVE  (e \in DOMAIN tab /\ new[e] = tab[e]) \/ new[e] = val'
      <4>1. tab \in Seq(Value)
        BY <1>1, <3>2
      <4> HIDE DEF tab
      <4> QED BY <3>2, <4>1
    <3> HIDE DEF new
    <3>3. \A t \in DOMAIN srns' : t \in DOMAIN srns /\ srns'[t] = IF t = Len(srns) THEN new ELSE srns[t]
      BY <1>1, <3>1 DEF new
    <3> QED BY <1>6, <3>2, <3>3 DEF Strings
  <2> QED BY <1>3, <2>1, <2>2
<1> QED BY <1>3, <1>4, <1>5, <1>7
\* A string goes to the item on top, if that is a string, or is a value.
LEMMA ProcStringShape ==
  ASSUME IInv, NEW tok \in Tokens, Live', ProcString(tok)
  PROVE  ReadsValue \/ ReadsChunk
<1>1. TypeOK /\ tok.s \in Str /\ UNCHANGED <<root, refs>>
  BY TokensAssumption DEF IInv, Token, ProcString
<1>2. ~Raise("UTF8") /\ ~Raise("SYNTAX_INCONSISTENT_STRING_TYPE")
  BY RaiseDead
<1>3. CASE /\ stack # << >> /\ SetTop([Top EXCEPT !.str = @ \o tok.s]) /\ Return
           /\ UNCHANGED <<srns, heap>>
  <2>1. \E item : /\ SetTop(item) /\ item.si_type = Top.si_type /\ item.thi = Top.thi
                  /\ item.v = Top.v /\ item.count = Top.count
    <3> DEFINE item == [Top EXCEPT !.str = @ \o tok.s]
    <3>1. SetTop(item)
      BY <1>3
    <3>2. item.si_type = Top.si_type /\ item.thi = Top.thi /\ item.v = Top.v /\ item.count = Top.count
      OBVIOUS
    <3> HIDE DEF item
    <3> QED BY <3>1, <3>2
  <2> QED BY <1>1, <1>3, <2>1 DEF ReadsChunk, Return
<1>4. CASE UNCHANGED stack /\ zv_append_string_item(stack, tok.s, tok.t = "text", FALSE)
  <2> DEFINE isText == tok.t = "text"
  <2>1. zv_append_string_item(stack, tok.s, isText, FALSE)
    BY <1>4
  <2> HIDE DEF isText
  <2>2. /\ \/ heap' = heap /\ val'.k = "str"
           \/ \E node : Leaf(node) /\ heap' = Append(heap, node) /\ val' = Obj
        /\ Strings(val', heap')
    BY <1>1, <2>1, StringShape
  <2>3. Scalar("bool", 1).k # "str"
    BY DEF Scalar
  <2> QED BY <1>1, <1>4, <2>2, <2>3 DEF ReadsValue, PlainKind
<1> QED BY <1>2, <1>3, <1>4 DEF ProcString

\* A break ends a string, an array or a map.
LEMMA ProcBreakShape ==
  ASSUME IInv, NEW tok \in Tokens, Live', ProcBreak(tok)
  PROVE  ReadsValue \/ ReadsBreak
<1>1. TypeOK /\ ItemInv /\ UNCHANGED <<root, refs>>
  BY DEF IInv, ProcBreak
<1>2. ~Raise("SYNTAX_BREAK_UNDERFLOW") /\ ~Raise("SYNTAX_BREAK_UNEXPECTED")
  BY RaiseDead
<1>3. CASE stack # << >> /\ IsString(Top) /\ stack_pop_item
           /\ zv_append_string_item(Below, Top.str, Top.si_type = "text", TRUE)
  <2>1. Top.str \in Str
    BY <1>1, <1>3, TopInv DEF Item
  <2> DEFINE isText == Top.si_type = "text"
             str == Top.str
  <2>2. zv_append_string_item(Below, str, isText, TRUE) /\ str \in Str
    BY <1>3, <2>1
  <2> HIDE DEF isText, str
  <2>3. /\ \/ heap' = heap /\ val'.k = "str"
           \/ \E node : Leaf(node) /\ heap' = Append(heap, node) /\ val' = Obj
        /\ Strings(val', heap')
    BY <1>1, <2>2, StringShape
  <2>4. Scalar("bool", 1).k # "str" /\ stack' = Below
    BY <1>3 DEF Scalar, stack_pop_item
  <2> QED BY <1>1, <1>3, <2>3, <2>4 DEF ReadsValue, PlainKind
<1>4. CASE stack # << >> /\ ~IsString(Top) /\ IsBreakable(Top) /\ stack_pop_item /\ CallAppend(Top.v)
           /\ UNCHANGED <<srns, heap>>
  BY <1>1, <1>4 DEF ReadsBreak, stack_pop_item, CallAppend, IsBreakable
<1> QED BY <1>2, <1>3, <1>4 DEF ProcBreak

\* An item that is pushed
LEMMA PushedItem ==
  ASSUME TypeOK, UNCHANGED root, OldTables, NEW item \in Item, NEW rs \in Seq(Value), NEW hp \in Seq(Node),
         stack_push_item(item, rs, hp), NewItem(item, rs, hp)
  PROVE  ReadsItem
  BY DEF ReadsItem

\* Indefinite-length strings and tags
LEMMA PlainItemShape ==
  ASSUME IInv, NEW tok \in Tokens, Live',
         \/ ProcStringStart(tok) \/ ProcTag(tok) \/ StrRefNsEnter(tok) \/ StrRefEnter(tok)
         \/ SharedRefEnter(tok)
  PROVE  ReadsItem
<1>1. TypeOK /\ tok.n \in Nat /\ refs \in Seq(Value) /\ heap \in Seq(Node)
  BY TokensAssumption DEF IInv, TypeOK, Token
<1>2. root' = root
  BY DEF ProcStringStart, ProcTag, StrRefNsEnter, StrRefEnter, SharedRefEnter
<1>3. OldTables
  <2>1. CASE srns' = srns
    BY <2>1, OldStrings
  <2>2. CASE StrRefNsEnter(tok)
    <3>1. srns \in Seq(Seq(Value)) /\ srns' = Append(srns, << >>)
      BY <1>1, <2>2 DEF StrRefNsEnter, TypeOK
    <3>2. \A t \in DOMAIN srns' : (t \in DOMAIN srns /\ srns'[t] = srns[t]) \/ srns'[t] = << >>
      BY <3>1
    <3>3. ASSUME NEW t \in DOMAIN srns', NEW e \in DOMAIN srns'[t]
          PROVE  t \in DOMAIN srns /\ e \in DOMAIN srns[t] /\ srns'[t][e] = srns[t][e]
      BY <3>2, <3>3
    <3> QED BY <3>3 DEF OldTables
  <2> QED BY <2>1, <2>2 DEF ProcStringStart, ProcTag, StrRefEnter, SharedRefEnter
<1>4. \E item \in Item :
        /\ stack_push_item(item, refs, heap) /\ item.v = Undef
        /\ \/ item.si_type \in {"byte", "text", "tag"} /\ item.thi = "none"
           \/ item.si_type = "tag_handled" /\ item.thi \in {"str_ref_ns", "str_ref", "shared_ref"}
        /\ item.si_type \in {"tag", "tag_handled"} => item.count = 1
        /\ item.thi = "shared_ref" => args.shared_ref # "false"
  <2>1. ASSUME NEW type \in {"byte", "text", "tag", "tag_handled"}, NEW cnt \in Nat
        PROVE  LET item == stack_new_item(type, cnt)
               IN  item \in Item /\ item.v = Undef /\ item.si_type = type /\ item.thi = "none" /\ item.count = cnt
    <3>1. type \in SiType
      BY DEF SiType
    <3>2. stack_new_item(type, cnt) \in Item
      BY <3>1, NewItemType
    <3> QED BY <3>2 DEF stack_new_item
  <2>2. CASE ProcStringStart(tok)
    <3> DEFINE type == IF tok.t = "text_start" THEN "text" ELSE "byte"
               item == stack_new_item(type, 0)
    <3>1. type \in {"byte", "text"} /\ stack_push_item(item, refs, heap)
      BY <2>2 DEF ProcStringStart, zv_stack_push_xstring
    <3>2. item \in Item /\ item.v = Undef /\ item.si_type = type /\ item.thi = "none"
      BY <2>1, <3>1
    <3> HIDE DEF item, type
    <3> QED BY <3>1, <3>2
  <2>3. CASE ProcTag(tok)
    <3> DEFINE new == stack_new_item("tag", 1)
               item == [new EXCEPT !.id = tok.n]
    <3>1. stack_push_item(item, refs, heap)
      BY <2>3 DEF ProcTag, zv_stack_push_tag
    <3>2. new \in Item /\ new.v = Undef /\ new.si_type = "tag" /\ new.thi = "none" /\ new.count = 1
      BY <2>1
    <3> HIDE DEF new
    <3>3. item \in Item /\ item.v = Undef /\ item.si_type = "tag" /\ item.thi = "none" /\ item.count = 1
      BY <1>1, <3>2 DEF Item
    <3> HIDE DEF item
    <3> QED BY <3>1, <3>3
  <2>4. ASSUME NEW handler \in {"str_ref_ns", "str_ref", "shareable", "shared_ref"}
        PROVE  LET h == HandledItem(tok, handler)
               IN  h \in Item /\ h.v = Undef /\ h.si_type = "tag_handled" /\ h.thi = handler /\ h.count = 1
    <3>1. handler \in Thi
      BY DEF Thi
    <3>2. HandledItem(tok, handler).v = Undef
      BY DEF HandledItem, stack_new_item
    <3> QED BY <3>1, <3>2, HandledItemType
  <2>5. CASE StrRefNsEnter(tok)
    <3> DEFINE h == HandledItem(tok, "str_ref_ns")
               item == [h EXCEPT !.thi_data = "str_ref_ns", !.thi_child = {"str_ref_ns"}]
    <3>1. stack_push_item(item, refs, heap)
      BY <2>5 DEF StrRefNsEnter
    <3>2. h \in Item /\ h.v = Undef /\ h.si_type = "tag_handled" /\ h.thi = "str_ref_ns" /\ h.count = 1
      BY <2>4
    <3> HIDE DEF h
    <3>3. item \in Item /\ item.v = Undef /\ item.si_type = "tag_handled" /\ item.thi = "str_ref_ns" /\ item.count = 1
      BY <3>2 DEF Item, Thi
    <3> HIDE DEF item
    <3> QED BY <3>1, <3>3
  <2>6. CASE StrRefEnter(tok)
    <3>1. stack_push_item(HandledItem(tok, "str_ref"), refs, heap)
      BY <2>6, RaiseDead DEF StrRefEnter
    <3> QED BY <2>4, <3>1
  <2>7. CASE SharedRefEnter(tok)
    <3>1. stack_push_item(HandledItem(tok, "shared_ref"), refs, heap) /\ args.shared_ref # "false"
      BY <2>7 DEF SharedRefEnter, ReadTag, Handler
    <3> QED BY <2>4, <3>1
  <2> QED BY <2>2, <2>3, <2>5, <2>6, <2>7
<1>5. PICK item \in Item :
        /\ stack_push_item(item, refs, heap) /\ item.v = Undef
        /\ \/ item.si_type \in {"byte", "text", "tag"} /\ item.thi = "none"
           \/ item.si_type = "tag_handled" /\ item.thi \in {"str_ref_ns", "str_ref", "shared_ref"}
        /\ item.si_type \in {"tag", "tag_handled"} => item.count = 1
        /\ item.thi = "shared_ref" => args.shared_ref # "false"
  BY <1>4
<1>6. NewItem(item, refs, heap)
  BY <1>5 DEF NewItem
<1> QED BY <1>1, <1>2, <1>3, <1>5, <1>6, PushedItem

\* A {shareable}
LEMMA ShareableShape ==
  ASSUME IInv, NEW tok \in Tokens, Live', ShareableEnter(tok)
  PROVE  ReadsItem
<1> DEFINE h == HandledItem(tok, "shareable")
           item == [h EXCEPT !.thi_child = {"shareable"}, !.v = Null, !.index = Len(refs)]
           rs == Append(refs, Null)
<1>1. TypeOK /\ refs \in Seq(Value) /\ heap \in Seq(Node) /\ UNCHANGED <<root, srns>>
  BY DEF IInv, TypeOK, ShareableEnter
<1>2. stack_push_item(item, rs, heap) /\ args.shared_ref # "false"
  BY RaiseDead DEF ShareableEnter, ShareableItem, ReadTag, Handler
<1>3. h \in Item /\ h.si_type = "tag_handled" /\ h.count = 1 /\ h.thi = "shareable"
  BY HandledItemType DEF Thi
<1>4. Null \in Value /\ rs \in Seq(Value) /\ Len(refs) \in Nat
  BY <1>1, ConstType
<1> HIDE DEF h
<1>5. item \in Item /\ item.si_type = "tag_handled" /\ item.count = 1 /\ item.thi = "shareable" /\ item.v = Null
  BY <1>3, <1>4 DEF Item, Thi
<1>6. rs = Append(refs, Null)
  OBVIOUS
<1> HIDE DEF item, rs
<1>7. NewItem(item, rs, heap)
  BY <1>2, <1>5, <1>6 DEF NewItem
<1> QED BY <1>1, <1>2, <1>4, <1>5, <1>7, OldStrings, PushedItem

\* An array or a map, whose node is made and which is pushed unless it is empty
LEMMA ContainerShape ==
  ASSUME IInv, NEW tok \in Tokens, Live', UNCHANGED <<root, srns>>, NEW st \in {"array", "map"},
         NEW class \in {"array", "stdClass"}, NEW cnt \in Nat, NEW n, NEW dest,
         dest = IF class = "stdClass" THEN Obj ELSE Arr,
         LET err == StartError(tok, n)
             hp == Append(heap, Empty(class))
         IN  \/ err # "none" /\ Raise(err) /\ UNCHANGED <<stackVars, refs, heap>>
             \/ stack_push_item([stack_new_item(st, cnt) EXCEPT !.v = dest], refs, hp)
             \/ heap' = hp /\ CallAppend(dest) /\ UNCHANGED <<stackVars, refs>>
  PROVE  ReadsValue \/ ReadsItem
<1> DEFINE err == StartError(tok, n)
           node == Empty(class)
           hp == Append(heap, node)
           new == stack_new_item(st, cnt)
           item == [new EXCEPT !.v = dest]
<1>1. TypeOK /\ refs \in Seq(Value) /\ heap \in Seq(Node)
  BY DEF IInv, TypeOK
<1>2. node \in Node /\ node.c = class /\ node.ent = << >>
  <2>1. class \in Class
    BY DEF Class
  <2>2. Empty(class) \in Node
    BY <2>1, EmptyType
  <2> QED BY <2>2 DEF Empty
<1>3. dest \in Value
  BY <1>1, NewNodeType
<1>4. hp \in Seq(Node)
  <2> HIDE DEF node
  <2> QED BY <1>1, <1>2, AppendProperties
<1>5. ~(err # "none" /\ Raise(err))
  <2> HIDE DEF err
  <2> QED BY RaiseDead
<1>6. CASE stack_push_item(item, refs, hp)
  <2>1. new \in Item /\ new.si_type = st /\ new.thi = "none"
    <3>1. st \in SiType
      BY DEF SiType
    <3>2. new \in Item
      BY <3>1, NewItemType
    <3> QED BY <3>2 DEF stack_new_item
  <2> HIDE DEF new
  <2>2. item \in Item /\ item.si_type = st /\ item.thi = "none" /\ item.v = dest
    BY <1>3, <2>1 DEF Item
  <2>3. hp = Append(heap, Empty(class))
    OBVIOUS
  <2> HIDE DEF item, hp
  <2>4. NewItem(item, refs, hp)
    BY <2>2, <2>3 DEF NewItem
  <2> QED BY <1>1, <1>4, <1>6, <2>2, <2>4, OldStrings, PushedItem
<1>7. CASE heap' = hp /\ CallAppend(dest) /\ UNCHANGED <<stackVars, refs>>
  <2>1. Leaf(node) /\ heap' = Append(heap, node)
    <3>1. DOMAIN << >> = {}
      OBVIOUS
    <3> HIDE DEF node
    <3> QED BY <1>2, <1>7, <3>1 DEF Leaf
  <2> HIDE DEF node
  <2>2. val' \in {Obj, Arr} /\ stack' = stack
    BY <1>7 DEF CallAppend, stackVars
  <2> QED BY <1>7, <2>1, <2>2, OldStrings DEF ReadsValue
<1>8. \/ err # "none" /\ Raise(err)
      \/ stack_push_item(item, refs, hp)
      \/ heap' = hp /\ CallAppend(dest) /\ UNCHANGED <<stackVars, refs>>
  OBVIOUS
<1> HIDE DEF err, hp, item
<1> QED BY <1>5, <1>6, <1>7, <1>8

\* The start of an array or a map
LEMMA ProcContainerShape ==
  ASSUME IInv, NEW tok \in Tokens, Live',
         \/ ProcArrayStart(tok) \/ ProcIndefArrayStart(tok)
         \/ ProcMapStart(tok) \/ ProcIndefMapStart(tok)
  PROVE  ReadsValue \/ ReadsItem
<1>1. tok.n \in Nat
  BY TokensAssumption DEF Token
<1> DEFINE class == IF "MAP_AS_ARRAY" \in args.flags THEN "array" ELSE "stdClass"
<1>2. class \in {"array", "stdClass"} /\ MapNode = Empty(class) /\ MapDest = IF class = "stdClass" THEN Obj ELSE Arr
  BY DEF MapNode, MapDest
<1> HIDE DEF class
<1>3. CASE ProcArrayStart(tok)
  BY <1>1, <1>3, ContainerShape DEF ProcArrayStart, zv_stack_push_counted
<1>4. CASE ProcIndefArrayStart(tok)
  BY <1>1, <1>4, ContainerShape DEF ProcIndefArrayStart, zv_stack_push_counted
<1>5. CASE ProcMapStart(tok)
  BY <1>1, <1>2, <1>5, ContainerShape DEF ProcMapStart, zv_stack_push_map
<1>6. CASE ProcIndefMapStart(tok)
  BY <1>1, <1>2, <1>6, ContainerShape DEF ProcIndefMapStart, zv_stack_push_map
<1> QED BY <1>3, <1>4, <1>5, <1>6

\* Every data item has one of the shapes.
LEMMA DecItemShape == ASSUME IInv, NEW tok \in Tokens, Live', DecItem(tok) PROVE ReadShape
<1>1. ReadMalformed(tok) => ReadsNothing
  BY DEF ReadMalformed, ReadsNothing, Stop
<1> QED
  BY <1>1, ScalarShape, ProcStringShape, ProcBreakShape, PlainItemShape, ShareableShape, ProcContainerShape
  DEF DecItem, ReadShape
-----------------------------------------------------------------------------
(* Every value that a context can give out is whole.                        *)

\* A leaf that is added
LEMMA LeafGood ==
  ASSUME TypeOK, NEW node, Leaf(node), heap' = Append(heap, node)
  PROVE  /\ HeapKept(heap, heap') /\ GoodValue(Obj, heap') /\ GoodValue(Arr, heap')
         /\ \A i \in DOMAIN heap' :
              (i \in DOMAIN heap /\ heap'[i] = heap[i]) \/ GoodNode(heap'[i], heap', args.shared_ref)
<1>1. heap \in Seq(Node) /\ node \in Node
  BY DEF TypeOK, Leaf
<1>2. /\ HeapKept(heap, heap') /\ DOMAIN heap' = DOMAIN heap \cup {Len(heap) + 1}
      /\ heap'[Len(heap) + 1] = node /\ \A i \in DOMAIN heap : heap'[i] = heap[i]
  BY <1>1, KeptAppend
<1>3. GoodNode(node, heap', args.shared_ref)
  BY DEF Leaf, GoodNode, GoodValue
<1> QED BY <1>1, <1>2, <1>3, FreshGood

\* What a data item adds is good.
LEMMA ReadGood ==
  ASSUME IInv, GoodHeap, Live, Live', ReadShape, UNCHANGED args
  PROVE  GoodStep
<1>1. TypeOK /\ ItemInv /\ heap \in Seq(Node) /\ refs \in Seq(Value)
  BY DEF IInv, TypeOK
<1>2. CASE ReadsValue
  <2>1. refs' = refs /\ Strings(val', heap')
    BY <1>2 DEF ReadsValue
  <2>2. \A i \in DOMAIN stack' : i \in DOMAIN stack /\ stack'[i] = stack[i]
    BY <1>1, <1>2, GoodTop DEF ReadsValue
  <2>3. /\ HeapKept(heap, heap') /\ GoodValue(val', heap')
        /\ \A i \in DOMAIN heap' :
             (i \in DOMAIN heap /\ heap'[i] = heap[i]) \/ GoodNode(heap'[i], heap', args.shared_ref)
    <3>1. CASE heap' = heap /\ val'.k \in PlainKind
      <4>1. val'.k \notin {"arr", "obj", "ref"}
        BY <3>1 DEF PlainKind
      <4> QED BY <1>1, <3>1, <4>1, SameHeap DEF GoodValue, HasNode
    <3>2. CASE \E node : Leaf(node) /\ heap' = Append(heap, node) /\ val' \in {Obj, Arr}
      BY <1>1, <3>2, LeafGood
    <3> QED BY <1>2, <3>1, <3>2 DEF ReadsValue
  <2> QED BY <2>1, <2>2, <2>3 DEF GoodStep, Strings
<1>3. CASE ReadsChunk
  <2>1. PICK item : /\ SetTop(item) /\ item.si_type = Top.si_type /\ item.thi = Top.thi
                    /\ item.v = Top.v /\ item.count = Top.count
    BY <1>3 DEF ReadsChunk
  <2>2. HeapKept(heap, heap) /\ stack # << >> /\ val' = Undef /\ UNCHANGED <<refs, srns, heap>>
    BY <1>1, <1>3, KeptSame DEF ReadsChunk
  <2>3. \A i \in DOMAIN stack' :
          (i \in DOMAIN stack /\ stack'[i] = stack[i]) \/ GoodItem(stack'[i], heap, args.shared_ref)
    BY <1>1, <2>1, <2>2, GoodSetTop
  <2> QED BY <1>1, <2>2, <2>3, UndefGood, SameGood
<1>4. CASE ReadsBreak
  <2>1. GoodItem(Top, heap, args.shared_ref) /\ \A i \in DOMAIN Below : i \in DOMAIN stack /\ Below[i] = stack[i]
    BY <1>1, <1>4, GoodTop DEF ReadsBreak
  <2>2. stack # << >> /\ Top \in Item /\ Top.count = 0 /\ ~IsString(Top)
    BY <1>1, <1>4, GoodTop DEF ReadsBreak
  <2>3. Top.si_type \in {"array", "map"}
    BY <2>1, <2>2 DEF GoodItem, Item, SiType, IsString
  <2>4. GoodValue(Top.v, heap)
    BY <2>1, <2>3 DEF GoodItem, GoodValue, HasNode
  <2>5. UNCHANGED <<refs, srns, heap>> /\ stack' = Below /\ val' = Top.v
    BY <1>4 DEF ReadsBreak
  <2> QED BY <1>1, <2>1, <2>4, <2>5, SameGood
<1>5. CASE ReadsItem
  <2>1. PICK item \in Item, rs \in Seq(Value), hp \in Seq(Node) :
          stack_push_item(item, rs, hp) /\ NewItem(item, rs, hp)
    BY <1>5 DEF ReadsItem
  <2>2. OldTables
    BY <1>5 DEF ReadsItem
  <2>3. /\ HeapKept(heap, hp) /\ GoodItem(item, hp, args.shared_ref)
        /\ \A i \in DOMAIN hp : (i \in DOMAIN heap /\ hp[i] = heap[i]) \/ GoodNode(hp[i], hp, args.shared_ref)
    <3>1. CASE hp = heap /\ item.si_type \notin {"array", "map"} /\
               \/ item.thi # "shareable" /\ item.v = Undef
               \/ item.thi = "shareable" /\ item.v = Null
      <4>1. Null.k = "null" /\ HeapKept(heap, hp)
        BY <1>1, <3>1, KeptSame DEF Null, Scalar
      <4>2. GoodItem(item, hp, args.shared_ref)
        BY <2>1, <3>1, <4>1, UndefGood DEF GoodItem, NewItem
      <4> QED BY <3>1, <4>1, <4>2
    <3>2. ASSUME NEW class \in {"array", "stdClass"}, hp = Append(heap, Empty(class)),
                 item.v = IF class = "stdClass" THEN Obj ELSE Arr,
                 item.si_type \in {"array", "map"}, item.thi = "none"
          PROVE  /\ HeapKept(heap, hp) /\ GoodItem(item, hp, args.shared_ref)
                 /\ \A i \in DOMAIN hp :
                      (i \in DOMAIN heap /\ hp[i] = heap[i]) \/ GoodNode(hp[i], hp, args.shared_ref)
      <4> DEFINE node == Empty(class)
      <4>1. node \in Node /\ node.c = class /\ DOMAIN node.ent = {}
        <5>1. class \in Class
          BY DEF Class
        <5>2. Empty(class) \in Node
          BY <5>1, EmptyType
        <5> QED BY <5>2 DEF Empty
      <4>2. hp = Append(heap, node)
        BY <3>2
      <4> HIDE DEF node
      <4>3. /\ HeapKept(heap, hp) /\ DOMAIN hp = DOMAIN heap \cup {Len(heap) + 1}
            /\ hp[Len(heap) + 1] = node /\ \A i \in DOMAIN heap : hp[i] = heap[i]
        BY <1>1, <4>1, <4>2, KeptAppend
      <4>4. GoodNode(node, hp, args.shared_ref)
        BY <4>1 DEF GoodNode
      <4>5. HasNode(item.v) /\ item.v.n = Len(heap) + 1 /\ (item.v.k = "obj" <=> class = "stdClass")
        BY <3>2 DEF HasNode, Obj, Arr, NewNode, Scalar
      <4>6. GoodItem(item, hp, args.shared_ref)
        BY <3>2, <4>1, <4>3, <4>5 DEF GoodItem
      <4> QED BY <4>3, <4>4, <4>6
    <3> QED BY <2>1, <3>1, <3>2 DEF NewItem
  <2>4. \A i \in DOMAIN rs : (i \in DOMAIN refs /\ rs[i] = refs[i]) \/ GoodValue(rs[i], hp)
    <3>1. CASE rs = refs
      BY <3>1
    <3>2. CASE rs = Append(refs, Null)
      <4>1. \A i \in DOMAIN rs : (i \in DOMAIN refs /\ rs[i] = refs[i]) \/ rs[i] = Null
        BY <1>1, <3>2
      <4> QED BY <4>1, UndefGood
    <3> QED BY <2>1, <3>1, <3>2 DEF NewItem
  <2> QED BY <2>1, <2>2, <2>3, <2>4, PushGood
<1>6. CASE ReadsNothing
  <2>1. UNCHANGED <<val, stack, srns, refs, heap>>
    BY <1>6 DEF ReadsNothing, stackVars, zvVars
  <2> QED BY <1>1, <2>1, SameGood DEF GoodHeap
<1> QED BY <1>2, <1>3, <1>4, <1>5, <1>6 DEF ReadShape

\* The steps of decode_nested and cbor_decode_process
Control == SelfDescribe \/ Start \/ Resume \/ ReadTruncated \/ Loop

\* ... which leave the values of the context alone
LEMMA ControlSame ==
  ASSUME Control PROVE UNCHANGED <<args, val, stack, stack_depth, root, srns, refs, heap>>
  BY DEF Control, SelfDescribe, Start, Resume, ReadTruncated, Loop, memVars, stackVars, zvVars

\* The steps of a context that goes on
LEMMA LiveSteps ==
  ASSUME Next, ~Finish
  PROVE  ZvAppend \/ Control \/ \E tok \in Tokens : DecItem(tok)
  BY DEF Next, Run, Control, Alphabet

\* The root changes as long as there is no error when a value becomes the root.
LEMMA RootStep == ASSUME IInv, Next, Live' PROVE root' \in {root, val}
<1>1. ~Finish
  BY DEF Finish, Live
<1>2. CASE ZvAppend
  BY <1>2 DEF ZvAppend, AppendRoot, AppendToString, AppendToArray, AppendMapKey, AppendMapValue, AppendToTag,
              StrRefNsExit, StrRefExit, SharedRefExit, ShareableExitLeaf, ShareableExitNested, zvVars
<1>3. CASE Control
  BY <1>3, ControlSame
<1>4. CASE \E tok \in Tokens : DecItem(tok)
  <2>1. ReadShape
    BY <1>4, DecItemShape
  <2> QED BY <2>1 DEF ReadShape, ReadsValue, ReadsChunk, ReadsBreak, ReadsItem, ReadsNothing, zvVars
<1> QED BY <1>1, <1>2, <1>3, <1>4, LiveSteps

\* GoodHeap is kept.
LEMMA GoodHeapKept == ASSUME IInv, GoodHeap, Next PROVE GoodHeap'
<1> SUFFICES ASSUME Live' PROVE GoodHeap'
  BY DEF GoodHeap
<1>1. ~Finish
  BY DEF Finish, Live
<1>2. StepOK /\ Live /\ args' = args
  BY <1>1, NextOK DEF StepOK
<1>3. GoodStep
  <2>1. CASE ZvAppend
    BY <1>2, <2>1, ZvAppendGood
  <2>2. CASE Control
    <3>1. UNCHANGED <<val, stack, srns, refs, heap>>
      BY <2>2, ControlSame
    <3> QED BY <1>2, <3>1, SameGood DEF GoodHeap, IInv
  <2>3. CASE \E tok \in Tokens : DecItem(tok)
    BY <1>2, <2>3, DecItemShape, ReadGood
  <2> QED BY <1>1, <2>1, <2>2, <2>3, LiveSteps
<1> QED BY <1>2, <1>3, RootStep, GoodKept

\* A context without errors stops when its stack is empty.
LEMMA StopKept == ASSUME IInv, StopInv, Next PROVE StopInv'
<1> SUFFICES ASSUME pc' = "stop", error' = "none" PROVE Live' /\ stack' = << >>
  BY DEF StopInv
<1>1. TypeOK /\ DepthBounded /\ ErrorInv
  BY DEF IInv
<1>2. Loop
  <2>1. ~ZvAppend
    BY DEF ZvAppend, AppendRoot, AppendToString, AppendToArray, AppendMapKey, AppendMapValue, AppendToTag, StrRefNsExit,
           StrRefExit, SharedRefExit, ShareableExitLeaf, ShareableExitNested, Raise, Return, CallAppend, CountDown, ShareLeaf
  <2>2. ASSUME NEW tok \in Tokens, DecItem(tok) PROVE FALSE
    <3>1. ~ReadMalformed(tok)
      BY DEF ReadMalformed, Stop
    <3>2. ~(ProcArrayStart(tok) \/ ProcIndefArrayStart(tok) \/ ProcMapStart(tok) \/ ProcIndefMapStart(tok))
      BY DEF ProcArrayStart, ProcIndefArrayStart, ProcMapStart, ProcIndefMapStart, zv_stack_push_counted,
             zv_stack_push_map, stack_push_item, Raise, CallAppend
    <3>3. ~(ProcTag(tok) \/ StrRefNsEnter(tok) \/ StrRefEnter(tok) \/ ShareableEnter(tok) \/ SharedRefEnter(tok) \/ TagOutOfRange(tok))
      BY DEF ProcTag, StrRefNsEnter, StrRefEnter, ShareableEnter, SharedRefEnter, TagOutOfRange, zv_stack_push_tag,
             stack_push_item, Raise
    <3>4. ~(ProcUint(tok) \/ ProcNint(tok) \/ ProcFloatx(tok) \/ ProcPrimitive(tok) \/ ProcSimple(tok))
      BY DEF ProcUint, ProcNint, ProcFloatx, ProcPrimitive, ProcSimple, CallAppend, Raise
    <3>5. ~(ProcString(tok) \/ ProcStringStart(tok) \/ ProcBreak(tok))
      BY DEF ProcString, ProcStringStart, ProcBreak, zv_append_string_item, zv_stack_push_xstring, stack_push_item,
             CallAppend, Raise, Return
    <3> QED BY <2>2, <3>1, <3>2, <3>3, <3>4, <3>5 DEF DecItem
  <2>3. ~SelfDescribe /\ ~Start /\ ~Resume /\ ~ReadTruncated /\ ~Finish
    BY DEF SelfDescribe, Start, Resume, ReadTruncated, Stop, Finish
  <2> QED BY <2>1, <2>2, <2>3 DEF Next, Run, Alphabet
<1>3. cb_error = "none" /\ UNCHANGED <<cb_error, stack>>
  BY <1>2 DEF Loop, stackVars
<1>4. stack_depth = 0
  BY <1>2, <1>3 DEF Loop
<1>5. stack = << >>
  <2>1. stack \in Seq(Item) /\ Len(stack) = 0
    BY <1>1, <1>4 DEF DepthBounded, TypeOK
  <2> QED BY <2>1, EmptySeq
<1> QED BY <1>3, <1>5 DEF Live

-----------------------------------------------------------------------------
(* Without shared references no node is in two places.                      *)

\* The places, one kind after the other
LEMMA PlaceIn ==
  ASSUME NEW st, NEW hp, NEW p
  PROVE  p \in Place(st, hp) <=>
           \/ p = <<0, 0>> \/ p = <<1, 0>>
           \/ \E i \in DOMAIN st : p = <<2, i>>
           \/ \E i \in DOMAIN hp : \E e \in DOMAIN hp[i].ent : p = <<3, i, e>>
  BY DEF Place

\* What the places hold
LEMMA PlaceValue ==
  ASSUME NEW v, NEW rt, NEW st, NEW hp
  PROVE  /\ ValueAt(<<0, 0>>, v, rt, st, hp) = v
         /\ ValueAt(<<1, 0>>, v, rt, st, hp) = rt
         /\ \A i : ValueAt(<<2, i>>, v, rt, st, hp) = st[i].v
         /\ \A i, e : ValueAt(<<3, i, e>>, v, rt, st, hp) = hp[i].ent[e].v
  BY DEF ValueAt

\* The item of the stack, and the entry of a node, as places
LEMMA ItemPlace ==
  ASSUME NEW v, NEW rt, NEW st, NEW hp, NEW i \in DOMAIN st
  PROVE  <<2, i>> \in Place(st, hp) /\ ValueAt(<<2, i>>, v, rt, st, hp) = st[i].v
  BY DEF Place, ValueAt

\* An entry of a node is a place, and what is there.
LEMMA EntryPlace ==
  ASSUME NEW v, NEW rt, NEW st, NEW hp, NEW i \in DOMAIN hp, NEW e \in DOMAIN hp[i].ent
  PROVE  <<3, i, e>> \in Place(st, hp) /\ ValueAt(<<3, i, e>>, v, rt, st, hp) = hp[i].ent[e].v
<1>1. <<3, i, e>> \in Place(st, hp)
  BY PlaceIn
<1>2. ValueAt(<<3, i, e>>, v, rt, st, hp) = hp[i].ent[e].v
  BY DEF ValueAt
<1> QED BY <1>1, <1>2

\* No node gets a second place if every value is new, in one place, or comes
\* from a place it leaves.
LEMMA Moved ==
  ASSUME NEW v, NEW rt, NEW st, NEW hp, NEW v2, NEW rt2, NEW st2, NEW hp2,
         OneHolder(v, rt, st, hp), NEW fresh, NEW home, NEW to,
         \A q \in Place(st, hp) :
           HasNode(ValueAt(q, v, rt, st, hp)) => ValueAt(q, v, rt, st, hp).n # fresh,
         \A p \in Place(st2, hp2) : HasNode(ValueAt(p, v2, rt2, st2, hp2)) =>
           \/ p = home /\ ValueAt(p, v2, rt2, st2, hp2).n = fresh
           \/ \E q \in Place(st, hp) : ValueAt(q, v, rt, st, hp) = ValueAt(p, v2, rt2, st2, hp2) /\ to[q] = p
  PROVE  OneHolder(v2, rt2, st2, hp2)
<1> SUFFICES ASSUME NEW p1 \in Place(st2, hp2), NEW p2 \in Place(st2, hp2),
                    HasNode(ValueAt(p1, v2, rt2, st2, hp2)), HasNode(ValueAt(p2, v2, rt2, st2, hp2)),
                    ValueAt(p1, v2, rt2, st2, hp2).n = ValueAt(p2, v2, rt2, st2, hp2).n
             PROVE  p1 = p2
  BY DEF OneHolder
<1> DEFINE a(q) == ValueAt(q, v, rt, st, hp)
           b(p) == ValueAt(p, v2, rt2, st2, hp2)
<1>1. \A q1, q2 \in Place(st, hp) : HasNode(a(q1)) /\ HasNode(a(q2)) /\ a(q1).n = a(q2).n => q1 = q2
  BY DEF OneHolder
<1>2. \A q \in Place(st, hp) : HasNode(a(q)) => a(q).n # fresh
  OBVIOUS
<1>3. \A p \in {p1, p2} : (p = home /\ b(p).n = fresh) \/ \E q \in Place(st, hp) : a(q) = b(p) /\ to[q] = p
  OBVIOUS
<1>4. HasNode(b(p1)) /\ HasNode(b(p2)) /\ b(p1).n = b(p2).n
  OBVIOUS
<1> HIDE DEF a, b
<1> QED BY <1>1, <1>2, <1>3, <1>4

\* A step that moves values: where the argument of zv_append goes, where the
\* value of the item on top goes, and where there is a new node.
Moves(arg, top, home) ==
  \A p \in Place(stack', heap') : HasNode(ValueAt(p, val', root', stack', heap')) =>
    \/ p = home /\ ValueAt(p, val', root', stack', heap').n = Len(heap) + 1
    \/ p = arg /\ ValueAt(p, val', root', stack', heap') = val
    \/ p = top /\ stack # << >> /\ ValueAt(p, val', root', stack', heap') = Top.v
    \/ /\ p \in Place(stack, heap) /\ p # <<0, 0>> /\ (p = <<2, Len(stack)>> => p = top)
       /\ ValueAt(p, val', root', stack', heap') = ValueAt(p, val, root, stack, heap)

\* ... because each place that has a node then had it before, or has a new one.
LEMMA MovesKeep ==
  ASSUME TypeOK, GoodHeap, Live, OneHolder(val, root, stack, heap), NEW arg, NEW top, NEW home, Moves(arg, top, home)
  PROVE  OneHolder(val', root', stack', heap')
<1> DEFINE fresh == Len(heap) + 1
           to == [q \in Place(stack, heap) |->
                    IF q = <<0, 0>> THEN arg ELSE IF q = <<2, Len(stack)>> THEN top ELSE q]
           a(q) == ValueAt(q, val, root, stack, heap)
           b(p) == ValueAt(p, val', root', stack', heap')
<1>1. heap \in Seq(Node) /\ stack \in Seq(Item) /\ fresh \notin DOMAIN heap
  BY DEF TypeOK
<1>2. ASSUME NEW q \in Place(stack, heap), HasNode(a(q)) PROVE a(q).n # fresh
  <2>1. ASSUME NEW u, GoodValue(u, heap), HasNode(u) PROVE u.n # fresh
    BY <1>1, <2>1 DEF GoodValue
  <2>2. \A i \in DOMAIN heap : \A e \in DOMAIN heap[i].ent : GoodValue(heap[i].ent[e].v, heap)
    BY DEF GoodHeap, GoodNode
  <2>3. ASSUME NEW i \in DOMAIN stack, HasNode(stack[i].v) PROVE stack[i].v.n # fresh
    <3>1. GoodItem(stack[i], heap, args.shared_ref)
      BY DEF GoodHeap
    <3>2. CASE stack[i].si_type \in {"array", "map"}
      BY <1>1, <3>1, <3>2 DEF GoodItem
    <3>3. CASE stack[i].thi = "shareable"
      BY <2>1, <2>3, <3>1, <3>3 DEF GoodItem
    <3>4. CASE stack[i].v = Undef
      BY <2>3, <3>4 DEF HasNode, Undef, Scalar
    <3> QED BY <3>1, <3>2, <3>3, <3>4 DEF GoodItem
  <2>4. GoodValue(val, heap) /\ GoodValue(root, heap)
    BY DEF GoodHeap
  <2>5. CASE q = <<0, 0>>
    BY <1>2, <2>1, <2>4, <2>5, PlaceValue
  <2>6. CASE q = <<1, 0>>
    BY <1>2, <2>1, <2>4, <2>6, PlaceValue
  <2>7. CASE \E i \in DOMAIN stack : q = <<2, i>>
    <3>1. PICK i \in DOMAIN stack : q = <<2, i>>
      BY <2>7
    <3>2. a(q) = stack[i].v
      BY <3>1, ItemPlace
    <3> HIDE DEF a
    <3> QED BY <1>2, <2>3, <3>2
  <2>8. CASE \E i \in DOMAIN heap : \E e \in DOMAIN heap[i].ent : q = <<3, i, e>>
    <3> PICK i \in DOMAIN heap : \E e \in DOMAIN heap[i].ent : q = <<3, i, e>>
      BY <2>8
    <3>1. PICK e \in DOMAIN heap[i].ent : q = <<3, i, e>>
      OBVIOUS
    <3>2. a(q) = heap[i].ent[e].v
      BY <3>1, EntryPlace
    <3> HIDE DEF a
    <3> QED BY <1>2, <2>1, <2>2, <3>2
  <2> QED BY <2>5, <2>6, <2>7, <2>8, PlaceIn
<1>3. ASSUME NEW p \in Place(stack', heap'), HasNode(b(p))
      PROVE  (p = home /\ b(p).n = fresh) \/ \E q \in Place(stack, heap) : a(q) = b(p) /\ to[q] = p
  <2>1. \/ p = home /\ b(p).n = fresh
        \/ p = arg /\ b(p) = val
        \/ p = top /\ stack # << >> /\ b(p) = Top.v
        \/ /\ p \in Place(stack, heap) /\ p # <<0, 0>> /\ (p = <<2, Len(stack)>> => p = top)
           /\ b(p) = a(p)
    BY <1>3 DEF Moves
  <2>2. <<0, 0>> \in Place(stack, heap) /\ a(<<0, 0>>) = val /\ to[<<0, 0>>] = arg
    BY PlaceIn, PlaceValue
  <2>3. stack # << >> => /\ <<2, Len(stack)>> \in Place(stack, heap) /\ a(<<2, Len(stack)>>) = Top.v
                         /\ to[<<2, Len(stack)>>] = top
    <3> SUFFICES ASSUME stack # << >>
                 PROVE  /\ <<2, Len(stack)>> \in Place(stack, heap) /\ a(<<2, Len(stack)>>) = Top.v
                        /\ to[<<2, Len(stack)>>] = top
      OBVIOUS
    <3>1. Len(stack) \in DOMAIN stack
      BY <1>1, TopType
    <3>2. <<2, Len(stack)>> \in Place(stack, heap) /\ a(<<2, Len(stack)>>) = Top.v
      BY <3>1, ItemPlace DEF Top
    <3>3. <<2, Len(stack)>> # <<0, 0>>
      OBVIOUS
    <3> QED BY <3>2, <3>3
  <2>4. \A q \in Place(stack, heap) : q # <<0, 0>> /\ (q = <<2, Len(stack)>> => q = top) => to[q] = q
    OBVIOUS
  <2> HIDE DEF to, a, b
  <2> QED BY <2>1, <2>2, <2>3, <2>4
<1>4. \A q \in Place(stack, heap) : HasNode(a(q)) => a(q).n # fresh
  BY <1>2
<1>5. \A p \in Place(stack', heap') : HasNode(b(p)) =>
        (p = home /\ b(p).n = fresh) \/ \E q \in Place(stack, heap) : a(q) = b(p) /\ to[q] = p
  BY <1>3
<1> HIDE DEF to, fresh
<1> QED BY ONLY <1>4, <1>5, OneHolder(val, root, stack, heap), Moved

\* Moves, place by place
LEMMA MovesBy ==
  ASSUME NEW arg, NEW top, NEW home,
         HasNode(val') => \/ home = <<0, 0>> /\ val'.n = Len(heap) + 1
                          \/ arg = <<0, 0>> /\ val' = val
                          \/ top = <<0, 0>> /\ stack # << >> /\ val' = Top.v,
         HasNode(root') => root' = root \/ (arg = <<1, 0>> /\ root' = val),
         \A i \in DOMAIN stack' : HasNode(stack'[i].v) =>
           \/ i \in DOMAIN stack /\ stack'[i].v = stack[i].v /\ (i = Len(stack) => top = <<2, i>>)
           \/ home = <<2, i>> /\ stack'[i].v.n = Len(heap) + 1,
         \A i \in DOMAIN heap' : \A e \in DOMAIN heap'[i].ent : HasNode(heap'[i].ent[e].v) =>
           \/ i \in DOMAIN heap /\ e \in DOMAIN heap[i].ent /\ heap'[i].ent[e].v = heap[i].ent[e].v
           \/ arg = <<3, i, e>> /\ heap'[i].ent[e].v = val
  PROVE  Moves(arg, top, home)
<1> DEFINE a(q) == ValueAt(q, val, root, stack, heap)
           b(p) == ValueAt(p, val', root', stack', heap')
<1> SUFFICES ASSUME NEW p \in Place(stack', heap'), HasNode(b(p))
             PROVE  \/ p = home /\ b(p).n = Len(heap) + 1
                    \/ p = arg /\ b(p) = val
                    \/ p = top /\ stack # << >> /\ b(p) = Top.v
                    \/ /\ p \in Place(stack, heap) /\ p # <<0, 0>> /\ (p = <<2, Len(stack)>> => p = top)
                       /\ b(p) = a(p)
  BY DEF Moves
<1>1. CASE p = <<0, 0>>
  <2>1. b(p) = val'
    BY <1>1, PlaceValue
  <2> HIDE DEF a, b
  <2> QED BY <1>1, <2>1
<1>2. CASE p = <<1, 0>>
  <2>1. b(p) = root' /\ a(p) = root /\ p \in Place(stack, heap)
    BY <1>2, PlaceValue, PlaceIn
  <2>2. p # <<0, 0>> /\ p # <<2, Len(stack)>>
    BY <1>2
  <2> HIDE DEF a, b
  <2> QED BY <1>2, <2>1, <2>2
<1>3. CASE \E i \in DOMAIN stack' : p = <<2, i>>
  <2>1. PICK i \in DOMAIN stack' : p = <<2, i>>
    BY <1>3
  <2>2. b(p) = stack'[i].v
    BY <2>1, ItemPlace
  <2>3. i \in DOMAIN stack => p \in Place(stack, heap) /\ a(p) = stack[i].v
    BY <2>1, ItemPlace
  <2>4. p # <<0, 0>> /\ (p = <<2, Len(stack)>> => i = Len(stack))
    BY <2>1
  <2> HIDE DEF a, b
  <2> QED BY <2>1, <2>2, <2>3, <2>4
<1>4. CASE \E i \in DOMAIN heap' : \E e \in DOMAIN heap'[i].ent : p = <<3, i, e>>
  <2> PICK i \in DOMAIN heap' : \E e \in DOMAIN heap'[i].ent : p = <<3, i, e>>
    BY <1>4
  <2>1. PICK e \in DOMAIN heap'[i].ent : p = <<3, i, e>>
    OBVIOUS
  <2>2. b(p) = heap'[i].ent[e].v
    <3>1. ValueAt(<<3, i, e>>, val', root', stack', heap') = heap'[i].ent[e].v
      BY ONLY EntryPlace, i \in DOMAIN heap', e \in DOMAIN heap'[i].ent
    <3> QED BY <2>1, <3>1
  <2>3. ASSUME i \in DOMAIN heap, e \in DOMAIN heap[i].ent
        PROVE  p \in Place(stack, heap) /\ a(p) = heap[i].ent[e].v
    <3>1. <<3, i, e>> \in Place(stack, heap) /\ ValueAt(<<3, i, e>>, val, root, stack, heap) = heap[i].ent[e].v
      BY ONLY <2>3, EntryPlace
    <3> QED BY <2>1, <3>1
  <2>4. p # <<0, 0>> /\ p # <<2, Len(stack)>>
    BY <2>1
  <2> HIDE DEF a, b
  <2> QED BY <2>1, <2>2, <2>3, <2>4
<1> QED BY <1>1, <1>2, <1>3, <1>4, PlaceIn

\* What the invariant says of the items and of their maps
MapKeys(st, hp) ==
  \A i \in DOMAIN st : st[i].si_type = "map" => DistinctKeys(hp[st[i].v.n].ent)

Unaliased == args.shared_ref = "false" /\ OneHolder(val, root, stack, heap) /\ MapKeys(stack, heap)

\* The items that stay, as long as there is no new one
ItemsStay ==
  \A i \in DOMAIN stack' :
    i \in DOMAIN stack /\ stack'[i].si_type = stack[i].si_type /\ stack'[i].v = stack[i].v

\* The values in nodes stay, and a new node holds no other.
NodesStay ==
  /\ \A i \in DOMAIN heap : i \in DOMAIN heap' /\ heap'[i] = heap[i]
  /\ \A i \in DOMAIN heap' \ DOMAIN heap : \A e \in DOMAIN heap'[i].ent : ~HasNode(heap'[i].ent[e].v)

\* The maps of items that stay keep their keys.
LEMMA KeysStay ==
  ASSUME TypeOK, GoodHeap, Live, MapKeys(stack, heap), ItemsStay, \A i \in DOMAIN heap : heap'[i] = heap[i]
  PROVE  MapKeys(stack', heap')
<1> SUFFICES ASSUME NEW i \in DOMAIN stack', stack'[i].si_type = "map"
             PROVE  DistinctKeys(heap'[stack'[i].v.n].ent)
  BY DEF MapKeys
<1>1. i \in DOMAIN stack /\ stack[i].si_type = "map" /\ stack'[i].v = stack[i].v
  BY DEF ItemsStay
<1>2. stack[i].v.n \in DOMAIN heap
  BY <1>1 DEF GoodHeap, GoodItem
<1> QED BY <1>1, <1>2 DEF MapKeys

\* Steps that hand on a value, or make a leaf
LEMMA HandOn ==
  ASSUME TypeOK, GoodHeap, Live, Unaliased, ItemsStay, NodesStay,
         \/ ~HasNode(val') /\ root' = root
         \/ val' = val /\ root' = root
         \/ val'.n = Len(heap) + 1 /\ root' = root
         \/ stack # << >> /\ val' = Top.v /\ Len(stack) \notin DOMAIN stack' /\ root' = root
         \/ ~HasNode(val') /\ root' = val
  PROVE  OneHolder(val', root', stack', heap') /\ MapKeys(stack', heap')
<1> DEFINE none == <<4, 0>>
           last == <<2, Len(stack)>>
<1>1. MapKeys(stack', heap')
  BY KeysStay DEF Unaliased, NodesStay
<1>2. \E arg, top, home : Moves(arg, top, home)
  <2>1. \A i \in DOMAIN stack' : i \in DOMAIN stack /\ stack'[i].v = stack[i].v
    BY DEF ItemsStay
  <2>2. \A i \in DOMAIN heap' : \A e \in DOMAIN heap'[i].ent : HasNode(heap'[i].ent[e].v) =>
          i \in DOMAIN heap /\ e \in DOMAIN heap[i].ent /\ heap'[i].ent[e].v = heap[i].ent[e].v
    BY DEF NodesStay
  <2>3. CASE ~HasNode(val') /\ root' = root
    <3>1. Moves(none, last, none)
      BY <2>1, <2>2, <2>3, MovesBy
    <3> QED BY <3>1
  <2>4. CASE val' = val /\ root' = root
    <3>1. Moves(<<0, 0>>, last, none)
      BY <2>1, <2>2, <2>4, MovesBy
    <3> QED BY <3>1
  <2>5. CASE val'.n = Len(heap) + 1 /\ root' = root
    <3>1. Moves(none, last, <<0, 0>>)
      BY <2>1, <2>2, <2>5, MovesBy
    <3> QED BY <3>1
  <2>6. CASE stack # << >> /\ val' = Top.v /\ Len(stack) \notin DOMAIN stack' /\ root' = root
    <3>1. Moves(none, <<0, 0>>, none)
      BY <2>1, <2>2, <2>6, MovesBy
    <3> QED BY <3>1
  <2>7. CASE ~HasNode(val') /\ root' = val
    <3>1. Moves(<<1, 0>>, last, none)
      BY <2>1, <2>2, <2>7, MovesBy
    <3> QED BY <3>1
  <2> QED BY <2>3, <2>4, <2>5, <2>6, <2>7
<1> QED BY <1>1, <1>2, MovesKeep DEF Unaliased

\* The items that stay when one is popped, or changed but for its value
LEMMA PopItems ==
  ASSUME TypeOK, stack # << >>, stack' = Below
  PROVE  ItemsStay /\ Len(stack) \notin DOMAIN stack'
<1>1. Below \in Seq(Item) /\ Len(Below) = Len(stack) - 1 /\ Len(stack) \in Nat
      /\ \A i \in 1..(Len(stack) - 1) : Below[i] = stack[i]
  BY BelowType DEF TypeOK
<1>2. DOMAIN Below = 1..(Len(stack) - 1) /\ DOMAIN stack = 1..Len(stack)
  BY <1>1 DEF TypeOK
<1> QED BY <1>1, <1>2 DEF ItemsStay

\* An item on top that has the same type and value as before keeps what the items are about.
LEMMA SetItems ==
  ASSUME TypeOK, stack # << >>, NEW item, SetTop(item), item.si_type = Top.si_type, item.v = Top.v
  PROVE  ItemsStay
<1>1. \A i \in DOMAIN stack' : i \in DOMAIN stack /\ (stack'[i] = stack[i] \/ (i = Len(stack) /\ stack'[i] = item))
  BY DEF SetTop, TypeOK
<1> QED BY <1>1 DEF ItemsStay, Top

\* A heap that stays, or gets a leaf
LEMMA SameNodes == ASSUME heap' = heap PROVE NodesStay
  BY DEF NodesStay

\* A new node without nodes below it changes no other.
LEMMA LeafNodes ==
  ASSUME TypeOK, NEW node \in Node, heap' = Append(heap, node), \A e \in DOMAIN node.ent : ~HasNode(node.ent[e].v)
  PROVE  NodesStay
<1>1. heap \in Seq(Node)
  BY DEF TypeOK
<1>2. /\ DOMAIN heap' = DOMAIN heap \cup {Len(heap) + 1}
      /\ heap'[Len(heap) + 1] = node /\ \A i \in DOMAIN heap : heap'[i] = heap[i]
  BY <1>1, KeptAppend
<1> QED BY <1>2 DEF NodesStay

\* Every kind of value and item without shared references
LEMMA NoShared ==
  ASSUME TypeOK, GoodHeap, Live, Unaliased
  PROVE  /\ \A v : GoodValue(v, heap) => v.k # "ref"
         /\ \A i \in DOMAIN heap : \A e \in DOMAIN heap[i].ent : heap[i].ent[e].v.k # "ref"
         /\ stack # << >> => Top.thi \notin {"shareable", "shared_ref"}
<1>1. \A v : GoodValue(v, heap) => v.k # "ref"
  BY DEF GoodHeap, GoodNode, GoodValue, Unaliased
<1>2. stack # << >> => Top.thi \notin {"shareable", "shared_ref"}
  BY GoodTop DEF GoodItem, Unaliased
<1> QED BY <1>1, <1>2 DEF GoodHeap, GoodNode

\* Data items that are not pushed
LEMMA ReadHolder ==
  ASSUME IInv, GoodHeap, Live, Unaliased, ReadsValue \/ ReadsChunk \/ ReadsBreak \/ ReadsNothing
  PROVE  OneHolder(val', root', stack', heap') /\ MapKeys(stack', heap')
<1>1. TypeOK
  BY DEF IInv
<1>2. CASE ReadsValue
  <2>1. root' = root
    BY <1>2 DEF ReadsValue
  <2>2. ItemsStay
    <3>1. CASE stack' = stack
      BY <3>1 DEF ItemsStay
    <3>2. CASE stack # << >> /\ stack' = Below
      BY <1>1, <3>2, PopItems
    <3> QED BY <1>2, <3>1, <3>2 DEF ReadsValue
  <2>3. CASE heap' = heap /\ val'.k \in PlainKind
    <3>1. ~HasNode(val')
      BY <2>3 DEF PlainKind, HasNode
    <3> QED BY <1>1, <2>1, <2>2, <2>3, <3>1, SameNodes, HandOn
  <2>4. CASE \E node : Leaf(node) /\ heap' = Append(heap, node) /\ val' \in {Obj, Arr}
    <3>1. NodesStay
      BY <1>1, <2>4, LeafNodes DEF Leaf
    <3>2. val'.n = Len(heap) + 1
      BY <2>4 DEF Obj, Arr, Scalar, NewNode
    <3> QED BY <1>1, <2>1, <2>2, <3>1, <3>2, HandOn
  <2> QED BY <1>2, <2>3, <2>4 DEF ReadsValue
<1>3. CASE ReadsChunk
  <2>1. ItemsStay /\ heap' = heap /\ root' = root /\ ~HasNode(val')
    <3>1. PICK item : SetTop(item) /\ item.si_type = Top.si_type /\ item.v = Top.v
      BY <1>3 DEF ReadsChunk
    <3>2. stack # << >> /\ heap' = heap /\ root' = root /\ val' = Undef
      BY <1>3 DEF ReadsChunk
    <3> QED BY <1>1, <3>1, <3>2, SetItems DEF HasNode, Undef, Scalar
  <2> QED BY <1>1, <2>1, SameNodes, HandOn
<1>4. CASE ReadsBreak
  BY <1>1, <1>4, PopItems, SameNodes, HandOn DEF ReadsBreak
<1>5. CASE ReadsNothing
  <2>1. UNCHANGED <<val, root, stack, heap>>
    BY <1>5 DEF ReadsNothing, stackVars, zvVars
  <2>2. ItemsStay
    BY <2>1 DEF ItemsStay
  <2> QED BY <1>1, <2>1, <2>2, SameNodes, HandOn
<1> QED BY <1>2, <1>3, <1>4, <1>5

\* Data items that are
LEMMA PushHolder ==
  ASSUME IInv, GoodHeap, Live, Live', Unaliased, ReadsItem
  PROVE  OneHolder(val', root', stack', heap') /\ MapKeys(stack', heap')
<1>1. TypeOK /\ ItemInv /\ stack \in Seq(Item) /\ heap \in Seq(Node) /\ root' = root
  BY DEF IInv, TypeOK, ReadsItem
<1>2. PICK item \in Item, rs \in Seq(Value), hp \in Seq(Node) :
        stack_push_item(item, rs, hp) /\ NewItem(item, rs, hp)
  BY DEF ReadsItem
<1> DEFINE new == StrRefNsChild(item)
<1>3. stack' = Append(stack, new) /\ heap' = hp /\ val' = Undef
  <2>1. ~HasChildHandler("shareable")
    <3>1. CASE stack # << >>
      BY <1>1, <3>1, NoShared, TopInv DEF HasChildHandler
    <3>2. CASE stack = << >>
      BY <3>2 DEF HasChildHandler
    <3> QED BY <3>1, <3>2
  <2> QED BY <1>2, <2>1 DEF stack_push_item, zv_si_push, Live
<1>4. new \in Item /\ new.si_type = item.si_type /\ new.v = item.v
  BY ChildFields
<1> HIDE DEF new
<1>5. \A i \in DOMAIN stack' : (i \in DOMAIN stack /\ stack'[i] = stack[i]) \/ (i = Len(stack) + 1 /\ stack'[i] = new)
  BY <1>1, <1>3, <1>4
<1>6. ~HasNode(Undef) /\ ~HasNode(Null)
  BY DEF HasNode, Undef, Null, Scalar
<1>7. NodesStay /\ \/ ~HasNode(new.v) /\ new.si_type # "map"
                   \/ new.v.n = Len(heap) + 1 /\ Len(heap) + 1 \in DOMAIN heap' /\ heap'[Len(heap) + 1].ent = << >>
  <2>1. CASE hp = heap /\ item.si_type \notin {"array", "map"} /\ item.v \in {Undef, Null}
    BY <1>3, <1>4, <1>6, <2>1, SameNodes
  <2>2. ASSUME NEW class \in {"array", "stdClass"}, hp = Append(heap, Empty(class)), item.v \in {Arr, Obj}
        PROVE  NodesStay /\ new.v.n = Len(heap) + 1 /\ Len(heap) + 1 \in DOMAIN heap' /\ heap'[Len(heap) + 1].ent = << >>
    <3> DEFINE node == Empty(class)
    <3>1. node \in Node /\ node.ent = << >>
      <4>1. class \in Class
        BY DEF Class
      <4>2. Empty(class) \in Node
        BY <4>1, EmptyType
      <4> QED BY <4>2 DEF Empty
    <3>2. heap' = Append(heap, node)
      BY <1>3, <2>2
    <3> HIDE DEF node
    <3>3. DOMAIN heap' = DOMAIN heap \cup {Len(heap) + 1} /\ heap'[Len(heap) + 1] = node
      BY <1>1, <3>1, <3>2, KeptAppend
    <3>4. \A e \in DOMAIN node.ent : ~HasNode(node.ent[e].v)
      <4>1. DOMAIN << >> = {}
        OBVIOUS
      <4> QED BY <3>1, <4>1
    <3>5. item.v.n = Len(heap) + 1
      BY <2>2 DEF Arr, Obj, Scalar, NewNode
    <3> QED BY <1>1, <1>4, <3>1, <3>2, <3>3, <3>4, <3>5, LeafNodes
  <2> QED BY <1>2, <2>1, <2>2 DEF NewItem
<1>8. MapKeys(stack', heap')
  <2> SUFFICES ASSUME NEW i \in DOMAIN stack', stack'[i].si_type = "map"
               PROVE  DistinctKeys(heap'[stack'[i].v.n].ent)
    BY DEF MapKeys
  <2>1. CASE i \in DOMAIN stack /\ stack'[i] = stack[i]
    <3>1. stack[i].v.n \in DOMAIN heap
      BY <2>1 DEF GoodHeap, GoodItem
    <3>2. heap'[stack[i].v.n] = heap[stack[i].v.n]
      BY <1>7, <3>1 DEF NodesStay
    <3> QED BY <2>1, <3>2 DEF MapKeys, Unaliased
  <2>2. CASE stack'[i] = new
    <3>1. heap'[new.v.n].ent = << >>
      BY <1>7, <2>2
    <3>2. DistinctKeys(<< >>)
      BY DEF DistinctKeys
    <3> QED BY <2>2, <3>1, <3>2
  <2> QED BY <1>5, <2>1, <2>2
<1>9. OneHolder(val', root', stack', heap')
  <2> DEFINE last == <<2, Len(stack)>>
             home == <<2, Len(stack) + 1>>
             none == <<4, 0>>
  <2>1. ~HasNode(val')
    BY <1>3, <1>6
  <2>2. \A i \in DOMAIN stack' : HasNode(stack'[i].v) =>
           \/ i \in DOMAIN stack /\ stack'[i].v = stack[i].v /\ (i = Len(stack) => last = <<2, i>>)
           \/ home = <<2, i>> /\ stack'[i].v.n = Len(heap) + 1
    BY <1>5, <1>7
  <2>3. \A i \in DOMAIN heap' : \A e \in DOMAIN heap'[i].ent : HasNode(heap'[i].ent[e].v) =>
          i \in DOMAIN heap /\ e \in DOMAIN heap[i].ent /\ heap'[i].ent[e].v = heap[i].ent[e].v
    BY <1>7 DEF NodesStay
  <2> HIDE DEF last, home
  <2>4. Moves(none, last, home)
    BY <1>1, <2>1, <2>2, <2>3, MovesBy
  <2> QED BY <1>1, <2>4, MovesKeep DEF Unaliased
<1> QED BY <1>8, <1>9

\* Steps of zv_append that take no value into a node
LEMMA PassHolder ==
  ASSUME IInv, GoodHeap, Live, Live', Unaliased,
         AppendRoot \/ AppendMapKey \/ StrRefNsExit
  PROVE  OneHolder(val', root', stack', heap') /\ MapKeys(stack', heap')
<1>1. TypeOK /\ ~HasNode(Undef)
  BY DEF IInv, HasNode, Undef, Scalar
<1>2. CASE AppendRoot
  <2>1. ~Raise("INT_RANGE")
    BY RaiseDead
  <2>2. val' = Undef /\ root' = val /\ UNCHANGED <<stack, heap>>
    BY <1>2, <2>1 DEF AppendRoot, Return, stackVars
  <2>3. ItemsStay
    BY <2>2 DEF ItemsStay
  <2> QED BY <1>1, <2>2, <2>3, SameNodes, HandOn
<1>3. CASE AppendMapKey
  <2> DEFINE item == [Top EXCEPT !.extra = IF Top.count = 0 THEN @ + 1 ELSE @]
             x == [item EXCEPT !.key = val]
  <2>1. ~Raise("UNSUPPORTED_SIZE") /\ ~Raise("UNSUPPORTED_KEY_TYPE")
    BY RaiseDead
  <2>2. SetTop(x) /\ val' = Undef
    BY <1>3, <2>1 DEF AppendMapKey, Return
  <2>3. x.si_type = Top.si_type /\ x.v = Top.v
    OBVIOUS
  <2> HIDE DEF x
  <2>4. stack # << >> /\ root' = root /\ heap' = heap
    BY <1>3 DEF AppendMapKey, AtAppend, zvVars
  <2>5. ItemsStay
    BY <1>1, <2>2, <2>3, <2>4, SetItems
  <2> QED BY <1>1, <2>2, <2>4, <2>5, SameNodes, HandOn
<1>4. CASE StrRefNsExit
  <2>1. stack # << >> /\ stack' = Below /\ val' = val /\ root' = root /\ heap' = heap
    BY <1>4 DEF StrRefNsExit, AtExit, AtAppend, stack_pop_item, CallAppend
  <2> QED BY <1>1, <2>1, PopItems, SameNodes, HandOn
<1> QED BY <1>2, <1>3, <1>4

\* A {stringref} gives a string, or a clone of the object that holds it.
LEMMA StrRefHolder ==
  ASSUME IInv, GoodHeap, Live, Live', Unaliased, StrRefExit
  PROVE  OneHolder(val', root', stack', heap') /\ MapKeys(stack', heap')
<1>1. TypeOK /\ stack # << >> /\ root' = root /\ stack' = Below
  BY DEF IInv, StrRefExit, AtExit, AtAppend, stack_pop_item
<1>2. ~Raise("TAG_TYPE_STR_REF_NOT_INT") /\ ~Raise("TAG_VALUE_STR_REF_RANGE")
  BY RaiseDead
<1> DEFINE str == srns[Len(srns)][val.n + 1]
<1>3. /\ val.n \in 0..(Len(srns[Len(srns)]) - 1)
      /\ \/ str.k # "obj" /\ val' = str /\ heap' = heap
         \/ str.k = "obj" /\ val' = Obj /\ heap' = Append(heap, heap[str.n])
  BY <1>2 DEF StrRefExit, CallAppend
<1>4. srns # << >> /\ Len(srns) > 0 /\ srns[Len(srns)] \in Seq(Value)
  <2>1. NeedsNamespace(stack[Len(stack)]) /\ Len(stack) \in DOMAIN stack
    BY <1>1, TopType DEF StrRefExit, AtExit, Top, TypeOK, NeedsNamespace
  <2> QED BY <1>1, <2>1, NamespaceExists DEF IInv
<1>5. Len(srns) \in DOMAIN srns /\ val.n + 1 \in DOMAIN srns[Len(srns)]
  BY <1>1, <1>3, <1>4 DEF TypeOK
<1>6. GoodString(str, heap)
  BY <1>5 DEF GoodHeap
<1> HIDE DEF str
<1>7. CASE str.k # "obj"
  <2>1. ~HasNode(val')
    BY <1>3, <1>6, <1>7 DEF GoodString, HasNode
  <2> QED BY <1>1, <1>3, <1>7, <2>1, PopItems, SameNodes, HandOn
<1>8. CASE str.k = "obj"
  <2> DEFINE node == heap[str.n]
  <2>1. str.n \in DOMAIN heap /\ node.c \in {"Byte", "Text"}
    BY <1>6, <1>8 DEF GoodString
  <2>2. node \in Node /\ GoodNode(node, heap, args.shared_ref)
    BY <1>1, <2>1 DEF TypeOK, GoodHeap
  <2>3. heap' = Append(heap, node) /\ val' = Obj
    BY <1>3, <1>8
  <2>4. \A e \in DOMAIN node.ent : ~HasNode(node.ent[e].v)
    BY <2>1, <2>2 DEF GoodNode, HasNode
  <2> HIDE DEF node
  <2>5. NodesStay
    BY <1>1, <2>2, <2>3, <2>4, LeafNodes
  <2>6. val'.n = Len(heap) + 1
    BY <2>3 DEF Obj, Scalar, NewNode
  <2> QED BY <1>1, <2>5, <2>6, PopItems, HandOn
<1> QED BY <1>7, <1>8

\* A Cbor\Tag takes the content of the tag.
LEMMA TagHolder ==
  ASSUME IInv, GoodHeap, Live, Live', Unaliased, AppendToTag
  PROVE  OneHolder(val', root', stack', heap') /\ MapKeys(stack', heap')
<1>1. TypeOK /\ stack # << >> /\ root' = root /\ heap \in Seq(Node)
  BY DEF IInv, AppendToTag, AtAppend, TypeOK
<1>2. ~Raise("INT_RANGE")
  BY RaiseDead
<1>3. val.k # "ref" /\ val \in Value
  BY <1>1, NoShared DEF GoodHeap, TypeOK
<1> DEFINE node == Holder("Tag", Top.id, val)
<1>4. heap' = Append(heap, node) /\ stack' = Below /\ val' = Obj
  BY <1>2, <1>3 DEF AppendToTag, stack_pop_item, CallAppend, Deref
<1>5. node \in Node /\ DOMAIN node.ent = {1} /\ node.ent[1].v = val
  <2>1. Top.id \in Int /\ "Tag" \in Class
    BY <1>1, TopType DEF TypeOK, Item, Class
  <2>2. node \in Node
    BY <1>3, <2>1, HolderType
  <2> QED BY <2>2, HolderFields
<1> HIDE DEF node
<1>6. /\ DOMAIN heap' = DOMAIN heap \cup {Len(heap) + 1}
      /\ heap'[Len(heap) + 1] = node /\ \A i \in DOMAIN heap : heap'[i] = heap[i]
  BY <1>1, <1>4, <1>5, KeptAppend
<1>7. ItemsStay
  BY <1>1, <1>4, PopItems
<1> DEFINE arg == <<3, Len(heap) + 1, 1>>
           home == <<0, 0>>
           last == <<2, Len(stack)>>
<1>8. \A i \in DOMAIN heap' : \A e \in DOMAIN heap'[i].ent : HasNode(heap'[i].ent[e].v) =>
         \/ i \in DOMAIN heap /\ e \in DOMAIN heap[i].ent /\ heap'[i].ent[e].v = heap[i].ent[e].v
         \/ arg = <<3, i, e>> /\ heap'[i].ent[e].v = val
  <2> SUFFICES ASSUME NEW i \in DOMAIN heap', NEW e \in DOMAIN heap'[i].ent
               PROVE  \/ i \in DOMAIN heap /\ e \in DOMAIN heap[i].ent /\ heap'[i].ent[e].v = heap[i].ent[e].v
                      \/ arg = <<3, i, e>> /\ heap'[i].ent[e].v = val
    OBVIOUS
  <2>1. CASE i \in DOMAIN heap
    BY <1>6, <2>1
  <2>2. CASE i = Len(heap) + 1
    BY <1>5, <1>6, <2>2
  <2> QED BY <1>6, <2>1, <2>2
<1>9. \A i \in DOMAIN stack' : i \in DOMAIN stack /\ stack'[i].v = stack[i].v /\ (i = Len(stack) => last = <<2, i>>)
  BY <1>7 DEF ItemsStay
<1>10. val'.n = Len(heap) + 1
  BY <1>4 DEF Obj, Scalar, NewNode
<1> HIDE DEF arg, last
<1>11. Moves(arg, last, home)
  BY <1>1, <1>8, <1>9, <1>10, MovesBy
<1>12. MapKeys(stack', heap')
  BY <1>1, <1>6, <1>7, KeysStay DEF Unaliased
<1> QED BY <1>1, <1>11, <1>12, MovesKeep DEF Unaliased

\* A container that takes a value as its element k: the entries it had stay
\* but for that one, and the keys of a map are distinct.
Takes(ent, new, k) ==
  /\ k \in DOMAIN new /\ new[k].v = val
  /\ \A e \in DOMAIN new \ {k} : e \in DOMAIN ent /\ new[e].v = ent[e].v

\* An array or a map that takes the argument of zv_append: it gets what nobody else holds then.
LEMMA StoreHolder ==
  ASSUME TypeOK, GoodHeap, Live, Unaliased, stack # << >>, Top.si_type \in {"array", "map"}, root' = root,
         NEW new \in Seq(Entry), NEW k, Takes(heap[Top.v.n].ent, new, k),
         Top.si_type = "map" => DistinctKeys(new),
         heap' = [heap EXCEPT ![Top.v.n].ent = new],
         NEW item, item.si_type = Top.si_type, item.v = Top.v, CountDown(item)
  PROVE  OneHolder(val', root', stack', heap') /\ MapKeys(stack', heap')
<1> DEFINE n == Top.v.n
<1>1. /\ heap \in Seq(Node) /\ stack \in Seq(Item) /\ Len(stack) \in DOMAIN stack
      /\ HasNode(Top.v) /\ n \in DOMAIN heap /\ Top = stack[Len(stack)]
  BY TopType, GoodTop DEF TypeOK, GoodItem, Top
<1>2. /\ DOMAIN heap' = DOMAIN heap /\ heap'[n].ent = new
      /\ \A j \in DOMAIN heap \ {n} : heap'[j] = heap[j]
  <2>1. heap' = [heap EXCEPT ![n].ent = new]
    OBVIOUS
  <2> HIDE DEF n
  <2> QED BY <1>1, <2>1, KeptEntries
<1>3. /\ ItemsStay
      /\ \/ stack' = Below /\ val' = Top.v
         \/ val' = Undef
  <2>1. CASE item.count = 1
    <3>1. stack' = Below /\ val' = Top.v
      BY <2>1 DEF CountDown, stack_pop_item, CallAppend
    <3> QED BY <3>1, PopItems
  <2>2. CASE item.count # 1
    <3> DEFINE x == [item EXCEPT !.count = IF @ = 0 THEN 0 ELSE @ - 1]
    <3>1. SetTop(x) /\ val' = Undef
      BY <2>2 DEF CountDown, Return, SetTop
    <3>2. x.si_type = item.si_type /\ x.v = item.v
      OBVIOUS
    <3> HIDE DEF x
    <3> QED BY <3>1, <3>2, SetItems
  <2> QED BY <2>1, <2>2
<1> DEFINE arg == <<3, n, k>>
           none == <<4, 0>>
           last == <<2, Len(stack)>>
<1>4. \A i \in DOMAIN heap' : \A e \in DOMAIN heap'[i].ent : HasNode(heap'[i].ent[e].v) =>
         \/ i \in DOMAIN heap /\ e \in DOMAIN heap[i].ent /\ heap'[i].ent[e].v = heap[i].ent[e].v
         \/ arg = <<3, i, e>> /\ heap'[i].ent[e].v = val
  <2> SUFFICES ASSUME NEW i \in DOMAIN heap', NEW e \in DOMAIN heap'[i].ent
               PROVE  \/ i \in DOMAIN heap /\ e \in DOMAIN heap[i].ent /\ heap'[i].ent[e].v = heap[i].ent[e].v
                      \/ arg = <<3, i, e>> /\ heap'[i].ent[e].v = val
    OBVIOUS
  <2>1. CASE i # n
    BY <1>2, <2>1
  <2>2. CASE i = n
    BY <1>1, <1>2, <2>2 DEF Takes
  <2> QED BY <2>1, <2>2
<1>5. OneHolder(val', root', stack', heap')
  <2>1. \A i \in DOMAIN stack' : i \in DOMAIN stack /\ stack'[i].v = stack[i].v
    BY <1>3 DEF ItemsStay
  <2>2. CASE stack' = Below /\ val' = Top.v
    <3>1. Len(stack) \notin DOMAIN stack'
      BY <2>2, PopItems
    <3> HIDE DEF arg
    <3>2. Moves(arg, <<0, 0>>, none)
      BY <1>4, <2>1, <2>2, <3>1, MovesBy
    <3> QED BY <3>2, MovesKeep DEF Unaliased
  <2>3. CASE val' = Undef
    <3>1. ~HasNode(val')
      BY <2>3 DEF HasNode, Undef, Scalar
    <3> HIDE DEF arg
    <3>2. Moves(arg, last, none)
      BY <1>4, <2>1, <3>1, MovesBy
    <3> QED BY <3>2, MovesKeep DEF Unaliased
  <2> QED BY <1>3, <2>2, <2>3
<1>6. MapKeys(stack', heap')
  <2> SUFFICES ASSUME NEW i \in DOMAIN stack', stack'[i].si_type = "map"
               PROVE  DistinctKeys(heap'[stack'[i].v.n].ent)
    BY DEF MapKeys
  <2>1. i \in DOMAIN stack /\ stack[i].si_type = "map" /\ stack'[i].v = stack[i].v
    BY <1>3 DEF ItemsStay
  <2>2. CASE i = Len(stack)
    BY <1>1, <1>2, <2>1, <2>2
  <2>3. CASE i # Len(stack)
    <3>1. stack[i].v.n \in DOMAIN heap /\ HasNode(stack[i].v)
      BY <2>1 DEF GoodHeap, GoodItem
    <3>2. stack[i].v.n # n
      <4>1. <<2, i>> \in Place(stack, heap) /\ ValueAt(<<2, i>>, val, root, stack, heap) = stack[i].v
        BY <2>1, ItemPlace
      <4> DEFINE m == Len(stack)
      <4>2. <<2, m>> \in Place(stack, heap) /\ ValueAt(<<2, m>>, val, root, stack, heap) = stack[m].v
        BY <1>1, ItemPlace
      <4>3. <<2, i>> # <<2, m>>
        BY <2>3
      <4> HIDE DEF m
      <4>4. stack[i].v.n # stack[m].v.n \/ ~HasNode(stack[m].v)
        BY <3>1, <4>1, <4>2, <4>3 DEF OneHolder, Unaliased
      <4> QED BY <1>1, <4>4 DEF m
    <3> QED BY <1>2, <2>1, <3>1, <3>2 DEF MapKeys, Unaliased
  <2> QED BY <2>2, <2>3
<1> QED BY <1>5, <1>6

\* An entry that is put into a list is its only new one.
LEMMA PutTakes ==
  ASSUME NEW ent \in Seq(Entry), NEW key, DistinctKeys(ent)
  PROVE  /\ \E k : Takes(ent, PutEntry(ent, key, val), k)
         /\ DistinctKeys(PutEntry(ent, key, val))
<1> DEFINE new == PutEntry(ent, key, val)
<1>1. CASE HasKey(ent, key)
  <2>1. PICK k \in DOMAIN ent : ent[k].key = key
    BY <1>1 DEF HasKey
  <2>2. DOMAIN new = DOMAIN ent
    BY <1>1 DEF PutEntry
  <2>3. \A e \in DOMAIN ent : new[e] = IF ent[e].key = key THEN [ent[e] EXCEPT !.v = val] ELSE ent[e]
    BY <1>1 DEF PutEntry
  <2>4. \A e \in DOMAIN ent : ent[e] \in Entry
    OBVIOUS
  <2> HIDE DEF new
  <2>5. \A e \in DOMAIN ent : new[e].key = ent[e].key /\ (ent[e].key = key => new[e].v = val)
                              /\ (ent[e].key # key => new[e].v = ent[e].v)
    BY <2>3, <2>4 DEF Entry
  <2>6. Takes(ent, new, k)
    BY <2>1, <2>2, <2>5 DEF Takes, DistinctKeys
  <2>7. DistinctKeys(new)
    BY <2>2, <2>5 DEF DistinctKeys
  <2> QED BY <2>6, <2>7 DEF new
<1>2. CASE ~HasKey(ent, key)
  <2> DEFINE x == [key |-> key, v |-> val]
             k == Len(ent) + 1
  <2>1. new = Append(ent, x)
    BY <1>2 DEF PutEntry
  <2>2. x.v = val /\ x.key = key
    OBVIOUS
  <2> HIDE DEF new, x
  <2>3. /\ DOMAIN new = 1..k /\ DOMAIN ent = 1..(k - 1) /\ k \in Nat \ {0}
        /\ new[k] = x /\ \A e \in 1..(k - 1) : new[e] = ent[e]
    BY <2>1
  <2> HIDE DEF k
  <2>4. DOMAIN new = DOMAIN ent \cup {k} /\ k \in DOMAIN new
    BY <2>3
  <2>5. Takes(ent, new, k)
    BY <2>2, <2>3, <2>4 DEF Takes
  <2>6. DistinctKeys(new)
    <3>1. \A e \in DOMAIN ent : new[e].key = ent[e].key /\ ent[e].key # key
      BY <1>2, <2>3 DEF HasKey
    <3>2. new[k].key = key
      BY <2>2, <2>3
    <3> QED BY <2>4, <3>1, <3>2 DEF DistinctKeys
  <2> QED BY <2>5, <2>6 DEF new
<1> QED BY <1>1, <1>2

\* An array takes an element, ...
LEMMA ArrayHolder ==
  ASSUME IInv, GoodHeap, Live, Live', Unaliased, AppendToArray
  PROVE  OneHolder(val', root', stack', heap') /\ MapKeys(stack', heap')
<1>1. TypeOK /\ stack # << >> /\ Top.si_type = "array" /\ root' = root
  BY DEF IInv, AppendToArray, AtAppend
<1> DEFINE n == Top.v.n
           ent == heap[n].ent
           x == [key |-> Scalar("long", Len(ent)), v |-> val]
           new == Append(ent, x)
<1>2. ~Raise("INT_RANGE") /\ ~Raise("UNSUPPORTED_SIZE")
  BY RaiseDead
<1>3. heap' = [heap EXCEPT ![n].ent = new] /\ CountDown(Top)
  BY <1>2 DEF AppendToArray
<1>4. ent \in Seq(Entry) /\ x \in Entry /\ x.v = val
  <2>1. n \in DOMAIN heap
    BY <1>1, GoodTop DEF GoodItem
  <2>2. ent \in Seq(Entry)
    BY <1>1, <2>1, NodeType DEF TypeOK
  <2>3. Scalar("long", Len(ent)) \in Value
    <3>1. Len(ent) \in Int
      BY <2>2
    <3> QED BY <3>1, ScalarType DEF Kind
  <2> QED BY <1>1, <2>2, <2>3 DEF TypeOK, Entry
<1> HIDE DEF x
<1>5. new \in Seq(Entry) /\ \E k : Takes(ent, new, k)
  <2> HIDE DEF ent
  <2>1. /\ new \in Seq(Entry) /\ Len(new) = Len(ent) + 1 /\ new[Len(ent) + 1] = x
        /\ \A e \in 1..Len(ent) : new[e] = ent[e]
    BY <1>4, AppendProperties
  <2>2. Takes(ent, new, Len(ent) + 1)
    BY <1>4, <2>1 DEF Takes
  <2> QED BY <2>1, <2>2
<1>6. PICK k : Takes(heap[Top.v.n].ent, new, k)
  BY <1>5
<1>7. heap' = [heap EXCEPT ![Top.v.n].ent = new] /\ new \in Seq(Entry)
  BY <1>3, <1>5
<1> HIDE DEF new
<1> QED BY <1>1, <1>3, <1>6, <1>7, StoreHolder

\* ... a map a value.
LEMMA MapHolder ==
  ASSUME IInv, GoodHeap, Live, Live', Unaliased, AppendMapValue
  PROVE  OneHolder(val', root', stack', heap') /\ MapKeys(stack', heap')
<1>1. TypeOK /\ stack # << >> /\ Top.si_type = "map" /\ root' = root
  BY DEF IInv, AppendMapValue, AtAppend
<1> DEFINE n == Top.v.n
           key == DestKey(Top)
           ent == heap[n].ent
           item == [Top EXCEPT !.key = Undef]
           new == PutEntry(ent, key, val)
<1>2. ~Raise("INT_RANGE") /\ ~Raise("UNSUPPORTED_KEY_VALUE") /\ ~Raise("DUPLICATE_KEY")
  BY RaiseDead
<1>3. /\ heap' = IF Top.v.k = "obj" THEN WriteProperty(n, key, val)
                 ELSE [heap EXCEPT ![n].ent = PutEntry(@, key, val)]
      /\ CountDown(item)
  BY <1>2 DEF AppendMapValue
<1>4. n \in DOMAIN heap /\ ent \in Seq(Entry) /\ DistinctKeys(ent)
  <2>1. n \in DOMAIN heap
    BY <1>1, GoodTop DEF GoodItem
  <2>2. Len(stack) \in DOMAIN stack
    BY <1>1, TopType DEF TypeOK
  <2> QED BY <1>1, <2>1, <2>2, NodeType DEF TypeOK, Unaliased, MapKeys, Top
<1>5. key \in Value /\ val \in Value
  BY <1>1, TopType, DestKeyType DEF TypeOK, Item
<1>6. \A e \in DOMAIN ent : ent[e].v.k # "ref"
  BY <1>1, <1>4, NoShared
<1>7. heap' = [heap EXCEPT ![n].ent = new]
  <2>1. CASE Top.v.k = "obj"
    <3>1. {i \in DOMAIN ent : ent[i].key = key /\ ent[i].v.k = "ref"} = {}
      BY <1>6
    <3> QED BY <1>3, <2>1, <3>1 DEF WriteProperty
  <2>2. CASE Top.v.k # "obj"
    BY <1>3, <1>4, <2>2
  <2> QED BY <2>1, <2>2
<1>8. item.si_type = Top.si_type /\ item.v = Top.v
  OBVIOUS
<1> HIDE DEF key, item
<1>9. new \in Seq(Entry) /\ DistinctKeys(new) /\ \E k : Takes(ent, new, k)
  <2> HIDE DEF ent
  <2> QED BY <1>4, <1>5, PutTakes, PutEntryType
<1>10. PICK k : Takes(heap[Top.v.n].ent, new, k)
  BY <1>9
<1>11. heap' = [heap EXCEPT ![Top.v.n].ent = new]
  BY <1>7
<1> HIDE DEF new
<1> QED BY <1>1, <1>3, <1>8, <1>9, <1>10, <1>11, StoreHolder

\* Steps that only shared references have, and one that always fails
LEMMA NotUnaliased ==
  ASSUME IInv, GoodHeap, Live, Live', Unaliased
  PROVE  ~(AppendToString \/ SharedRefExit \/ ShareableExitLeaf \/ ShareableExitNested)
<1>1. TypeOK
  BY DEF IInv
<1>2. ~AppendToString
  BY RaiseDead DEF AppendToString
<1>3. ~(SharedRefExit \/ ShareableExitLeaf \/ ShareableExitNested)
  BY <1>1, NoShared DEF SharedRefExit, ShareableExitLeaf, ShareableExitNested, AtExit, AtAppend
<1> QED BY <1>2, <1>3

\* HolderInv is kept.
LEMMA HolderKept == ASSUME IInv, GoodHeap, HolderInv, Next PROVE HolderInv'
<1> SUFFICES ASSUME Live', args'.shared_ref = "false"
             PROVE  OneHolder(val', root', stack', heap') /\ MapKeys(stack', heap')
  BY DEF HolderInv, MapKeys
<1>1. ~Finish
  BY DEF Finish, Live
<1>2. Live /\ args' = args
  BY <1>1, NextOK DEF StepOK
<1>3. Unaliased /\ TypeOK
  BY <1>2 DEF HolderInv, Unaliased, MapKeys, IInv
<1>4. CASE ZvAppend
  BY <1>2, <1>3, <1>4, PassHolder, StrRefHolder, TagHolder, ArrayHolder, MapHolder, NotUnaliased DEF ZvAppend
<1>5. CASE Control
  <2>1. UNCHANGED <<val, root, stack, heap>>
    BY <1>5, ControlSame
  <2>2. ItemsStay
    BY <2>1 DEF ItemsStay
  <2> QED BY <1>2, <1>3, <2>1, <2>2, SameNodes, HandOn
<1>6. CASE \E tok \in Tokens : DecItem(tok)
  <2>1. ReadShape
    BY <1>6, DecItemShape
  <2> QED BY <1>2, <1>3, <2>1, ReadHolder, PushHolder DEF ReadShape
<1> QED BY <1>1, <1>4, <1>5, <1>6, LiveSteps

-----------------------------------------------------------------------------
(* Nothing that is shared is left without its content.                      *)

\* A value that is neither what a new Cbor\Shareable has nor what a new
\* reference has
Content(v) == v # Undef /\ v # Scalar("bool", 1)

\* Only undef and a boolean are what a holder is made with before it is filled.
LEMMA KindContent ==
  ASSUME NEW v, v.k \notin {"undef", "bool"} PROVE Content(v)
  BY DEF Content, Undef, Scalar

\* The open {shareable} items stay, and nothing new is unfilled.
OpenKept ==
  \A s \in DOMAIN stack : stack[s].thi = "shareable" /\ stack[s].v.k # "null" =>
    s \in DOMAIN stack' /\ stack'[s].thi = "shareable" /\ stack'[s].v = stack[s].v

NoneNew ==
  \A i \in DOMAIN heap' : Unfilled(heap'[i]) => i \in DOMAIN heap /\ Unfilled(heap[i])

\* FillInv is kept by a step that closes nothing and leaves nothing new unfilled.
LEMMA FillBy ==
  ASSUME Live, FillInv, OpenKept, NoneNew, pc' = "append" => Content(val')
  PROVE  FillInv'
  BY DEF FillInv, OpenKept, NoneNew, Content

\* An item that is popped, or changed
LEMMA OpenPop ==
  ASSUME TypeOK, stack # << >>, stack' = Below, Top.thi # "shareable" \/ Top.v.k = "null"
  PROVE  OpenKept
<1>1. Below \in Seq(Item) /\ Len(Below) = Len(stack) - 1 /\ Len(stack) \in Nat
      /\ \A i \in 1..(Len(stack) - 1) : Below[i] = stack[i]
  BY BelowType DEF TypeOK
<1>2. DOMAIN Below = 1..(Len(stack) - 1) /\ DOMAIN stack = 1..Len(stack)
  BY <1>1 DEF TypeOK
<1>3. ASSUME NEW s \in DOMAIN stack, stack[s].thi = "shareable", stack[s].v.k # "null"
      PROVE  s \in DOMAIN stack' /\ stack'[s] = stack[s]
  <2>1. s # Len(stack)
    BY <1>3 DEF Top
  <2> QED BY <1>1, <1>2, <2>1
<1> QED BY <1>3 DEF OpenKept

\* The item on top gets other fields than those that are looked at here.
LEMMA OpenSet ==
  ASSUME TypeOK, stack # << >>, NEW item, SetTop(item), item.thi = Top.thi, item.v = Top.v
  PROVE  OpenKept
<1>1. \A i \in DOMAIN stack : i \in DOMAIN stack' /\ (stack'[i] = stack[i] \/ (i = Len(stack) /\ stack'[i] = item))
  BY DEF SetTop, TypeOK
<1> QED BY <1>1 DEF OpenKept, Top

\* The stack stays.
LEMMA OpenSame == ASSUME stack' = stack PROVE OpenKept
  BY DEF OpenKept

\* A heap that stays, gets a node or other entries, or whose node is filled
LEMMA NoneSame == ASSUME heap' = heap PROVE NoneNew
  BY DEF NoneNew

\* A new node that is filled
LEMMA NoneAppend ==
  ASSUME TypeOK, NEW node \in Node, heap' = Append(heap, node), ~Unfilled(node)
  PROVE  NoneNew
<1>1. heap \in Seq(Node)
  BY DEF TypeOK
<1>2. /\ DOMAIN heap' = DOMAIN heap \cup {Len(heap) + 1}
      /\ heap'[Len(heap) + 1] = node /\ \A i \in DOMAIN heap : heap'[i] = heap[i]
  BY <1>1, KeptAppend
<1> QED BY <1>2 DEF NoneNew

\* Other entries of a node that is no holder
LEMMA NoneEntries ==
  ASSUME TypeOK, NEW n \in DOMAIN heap, NEW e, heap' = [heap EXCEPT ![n].ent = e],
         heap[n].c \notin {"Shareable", "reference"}
  PROVE  NoneNew
<1>1. heap \in Seq(Node) /\ heap[n] \in Node
  BY DEF TypeOK
<1>2. DOMAIN heap' = DOMAIN heap /\ heap'[n].c = heap[n].c /\ \A j \in DOMAIN heap \ {n} : heap'[j] = heap[j]
  BY <1>1 DEF Node
<1> QED BY <1>2 DEF NoneNew, Unfilled

\* A holder made of content is filled.
LEMMA HolderFilled ==
  ASSUME NEW class, NEW id, NEW v, Content(v) PROVE ~Unfilled(Holder(class, id, v))
  BY HolderFields DEF Unfilled, Content

\* A node that is replaced by one that is filled
LEMMA NoneFilled ==
  ASSUME TypeOK, NEW n \in DOMAIN heap, NEW node, heap' = [heap EXCEPT ![n] = node], ~Unfilled(node)
  PROVE  NoneNew /\ ~Unfilled(heap'[n])
<1>1. DOMAIN heap' = DOMAIN heap /\ heap'[n] = node /\ \A j \in DOMAIN heap \ {n} : heap'[j] = heap[j]
  BY DEF TypeOK
<1> QED BY <1>1 DEF NoneNew

\* The property of an object gets content, through its reference if it is one.
LEMMA NoneWrite ==
  ASSUME TypeOK, GoodHeap, Live, NEW n \in DOMAIN heap, heap[n].c = "stdClass", NEW key, NEW v, Content(v),
         heap' = WriteProperty(n, key, v)
  PROVE  NoneNew
<1> DEFINE ent == heap[n].ent
           held == {i \in DOMAIN ent : ent[i].key = key /\ ent[i].v.k = "ref"}
<1>1. CASE held = {}
  <2>1. heap' = [heap EXCEPT ![n].ent = PutEntry(heap[n].ent, key, v)]
    BY <1>1 DEF WriteProperty
  <2> QED BY <2>1, NoneEntries
<1>2. CASE held # {}
  <2> DEFINE i == CHOOSE i \in held : TRUE
  <2>1. i \in held
    BY <1>2
  <2>2. heap' = [heap EXCEPT ![ent[i].v.n] = Holder("reference", 0, v)]
    BY <1>2 DEF WriteProperty
  <2> HIDE DEF i
  <2>3. GoodValue(ent[i].v, heap) /\ ent[i].v.k = "ref"
    BY <2>1 DEF GoodHeap, GoodNode
  <2> DEFINE m == ent[i].v.n
             node == Holder("reference", 0, v)
  <2>4. heap' = [heap EXCEPT ![m] = node] /\ m \in DOMAIN heap
    BY <2>2, <2>3 DEF GoodValue
  <2>5. ~Unfilled(node)
    BY HolderFilled
  <2> HIDE DEF m, node
  <2> QED BY <2>4, <2>5, NoneFilled
<1> QED BY <1>1, <1>2

\* The end of zv_append_to_array and zv_append_to_map
LEMMA CountDownFill ==
  ASSUME IInv, GoodHeap, Live, FillInv, stack # << >>, Top.si_type \in {"array", "map"}, NoneNew,
         NEW item, item.thi = Top.thi, item.v = Top.v, CountDown(item)
  PROVE  FillInv'
<1>1. TypeOK /\ ItemInv
  BY DEF IInv
<1>2. Top.thi # "shareable" /\ HasNode(Top.v)
  BY <1>1, GoodTop, TopInv DEF GoodItem
<1>3. CASE item.count = 1
  <2>1. stack' = Below /\ val' = Top.v
    BY <1>3 DEF CountDown, stack_pop_item, CallAppend
  <2>2. Content(val')
    BY <1>2, <2>1, KindContent DEF HasNode
  <2> QED BY <1>1, <1>2, <2>1, <2>2, OpenPop, FillBy
<1>4. CASE item.count # 1
  <2> DEFINE x == [item EXCEPT !.count = IF @ = 0 THEN 0 ELSE @ - 1]
  <2>1. SetTop(x) /\ pc' = "loop"
    BY <1>4 DEF CountDown, Return, SetTop
  <2>2. x.thi = item.thi /\ x.v = item.v
    OBVIOUS
  <2> HIDE DEF x
  <2>3. OpenKept
    BY <1>1, <2>1, <2>2, OpenSet
  <2> QED BY <2>1, <2>3, FillBy
<1> QED BY <1>3, <1>4

\* Arrays and maps
LEMMA ArrayFill ==
  ASSUME IInv, GoodHeap, Live, Live', FillInv, AppendToArray PROVE FillInv'
<1>1. TypeOK /\ stack # << >> /\ Top.si_type = "array"
  BY DEF IInv, AppendToArray, AtAppend
<1> DEFINE n == Top.v.n
           ent == heap[n].ent
           new == Append(ent, [key |-> Scalar("long", Len(ent)), v |-> val])
<1>2. ~Raise("INT_RANGE") /\ ~Raise("UNSUPPORTED_SIZE")
  BY RaiseDead
<1>3. heap' = [heap EXCEPT ![n].ent = new] /\ CountDown(Top)
  BY <1>2 DEF AppendToArray
<1>4. n \in DOMAIN heap /\ heap[n].c \notin {"Shareable", "reference"}
  BY <1>1, GoodTop DEF GoodItem
<1> HIDE DEF n, new
<1>5. NoneNew
  BY <1>1, <1>3, <1>4, NoneEntries
<1> QED BY <1>1, <1>3, <1>5, CountDownFill

\* The value goes to the map on top.
LEMMA MapFill ==
  ASSUME IInv, GoodHeap, Live, Live', FillInv, AppendMapValue PROVE FillInv'
<1>1. TypeOK /\ stack # << >> /\ Top.si_type = "map" /\ pc = "append"
  BY DEF IInv, AppendMapValue, AtAppend
<1> DEFINE n == Top.v.n
           key == DestKey(Top)
           item == [Top EXCEPT !.key = Undef]
<1>2. ~Raise("INT_RANGE") /\ ~Raise("UNSUPPORTED_KEY_VALUE") /\ ~Raise("DUPLICATE_KEY")
  BY RaiseDead
<1>3. /\ heap' = IF Top.v.k = "obj" THEN WriteProperty(n, key, val)
                 ELSE [heap EXCEPT ![n].ent = PutEntry(@, key, val)]
      /\ CountDown(item)
  BY <1>2 DEF AppendMapValue
<1>4. n \in DOMAIN heap /\ heap[n].c = IF Top.v.k = "obj" THEN "stdClass" ELSE "array"
  BY <1>1, GoodTop DEF GoodItem
<1>5. item.thi = Top.thi /\ item.v = Top.v
  OBVIOUS
<1> HIDE DEF n, key, item
<1>6. Content(val)
  BY <1>1 DEF FillInv, Content
<1>7. NoneNew
  <2>1. CASE Top.v.k = "obj"
    BY <1>1, <1>3, <1>4, <1>6, <2>1, NoneWrite
  <2>2. CASE Top.v.k # "obj"
    <3> DEFINE e == PutEntry(heap[n].ent, key, val)
    <3>1. heap' = [heap EXCEPT ![n].ent = e]
      BY <1>3, <1>4, <2>2
    <3> HIDE DEF e
    <3> QED BY <1>1, <1>4, <2>2, <3>1, NoneEntries
  <2> QED BY <2>1, <2>2
<1> QED BY <1>1, <1>3, <1>5, <1>7, CountDownFill

\* The root, keys, tags and strings
LEMMA PassFill ==
  ASSUME IInv, GoodHeap, Live, Live', FillInv,
         AppendRoot \/ AppendMapKey \/ AppendToTag \/ StrRefNsExit \/ StrRefExit
  PROVE  FillInv'
<1>1. TypeOK
  BY DEF IInv
<1>2. CASE AppendRoot
  <2>1. ~Raise("INT_RANGE")
    BY RaiseDead
  <2>2. pc' = "loop" /\ UNCHANGED <<stack, heap>>
    BY <1>2, <2>1 DEF AppendRoot, Return, stackVars
  <2> QED BY <2>2, OpenSame, NoneSame, FillBy
<1>3. CASE AppendMapKey
  <2> DEFINE item == [Top EXCEPT !.extra = IF Top.count = 0 THEN @ + 1 ELSE @]
             x == [item EXCEPT !.key = val]
  <2>1. ~Raise("UNSUPPORTED_SIZE") /\ ~Raise("UNSUPPORTED_KEY_TYPE")
    BY RaiseDead
  <2>2. SetTop(x) /\ pc' = "loop"
    BY <1>3, <2>1 DEF AppendMapKey, Return
  <2>3. x.thi = Top.thi /\ x.v = Top.v
    OBVIOUS
  <2> HIDE DEF x
  <2>4. stack # << >> /\ heap' = heap
    BY <1>3 DEF AppendMapKey, AtAppend, zvVars
  <2>5. OpenKept
    BY <1>1, <2>2, <2>3, <2>4, OpenSet
  <2> QED BY <2>2, <2>4, <2>5, NoneSame, FillBy
<1>4. CASE AppendToTag
  <2> DEFINE v == Deref(val)
             node == Holder("Tag", Top.id, v)
  <2>1. ~Raise("INT_RANGE")
    BY RaiseDead
  <2>2. heap' = Append(heap, node) /\ stack # << >> /\ stack' = Below /\ val' = Obj
    BY <1>4, <2>1 DEF AppendToTag, AtAppend, stack_pop_item, CallAppend
  <2>3. node \in Node /\ node.c = "Tag"
    <3>1. Top.id \in Int /\ "Tag" \in Class /\ v \in Value
      BY <1>1, <2>2, TopType, DerefType DEF TypeOK, Item, Class
    <3> HIDE DEF v
    <3> QED BY <3>1, HolderType, HolderFields
  <2>4. Top.thi # "shareable"
    <3>1. Top.si_type = "tag" /\ ItemInv
      BY <1>4 DEF AppendToTag, AtAppend, IInv
    <3> QED BY <1>1, <2>2, <3>1, TopInv
  <2> HIDE DEF node
  <2>5. NoneNew
    BY <1>1, <2>2, <2>3, NoneAppend DEF Unfilled
  <2>6. Content(val')
    BY <2>2, KindContent DEF Obj, Scalar
  <2> QED BY <1>1, <2>2, <2>4, <2>5, <2>6, OpenPop, FillBy
<1>5. CASE StrRefNsExit
  <2>1. stack # << >> /\ stack' = Below /\ val' = val /\ heap' = heap /\ Top.thi = "str_ref_ns" /\ pc = "append"
    BY <1>5 DEF StrRefNsExit, AtExit, AtAppend, stack_pop_item, CallAppend
  <2>2. Content(val')
    BY <2>1 DEF FillInv, Content
  <2> QED BY <1>1, <2>1, <2>2, OpenPop, NoneSame, FillBy
<1>6. CASE StrRefExit
  <2>1. stack # << >> /\ stack' = Below /\ Top.thi = "str_ref"
    BY <1>6 DEF StrRefExit, AtExit, AtAppend, stack_pop_item
  <2>2. ~Raise("TAG_TYPE_STR_REF_NOT_INT") /\ ~Raise("TAG_VALUE_STR_REF_RANGE")
    BY RaiseDead
  <2> DEFINE str == srns[Len(srns)][val.n + 1]
  <2>3. /\ val.n \in 0..(Len(srns[Len(srns)]) - 1)
        /\ \/ str.k # "obj" /\ val' = str /\ heap' = heap
           \/ str.k = "obj" /\ val' = Obj /\ heap' = Append(heap, heap[str.n])
    BY <1>6, <2>2 DEF StrRefExit, CallAppend
  <2>4. srns # << >> /\ Len(srns) > 0 /\ srns[Len(srns)] \in Seq(Value)
    <3>1. NeedsNamespace(stack[Len(stack)]) /\ Len(stack) \in DOMAIN stack
      BY <1>1, <2>1, TopType DEF Top, TypeOK, NeedsNamespace
    <3> QED BY <1>1, <3>1, NamespaceExists DEF IInv
  <2>5. Len(srns) \in DOMAIN srns /\ val.n + 1 \in DOMAIN srns[Len(srns)]
    BY <1>1, <2>3, <2>4 DEF TypeOK
  <2>6. GoodString(str, heap)
    BY <2>5 DEF GoodHeap
  <2> HIDE DEF str
  <2>7. Content(val') /\ NoneNew
    <3>1. CASE str.k # "obj"
      BY <2>3, <2>6, <3>1, KindContent, NoneSame DEF GoodString
    <3>2. CASE str.k = "obj"
      <4> DEFINE node == heap[str.n]
      <4>1. str.n \in DOMAIN heap /\ node.c \in {"Byte", "Text"}
        BY <2>6, <3>2 DEF GoodString
      <4>2. node \in Node /\ heap' = Append(heap, node) /\ val' = Obj
        BY <1>1, <2>3, <3>2, <4>1 DEF TypeOK
      <4> HIDE DEF node
      <4>3. ~Unfilled(node)
        BY <4>1 DEF Unfilled
      <4> QED BY <1>1, <4>2, <4>3, NoneAppend, KindContent DEF Obj, Scalar
    <3> QED BY <3>1, <3>2
  <2> QED BY <1>1, <2>1, <2>7, OpenPop, FillBy
<1> QED BY <1>2, <1>3, <1>4, <1>5, <1>6

\* A {sharedref} gives the value of an index, which is there.
LEMMA SharedRefFill ==
  ASSUME IInv, GoodHeap, Live, Live', FillInv, SharedRefExit PROVE FillInv'
<1>1. TypeOK /\ stack # << >> /\ stack' = Below /\ heap' = heap /\ Top.thi = "shared_ref"
  BY DEF IInv, SharedRefExit, AtExit, AtAppend, stack_pop_item, zvVars
<1>2. ~Raise("TAG_TYPE_SHARE_NOT_INT") /\ ~Raise("TAG_VALUE_SHARE_RANGE")
  BY RaiseDead
<1>3. val.n + 1 \in DOMAIN refs /\ val' = refs[val.n + 1]
  BY <1>1, <1>2 DEF SharedRefExit, CallAppend, TypeOK
<1>4. Content(val')
  <2>1. refs[val.n + 1].k \in {"obj", "undefobj", "ref"}
    BY <1>1, <1>3, AllShared
  <2> QED BY <1>3, <2>1, KindContent
<1> QED BY <1>1, <1>4, OpenPop, NoneSame, FillBy

\* A {shareable} whose content is a scalar takes it at once.
LEMMA LeafFill ==
  ASSUME IInv, GoodHeap, Live, Live', FillInv, ShareableExitLeaf PROVE FillInv'
<1>1. TypeOK /\ stack # << >> /\ stack' = Below /\ Top.v.k = "null" /\ pc = "append"
  BY DEF IInv, ShareableExitLeaf, AtExit, AtAppend, stack_pop_item
<1>2. ~Raise("INT_RANGE") /\ ~Raise("TAG_TYPE_SHARE_INCOMPATIBLE")
  BY RaiseDead
<1>3. Content(val) /\ val \in Value
  BY <1>1 DEF FillInv, Content, TypeOK
<1>4. \/ heap' = heap /\ val' = val
      \/ \E class \in {"reference", "Shareable"} : heap' = Append(heap, Holder(class, 0, val)) /\ val' \in {Ref, Obj}
  BY <1>2 DEF ShareableExitLeaf, ShareLeaf, CallAppend
<1>5. NoneNew /\ Content(val')
  <2>1. CASE heap' = heap /\ val' = val
    BY <1>3, <2>1, NoneSame
  <2>2. ASSUME NEW class \in {"reference", "Shareable"}, heap' = Append(heap, Holder(class, 0, val)), val' \in {Ref, Obj}
        PROVE  NoneNew /\ Content(val')
    <3> DEFINE node == Holder(class, 0, val)
    <3>1. node \in Node
      <4>1. class \in Class /\ 0 \in Int
        BY DEF Class
      <4> QED BY <1>3, <4>1, HolderType
    <3>2. ~Unfilled(node)
      BY <1>3, HolderFilled
    <3>3. heap' = Append(heap, node)
      BY <2>2
    <3> HIDE DEF node
    <3>4. NoneNew
      BY <1>1, <3>1, <3>2, <3>3, NoneAppend
    <3>5. Ref.k = "ref" /\ Obj.k = "obj"
      BY DEF Ref, Obj, Scalar
    <3> QED BY <2>2, <3>4, <3>5, KindContent
  <2> QED BY <1>4, <2>1, <2>2
<1> QED BY <1>1, <1>5, OpenPop, FillBy

\* A {shareable} whose content was an item fills what was shared before.
LEMMA NestedFill ==
  ASSUME IInv, GoodHeap, Live, Live', FillInv, ShareableExitNested PROVE FillInv'
<1>1. TypeOK /\ stack # << >> /\ stack' = Below /\ Top.thi = "shareable" /\ Top.v.k # "null" /\ pc = "append"
  BY DEF IInv, ShareableExitNested, AtExit, AtAppend, stack_pop_item
<1>2. ~Raise("INT_RANGE") /\ ~Raise("TAG_VALUE_SHARE_SELF")
  BY RaiseDead
<1> DEFINE real_v == Top.v
           n == real_v.n
<1>3. \/ heap' = heap /\ val' = real_v /\ args.shared_ref = "true"
      \/ /\ args.shared_ref \in {"shareable", "shareable_only"}
         /\ heap' = UpdateValueProperty(n, val) /\ val' = real_v
      \/ /\ args.shared_ref = "unsafe_ref" /\ real_v.k = "ref"
         /\ heap' = [heap EXCEPT ![n] = Holder("reference", 0, val)] /\ val' = real_v
      \/ heap' = heap /\ val' = val /\ args.shared_ref = "unsafe_ref" /\ real_v.k # "ref"
  BY <1>2 DEF ShareableExitNested, CallAppend
<1>4. /\ real_v.k \in {"obj", "ref"} /\ n \in DOMAIN heap
      /\ real_v.k = "obj" => heap[n].c \in {"Shareable", "stdClass"}
      /\ real_v.k = "ref" => heap[n].c = "reference"
      /\ heap[n].c = "Shareable" => args.shared_ref \in {"shareable", "shareable_only"}
      /\ heap[n].c = "reference" => args.shared_ref = "unsafe_ref"
  <2>1. GoodItem(Top, heap, args.shared_ref)
    BY <1>1, GoodTop
  <2>2. real_v.k \in {"obj", "ref"} /\ n \in DOMAIN heap
        /\ (real_v.k = "obj" => heap[n].c \in {"Shareable", "stdClass"})
        /\ (real_v.k = "ref" => heap[n].c = "reference")
    BY <1>1, <2>1 DEF GoodItem, GoodValue, HasNode
  <2>3. GoodNode(heap[n], heap, args.shared_ref)
    BY <2>2 DEF GoodHeap
  <2> QED BY <2>2, <2>3 DEF GoodNode
<1>5. Content(val) /\ Content(val')
  <2>1. Content(val) /\ Content(real_v)
    BY <1>1, <1>4, KindContent DEF FillInv, Content
  <2> QED BY <1>3, <2>1
<1> HIDE DEF real_v, n
<1>6. NoneNew /\ (n \in DOMAIN heap' => ~Unfilled(heap'[n]))
  <2>1. CASE heap' = heap /\ heap[n].c \notin {"Shareable", "reference"}
    BY <2>1, NoneSame DEF Unfilled
  <2>2. CASE args.shared_ref = "unsafe_ref" /\ heap' = [heap EXCEPT ![n] = Holder("reference", 0, val)]
    BY <1>1, <1>4, <1>5, <2>2, HolderFilled, NoneFilled
  <2>3. CASE args.shared_ref \in {"shareable", "shareable_only"} /\ heap' = UpdateValueProperty(n, val)
    <3>1. CASE heap[n].c = "Shareable"
      <4>1. heap' = [heap EXCEPT ![n] = Holder("Shareable", 0, val)]
        BY <2>3, <3>1 DEF UpdateValueProperty
      <4> QED BY <1>1, <1>4, <1>5, <4>1, HolderFilled, NoneFilled
    <3>2. CASE heap[n].c = "stdClass"
      <4>1. heap' = WriteProperty(n, StrVal(<<"value">>), val)
        BY <2>3, <3>2 DEF UpdateValueProperty
      <4>2. NoneNew
        BY <1>1, <1>4, <1>5, <3>2, <4>1, NoneWrite
      <4>3. ~Unfilled(heap[n])
        BY <3>2 DEF Unfilled
      <4> QED BY <4>2, <4>3 DEF NoneNew
    <3> QED BY <1>4, <2>3, <3>1, <3>2
  <2>4. args.shared_ref = "true" => heap[n].c \notin {"Shareable", "reference"}
    BY <1>4
  <2>5. args.shared_ref = "unsafe_ref" /\ real_v.k # "ref" => heap[n].c \notin {"Shareable", "reference"}
    BY <1>4
  <2> QED BY <1>3, <2>1, <2>2, <2>3, <2>4, <2>5
<1>7. ASSUME NEW i \in DOMAIN heap', Unfilled(heap'[i])
      PROVE  \E s \in DOMAIN stack' : stack'[s].thi = "shareable" /\ stack'[s].v.k # "null" /\ stack'[s].v.n = i
  <2>1. i \in DOMAIN heap /\ Unfilled(heap[i]) /\ i # n
    BY <1>6, <1>7 DEF NoneNew
  <2>2. PICK s \in DOMAIN stack : stack[s].thi = "shareable" /\ stack[s].v.k # "null" /\ stack[s].v.n = i
    BY <2>1 DEF FillInv
  <2>3. s # Len(stack)
    BY <2>1, <2>2 DEF Top, n, real_v
  <2>4. s \in DOMAIN stack' /\ stack'[s] = stack[s]
    <3>1. Below \in Seq(Item) /\ Len(Below) = Len(stack) - 1 /\ Len(stack) \in Nat
          /\ \A j \in 1..(Len(stack) - 1) : Below[j] = stack[j]
      BY <1>1, BelowType DEF TypeOK
    <3>2. DOMAIN Below = 1..(Len(stack) - 1) /\ DOMAIN stack = 1..Len(stack)
      BY <1>1, <3>1 DEF TypeOK
    <3> QED BY <1>1, <2>2, <2>3, <3>1, <3>2
  <2> QED BY <2>2, <2>4
<1> QED BY <1>5, <1>7 DEF FillInv, Content

\* Data items that are not pushed
LEMMA ReadFill ==
  ASSUME NoTrue, IInv, GoodHeap, Live, Live', FillInv, ReadsValue \/ ReadsChunk \/ ReadsBreak \/ ReadsNothing
  PROVE  FillInv'
<1>1. TypeOK /\ ItemInv
  BY DEF IInv
<1>2. CASE ReadsValue
  <2>1. OpenKept
    <3>1. CASE stack' = stack
      BY <3>1, OpenSame
    <3>2. CASE stack # << >> /\ IsString(Top) /\ stack' = Below
      BY <1>1, <3>2, TopInv, OpenPop DEF IsString
    <3> QED BY <1>2, <3>1, <3>2 DEF ReadsValue
  <2>2. CASE heap' = heap /\ val'.k \in PlainKind /\ val' # Scalar("bool", 1)
    <3>1. Content(val')
      BY <2>2 DEF Content, PlainKind, Undef, Scalar
    <3> QED BY <2>1, <2>2, <3>1, NoneSame, FillBy
  <2>3. CASE \E node : Leaf(node) /\ heap' = Append(heap, node) /\ val' \in {Obj, Arr}
    <3>1. PICK node : Leaf(node) /\ heap' = Append(heap, node)
      BY <2>3
    <3>2. node \in Node /\ ~Unfilled(node)
      BY <3>1 DEF Leaf, Unfilled
    <3>3. NoneNew
      BY <1>1, <3>1, <3>2, NoneAppend
    <3>4. Content(val')
      BY <2>3, KindContent DEF Obj, Arr, Scalar
    <3> QED BY <2>1, <3>3, <3>4, FillBy
  <2> QED BY <1>2, <2>2, <2>3 DEF ReadsValue
<1>3. CASE ReadsChunk
  <2>1. PICK item : SetTop(item) /\ item.thi = Top.thi /\ item.v = Top.v
    BY <1>3 DEF ReadsChunk
  <2>2. stack # << >> /\ heap' = heap /\ pc' = "loop"
    BY <1>3 DEF ReadsChunk
  <2>3. OpenKept
    BY <1>1, <2>1, <2>2, OpenSet
  <2> QED BY <2>2, <2>3, NoneSame, FillBy
<1>4. CASE ReadsBreak
  <2>1. stack # << >> /\ stack' = Below /\ val' = Top.v /\ heap' = heap /\ Top.count = 0 /\ ~IsString(Top)
    BY <1>4 DEF ReadsBreak
  <2>2. GoodItem(Top, heap, args.shared_ref) /\ Top \in Item
    BY <1>1, <2>1, GoodTop
  <2>3. Top.si_type \in {"array", "map"}
    BY <2>1, <2>2 DEF GoodItem, Item, SiType, IsString
  <2>4. HasNode(Top.v) /\ Top.thi # "shareable"
    BY <1>1, <2>1, <2>2, <2>3, TopInv DEF GoodItem
  <2>5. Content(val')
    BY <2>1, <2>4, KindContent DEF HasNode
  <2> QED BY <1>1, <2>1, <2>4, <2>5, OpenPop, NoneSame, FillBy
<1>5. CASE ReadsNothing
  <2>1. UNCHANGED <<stack, heap>> /\ pc' = "stop"
    BY <1>5 DEF ReadsNothing, stackVars, zvVars
  <2> QED BY <2>1, OpenSame, NoneSame, FillBy
<1> QED BY <1>2, <1>3, <1>4, <1>5

\* An item that is pushed: the {shareable} on top, if that is what it is pushed
\* on, holds the node that is to be filled.
LEMMA PushFill ==
  ASSUME IInv, GoodHeap, Live, Live', FillInv, pc = "item", ReadsItem
  PROVE  FillInv'
<1>1. /\ TypeOK /\ ItemInv /\ ShareInv /\ stack \in Seq(Item) /\ heap \in Seq(Node) /\ refs \in Seq(Value)
      /\ Len(stack) \in Nat
  BY DEF IInv, TypeOK
<1>2. PICK item \in Item, rs \in Seq(Value), hp \in Seq(Node) :
        stack_push_item(item, rs, hp) /\ NewItem(item, rs, hp)
  BY DEF ReadsItem
<1>3. /\ \A i \in DOMAIN heap : i \in DOMAIN hp /\ hp[i] = heap[i]
      /\ \A i \in DOMAIN hp : Unfilled(hp[i]) => i \in DOMAIN heap /\ Unfilled(heap[i])
  <2>1. CASE hp = heap
    BY <2>1
  <2>2. ASSUME NEW class \in {"array", "stdClass"}, hp = Append(heap, Empty(class))
        PROVE  /\ \A i \in DOMAIN heap : i \in DOMAIN hp /\ hp[i] = heap[i]
               /\ \A i \in DOMAIN hp : Unfilled(hp[i]) => i \in DOMAIN heap /\ Unfilled(heap[i])
    <3> DEFINE node == Empty(class)
    <3>1. node \in Node /\ node.c = class
      <4>1. class \in Class
        BY DEF Class
      <4>2. Empty(class) \in Node
        BY <4>1, EmptyType
      <4> QED BY <4>2 DEF Empty
    <3>2. hp = Append(heap, node)
      BY <2>2
    <3> HIDE DEF node
    <3>3. /\ DOMAIN hp = DOMAIN heap \cup {Len(heap) + 1} /\ hp[Len(heap) + 1] = node
          /\ \A i \in DOMAIN heap : hp[i] = heap[i]
      BY <1>1, <3>1, <3>2, KeptAppend
    <3>4. ~Unfilled(node)
      BY <3>1 DEF Unfilled
    <3> QED BY <3>3, <3>4
  <2> QED BY <1>2, <2>1, <2>2 DEF NewItem
<1>4. ~DepthExceeded /\ zv_si_push(item, rs, hp) /\ pc' = "loop"
  BY <1>2 DEF stack_push_item, Live
<1> DEFINE new == StrRefNsChild(item)
<1>5. new \in Item
  BY ChildFields
<1> HIDE DEF new
<1>6. CASE ~HasChildHandler("shareable")
  <2>1. stack' = Append(stack, new) /\ heap' = hp
    BY <1>4, <1>6 DEF zv_si_push, new
  <2>2. \A s \in DOMAIN stack : s \in DOMAIN stack' /\ stack'[s] = stack[s]
    BY <1>1, <1>5, <2>1
  <2>3. OpenKept /\ NoneNew
    BY <1>3, <2>1, <2>2 DEF OpenKept, NoneNew
  <2> QED BY <1>4, <2>3, FillBy
<1>7. CASE HasChildHandler("shareable")
  <2>1. stack # << >> /\ Top.thi = "shareable" /\ Top.v.k = "null" /\ Top \in Item
    <3>1. stack # << >> /\ Top.thi = "shareable" /\ Top \in Item
      BY <1>1, <1>7, TopInv DEF HasChildHandler
    <3> QED BY <1>1, <3>1 DEF ShareInv
  <2>2. ShareableChild(item, rs, hp) /\ cb_error' # "TAG_TYPE_SHARE_INCOMPATIBLE"
    BY <1>4, <1>7 DEF zv_si_push, Live
  <2>3. PICK v : /\ stack' = Append([stack EXCEPT ![Len(stack)].v = v], new)
                 /\ \/ heap' = hp
                    \/ /\ v = Scalar("obj", Len(hp) + 1)
                       /\ heap' = Append(hp, Holder("Shareable", 0, Scalar("bool", 1)))
                    \/ /\ v = Scalar("ref", Len(hp) + 1)
                       /\ heap' = Append(hp, Holder("reference", 0, Undef))
    BY <2>2 DEF ShareableChild, new
  <2> DEFINE top == [Top EXCEPT !.v = v]
             mid == [stack EXCEPT ![Len(stack)] = top]
  <2>4. top.thi = "shareable" /\ top.v = v
    BY <2>1 DEF Item
  <2>5. stack' = Append(mid, new)
    BY <2>3 DEF Top
  <2> HIDE DEF top
  <2>6. /\ DOMAIN mid = DOMAIN stack /\ Len(mid) = Len(stack) /\ mid[Len(stack)] = top
        /\ Len(stack) \in DOMAIN stack /\ \A s \in DOMAIN stack : s # Len(stack) => mid[s] = stack[s]
    BY <1>1, <2>1, TopType
  <2> HIDE DEF mid
  <2>7. /\ \A s \in DOMAIN stack : s \in DOMAIN stack' /\ stack'[s] = mid[s]
    BY <1>1, <2>5, <2>6
  <2>8. OpenKept
    BY <2>1, <2>6, <2>7 DEF OpenKept, Top
  <2>9. ASSUME NEW i \in DOMAIN heap', Unfilled(heap'[i])
        PROVE  (i \in DOMAIN heap /\ Unfilled(heap[i])) \/ (v.n = i /\ v.k \in {"obj", "ref"})
    <3>1. CASE heap' = hp
      BY <1>3, <2>9, <3>1
    <3>2. ASSUME NEW class \in {"Shareable", "reference"}, NEW c \in Value, NEW k \in {"obj", "ref"},
                 heap' = Append(hp, Holder(class, 0, c)), v = Scalar(k, Len(hp) + 1)
          PROVE  (i \in DOMAIN heap /\ Unfilled(heap[i])) \/ (v.n = i /\ v.k \in {"obj", "ref"})
      <4> DEFINE node == Holder(class, 0, c)
      <4>1. node \in Node
        <5>1. class \in Class /\ 0 \in Int
          BY DEF Class
        <5> QED BY <5>1, HolderType
      <4>2. heap' = Append(hp, node)
        BY <3>2
      <4> HIDE DEF node
      <4>3. DOMAIN heap' = DOMAIN hp \cup {Len(hp) + 1} /\ \A j \in DOMAIN hp : heap'[j] = hp[j]
        BY <4>1, <4>2, KeptAppend
      <4>4. v.n = Len(hp) + 1 /\ v.k = k
        BY <3>2 DEF Scalar
      <4> QED BY <1>3, <2>9, <4>3, <4>4
    <3>3. Scalar("bool", 1) \in Value /\ Undef \in Value
      <4>1. "bool" \in Kind /\ 1 \in Int
        BY DEF Kind
      <4> QED BY <4>1, ScalarType, ConstType
    <3> QED BY <2>3, <3>1, <3>2, <3>3
  <2>10. ASSUME NEW i \in DOMAIN heap', Unfilled(heap'[i])
         PROVE  \E s \in DOMAIN stack' : stack'[s].thi = "shareable" /\ stack'[s].v.k # "null" /\ stack'[s].v.n = i
    <3>1. CASE i \in DOMAIN heap /\ Unfilled(heap[i])
      <4>1. PICK s \in DOMAIN stack : stack[s].thi = "shareable" /\ stack[s].v.k # "null" /\ stack[s].v.n = i
        BY <3>1 DEF FillInv
      <4> QED BY <2>8, <4>1 DEF OpenKept
    <3>2. CASE v.n = i /\ v.k \in {"obj", "ref"}
      <4>1. Len(stack) \in DOMAIN stack' /\ stack'[Len(stack)] = top
        BY <2>6, <2>7
      <4> QED BY <2>4, <3>2, <4>1
    <3> QED BY <2>9, <2>10, <3>1, <3>2
  <2> QED BY <1>4, <2>10 DEF FillInv
<1> QED BY <1>6, <1>7

\* FillInv is kept.
LEMMA FillKept == ASSUME NoTrue, IInv, GoodHeap, FillInv, Next PROVE FillInv'
<1> SUFFICES ASSUME Live' PROVE FillInv'
  BY DEF FillInv
<1>1. ~Finish
  BY DEF Finish, Live
<1>2. Live
  BY <1>1, NextOK DEF StepOK
<1>3. CASE ZvAppend
  <2>1. ~AppendToString
    BY RaiseDead DEF AppendToString
  <2> QED BY <1>2, <1>3, <2>1, PassFill, ArrayFill, MapFill, SharedRefFill, LeafFill, NestedFill DEF ZvAppend
<1>4. CASE Control
  <2>1. UNCHANGED <<stack, heap>> /\ pc' # "append"
    BY <1>4, ControlSame DEF Control, SelfDescribe, Start, Resume, ReadTruncated, Loop, Stop
  <2> QED BY <1>2, <2>1, OpenSame, NoneSame, FillBy
<1>5. CASE \E tok \in Tokens : DecItem(tok)
  <2>1. PICK tok \in Tokens : DecItem(tok)
    BY <1>5
  <2>2. ReadShape
    BY <2>1, DecItemShape
  <2>3. pc = "item"
    BY <2>1 DEF DecItem, ProcUint, ProcNint, ProcString, ProcStringStart, ProcArrayStart, ProcIndefArrayStart,
                ProcMapStart, ProcIndefMapStart, TagOutOfRange, ProcTag, StrRefNsEnter, StrRefEnter, ShareableEnter,
                SharedRefEnter, ProcFloatx, ProcPrimitive, ProcSimple, ProcBreak, ReadMalformed, ReadTag, Read
  <2> QED BY <1>2, <2>2, <2>3, ReadFill, PushFill DEF ReadShape
<1> QED BY <1>1, <1>3, <1>4, <1>5, LiveSteps

-----------------------------------------------------------------------------
(* The theorems.                                                            *)

\* The part of HeapInv that needs nothing of the input
PlainHeapInv == IInv /\ GoodHeap /\ StopInv /\ HolderInv

\* The invariants hold when the context is set up.
LEMMA HeapInit == Init => PlainHeapInv /\ FillInv
<1> SUFFICES ASSUME Init PROVE PlainHeapInv /\ FillInv
  OBVIOUS
<1>1. /\ stack = << >> /\ srns = << >> /\ refs = << >> /\ heap = << >> /\ val = Undef /\ root = Undef /\ pc = "start"
  BY DEF Init, zv_ctx_init
<1>2. DOMAIN << >> = {} /\ ~HasNode(Undef)
  BY DEF HasNode, Undef, Scalar
<1>3. GoodHeap
  BY <1>1, <1>2, UndefGood DEF GoodHeap
<1>4. HolderInv
  <2> SUFFICES ASSUME NEW p \in Place(stack, heap), HasNode(ValueAt(p, val, root, stack, heap)) PROVE FALSE
    BY <1>1, <1>2 DEF HolderInv, OneHolder
  <2>1. p \in {<<0, 0>>, <<1, 0>>}
    BY <1>1, <1>2, PlaceIn
  <2> QED BY <1>1, <1>2, <2>1, PlaceValue
<1>5. StopInv /\ FillInv
  BY <1>1, <1>2 DEF StopInv, FillInv
<1> QED BY <1>3, <1>4, <1>5, InitOK DEF PlainHeapInv

\* What does not change stays as it is.
LEMMA HeapStutter ==
  ASSUME UNCHANGED vars
  PROVE  /\ (GoodHeap => GoodHeap')
         /\ (StopInv => StopInv')
         /\ (HolderInv => HolderInv')
         /\ (FillInv => FillInv')
<1>1. UNCHANGED <<pc, cb_error, error, stack, heap, val, root, refs, srns, args>>
  BY DEF vars, memVars, stackVars, zvVars
<1>2. Live' <=> Live
  BY <1>1 DEF Live
<1>3. GoodHeap => GoodHeap'
  BY <1>1, <1>2 DEF GoodHeap
<1>4. StopInv => StopInv'
  BY <1>1, <1>2 DEF StopInv
<1>5. HolderInv => HolderInv'
  BY <1>1, <1>2 DEF HolderInv
<1>6. FillInv => FillInv'
  BY <1>1, <1>2 DEF FillInv
<1> QED BY <1>3, <1>4, <1>5, <1>6

\* The values of a context that goes on are whole, each of its nodes is in one
\* place, and it stops without error when it is done.
THEOREM HeapInvariance == Spec => []PlainHeapInv
<1>1. PlainHeapInv /\ [Next]_vars => PlainHeapInv'
  <2> SUFFICES ASSUME PlainHeapInv, [Next]_vars PROVE PlainHeapInv'
    OBVIOUS
  <2>1. IInv'
    BY NextKeepsInv DEF PlainHeapInv
  <2>2. CASE Next
    BY <2>1, <2>2, GoodHeapKept, StopKept, HolderKept DEF PlainHeapInv
  <2>3. CASE UNCHANGED vars
    BY <2>1, <2>3, HeapStutter DEF PlainHeapInv
  <2> QED BY <2>2, <2>3
<1> QED BY <1>1, HeapInit, PTL DEF Spec

\* Without shared references, no object is in two places of the result: not
\* even a string object that several {stringref} refer to, which
\* tag_handler_str_ref_exit clones.
THEOREM NoAliasesCorrect == Spec => []NoAliases
<1>1. PlainHeapInv => NoAliases
  <2> SUFFICES ASSUME PlainHeapInv, pc = "stop", error = "none", args.shared_ref = "false",
                      NEW i \in DOMAIN heap, NEW e \in DOMAIN heap[i].ent, heap[i].ent[e].v.k = "obj"
               PROVE  /\ heap[i].ent[e].v # root
                      /\ \A j \in DOMAIN heap : \A f \in DOMAIN heap[j].ent :
                           <<i, e>> # <<j, f>> => heap[i].ent[e].v # heap[j].ent[f].v
    BY DEF NoAliases
  <2> DEFINE a(p) == ValueAt(p, val, root, stack, heap)
  <2>1. OneHolder(val, root, stack, heap)
    BY DEF PlainHeapInv, StopInv, HolderInv
  <2>2. \A p, q \in Place(stack, heap) : HasNode(a(p)) /\ HasNode(a(q)) /\ a(p).n = a(q).n => p = q
    BY <2>1 DEF OneHolder
  <2>3. <<3, i, e>> \in Place(stack, heap) /\ a(<<3, i, e>>) = heap[i].ent[e].v /\ HasNode(heap[i].ent[e].v)
    BY EntryPlace DEF HasNode
  <2>4. heap[i].ent[e].v # root
    <3>1. <<1, 0>> \in Place(stack, heap) /\ a(<<1, 0>>) = root
      BY PlaceIn, PlaceValue
    <3>2. <<1, 0>> # <<3, i, e>>
      OBVIOUS
    <3> HIDE DEF a
    <3> QED BY <2>2, <2>3, <3>1, <3>2
  <2>5. ASSUME NEW j \in DOMAIN heap, NEW f \in DOMAIN heap[j].ent, <<i, e>> # <<j, f>>
        PROVE  heap[i].ent[e].v # heap[j].ent[f].v
    <3>1. <<3, j, f>> \in Place(stack, heap) /\ a(<<3, j, f>>) = heap[j].ent[f].v
      BY EntryPlace
    <3>2. <<3, i, e>> # <<3, j, f>>
      BY <2>5
    <3> HIDE DEF a
    <3> QED BY <2>2, <2>3, <3>1, <3>2
  <2> QED BY <2>4, <2>5
<1> QED BY <1>1, HeapInvariance, PTL

\* If no `true` is in the input, a context that is done has left none of the
\* `true` that a Cbor\Shareable is made with, and no reference to nothing: what
\* tag_handler_shareable_child shares early is always filled by
\* tag_handler_shareable_exit.
THEOREM CompleteCorrect == ASSUME NoTrue PROVE Spec => []SharedComplete
<1>1. (PlainHeapInv /\ FillInv) /\ [Next]_vars => (PlainHeapInv /\ FillInv)'
  <2> SUFFICES ASSUME PlainHeapInv, FillInv, [Next]_vars PROVE PlainHeapInv' /\ FillInv'
    OBVIOUS
  <2>1. IInv'
    BY NextKeepsInv DEF PlainHeapInv
  <2>2. CASE Next
    BY <2>1, <2>2, GoodHeapKept, StopKept, HolderKept, FillKept DEF PlainHeapInv
  <2>3. CASE UNCHANGED vars
    BY <2>1, <2>3, HeapStutter DEF PlainHeapInv
  <2> QED BY <2>2, <2>3
<1>2. PlainHeapInv /\ FillInv => SharedComplete
  BY DEF PlainHeapInv, StopInv, FillInv, Unfilled, SharedComplete
<1> QED BY <1>1, <1>2, HeapInit, PTL DEF Spec


=============================================================================
