------------------------- MODULE EncodeZvHeapProofs -------------------------
(***************************************************************************)
(* Proofs about the reference counts of EncodeZv: what is shared is alive   *)
(* as long as it has an index, and after the call every value has the       *)
(* owners it had before; and, with what they say of the heap, that the      *)
(* variables keep their types.  The graph has to hold together              *)
(* (`GraphsOwned`), new objects are those of a method that gives them away  *)
(* (`FreshOwned`), for the types the classes keep what their constructors   *)
(* make sure of (`GraphsTyped`), and there are no iterators                 *)
(* (`NoIterators`).                                                         *)
(***************************************************************************)
EXTENDS EncodeZvProofs, WellFoundedInduction

-----------------------------------------------------------------------------
(* Counting owners.                                                         *)

\* How many places of a sequence have something is a natural number, and not
\* 0 if one has it.
LEMMA PlacesCounted ==
  ASSUME NEW n \in Nat, NEW A \in SUBSET (1..n)
  PROVE  Cardinality(A) \in Nat /\ (Cardinality(A) > 0 <=> A # {})
<1>1. IsFiniteSet(A)
  <2>1. IsFiniteSet(1..n)
    BY FS_Interval
  <2> QED BY <2>1, FS_Subset
<1>2. Cardinality(A) \in Nat
  BY <1>1, FS_CardinalityType
<1>3. Cardinality(A) = 0 <=> A = {}
  BY <1>1, FS_EmptySet
<1> DEFINE k == Cardinality(A)
<1>4. k \in Nat /\ (k = 0 <=> A = {})
  BY <1>2, <1>3
<1> HIDE DEF k
<1>5. k > 0 <=> k # 0
  BY <1>4
<1>6. k > 0 <=> A # {}
  BY <1>4, <1>5
<1> QED BY <1>6, <1>2, <1>5 DEF k

\* Who has owners is in the heap.
LEMMA OwnersFacts ==
  ASSUME NEW locks, IsSeq(locks), NEW frames, IsSeq(frames), NEW graph, NEW a
  PROVE  /\ Owners(a, locks, frames, graph) \in Nat
         /\ Owners(a, locks, frames, graph) > 0 <=>
              \/ \E i \in DOMAIN locks : locks[i] = a
              \/ \E i \in DOMAIN frames : Claim(frames[i], graph) = a
<1> DEFINE L == {i \in DOMAIN locks : locks[i] = a}
           C == {i \in DOMAIN frames : Claim(frames[i], graph) = a}
<1>1. L \in SUBSET (1..Len(locks)) /\ Len(locks) \in Nat /\ C \in SUBSET (1..Len(frames)) /\ Len(frames) \in Nat
  BY SeqFacts
<1>2. Owners(a, locks, frames, graph) = Cardinality(L) + Cardinality(C)
  BY DEF Owners
<1>3. L # {} <=> \E i \in DOMAIN locks : locks[i] = a
  OBVIOUS
<1>4. C # {} <=> \E i \in DOMAIN frames : Claim(frames[i], graph) = a
  OBVIOUS
<1> HIDE DEF L, C
<1>5. Cardinality(L) \in Nat /\ (Cardinality(L) > 0 <=> L # {})
  BY <1>1, PlacesCounted
<1>6. Cardinality(C) \in Nat /\ (Cardinality(C) > 0 <=> C # {})
  BY <1>1, PlacesCounted
<1>7. Owners(a, locks, frames, graph) \in Nat /\ (Owners(a, locks, frames, graph) > 0 <=> L # {} \/ C # {})
  BY <1>2, <1>5, <1>6
<1> QED BY <1>3, <1>4, <1>7

\* One more lock, one more function, one less, another one in its place
LEMMA OwnersLock ==
  ASSUME NEW locks, IsSeq(locks), NEW frames, IsSeq(frames), NEW graph, NEW b, NEW a
  PROVE  Owners(a, Append(locks, b), frames, graph)
           = Owners(a, locks, frames, graph) + (IF a = b THEN 1 ELSE 0)
<1> DEFINE new == Append(locks, b)
           A == {i \in DOMAIN locks : locks[i] = a}
           B == {i \in DOMAIN new : new[i] = a}
           C == {i \in DOMAIN frames : Claim(frames[i], graph) = a}
           n == Len(locks)
<1>1. /\ n \in Nat /\ DOMAIN locks = 1..n /\ DOMAIN new = 1..(n + 1)
      /\ new[n + 1] = b /\ \A i \in 1..n : new[i] = locks[i]
  BY PushFacts, SeqFacts
<1>2. Owners(a, locks, frames, graph) = Cardinality(A) + Cardinality(C)
  BY DEF Owners
<1>3. Owners(a, new, frames, graph) = Cardinality(B) + Cardinality(C)
  BY DEF Owners
<1>4. C \in SUBSET (1..Len(frames)) /\ Len(frames) \in Nat
  BY SeqFacts
<1> HIDE DEF C, new
<1>5. Cardinality(C) \in Nat
  BY <1>4, PlacesCounted
<1>6. A \in SUBSET (1..n) /\ B \in SUBSET (1..(n + 1))
  BY <1>1
<1>7. \A i \in 1..n : i \in A <=> i \in B
  <2>1. \A i \in 1..n : i \in 1..(n + 1)
    BY <1>1
  <2> QED BY <1>1, <2>1
<1>8. n + 1 \in B <=> a = b
  <2>1. n + 1 \in 1..(n + 1)
    BY <1>1
  <2> QED BY <1>1, <2>1
<1>9. n \in Nat
  BY <1>1
<1> HIDE DEF A, B, n
<1>10. Cardinality(A) \in Nat /\ Cardinality(B) = Cardinality(A) + (IF n + 1 \in B THEN 1 ELSE 0)
  BY <1>6, <1>7, <1>9, CountNext
<1>11. Cardinality(B) = Cardinality(A) + (IF a = b THEN 1 ELSE 0)
  BY <1>8, <1>10
<1>12. Owners(a, new, frames, graph) = Owners(a, locks, frames, graph) + (IF a = b THEN 1 ELSE 0)
  BY <1>2, <1>3, <1>5, <1>10, <1>11
<1> QED BY <1>12 DEF new

\* ... for frames of which the first n are the same
LEMMA OwnersPush ==
  ASSUME NEW locks, IsSeq(locks), NEW frames, IsSeq(frames), NEW graph, NEW new, NEW fr,
         DOMAIN new = 1..(Len(frames) + 1), new[Len(frames) + 1] = fr,
         \A i \in 1..Len(frames) : new[i] = frames[i], NEW a
  PROVE  Owners(a, locks, new, graph)
           = Owners(a, locks, frames, graph) + (IF a = Claim(fr, graph) THEN 1 ELSE 0)
<1> DEFINE A == {i \in DOMAIN frames : Claim(frames[i], graph) = a}
           B == {i \in DOMAIN new : Claim(new[i], graph) = a}
           C == {i \in DOMAIN locks : locks[i] = a}
           n == Len(frames)
<1>1. n \in Nat /\ DOMAIN frames = 1..n
  BY SeqFacts
<1>2. Owners(a, locks, frames, graph) = Cardinality(C) + Cardinality(A)
  BY DEF Owners
<1>3. Owners(a, locks, new, graph) = Cardinality(C) + Cardinality(B)
  BY DEF Owners
<1>4. C \in SUBSET (1..Len(locks)) /\ Len(locks) \in Nat
  BY SeqFacts
<1> HIDE DEF C
<1>5. Cardinality(C) \in Nat
  BY <1>4, PlacesCounted
<1>6. A \in SUBSET (1..n) /\ B \in SUBSET (1..(n + 1))
  BY <1>1
<1>7. \A i \in 1..n : i \in A <=> i \in B
  <2>1. \A i \in 1..n : i \in 1..(n + 1)
    BY <1>1
  <2> QED BY <1>1, <2>1
<1>8. n + 1 \in B <=> a = Claim(fr, graph)
  <2>1. n + 1 \in 1..(n + 1)
    BY <1>1
  <2> QED BY <1>1, <2>1
<1> HIDE DEF A, B
<1>10. Cardinality(A) \in Nat /\ Cardinality(B) = Cardinality(A) + (IF n + 1 \in B THEN 1 ELSE 0)
  BY <1>1, <1>6, <1>7, CountNext
<1>11. Cardinality(B) = Cardinality(A) + (IF a = Claim(fr, graph) THEN 1 ELSE 0)
  BY <1>8, <1>10
<1> QED BY <1>2, <1>3, <1>5, <1>10, <1>11
-----------------------------------------------------------------------------
(* The heap with its owners.                                                *)

\* The graph of the call, and the counts of it
GraphOK(graph) ==
  /\ IsHeap(graph)
  /\ \A a \in DOMAIN graph :
       /\ graph[a].rc > 0 /\ Wraps(graph[a]) /\ graph[a].c # "Traversable"
       /\ \A i \in DOMAIN graph[a].ent : InGraph(graph[a].ent[i].v, graph)

\* Who has owners is alive.
LEMMA OwnedAlive ==
  ASSUME NEW hp, NEW locks, IsSeq(locks), NEW frames, IsSeq(frames), NEW graph,
         Owned(hp, locks, frames, graph), NEW a, a # 0, Owners(a, locks, frames, graph) > 0
  PROVE  a \in DOMAIN hp
  BY OwnersFacts DEF Owned

\* ... and that is what the end of Owned says.
LEMMA OwnedBy ==
  ASSUME NEW hp, NEW locks \in Seq(Addr), NEW frames, IsSeq(frames), NEW graph,
         DOMAIN hp \subseteq Addr,
         \A a \in DOMAIN graph :
           a \in DOMAIN hp /\ hp[a] = [graph[a] EXCEPT !.rc = @ + Owners(a, locks, frames, graph)],
         \A a \in DOMAIN hp \ DOMAIN graph :
           /\ Owners(a, locks, frames, graph) > 0
           /\ \E node \in Fresh : hp[a] = [node EXCEPT !.rc = Owners(a, locks, frames, graph)],
         \A a : a # 0 /\ Owners(a, locks, frames, graph) > 0 => a \in DOMAIN hp
  PROVE  Owned(hp, locks, frames, graph)
<1>1. IsSeq(locks) /\ \A i \in DOMAIN locks : locks[i] # 0
  BY AddrAssumption DEF IsSeq
<1>2. \A i \in DOMAIN locks : locks[i] \in DOMAIN hp
  BY <1>1, OwnersFacts
<1>3. \A i \in DOMAIN frames : Claim(frames[i], graph) # 0 => Claim(frames[i], graph) \in DOMAIN hp
  BY <1>1, OwnersFacts
<1> QED BY <1>2, <1>3 DEF Owned

\* What is in the heap, whatever the counts are
LEMMA OwnedNodes ==
  ASSUME NEW hp, NEW locks, IsSeq(locks), NEW frames, IsSeq(frames), NEW graph,
         GraphOK(graph), FreshOwned, Owned(hp, locks, frames, graph), NEW a \in DOMAIN hp
  PROVE  /\ a \in Addr /\ a \in Nat /\ a # 0
         /\ hp[a] \in SrcNode /\ hp[a].c # "Traversable" /\ Wraps(hp[a])
         /\ hp[a].rc > 0 /\ hp[a].rc \in Nat
         /\ \A i \in DOMAIN hp[a].ent : InGraph(hp[a].ent[i].v, graph)
<1> DEFINE k == Owners(a, locks, frames, graph)
<1>1. k \in Nat
  BY OwnersFacts
<1>2. a \in Addr /\ a \in Nat /\ a # 0
  BY AddrAssumption DEF Owned
<1>3. CASE a \in DOMAIN graph
  <2>1. hp[a] = [graph[a] EXCEPT !.rc = @ + k]
    BY <1>3 DEF Owned
  <2>2. graph[a] \in SrcNode /\ graph[a].rc > 0 /\ Wraps(graph[a]) /\ graph[a].c # "Traversable"
    BY <1>3 DEF GraphOK, IsHeap
  <2>3. \A i \in DOMAIN graph[a].ent : InGraph(graph[a].ent[i].v, graph)
    BY <1>3 DEF GraphOK
  <2> HIDE DEF k
  <2>4. /\ hp[a] \in SrcNode /\ hp[a].rc = graph[a].rc + k /\ graph[a].rc \in Nat
        /\ hp[a].c = graph[a].c /\ hp[a].ent = graph[a].ent
    BY <1>1, <2>1, <2>2 DEF SrcNode
  <2>5. hp[a].rc > 0 /\ hp[a].rc \in Nat
    BY <1>1, <2>2, <2>4
  <2> QED BY <1>2, <2>2, <2>3, <2>4, <2>5 DEF Wraps
<1>4. CASE a \notin DOMAIN graph
  <2>1. k > 0
    BY <1>4 DEF Owned
  <2> PICK node \in Fresh : hp[a] = [node EXCEPT !.rc = k]
    BY <1>4 DEF Owned
  <2>2. node \in SrcNode /\ node.c # "Traversable" /\ Wraps(node)
    BY DEF FreshOwned
  <2>3. \A i \in DOMAIN node.ent : node.ent[i].v.k \notin CountedKind
    BY DEF FreshOwned
  <2> HIDE DEF k
  <2>4. /\ hp[a] \in SrcNode /\ hp[a].rc = k /\ hp[a].c = node.c /\ hp[a].ent = node.ent
    BY <1>1, <2>2 DEF SrcNode
  <2> QED BY <1>1, <1>2, <2>1, <2>2, <2>3, <2>4 DEF Wraps, InGraph
<1> QED BY <1>3, <1>4

\* Nodes keep their entries as long as they live.
SameEntries(hp, new) == \A a \in DOMAIN hp : a \in DOMAIN new => new[a].ent = hp[a].ent

\* Nothing changes for the heap if every value has the same number of owners.
LEMMA OwnedSame ==
  ASSUME NEW hp, NEW locks \in Seq(Addr), NEW frames, IsSeq(frames), NEW graph, NEW new, IsSeq(new),
         Owned(hp, locks, frames, graph),
         \A a : a # 0 => Owners(a, locks, new, graph) = Owners(a, locks, frames, graph)
  PROVE  Owned(hp, locks, new, graph)
<1>1. IsSeq(locks)
  BY DEF IsSeq
<1>2. \A a \in DOMAIN hp : a # 0
  BY AddrAssumption DEF Owned
<1>3. \A a \in DOMAIN graph : a # 0 /\ a \in DOMAIN hp
  BY <1>2 DEF Owned
<1>4. \A a : a # 0 /\ Owners(a, locks, new, graph) > 0 => a \in DOMAIN hp
  BY <1>1, OwnedAlive
<1>5. \A a \in DOMAIN graph : hp[a] = [graph[a] EXCEPT !.rc = @ + Owners(a, locks, new, graph)]
  BY <1>3 DEF Owned
<1>6. \A a \in DOMAIN hp \ DOMAIN graph :
        /\ Owners(a, locks, new, graph) > 0
        /\ \E node \in Fresh : hp[a] = [node EXCEPT !.rc = Owners(a, locks, new, graph)]
  BY <1>2 DEF Owned
<1>7. DOMAIN hp \subseteq Addr
  BY DEF Owned
<1> QED BY <1>3, <1>4, <1>5, <1>6, <1>7, OwnedBy

\* A value in the heap gets one more owner.
LEMMA OwnedAdd ==
  ASSUME NEW hp, NEW locks \in Seq(Addr), NEW frames, IsSeq(frames), NEW graph,
         GraphOK(graph), FreshOwned, Owned(hp, locks, frames, graph),
         NEW locks2 \in Seq(Addr), NEW frames2, IsSeq(frames2), NEW b \in DOMAIN hp,
         \A a : a # 0 => Owners(a, locks2, frames2, graph) =
                           Owners(a, locks, frames, graph) + (IF a = b THEN 1 ELSE 0)
  PROVE  Owned(AddRef(hp, b), locks2, frames2, graph) /\ SameEntries(hp, AddRef(hp, b))
<1> DEFINE new == AddRef(hp, b)
           old(a) == Owners(a, locks, frames, graph)
           now(a) == Owners(a, locks2, frames2, graph)
<1>1. IsSeq(locks) /\ IsSeq(locks2)
  BY DEF IsSeq
<1>2. \A a \in DOMAIN hp : /\ a # 0 /\ a \in Addr /\ hp[a] \in SrcNode
                           /\ old(a) \in Nat /\ now(a) = old(a) + (IF a = b THEN 1 ELSE 0)
  BY <1>1, OwnedNodes, OwnersFacts
<1>3. new = [hp EXCEPT ![b] = [hp[b] EXCEPT !.rc = @ + 1]]
  BY DEF AddRef
<1>4. DOMAIN new = DOMAIN hp /\ new[b] = [hp[b] EXCEPT !.rc = @ + 1] /\ \A a \in DOMAIN hp \ {b} : new[a] = hp[a]
  <2> HIDE DEF new
  <2> QED BY <1>3
<1> HIDE DEF new
<1>5. \A a \in DOMAIN graph : a \in DOMAIN hp /\ hp[a] = [graph[a] EXCEPT !.rc = @ + old(a)] /\ graph[a] \in SrcNode
  BY DEF Owned, GraphOK, IsHeap
<1>6. \A a \in DOMAIN hp \ DOMAIN graph : old(a) > 0 /\ \E node \in Fresh : hp[a] = [node EXCEPT !.rc = old(a)]
  BY DEF Owned
<1>7. \A a : a # 0 /\ old(a) > 0 => a \in DOMAIN hp
  BY <1>1, OwnedAlive
<1>8. \A a : a # 0 => old(a) \in Nat /\ now(a) = old(a) + (IF a = b THEN 1 ELSE 0)
  BY <1>1, OwnersFacts
<1> HIDE DEF old, now
<1>9. ASSUME NEW a \in DOMAIN graph PROVE a \in DOMAIN new /\ new[a] = [graph[a] EXCEPT !.rc = @ + now(a)]
  <2>1. CASE a # b
    <3>0. old(a) \in Nat /\ now(a) = old(a) + (IF a = b THEN 1 ELSE 0)
      BY <1>2, <1>5
    <3>1. now(a) = old(a)
      BY <2>1, <3>0
    <3> QED BY <1>4, <1>5, <2>1, <3>1
  <2>2. CASE a = b
    <3>1. now(a) = old(a) + 1 /\ old(a) \in Nat
      BY <1>2, <2>2
    <3>2. hp[a] = [graph[a] EXCEPT !.rc = @ + old(a)] /\ graph[a] \in SrcNode
      BY <1>5
    <3>3. new[a] = [hp[a] EXCEPT !.rc = @ + 1]
      BY <1>4, <2>2
    <3> DEFINE r == graph[a]
    <3>a. r \in SrcNode /\ r.rc \in Nat /\ hp[a] = [r EXCEPT !.rc = r.rc + old(a)]
      BY <3>2 DEF SrcNode
    <3>b. new[a] = [r EXCEPT !.rc = (r.rc + old(a)) + 1]
      BY <3>3, <3>a DEF SrcNode
    <3>c. (r.rc + old(a)) + 1 = r.rc + now(a)
      BY <3>1, <3>a
    <3>4. new[a] = [r EXCEPT !.rc = r.rc + now(a)]
      BY <3>b, <3>c
    <3> QED BY <1>4, <2>2, <3>4
  <2> QED BY <2>1, <2>2
<1>10. ASSUME NEW a \in DOMAIN new \ DOMAIN graph
       PROVE  now(a) > 0 /\ \E node \in Fresh : new[a] = [node EXCEPT !.rc = now(a)]
  <2>0. a \in DOMAIN hp /\ old(a) > 0 /\ old(a) \in Nat /\ now(a) = old(a) + (IF a = b THEN 1 ELSE 0)
    BY <1>2, <1>4, <1>6
  <2> PICK node \in Fresh : hp[a] = [node EXCEPT !.rc = old(a)]
    BY <1>4, <1>6
  <2>1. node \in SrcNode
    BY DEF FreshOwned
  <2>2. CASE a # b
    <3>1. new[a] = hp[a] /\ now(a) = old(a)
      BY <1>4, <2>0, <2>2
    <3> QED BY <2>0, <3>1
  <2>3. CASE a = b
    <3>1. new[a] = [hp[a] EXCEPT !.rc = @ + 1] /\ now(a) = old(a) + 1
      BY <1>4, <2>0, <2>3
    <3>2. new[a] = [node EXCEPT !.rc = now(a)]
      BY <2>0, <2>1, <3>1 DEF SrcNode
    <3>3. now(a) > 0
      BY <2>0, <3>1
    <3> QED BY <3>2, <3>3
  <2> QED BY <2>2, <2>3
<1>11. ASSUME NEW a, a # 0, now(a) > 0 PROVE a \in DOMAIN new
  <2>1. CASE a = b
    BY <1>4, <2>1
  <2>2. CASE a # b
    BY <1>4, <1>7, <1>8, <1>11, <2>2
  <2> QED BY <2>1, <2>2
<1>12. Owned(new, locks2, frames2, graph)
  <2>1. DOMAIN new \subseteq Addr
    BY <1>2, <1>4
  <2> QED BY <1>9, <1>10, <1>11, <2>1, OwnedBy DEF now
<1>13. SameEntries(hp, new)
  <2>1. new[b].ent = hp[b].ent
    BY <1>2, <1>4 DEF SrcNode
  <2> QED BY <1>4, <2>1 DEF SameEntries
<1> QED BY <1>12, <1>13 DEF new

\* A method makes an object, which it gives away.
LEMMA OwnedMake ==
  ASSUME NEW hp, NEW locks \in Seq(Addr), NEW frames, IsSeq(frames), NEW graph,
         GraphOK(graph), FreshOwned, Owned(hp, locks, frames, graph),
         NEW frames2, IsSeq(frames2), NEW b \in Addr \ DOMAIN hp, NEW node \in Fresh,
         \A a : a # 0 => Owners(a, locks, frames2, graph) =
                           Owners(a, locks, frames, graph) + (IF a = b THEN 1 ELSE 0),
         NEW new, DOMAIN new = DOMAIN hp \cup {b}, new[b] = node, \A a \in DOMAIN hp : new[a] = hp[a]
  PROVE  Owned(new, locks, frames2, graph) /\ SameEntries(hp, new)
<1> DEFINE old(a) == Owners(a, locks, frames, graph)
           now(a) == Owners(a, locks, frames2, graph)
<1>1. IsSeq(locks) /\ b # 0
  BY AddrAssumption DEF IsSeq
<1>2. \A a \in DOMAIN hp : a # 0 /\ a \in Addr /\ a # b
  BY <1>1, OwnedNodes
<1>3. DOMAIN new = DOMAIN hp \cup {b} /\ new[b] = node /\ \A a \in DOMAIN hp : new[a] = hp[a]
  BY <1>2
<1>4. \A a : a # 0 => old(a) \in Nat /\ now(a) = old(a) + (IF a = b THEN 1 ELSE 0)
  BY <1>1, OwnersFacts
<1>5. \A a : a # 0 /\ old(a) > 0 => a \in DOMAIN hp
  BY <1>1, OwnedAlive
<1>6. \A a \in DOMAIN graph : a \in DOMAIN hp /\ hp[a] = [graph[a] EXCEPT !.rc = @ + old(a)]
  BY DEF Owned
<1>7. \A a \in DOMAIN hp \ DOMAIN graph : old(a) > 0 /\ \E x \in Fresh : hp[a] = [x EXCEPT !.rc = old(a)]
  BY DEF Owned
<1> HIDE DEF old, now
<1>8. now(b) = 1
  <2>1. old(b) \in Nat /\ ~(old(b) > 0) /\ now(b) = old(b) + 1
    BY <1>1, <1>4, <1>5
  <2> QED BY <2>1
<1>9. ASSUME NEW a, a # 0, a # b PROVE now(a) = old(a)
  <2>1. old(a) \in Nat /\ now(a) = old(a) + 0
    BY <1>4, <1>9
  <2> QED BY <2>1
<1>10. ASSUME NEW a \in DOMAIN graph PROVE a \in DOMAIN new /\ new[a] = [graph[a] EXCEPT !.rc = @ + now(a)]
  <2>1. a \in DOMAIN hp /\ a # 0 /\ a # b
    BY <1>2, <1>6
  <2>2. now(a) = old(a)
    BY <1>9, <2>1
  <2> QED BY <1>3, <1>6, <2>1, <2>2
<1>11. ASSUME NEW a \in DOMAIN new \ DOMAIN graph
       PROVE  now(a) > 0 /\ \E x \in Fresh : new[a] = [x EXCEPT !.rc = now(a)]
  <2>1. CASE a = b
    <3>1. node \in SrcNode /\ node.rc = 1
      BY DEF FreshOwned
    <3>2. node = [node EXCEPT !.rc = 1]
      BY <3>1 DEF SrcNode
    <3>3. new[a] = [node EXCEPT !.rc = now(a)]
      BY <1>3, <1>8, <2>1, <3>2
    <3>4. now(a) > 0
      BY <1>8, <2>1
    <3>5. \E x \in Fresh : new[a] = [x EXCEPT !.rc = now(a)]
      BY <3>3
    <3> QED BY <3>4, <3>5
  <2>2. CASE a # b
    <3>1. a \in DOMAIN hp /\ a # 0 /\ new[a] = hp[a]
      BY <1>2, <1>3, <2>2
    <3>2. now(a) = old(a)
      BY <1>9, <2>2, <3>1
    <3> QED BY <1>7, <3>1, <3>2
  <2> QED BY <2>1, <2>2
<1>12. ASSUME NEW a, a # 0, now(a) > 0 PROVE a \in DOMAIN new
  BY <1>3, <1>5, <1>9, <1>12
<1>13. DOMAIN new \subseteq Addr
  BY <1>2, <1>3
<1>14. Owned(new, locks, frames2, graph)
  BY <1>10, <1>11, <1>12, <1>13, OwnedBy DEF now
<1>15. SameEntries(hp, new)
  BY <1>3 DEF SameEntries
<1> QED BY <1>14, <1>15

\* How often a value is among those that are released
HeldBy(owned, a) == Cardinality({i \in DOMAIN owned : owned[i] = a})

\* Some owners are gone.
LEMMA OwnedRelease ==
  ASSUME NEW hp, NEW locks \in Seq(Addr), NEW frames, IsSeq(frames), NEW graph,
         GraphOK(graph), FreshOwned, Owned(hp, locks, frames, graph),
         NEW locks2 \in Seq(Addr), NEW frames2, IsSeq(frames2), NEW owned, IsSeq(owned),
         \A a : a # 0 => Owners(a, locks2, frames2, graph) =
                           Owners(a, locks, frames, graph) - HeldBy(owned, a)
  PROVE  Owned(ReleaseAll(hp, owned), locks2, frames2, graph) /\ SameEntries(hp, ReleaseAll(hp, owned))
<1> DEFINE held(a) == HeldBy(owned, a)
           new == ReleaseAll(hp, owned)
           old(a) == Owners(a, locks, frames, graph)
           now(a) == Owners(a, locks2, frames2, graph)
<1>1. IsSeq(locks) /\ IsSeq(locks2)
  BY DEF IsSeq
<1>2. \A a \in DOMAIN hp : a # 0 /\ a \in Addr /\ hp[a] \in SrcNode /\ hp[a].rc \in Nat
  BY <1>1, OwnedNodes
<1>3. new = [a \in {b \in DOMAIN hp : hp[b].rc > held(b)} |-> [hp[a] EXCEPT !.rc = @ - held(a)]]
  BY DEF ReleaseAll, HeldBy
<1>4. ASSUME NEW a PROVE held(a) \in Nat
  <2> DEFINE A == {i \in DOMAIN owned : owned[i] = a}
  <2>1. A \in SUBSET (1..Len(owned)) /\ Len(owned) \in Nat
    BY SeqFacts
  <2> HIDE DEF A
  <2>2. Cardinality(A) \in Nat
    BY <2>1, PlacesCounted
  <2> QED BY <2>2 DEF A, HeldBy
<1>5. \A a : a # 0 => old(a) \in Nat /\ now(a) \in Nat /\ now(a) = old(a) - held(a)
  BY <1>1, OwnersFacts
<1>6. \A a : a # 0 /\ old(a) > 0 => a \in DOMAIN hp
  BY <1>1, OwnedAlive
<1>7. \A a \in DOMAIN graph : /\ a \in DOMAIN hp /\ hp[a] = [graph[a] EXCEPT !.rc = @ + old(a)]
                              /\ graph[a] \in SrcNode /\ graph[a].rc > 0
  BY DEF Owned, GraphOK, IsHeap
<1>8. \A a \in DOMAIN hp \ DOMAIN graph : old(a) > 0 /\ \E x \in Fresh : hp[a] = [x EXCEPT !.rc = old(a)]
  BY DEF Owned
<1> HIDE DEF new, held, old, now
<1>9. /\ DOMAIN new = {b \in DOMAIN hp : hp[b].rc > held(b)}
      /\ \A a \in DOMAIN new : new[a] = [hp[a] EXCEPT !.rc = @ - held(a)]
  BY <1>3
<1>10. ASSUME NEW a \in DOMAIN graph PROVE a \in DOMAIN new /\ new[a] = [graph[a] EXCEPT !.rc = @ + now(a)]
  <2> DEFINE r == graph[a]
  <2>0. a \in DOMAIN hp /\ hp[a] = [r EXCEPT !.rc = r.rc + old(a)] /\ r \in SrcNode /\ r.rc > 0
    BY <1>7
  <2>a. a # 0
    BY <1>2, <2>0
  <2>b. r.rc \in Int
    BY <2>0 DEF SrcNode
  <2>1. /\ a \in DOMAIN hp /\ a # 0 /\ r \in SrcNode /\ r.rc \in Int /\ r.rc > 0
        /\ hp[a] = [r EXCEPT !.rc = r.rc + old(a)]
    BY <2>0, <2>a, <2>b
  <2>2. old(a) \in Nat /\ now(a) \in Nat /\ now(a) = old(a) - held(a) /\ held(a) \in Nat
    BY <1>4, <1>5, <2>1
  <2>3. hp[a].rc = r.rc + old(a)
    BY <2>1 DEF SrcNode
  <2> HIDE DEF r
  <2>4. hp[a].rc > held(a) /\ (r.rc + old(a)) - held(a) = r.rc + now(a)
    BY <2>1, <2>2, <2>3
  <2>5. a \in DOMAIN new
    BY <1>9, <2>1, <2>4
  <2>6. new[a] = [hp[a] EXCEPT !.rc = (r.rc + old(a)) - held(a)]
    BY <1>9, <2>3, <2>5
  <2>7. new[a] = [r EXCEPT !.rc = (r.rc + old(a)) - held(a)]
    BY <2>1, <2>6 DEF SrcNode
  <2>8. new[a] = [r EXCEPT !.rc = r.rc + now(a)]
    BY <2>4, <2>7
  <2> QED BY <2>5, <2>8 DEF r
<1>11. ASSUME NEW a \in DOMAIN hp \ DOMAIN graph
       PROVE  /\ a \in DOMAIN new <=> now(a) > 0
              /\ a \in DOMAIN new => \E x \in Fresh : new[a] = [x EXCEPT !.rc = now(a)]
  <2> PICK x \in Fresh : hp[a] = [x EXCEPT !.rc = old(a)]
    BY <1>8
  <2>1. x \in SrcNode /\ a # 0
    BY <1>2 DEF FreshOwned
  <2>2. old(a) \in Nat /\ now(a) \in Nat /\ now(a) = old(a) - held(a) /\ held(a) \in Nat
    BY <1>4, <1>5, <2>1
  <2>3. hp[a].rc = old(a)
    BY <2>1 DEF SrcNode
  <2>4. hp[a].rc > held(a) <=> now(a) > 0
    BY <2>2, <2>3
  <2>5. ASSUME a \in DOMAIN new PROVE new[a] = [x EXCEPT !.rc = now(a)]
    <3>1. new[a] = [hp[a] EXCEPT !.rc = old(a) - held(a)]
      BY <1>9, <2>3, <2>5
    <3>2. new[a] = [x EXCEPT !.rc = old(a) - held(a)]
      BY <2>1, <3>1 DEF SrcNode
    <3> QED BY <2>2, <3>2
  <2> QED BY <1>9, <2>4, <2>5
<1>12. ASSUME NEW a \in DOMAIN new \ DOMAIN graph
       PROVE  now(a) > 0 /\ \E x \in Fresh : new[a] = [x EXCEPT !.rc = now(a)]
  BY <1>9, <1>11
<1>13. ASSUME NEW a, a # 0, now(a) > 0 PROVE a \in DOMAIN new
  <2>1. old(a) > 0
    <3>1. old(a) \in Nat /\ now(a) \in Nat /\ now(a) = old(a) - held(a) /\ held(a) \in Nat
      BY <1>4, <1>5, <1>13
    <3> QED BY <1>13, <3>1
  <2>2. a \in DOMAIN hp
    BY <1>6, <1>13, <2>1
  <2> QED BY <1>10, <1>11, <1>13, <2>2
<1>14. DOMAIN new \subseteq Addr
  BY <1>2, <1>9
<1>15. Owned(new, locks2, frames2, graph)
  BY <1>10, <1>12, <1>13, <1>14, OwnedBy DEF now
<1>16. SameEntries(hp, new)
  <2>1. \A a \in DOMAIN hp : a \in DOMAIN new => new[a].ent = hp[a].ent
    BY <1>2, <1>9 DEF SrcNode
  <2> QED BY <2>1 DEF SameEntries
<1> QED BY <1>15, <1>16 DEF new

\* With one value to release
LEMMA HeldOnce ==
  ASSUME NEW h, NEW a, NEW owned, owned = <<h>>
  PROVE  IsSeq(owned) /\ HeldBy(owned, a) = IF a = h THEN 1 ELSE 0
<1>1. DOMAIN owned = {1} /\ owned[1] = h
  OBVIOUS
<1>2. owned \in Seq({h})
  OBVIOUS
<1>3. CASE a = h
  <2>1. {i \in DOMAIN owned : owned[i] = a} = {1}
    BY <1>1, <1>3
  <2>2. Cardinality({1}) = 1
    BY FS_Singleton
  <2> QED BY <1>2, <1>3, <2>1, <2>2 DEF IsSeq, HeldBy
<1>4. CASE a # h
  <2>1. {i \in DOMAIN owned : owned[i] = a} = {}
    BY <1>1, <1>4
  <2>2. Cardinality({}) = 0
    BY FS_EmptySet
  <2> QED BY <1>2, <1>4, <2>1, <2>2 DEF IsSeq, HeldBy
<1> QED BY <1>3, <1>4

-----------------------------------------------------------------------------
(* The heap and the functions that run.                                     *)

FramesOK(frames, hp, graph) ==
  \A i \in DOMAIN frames : Reached(frames, i, hp, graph) /\ IsSeq(frames[i].ht) /\ frames[i].i \in Nat

Memory(hp, locks, frames, graph) == Owned(hp, locks, frames, graph) /\ FramesOK(frames, hp, graph)

\* What a function may work on that is called now
Found(n, frames, graph) ==
  n \in DOMAIN graph \/ (frames # << >> /\ MadeBy(frames[Len(frames)], n))

\* What a function works on is alive, and so is what it may work on.
LEMMA FrameAlive ==
  ASSUME NEW hp, NEW locks, NEW frames, IsSeq(frames), NEW graph,
         Owned(hp, locks, frames, graph), NEW i \in DOMAIN frames,
         frames[i].n \in DOMAIN graph \/ (i > 1 /\ MadeBy(frames[i - 1], frames[i].n))
  PROVE  frames[i].n \in DOMAIN hp
<1>1. CASE frames[i].n \in DOMAIN graph
  BY <1>1 DEF Owned
<1>2. CASE i > 1 /\ MadeBy(frames[i - 1], frames[i].n)
  <2>1. DOMAIN frames = 1..Len(frames) /\ Len(frames) \in Nat
    BY SeqFacts
  <2>2. i - 1 \in DOMAIN frames
    BY <1>2, <2>1
  <2>3. Claim(frames[i - 1], graph) = frames[i].n /\ frames[i].n # 0
    BY <1>2 DEF MadeBy, Claim
  <2> QED BY <2>2, <2>3 DEF Owned
<1> QED BY <1>1, <1>2

LEMMA FoundAlive ==
  ASSUME NEW hp, NEW locks, NEW frames, IsSeq(frames), NEW graph,
         Owned(hp, locks, frames, graph), NEW n, Found(n, frames, graph)
  PROVE  n \in DOMAIN hp
<1>1. CASE n \in DOMAIN graph
  BY <1>1 DEF Owned
<1>2. CASE frames # << >> /\ MadeBy(frames[Len(frames)], n)
  <2>1. DOMAIN frames = 1..Len(frames) /\ Len(frames) \in Nat /\ Len(frames) # 0
    BY <1>2, SeqFacts
  <2>2. Len(frames) \in DOMAIN frames
    BY <2>1
  <2>3. Claim(frames[Len(frames)], graph) = n /\ n # 0
    BY <1>2 DEF MadeBy, Claim
  <2> QED BY <2>2, <2>3 DEF Owned
<1> QED BY <1>1, <1>2 DEF Found

\* Functions stay where they are when counts change.
LEMMA FramesKept ==
  ASSUME NEW hp, NEW locks, NEW frames, IsSeq(frames), NEW graph,
         Memory(hp, locks, frames, graph),
         NEW new, NEW locks2, Owned(new, locks2, frames, graph), SameEntries(hp, new)
  PROVE  Memory(new, locks2, frames, graph)
<1> SUFFICES ASSUME NEW i \in DOMAIN frames
             PROVE  Reached(frames, i, new, graph)
  BY DEF Memory, FramesOK
<1>1. Reached(frames, i, hp, graph) /\ Owned(hp, locks, frames, graph)
  BY DEF Memory, FramesOK
<1>2. frames[i].n \in DOMAIN graph \/ (i > 1 /\ MadeBy(frames[i - 1], frames[i].n))
  BY <1>1 DEF Reached
<1>3. frames[i].n \in DOMAIN hp /\ frames[i].n \in DOMAIN new
  BY <1>1, <1>2, FrameAlive
<1>4. new[frames[i].n].ent = hp[frames[i].n].ent
  BY <1>3 DEF SameEntries
<1> QED BY <1>1, <1>4 DEF Reached

\* One more function, on what may be worked on
FrameFits(fr, frames, hp, graph) ==
  /\ fr.f \in {"hash", "cde_map", "tag", "shareable", "serializable", "encodeparams"}
  /\ Found(fr.n, frames, graph)
  /\ fr.f = "serializable" /\ fr.i = 0 => hp[fr.n].ent # << >>
  /\ \A j \in DOMAIN fr.ht : InGraph(fr.ht[j].v, graph)
  /\ IsSeq(fr.ht) /\ fr.i \in Nat

LEMMA FramesPushed ==
  ASSUME NEW hp, NEW frames, IsSeq(frames), NEW graph, FramesOK(frames, hp, graph),
         NEW fr, FrameFits(fr, frames, hp, graph)
  PROVE  FramesOK(Append(frames, fr), hp, graph)
<1> DEFINE new == Append(frames, fr)
           n == Len(frames)
<1>1. /\ n \in Nat /\ DOMAIN frames = 1..n /\ DOMAIN new = 1..(n + 1)
      /\ new[n + 1] = fr /\ \A i \in 1..n : new[i] = frames[i]
  BY PushFacts, SeqFacts
<1>2. frames # << >> => n # 0
  BY SeqFacts
<1> HIDE DEF new, n
<1>3. ASSUME NEW i \in 1..n
      PROVE  Reached(new, i, hp, graph) /\ IsSeq(new[i].ht) /\ new[i].i \in Nat
  <2>1. Reached(frames, i, hp, graph) /\ IsSeq(frames[i].ht) /\ frames[i].i \in Nat
    BY <1>1 DEF FramesOK
  <2>2. new[i] = frames[i] /\ (i > 1 => new[i - 1] = frames[i - 1])
    BY <1>1
  <2> QED BY <2>1, <2>2 DEF Reached
<1>4. Reached(new, n + 1, hp, graph)
  <2>1. CASE fr.n \in DOMAIN graph
    BY <1>1, <2>1 DEF Reached, FrameFits
  <2>2. CASE frames # << >> /\ MadeBy(frames[n], fr.n)
    <3>1. n + 1 > 1 /\ (n + 1) - 1 = n /\ n \in 1..n
      BY <1>1, <1>2, <2>2
    <3>2. new[(n + 1) - 1] = frames[n] /\ new[n + 1] = fr
      BY <1>1, <3>1
    <3> QED BY <2>2, <3>1, <3>2 DEF Reached, FrameFits
  <2> QED BY <2>1, <2>2 DEF FrameFits, Found, n
<1>5. \A i \in DOMAIN new : Reached(new, i, hp, graph) /\ IsSeq(new[i].ht) /\ new[i].i \in Nat
  <2>1. \A i \in DOMAIN new : i \in 1..n \/ i = n + 1
    BY <1>1
  <2>2. IsSeq(new[n + 1].ht) /\ new[n + 1].i \in Nat
    BY <1>1 DEF FrameFits
  <2> QED BY <1>3, <1>4, <2>1, <2>2
<1> QED BY <1>5 DEF FramesOK, new

\* ... or one less
LEMMA FramesPopped ==
  ASSUME NEW hp, NEW frames, IsSeq(frames), frames # << >>, NEW graph, FramesOK(frames, hp, graph),
         NEW below, below = SubSeq(frames, 1, Len(frames) - 1)
  PROVE  FramesOK(below, hp, graph)
<1> DEFINE n == Len(frames)
<1>1. /\ n \in Nat /\ n >= 1 /\ DOMAIN frames = 1..n /\ DOMAIN below = 1..(n - 1)
      /\ \A i \in 1..(n - 1) : below[i] = frames[i]
  BY PopFacts, SeqFacts
<1> HIDE DEF n
<1> SUFFICES ASSUME NEW i \in 1..(n - 1)
             PROVE  Reached(below, i, hp, graph) /\ IsSeq(below[i].ht) /\ below[i].i \in Nat
  BY <1>1 DEF FramesOK
<1>2. i \in 1..n /\ (i > 1 => i - 1 \in 1..(n - 1))
  BY <1>1
<1>3. Reached(frames, i, hp, graph) /\ IsSeq(frames[i].ht) /\ frames[i].i \in Nat
  BY <1>1, <1>2 DEF FramesOK
<1>4. below[i] = frames[i] /\ (i > 1 => below[i - 1] = frames[i - 1])
  BY <1>1, <1>2
<1> QED BY <1>3, <1>4 DEF Reached

\* The function on top works on something that was found.
LEMMA TopFound ==
  ASSUME NEW hp, NEW frames, IsSeq(frames), frames # << >>, NEW graph, FramesOK(frames, hp, graph),
         NEW below, below = SubSeq(frames, 1, Len(frames) - 1), NEW top, top = frames[Len(frames)]
  PROVE  /\ FrameFits(top, below, hp, graph)
         /\ IsSeq(below) /\ Len(below) + 1 = Len(frames)
         /\ \A i \in 1..Len(below) : frames[i] = below[i]
<1> DEFINE n == Len(frames)
<1>1. /\ n \in Nat /\ n >= 1 /\ DOMAIN frames = 1..n /\ DOMAIN below = 1..(n - 1) /\ Len(below) = n - 1
      /\ IsSeq(below) /\ \A i \in 1..(n - 1) : below[i] = frames[i]
  BY PopFacts, SeqFacts
<1>2. n \in DOMAIN frames
  BY <1>1
<1>3. Reached(frames, n, hp, graph) /\ IsSeq(top.ht) /\ top.i \in Nat /\ top = frames[n]
  BY <1>2 DEF FramesOK
<1> HIDE DEF n
<1>4. Found(top.n, below, graph)
  <2>1. CASE n > 1 /\ MadeBy(frames[n - 1], top.n)
    <3>1. n - 1 \in 1..(n - 1)
      BY <1>1, <2>1
    <3>2. below # << >>
      <4>1. Len(below) # 0
        BY <1>1, <2>1
      <4> QED BY <1>1, <4>1, SeqFacts
    <3>3. below[Len(below)] = frames[n - 1]
      BY <1>1, <3>1
    <3> QED BY <2>1, <3>2, <3>3 DEF Found
  <2> QED BY <1>3, <2>1 DEF Reached, Found
<1>5. FrameFits(top, below, hp, graph)
  BY <1>3, <1>4 DEF FrameFits, Reached
<1>6. Len(below) + 1 = n /\ \A i \in 1..Len(below) : frames[i] = below[i]
  BY <1>1
<1> QED BY <1>1, <1>5, <1>6 DEF n

-----------------------------------------------------------------------------
(* What a step does to both.                                                *)

\* A value that is in the heap gets an index.
LEMMA MemoryLocks ==
  ASSUME NEW hp, NEW locks \in Seq(Addr), NEW frames, IsSeq(frames), NEW graph,
         GraphOK(graph), FreshOwned, Memory(hp, locks, frames, graph), NEW b \in DOMAIN hp
  PROVE  Append(locks, b) \in Seq(Addr) /\ Memory(AddRef(hp, b), Append(locks, b), frames, graph)
<1>1. IsSeq(locks) /\ Owned(hp, locks, frames, graph) /\ b \in Addr
  BY DEF Memory, Owned, IsSeq
<1>2. Append(locks, b) \in Seq(Addr)
  BY <1>1
<1>3. \A a : Owners(a, Append(locks, b), frames, graph)
               = Owners(a, locks, frames, graph) + (IF a = b THEN 1 ELSE 0)
  BY <1>1, OwnersLock
<1>4. Owned(AddRef(hp, b), Append(locks, b), frames, graph) /\ SameEntries(hp, AddRef(hp, b))
  BY <1>1, <1>2, <1>3, OwnedAdd
<1> QED BY <1>2, <1>4, FramesKept

\* A function is called that holds nothing, or returns.
LEMMA MemoryPushes ==
  ASSUME NEW hp, NEW locks \in Seq(Addr), NEW frames, IsSeq(frames), NEW graph,
         Memory(hp, locks, frames, graph),
         NEW fr, FrameFits(fr, frames, hp, graph), Claim(fr, graph) = 0
  PROVE  Memory(hp, locks, Append(frames, fr), graph)
<1> DEFINE new == Append(frames, fr)
<1>1. IsSeq(locks) /\ Owned(hp, locks, frames, graph) /\ FramesOK(frames, hp, graph)
  BY DEF Memory, IsSeq
<1>2. /\ IsSeq(new) /\ DOMAIN new = 1..(Len(frames) + 1) /\ new[Len(frames) + 1] = fr
      /\ \A i \in 1..Len(frames) : new[i] = frames[i]
  BY PushFacts
<1>3. FramesOK(new, hp, graph)
  BY <1>1, FramesPushed
<1> HIDE DEF new
<1>4. ASSUME NEW a, a # 0 PROVE Owners(a, locks, new, graph) = Owners(a, locks, frames, graph)
  <2>1. Owners(a, locks, new, graph)
           = Owners(a, locks, frames, graph) + (IF a = Claim(fr, graph) THEN 1 ELSE 0)
    BY <1>1, <1>2, OwnersPush
  <2>2. Owners(a, locks, frames, graph) \in Nat
    BY <1>1, OwnersFacts
  <2> QED BY <1>4, <2>1, <2>2
<1>5. Owned(hp, locks, new, graph)
  BY <1>1, <1>2, <1>4, OwnedSame
<1> QED BY <1>3, <1>5 DEF Memory, new

LEMMA MemoryPops ==
  ASSUME NEW hp, NEW locks \in Seq(Addr), NEW frames, IsSeq(frames), frames # << >>, NEW graph,
         Memory(hp, locks, frames, graph), Claim(frames[Len(frames)], graph) = 0
  PROVE  Memory(hp, locks, SubSeq(frames, 1, Len(frames) - 1), graph)
<1> DEFINE below == SubSeq(frames, 1, Len(frames) - 1)
           top == frames[Len(frames)]
<1>1. IsSeq(locks) /\ Owned(hp, locks, frames, graph) /\ FramesOK(frames, hp, graph)
  BY DEF Memory, IsSeq
<1>0. below = SubSeq(frames, 1, Len(frames) - 1) /\ top = frames[Len(frames)]
  OBVIOUS
<1> HIDE DEF below, top
<1>2. /\ FrameFits(top, below, hp, graph)
      /\ IsSeq(below) /\ Len(below) + 1 = Len(frames) /\ \A i \in 1..Len(below) : frames[i] = below[i]
  BY ONLY <1>0, <1>1, IsSeq(frames), frames # << >>, TopFound
<1>3. FramesOK(below, hp, graph)
  BY <1>0, <1>1, FramesPopped
<1>4. DOMAIN frames = 1..(Len(below) + 1) /\ frames[Len(below) + 1] = top
  BY <1>0, <1>2, SeqFacts
<1>5. ASSUME NEW a, a # 0 PROVE Owners(a, locks, below, graph) = Owners(a, locks, frames, graph)
  <2>1. Owners(a, locks, frames, graph)
           = Owners(a, locks, below, graph) + (IF a = Claim(top, graph) THEN 1 ELSE 0)
    BY <1>1, <1>2, <1>4, OwnersPush
  <2>2. Owners(a, locks, below, graph) \in Nat
    BY <1>1, <1>2, OwnersFacts
  <2>3. Claim(top, graph) = 0
    BY <1>0
  <2> QED BY <1>5, <2>1, <2>2, <2>3
<1>6. Owned(hp, locks, below, graph)
  BY <1>1, <1>2, <1>5, OwnedSame
<1> QED BY <1>3, <1>6 DEF Memory, below

\* The function on top is further on, or goes on with another one.
LEMMA MemoryReplaces ==
  ASSUME NEW hp, NEW locks \in Seq(Addr), NEW frames, IsSeq(frames), frames # << >>, NEW graph,
         Memory(hp, locks, frames, graph),
         NEW below, below = SubSeq(frames, 1, Len(frames) - 1), NEW top, top = frames[Len(frames)],
         top.f # "serializable",
         NEW fr, fr.f \in {"hash", "cde_map"}, fr.n = top.n, IsSeq(fr.ht), fr.i \in Nat,
         \A j \in DOMAIN fr.ht : InGraph(fr.ht[j].v, graph)
  PROVE  Memory(hp, locks, Append(below, fr), graph)
<1>1. Claim(top, graph) = 0 /\ Claim(fr, graph) = 0
  BY DEF Claim
<1>2. Memory(hp, locks, below, graph)
  BY <1>1, MemoryPops
<1>3. FrameFits(top, below, hp, graph) /\ IsSeq(below)
  BY TopFound DEF Memory
<1>4. FrameFits(fr, below, hp, graph)
  BY <1>3 DEF FrameFits
<1> QED BY <1>1, <1>2, <1>3, <1>4, MemoryPushes

\* What a method returned is what enc_serializable holds a count of.
LEMMA ClaimHeld ==
  ASSUME NEW hp, NEW locks, IsSeq(locks), NEW frames, IsSeq(frames), NEW graph,
         GraphOK(graph), FreshOwned, Owned(hp, locks, frames, graph),
         NEW fr, fr.f = "serializable", fr.i = 0, fr.n \in DOMAIN hp, hp[fr.n].ent # << >>
  PROVE  /\ Claim(fr, graph) = Held(hp[fr.n].ent[1].v)
         /\ InGraph(hp[fr.n].ent[1].v, graph)
<1> DEFINE n == fr.n
<1>1. hp[n] \in SrcNode /\ \A i \in DOMAIN hp[n].ent : InGraph(hp[n].ent[i].v, graph)
  BY OwnedNodes
<1>2. 1 \in DOMAIN hp[n].ent
  BY <1>1 DEF SrcNode
<1>3. InGraph(hp[n].ent[1].v, graph)
  BY <1>1, <1>2
<1>4. CASE n \in DOMAIN graph
  <2>1. hp[n] = [graph[n] EXCEPT !.rc = @ + Owners(n, locks, frames, graph)] /\ graph[n] \in SrcNode
    BY <1>4 DEF Owned, GraphOK, IsHeap
  <2>2. hp[n].ent = graph[n].ent
    BY <2>1 DEF SrcNode
  <2> QED BY <1>3, <1>4, <2>2 DEF Claim
<1>5. CASE n \notin DOMAIN graph
  <2>1. PICK node \in Fresh : hp[n] = [node EXCEPT !.rc = Owners(n, locks, frames, graph)]
    BY <1>5 DEF Owned
  <2>2. node \in SrcNode /\ \A i \in DOMAIN node.ent : node.ent[i].v.k \notin CountedKind
    BY DEF FreshOwned
  <2>3. hp[n].ent = node.ent
    BY <2>1, <2>2 DEF SrcNode
  <2>4. Held(hp[n].ent[1].v) = 0
    BY <1>2, <2>2, <2>3 DEF Held, CountedKind
  <2> QED BY <1>3, <1>5, <2>4 DEF Claim
<1> QED BY <1>4, <1>5

\* A method returns what it has.
LEMMA MemoryCalls ==
  ASSUME NEW hp, NEW locks \in Seq(Addr), NEW frames, IsSeq(frames), NEW graph,
         GraphOK(graph), FreshOwned, Memory(hp, locks, frames, graph),
         NEW fr, fr.f = "serializable", fr.i = 0, fr.ht = << >>,
         Found(fr.n, frames, graph), hp[fr.n].ent # << >>,
         NEW h, h = Held(hp[fr.n].ent[1].v)
  PROVE  Memory(IF h # 0 THEN AddRef(hp, h) ELSE hp, locks, Append(frames, fr), graph)
<1> DEFINE new == Append(frames, fr)
<1>1. IsSeq(locks) /\ Owned(hp, locks, frames, graph) /\ FramesOK(frames, hp, graph)
  BY DEF Memory, IsSeq
<1>2. fr.n \in DOMAIN hp
  BY <1>1, FoundAlive
<1>3. Claim(fr, graph) = h /\ InGraph(hp[fr.n].ent[1].v, graph)
  BY <1>1, <1>2, ClaimHeld
<1>4. FrameFits(fr, frames, hp, graph)
  BY DEF FrameFits, IsSeq
<1>5. CASE h = 0
  BY <1>3, <1>4, <1>5, MemoryPushes
<1>6. CASE h # 0
  <2>1. /\ IsSeq(new) /\ DOMAIN new = 1..(Len(frames) + 1) /\ new[Len(frames) + 1] = fr
        /\ \A i \in 1..Len(frames) : new[i] = frames[i]
    BY PushFacts
  <2>2. FramesOK(new, hp, graph)
    BY <1>1, <1>4, FramesPushed
  <2> HIDE DEF new
  <2>3. h \in DOMAIN hp
    <3>1. h \in DOMAIN graph
      BY <1>3, <1>6 DEF Held, InGraph, CountedKind
    <3> QED BY <1>1, <3>1 DEF Owned
  <2>4. \A a : Owners(a, locks, new, graph) = Owners(a, locks, frames, graph) + (IF a = h THEN 1 ELSE 0)
    BY <1>1, <1>3, <2>1, OwnersPush
  <2>5. Owned(AddRef(hp, h), locks, new, graph) /\ SameEntries(hp, AddRef(hp, h))
    BY <1>1, <2>1, <2>3, <2>4, OwnedAdd
  <2>6. Memory(AddRef(hp, h), locks, new, graph)
    <3> SUFFICES ASSUME NEW i \in DOMAIN new
                 PROVE  Reached(new, i, AddRef(hp, h), graph)
      BY <2>2, <2>5 DEF Memory, FramesOK
    <3>1. Reached(new, i, hp, graph)
      BY <2>2 DEF FramesOK
    <3>2. new[i].n \in DOMAIN AddRef(hp, h)
      BY <2>1, <2>5, <3>1, FrameAlive DEF Reached
    <3>3. DOMAIN AddRef(hp, h) = DOMAIN hp
      BY DEF AddRef
    <3>4. AddRef(hp, h)[new[i].n].ent = hp[new[i].n].ent
      BY <2>5, <3>2, <3>3 DEF SameEntries
    <3> QED BY <3>1, <3>4 DEF Reached
  <2> QED BY <1>6, <2>6 DEF new
<1> QED BY <1>5, <1>6

\* A method makes an object.
LEMMA MemoryMakes ==
  ASSUME NEW hp, NEW locks \in Seq(Addr), NEW frames, IsSeq(frames), NEW graph,
         GraphOK(graph), FreshOwned, Memory(hp, locks, frames, graph),
         NEW b \in Addr \ DOMAIN hp, NEW node \in Fresh,
         NEW fr, fr.f = "serializable", fr.i = b, fr.ht = << >>, Found(fr.n, frames, graph),
         NEW new, DOMAIN new = DOMAIN hp \cup {b}, new[b] = node, \A a \in DOMAIN hp : new[a] = hp[a]
  PROVE  Memory(new, locks, Append(frames, fr), graph)
<1> DEFINE frames2 == Append(frames, fr)
<1>1. /\ IsSeq(locks) /\ Owned(hp, locks, frames, graph) /\ FramesOK(frames, hp, graph)
      /\ b # 0 /\ b \in Nat
  BY AddrAssumption DEF Memory, IsSeq
<1>2. Claim(fr, graph) = b
  BY <1>1 DEF Claim
<1>3. FrameFits(fr, frames, hp, graph)
  BY <1>1 DEF FrameFits, IsSeq
<1>4. /\ IsSeq(frames2) /\ DOMAIN frames2 = 1..(Len(frames) + 1) /\ frames2[Len(frames) + 1] = fr
      /\ \A i \in 1..Len(frames) : frames2[i] = frames[i]
  BY PushFacts
<1>5. FramesOK(frames2, hp, graph)
  BY <1>1, <1>3, FramesPushed
<1> HIDE DEF frames2
<1>6. \A a : Owners(a, locks, frames2, graph) = Owners(a, locks, frames, graph) + (IF a = b THEN 1 ELSE 0)
  BY <1>1, <1>2, <1>4, OwnersPush
<1>7. Owned(new, locks, frames2, graph)
  <2>1. \A a : a # 0 => Owners(a, locks, frames2, graph) =
                           Owners(a, locks, frames, graph) + (IF a = b THEN 1 ELSE 0)
    BY <1>6
  <2>2. DOMAIN new = DOMAIN hp \cup {b} /\ new[b] = node /\ \A a \in DOMAIN hp : new[a] = hp[a]
    OBVIOUS
  <2> QED BY ONLY <1>1, <1>4, <2>1, <2>2, GraphOK(graph), FreshOwned, locks \in Seq(Addr), IsSeq(frames),
                  b \in Addr \ DOMAIN hp, node \in Fresh, OwnedMake
<1>8. ASSUME NEW i \in DOMAIN frames2 PROVE Reached(frames2, i, new, graph)
  <2>1. Reached(frames2, i, hp, graph)
    BY <1>5 DEF FramesOK
  <2>2. frames2[i].n \in DOMAIN hp
    <3>1. CASE i \in 1..Len(frames)
      <4>1. Reached(frames, i, hp, graph) /\ frames2[i] = frames[i] /\ i \in DOMAIN frames
        BY <1>1, <1>4, <3>1, SeqFacts DEF FramesOK
      <4>2. frames[i].n \in DOMAIN hp
        BY <1>1, <4>1, FrameAlive DEF Reached
      <4> QED BY <4>1, <4>2
    <3>2. CASE i = Len(frames) + 1
      BY <1>1, <1>4, <3>2, FoundAlive
    <3>3. Len(frames) \in Nat
      BY SeqFacts
    <3> QED BY <1>4, <3>1, <3>2, <3>3
  <2>3. new[frames2[i].n] = hp[frames2[i].n]
    BY <2>2
  <2> QED BY <2>1, <2>3 DEF Reached
<1> QED BY <1>5, <1>7, <1>8 DEF Memory, FramesOK, frames2

\* enc_serializable gives back what it holds.
LEMMA MemoryReturns ==
  ASSUME NEW hp, NEW locks \in Seq(Addr), NEW frames, IsSeq(frames), frames # << >>, NEW graph,
         GraphOK(graph), FreshOwned, Memory(hp, locks, frames, graph),
         NEW top, top = frames[Len(frames)], top.f = "serializable",
         NEW below, below = SubSeq(frames, 1, Len(frames) - 1),
         NEW h, h = Held(IF top.i # 0 THEN Scalar("obj", top.i) ELSE hp[top.n].ent[1].v)
  PROVE  Memory(ReleaseAll(hp, <<h>>), locks, below, graph)
<1>1. IsSeq(locks) /\ Owned(hp, locks, frames, graph) /\ FramesOK(frames, hp, graph)
  BY DEF Memory, IsSeq
<1>2. /\ FrameFits(top, below, hp, graph)
      /\ IsSeq(below) /\ Len(below) + 1 = Len(frames) /\ \A i \in 1..Len(below) : frames[i] = below[i]
  BY <1>1, TopFound
<1>3. FramesOK(below, hp, graph)
  BY <1>1, FramesPopped
<1>4. DOMAIN frames = 1..(Len(below) + 1) /\ frames[Len(below) + 1] = top
  BY <1>2, SeqFacts
<1>5. Claim(top, graph) = h
  <2>1. CASE top.i # 0
    BY <2>1 DEF Claim, Held, Scalar
  <2>2. CASE top.i = 0
    <3>1. Len(frames) \in DOMAIN frames
      BY <1>2, <1>4, SeqFacts
    <3>2. Reached(frames, Len(frames), hp, graph)
      BY <1>1, <3>1 DEF FramesOK
    <3>3. top.n \in DOMAIN hp /\ hp[top.n].ent # << >>
      BY <1>1, <2>2, <3>1, <3>2, FrameAlive DEF Reached
    <3>4. Claim(top, graph) = Held(hp[top.n].ent[1].v)
      BY <1>1, <2>2, <3>3, ClaimHeld
    <3> QED BY <2>2, <3>4
  <2> QED BY <2>1, <2>2
<1> DEFINE owned == <<h>>
           new == ReleaseAll(hp, owned)
<1>a. owned = <<h>>
  OBVIOUS
<1> HIDE DEF owned
<1>6. IsSeq(owned) /\ \A a : HeldBy(owned, a) = IF a = h THEN 1 ELSE 0
  BY <1>a, HeldOnce
<1>7. \A a : a # 0 => Owners(a, locks, below, graph) = Owners(a, locks, frames, graph) - HeldBy(owned, a)
  <2> SUFFICES ASSUME NEW a, a # 0
               PROVE  Owners(a, locks, below, graph) = Owners(a, locks, frames, graph) - HeldBy(owned, a)
    OBVIOUS
  <2>1. Owners(a, locks, frames, graph)
           = Owners(a, locks, below, graph) + (IF a = Claim(top, graph) THEN 1 ELSE 0)
    BY ONLY <1>1, <1>2, <1>4, IsSeq(frames), OwnersPush
  <2>2. Owners(a, locks, below, graph) \in Nat
    BY <1>1, <1>2, OwnersFacts
  <2>3. HeldBy(owned, a) = IF a = h THEN 1 ELSE 0
    BY <1>6
  <2> QED BY <1>5, <2>1, <2>2, <2>3
<1>8. Owned(new, locks, below, graph) /\ SameEntries(hp, new)
  BY <1>1, <1>2, <1>6, <1>7, OwnedRelease
<1> HIDE DEF new
<1>9. ASSUME NEW i \in DOMAIN below PROVE Reached(below, i, new, graph)
  <2>1. Reached(below, i, hp, graph)
    BY <1>3 DEF FramesOK
  <2>2. i \in DOMAIN frames /\ frames[i] = below[i] /\ Reached(frames, i, hp, graph)
    <3>1. DOMAIN below = 1..Len(below) /\ Len(below) \in Nat
      BY <1>2, SeqFacts
    <3>2. i \in 1..Len(below) /\ i \in 1..(Len(below) + 1)
      BY <3>1
    <3> QED BY <1>1, <1>2, <1>4, <3>2 DEF FramesOK
  <2>3. below[i].n \in DOMAIN hp
    BY <1>1, <2>2, FrameAlive DEF Reached
  <2>4. below[i].n \in DOMAIN new
    BY <1>2, <1>8, <2>1, FrameAlive DEF Reached
  <2>5. new[below[i].n].ent = hp[below[i].n].ent
    BY <1>8, <2>3, <2>4 DEF SameEntries
  <2> QED BY <2>1, <2>5 DEF Reached
<1> QED BY <1>3, <1>8, <1>9, <1>a DEF Memory, FramesOK, new

\* At the end all indices go: the heap is that of the call.
LEMMA MemoryEnds ==
  ASSUME NEW hp, NEW locks \in Seq(Addr), NEW graph, GraphOK(graph), FreshOwned,
         Memory(hp, locks, << >>, graph)
  PROVE  Memory(ReleaseAll(hp, locks), << >>, << >>, graph) /\ ReleaseAll(hp, locks) = graph
<1> DEFINE new == ReleaseAll(hp, locks)
<1>1. IsSeq(locks) /\ Owned(hp, locks, << >>, graph) /\ IsSeq(<< >>) /\ << >> \in Seq(Addr)
  BY DEF Memory, IsSeq
<1>2. \A a : Owners(a, << >>, << >>, graph) = 0
  <2>1. \A a : Owners(a, << >>, << >>, graph) \in Nat /\ ~(Owners(a, << >>, << >>, graph) > 0)
    BY <1>1, OwnersFacts
  <2> QED BY <2>1
<1>3. \A a : Owners(a, locks, << >>, graph) = HeldBy(locks, a)
  <2> SUFFICES ASSUME NEW a
               PROVE  Owners(a, locks, << >>, graph) = HeldBy(locks, a)
    OBVIOUS
  <2> DEFINE A == {i \in DOMAIN locks : locks[i] = a}
             C == {i \in DOMAIN << >> : Claim(<< >>[i], graph) = a}
  <2>1. Owners(a, locks, << >>, graph) = Cardinality(A) + Cardinality(C)
    BY DEF Owners
  <2>2. C = {} /\ A \in SUBSET (1..Len(locks)) /\ Len(locks) \in Nat
    BY <1>1, SeqFacts
  <2> HIDE DEF A, C
  <2>3. Cardinality(A) \in Nat /\ Cardinality(C) = 0
    BY <2>2, PlacesCounted, FS_EmptySet
  <2>4. Owners(a, locks, << >>, graph) = Cardinality(A)
    BY <2>1, <2>3
  <2> QED BY <2>4 DEF A, HeldBy
<1>4. \A a : a # 0 => Owners(a, << >>, << >>, graph) =
                        Owners(a, locks, << >>, graph) - HeldBy(locks, a)
  <2>1. \A a : Owners(a, locks, << >>, graph) \in Nat
    BY <1>1, OwnersFacts
  <2> QED BY <1>2, <1>3, <2>1
<1>5. Owned(new, << >>, << >>, graph)
  BY <1>1, <1>4, OwnedRelease
<1>6. Memory(new, << >>, << >>, graph)
  BY <1>5 DEF Memory, FramesOK
<1>7. new = [a \in DOMAIN new |-> new[a]]
  BY DEF ReleaseAll
<1> HIDE DEF new
<1>8. DOMAIN new = DOMAIN graph
  <2>1. \A a \in DOMAIN new : a \in DOMAIN graph
    BY <1>2, <1>5 DEF Owned
  <2>2. \A a \in DOMAIN graph : a \in DOMAIN new
    BY <1>5 DEF Owned
  <2> QED BY <2>1, <2>2
<1>9. ASSUME NEW a \in DOMAIN graph PROVE new[a] = graph[a]
  <2> DEFINE r == graph[a]
  <2>1. r \in SrcNode /\ new[a] = [r EXCEPT !.rc = r.rc + 0]
    BY <1>2, <1>5 DEF Owned, GraphOK, IsHeap
  <2>2. r.rc \in Nat
    BY <2>1 DEF SrcNode
  <2>3. r.rc + 0 = r.rc
    BY <2>2
  <2>4. [r EXCEPT !.rc = r.rc] = r
    BY <2>1 DEF SrcNode
  <2> HIDE DEF r
  <2>5. new[a] = r
    BY <2>1, <2>3, <2>4
  <2> QED BY <2>5 DEF r
<1>10. graph = [a \in DOMAIN graph |-> graph[a]]
  BY DEF GraphOK, IsHeap
<1>11. new = graph
  BY <1>7, <1>8, <1>9, <1>10
<1> QED BY <1>6, <1>11 DEF new

-----------------------------------------------------------------------------
(* The inductive invariant.                                                 *)

\* A value that enc_zval may be called with
ValueIn(v, frames, graph) ==
  InGraph(v, graph) \/ (v.k = "obj" /\ frames # << >> /\ MadeBy(frames[Len(frames)], v.n))

Counted ==
  /\ Memory(heap, ref_lock, stack, call.heap)
  /\ LockInv
  /\ pc \in {"call", "type"} => ValueIn(val, stack, call.heap)
  /\ pc \in {"start", "end"} => heap = call.heap

CInv == call \in Calls /\ (NoIterators => Counted)

\* It says what CountInv says.
LEMMA CountedIsCountInv == ASSUME CInv PROVE CountInv
<1> SUFFICES ASSUME NoIterators PROVE OwnInv /\ LockInv /\ ReachInv
  BY DEF CountInv
<1>1. Counted
  BY DEF CInv
<1>2. OwnInv /\ LockInv
  BY <1>1 DEF Counted, Memory, OwnInv
<1>3. ReachInv
  BY <1>1 DEF Counted, Memory, FramesOK, ReachInv, ValueIn, Top
<1> QED BY <1>2, <1>3

\* What holds before each step
Setting == GraphsOwned /\ FreshOwned /\ IInv /\ call \in Calls /\ NoIterators /\ Counted

LEMMA SettingFacts ==
  ASSUME Setting
  PROVE  /\ GraphOK(call.heap) /\ FreshOwned /\ ref_lock \in Seq(Addr) /\ refs = ref_lock /\ IsSeq(ref_lock)
         /\ IsSeq(stack) /\ Memory(heap, ref_lock, stack, call.heap)
         /\ Owned(heap, ref_lock, stack, call.heap) /\ FramesOK(stack, heap, call.heap)
<1>1. /\ FreshOwned /\ ref_lock \in Seq(Addr) /\ refs = ref_lock /\ IsSeq(ref_lock)
      /\ IsSeq(stack) /\ Memory(heap, ref_lock, stack, call.heap)
  BY DEF Setting, Counted, LockInv, IInv, Shape, IsSeq
<1>2. GraphOK(call.heap)
  BY DEF Setting, GraphsOwned, NoIterators, GraphOK
<1> QED BY <1>1, <1>2 DEF Memory

\* A step within the call
LEMMA StepCounted ==
  ASSUME Setting, call' = call, pc' \in {"call", "type", "ret"},
         Memory(heap', ref_lock', stack', call.heap), refs' = ref_lock', ref_lock' \in Seq(Addr),
         pc' \in {"call", "type"} => ValueIn(val', stack', call.heap)
  PROVE  Counted'
  BY DEF Counted, LockInv

\* ... that changes no counts
LEMMA QuietCounted ==
  ASSUME Setting, UNCHANGED <<call, refs, ref_lock, heap>>, pc' \in {"call", "type", "ret"},
         Memory(heap, ref_lock, stack', call.heap),
         pc' \in {"call", "type"} => ValueIn(val', stack', call.heap)
  PROVE  Counted'
  BY SettingFacts, StepCounted

\* ... and calls nothing
LEMMA SameCounted ==
  ASSUME Setting, UNCHANGED <<call, refs, ref_lock, heap, stack>>, pc' = "ret"
  PROVE  Counted'
  BY SettingFacts, QuietCounted

\* At the switch of enc_zval
LEMMA ValueFacts ==
  ASSUME Setting, pc = "type", val.k \in CountedKind
  PROVE  /\ Found(val.n, stack, call.heap) /\ val.n \in DOMAIN heap
         /\ heap[val.n] \in SrcNode /\ heap[val.n].c # "Traversable" /\ Wraps(heap[val.n])
         /\ \A i \in DOMAIN heap[val.n].ent : InGraph(heap[val.n].ent[i].v, call.heap)
<1>1. ValueIn(val, stack, call.heap)
  BY DEF Setting, Counted
<1>2. Found(val.n, stack, call.heap)
  BY <1>1 DEF ValueIn, InGraph, Found
<1>3. val.n \in DOMAIN heap
  BY <1>2, SettingFacts, FoundAlive
<1> QED BY <1>2, <1>3, SettingFacts, OwnedNodes

\* The content of a wrapper
LEMMA ContentFacts ==
  ASSUME Setting, pc = "type", val.k \in CountedKind, heap[val.n].ent # << >>
  PROVE  \A frames : ValueIn(Content, frames, call.heap)
<1>1. /\ heap[val.n] \in SrcNode
      /\ \A i \in DOMAIN heap[val.n].ent : InGraph(heap[val.n].ent[i].v, call.heap)
  BY ValueFacts
<1>2. 1 \in DOMAIN heap[val.n].ent
  BY <1>1 DEF SrcNode
<1>3. InGraph(Content, call.heap)
  BY <1>1, <1>2 DEF Content
<1> QED BY <1>3 DEF ValueIn

\* A value gets an index.
LEMMA ShareableCounted ==
  ASSUME Setting, pc = "type", val.k \in CountedKind, NewShareable(val.n)
  PROVE  /\ refs' = ref_lock' /\ ref_lock' \in Seq(Addr)
         /\ Memory(heap', ref_lock', stack, call.heap)
<1>1. /\ refs' = Append(refs, val.n) /\ ref_lock' = Append(ref_lock, val.n)
      /\ heap' = AddRef(heap, val.n)
  BY DEF NewShareable, Lock
<1>2. val.n \in DOMAIN heap
  BY ValueFacts
<1> QED BY <1>1, <1>2, SettingFacts, MemoryLocks

\* A function is called, on the value of enc_zval.
LEMMA CallCounted ==
  ASSUME Setting, NEW hp, NEW locks \in Seq(Addr), Memory(hp, locks, stack, call.heap),
         NEW n, Found(n, stack, call.heap), NEW type \in {"hash", "tag", "shareable", "encodeparams"},
         NEW fr, fr.f = type, fr.n = n, fr.ht = << >>, fr.i = 0
  PROVE  Memory(hp, locks, Append(stack, fr), call.heap)
<1>1. Claim(fr, call.heap) = 0
  BY DEF Claim
<1>2. FrameFits(fr, stack, hp, call.heap)
  BY DEF FrameFits, IsSeq
<1> QED BY <1>1, <1>2, SettingFacts, MemoryPushes

-----------------------------------------------------------------------------
(* The steps of enc_zval.                                                   *)

LEMMA LeavesCounted ==
  ASSUME Setting,
         \/ EncScalar \/ EncFloatx \/ EncStr \/ EncXString
         \/ EncDateTime \/ EncBignum \/ EncDecimal \/ EncUri \/ EncUnsupported
  PROVE  Counted'
<1>1. UNCHANGED <<call, refs, ref_lock, heap, stack>>
  BY DEF EncScalar, EncFloatx, EncStr, EncXString, EncDateTime, EncBignum, EncDecimal, EncUri, EncUnsupported
<1>2. pc' = "ret"
  BY DEF EncScalar, EncFloatx, EncStr, EncXString, EncDateTime, EncBignum, EncDecimal, EncUri, EncUnsupported,
         EncString, BigInt, Encoded
<1> QED BY <1>1, <1>2, SameCounted

LEMMA ZvalCounted == ASSUME Setting, EncZval PROVE Counted'
<1>1. /\ UNCHANGED <<call, refs, ref_lock, heap, stack, val>> /\ pc = "call" /\ pc' \in {"ret", "type"}
  BY DEF EncZval
<1>2. ValueIn(val', stack', call.heap)
  BY <1>1 DEF Setting, Counted
<1>3. Memory(heap, ref_lock, stack', call.heap)
  BY <1>1, SettingFacts
<1> QED BY <1>1, <1>2, <1>3, QuietCounted

\* A reference to something is a reference.
LEMMA ReferenceCounted == ASSUME Setting, EncReference PROVE Counted'
<1>1. /\ pc = "type" /\ val.k = "ref" /\ UNCHANGED <<call, stack>>
  BY DEF EncReference
<1>2. val.k \in CountedKind
  BY <1>1 DEF CountedKind
<1>3. heap[val.n].ent # << >>
  <2>1. InGraph(val, call.heap)
    BY <1>1 DEF Setting, Counted, ValueIn
  <2>2. val.n \in DOMAIN call.heap /\ call.heap[val.n].c = "reference"
    BY <1>1, <1>2, <2>1 DEF InGraph
  <2>3. heap[val.n] = [call.heap[val.n] EXCEPT !.rc = @ + Owners(val.n, ref_lock, stack, call.heap)]
    BY <2>2, SettingFacts DEF Owned
  <2>4. call.heap[val.n] \in SrcNode
    BY <2>2, SettingFacts DEF GraphOK, IsHeap
  <2>5. heap[val.n].c = "reference"
    BY <2>2, <2>3, <2>4 DEF SrcNode
  <2> QED BY <1>1, <1>2, <2>5, ValueFacts DEF Wraps, Wrapping
<1>4. \A frames : ValueIn(Deref(val), frames, call.heap)
  BY <1>1, <1>2, <1>3, ContentFacts DEF Deref, Content
<1>5. CASE Encoded("none") /\ UNCHANGED <<refs, ref_lock, heap>>
  BY <1>1, <1>5, SameCounted DEF Encoded
<1>6. CASE NewShareable(val.n) /\ val' = Deref(val) /\ UNCHANGED pc
  <2>1. refs' = ref_lock' /\ ref_lock' \in Seq(Addr) /\ Memory(heap', ref_lock', stack, call.heap)
    BY <1>1, <1>2, <1>6, ShareableCounted
  <2>2. ValueIn(val', stack', call.heap)
    BY <1>4, <1>6
  <2> QED BY <1>1, <1>6, <2>1, <2>2, StepCounted
<1>7. CASE val' = Deref(val) /\ UNCHANGED <<pc, refs, ref_lock, heap>>
  <2>1. ValueIn(val', stack', call.heap)
    BY <1>4, <1>7
  <2> QED BY <1>1, <1>7, <2>1, SettingFacts, QuietCounted
<1> QED BY <1>5, <1>6, <1>7 DEF EncReference

LEMMA ShareableStepCounted == ASSUME Setting, EncShareable PROVE Counted'
<1>1. pc = "type" /\ val.k = "obj" /\ heap[val.n].c = "Shareable" /\ UNCHANGED call
  BY DEF EncShareable, AtObject
<1>2. val.k \in CountedKind /\ heap[val.n].ent # << >>
  BY <1>1, ValueFacts DEF CountedKind, Wraps, Wrapping
<1>3. CASE UNCHANGED <<stack, refs, ref_lock, heap>> /\ (Encoded("INTERNAL") \/ Encoded("none"))
  BY <1>1, <1>3, SameCounted DEF Encoded
<1>4. ASSUME NewShareable(val.n)
      PROVE  /\ refs' = ref_lock' /\ ref_lock' \in Seq(Addr)
             /\ Memory(heap', ref_lock', stack, call.heap)
  BY <1>1, <1>2, <1>4, ShareableCounted
<1>5. CASE NewShareable(val.n) /\ Encoded("TAG_VALUE") /\ UNCHANGED <<val, stack>>
  BY <1>1, <1>4, <1>5, StepCounted DEF Encoded
<1>6. CASE NewShareable(val.n) /\ CallZval(Append(stack, NewFrame("shareable", val.n)), Content)
  <2> DEFINE fr == NewFrame("shareable", val.n)
  <2>1. fr.f = "shareable" /\ fr.n = val.n /\ fr.ht = << >> /\ fr.i = 0
    BY DEF NewFrame
  <2>2. stack' = Append(stack, fr) /\ val' = Content /\ pc' = "call"
    BY <1>6 DEF CallZval
  <2> HIDE DEF fr
  <2>3. Memory(heap', ref_lock', stack', call.heap)
    BY <1>1, <1>2, <1>4, <1>6, <2>1, <2>2, ValueFacts, CallCounted
  <2>4. ValueIn(val', stack', call.heap)
    BY <1>1, <1>2, <2>2, ContentFacts
  <2> QED BY <1>1, <1>4, <1>6, <2>2, <2>3, <2>4, StepCounted
<1> QED BY <1>3, <1>5, <1>6 DEF EncShareable

\* enc_hash, with an index for its value or without
LEMMA EnterHashCounted ==
  ASSUME Setting, pc = "type", val.k \in CountedKind, NEW before, EnterHash(before), UNCHANGED call,
         refs' = ref_lock', ref_lock' \in Seq(Addr), Memory(heap', ref_lock', stack, call.heap)
  PROVE  Counted'
<1>1. CASE (Encoded("RECURSION") \/ Encoded("none")) /\ UNCHANGED stack
  BY <1>1, StepCounted DEF Encoded
<1>2. CASE GoOn(Append(stack, NewFrame("hash", val.n)))
  <2> DEFINE fr == NewFrame("hash", val.n)
  <2>1. fr.f = "hash" /\ fr.n = val.n /\ fr.ht = << >> /\ fr.i = 0
    BY DEF NewFrame
  <2>2. stack' = Append(stack, fr) /\ pc' = "ret"
    BY <1>2 DEF GoOn
  <2> HIDE DEF fr
  <2>3. Memory(heap', ref_lock', stack', call.heap)
    BY <2>1, <2>2, ValueFacts, CallCounted
  <2> QED BY <2>2, <2>3, StepCounted
<1> QED BY <1>1, <1>2 DEF EnterHash

LEMMA HashesCounted == ASSUME Setting, EncArray \/ EncStdClass PROVE Counted'
<1>1. pc = "type" /\ val.k \in CountedKind /\ UNCHANGED call
  BY DEF EncArray, EncStdClass, AtObject, CountedKind
<1>2. CASE EncArray
  <2>1. EnterHash(<< >>) /\ UNCHANGED <<refs, ref_lock, heap>>
    BY <1>2 DEF EncArray
  <2> QED BY <1>1, <2>1, SettingFacts, EnterHashCounted
<1>3. CASE EncStdClass
  <2>1. CASE Encoded("none") /\ UNCHANGED <<stack, refs, ref_lock, heap>>
    BY <1>1, <2>1, SameCounted DEF Encoded
  <2>2. CASE NewShareable(val.n) /\ EnterHash(<<WriteInt("tag", TagShareable)>>)
    <3>1. refs' = ref_lock' /\ ref_lock' \in Seq(Addr) /\ Memory(heap', ref_lock', stack, call.heap)
      BY <1>1, <2>2, ShareableCounted
    <3> QED BY <1>1, <2>2, <3>1, EnterHashCounted
  <2>3. CASE EnterHash(<< >>) /\ UNCHANGED <<refs, ref_lock, heap>>
    BY <1>1, <2>3, SettingFacts, EnterHashCounted
  <2> QED BY <1>3, <2>1, <2>2, <2>3 DEF EncStdClass
<1> QED BY <1>2, <1>3

LEMMA TagCounted == ASSUME Setting, EncTag PROVE Counted'
<1>1. pc = "type" /\ val.k = "obj" /\ heap[val.n].c = "Tag" /\ UNCHANGED <<call, refs, ref_lock, heap>>
  BY DEF EncTag, AtObject
<1>2. val.k \in CountedKind /\ heap[val.n].ent # << >>
  BY <1>1, ValueFacts DEF CountedKind, Wraps, Wrapping
<1>3. CASE Encoded(TagError(heap[val.n])) /\ UNCHANGED stack
  BY <1>1, <1>3, SameCounted DEF Encoded
<1>4. ASSUME NEW flag, CallZval(Append(stack, [NewFrame("tag", val.n) EXCEPT !.flag = flag]), Content)
      PROVE  Counted'
  <2> DEFINE fr == [NewFrame("tag", val.n) EXCEPT !.flag = flag]
  <2>1. fr.f = "tag" /\ fr.n = val.n /\ fr.ht = << >> /\ fr.i = 0
    BY DEF NewFrame
  <2>2. stack' = Append(stack, fr) /\ val' = Content /\ pc' = "call"
    BY <1>4 DEF CallZval
  <2> HIDE DEF fr
  <2>3. Memory(heap, ref_lock, stack', call.heap)
    BY <1>1, <1>2, <2>1, <2>2, SettingFacts, ValueFacts, CallCounted
  <2>4. ValueIn(val', stack', call.heap)
    BY <1>1, <1>2, <2>2, ContentFacts
  <2> QED BY <1>1, <2>2, <2>3, <2>4, QuietCounted
<1> QED BY <1>3, <1>4 DEF EncTag

LEMMA EncodeParamsCounted == ASSUME Setting, EncEncodeParams PROVE Counted'
<1>1. /\ pc = "type" /\ val.k = "obj" /\ heap[val.n].c = "EncodeParams"
      /\ UNCHANGED <<call, refs, ref_lock, heap>>
  BY DEF EncEncodeParams, AtObject
<1>2. val.k \in CountedKind /\ heap[val.n].ent # << >>
  BY <1>1, ValueFacts DEF CountedKind, Wraps, Wrapping
<1>3. CASE Encoded(ParamsError(heap[val.n].par)) /\ UNCHANGED stack
  BY <1>1, <1>3, SameCounted DEF Encoded
<1>4. ASSUME NEW flag, CallZval(Append(stack, [NewFrame("encodeparams", val.n) EXCEPT !.flag = flag]), Content)
      PROVE  Counted'
  <2> DEFINE fr == [NewFrame("encodeparams", val.n) EXCEPT !.flag = flag]
  <2>1. fr.f = "encodeparams" /\ fr.n = val.n /\ fr.ht = << >> /\ fr.i = 0
    BY DEF NewFrame
  <2>2. stack' = Append(stack, fr) /\ val' = Content /\ pc' = "call"
    BY <1>4 DEF CallZval
  <2> HIDE DEF fr
  <2>3. Memory(heap, ref_lock, stack', call.heap)
    BY <1>1, <1>2, <2>1, <2>2, SettingFacts, ValueFacts, CallCounted
  <2>4. ValueIn(val', stack', call.heap)
    BY <1>1, <1>2, <2>2, ContentFacts
  <2> QED BY <1>1, <2>2, <2>3, <2>4, QuietCounted
<1> QED BY <1>3, <1>4 DEF EncEncodeParams

\* An iterator would have to be in the graph.
LEMMA NoTraversable == ASSUME Setting, EncTraversable PROVE FALSE
<1>1. pc = "type" /\ val.k \in CountedKind /\ heap[val.n].c = "Traversable"
  BY DEF EncTraversable, AtObject, CountedKind
<1> QED BY <1>1, ValueFacts

\* A method is called.
LEMMA SerializableCounted == ASSUME Setting, EncSerializable PROVE Counted'
<1>1. pc = "type" /\ val.k \in CountedKind /\ UNCHANGED <<call, refs, ref_lock>>
  BY DEF EncSerializable, AtObject, CountedKind
<1>2. Found(val.n, stack, call.heap) /\ val.n \in DOMAIN heap
  BY <1>1, ValueFacts
<1> DEFINE frame == NewFrame("serializable", val.n)
<1>3. /\ frame.f = "serializable" /\ frame.n = val.n /\ frame.ht = << >> /\ frame.i = 0
      /\ \A a : /\ [frame EXCEPT !.i = a].f = "serializable" /\ [frame EXCEPT !.i = a].n = val.n
                /\ [frame EXCEPT !.i = a].ht = << >> /\ [frame EXCEPT !.i = a].i = a
  BY DEF NewFrame
<1> HIDE DEF frame
<1>4. CASE (Encoded("RECURSION") \/ Encoded("EXCEPTION")) /\ UNCHANGED <<stack, heap>>
  BY <1>1, <1>4, SameCounted DEF Encoded
<1>5. CASE /\ heap[val.n].ent # << >>
           /\ heap' = IF Held(Content) # 0 THEN AddRef(heap, Content.n) ELSE heap
           /\ CallZval(Append(stack, frame), Content)
  <2> DEFINE h == Held(Content)
  <2>1. h # 0 => h = Content.n
    BY DEF Held
  <2>2. heap' = IF h # 0 THEN AddRef(heap, h) ELSE heap
    BY <1>5, <2>1
  <2>3. h = Held(heap[frame.n].ent[1].v)
    BY <1>3 DEF Content
  <2> HIDE DEF h
  <2>4. Memory(IF h # 0 THEN AddRef(heap, h) ELSE heap, ref_lock, Append(stack, frame), call.heap)
    BY <1>2, <1>3, <1>5, <2>3, SettingFacts, MemoryCalls
  <2>5. stack' = Append(stack, frame) /\ val' = Content /\ pc' = "call"
    BY <1>5 DEF CallZval
  <2>6. ValueIn(val', stack', call.heap)
    BY <1>1, <1>5, <2>5, ContentFacts
  <2>7. Memory(heap', ref_lock', stack', call.heap)
    BY <1>1, <2>2, <2>4, <2>5
  <2> QED BY <1>1, <2>5, <2>6, <2>7, SettingFacts, StepCounted
<1>6. ASSUME NEW a \in Addr \ DOMAIN heap, NEW node \in Fresh,
             heap' = [b \in DOMAIN heap \cup {a} |-> IF b = a THEN node ELSE heap[b]],
             CallZval(Append(stack, [frame EXCEPT !.i = a]), Scalar("obj", a))
      PROVE  Counted'
  <2> DEFINE fr == [frame EXCEPT !.i = a]
  <2>1. fr.f = "serializable" /\ fr.n = val.n /\ fr.ht = << >> /\ fr.i = a
    BY <1>3
  <2>2. stack' = Append(stack, fr) /\ val' = Scalar("obj", a) /\ pc' = "call"
    BY <1>6 DEF CallZval
  <2> HIDE DEF fr
  <2> DEFINE new == heap'
  <2>a. DOMAIN new = DOMAIN heap \cup {a} /\ new[a] = node /\ \A b \in DOMAIN heap : new[b] = heap[b]
    BY <1>6
  <2> HIDE DEF new
  <2>b. Memory(new, ref_lock, Append(stack, fr), call.heap)
    BY <1>2, <2>1, <2>a, SettingFacts, MemoryMakes
  <2>3. Memory(heap', ref_lock, Append(stack, fr), call.heap)
    BY <2>b DEF new
  <2>4. a # 0
    BY AddrAssumption
  <2>5. ValueIn(val', stack', call.heap)
    <3>0. /\ Append(stack, fr)[Len(stack) + 1] = fr /\ Len(Append(stack, fr)) = Len(stack) + 1
          /\ IsSeq(Append(stack, fr)) /\ Len(stack) \in Nat
      BY SettingFacts, PushFacts, SeqFacts
    <3>1. Append(stack, fr)[Len(Append(stack, fr))] = fr /\ Append(stack, fr) # << >>
      <4>1. Len(Append(stack, fr)) # 0
        BY <3>0
      <4> QED BY <3>0, <4>1, SeqFacts
    <3>2. MadeBy(stack'[Len(stack')], a)
      BY <2>1, <2>2, <2>4, <3>1 DEF MadeBy
    <3> QED BY <2>2, <3>1, <3>2 DEF ValueIn, Scalar
  <2>6. Memory(heap', ref_lock', stack', call.heap)
    BY <1>1, <2>2, <2>3
  <2> QED BY <1>1, <2>2, <2>5, <2>6, SettingFacts, StepCounted
<1> QED BY <1>4, <1>5, <1>6 DEF EncSerializable, frame

-----------------------------------------------------------------------------
(* The steps of the functions.                                              *)

\* What is on top
LEMMA TopCounted ==
  ASSUME Setting, stack # << >>
  PROVE  /\ Top = stack[Len(stack)] /\ Below = SubSeq(stack, 1, Len(stack) - 1)
         /\ FrameFits(Top, Below, heap, call.heap) /\ Top.n \in DOMAIN heap
         /\ Top.f \in {"hash", "cde_map", "tag", "shareable", "serializable", "encodeparams"}
         /\ FrameOK(Top)
<1>1. Top = stack[Len(stack)] /\ Below = SubSeq(stack, 1, Len(stack) - 1)
  BY DEF Top, Below
<1>2. IsSeq(stack) /\ FramesOK(stack, heap, call.heap) /\ Owned(heap, ref_lock, stack, call.heap)
  BY SettingFacts
<1>3. FrameFits(Top, Below, heap, call.heap)
  BY <1>1, <1>2, TopFound
<1>4. Len(stack) \in DOMAIN stack
  BY StackFacts DEF Setting, IInv
<1>5. Reached(stack, Len(stack), heap, call.heap)
  BY <1>2, <1>4 DEF FramesOK
<1>6. Top.n \in DOMAIN heap
  BY <1>1, <1>2, <1>4, <1>5, FrameAlive DEF Reached
<1>7. FrameOK(Top)
  BY <1>1, <1>4 DEF Setting, IInv, Shape
<1> QED BY <1>1, <1>3, <1>6, <1>7 DEF FrameFits

\* enc_traversable does not run.
LEMMA NoTraverse == ASSUME Setting, Traverse PROVE FALSE
<1>1. stack # << >> /\ Top.f \in {"count", "rewind", "next", "key", "forward", "traversed"}
  BY DEF Traverse, TraversableCount, TraversableRewind, TraversableNext, TraversableKey,
         TraversableForward, TraversableEnd, Traversed, AtTraversable
<1> QED BY <1>1, TopCounted

\* A function that holds nothing returns.
LEMMA PopCounted ==
  ASSUME Setting, stack # << >>, Top.f # "serializable", stack' = Below, pc' = "ret",
         UNCHANGED <<call, refs, ref_lock, heap>>
  PROVE  Counted'
<1>1. Claim(stack[Len(stack)], call.heap) = 0
  BY TopCounted DEF Claim
<1>2. Memory(heap, ref_lock, stack', call.heap)
  BY <1>1, SettingFacts, MemoryPops, TopCounted
<1> QED BY <1>2, QuietCounted

LEMMA ReturnsCounted ==
  ASSUME Setting, ShareableDone \/ TagDone \/ EncodeParamsDone \/ CdeMapDone
  PROVE  Counted'
<1>1. /\ pc = "ret" /\ stack # << >> /\ UNCHANGED <<call, refs, ref_lock, heap>>
      /\ Top.f # "serializable" /\ stack' = Below /\ pc' = "ret"
  BY DEF ShareableDone, TagDone, EncodeParamsDone, CdeMapDone, AtCdeMap, Leave, Encoded
<1> QED BY <1>1, PopCounted

LEMMA SerializableDoneCounted == ASSUME Setting, SerializableDone PROVE Counted'
<1>1. /\ stack # << >> /\ Top.f = "serializable" /\ UNCHANGED <<call, refs, ref_lock>>
      /\ heap' = ReleaseAll(heap, <<Held(ReturnedValue(Top))>>) /\ stack' = Below /\ pc' = "ret"
  BY DEF SerializableDone, Leave, Encoded
<1> DEFINE h == Held(ReturnedValue(Top))
<1>2. h = Held(IF Top.i # 0 THEN Scalar("obj", Top.i) ELSE heap[Top.n].ent[1].v)
  BY DEF ReturnedValue
<1>3. heap' = ReleaseAll(heap, <<h>>)
  BY <1>1
<1> HIDE DEF h
<1>4. Memory(ReleaseAll(heap, <<h>>), ref_lock, Below, call.heap)
  BY <1>1, <1>2, SettingFacts, TopCounted, MemoryReturns
<1>5. Memory(heap', ref_lock', stack', call.heap)
  BY <1>1, <1>3, <1>4
<1> QED BY <1>1, <1>5, SettingFacts, StepCounted

\* The loop of a function that holds nothing
LEMMA ReplaceCounted ==
  ASSUME Setting, stack # << >>, Top.f # "serializable",
         NEW fr, fr.f \in {"hash", "cde_map"}, fr.n = Top.n, IsSeq(fr.ht), fr.i \in Nat,
         \A j \in DOMAIN fr.ht : InGraph(fr.ht[j].v, call.heap),
         stack' = Append(Below, fr), UNCHANGED <<call, refs, ref_lock, heap>>, pc' \in {"call", "ret"},
         pc' = "call" => InGraph(val', call.heap)
  PROVE  Counted'
<1>1. Memory(heap, ref_lock, stack', call.heap)
  BY SettingFacts, TopCounted, MemoryReplaces
<1> QED BY <1>1, QuietCounted DEF ValueIn

LEMMA HashNextCounted == ASSUME Setting, HashNext PROVE Counted'
<1>1. /\ stack # << >> /\ Top.f = "hash" /\ Top.i < Len(heap[Top.n].ent)
      /\ UNCHANGED <<call, refs, ref_lock, heap>>
  BY DEF HashNext, AtHash
<1>2. /\ Top.n \in DOMAIN heap /\ FrameFits(Top, Below, heap, call.heap)
      /\ DOMAIN Top = {"f", "n", "i", "ht", "out", "args", "srns", "count", "flag"}
  BY <1>1, TopCounted DEF FrameOK
<1> DEFINE node == heap[Top.n]
           e == node.ent[Top.i + 1]
           k == IF node.c = "array" /\ IsList(node.ent) THEN StringResult("none", << >>, srns)
                ELSE EncKey(e.key)
           next == [Top EXCEPT !.i = @ + 1]
           bucket == [key |-> k.toks, v |-> e.v]
           sorted == [next EXCEPT !.ht = Append(@, bucket)]
<1>3. InGraph(e.v, call.heap)
  <2>1. node \in SrcNode /\ \A i \in DOMAIN node.ent : InGraph(node.ent[i].v, call.heap)
    BY <1>2, SettingFacts, OwnedNodes
  <2>2. Top.i \in Nat /\ Len(node.ent) \in Nat /\ DOMAIN node.ent = 1..Len(node.ent)
    BY <1>2, <2>1 DEF FrameFits, SrcNode
  <2>3. Top.i + 1 \in DOMAIN node.ent
    BY <1>1, <2>2
  <2> QED BY <2>1, <2>3
<1>4. Top.i + 1 \in Nat /\ IsSeq(Top.ht) /\ \A j \in DOMAIN Top.ht : InGraph(Top.ht[j].v, call.heap)
  BY <1>2 DEF FrameFits
<1>5. bucket.v = e.v
  OBVIOUS
<1> HIDE DEF e, bucket
<1>6. /\ IsSeq(Append(Top.ht, bucket))
      /\ \A j \in DOMAIN Append(Top.ht, bucket) : InGraph(Append(Top.ht, bucket)[j].v, call.heap)
  <2> DEFINE new == Append(Top.ht, bucket)
  <2>1. /\ IsSeq(new) /\ DOMAIN new = 1..(Len(Top.ht) + 1) /\ new[Len(Top.ht) + 1] = bucket
        /\ \A j \in 1..Len(Top.ht) : new[j] = Top.ht[j]
        /\ DOMAIN Top.ht = 1..Len(Top.ht) /\ Len(Top.ht) \in Nat
    BY <1>4, PushFacts, SeqFacts
  <2> HIDE DEF new
  <2>2. \A j \in DOMAIN new : j \in 1..Len(Top.ht) \/ j = Len(Top.ht) + 1
    BY <2>1
  <2>3. \A j \in DOMAIN new : InGraph(new[j].v, call.heap)
    BY <1>3, <1>4, <1>5, <2>1, <2>2
  <2> QED BY <2>1, <2>3 DEF new
<1>7. next.f = "hash" /\ next.n = Top.n /\ next.ht = Top.ht /\ next.i = Top.i + 1
  BY <1>1, <1>2
<1>8. sorted.f = "hash" /\ sorted.n = Top.n /\ sorted.ht = Append(Top.ht, bucket) /\ sorted.i = Top.i + 1
  BY <1>1, <1>2
<1> HIDE DEF sorted, next, k
<1>9. CASE Leave(k.error)
  <2>1. stack' = Below /\ pc' = "ret"
    BY <1>9 DEF Leave, Encoded
  <2> QED BY <1>1, <2>1, PopCounted
<1>10. CASE GoOn(Append(Below, sorted))
  <2>1. stack' = Append(Below, sorted) /\ pc' = "ret"
    BY <1>10 DEF GoOn
  <2>2. IsSeq(sorted.ht) /\ \A j \in DOMAIN sorted.ht : InGraph(sorted.ht[j].v, call.heap)
    BY ONLY <1>6, <1>8
  <2>3. sorted.f \in {"hash", "cde_map"} /\ sorted.n = Top.n /\ sorted.i \in Nat
    BY <1>4, <1>8
  <2> QED BY <1>1, <2>1, <2>2, <2>3, ReplaceCounted
<1>11. CASE CallZval(Append(Below, next), e.v)
  <2>1. stack' = Append(Below, next) /\ pc' = "call" /\ val' = e.v
    BY <1>11 DEF CallZval
  <2> QED BY <1>1, <1>3, <1>4, <1>7, <2>1, ReplaceCounted
<1> QED BY <1>9, <1>10, <1>11 DEF HashNext, k, sorted, next, bucket, e

\* What is sorted is what there was.
LEMMA SortedSame ==
  ASSUME NEW ht, IsSeq(ht), NEW sorted \in SortByKey(ht)
  PROVE  IsSeq(sorted) /\ \A j \in DOMAIN sorted : \E i \in DOMAIN ht : sorted[j] = ht[i]
<1> PICK p \in [DOMAIN ht -> DOMAIN ht] : sorted = [n \in DOMAIN ht |-> ht[p[n]]]
  BY DEF SortByKey
<1>1. DOMAIN ht = 1..Len(ht) /\ Len(ht) \in Nat
  BY SeqFacts
<1>2. DOMAIN sorted = DOMAIN ht /\ \A j \in DOMAIN sorted : sorted[j] = ht[p[j]] /\ p[j] \in DOMAIN ht
  OBVIOUS
<1> DEFINE S == {ht[i] : i \in DOMAIN ht}
<1>3. sorted \in [1..Len(ht) -> S]
  BY <1>1
<1>4. sorted \in Seq(S)
  BY <1>1, <1>3
<1> HIDE DEF S
<1> QED BY <1>2, <1>4 DEF IsSeq

LEMMA HashDoneCounted == ASSUME Setting, HashDone PROVE Counted'
<1>1. stack # << >> /\ Top.f = "hash" /\ UNCHANGED <<call, refs, ref_lock, heap>>
  BY DEF HashDone, AtHash
<1>2. IsSeq(Top.ht) /\ \A j \in DOMAIN Top.ht : InGraph(Top.ht[j].v, call.heap)
  BY <1>1, TopCounted DEF FrameFits
<1>3. CASE Leave(error)
  <2>1. stack' = Below /\ pc' = "ret"
    BY <1>3 DEF Leave, Encoded
  <2> QED BY <1>1, <2>1, PopCounted
<1>4. ASSUME NEW sorted \in SortByKey(Top.ht), GoOn(Append(Below, CdeFrame(Top.n, sorted, TRUE)))
      PROVE  Counted'
  <2> DEFINE fr == CdeFrame(Top.n, sorted, TRUE)
  <2>1. fr.f = "cde_map" /\ fr.n = Top.n /\ fr.ht = sorted /\ fr.i = 0
    BY DEF CdeFrame, NewFrame
  <2>2. stack' = Append(Below, fr) /\ pc' = "ret"
    BY <1>4 DEF GoOn
  <2> HIDE DEF fr
  <2>3. IsSeq(sorted) /\ \A j \in DOMAIN sorted : InGraph(sorted[j].v, call.heap)
    BY <1>2, SortedSame
  <2> QED BY <1>1, <2>1, <2>2, <2>3, ReplaceCounted
<1> QED BY <1>3, <1>4 DEF HashDone

LEMMA CdeMapNextCounted == ASSUME Setting, CdeMapNext PROVE Counted'
<1>1. /\ stack # << >> /\ Top.f = "cde_map" /\ Top.i < Len(Top.ht) /\ UNCHANGED <<call, refs, ref_lock, heap>>
      /\ CallZval(Append(Below, [Top EXCEPT !.i = @ + 1]), Top.ht[Top.i + 1].v)
  BY DEF CdeMapNext, AtCdeMap
<1>2. /\ Top.i \in Nat /\ IsSeq(Top.ht) /\ \A j \in DOMAIN Top.ht : InGraph(Top.ht[j].v, call.heap)
      /\ DOMAIN Top = {"f", "n", "i", "ht", "out", "args", "srns", "count", "flag"}
  BY <1>1, TopCounted DEF FrameFits, FrameOK
<1> DEFINE next == [Top EXCEPT !.i = @ + 1]
<1>3. next.f = "cde_map" /\ next.n = Top.n /\ next.ht = Top.ht /\ next.i = Top.i + 1
  BY <1>1, <1>2
<1>4. stack' = Append(Below, next) /\ pc' = "call" /\ val' = Top.ht[Top.i + 1].v
  BY <1>1 DEF CallZval
<1> HIDE DEF next
<1>5. Top.i + 1 \in DOMAIN Top.ht /\ Top.i + 1 \in Nat
  <2>1. DOMAIN Top.ht = 1..Len(Top.ht) /\ Len(Top.ht) \in Nat
    BY <1>2, SeqFacts
  <2> QED BY <1>1, <1>2, <2>1
<1> QED BY <1>1, <1>2, <1>3, <1>4, <1>5, ReplaceCounted

\* The call is what it is.
LEMMA SameCallAlways == ASSUME [Next]_vars PROVE call' = call
<1>1. CASE Traverse
  BY <1>1 DEF Traverse, TraversableCount, TraversableRewind, TraversableNext, TraversableKey,
              TraversableForward, TraversableEnd, Traversed
<1>2. CASE Start \/ EncZval \/ Finish \/ EncScalar \/ EncFloatx \/ EncStr \/ EncXString
  BY <1>2 DEF Start, EncZval, Finish, EncScalar, EncFloatx, EncStr, EncXString
<1>3. CASE EncDateTime \/ EncBignum \/ EncDecimal \/ EncUri \/ EncUnsupported
  BY <1>3 DEF EncDateTime, EncBignum, EncDecimal, EncUri, EncUnsupported
<1>4. CASE EncReference \/ EncShareable \/ EncArray \/ EncStdClass
  BY <1>4 DEF EncReference, EncShareable, EncArray, EncStdClass
<1>5. CASE EncTag \/ EncEncodeParams \/ EncSerializable \/ EncTraversable
  BY <1>5 DEF EncTag, EncEncodeParams, EncSerializable, EncTraversable
<1>6. CASE HashNext \/ HashDone \/ CdeMapNext
  BY <1>6 DEF HashNext, HashDone, CdeMapNext
<1>7. CASE ShareableDone \/ TagDone \/ EncodeParamsDone \/ SerializableDone \/ CdeMapDone
  BY <1>7 DEF ShareableDone, TagDone, EncodeParamsDone, SerializableDone, CdeMapDone
<1>8. CASE UNCHANGED vars
  BY <1>8 DEF vars
<1> QED BY <1>1, <1>2, <1>3, <1>4, <1>5, <1>6, <1>7, <1>8 DEF Next

-----------------------------------------------------------------------------
(* The call.                                                                *)

LEMMA InitCounted == Init /\ GraphsOwned /\ FreshOwned => CInv
<1> SUFFICES ASSUME Init, GraphsOwned, FreshOwned PROVE CInv
  OBVIOUS
<1>1. /\ call \in Calls /\ pc = "start" /\ stack = << >> /\ refs = << >> /\ ref_lock = << >>
      /\ heap = call.heap
  BY DEF Init
<1>2. ASSUME NoIterators PROVE Memory(call.heap, << >>, << >>, call.heap)
  <2> DEFINE graph == call.heap
  <2>1. GraphOK(graph)
    BY <1>1, <1>2 DEF GraphsOwned, NoIterators, GraphOK
  <2> HIDE DEF graph
  <2>2. IsSeq(<< >>) /\ << >> \in Seq(Addr)
    BY DEF IsSeq
  <2>3. \A a : Owners(a, << >>, << >>, graph) = 0
    <3>1. \A a : Owners(a, << >>, << >>, graph) \in Nat /\ ~(Owners(a, << >>, << >>, graph) > 0)
      BY <2>2, OwnersFacts
    <3> QED BY <3>1
  <2>4. ASSUME NEW a \in DOMAIN graph
        PROVE  graph[a] = [graph[a] EXCEPT !.rc = @ + Owners(a, << >>, << >>, graph)]
    <3> DEFINE r == graph[a]
    <3>1. r \in SrcNode
      BY <2>1 DEF GraphOK, IsHeap
    <3>2. r.rc + 0 = r.rc
      BY <3>1 DEF SrcNode
    <3>3. r = [r EXCEPT !.rc = r.rc]
      BY <3>1 DEF SrcNode
    <3> HIDE DEF r
    <3>4. r = [r EXCEPT !.rc = r.rc + Owners(a, << >>, << >>, graph)]
      BY <2>3, <3>2, <3>3
    <3> QED BY <3>4 DEF r
  <2>5. DOMAIN graph \subseteq Addr
    BY <2>1 DEF GraphOK, IsHeap
  <2>6. Owned(graph, << >>, << >>, graph)
    BY <2>4, <2>5 DEF Owned
  <2> QED BY <2>6 DEF Memory, FramesOK, graph
<1>3. ASSUME NoIterators PROVE Counted
  BY <1>1, <1>2, <1>3 DEF Counted, LockInv
<1> QED BY <1>1, <1>3 DEF CInv

LEMMA StartCounted == ASSUME Setting, Start PROVE Counted'
<1>1. /\ pc = "start" /\ UNCHANGED <<call, stack, refs, ref_lock, heap>>
      /\ pc' = "end" \/ (pc' = "call" /\ val' = call.root)
  BY DEF Start
<1>2. heap = call.heap /\ LockInv /\ Memory(heap, ref_lock, stack, call.heap)
  BY <1>1 DEF Setting, Counted
<1>3. InGraph(call.root, call.heap)
  BY DEF Setting, GraphsOwned
<1> QED BY <1>1, <1>2, <1>3 DEF Counted, LockInv, ValueIn

LEMMA FinishCounted == ASSUME Setting, Finish PROVE Counted'
<1>1. /\ stack = << >> /\ stack' = << >> /\ refs' = << >> /\ ref_lock' = << >> /\ pc' = "end"
      /\ heap' = ReleaseAll(heap, ref_lock) /\ call' = call
  BY DEF Finish, Unlock
<1>2. Memory(heap, ref_lock, << >>, call.heap)
  BY <1>1, SettingFacts
<1>3. Memory(heap', << >>, << >>, call.heap) /\ heap' = call.heap
  BY <1>1, <1>2, SettingFacts, MemoryEnds
<1> QED BY <1>1, <1>3 DEF Counted, LockInv

LEMMA StutterCounted == ASSUME Setting, UNCHANGED vars PROVE Counted'
<1>1. UNCHANGED <<call, pc, val, stack, refs, ref_lock, heap>>
  BY DEF vars, ctxVars
<1> QED BY <1>1 DEF Setting, Counted, LockInv

\* Every step keeps the counts.
LEMMA NextCounted ==
  ASSUME GraphsOwned, FreshOwned, IInv, CInv, [Next]_vars
  PROVE  CInv'
<1>1. call' = call
  BY SameCallAlways
<1>2. ASSUME NoIterators' PROVE Counted'
  <2>1. Setting
    BY <1>1, <1>2 DEF Setting, CInv, NoIterators
  <2>2. CASE Start \/ EncZval \/ Finish
    BY <2>1, <2>2, StartCounted, ZvalCounted, FinishCounted
  <2>3. CASE EncScalar \/ EncFloatx \/ EncStr \/ EncXString
    BY <2>1, <2>3, LeavesCounted
  <2>4. CASE EncDateTime \/ EncBignum \/ EncDecimal \/ EncUri \/ EncUnsupported
    BY <2>1, <2>4, LeavesCounted
  <2>5. CASE EncReference \/ EncShareable \/ EncArray \/ EncStdClass
    BY <2>1, <2>5, ReferenceCounted, ShareableStepCounted, HashesCounted
  <2>6. CASE EncTag \/ EncEncodeParams \/ EncSerializable \/ EncTraversable
    BY <2>1, <2>6, TagCounted, EncodeParamsCounted, SerializableCounted, NoTraversable
  <2>7. CASE HashNext \/ HashDone \/ CdeMapNext
    BY <2>1, <2>7, HashNextCounted, HashDoneCounted, CdeMapNextCounted
  <2>8. CASE ShareableDone \/ TagDone \/ EncodeParamsDone \/ SerializableDone \/ CdeMapDone
    BY <2>1, <2>8, ReturnsCounted, SerializableDoneCounted
  <2>9. CASE Traverse
    BY <2>1, <2>9, NoTraverse
  <2>10. CASE UNCHANGED vars
    BY <2>1, <2>10, StutterCounted
  <2> QED BY <2>2, <2>3, <2>4, <2>5, <2>6, <2>7, <2>8, <2>9, <2>10 DEF Next
<1> QED BY <1>1, <1>2 DEF CInv

-----------------------------------------------------------------------------
(* Types: the data items that are written.                                  *)

LEMMA ArgLenType == \A n \in Nat : ArgLen(n) \in Nat
  BY DEF ArgLen

LEMMA ItemTypes ==
  /\ \A n \in Nat, t \in TokenType : WriteInt(t, n) \in Token /\ WriteSimple(t, n) \in Token
  /\ \A n \in Nat, size \in {2, 4, 8} : WriteFloat(size, n) \in Token
  /\ \A s \in Str, is_text \in BOOLEAN : WriteString(is_text, s) \in Token
<1>1. << >> \in Str /\ 0 \in Nat /\ 1 \in Nat \ {0}
  BY DEF Str
<1>2. ASSUME NEW n \in Nat, NEW t \in TokenType
      PROVE  WriteInt(t, n) \in Token /\ WriteSimple(t, n) \in Token
  <2>1. 1 + ArgLen(n) \in Nat \ {0}
    BY ArgLenType
  <2> QED BY <1>1, <2>1 DEF WriteInt, WriteSimple, Token
<1>3. ASSUME NEW n \in Nat, NEW size \in {2, 4, 8} PROVE WriteFloat(size, n) \in Token
  <2>1. FloatType(size) \in TokenType
    BY DEF FloatType, TokenType
  <2>2. 1 + size \in Nat \ {0}
    OBVIOUS
  <2> QED BY <1>1, <2>1, <2>2 DEF WriteFloat, Token
<1>4. ASSUME NEW s \in Str, NEW is_text \in BOOLEAN PROVE WriteString(is_text, s) \in Token
  <2> DEFINE t == IF is_text THEN "text" ELSE "bytes"
             n == Len(s)
             len == 1 + ArgLen(Len(s)) + Len(s)
  <2>1. t \in TokenType
    BY DEF TokenType
  <2>2. n \in Nat
    BY DEF Str
  <2>3. ArgLen(n) \in Nat
    BY <2>2, ArgLenType
  <2>4. len \in Nat \ {0}
    <3> HIDE DEF n
    <3> QED BY <2>2, <2>3 DEF n
  <2> HIDE DEF t, len
  <2>5. [t |-> t, n |-> 0, s |-> s, len |-> len] \in Token
    BY <1>1, <2>1, <2>4 DEF Token
  <2> QED BY <2>5 DEF WriteString, t, len
<1> QED BY <1>2, <1>3, <1>4

LEMMA NumberTypes ==
  /\ \A n \in Int : WriteLong(n) \in Token
  /\ \A n \in Nat : enc_z_double(n) \in Token
<1>1. "uint" \in TokenType /\ "nint" \in TokenType
  BY DEF TokenType
<1>2. ASSUME NEW n \in Int PROVE WriteLong(n) \in Token
  <2>1. n >= 0 => n \in Nat
    OBVIOUS
  <2>2. ~(n >= 0) => -(n + 1) \in Nat
    OBVIOUS
  <2> QED BY <1>1, <2>1, <2>2, ItemTypes DEF WriteLong
<1>3. ASSUME NEW n \in Nat, NEW size \in {2, 4, 8} PROVE Narrow(n, size) \in Nat
  <2>1. n - (n % 3) \in Nat
    OBVIOUS
  <2> QED BY <2>1 DEF Narrow
<1>4. ASSUME NEW n \in Nat PROVE enc_z_double(n) \in Token
  <2> DEFINE size == IF Has("FLOAT16") /\ Has("FLOAT32") THEN FpSize(n)
                     ELSE IF Has("FLOAT16") THEN 2
                     ELSE IF Has("FLOAT32") THEN 4
                     ELSE 8
  <2>1. size \in {2, 4, 8}
    BY DEF FpSize
  <2>2. enc_z_double(n) = WriteFloat(size, Narrow(n, size))
    BY DEF enc_z_double
  <2> HIDE DEF size
  <2>3. Narrow(n, size) \in Nat
    BY <1>3, <2>1
  <2> QED BY <2>1, <2>2, <2>3, ItemTypes
<1> QED BY <1>2, <1>4

-----------------------------------------------------------------------------
(* Types: integers that strings are read as.                                *)

\* Of numbers that exist, one is the least, in any order that has < ...
LEMMA MinimalNat ==
  ASSUME NEW R, IsWellFoundedOn(R, Nat), \A x, y \in Nat : y < x => <<y, x>> \in R,
         NEW T \in SUBSET Nat, T # {}
  PROVE  \E x \in T : \A y \in T : x <= y
<1>1. PICK x \in T : \A y \in T : ~(<<y, x>> \in R)
  BY WFMin
<1>2. \A y \in T : ~(y < x)
  BY <1>1
<1> QED BY <1>2

\* ... so that a property that fails has a least number that it fails of.
LEMMA LeastNat ==
  ASSUME NEW T \in SUBSET Nat, T # {}
  PROVE  \E x \in T : \A y \in T : x <= y
<1>1. \E R : IsWellFoundedOn(R, Nat) /\ \A x, y \in Nat : y < x => <<y, x>> \in R
  <2>1. \A x, y \in Nat : y < x => <<y, x>> \in OpToRel(<, Nat)
    BY DEF OpToRel
  <2> QED BY Zenon, <2>1, NatLessThanWellFounded
<1>2. PICK R : IsWellFoundedOn(R, Nat) /\ \A x, y \in Nat : y < x => <<y, x>> \in R
  BY <1>1
<1> QED BY <1>2, MinimalNat

\* A loop: what each round makes of what the one before left.
Steps(N, S) == [1..N -> [S -> S]]
Loops(f, N, S, init, step) ==
  f \in [0..N -> S] /\ f[0] = init /\ \A n \in 1..N : f[n] = step[n][f[n - 1]]

LEMMA LoopExists ==
  ASSUME NEW N \in Nat, NEW S, NEW init \in S, NEW step \in Steps(N, S)
  PROVE  \E f : Loops(f, N, S, init, step)
<1> DEFINE Follows(f, m) == f[0] = init /\ \A n \in 1..N : n <= m => f[n] = step[n][f[n - 1]]
           Upto(m) == \E f \in [0..N -> S] : Follows(f, m)
           Bad == {m \in 0..N : ~Upto(m)}
<1>1. Upto(0)
  <2> DEFINE f == [n \in 0..N |-> init]
  <2>1. f \in [0..N -> S] /\ f[0] = init
    OBVIOUS
  <2> HIDE DEF f
  <2> QED BY <2>1
<1>2. ASSUME NEW m \in 0..N, m # 0, Upto(m - 1) PROVE Upto(m)
  <2>1. PICK f \in [0..N -> S] : Follows(f, m - 1)
    BY <1>2
  <2> DEFINE g == [f EXCEPT ![m] = step[m][f[m - 1]]]
  <2>2. m \in 1..N /\ m - 1 \in 0..N
    BY <1>2
  <2>3. step[m][f[m - 1]] \in S
    BY <2>2 DEF Steps
  <2>4. g \in [0..N -> S] /\ g[m] = step[m][f[m - 1]] /\ \A n \in 0..N : n # m => g[n] = f[n]
    BY <2>3
  <2> HIDE DEF g
  <2>5. ASSUME NEW n \in 1..N, n <= m PROVE g[n] = step[n][g[n - 1]]
    <3>1. n - 1 \in 0..N /\ n \in 0..N /\ n - 1 # m
      BY <2>5
    <3>2. g[n - 1] = f[n - 1]
      BY <2>4, <3>1
    <3>3. CASE n = m
      BY <2>4, <3>2, <3>3
    <3>4. CASE n # m
      <4>1. n <= m - 1
        BY <2>5, <3>4
      <4> QED BY <2>1, <2>4, <3>1, <3>2, <3>4, <4>1
    <3> QED BY <3>3, <3>4
  <2>6. g[0] = init
    BY <1>2, <2>1, <2>4
  <2> QED BY <2>4, <2>5, <2>6
<1> HIDE DEF Upto
<1>3. Bad = {}
  <2> SUFFICES ASSUME Bad # {} PROVE FALSE
    OBVIOUS
  <2>a. Bad \in SUBSET Nat /\ \A m \in Bad : m \in 0..N /\ ~Upto(m)
    OBVIOUS
  <2>b. \A m \in 0..N : m \notin Bad => Upto(m)
    OBVIOUS
  <2> HIDE DEF Bad
  <2>1. PICK m \in Bad : \A k \in Bad : m <= k
    BY <2>a, LeastNat
  <2>2. m # 0 /\ m \in 0..N /\ ~Upto(m)
    BY <1>1, <2>1, <2>a
  <2>3. m - 1 \in 0..N /\ Upto(m - 1)
    BY <2>1, <2>2, <2>b
  <2> QED BY <1>2, <2>2, <2>3
<1>4. Upto(N)
  BY <1>3
<1>5. PICK f \in [0..N -> S] : Follows(f, N)
  BY <1>4 DEF Upto
<1> QED BY <1>5 DEF Loops

LEMMA DigitType ==
  ASSUME NEW b, IsDigit(b)
  PROVE  DigitValue(b) \in 0..9 /\ (b # "0" => DigitValue(b) >= 1)
<1>1. DigitValue(b) \in 0..9 /\ b = Digit[DigitValue(b) + 1]
  BY DEF IsDigit, DigitValue
<1>2. DigitValue(b) = 0 => b = "0"
  BY <1>1 DEF Digit
<1> QED BY <1>1, <1>2

\* The digits taken are a natural number, and not 0 without a leading zero.
Scans(s) == {r \in [len : Nat, value : Nat] : r.len >= 1 /\ s[1] # "0" => r.value >= 1}

LEMMA ScanType ==
  ASSUME NEW S, NEW s \in Seq(S)
  PROVE  ScanDigits(s) \in Scans(s)
<1> DEFINE N == Len(s)
           init == [len |-> 0, value |-> 0]
           next(i, prev) ==
             IF prev.len # i - 1 \/ ~IsDigit(s[i]) \/ Overflows(i - 1, prev.value, DigitValue(s[i])) THEN prev
             ELSE [len |-> i, value |-> prev.value * 10 + DigitValue(s[i])]
           step == [i \in 1..N |-> [prev \in Scans(s) |-> next(i, prev)]]
           scan[i \in 0..Len(s)] ==
             IF i = 0 THEN [len |-> 0, value |-> 0]
             ELSE LET prev == scan[i - 1]
                  IN  IF prev.len # i - 1 \/ ~IsDigit(s[i])
                         \/ Overflows(i - 1, prev.value, DigitValue(s[i]))
                      THEN prev
                      ELSE [len |-> i, value |-> prev.value * 10 + DigitValue(s[i])]
<1>1. N \in Nat /\ init \in Scans(s)
  BY DEF Scans
<1>2. ASSUME NEW i \in 1..N, NEW prev \in Scans(s) PROVE next(i, prev) \in Scans(s)
  <2>1. CASE prev.len = i - 1 /\ IsDigit(s[i])
    <3> DEFINE d == DigitValue(s[i])
               v == prev.value * 10 + d
    <3>1. d \in 0..9 /\ (s[i] # "0" => d >= 1)
      BY <2>1, DigitType
    <3> HIDE DEF d
    <3>2. v \in Nat /\ (prev.value >= 1 => v >= 1) /\ (d >= 1 => v >= 1) /\ prev.len \in Nat
      BY <3>1 DEF Scans
    <3>3. i # 1 => prev.len >= 1
      BY <2>1, <3>2
    <3>4. s[1] # "0" => v >= 1
      BY <3>1, <3>2, <3>3 DEF Scans
    <3> HIDE DEF v
    <3>5. [len |-> i, value |-> v] \in Scans(s)
      BY <3>2, <3>4 DEF Scans
    <3> QED BY <3>5 DEF v, d
  <2>2. CASE ~(prev.len = i - 1 /\ IsDigit(s[i]))
    BY <2>2
  <2> QED BY <2>1, <2>2
<1>3. step \in [1..N -> [Scans(s) -> Scans(s)]] /\ \A i \in 1..N : \A prev \in Scans(s) : step[i][prev] = next(i, prev)
  BY <1>2
<1> HIDE DEF step
<1>4. PICK f \in [0..N -> Scans(s)] : f[0] = init /\ \A n \in 1..N : f[n] = step[n][f[n - 1]]
  <2> DEFINE R == Scans(s)
  <2>1. N \in Nat /\ init \in R /\ step \in Steps(N, R)
    BY <1>1, <1>3 DEF Steps
  <2> HIDE DEF N, init, R
  <2>2. \E f : Loops(f, N, R, init, step)
    BY <2>1, LoopExists
  <2> QED BY <2>2 DEF R, Loops
<1>5. f = [i \in 0..Len(s) |-> IF i = 0 THEN init ELSE next(i, f[i - 1])]
  <2>1. ASSUME NEW n \in 0..N, n # 0 PROVE step[n][f[n - 1]] = next(n, f[n - 1])
    <3>1. n \in 1..N /\ n - 1 \in 0..N
      BY <1>1, <2>1
    <3>2. f[n - 1] \in Scans(s)
      BY <1>4, <3>1
    <3> HIDE DEF next
    <3> QED BY <1>3, <3>1, <3>2
  <2>2. ASSUME NEW n \in 0..N PROVE f[n] = IF n = 0 THEN init ELSE next(n, f[n - 1])
    <3>1. n # 0 => n \in 1..N
      BY <1>1
    <3> HIDE DEF next, init, N
    <3> QED BY <1>4, <2>1, <3>1
  <2> HIDE DEF next, init
  <2> QED BY <1>4, <2>2
<1>6. scan = [i \in 0..Len(s) |-> IF i = 0 THEN init ELSE next(i, scan[i - 1])]
  BY <1>5
<1> HIDE DEF scan
<1>7. ScanDigits(s) = scan[Len(s)]
  BY DEF ScanDigits, scan
<1>8. scan[Len(s)] \in Scans(s)
  <2>1. N = Len(s)
    OBVIOUS
  <2>2. \A n \in 0..N : n # 0 /\ scan[n - 1] \in Scans(s) => scan[n] \in Scans(s)
    <3>1. ASSUME NEW n \in 0..N, n # 0, scan[n - 1] \in Scans(s) PROVE scan[n] \in Scans(s)
      <4>1. n \in 1..N
        BY <1>1, <3>1
      <4>2. scan[n] = next(n, scan[n - 1])
        BY <1>6, <3>1
      <4> QED BY <1>2, <3>1, <4>1, <4>2
    <3> QED BY <3>1
  <2>3. scan[0] \in Scans(s)
    BY <1>1, <1>6
  <2> DEFINE Bad == {n \in 0..N : scan[n] \notin Scans(s)}
  <2>4. Bad = {}
    <3> SUFFICES ASSUME Bad # {} PROVE FALSE
      OBVIOUS
    <3>a. Bad \in SUBSET Nat /\ \A m \in Bad : m \in 0..N /\ scan[m] \notin Scans(s)
      BY <1>1
    <3>b. \A m \in 0..N : m \notin Bad => scan[m] \in Scans(s)
      OBVIOUS
    <3>c. N \in Nat
      BY <1>1
    <3> HIDE DEF Bad, N
    <3>1. PICK m \in Bad : \A k \in Bad : m <= k
      BY <3>a, LeastNat
    <3>2. m # 0 /\ m \in 0..N /\ scan[m] \notin Scans(s)
      BY <2>3, <3>1, <3>a
    <3>3. m - 1 \in 0..N /\ scan[m - 1] \in Scans(s)
      BY <3>1, <3>2, <3>b, <3>c
    <3> QED BY <2>2, <3>2, <3>3
  <2> QED BY <1>1, <2>4
<1> QED BY <1>7, <1>8

\* An integer that a string is read as has an argument that is not negative.
LEMMA StringToIntType ==
  ASSUME NEW str \in Str, convert_string_to_int(str).ok
  PROVE  convert_string_to_int(str).value \in Nat
<1> DEFINE is_minus == str # << >> /\ str[1] = "-"
           digits == IF is_minus THEN Tail(str) ELSE str
           negative_fix == is_minus /\ str[Len(str)] = "6"
           taken == IF negative_fix THEN [digits EXCEPT ![Len(digits)] = "5"] ELSE digits
           scan == ScanDigits(taken)
           int == convert_string_to_int(str)
<1>1. digits \in Seq(Byte)
  BY DEF Str
<1>2. Len(digits) \in Nat /\ DOMAIN digits = 1..Len(digits) /\ \A i \in DOMAIN digits : digits[i] \in Byte
  BY <1>1
<1>3. taken \in Seq(Byte) /\ \A i \in DOMAIN digits : taken[i] \in {digits[i], "5"}
  <2>1. "5" \in Byte
    BY DEF Byte
  <2> HIDE DEF digits, negative_fix
  <2>a. digits \in [1..Len(digits) -> Byte] /\ Len(digits) \in Nat
    BY <1>1, <1>2
  <2> DEFINE n == Len(digits)
  <2> HIDE DEF n
  <2>2. [digits EXCEPT ![n] = "5"] \in [1..Len(digits) -> Byte]
    BY <2>1, <2>a
  <2>3. [digits EXCEPT ![Len(digits)] = "5"] \in Seq(Byte)
    BY <2>2, <2>a DEF n
  <2>4. \A i \in DOMAIN digits : [digits EXCEPT ![Len(digits)] = "5"][i] \in {digits[i], "5"}
    BY <1>2
  <2> QED BY <1>1, <2>3, <2>4
<1> HIDE DEF taken
<1>4. scan \in Scans(taken)
  BY <1>3, ScanType
<1> HIDE DEF scan
<1>5. scan.value \in Nat /\ scan.len \in Nat
  BY <1>4 DEF Scans
<1>6. CASE str[1] = "0"
  <2>1. int \in {NotInt, [NotInt EXCEPT !.ok = Len(str) = 1]}
    BY <1>6 DEF convert_string_to_int
  <2> QED BY <2>1 DEF NotInt
<1>7. CASE str[1] # "0"
  <2>1. /\ int = [ ok |-> TRUE, is_negative |-> is_minus,
                   value |-> IF is_minus /\ ~negative_fix THEN scan.value - 1 ELSE scan.value ]
        /\ is_minus => digits # << >> /\ digits[1] \notin {"-", "0"}
        /\ scan.len = Len(digits)
    BY <1>7 DEF convert_string_to_int, NotInt, scan, taken
  <2>2. is_minus => scan.value >= 1
    <3> HAVE is_minus
    <3>1. digits # << >> /\ digits[1] \notin {"-", "0"}
      BY <2>1
    <3> HIDE DEF digits
    <3>2. Len(digits) >= 1 /\ 1 \in DOMAIN digits
      BY <1>1, <3>1
    <3>3. taken[1] # "0"
      BY <1>3, <3>1, <3>2
    <3> QED BY <1>4, <2>1, <3>2, <3>3 DEF Scans
  <2> HIDE DEF is_minus, negative_fix
  <2>3. int.value = IF is_minus /\ ~negative_fix THEN scan.value - 1 ELSE scan.value
    BY <2>1
  <2> QED BY <1>5, <2>2, <2>3
<1> QED BY <1>6, <1>7

-----------------------------------------------------------------------------
(* Types: strings, keys and arguments.                                      *)

\* The decimal notation of an integer is a string.
LEMMA DecimalType == ASSUME NEW m PROVE Decimal(m) \in Str
<1> DEFINE S == {d \in 1..(MaxDigits - 1) : m >= 10^d}
           D(place) == {d \in 1..9 : (m \div 10^place) % 10 >= d}
           width == Cardinality(S) + 1
<1>1. IsFiniteSet(1..(MaxDigits - 1)) /\ IsFiniteSet(1..9) /\ Cardinality(1..9) = 9
  <2>1. MaxDigits - 1 \in Int /\ 1 \in Int /\ 9 \in Int
    BY NumberAssumption
  <2>2. IsFiniteSet(1..(MaxDigits - 1))
    BY <2>1, FS_Interval
  <2>3. IsFiniteSet(1..9) /\ Cardinality(1..9) = IF 1 > 9 THEN 0 ELSE 9 - 1 + 1
    BY <2>1, FS_Interval
  <2> QED BY <2>2, <2>3
<1>2. IsFiniteSet(S)
  BY <1>1, FS_Subset
<1>3. width \in Nat
  BY <1>2, FS_CardinalityType
<1>4. ASSUME NEW place PROVE Digit[Cardinality(D(place)) + 1] \in Byte
  <2>1. IsFiniteSet(D(place)) /\ Cardinality(D(place)) <= 9
    BY <1>1, FS_Subset
  <2>2. Cardinality(D(place)) \in 0..9
    BY <2>1, FS_CardinalityType
  <2> DEFINE x == Cardinality(D(place))
  <2> HIDE DEF x
  <2>3. ASSUME x \in 0..9 PROVE Digit[x + 1] \in Byte
    <3>1. \A i \in 1..10 : Digit[i] \in Byte
      BY DEF Digit, Byte
    <3> QED BY <2>3, <3>1
  <2> QED BY <2>2, <2>3 DEF x
<1> HIDE DEF width, D
<1>5. [i \in 1..width |-> Digit[Cardinality(D(width - i)) + 1]] \in Seq(Byte)
  BY <1>3, <1>4
<1> QED BY <1>5 DEF Decimal, width, D, Str

\* cbor_int_to_str makes a string.
LEMMA IntToStrType == ASSUME NEW n PROVE IntToStr(n) \in Str
<1>1. Decimal(n) \in Str /\ Decimal(-n) \in Str
  BY DecimalType
<1>2. <<"-">> \in Seq(Byte)
  BY DEF Byte
<1>3. \A s \in Str : <<"-">> \o s \in Str
  BY <1>2, ConcatProperties DEF Str
<1> QED BY <1>1, <1>3 DEF IntToStr

\* What a function that writes strings returns
StringResults == [error : Error, toks : Seq(Token), srns : Srns]

LEMMA StringResultType ==
  ASSUME NEW e \in Error, NEW toks \in Seq(Token), NEW tables \in Srns
  PROVE  StringResult(e, toks, tables) \in StringResults
  BY DEF StringResult, StringResults

LEMMA ItemsTypes ==
  /\ << >> \in Seq(Token)
  /\ \A x \in Token : <<x>> \in Seq(Token)
  /\ \A x \in Token, y \in Token : <<x, y>> \in Seq(Token)
  /\ \A x \in Token, y \in Token, z \in Token : <<x, y, z>> \in Seq(Token)
  /\ \A b \in Seq(Token), x \in Token : Append(b, x) \in Seq(Token)
  /\ \A b \in Seq(Token), t \in Seq(Token) : b \o t \in Seq(Token)
<1>1. \A b \in Seq(Token), t \in Seq(Token) : b \o t \in Seq(Token)
  BY ConcatProperties
<1> HIDE DEF Token
<1>2. \A b \in Seq(Token), x \in Token : Append(b, x) \in Seq(Token)
  BY AppendProperties
<1>3. /\ << >> \in Seq(Token)
      /\ \A x \in Token : <<x>> \in Seq(Token)
      /\ \A x \in Token, y \in Token : <<x, y>> \in Seq(Token)
  OBVIOUS
<1>4. \A x \in Token, y \in Token, z \in Token : <<x, y, z>> \in Seq(Token)
  OBVIOUS
<1> QED BY <1>1, <1>2, <1>3, <1>4

LEMMA StringType ==
  ASSUME srns \in Srns, NEW s \in Str, NEW to_text \in BOOLEAN
  PROVE  enc_string(s, to_text) \in StringResults
<1> DEFINE found == {i \in DOMAIN srns.tab : srns.tab[i] = TableEntry(s, to_text)}
           isNew == srns.on /\ cbor_is_len_string_ref(Len(s), Len(srns.tab))
           added == [srns EXCEPT !.tab = Append(@, TableEntry(s, to_text))]
           tables == IF isNew THEN added ELSE srns
           index == (CHOOSE i \in found : TRUE) - 1
           ref == <<WriteInt("tag", TagStringRef), WriteInt("uint", index)>>
           item == <<WriteString(to_text, s)>>
<1>1. {"none", "INTERNAL", "UTF8"} \subseteq Error
  BY DEF Error
<1>2. srns.tab \in Seq([text : BOOLEAN, s : Str])
  BY DEF Srns
<1>3. added \in Srns
  <2>1. TableEntry(s, to_text) \in [text : BOOLEAN, s : Str]
    BY DEF TableEntry
  <2> DEFINE E == [text : BOOLEAN, s : Str]
             e == TableEntry(s, to_text)
  <2>2. srns \in [on : BOOLEAN, tab : Seq(E)] /\ e \in E
    BY <2>1 DEF Srns
  <2> HIDE DEF E, e
  <2>3. [srns EXCEPT !.tab = Append(@, e)] \in [on : BOOLEAN, tab : Seq(E)]
    BY <2>2
  <2> QED BY <2>3 DEF E, e, Srns
<1> HIDE DEF added
<1>4. tables \in Srns
  BY <1>3
<1>5. ASSUME found # {} PROVE ref \in Seq(Token)
  <2>1. (CHOOSE i \in found : TRUE) \in DOMAIN srns.tab
    BY <1>5
  <2>2. \A i \in DOMAIN srns.tab : i - 1 \in Nat
    BY <1>2
  <2>3. index \in Nat
    <3> HIDE DEF found
    <3> QED BY <2>1, <2>2
  <2>4. TagStringRef \in Nat /\ "tag" \in TokenType /\ "uint" \in TokenType
    BY DEF TagStringRef, TokenType
  <2> HIDE DEF index
  <2> QED BY <2>3, <2>4, ItemTypes, ItemsTypes
<1>6. item \in Seq(Token) /\ << >> \in Seq(Token)
  BY ItemTypes, ItemsTypes
<1>7. enc_string(s, to_text) =
        IF srns.on /\ found # {} THEN StringResult("none", ref, srns)
        ELSE IF isNew /\ Len(srns.tab) = Uint32Max THEN StringResult("INTERNAL", << >>, srns)
        ELSE IF to_text /\ ~Has("UNSAFE_TEXT") /\ ~IsUtf8(s) THEN StringResult("UTF8", << >>, tables)
        ELSE StringResult("none", item, tables)
  BY DEF enc_string, added
<1> HIDE DEF found, isNew, tables, ref, item
<1> QED BY <1>1, <1>4, <1>5, <1>6, <1>7, StringResultType

LEMMA KeyType ==
  ASSUME srns \in Srns, NEW key \in Value
  PROVE  EncKey(key) \in StringResults
<1> DEFINE int == convert_string_to_int(key.s)
           str == IF key.k = "str" THEN key.s ELSE IntToStr(key.n)
           long == <<WriteLong(key.n)>>
           head == <<WriteInt(IF int.is_negative THEN "nint" ELSE "uint", int.value)>>
<1>1. {"none", "INVALID_FLAGS"} \subseteq Error /\ << >> \in Seq(Token)
  BY ItemsTypes DEF Error
<1>2. key.n \in Int /\ key.s \in Str
  BY DEF Value
<1>3. str \in Str
  BY <1>2, IntToStrType
<1>4. enc_string(str, Has("KEY_TEXT")) \in StringResults
  <2>1. Has("KEY_TEXT") \in BOOLEAN
    BY DEF Has
  <2> HIDE DEF str
  <2> QED BY <1>3, <2>1, StringType
<1>5. long \in Seq(Token)
  BY <1>2, NumberTypes, ItemsTypes
<1>6. ASSUME int.ok PROVE head \in Seq(Token)
  <2>1. int.value \in Nat
    BY <1>2, <1>6, StringToIntType
  <2>2. "nint" \in TokenType /\ "uint" \in TokenType
    BY DEF TokenType
  <2> HIDE DEF int
  <2> QED BY <2>1, <2>2, ItemTypes, ItemsTypes
<1>7. EncKey(key) =
        IF Has("INT_KEY") /\ key.k = "long" THEN StringResult("none", long, srns)
        ELSE IF Has("INT_KEY") /\ int.ok THEN StringResult("none", head, srns)
        ELSE IF ~(Has("KEY_BYTE") \/ Has("KEY_TEXT")) THEN StringResult("INVALID_FLAGS", << >>, srns)
        ELSE enc_string(str, Has("KEY_TEXT"))
  BY DEF EncKey
<1> HIDE DEF int, str, long, head
<1> QED BY <1>1, <1>4, <1>5, <1>6, <1>7, StringResultType

LEMMA CheckedType ==
  ASSUME NEW a \in Args, CheckParams(a).ok
  PROVE  CheckParams(a).v \in Args
<1> DEFINE more == IF "CDE" \in a.u_flags THEN {"FLOAT16", "FLOAT32", "MAP_NO_DUP_KEY"} ELSE {}
<1>1. CheckParams(a).v = [a EXCEPT !.e_flags = a.u_flags \cup more]
  BY DEF CheckParams, Set, Invalid
<1>2. a.u_flags \cup more \in SUBSET Flag
  BY DEF Args, Flag
<1> HIDE DEF more
<1> QED BY <1>1, <1>2 DEF Args

LEMMA OverriddenType ==
  ASSUME args \in Args, NEW par \in Params
  PROVE  OverriddenArgs(par) \in Args
<1>1. MutexFlags(par.set) \subseteq Flag
  BY DEF MutexFlags, Flag
<1>2. ((args.u_flags \ par.clear) \ MutexFlags(par.set)) \cup par.set \in SUBSET Flag
  BY DEF Args, Params
<1>3. (args.ext \cup par.on) \ par.off \in SUBSET ExtOption
  BY DEF Args, Params
<1> HIDE DEF MutexFlags
<1> QED BY <1>2, <1>3 DEF OverriddenArgs, Args

\* The arguments of a call
LEMMA CallArgsType ==
  ASSUME GraphsTyped, call \in Calls, CallArgs.ok
  PROVE  CallArgs.v \in Args
<1> DEFINE opts == call.options
           o == cbor_set_encode_options(opts)
           max_depth == uint32_option(64, opts.max_depth, MaxDepthLimit)
           string_ref == bool_n_option("false", opts.string_ref, <<"explicit">>)
           shared_ref == bool_n_option("false", opts.shared_ref, <<"-", "-", "unsafe_ref">>)
           ext == cbor_override_encode_options(ExtOption, opts)
           a == [ u_flags |-> call.flags, e_flags |-> {}, max_depth |-> o.v.max_depth,
                  string_ref |-> o.v.string_ref, shared_ref |-> o.v.shared_ref, ext |-> o.v.ext ]
<1>1. /\ opts.max_depth \in OptVal /\ opts.string_ref \in OptVal /\ opts.shared_ref \in OptVal
      /\ call.flags \in SUBSET Flag
  BY DEF GraphsTyped, OptionName
<1>2. o = [ ok |-> max_depth.ok /\ string_ref.ok /\ shared_ref.ok /\ ext.ok,
            v |-> [ max_depth |-> max_depth.v, string_ref |-> string_ref.v,
                    shared_ref |-> shared_ref.v, ext |-> ext.v ] ]
  BY DEF cbor_set_encode_options
<1>3. o.ok /\ CheckParams(a).ok /\ CallArgs.v = CheckParams(a).v
  BY DEF CallArgs, Invalid
<1>4. max_depth.ok => max_depth.v \in Nat
  <2>1. opts.max_depth.n % (OptUint32Max + 1) \in Nat
    <3> DEFINE n == opts.max_depth.n
    <3>1. n \in Int /\ OptUint32Max + 1 \in Nat \ {0}
      BY <1>1, OptionsAssumption DEF OptVal
    <3> HIDE DEF n
    <3> QED BY <3>1 DEF n
  <2>2. 64 \in Nat
    OBVIOUS
  <2> QED BY <2>1, <2>2 DEF uint32_option, Set, Invalid
<1>5. string_ref.ok => string_ref.v \in {"false", "true", "explicit"}
  <2>1. \A i \in DOMAIN <<"explicit">> : <<"explicit">>[i] = "explicit"
    OBVIOUS
  <2> QED BY <2>1 DEF bool_n_option, Set, Invalid
<1>6. shared_ref.ok => shared_ref.v \in {"false", "true", "unsafe_ref"}
  <2>1. \A i \in DOMAIN <<"-", "-", "unsafe_ref">> : <<"-", "-", "unsafe_ref">>[i] \in {"-", "unsafe_ref"}
    OBVIOUS
  <2> QED BY <2>1 DEF bool_n_option, Set, Invalid
<1>7. ext.v \in SUBSET ExtOption
  BY DEF cbor_override_encode_options
<1> HIDE DEF max_depth, string_ref, shared_ref, ext, opts
<1>8. a \in Args
  <2>0. o.ok
    BY <1>3
  <2>1. max_depth.ok /\ string_ref.ok /\ shared_ref.ok
    BY <2>0 DEF cbor_set_encode_options, max_depth, string_ref, shared_ref
  <2>2. /\ o.v.max_depth \in Nat /\ o.v.string_ref \in {"false", "true", "explicit"}
        /\ o.v.shared_ref \in {"false", "true", "unsafe_ref"} /\ o.v.ext \in SUBSET ExtOption
    BY <1>2, <1>4, <1>5, <1>6, <1>7, <2>1
  <2> DEFINE f == call.flags
  <2>3. f \in SUBSET Flag /\ {} \in SUBSET Flag
    BY <1>1
  <2> HIDE DEF o, f
  <2>4. [ u_flags |-> f, e_flags |-> {}, max_depth |-> o.v.max_depth,
          string_ref |-> o.v.string_ref, shared_ref |-> o.v.shared_ref, ext |-> o.v.ext ] \in Args
    BY <2>2, <2>3 DEF Args
  <2> QED BY <2>4 DEF f
<1> HIDE DEF a
<1> QED BY <1>3, <1>8, CheckedType

-----------------------------------------------------------------------------
(* Types: the inductive invariant.                                          *)

Loaded(fr) == \A j \in DOMAIN fr.ht : Unsigned(fr.ht[j].v)

DataTyped ==
  /\ error \in Error /\ exception \in {"none", "user", "cbor"}
  /\ val \in Value /\ Unsigned(val) /\ is_ref \in BOOLEAN
  /\ args \in Args /\ buf \in Seq(Token) /\ srns \in Srns

FramesTyped == stack \in Seq(Frame) /\ \A i \in DOMAIN stack : Loaded(stack[i])

\* Errors leave cur_depth at least where it was.
DepthTyped ==
  /\ pc = "ret" => cur_depth >= Depth
  /\ pc = "end" => cur_depth \in Nat

HeapTyped == heap = [a \in DOMAIN heap |-> heap[a]]

Typed == DataTyped /\ FramesTyped /\ DepthTyped /\ HeapTyped

\* What holds before a step, and what is known of the state after it
TypedSetting == Setting /\ GraphsTyped /\ Typed /\ IInv' /\ Counted' /\ call' = call

\* What the classes keep does not depend on the counts.
LEMMA HoldsSame ==
  ASSUME NEW old, NEW new, Holds(old), new.c = old.c, new.ent = old.ent
  PROVE  Holds(new)
  BY DEF Holds

\* The nodes of the heap are those of the call and those that methods make.
LEMMA NodeTyped ==
  ASSUME Setting, GraphsTyped, NEW a \in DOMAIN heap
  PROVE  heap[a] \in SrcNode /\ Holds(heap[a]) /\ a \in Nat /\ a # 0 /\ a \in Addr
<1>1. Owned(heap, ref_lock, stack, call.heap) /\ GraphOK(call.heap)
  BY SettingFacts
<1>2. heap[a] \in SrcNode /\ a \in Nat /\ a # 0 /\ a \in Addr
  BY SettingFacts, OwnedNodes
<1>3. CASE a \in DOMAIN call.heap
  <2> DEFINE r == call.heap[a]
             k == Owners(a, ref_lock, stack, call.heap)
  <2>1. heap[a] = [r EXCEPT !.rc = r.rc + k]
    BY <1>1, <1>3 DEF Owned
  <2>2. r \in SrcNode /\ Holds(r)
    BY <1>1, <1>3 DEF GraphOK, IsHeap, GraphsTyped, Setting
  <2> HIDE DEF r, k
  <2>3. heap[a].c = r.c /\ heap[a].ent = r.ent
    BY <2>1, <2>2 DEF SrcNode
  <2> QED BY <1>2, <2>2, <2>3, HoldsSame
<1>4. CASE a \notin DOMAIN call.heap
  <2> DEFINE k == Owners(a, ref_lock, stack, call.heap)
  <2> PICK node \in Fresh : heap[a] = [node EXCEPT !.rc = k]
    BY <1>1, <1>4 DEF Owned
  <2>1. node \in SrcNode /\ Holds(node)
    BY SettingFacts DEF FreshOwned, GraphsTyped
  <2> HIDE DEF k
  <2>2. heap[a].c = node.c /\ heap[a].ent = node.ent
    BY <2>1 DEF SrcNode
  <2> QED BY <1>2, <2>1, <2>2, HoldsSame
<1> QED BY <1>3, <1>4

\* The entries of a node
LEMMA EntryTyped ==
  ASSUME NEW node \in SrcNode, Holds(node), NEW i \in DOMAIN node.ent
  PROVE  /\ node.ent[i].key \in Value /\ node.ent[i].v \in Value /\ Unsigned(node.ent[i].v)
<1>1. node.ent \in Seq(Entry)
  BY DEF SrcNode
<1>2. node.ent[i] \in Entry
  <2> HIDE DEF Entry
  <2> QED BY <1>1
<1> QED BY <1>2 DEF Entry, Holds

-----------------------------------------------------------------------------
(* Types: the stack and the depth.                                          *)

LEMMA NewFrameType ==
  ASSUME Typed, NEW type \in FrameType, NEW n \in Nat
  PROVE  NewFrame(type, n) \in Frame /\ Loaded(NewFrame(type, n))
<1>1. << >> \in Seq(Bucket) /\ << >> \in Seq(Token) /\ 0 \in Nat /\ -1 \in Int
  OBVIOUS
<1>2. args \in Args /\ srns \in Srns
  BY DEF Typed, DataTyped
<1>3. NewFrame(type, n) \in Frame
  BY <1>1, <1>2 DEF NewFrame, Frame
<1>4. NewFrame(type, n).ht = << >>
  BY DEF NewFrame
<1> QED BY <1>3, <1>4 DEF Loaded

LEMMA PushTyped ==
  ASSUME Typed, NEW fr \in Frame, Loaded(fr), stack' = Append(stack, fr)
  PROVE  FramesTyped'
<1>1. stack \in Seq(Frame) /\ \A i \in DOMAIN stack : Loaded(stack[i])
  BY DEF Typed, FramesTyped
<1> HIDE DEF Frame
<1>2. Append(stack, fr) \in Seq(Frame)
  BY <1>1
<1>3. \A i \in DOMAIN Append(stack, fr) : Append(stack, fr)[i] = fr \/ (i \in DOMAIN stack /\ Append(stack, fr)[i] = stack[i])
  BY <1>1
<1>4. \A i \in DOMAIN Append(stack, fr) : Loaded(Append(stack, fr)[i])
  BY <1>1, <1>3
<1> QED BY <1>2, <1>4 DEF FramesTyped, Loaded

LEMMA BelowTyped ==
  ASSUME Typed, stack # << >>
  PROVE  /\ Below \in Seq(Frame) /\ \A i \in DOMAIN Below : Loaded(Below[i])
         /\ Top \in Frame /\ Loaded(Top)
<1>1. stack \in Seq(Frame) /\ \A i \in DOMAIN stack : Loaded(stack[i])
  BY DEF Typed, FramesTyped
<1>2. IsSeq(stack) /\ Len(stack) \in Nat /\ Len(stack) >= 1 /\ DOMAIN stack = 1..Len(stack)
  BY <1>1 DEF IsSeq
<1>3. /\ IsSeq(Below) /\ DOMAIN Below = 1..(Len(stack) - 1) /\ Len(Below) = Len(stack) - 1
      /\ \A i \in 1..(Len(stack) - 1) : Below[i] = stack[i]
  BY <1>2, PopFacts DEF Below
<1> HIDE DEF Frame
<1>4. \A i \in DOMAIN Below : i \in DOMAIN stack /\ Below[i] = stack[i] /\ Below[i] \in Frame
  BY <1>1, <1>2, <1>3
<1>5. Below \in Seq(Frame)
  <2> DEFINE b == Below
  <2>1. b \in Seq(Frame)
    <3>1. IsSeq(b) /\ \A i \in DOMAIN b : b[i] \in Frame
      BY <1>3, <1>4
    <3> HIDE DEF b
    <3> PICK S : b \in Seq(S)
      BY <3>1 DEF IsSeq
    <3> QED BY <3>1
  <2> QED BY <2>1
<1>6. Top \in Frame /\ Loaded(Top)
  BY <1>1, <1>2 DEF Top
<1> QED BY <1>1, <1>4, <1>5, <1>6

LEMMA PopTyped == ASSUME Typed, stack # << >>, stack' = Below PROVE FramesTyped'
  BY BelowTyped DEF FramesTyped, Loaded

LEMMA ReplaceTyped ==
  ASSUME Typed, stack # << >>, NEW fr \in Frame, Loaded(fr), stack' = Append(Below, fr)
  PROVE  FramesTyped'
<1> DEFINE b == Below
<1>1. b \in Seq(Frame) /\ \A i \in DOMAIN b : Loaded(b[i])
  BY BelowTyped
<1>2. stack' = Append(b, fr)
  OBVIOUS
<1> HIDE DEF b, Frame
<1>3. stack' \in Seq(Frame)
  BY <1>1, <1>2
<1>4. \A i \in DOMAIN stack' : stack'[i] = fr \/ (i \in DOMAIN b /\ stack'[i] = b[i])
  BY <1>1, <1>2
<1> QED BY <1>1, <1>3, <1>4 DEF FramesTyped, Loaded

\* One function less
LEMMA DepthBelow ==
  ASSUME IInv, stack # << >>, stack' = Below
  PROVE  Depth \in Nat /\ Depth' \in Nat /\ Depth' = Depth - (IF InZval(Top) THEN 1 ELSE 0)
<1> DEFINE N == Len(stack)  M == Len(stack) - 1
           B == {i \in DOMAIN stack : InZval(stack[i])}
           A == {i \in DOMAIN stack' : InZval(stack'[i])}
<1>1. N \in Nat /\ N >= 1 /\ DOMAIN stack = 1..N
  BY StackFacts DEF IInv
<1>2. DOMAIN stack' = 1..M /\ \A i \in 1..M : stack'[i] = stack[i]
  BY PopView DEF IInv
<1>3. Top = stack[N] /\ M = N - 1
  BY DEF Top
<1> HIDE DEF N, M
<1>4. M \in Nat /\ N = M + 1 /\ \A i \in 1..M : i \in 1..N
  BY <1>1, <1>3
<1>5. A \in SUBSET (1..M) /\ B \in SUBSET (1..(M + 1)) /\ (M + 1 \in B <=> InZval(Top))
  BY <1>1, <1>2, <1>3, <1>4
<1>6. \A i \in 1..M : i \in A <=> i \in B
  BY <1>1, <1>2, <1>4 DEF InZval
<1>7. Depth = Cardinality(B) /\ Depth' = Cardinality(A)
  BY DEF Depth, InZval
<1> HIDE DEF A, B
<1>8. Cardinality(A) \in Nat /\ Cardinality(B) = Cardinality(A) + (IF M + 1 \in B THEN 1 ELSE 0)
  BY <1>4, <1>5, <1>6, CountNext
<1> HIDE DEF InZval
<1> QED BY <1>5, <1>7, <1>8

LEMMA DepthType == ASSUME IInv PROVE Depth \in Nat
<1> DEFINE A == {i \in DOMAIN stack : InZval(stack[i])}
<1>1. A \in SUBSET (1..Len(stack)) /\ Len(stack) \in Nat
  BY StackFacts DEF IInv
<1>2. Depth = Cardinality(A)
  BY DEF Depth
<1> HIDE DEF A
<1> QED BY <1>1, <1>2, PlacesCounted

\* What steps do to cur_depth
Undone ==
  \/ pc' # "ret"
  \/ error' # "DEPTH"
  \/ pc = "type" /\ stack' = stack /\ cur_depth' = cur_depth - 1
  \/ pc = "call" /\ stack' = stack /\ cur_depth' = cur_depth + 1
  \/ /\ pc = "ret" /\ stack # << >> /\ stack' = Below
     /\ cur_depth' = cur_depth - (IF InZval(Top) THEN 1 ELSE 0)

LEMMA DepthKept ==
  ASSUME TypedSetting, Undone, pc' # "end"
  PROVE  DepthTyped'
<1> SUFFICES ASSUME pc' = "ret" PROVE cur_depth' >= Depth'
  BY DEF DepthTyped
<1>1. IInv /\ IInv' /\ cur_depth \in Int /\ cur_depth' \in Int
  BY DEF TypedSetting, Setting, IInv, Shape
<1>2. CASE error' # "DEPTH"
  <2>1. cur_depth' = Depth'
    BY <1>1, <1>2 DEF IInv, Depths
  <2> QED BY <1>1, <2>1
<1>3. CASE pc = "type" /\ stack' = stack /\ cur_depth' = cur_depth - 1
  <2>1. cur_depth = Depth + 1 /\ Depth' = Depth /\ Depth \in Nat
    BY <1>1, <1>3, DepthType DEF IInv, Depths, Depth, InZval
  <2> QED BY <1>3, <2>1
<1>4. CASE pc = "call" /\ stack' = stack /\ cur_depth' = cur_depth + 1
  <2>1. cur_depth = Depth /\ Depth' = Depth /\ Depth \in Nat
    BY <1>1, <1>4, DepthType DEF IInv, Depths, Depth, InZval
  <2> QED BY <1>4, <2>1
<1>5. CASE /\ pc = "ret" /\ stack # << >> /\ stack' = Below
           /\ cur_depth' = cur_depth - (IF InZval(Top) THEN 1 ELSE 0)
  <2>1. Depth \in Nat /\ Depth' \in Nat /\ Depth' = Depth - (IF InZval(Top) THEN 1 ELSE 0)
    BY <1>1, <1>5, DepthBelow
  <2>2. cur_depth >= Depth
    BY <1>5 DEF TypedSetting, Typed, DepthTyped
  <2> HIDE DEF InZval
  <2> QED BY <1>1, <1>5, <2>1, <2>2
<1> QED BY <1>2, <1>3, <1>4, <1>5 DEF Undone

-----------------------------------------------------------------------------
(* Types: the invariant says more than TypeOK.                              *)

LEMMA TypedIsTypeOK ==
  ASSUME Setting, Typed
  PROVE  TypeOK
<1>1. IInv /\ Owned(heap, ref_lock, stack, call.heap) /\ IsSeq(stack) /\ FramesOK(stack, heap, call.heap)
  BY SettingFacts DEF Setting
<1>2. pc \in {"start", "call", "type", "ret", "end"} /\ cur_depth \in Int
  BY <1>1 DEF IInv, Shape
<1>3. refs \in Seq(Addr) /\ ref_lock \in Seq(Addr)
  BY SettingFacts
<1>4. IsHeap(heap)
  <2>1. DOMAIN heap \subseteq Addr
    BY <1>1 DEF Owned
  <2>2. \A a \in DOMAIN heap : heap[a] \in SrcNode
    BY <1>1, SettingFacts, OwnedNodes
  <2>3. heap = [a \in DOMAIN heap |-> heap[a]]
    BY DEF Typed, HeapTyped
  <2> QED BY <2>1, <2>2, <2>3 DEF IsHeap
<1>5. protected \subseteq Addr
  <2>1. protected = {stack[i].n : i \in {j \in DOMAIN stack : stack[j].f \in Protecting}}
    BY <1>1 DEF IInv, MarksMatchStack
  <2>2. ASSUME NEW i \in DOMAIN stack PROVE stack[i].n \in Addr
    <3>1. stack[i].n \in DOMAIN call.heap \/ (i > 1 /\ MadeBy(stack[i - 1], stack[i].n))
      BY <1>1 DEF FramesOK, Reached
    <3>2. stack[i].n \in DOMAIN heap
      BY <1>1, <3>1, FrameAlive
    <3> QED BY <1>1, <3>2 DEF Owned
  <2> QED BY <2>1, <2>2
<1>6. in_enc_params \in Nat
  BY <1>1, ParamsCounted
<1>7. cur_depth \in Nat
  <2>1. Depth \in Nat
    BY <1>1, DepthType
  <2>2. pc \in {"start", "call"} => cur_depth = Depth
    BY <1>1 DEF IInv, Depths
  <2>3. pc = "type" => cur_depth = Depth + 1
    BY <1>1 DEF IInv, Depths
  <2>4. (pc = "ret" => cur_depth >= Depth) /\ (pc = "end" => cur_depth \in Nat)
    BY DEF Typed, DepthTyped
  <2> QED BY <1>2, <2>1, <2>2, <2>3, <2>4
<1>8. DataTyped /\ stack \in Seq(Frame)
  BY DEF Typed, FramesTyped
<1> QED BY <1>2, <1>3, <1>4, <1>5, <1>6, <1>7, <1>8 DEF TypeOK, DataTyped

-----------------------------------------------------------------------------
(* Types: values and strings.                                               *)

\* What does not touch the stack or the heap
LEMMA SameFrames == ASSUME Typed, stack' = stack PROVE FramesTyped'
  BY DEF Typed, FramesTyped, Loaded

LEMMA SameHeap == ASSUME Typed, heap' = heap PROVE HeapTyped'
  BY DEF Typed, HeapTyped

\* What the steps leave alone, or change to something of the type
LEMMA DataStep ==
  ASSUME Typed, error' \in Error, exception' = exception \/ exception' \in {"none", "user", "cbor"},
         val' = val \/ (val' \in Value /\ Unsigned(val')), is_ref' \in BOOLEAN,
         args' = args \/ args' \in Args, buf' = buf \/ buf' \in Seq(Token),
         srns' = srns \/ srns' \in Srns
  PROVE  DataTyped'
<1> USE DEF Typed, DataTyped
<1> HIDE DEF Error, Token, Srns, Args, Value, Unsigned
<1> QED OBVIOUS

LEMMA TypedFacts ==
  ASSUME TypedSetting
  PROVE  /\ Setting /\ GraphsTyped /\ Typed /\ IInv /\ error \in Error /\ is_ref \in BOOLEAN
         /\ val \in Value /\ Unsigned(val) /\ args \in Args /\ srns \in Srns /\ buf \in Seq(Token)
  BY DEF TypedSetting, Typed, DataTyped, Setting

\* A value without entries to go through is written, or fails.
LEMMA LeafTyped ==
  ASSUME TypedSetting, pc = "type", UNCHANGED <<val, is_ref, args, stack, heap>>, NEW e \in Error,
         Encoded(e), exception' = exception \/ exception' = "user",
         buf' = buf \/ buf' \in Seq(Token), srns' = srns \/ srns' \in Srns
  PROVE  Typed'
<1>1. Typed /\ is_ref \in BOOLEAN
  BY TypedFacts
<1>2. error' \in Error /\ pc' = "ret" /\ cur_depth' = cur_depth - 1
  BY DEF Encoded
<1>3. DataTyped'
  BY <1>1, <1>2, DataStep
<1>4. FramesTyped' /\ HeapTyped'
  BY <1>1, SameFrames, SameHeap
<1>5. DepthTyped'
  BY <1>2, DepthKept DEF Undone
<1> QED BY <1>3, <1>4, <1>5 DEF Typed

\* The object the switch is at
LEMMA ObjectTyped ==
  ASSUME TypedSetting, pc = "type", val.k \in CountedKind
  PROVE  /\ val.n \in DOMAIN heap /\ heap[val.n] \in SrcNode /\ Holds(heap[val.n]) /\ Wraps(heap[val.n])
         /\ val.n \in Nat
         /\ \A i \in DOMAIN heap[val.n].ent :
              heap[val.n].ent[i].key \in Value /\ heap[val.n].ent[i].v \in Value /\ Unsigned(heap[val.n].ent[i].v)
<1>1. val.n \in DOMAIN heap /\ Wraps(heap[val.n]) /\ Setting /\ GraphsTyped
  BY TypedFacts, ValueFacts
<1>2. heap[val.n] \in SrcNode /\ Holds(heap[val.n]) /\ val.n \in Nat
  BY <1>1, NodeTyped
<1> QED BY <1>1, <1>2, EntryTyped

\* ... and what it holds
LEMMA ContentTyped ==
  ASSUME TypedSetting, pc = "type", val.k \in CountedKind, heap[val.n].ent # << >>
  PROVE  /\ Content \in Value /\ Unsigned(Content) /\ Content.s \in Str /\ Content.n \in Int
         /\ 1 \in DOMAIN heap[val.n].ent
<1>1. heap[val.n].ent \in Seq(Entry)
  BY ObjectTyped DEF SrcNode
<1>2. 1 \in DOMAIN heap[val.n].ent
  <2> HIDE DEF Entry
  <2> QED BY <1>1
<1>3. Content \in Value /\ Unsigned(Content)
  BY <1>2, ObjectTyped DEF Content
<1> QED BY <1>2, <1>3 DEF Value

LEMMA StringWritten ==
  ASSUME TypedSetting, NEW before \in Seq(Token), NEW s \in Str, NEW to_text \in BOOLEAN,
         EncString(before, s, to_text)
  PROVE  /\ \E e \in Error : Encoded(e)
         /\ buf' \in Seq(Token) /\ srns' \in Srns
<1> DEFINE r == enc_string(s, to_text)
<1>1. r \in StringResults
  BY TypedFacts, StringType
<1>2. buf' = (buf \o before) \o r.toks /\ srns' = r.srns /\ Encoded(r.error)
  BY DEF EncString
<1> HIDE DEF r
<1>3. r.toks \in Seq(Token) /\ r.srns \in Srns /\ r.error \in Error
  BY <1>1 DEF StringResults
<1>4. buf \o before \in Seq(Token)
  BY TypedFacts, ItemsTypes
<1>5. buf' \in Seq(Token)
  BY <1>2, <1>3, <1>4, ItemsTypes
<1> QED BY <1>2, <1>3, <1>5

LEMMA ScalarTyped == ASSUME TypedSetting, EncScalar PROVE Typed'
<1>1. /\ pc = "type" /\ val.k \in {"null", "bool", "long", "double", "undefobj"}
      /\ buf' = Append(buf, ScalarItem(val)) /\ Encoded("none")
      /\ UNCHANGED <<val, is_ref, args, stack, heap, exception, srns>>
  BY DEF EncScalar
<1>2. val.n \in Int /\ (val.k \in {"bool", "double"} => val.n \in Nat) /\ buf \in Seq(Token)
  BY TypedFacts DEF Value, Unsigned
<1>3. {"null", "bool", "undefined"} \subseteq TokenType /\ 0 \in Nat
  BY DEF TokenType
<1>4. ScalarItem(val) \in Token
  <2>1. CASE val.k = "null"
    BY <1>3, <2>1, ItemTypes DEF ScalarItem
  <2>2. CASE val.k = "bool"
    BY <1>2, <1>3, <2>2, ItemTypes DEF ScalarItem
  <2>3. CASE val.k = "long"
    BY <1>2, <2>3, NumberTypes DEF ScalarItem
  <2>4. CASE val.k = "double"
    BY <1>2, <2>4, NumberTypes DEF ScalarItem
  <2>5. CASE val.k = "undefobj"
    BY <1>3, <2>5, ItemTypes DEF ScalarItem
  <2> QED BY <1>1, <2>1, <2>2, <2>3, <2>4, <2>5
<1>5. buf' \in Seq(Token)
  BY <1>1, <1>2, <1>4, ItemsTypes
<1>6. "none" \in Error
  BY DEF Error
<1> QED BY <1>1, <1>5, <1>6, LeafTyped

LEMMA FloatxTyped == ASSUME TypedSetting, EncFloatx PROVE Typed'
<1> DEFINE size == IF heap[val.n].c = "Float16" \/ (Has("CDE") /\ FpSize(Content.n) = 2) THEN 2 ELSE 4
<1>1. /\ pc = "type" /\ val.k \in CountedKind /\ heap[val.n].c \in {"Float16", "Float32"}
      /\ buf' = Append(buf, WriteFloat(size, Content.n)) /\ Encoded("none")
      /\ UNCHANGED <<val, is_ref, args, stack, heap, exception, srns>>
  BY DEF EncFloatx, AtObject, CountedKind
<1>2. Content.n \in Nat
  BY <1>1, ObjectTyped DEF Holds, Content
<1>3. size \in {2, 4, 8}
  OBVIOUS
<1> HIDE DEF size
<1>4. buf' \in Seq(Token)
  BY <1>1, <1>2, <1>3, TypedFacts, ItemTypes, ItemsTypes
<1>5. "none" \in Error
  BY DEF Error
<1> QED BY <1>1, <1>4, <1>5, LeafTyped

LEMMA StrTyped == ASSUME TypedSetting, EncStr PROVE Typed'
<1>1. /\ pc = "type" /\ val.k = "str"
      /\ UNCHANGED <<val, is_ref, args, stack, heap, exception>>
  BY DEF EncStr
<1>2. val.s \in Str
  BY TypedFacts DEF Value
<1>3. "INVALID_FLAGS" \in Error /\ << >> \in Seq(Token) /\ Has("TEXT") \in BOOLEAN
  BY ItemsTypes DEF Error, Has
<1>4. CASE Encoded("INVALID_FLAGS") /\ UNCHANGED <<buf, srns>>
  BY <1>1, <1>3, <1>4, LeafTyped
<1>5. CASE EncString(<< >>, val.s, Has("TEXT"))
  BY <1>1, <1>2, <1>3, <1>5, StringWritten, LeafTyped
<1> QED BY <1>4, <1>5 DEF EncStr

LEMMA XStringTyped == ASSUME TypedSetting, EncXString PROVE Typed'
<1>1. /\ pc = "type" /\ val.k \in CountedKind /\ heap[val.n].c \in {"Byte", "Text"}
      /\ UNCHANGED <<val, is_ref, args, stack, heap, exception>>
  BY DEF EncXString, AtObject, CountedKind
<1>2. Content.s \in Str
  BY <1>1, ObjectTyped, ContentTyped DEF Holds
<1>3. << >> \in Seq(Token)
  BY ItemsTypes
<1>4. EncString(<< >>, Content.s, FALSE) \/ EncString(<< >>, Content.s, TRUE)
  BY DEF EncXString
<1> QED BY <1>1, <1>2, <1>3, <1>4, StringWritten, LeafTyped

-----------------------------------------------------------------------------
(* Types: the classes of other extensions.                                  *)

\* enc_bin_int
LEMMA IntWritten ==
  ASSUME TypedSetting, pc = "type", UNCHANGED <<val, is_ref, args, stack, heap, exception>>,
         NEW before \in Seq(Token), NEW v \in Value, v.k = "long" => v.n \in Nat,
         NEW negative \in BOOLEAN, BigInt(before, v, negative)
  PROVE  Typed'
<1> DEFINE head == WriteInt(IF negative THEN "nint" ELSE "uint", v.n)
           tag == WriteInt("tag", IF negative THEN 3 ELSE 2)
<1>1. {"nint", "uint", "tag"} \subseteq TokenType /\ "none" \in Error
  BY DEF TokenType, Error
<1>2. CASE v.k = "long" /\ buf' = buf \o Append(before, head) /\ Encoded("none") /\ UNCHANGED srns
  <2>1. head \in Token
    BY <1>1, <1>2, ItemTypes
  <2> HIDE DEF head
  <2>2. buf' \in Seq(Token)
    BY <1>2, <2>1, TypedFacts, ItemsTypes
  <2> QED BY <1>1, <1>2, <2>2, LeafTyped
<1>3. CASE EncString(Append(before, tag), v.s, FALSE)
  <2>1. tag \in Token
    <3>1. 2 \in Nat /\ 3 \in Nat
      OBVIOUS
    <3> QED BY <1>1, <3>1, ItemTypes
  <2> HIDE DEF tag
  <2>2. Append(before, tag) \in Seq(Token) /\ v.s \in Str
    BY <2>1, ItemsTypes DEF Value
  <2> QED BY <1>3, <2>2, StringWritten, LeafTyped
<1> QED BY <1>2, <1>3 DEF BigInt

LEMMA DateTimeTyped == ASSUME TypedSetting, EncDateTime PROVE Typed'
<1> DEFINE head == <<WriteInt("tag", 0)>>
<1>1. /\ pc = "type" /\ val.k \in CountedKind /\ heap[val.n].c = "DateTime"
      /\ UNCHANGED <<val, is_ref, args, stack, heap, exception>>
  BY DEF EncDateTime, AtExtension, AtObject, CountedKind
<1>2. Content.s \in Str
  BY <1>1, ObjectTyped, ContentTyped DEF Holds
<1>3. head \in Seq(Token) /\ "INTERNAL" \in Error
  BY ItemTypes, ItemsTypes DEF TokenType, Error
<1>4. CASE EncString(head, Content.s, TRUE)
  <2> HIDE DEF head
  <2> QED BY <1>1, <1>2, <1>3, <1>4, StringWritten, LeafTyped
<1>5. CASE Encoded("INTERNAL") /\ UNCHANGED <<buf, srns>>
  BY <1>1, <1>3, <1>5, LeafTyped
<1> QED BY <1>4, <1>5 DEF EncDateTime

LEMMA BignumTyped == ASSUME TypedSetting, EncBignum PROVE Typed'
<1>1. /\ pc = "type" /\ val.k \in CountedKind /\ heap[val.n].c = "GMP"
      /\ UNCHANGED <<val, is_ref, args, stack, heap, exception>>
      /\ BigInt(<< >>, Content, heap[val.n].num = 1)
  BY DEF EncBignum, AtExtension, AtObject, CountedKind
<1>2. Content \in Value /\ (Content.k = "long" => Content.n \in Nat)
  BY <1>1, ObjectTyped, ContentTyped DEF Holds, Content
<1>3. << >> \in Seq(Token) /\ (heap[val.n].num = 1) \in BOOLEAN
  BY ItemsTypes
<1> QED BY <1>1, <1>2, <1>3, IntWritten

LEMMA DecimalTyped == ASSUME TypedSetting, EncDecimal PROVE Typed'
<1> DEFINE exp == heap[val.n].ent[2].v
           isPlain == exp.n = 0 /\ Content.k = "long"
           fraction == <<WriteInt("tag", 4), WriteInt("array", 2), WriteLong(exp.n)>>
           before == IF isPlain THEN << >> ELSE fraction
<1>1. /\ pc = "type" /\ val.k \in CountedKind /\ heap[val.n].c = "Decimal"
      /\ UNCHANGED <<val, is_ref, args, stack, heap, exception>>
  BY DEF EncDecimal, AtExtension, AtObject, CountedKind
<1>2. heap[val.n] \in SrcNode /\ Len(heap[val.n].ent) >= 2
  BY <1>1, ObjectTyped DEF Holds
<1>3. 2 \in DOMAIN heap[val.n].ent /\ heap[val.n].ent # << >>
  <2>1. heap[val.n].ent \in Seq(Entry)
    BY <1>2 DEF SrcNode
  <2> HIDE DEF Entry
  <2> QED BY <1>2, <2>1
<1>4. /\ Content \in Value /\ Unsigned(Content) /\ (Content.k = "long" => Content.n \in Nat)
      /\ (Content.k = "double" => Content.n \in Nat)
  BY <1>1, <1>3, ObjectTyped, ContentTyped DEF Holds, Content, Unsigned
<1>5. exp.n \in Int
  BY <1>1, <1>3, ObjectTyped DEF Value
<1>6. before \in Seq(Token)
  <2>1. "tag" \in TokenType /\ "array" \in TokenType /\ 2 \in Nat /\ 4 \in Nat
    BY DEF TokenType
  <2>2. WriteInt("tag", 4) \in Token /\ WriteInt("array", 2) \in Token /\ WriteLong(exp.n) \in Token
    <3> HIDE DEF exp
    <3> QED BY <1>5, <2>1, ItemTypes, NumberTypes
  <2> HIDE DEF exp, isPlain
  <2> QED BY <2>2, ItemsTypes
<1>7. {"none", "UNSUPPORTED_VALUE"} \subseteq Error /\ (heap[val.n].num = 1) \in BOOLEAN
  BY DEF Error
<1>8. CASE Content.k = "double" /\ buf' = Append(buf, enc_z_double(Content.n)) /\ Encoded("none") /\ UNCHANGED srns
  <2>1. enc_z_double(Content.n) \in Token
    BY <1>4, <1>8, NumberTypes
  <2>2. buf' \in Seq(Token)
    BY <1>8, <2>1, TypedFacts, ItemsTypes
  <2> QED BY <1>1, <1>7, <1>8, <2>2, LeafTyped
<1>9. CASE Encoded("UNSUPPORTED_VALUE") /\ UNCHANGED <<buf, srns>>
  BY <1>1, <1>7, <1>9, LeafTyped
<1>10. CASE BigInt(before, Content, heap[val.n].num = 1)
  <2> HIDE DEF before
  <2> QED BY <1>1, <1>4, <1>6, <1>7, <1>10, IntWritten
<1> QED BY <1>8, <1>9, <1>10 DEF EncDecimal

LEMMA UriTyped == ASSUME TypedSetting, EncUri PROVE Typed'
<1> DEFINE head == <<WriteInt("tag", 32)>>
<1>1. /\ pc = "type" /\ val.k \in CountedKind /\ heap[val.n].c = "Uri"
      /\ UNCHANGED <<val, is_ref, args, stack, heap>>
  BY DEF EncUri, AtExtension, AtObject, CountedKind
<1>2. Content.s \in Str
  BY <1>1, ObjectTyped, ContentTyped DEF Holds
<1>3. head \in Seq(Token) /\ "EXCEPTION" \in Error
  BY ItemTypes, ItemsTypes DEF TokenType, Error
<1>4. CASE EncString(head, Content.s, TRUE) /\ UNCHANGED exception
  <2> HIDE DEF head
  <2> QED BY <1>1, <1>2, <1>3, <1>4, StringWritten, LeafTyped
<1>5. CASE Throw /\ Encoded("EXCEPTION") /\ UNCHANGED <<buf, srns>>
  BY <1>1, <1>3, <1>5, LeafTyped DEF Throw
<1> QED BY <1>4, <1>5 DEF EncUri

LEMMA UnsupportedTyped == ASSUME TypedSetting, EncUnsupported PROVE Typed'
<1>1. /\ pc = "type" /\ Encoded("UNSUPPORTED_TYPE")
      /\ UNCHANGED <<val, is_ref, args, stack, heap, exception, buf, srns>>
  BY DEF EncUnsupported, AtObject
<1>2. "UNSUPPORTED_TYPE" \in Error
  BY DEF Error
<1> QED BY <1>1, <1>2, LeafTyped

-----------------------------------------------------------------------------
(* Types: shared values.                                                    *)

LEMMA ZvalTyped == ASSUME TypedSetting, EncZval PROVE Typed'
<1>1. /\ pc = "call" /\ cur_depth' = cur_depth + 1 /\ is_ref' = FALSE
      /\ error' = error \/ error' = "DEPTH"
      /\ pc' \in {"ret", "type"}
      /\ UNCHANGED <<exception, val, stack, args, srns, buf, heap>>
  BY DEF EncZval
<1>2. Typed /\ error \in Error /\ "DEPTH" \in Error
  BY TypedFacts DEF Error
<1>3. DataTyped'
  BY <1>1, <1>2, DataStep
<1>4. FramesTyped' /\ HeapTyped'
  BY <1>1, <1>2, SameFrames, SameHeap
<1>5. DepthTyped'
  BY <1>1, DepthKept DEF Undone
<1> QED BY <1>3, <1>4, <1>5 DEF Typed

LEMMA RefItemsTyped ==
  ASSUME TypedSetting, NEW a, Indices(a) # {}
  PROVE  SharedRefItems(a) \in Seq(Token)
<1> DEFINE index == (CHOOSE i \in Indices(a) : TRUE) - 1
<1>1. refs \in Seq(Addr)
  BY TypedFacts, SettingFacts
<1>2. \A i \in DOMAIN refs : i - 1 \in Nat
  BY <1>1
<1>3. (CHOOSE i \in Indices(a) : TRUE) \in DOMAIN refs
  BY DEF Indices
<1>4. index \in Nat
  BY <1>2, <1>3
<1>5. TagSharedRef \in Nat /\ "tag" \in TokenType /\ "uint" \in TokenType
  BY DEF TagSharedRef, TokenType
<1>6. SharedRefItems(a) = <<WriteInt("tag", TagSharedRef), WriteInt("uint", index)>>
  BY DEF SharedRefItems
<1> HIDE DEF index
<1> QED BY <1>4, <1>5, <1>6, ItemTypes, ItemsTypes

LEMMA TagsTyped ==
  /\ WriteInt("tag", TagShareable) \in Token /\ WriteInt("tag", TagSelfDescribe) \in Token
  /\ WriteInt("tag", TagStringRefNs) \in Token
<1>1. "tag" \in TokenType /\ TagShareable \in Nat /\ TagSelfDescribe \in Nat /\ TagStringRefNs \in Nat
  BY DEF TokenType, TagShareable, TagSelfDescribe, TagStringRefNs
<1> QED BY <1>1, ItemTypes

LEMMA CountTyped ==
  ASSUME Typed, NEW a, heap' = AddRef(heap, a)
  PROVE  HeapTyped'
<1>1. heap = [b \in DOMAIN heap |-> heap[b]]
  BY DEF Typed, HeapTyped
<1> DEFINE r == [heap[a] EXCEPT !.rc = heap[a].rc + 1]
<1>2. heap' = [heap EXCEPT ![a] = r]
  BY DEF AddRef
<1> HIDE DEF r
<1>3. heap' = [b \in DOMAIN heap |-> IF b = a THEN r ELSE heap[b]]
  BY <1>1, <1>2
<1> QED BY <1>3 DEF HeapTyped

LEMMA ReferenceTyped == ASSUME TypedSetting, EncReference PROVE Typed'
<1>1. /\ pc = "type" /\ val.k = "ref" /\ val.k \in CountedKind
      /\ UNCHANGED <<exception, stack, args, srns>>
  BY DEF EncReference, CountedKind
<1>2. /\ Typed /\ is_ref \in BOOLEAN /\ "none" \in Error /\ error \in Error /\ val \in Value /\ Unsigned(val)
      /\ buf \in Seq(Token)
  BY TypedFacts DEF Error
<1>3. FramesTyped'
  BY <1>1, <1>2, SameFrames
<1>4. heap[val.n].ent # << >>
  <2>1. InGraph(val, call.heap)
    BY <1>1, TypedFacts DEF Setting, Counted, ReachInv, ValueIn
  <2>2. val.n \in DOMAIN call.heap /\ call.heap[val.n].c = "reference"
    BY <1>1, <2>1 DEF InGraph
  <2>3. heap[val.n].ent = call.heap[val.n].ent
    <3> DEFINE r == call.heap[val.n]
               k == Owners(val.n, ref_lock, stack, call.heap)
    <3>1. heap[val.n] = [r EXCEPT !.rc = r.rc + k]
      BY <2>2, TypedFacts, SettingFacts DEF Owned
    <3>2. r \in SrcNode
      BY <2>2, TypedFacts, SettingFacts DEF GraphOK, IsHeap
    <3> HIDE DEF k, r
    <3>3. heap[val.n].ent = r.ent
      BY <3>1, <3>2 DEF SrcNode
    <3> QED BY <3>3 DEF r
  <2>4. Wraps(call.heap[val.n])
    BY <2>2, TypedFacts, SettingFacts DEF GraphOK
  <2> QED BY <2>2, <2>3, <2>4 DEF Wraps, Wrapping
<1>5. Content \in Value /\ Unsigned(Content) /\ Deref(val) = Content
  BY <1>1, <1>4, ContentTyped DEF Deref, Content
<1>6. CASE /\ Indices(val.n) # {} /\ buf' = buf \o SharedRefItems(val.n) /\ Encoded("none")
           /\ UNCHANGED <<val, is_ref, refs, ref_lock, heap>>
  <2>1. buf' \in Seq(Token)
    BY <1>2, <1>6, RefItemsTyped, ItemsTypes
  <2> QED BY <1>1, <1>2, <1>6, <2>1, LeafTyped
<1>7. CASE /\ NewShareable(val.n) /\ buf' = Append(buf, WriteInt("tag", TagShareable))
           /\ val' = Deref(val) /\ is_ref' = TRUE /\ UNCHANGED <<pc, error, cur_depth>>
  <2>1. buf' \in Seq(Token)
    BY <1>2, <1>7, TagsTyped, ItemsTypes
  <2>2. heap' = AddRef(heap, val.n)
    BY <1>7 DEF NewShareable, Lock
  <2>3. HeapTyped'
    BY <1>2, <2>2, CountTyped
  <2>4. DataTyped'
    BY <1>1, <1>2, <1>5, <1>7, <2>1, DataStep
  <2>5. DepthTyped'
    BY <1>1, <1>7, DepthKept DEF Undone
  <2> QED BY <1>3, <2>3, <2>4, <2>5 DEF Typed
<1>8. CASE val' = Deref(val) /\ is_ref' = TRUE /\ UNCHANGED <<pc, error, cur_depth, buf, refs, ref_lock, heap>>
  <2>1. HeapTyped'
    BY <1>2, <1>8, SameHeap
  <2>2. DataTyped'
    BY <1>1, <1>2, <1>5, <1>8, DataStep
  <2>3. DepthTyped'
    BY <1>1, <1>8, DepthKept DEF Undone
  <2> QED BY <1>3, <2>1, <2>2, <2>3 DEF Typed
<1> QED BY <1>6, <1>7, <1>8 DEF EncReference

\* A function is entered, or goes on to the next value, and nothing failed.
LEMMA CalledTyped ==
  ASSUME TypedSetting, FramesTyped', HeapTyped', error' = "none", UNCHANGED <<exception, is_ref>>,
         pc' \in {"call", "ret"},
         val' = val \/ (val' \in Value /\ Unsigned(val')), args' = args \/ args' \in Args,
         buf' = buf \/ buf' \in Seq(Token), srns' = srns \/ srns' \in Srns
  PROVE  Typed'
<1>1. Typed /\ is_ref \in BOOLEAN /\ "none" \in Error /\ "none" # "DEPTH"
  BY TypedFacts DEF Error
<1>2. DataTyped'
  BY <1>1, DataStep
<1>3. DepthTyped'
  BY <1>1, DepthKept DEF Undone
<1> QED BY <1>2, <1>3 DEF Typed

LEMMA ShareableTyped == ASSUME TypedSetting, EncShareable PROVE Typed'
<1>1. /\ pc = "type" /\ val.k \in CountedKind /\ heap[val.n].c = "Shareable"
      /\ UNCHANGED <<exception, is_ref, args, srns>>
  BY DEF EncShareable, AtObject, CountedKind
<1>2. /\ Typed /\ is_ref \in BOOLEAN /\ {"none", "INTERNAL", "TAG_VALUE"} \subseteq Error /\ buf \in Seq(Token)
  BY TypedFacts DEF Error
<1>3. val.n \in Nat /\ heap[val.n].ent # << >>
  BY <1>1, ObjectTyped DEF Wraps, Wrapping
<1>4. Content \in Value /\ Unsigned(Content)
  BY <1>1, <1>3, ContentTyped
<1>5. CASE Encoded("INTERNAL") /\ UNCHANGED <<val, stack, buf, refs, ref_lock, heap>>
  BY <1>1, <1>2, <1>5, LeafTyped
<1>6. CASE /\ Indices(val.n) # {} /\ buf' = buf \o SharedRefItems(val.n) /\ Encoded("none")
           /\ UNCHANGED <<val, stack, refs, ref_lock, heap>>
  <2>1. buf' \in Seq(Token)
    BY <1>2, <1>6, RefItemsTyped, ItemsTypes
  <2> QED BY <1>1, <1>2, <1>6, <2>1, LeafTyped
<1>7. ASSUME NewShareable(val.n), buf' = Append(buf, WriteInt("tag", TagShareable))
      PROVE  buf' \in Seq(Token) /\ HeapTyped'
  <2>1. buf' \in Seq(Token)
    BY <1>2, <1>7, TagsTyped, ItemsTypes
  <2>2. heap' = AddRef(heap, val.n)
    BY <1>7 DEF NewShareable, Lock
  <2> QED BY <1>2, <2>1, <2>2, CountTyped
<1>8. CASE /\ NewShareable(val.n) /\ buf' = Append(buf, WriteInt("tag", TagShareable))
           /\ Encoded("TAG_VALUE") /\ UNCHANGED <<val, stack>>
  <2>1. error' \in Error /\ pc' = "ret" /\ cur_depth' = cur_depth - 1
    BY <1>2, <1>8 DEF Encoded
  <2>2. DataTyped'
    BY <1>1, <1>2, <1>7, <1>8, <2>1, DataStep
  <2>3. FramesTyped'
    BY <1>2, <1>8, SameFrames
  <2>4. DepthTyped'
    BY <1>1, <1>8, <2>1, DepthKept DEF Undone
  <2> QED BY <1>7, <1>8, <2>2, <2>3, <2>4 DEF Typed
<1>9. CASE /\ NewShareable(val.n) /\ buf' = Append(buf, WriteInt("tag", TagShareable))
           /\ CallZval(Append(stack, NewFrame("shareable", val.n)), Content)
  <2>1. "shareable" \in FrameType
    BY DEF FrameType
  <2>2. NewFrame("shareable", val.n) \in Frame /\ Loaded(NewFrame("shareable", val.n))
    BY <1>2, <1>3, <2>1, NewFrameType
  <2>3. /\ stack' = Append(stack, NewFrame("shareable", val.n)) /\ val' = Content /\ error' = "none"
        /\ pc' = "call"
    BY <1>9 DEF CallZval
  <2>4. FramesTyped'
    BY <1>2, <2>2, <2>3, PushTyped
  <2> QED BY <1>1, <1>4, <1>7, <1>9, <2>3, <2>4, CalledTyped
<1> QED BY <1>5, <1>6, <1>8, <1>9 DEF EncShareable

-----------------------------------------------------------------------------
(* Types: the functions that are entered.                                   *)

LEMMA HeadTyped ==
  ASSUME NEW node \in SrcNode
  PROVE  HashHead(node) \in Token
<1>1. Len(node.ent) \in Nat /\ "array" \in TokenType /\ "map" \in TokenType
  BY DEF SrcNode, TokenType
<1> QED BY <1>1, ItemTypes DEF HashHead

LEMMA EnterHashTyped ==
  ASSUME TypedSetting, pc = "type", val.k \in CountedKind, NEW before \in Seq(Token), EnterHash(before),
         HeapTyped', UNCHANGED <<exception, val, is_ref, args, srns>>
  PROVE  Typed'
<1> DEFINE node == heap[val.n]
           head == IF InKeyOrder(node) THEN << >> ELSE <<HashHead(node)>>
<1>1. /\ Typed /\ is_ref \in BOOLEAN /\ {"none", "RECURSION"} \subseteq Error /\ buf \in Seq(Token)
      /\ val.n \in Nat /\ node \in SrcNode
  BY TypedFacts, ObjectTyped DEF Error
<1> HIDE DEF node
<1>2. HashHead(node) \in Token /\ head \in Seq(Token) /\ buf \o before \in Seq(Token)
  BY <1>1, HeadTyped, ItemsTypes
<1>3. ASSUME NEW e \in Error, Encoded(e), buf' \in Seq(Token), stack' = stack PROVE Typed'
  <2>1. error' \in Error /\ pc' = "ret" /\ cur_depth' = cur_depth - 1
    BY <1>3 DEF Encoded
  <2>2. DataTyped'
    BY <1>1, <1>3, <2>1, DataStep
  <2>3. FramesTyped'
    BY <1>1, <1>3, SameFrames
  <2>4. DepthTyped'
    BY <1>3, <2>1, DepthKept DEF Undone
  <2> QED BY <2>2, <2>3, <2>4 DEF Typed
<1>4. CASE buf' = buf \o before /\ Encoded("RECURSION") /\ UNCHANGED <<stack, protected>>
  BY <1>1, <1>2, <1>3, <1>4
<1>5. CASE Encoded("none") /\ buf' = buf \o Append(before, HashHead(node)) /\ UNCHANGED <<stack, protected>>
  <2>1. Append(before, HashHead(node)) \in Seq(Token)
    BY <1>2, ItemsTypes
  <2>2. buf' \in Seq(Token)
    BY <1>1, <1>5, <2>1, ItemsTypes
  <2> QED BY <1>1, <1>3, <1>5, <2>2
<1>6. CASE buf' = buf \o before \o head /\ GoOn(Append(stack, NewFrame("hash", val.n)))
  <2> HIDE DEF head
  <2>1. buf' \in Seq(Token)
    BY <1>2, <1>6, ItemsTypes
  <2>2. stack' = Append(stack, NewFrame("hash", val.n)) /\ error' = "none" /\ pc' = "ret"
    BY <1>6 DEF GoOn
  <2>3. "hash" \in FrameType
    BY DEF FrameType
  <2>4. NewFrame("hash", val.n) \in Frame /\ Loaded(NewFrame("hash", val.n))
    BY <1>1, <2>3, NewFrameType
  <2>5. FramesTyped'
    BY <1>1, <2>2, <2>4, PushTyped
  <2> QED BY <2>1, <2>2, <2>5, CalledTyped
<1> QED BY <1>4, <1>5, <1>6 DEF EnterHash, node

LEMMA ArrayTyped == ASSUME TypedSetting, EncArray PROVE Typed'
<1>1. /\ pc = "type" /\ val.k \in CountedKind /\ EnterHash(<< >>)
      /\ UNCHANGED <<exception, val, is_ref, args, srns, heap>>
  BY DEF EncArray, CountedKind
<1>2. HeapTyped' /\ << >> \in Seq(Token)
  BY <1>1, TypedFacts, SameHeap, ItemsTypes
<1> QED BY <1>1, <1>2, EnterHashTyped

LEMMA StdClassTyped == ASSUME TypedSetting, EncStdClass PROVE Typed'
<1>1. /\ pc = "type" /\ val.k \in CountedKind /\ UNCHANGED <<exception, val, is_ref, args, srns>>
  BY DEF EncStdClass, AtObject, CountedKind
<1>2. Typed /\ "none" \in Error /\ buf \in Seq(Token)
  BY TypedFacts DEF Error
<1>3. CASE /\ Indices(val.n) # {} /\ buf' = buf \o SharedRefItems(val.n) /\ Encoded("none")
           /\ UNCHANGED <<stack, refs, ref_lock, protected, heap>>
  <2>1. buf' \in Seq(Token)
    BY <1>2, <1>3, RefItemsTyped, ItemsTypes
  <2> QED BY <1>1, <1>2, <1>3, <2>1, LeafTyped
<1>4. CASE NewShareable(val.n) /\ EnterHash(<<WriteInt("tag", TagShareable)>>)
  <2>1. HeapTyped'
    BY <1>2, <1>4, CountTyped DEF NewShareable, Lock
  <2>2. <<WriteInt("tag", TagShareable)>> \in Seq(Token)
    BY TagsTyped, ItemsTypes
  <2> QED BY <1>1, <1>4, <2>1, <2>2, EnterHashTyped
<1>5. CASE EnterHash(<< >>) /\ UNCHANGED <<refs, ref_lock, heap>>
  <2>1. HeapTyped' /\ << >> \in Seq(Token)
    BY <1>2, <1>5, SameHeap, ItemsTypes
  <2> QED BY <1>1, <1>5, <2>1, EnterHashTyped
<1> QED BY <1>3, <1>4, <1>5 DEF EncStdClass

\* A frame that notes something
LEMMA FlagTyped ==
  ASSUME NEW fr \in Frame, Loaded(fr), NEW b \in BOOLEAN
  PROVE  [fr EXCEPT !.flag = b] \in Frame /\ Loaded([fr EXCEPT !.flag = b])
<1>1. [fr EXCEPT !.flag = b] \in Frame /\ [fr EXCEPT !.flag = b].ht = fr.ht
  BY DEF Frame
<1> QED BY <1>1 DEF Loaded

LEMMA PlaceTyped ==
  ASSUME NEW fr \in Frame, Loaded(fr), NEW n \in Nat
  PROVE  [fr EXCEPT !.i = n] \in Frame /\ Loaded([fr EXCEPT !.i = n])
<1>1. [fr EXCEPT !.i = n] \in Frame /\ [fr EXCEPT !.i = n].ht = fr.ht
  BY DEF Frame
<1> QED BY <1>1 DEF Loaded

LEMMA TagStepTyped == ASSUME TypedSetting, EncTag PROVE Typed'
<1> DEFINE node == heap[val.n]
           isNs == node.num = TagStringRefNs /\ args.string_ref # "false"
           fr == [NewFrame("tag", val.n) EXCEPT !.flag = isNs]
<1>1. /\ pc = "type" /\ val.k \in CountedKind /\ heap[val.n].c = "Tag"
      /\ buf' = IF node.num < 0 THEN buf ELSE Append(buf, WriteInt("tag", node.num))
      /\ UNCHANGED <<exception, is_ref, args, heap>>
  BY DEF EncTag, AtObject, CountedKind
<1>2. /\ Typed /\ is_ref \in BOOLEAN /\ TagError(node) \in Error /\ buf \in Seq(Token) /\ srns \in Srns
  BY TypedFacts DEF Error, TagError
<1>3. val.n \in Nat /\ heap[val.n].ent # << >> /\ node.num \in Int
  BY <1>1, ObjectTyped DEF Wraps, Wrapping, SrcNode
<1>4. Content \in Value /\ Unsigned(Content)
  BY <1>1, <1>3, ContentTyped
<1>5. buf' \in Seq(Token)
  <2>1. CASE node.num < 0
    BY <1>1, <1>2, <2>1
  <2>2. CASE ~(node.num < 0)
    <3>1. node.num \in Nat /\ "tag" \in TokenType
      <4> HIDE DEF node
      <4> QED BY <1>3, <2>2 DEF TokenType
    <3>2. WriteInt("tag", node.num) \in Token
      BY <3>1, ItemTypes
    <3> QED BY <1>1, <1>2, <2>2, <3>2, ItemsTypes
  <2> QED BY <2>1, <2>2
<1>6. CASE Encoded(TagError(node)) /\ UNCHANGED <<val, stack, srns>>
  BY <1>1, <1>2, <1>5, <1>6, LeafTyped
<1>7. CASE /\ srns' = IF isNs THEN NewSrns ELSE srns
           /\ CallZval(Append(stack, fr), Content)
  <2>1. srns' \in Srns
    <3>1. NewSrns \in Srns
      BY DEF NewSrns, Srns
    <3> HIDE DEF isNs
    <3> QED BY <1>2, <1>7, <3>1
  <2>2. "tag" \in FrameType /\ isNs \in BOOLEAN
    BY DEF FrameType
  <2>3. NewFrame("tag", val.n) \in Frame /\ Loaded(NewFrame("tag", val.n))
    BY <1>2, <1>3, <2>2, NewFrameType
  <2>4. fr \in Frame /\ Loaded(fr)
    <3> HIDE DEF isNs
    <3> QED BY <2>2, <2>3, FlagTyped
  <2>5. stack' = Append(stack, fr) /\ val' = Content /\ error' = "none" /\ pc' = "call"
    BY <1>7 DEF CallZval
  <2> HIDE DEF fr
  <2>6. FramesTyped'
    BY <1>2, <2>4, <2>5, PushTyped
  <2>7. HeapTyped'
    BY <1>1, <1>2, SameHeap
  <2> QED BY <1>1, <1>4, <1>5, <2>1, <2>5, <2>6, <2>7, CalledTyped
<1> QED BY <1>6, <1>7 DEF EncTag

LEMMA EncodeParamsTyped == ASSUME TypedSetting, EncEncodeParams PROVE Typed'
<1> DEFINE node == heap[val.n]
           shared == node.rc > 1
           fr == [NewFrame("encodeparams", val.n) EXCEPT !.flag = shared]
<1>1. /\ pc = "type" /\ val.k \in CountedKind /\ heap[val.n].c = "EncodeParams"
      /\ UNCHANGED <<exception, is_ref, srns, buf, heap>>
  BY DEF EncEncodeParams, AtObject, CountedKind
<1>2. Typed /\ is_ref \in BOOLEAN /\ ParamsError(node.par) \in Error /\ args \in Args
  BY TypedFacts DEF Error, ParamsError
<1>3. val.n \in Nat /\ heap[val.n].ent # << >> /\ node.par \in Params
  BY <1>1, ObjectTyped DEF Wraps, Wrapping, SrcNode
<1>4. Content \in Value /\ Unsigned(Content)
  BY <1>1, <1>3, ContentTyped
<1>5. CASE Encoded(ParamsError(node.par)) /\ UNCHANGED <<val, stack, args, in_enc_params, protected>>
  BY <1>1, <1>2, <1>5, LeafTyped
<1>6. CASE /\ ParamsError(node.par) = "none"
           /\ args' = CheckParams(OverriddenArgs(node.par)).v
           /\ CallZval(Append(stack, fr), Content)
  <2>1. CheckParams(OverriddenArgs(node.par)).ok
    BY <1>6 DEF ParamsError
  <2>2. args' \in Args
    BY <1>2, <1>3, <1>6, <2>1, OverriddenType, CheckedType
  <2>3. "encodeparams" \in FrameType /\ shared \in BOOLEAN
    BY DEF FrameType
  <2>4. NewFrame("encodeparams", val.n) \in Frame /\ Loaded(NewFrame("encodeparams", val.n))
    BY <1>2, <1>3, <2>3, NewFrameType
  <2>5. fr \in Frame /\ Loaded(fr)
    <3> HIDE DEF shared
    <3> QED BY <2>3, <2>4, FlagTyped
  <2>6. stack' = Append(stack, fr) /\ val' = Content /\ error' = "none" /\ pc' = "call"
    BY <1>6 DEF CallZval
  <2> HIDE DEF fr
  <2>7. FramesTyped'
    BY <1>2, <2>5, <2>6, PushTyped
  <2>8. HeapTyped'
    BY <1>1, <1>2, SameHeap
  <2> QED BY <1>1, <1>4, <2>2, <2>6, <2>7, <2>8, CalledTyped
<1> QED BY <1>5, <1>6 DEF EncEncodeParams

LEMMA SerializableTyped == ASSUME TypedSetting, EncSerializable PROVE Typed'
<1> DEFINE frame == NewFrame("serializable", val.n)
<1>1. /\ pc = "type" /\ val.k \in CountedKind
      /\ UNCHANGED <<is_ref, args, srns, buf>>
  BY DEF EncSerializable, AtObject, CountedKind
<1>2. Typed /\ is_ref \in BOOLEAN /\ {"RECURSION", "EXCEPTION"} \subseteq Error /\ val.n \in Nat
  BY <1>1, TypedFacts, ObjectTyped DEF Error
<1>3. frame \in Frame /\ Loaded(frame)
  <2>1. "serializable" \in FrameType
    BY DEF FrameType
  <2> QED BY <1>2, <2>1, NewFrameType
<1> HIDE DEF frame
<1>4. CASE Encoded("RECURSION") /\ UNCHANGED <<exception, val, stack, protected, heap>>
  BY <1>1, <1>2, <1>4, LeafTyped
<1>5. CASE Throw /\ Encoded("EXCEPTION") /\ UNCHANGED <<val, stack, protected, heap>>
  BY <1>1, <1>2, <1>5, LeafTyped DEF Throw
<1>6. CASE /\ heap[val.n].ent # << >>
           /\ heap' = IF Held(Content) # 0 THEN AddRef(heap, Content.n) ELSE heap
           /\ CallZval(Append(stack, frame), Content)
           /\ UNCHANGED exception
  <2>1. Content \in Value /\ Unsigned(Content)
    BY <1>1, <1>6, ContentTyped
  <2>2. HeapTyped'
    BY <1>2, <1>6, SameHeap, CountTyped
  <2>3. stack' = Append(stack, frame) /\ val' = Content /\ error' = "none" /\ pc' = "call"
    BY <1>6 DEF CallZval
  <2>4. FramesTyped'
    BY <1>2, <1>3, <2>3, PushTyped
  <2> QED BY <1>1, <1>6, <2>1, <2>2, <2>3, <2>4, CalledTyped
<1>7. ASSUME NEW a \in Addr \ DOMAIN heap, NEW node \in Fresh,
             heap' = [b \in DOMAIN heap \cup {a} |-> IF b = a THEN node ELSE heap[b]],
             CallZval(Append(stack, [frame EXCEPT !.i = a]), Scalar("obj", a)), UNCHANGED exception
      PROVE  Typed'
  <2> DEFINE fr == [frame EXCEPT !.i = a]
  <2>1. a \in Nat
    BY AddrAssumption
  <2>2. fr \in Frame /\ Loaded(fr)
    BY <1>3, <2>1, PlaceTyped
  <2>3. Scalar("obj", a) \in Value /\ Unsigned(Scalar("obj", a))
    BY <2>1 DEF Scalar, Value, Kind, Str, Unsigned
  <2>4. HeapTyped'
    <3> DEFINE h == [b \in DOMAIN heap \cup {a} |-> IF b = a THEN node ELSE heap[b]]
    <3>1. h = [b \in DOMAIN h |-> h[b]]
      OBVIOUS
    <3> HIDE DEF h
    <3>2. heap' = h
      BY <1>7 DEF h
    <3> QED BY <3>1, <3>2 DEF HeapTyped
  <2>5. stack' = Append(stack, fr) /\ val' = Scalar("obj", a) /\ error' = "none" /\ pc' = "call"
    BY <1>7 DEF CallZval
  <2> HIDE DEF fr
  <2>6. FramesTyped'
    BY <1>2, <2>2, <2>5, PushTyped
  <2> QED BY <1>1, <1>7, <2>3, <2>4, <2>5, <2>6, CalledTyped
<1> QED BY <1>4, <1>5, <1>6, <1>7 DEF EncSerializable, frame

-----------------------------------------------------------------------------
(* Types: the functions that return or go on.                               *)

\* The function on top returns.
LEMMA ReturnTyped ==
  ASSUME TypedSetting, pc = "ret", stack # << >>, stack' = Below, pc' = "ret", error' \in Error,
         cur_depth' = cur_depth - (IF InZval(Top) THEN 1 ELSE 0), HeapTyped',
         UNCHANGED <<exception, val, is_ref, buf>>,
         args' = args \/ args' \in Args, srns' = srns \/ srns' \in Srns
  PROVE  Typed'
<1>1. Typed /\ is_ref \in BOOLEAN
  BY TypedFacts
<1>2. DataTyped'
  BY <1>1, DataStep
<1>3. FramesTyped'
  BY <1>1, PopTyped
<1>4. DepthTyped'
  BY DepthKept DEF Undone
<1> QED BY <1>2, <1>3, <1>4 DEF Typed

LEMMA LeaveTyped ==
  ASSUME TypedSetting, pc = "ret", stack # << >>, InZval(Top), NEW e \in Error, Leave(e), HeapTyped',
         UNCHANGED <<exception, val, is_ref, buf>>,
         args' = args \/ args' \in Args, srns' = srns \/ srns' \in Srns
  PROVE  Typed'
<1>1. stack' = Below /\ error' = e /\ pc' = "ret" /\ cur_depth' = cur_depth - 1
  BY DEF Leave, Encoded
<1>2. cur_depth' = cur_depth - (IF InZval(Top) THEN 1 ELSE 0)
  BY <1>1
<1> HIDE DEF InZval
<1> QED BY <1>1, <1>2, ReturnTyped

LEMMA ReleaseTyped ==
  ASSUME NEW owned, heap' = ReleaseAll(heap, owned)
  PROVE  HeapTyped'
<1> DEFINE held(a) == Cardinality({i \in DOMAIN owned : owned[i] = a})
           h == [a \in {b \in DOMAIN heap : heap[b].rc > held(b)} |-> [heap[a] EXCEPT !.rc = @ - held(a)]]
<1>1. heap' = h
  BY DEF ReleaseAll
<1>2. h = [a \in DOMAIN h |-> h[a]]
  OBVIOUS
<1> HIDE DEF h
<1> QED BY <1>1, <1>2 DEF HeapTyped

LEMMA ReturnsTyped ==
  ASSUME TypedSetting, ShareableDone \/ TagDone \/ EncodeParamsDone \/ SerializableDone
  PROVE  Typed'
<1>1. /\ pc = "ret" /\ stack # << >> /\ Top.f # "cde_map" /\ Leave(error)
      /\ UNCHANGED <<exception, val, is_ref, buf>>
  BY DEF ShareableDone, TagDone, EncodeParamsDone, SerializableDone
<1>2. Typed /\ error \in Error /\ InZval(Top) /\ Top \in Frame
  BY <1>1, TypedFacts, BelowTyped DEF InZval
<1>3. Top.args \in Args /\ Top.srns \in Srns
  BY <1>2 DEF Frame
<1>4. CASE ShareableDone
  <2>1. UNCHANGED <<args, srns, heap>>
    BY <1>4 DEF ShareableDone
  <2>2. HeapTyped'
    BY <1>2, <2>1, SameHeap
  <2> QED BY <1>1, <1>2, <2>1, <2>2, LeaveTyped
<1>5. CASE TagDone
  <2>1. UNCHANGED <<args, heap>> /\ (srns' = srns \/ srns' \in Srns)
    BY <1>3, <1>5 DEF TagDone, RestoreSrns
  <2>2. HeapTyped'
    BY <1>2, <2>1, SameHeap
  <2> QED BY <1>1, <1>2, <2>1, <2>2, LeaveTyped
<1>6. CASE EncodeParamsDone
  <2>1. UNCHANGED <<srns, heap>> /\ args' \in Args
    BY <1>3, <1>6 DEF EncodeParamsDone, RestoreArgs
  <2>2. HeapTyped'
    BY <1>2, <2>1, SameHeap
  <2> QED BY <1>1, <1>2, <2>1, <2>2, LeaveTyped
<1>7. CASE SerializableDone
  <2>1. UNCHANGED <<args, srns>> /\ heap' = ReleaseAll(heap, <<Held(ReturnedValue(Top))>>)
    BY <1>7 DEF SerializableDone
  <2>2. HeapTyped'
    BY <2>1, ReleaseTyped
  <2> QED BY <1>1, <1>2, <2>1, <2>2, LeaveTyped
<1> QED BY <1>4, <1>5, <1>6, <1>7

LEMMA MapDoneTyped == ASSUME TypedSetting, CdeMapDone PROVE Typed'
<1>1. /\ pc = "ret" /\ stack # << >> /\ Top.f = "cde_map"
      /\ UNCHANGED <<exception, val, is_ref, buf, args, srns, heap>>
  BY DEF CdeMapDone, AtCdeMap
<1>2. Typed /\ error \in Error /\ cur_depth \in Int
  BY TypedFacts DEF IInv, Shape
<1>3. HeapTyped'
  BY <1>1, <1>2, SameHeap
<1>4. CASE Top.flag /\ Leave(error)
  <2>1. InZval(Top)
    BY <1>4 DEF InZval
  <2> QED BY <1>1, <1>2, <1>3, <1>4, <2>1, LeaveTyped
<1>5. CASE ~Top.flag /\ stack' = Below /\ UNCHANGED <<error, pc, cur_depth>>
  <2>1. ~InZval(Top)
    BY <1>1, <1>5 DEF InZval
  <2>2. cur_depth' = cur_depth - (IF InZval(Top) THEN 1 ELSE 0)
    BY <1>2, <1>5, <2>1
  <2> HIDE DEF InZval
  <2> QED BY <1>1, <1>2, <1>3, <1>5, <2>2, ReturnTyped
<1> QED BY <1>4, <1>5 DEF CdeMapDone

\* What a frame keeps to be sorted
LEMMA KeptTyped ==
  ASSUME NEW fr \in Frame, Loaded(fr), NEW key \in Seq(Token), NEW v \in Value, Unsigned(v)
  PROVE  LET new == [fr EXCEPT !.ht = Append(@, [key |-> key, v |-> v])]
         IN  new \in Frame /\ Loaded(new)
<1> DEFINE b == [key |-> key, v |-> v]
           ht == Append(fr.ht, b)
           new == [fr EXCEPT !.ht = ht]
<1>1. b \in Bucket /\ b.v = v
  BY DEF Bucket
<1>2. fr.ht \in Seq(Bucket) /\ \A j \in DOMAIN fr.ht : Unsigned(fr.ht[j].v)
  BY DEF Frame, Loaded
<1>3. ht \in Seq(Bucket) /\ \A j \in DOMAIN ht : Unsigned(ht[j].v)
  <2> HIDE DEF b, Bucket
  <2>1. ht \in Seq(Bucket) /\ \A j \in DOMAIN ht : ht[j] = b \/ (j \in DOMAIN fr.ht /\ ht[j] = fr.ht[j])
    BY <1>1, <1>2
  <2> QED BY <1>1, <1>2, <2>1
<1> HIDE DEF ht
<1>4. new \in Frame /\ new.ht = ht
  BY <1>3 DEF Frame
<1> QED BY <1>3, <1>4 DEF Loaded, ht

LEMMA CdeFrameTyped ==
  ASSUME Typed, NEW n \in Nat, NEW ht \in Seq(Bucket), \A j \in DOMAIN ht : Unsigned(ht[j].v),
         NEW sorted \in SortByKey(ht), NEW b \in BOOLEAN
  PROVE  CdeFrame(n, sorted, b) \in Frame /\ Loaded(CdeFrame(n, sorted, b))
<1>1. PICK p \in [DOMAIN ht -> DOMAIN ht] : sorted = [m \in DOMAIN ht |-> ht[p[m]]]
  BY DEF SortByKey
<1>2. DOMAIN ht = 1..Len(ht) /\ Len(ht) \in Nat /\ \A j \in DOMAIN ht : ht[j] \in Bucket
  <2> HIDE DEF Bucket
  <2> QED OBVIOUS
<1> HIDE DEF Bucket
<1>3. sorted \in [1..Len(ht) -> Bucket]
  BY <1>1, <1>2
<1>4. sorted \in Seq(Bucket)
  BY <1>2, <1>3
<1>5. \A j \in DOMAIN sorted : Unsigned(sorted[j].v)
  BY <1>1
<1> DEFINE fr == NewFrame("cde_map", n)
<1>6. fr \in Frame
  <2>1. "cde_map" \in FrameType
    BY DEF FrameType
  <2> QED BY <2>1, NewFrameType
<1>7. CdeFrame(n, sorted, b) = [fr EXCEPT !.ht = sorted, !.flag = b]
  BY DEF CdeFrame
<1> HIDE DEF fr
<1>8. CdeFrame(n, sorted, b) \in Frame /\ CdeFrame(n, sorted, b).ht = sorted
  BY <1>4, <1>6, <1>7 DEF Frame
<1> QED BY <1>5, <1>8 DEF Loaded

LEMMA HashNextTyped == ASSUME TypedSetting, HashNext PROVE Typed'
<1> DEFINE node == heap[Top.n]
           e == node.ent[Top.i + 1]
           k == IF node.c = "array" /\ IsList(node.ent) THEN StringResult("none", << >>, srns)
                ELSE EncKey(e.key)
           next == [Top EXCEPT !.i = Top.i + 1]
           kept == [next EXCEPT !.ht = Append(@, [key |-> k.toks, v |-> e.v])]
<1>1. /\ pc = "ret" /\ stack # << >> /\ Top.f = "hash" /\ Top.i < Len(node.ent)
      /\ srns' = k.srns
      /\ UNCHANGED <<exception, is_ref, args, heap>>
  BY DEF HashNext, AtHash
<1>2. Typed /\ srns \in Srns /\ buf \in Seq(Token) /\ Setting /\ GraphsTyped
  BY TypedFacts
<1>3. /\ Top \in Frame /\ Loaded(Top) /\ InZval(Top) /\ Top.i \in Nat
      /\ node \in SrcNode /\ Holds(node)
  BY <1>1, <1>2, BelowTyped, TopCounted, NodeTyped DEF InZval, Frame
<1>4. e.key \in Value /\ e.v \in Value /\ Unsigned(e.v)
  <2> HIDE DEF node
  <2>1. node.ent \in Seq(Entry)
    BY <1>3 DEF SrcNode
  <2> HIDE DEF Entry
  <2>2. Top.i + 1 \in DOMAIN node.ent
    BY <1>1, <1>3, <2>1
  <2> QED BY <1>3, <2>2, EntryTyped
<1>5. k \in StringResults
  <2>1. "none" \in Error /\ << >> \in Seq(Token)
    BY ItemsTypes DEF Error
  <2>2. StringResult("none", << >>, srns) \in StringResults
    BY <1>2, <2>1, StringResultType
  <2>3. EncKey(e.key) \in StringResults
    BY <1>2, <1>4, KeyType
  <2> QED BY <2>2, <2>3
<1>6. next \in Frame /\ Loaded(next)
  BY <1>3, PlaceTyped
<1>7. HeapTyped'
  BY <1>1, <1>2, SameHeap
<1>8. /\ \/ k.error # "none" /\ Leave(k.error) /\ UNCHANGED <<val, buf>>
         \/ k.error = "none" /\ GoOn(Append(Below, kept)) /\ UNCHANGED <<val, buf>>
         \/ k.error = "none" /\ buf' = buf \o k.toks /\ CallZval(Append(Below, next), e.v)
  BY DEF HashNext
<1> HIDE DEF k, e, node
<1>9. k.error \in Error /\ k.toks \in Seq(Token) /\ k.srns \in Srns
  BY <1>5 DEF StringResults
<1>10. kept \in Frame /\ Loaded(kept)
  <2> HIDE DEF next
  <2> QED BY <1>4, <1>6, <1>9, KeptTyped
<1> HIDE DEF next, kept
<1>11. CASE Leave(k.error) /\ UNCHANGED <<val, buf>>
  BY <1>1, <1>3, <1>7, <1>9, <1>11, LeaveTyped
<1>12. CASE GoOn(Append(Below, kept)) /\ UNCHANGED <<val, buf>>
  <2>1. stack' = Append(Below, kept) /\ error' = "none" /\ pc' = "ret"
    BY <1>12 DEF GoOn
  <2>2. FramesTyped'
    BY <1>1, <1>2, <1>10, <2>1, ReplaceTyped
  <2> QED BY <1>1, <1>7, <1>9, <1>12, <2>1, <2>2, CalledTyped
<1>13. CASE buf' = buf \o k.toks /\ CallZval(Append(Below, next), e.v)
  <2>1. stack' = Append(Below, next) /\ val' = e.v /\ error' = "none" /\ pc' = "call"
    BY <1>13 DEF CallZval
  <2>2. FramesTyped'
    BY <1>1, <1>2, <1>6, <2>1, ReplaceTyped
  <2>3. buf' \in Seq(Token)
    BY <1>2, <1>9, <1>13, ItemsTypes
  <2> QED BY <1>1, <1>4, <1>7, <1>9, <2>1, <2>2, <2>3, CalledTyped
<1> QED BY <1>8, <1>11, <1>12, <1>13

LEMMA HashDoneTyped == ASSUME TypedSetting, HashDone PROVE Typed'
<1>1. /\ pc = "ret" /\ stack # << >> /\ Top.f = "hash"
      /\ UNCHANGED <<exception, val, is_ref, args, srns, heap>>
  BY DEF HashDone, AtHash
<1>2. Typed /\ error \in Error /\ buf \in Seq(Token) /\ Setting /\ GraphsTyped
  BY TypedFacts
<1>3. /\ Top \in Frame /\ InZval(Top) /\ Top.n \in Nat
      /\ Top.ht \in Seq(Bucket) /\ \A j \in DOMAIN Top.ht : Unsigned(Top.ht[j].v)
  BY <1>1, <1>2, BelowTyped DEF InZval, Frame, Loaded
<1>4. HeapTyped'
  BY <1>1, <1>2, SameHeap
<1>5. CASE Leave(error) /\ UNCHANGED buf
  BY <1>1, <1>2, <1>3, <1>4, <1>5, LeaveTyped
<1>6. ASSUME buf' = Append(buf, WriteInt("map", Len(Top.ht))), NEW sorted \in SortByKey(Top.ht),
             GoOn(Append(Below, CdeFrame(Top.n, sorted, TRUE)))
      PROVE  Typed'
  <2> DEFINE fr == CdeFrame(Top.n, sorted, TRUE)
  <2>1. fr \in Frame /\ Loaded(fr)
    BY <1>2, <1>3, CdeFrameTyped
  <2>2. stack' = Append(Below, fr) /\ error' = "none" /\ pc' = "ret"
    BY <1>6 DEF GoOn
  <2> HIDE DEF fr
  <2>3. FramesTyped'
    BY <1>1, <1>2, <2>1, <2>2, ReplaceTyped
  <2>4. Len(Top.ht) \in Nat /\ "map" \in TokenType
    BY <1>3 DEF TokenType
  <2>5. WriteInt("map", Len(Top.ht)) \in Token
    BY <2>4, ItemTypes
  <2>6. buf' \in Seq(Token)
    BY <1>2, <1>6, <2>5, ItemsTypes
  <2> QED BY <1>1, <1>4, <2>2, <2>3, <2>6, CalledTyped
<1> QED BY <1>5, <1>6 DEF HashDone

LEMMA MapNextTyped == ASSUME TypedSetting, CdeMapNext PROVE Typed'
<1> DEFINE next == [Top EXCEPT !.i = Top.i + 1]
           e == Top.ht[Top.i + 1]
<1>1. /\ pc = "ret" /\ stack # << >> /\ Top.i < Len(Top.ht)
      /\ buf' = buf \o e.key /\ CallZval(Append(Below, next), e.v)
      /\ UNCHANGED <<exception, is_ref, args, srns, heap>>
  BY DEF CdeMapNext, AtCdeMap
<1>2. Typed /\ buf \in Seq(Token)
  BY TypedFacts
<1>3. /\ Top \in Frame /\ Loaded(Top) /\ Top.i \in Nat
      /\ Top.ht \in Seq(Bucket) /\ \A j \in DOMAIN Top.ht : Unsigned(Top.ht[j].v)
  BY <1>1, <1>2, BelowTyped DEF Frame, Loaded
<1>4. e \in Bucket /\ Unsigned(e.v)
  <2> DEFINE ht == Top.ht
  <2> HIDE DEF Bucket, Unsigned, ht
  <2>1. Top.i + 1 \in DOMAIN ht
    BY <1>1, <1>3 DEF ht
  <2>2. ht[Top.i + 1] \in Bucket
    BY <1>3, <2>1 DEF ht
  <2> QED BY <1>3, <2>1, <2>2 DEF ht
<1>5. next \in Frame /\ Loaded(next)
  BY <1>3, PlaceTyped
<1> HIDE DEF next, e
<1>6. e.key \in Seq(Token) /\ e.v \in Value
  BY <1>4 DEF Bucket
<1>7. stack' = Append(Below, next) /\ val' = e.v /\ error' = "none" /\ pc' = "call"
  BY <1>1 DEF CallZval
<1>8. FramesTyped' /\ HeapTyped'
  BY <1>1, <1>2, <1>5, <1>7, ReplaceTyped, SameHeap
<1>9. buf' \in Seq(Token)
  BY <1>1, <1>2, <1>6, ItemsTypes
<1> QED BY <1>1, <1>4, <1>6, <1>7, <1>8, <1>9, CalledTyped

-----------------------------------------------------------------------------
(* Types: the call.                                                         *)

LEMMA StartTyped == ASSUME TypedSetting, Start PROVE Typed'
<1>1. pc = "start" /\ UNCHANGED <<is_ref, stack, cur_depth, heap>>
  BY DEF Start
<1>2. Typed /\ is_ref \in BOOLEAN /\ Setting /\ GraphsTyped /\ IInv
  BY TypedFacts
<1>3. FramesTyped' /\ HeapTyped'
  BY <1>1, <1>2, SameFrames, SameHeap
<1>4. {"none", "INVALID_FLAGS", "INVALID_OPTIONS"} \subseteq Error
  BY DEF Error
<1>5. CASE /\ error' = IF cbor_set_encode_options(call.options).ok THEN "INVALID_FLAGS" ELSE "INVALID_OPTIONS"
           /\ exception' = Thrown(error') /\ pc' = "end" /\ UNCHANGED <<val, args, srns, buf>>
  <2>1. error' \in Error /\ (exception' = exception \/ exception' = "cbor")
    BY <1>4, <1>5 DEF Thrown
  <2>2. DataTyped'
    BY <1>1, <1>2, <1>5, <2>1, DataStep
  <2>3. DepthTyped'
    <3>1. cur_depth = Depth /\ Depth \in Nat
      BY <1>1, <1>2, DepthType DEF IInv, Depths
    <3> QED BY <1>1, <1>5, <3>1 DEF DepthTyped
  <2> QED BY <1>3, <2>2, <2>3 DEF Typed
<1> DEFINE self == IF "SELF_DESCRIBE" \in args'.e_flags THEN <<WriteInt("tag", TagSelfDescribe)>> ELSE << >>
           ns == IF args'.string_ref = "true" THEN <<WriteInt("tag", TagStringRefNs)>> ELSE << >>
<1>6. CASE /\ CallArgs.ok /\ args' = CallArgs.v /\ buf' = self \o ns
           /\ srns' = IF args'.string_ref = "true" THEN NewSrns ELSE NoSrns
           /\ val' = call.root /\ pc' = "call" /\ UNCHANGED <<error, exception>>
  <2>1. call \in Calls
    BY <1>2 DEF Setting
  <2>2. args' \in Args
    BY <1>2, <1>6, <2>1, CallArgsType
  <2>3. val' \in Value /\ Unsigned(val')
    BY <1>2, <1>6, <2>1 DEF GraphsTyped
  <2>4. srns' \in Srns
    BY <1>6 DEF NewSrns, NoSrns, Srns
  <2>5. self \in Seq(Token) /\ ns \in Seq(Token)
    BY TagsTyped, ItemsTypes
  <2> HIDE DEF self, ns
  <2>6. buf' \in Seq(Token)
    BY <1>6, <2>5, ItemsTypes
  <2>7. error' \in Error
    BY <1>6, TypedFacts
  <2>8. DataTyped'
    BY <1>1, <1>2, <1>6, <2>2, <2>3, <2>4, <2>6, <2>7, DataStep
  <2>9. DepthTyped'
    BY <1>6, DepthKept DEF Undone
  <2> QED BY <1>3, <2>8, <2>9 DEF Typed
<1> QED BY <1>5, <1>6 DEF Start

LEMMA FinishTyped == ASSUME TypedSetting, Finish PROVE Typed'
<1>1. /\ pc = "ret" /\ exception' = Thrown(error) /\ buf' = IF error = "none" THEN buf ELSE << >>
      /\ srns' = NoSrns /\ heap' = Unlock(heap) /\ pc' = "end"
      /\ UNCHANGED <<error, val, is_ref, stack, args, cur_depth>>
  BY DEF Finish
<1>2. Typed /\ is_ref \in BOOLEAN /\ IInv /\ error \in Error /\ buf \in Seq(Token)
  BY TypedFacts
<1>3. exception' = exception \/ exception' = "cbor"
  BY <1>1 DEF Thrown
<1>4. buf' \in Seq(Token) /\ srns' \in Srns
  BY <1>1, <1>2, ItemsTypes DEF NoSrns, Srns
<1>5. DataTyped'
  BY <1>1, <1>2, <1>3, <1>4, DataStep
<1>6. FramesTyped'
  BY <1>1, <1>2, SameFrames
<1>7. HeapTyped'
  BY <1>1, ReleaseTyped DEF Unlock
<1>8. DepthTyped'
  <2>1. Depth \in Nat /\ cur_depth >= Depth /\ cur_depth \in Int
    BY <1>1, <1>2, DepthType DEF Typed, DepthTyped, IInv, Shape
  <2>2. cur_depth' \in Nat
    BY <1>1, <2>1
  <2> QED BY <1>1, <2>2 DEF DepthTyped
<1> QED BY <1>5, <1>6, <1>7, <1>8 DEF Typed

LEMMA StutterTyped == ASSUME TypedSetting, UNCHANGED vars PROVE Typed'
<1>1. UNCHANGED <<pc, error, exception, val, is_ref, stack, args, cur_depth, srns, buf, heap>>
  BY DEF vars, ctxVars
<1>2. Typed
  BY TypedFacts
<1>3. Depth' = Depth
  BY <1>1 DEF Depth, InZval
<1>4. DataTyped' /\ DepthTyped'
  BY <1>1, <1>2, <1>3 DEF Typed, DataTyped, DepthTyped
<1> QED BY <1>1, <1>2, <1>4, SameFrames, SameHeap DEF Typed

\* The inductive invariant of the types
TInv == NoIterators => Typed

LEMMA InitTyped == Init /\ GraphsOwned /\ GraphsTyped => TInv
<1> SUFFICES ASSUME Init, GraphsOwned, GraphsTyped PROVE Typed
  BY DEF TInv
<1>1. /\ call \in Calls /\ pc = "start" /\ stack = << >> /\ heap = call.heap
      /\ error = "none" /\ exception = "none" /\ val = Undef /\ is_ref = FALSE /\ args = NoArgs
      /\ buf = << >> /\ srns = NoSrns
  BY DEF Init
<1>2. error \in Error /\ exception \in {"none", "user", "cbor"} /\ is_ref \in BOOLEAN
  BY <1>1 DEF Error
<1>3. val \in Value /\ Unsigned(val)
  BY <1>1 DEF Undef, Scalar, Value, Kind, Str, Unsigned
<1>4. args \in Args /\ srns \in Srns /\ buf \in Seq(Token)
  <2>1. NoArgs \in Args
    BY DEF NoArgs, Args
  <2>2. NoSrns \in Srns
    BY DEF NoSrns, Srns
  <2> QED BY <1>1, <2>1, <2>2, ItemsTypes
<1>5. DataTyped
  BY <1>2, <1>3, <1>4 DEF DataTyped
<1>6. FramesTyped
  <2> HIDE DEF Frame
  <2>1. << >> \in Seq(Frame)
    OBVIOUS
  <2> QED BY <1>1, <2>1 DEF FramesTyped
<1>7. DepthTyped
  BY <1>1 DEF DepthTyped
<1>8. HeapTyped
  BY <1>1 DEF GraphsOwned, IsHeap, HeapTyped
<1> QED BY <1>5, <1>6, <1>7, <1>8 DEF Typed

LEMMA NextTyped ==
  ASSUME GraphsOwned, FreshOwned, GraphsTyped, IInv, CInv, TInv, [Next]_vars, IInv', CInv'
  PROVE  TInv'
<1>1. call' = call
  BY SameCallAlways
<1>2. ASSUME NoIterators' PROVE Typed'
  <2>1. NoIterators
    BY <1>1, <1>2 DEF NoIterators
  <2>2. TypedSetting
    BY <1>1, <1>2, <2>1 DEF TypedSetting, Setting, CInv, TInv
  <2>3. Setting
    BY <2>2, TypedFacts
  <2>4. CASE Start \/ EncZval \/ Finish
    BY <2>2, <2>4, StartTyped, ZvalTyped, FinishTyped
  <2>5. CASE EncScalar \/ EncFloatx \/ EncStr \/ EncXString
    BY <2>2, <2>5, ScalarTyped, FloatxTyped, StrTyped, XStringTyped
  <2>6. CASE EncDateTime \/ EncBignum \/ EncDecimal \/ EncUri \/ EncUnsupported
    BY <2>2, <2>6, DateTimeTyped, BignumTyped, DecimalTyped, UriTyped, UnsupportedTyped
  <2>7. CASE EncReference \/ EncShareable \/ EncArray \/ EncStdClass
    BY <2>2, <2>7, ReferenceTyped, ShareableTyped, ArrayTyped, StdClassTyped
  <2>8. CASE EncTag \/ EncEncodeParams \/ EncSerializable \/ EncTraversable
    BY <2>2, <2>3, <2>8, TagStepTyped, EncodeParamsTyped, SerializableTyped, NoTraversable
  <2>9. CASE HashNext \/ HashDone \/ CdeMapNext \/ CdeMapDone
    BY <2>2, <2>9, HashNextTyped, HashDoneTyped, MapNextTyped, MapDoneTyped
  <2>10. CASE ShareableDone \/ TagDone \/ EncodeParamsDone \/ SerializableDone
    BY <2>2, <2>10, ReturnsTyped
  <2>11. CASE Traverse
    BY <2>3, <2>11, NoTraverse
  <2>12. CASE UNCHANGED vars
    BY <2>2, <2>12, StutterTyped
  <2> QED BY <2>4, <2>5, <2>6, <2>7, <2>8, <2>9, <2>10, <2>11, <2>12 DEF Next
<1> QED BY <1>2 DEF TInv

-----------------------------------------------------------------------------
(* The theorems.                                                            *)

\* For graphs that hold together and methods that give away what they make,
\* the inductive invariant of the counts holds, whatever fails or throws.
THEOREM CountsInvariance == GraphsOwned /\ FreshOwned => (Spec => []CountInv)
<1> SUFFICES ASSUME GraphsOwned, FreshOwned PROVE Spec => []CountInv
  OBVIOUS
<1>1. Init => CInv
  BY InitCounted
<1>2. IInv /\ CInv /\ [Next]_vars => CInv'
  BY NextCounted
<1>3. CInv => CountInv
  BY CountedIsCountInv
<1> QED BY <1>1, <1>2, <1>3, Invariance, PTL DEF Spec

\* What ctx->refs has an index for lives until the end of the call: no object
\* that a method makes gets the address, and with it the index, of another.
THEOREM RefsAliveCorrect == GraphsOwned /\ FreshOwned => (Spec => [](NoIterators => RefsAlive))
<1> SUFFICES ASSUME GraphsOwned, FreshOwned PROVE Spec => [](NoIterators => RefsAlive)
  OBVIOUS
<1>1. CountInv => (NoIterators => RefsAlive)
  BY DEF CountInv, OwnInv, Owned, LockInv, RefsAlive
<1> QED BY <1>1, CountsInvariance, PTL

\* After the call every value has the owners it had before and what methods
\* made is gone, whether the call succeeded or not.
THEOREM CountsRestoredCorrect == GraphsOwned /\ FreshOwned => (Spec => []CountsRestored)
<1> SUFFICES ASSUME GraphsOwned, FreshOwned PROVE Spec => []CountsRestored
  OBVIOUS
<1>1. Init => CInv
  BY InitCounted
<1>2. IInv /\ CInv /\ [Next]_vars => CInv'
  BY NextCounted
<1>3. CInv => CountsRestored
  BY DEF CInv, Counted, CountsRestored
<1> QED BY <1>1, <1>2, <1>3, Invariance, PTL DEF Spec

\* The variables of the encoder keep their types for graphs that hold together
\* and have no iterators, through every failure and exception: what ctx->args,
\* ctx->srns and the local variables are restored from is of their type, the
\* depth and the count of shared EncodeParams never go below 0, and no data
\* item gets a negative argument.
THEOREM TypeCorrect ==
  GraphsOwned /\ FreshOwned /\ GraphsTyped => (Spec => [](NoIterators => TypeOK))
<1> SUFFICES ASSUME GraphsOwned, FreshOwned, GraphsTyped PROVE Spec => [](NoIterators => TypeOK)
  OBVIOUS
<1>1. Init => CInv /\ TInv
  BY InitCounted, InitTyped
<1>2. IInv /\ CInv /\ [Next]_vars => CInv'
  BY NextCounted
<1>3. IInv /\ CInv /\ TInv /\ [Next]_vars /\ IInv' /\ CInv' => TInv'
  BY NextTyped
<1>4. IInv /\ CInv /\ TInv => (NoIterators => TypeOK)
  BY TypedIsTypeOK DEF Setting, CInv, TInv
<1> QED BY <1>1, <1>2, <1>3, <1>4, Invariance, PTL DEF Spec

=============================================================================
