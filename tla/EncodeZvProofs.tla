--------------------------- MODULE EncodeZvProofs ---------------------------
(***************************************************************************)
(* Proofs about EncodeZv for every value that is encoded, all flags and     *)
(* options and whatever the user code does: on every way out of the         *)
(* recursion the marks, the arguments, the depth and the namespaces of      *)
(* strings are what they were on the way in, and the call gives data or an  *)
(* exception.                                                               *)
(*                                                                         *)
(* What the code writes and how values look does not matter for this, so    *)
(* nothing is assumed of `Calls`, `Fresh` and the heap.                     *)
(***************************************************************************)
EXTENDS EncodeZv, FiniteSetTheorems, SequenceTheorems, TLAPS

-----------------------------------------------------------------------------
(* The inductive invariant.                                                 *)

IsSeq(s) == \E S : s \in Seq(S)

\* The fields that structures have, whatever is in most of them
SrnsOK(s) == DOMAIN s = {"on", "tab"} /\ s.on \in BOOLEAN
ArgsOK(a) == DOMAIN a = {"u_flags", "e_flags", "max_depth", "string_ref", "shared_ref", "ext"}
FrameOK(fr) ==
  /\ DOMAIN fr = {"f", "n", "i", "ht", "out", "args", "srns", "count", "flag"}
  /\ fr.f \in FrameType /\ fr.flag \in BOOLEAN
  /\ ArgsOK(fr.args) /\ SrnsOK(fr.srns)

Shape ==
  /\ pc \in {"start", "call", "type", "ret", "end"}
  /\ IsSeq(stack)
  /\ \A i \in DOMAIN stack : FrameOK(stack[i])
  /\ pc \in {"start", "end"} => stack = << >>
  /\ cur_depth \in Int
  /\ ArgsOK(args) /\ SrnsOK(srns)

\* Where enc_traversable is before it called enc_zval the first time: no
\* function that it called returned an error.
Starting == {"count", "rewind", "next"}

\* An error comes with an exception if and only if it says so; the functions
\* go on only when what they called returned none.
Errors ==
  /\ pc \in {"start", "call", "type"} => error = "none"
  /\ pc = "ret" /\ stack # << >> /\ Top.f \in Starting => error = "none"
  /\ \A i \in DOMAIN stack : i < Len(stack) \/ pc \in {"call", "type"} => stack[i].f \notin Starting
  /\ pc # "end" => exception \in {"none", "user"}
  /\ pc = "end" => (error = "none") = (exception = "none")
  /\ exception = "user" <=> error = "EXCEPTION"

\* The calls of enc_zval that are running: all functions were called by one,
\* but for enc_cde_map that enc_traversable called.
InZval(fr) == fr.f # "cde_map" \/ fr.flag
Depth == Cardinality({i \in DOMAIN stack : InZval(stack[i])})

Depths ==
  /\ pc \in {"start", "call"} => cur_depth = Depth
  /\ pc = "type" => cur_depth = Depth + 1
  /\ pc = "ret" /\ error # "DEPTH" => cur_depth = Depth

\* The arguments and the namespace at each level of the recursion: those that
\* a function found, and at last those in effect.
Levels == 1..(Len(stack) + 1)
ArgsAt(i) == IF i = Len(stack) + 1 THEN args ELSE stack[i].args
OnAt(i) == IF i = Len(stack) + 1 THEN srns.on ELSE stack[i].srns.on

\* Only EncodeParams changes the arguments, and only the tag that opens a
\* namespace the namespace.
Chain ==
  \A i \in DOMAIN stack :
    /\ stack[i].f # "encodeparams" => ArgsAt(i + 1) = stack[i].args
    /\ ~(stack[i].f = "tag" /\ stack[i].flag) => OnAt(i + 1) = stack[i].srns.on

\* The outermost level is that of the call.
Outermost ==
  pc \in {"call", "type", "ret"} =>
    /\ CallArgs.ok
    /\ ArgsAt(1) = CallArgs.v
    /\ OnAt(1) => CallArgs.v.string_ref = "true"

\* The options of the call hold at every level; deterministic encoding goes
\* with neither of them and is not switched off again.
LevelOK(a, on) ==
  /\ a.string_ref = CallArgs.v.string_ref
  /\ a.shared_ref = CallArgs.v.shared_ref
  /\ on => a.string_ref # "false"
  /\ "CDE" \in a.e_flags <=> "CDE" \in a.u_flags
  /\ "CDE" \in a.e_flags => a.string_ref = "false" /\ a.shared_ref = "false"

Contexts ==
  pc \in {"call", "type", "ret"} =>
    /\ \A i \in Levels : LevelOK(ArgsAt(i), OnAt(i))
    /\ \A i, j \in Levels : i <= j /\ "CDE" \in ArgsAt(i).e_flags => "CDE" \in ArgsAt(j).e_flags

\* Before and after the call no function of the encoder runs.
Outside ==
  /\ pc = "start" => args = NoArgs /\ srns = NoSrns
  /\ pc = "end" => ~srns.on /\ ("CDE" \in args.e_flags => args.shared_ref = "false")

IInv ==
  Shape /\ Errors /\ Depths /\ MarksMatchStack /\ Chain /\ Outermost /\ Contexts /\ Outside

-----------------------------------------------------------------------------
(* Sequences of which the elements are not known.                           *)

LEMMA SeqFacts ==
  ASSUME NEW s, IsSeq(s)
  PROVE  /\ Len(s) \in Nat /\ DOMAIN s = 1..Len(s)
         /\ s = << >> <=> Len(s) = 0
  BY DEF IsSeq

\* Append at the end
LEMMA PushFacts ==
  ASSUME NEW s, IsSeq(s), NEW e
  PROVE  /\ IsSeq(Append(s, e)) /\ Len(Append(s, e)) = Len(s) + 1
         /\ DOMAIN Append(s, e) = 1..(Len(s) + 1)
         /\ Append(s, e)[Len(s) + 1] = e
         /\ \A i \in 1..Len(s) : Append(s, e)[i] = s[i]
<1> PICK S : s \in Seq(S)
  BY DEF IsSeq
<1> DEFINE U == S \cup {e}
<1>1. s \in Seq(U) /\ e \in U
  OBVIOUS
<1> HIDE DEF U
<1>2. /\ Append(s, e) \in Seq(U) /\ Len(Append(s, e)) = Len(s) + 1
      /\ DOMAIN Append(s, e) = 1..(Len(s) + 1) /\ Append(s, e)[Len(s) + 1] = e
      /\ \A i \in 1..Len(s) : Append(s, e)[i] = s[i]
  BY <1>1
<1> QED BY <1>2 DEF IsSeq

\* Take the last element away.
LEMMA PopFacts ==
  ASSUME NEW s, IsSeq(s), s # << >>, NEW t, t = SubSeq(s, 1, Len(s) - 1)
  PROVE  /\ Len(s) \in Nat /\ Len(s) >= 1
         /\ IsSeq(t) /\ Len(t) = Len(s) - 1 /\ DOMAIN t = 1..(Len(s) - 1)
         /\ \A i \in 1..(Len(s) - 1) : t[i] = s[i]
<1> PICK S : s \in Seq(S)
  BY DEF IsSeq
<1>1. Len(s) \in Nat /\ Len(s) >= 1
  OBVIOUS
<1>2. /\ t \in Seq(S) /\ Len(t) = Len(s) - 1 /\ DOMAIN t = 1..(Len(s) - 1)
      /\ \A i \in 1..(Len(s) - 1) : t[i] = s[i]
  <2>1. 1 \in Int /\ Len(s) - 1 \in Int /\ \A i \in 1..(Len(s) - 1) : s[i] \in S
    BY <1>1
  <2>2. /\ t \in Seq(S)
        /\ Len(t) = IF 1 <= Len(s) - 1 THEN (Len(s) - 1) - 1 + 1 ELSE 0
        /\ \A i \in 1..((Len(s) - 1) - 1 + 1) : t[i] = s[1 + i - 1]
    BY <2>1, SubSeqProperties
  <2>3. Len(t) = Len(s) - 1
    <3>1. Len(t) = IF 1 <= Len(s) - 1 THEN (Len(s) - 1) - 1 + 1 ELSE 0
      BY <2>2
    <3> DEFINE m == Len(s)  k == Len(t)
    <3>2. m \in Nat /\ m >= 1 /\ k = IF 1 <= m - 1 THEN (m - 1) - 1 + 1 ELSE 0
      BY <1>1, <3>1
    <3> HIDE DEF m, k
    <3>3. k = m - 1
      BY <3>2
    <3> QED BY <3>3 DEF m, k
  <2>4. DOMAIN t = 1..Len(t)
    BY <2>2
  <2>5. ASSUME NEW i \in 1..(Len(s) - 1) PROVE t[i] = s[i]
    <3>1. i \in 1..((Len(s) - 1) - 1 + 1) /\ 1 + i - 1 = i
      BY <1>1
    <3> QED BY <2>2, <3>1
  <2> QED BY <2>2, <2>3, <2>4, <2>5
<1> QED BY <1>1, <1>2 DEF IsSeq

\* Put another one in its place.
LEMMA ReplaceFacts ==
  ASSUME NEW s, IsSeq(s), s # << >>, NEW e
  PROVE  LET t == Append(SubSeq(s, 1, Len(s) - 1), e)
         IN  /\ IsSeq(t) /\ Len(t) = Len(s) /\ DOMAIN t = 1..Len(s)
             /\ t[Len(s)] = e
             /\ \A i \in 1..(Len(s) - 1) : t[i] = s[i]
<1> DEFINE b == SubSeq(s, 1, Len(s) - 1)
<1>1. /\ Len(s) \in Nat /\ Len(s) >= 1 /\ IsSeq(b) /\ Len(b) = Len(s) - 1
      /\ \A i \in 1..(Len(s) - 1) : b[i] = s[i]
  BY PopFacts
<1> HIDE DEF b
<1> DEFINE t == Append(b, e)
<1>3. /\ IsSeq(t) /\ Len(t) = Len(b) + 1 /\ DOMAIN t = 1..(Len(b) + 1) /\ t[Len(b) + 1] = e
      /\ \A i \in 1..Len(b) : t[i] = b[i]
  <2>1. IsSeq(b)
    BY <1>1
  <2> QED BY ONLY <2>1, PushFacts
<1> HIDE DEF t
<1>4. /\ IsSeq(t) /\ Len(t) = Len(s) /\ DOMAIN t = 1..Len(s) /\ t[Len(s)] = e
      /\ \A i \in 1..(Len(s) - 1) : t[i] = s[i]
  BY <1>1, <1>3
<1> QED BY <1>4 DEF t, b

\* Put two in its place.
LEMMA SplitFacts ==
  ASSUME NEW s, IsSeq(s), s # << >>, NEW d, NEW e, NEW t, t = SubSeq(s, 1, Len(s) - 1) \o <<d, e>>
  PROVE  t = Append(Append(SubSeq(s, 1, Len(s) - 1), d), e)
<1> DEFINE b == SubSeq(s, 1, Len(s) - 1)
<1>1. IsSeq(b)
  BY PopFacts
<1> HIDE DEF b
<1> PICK S : b \in Seq(S)
  BY <1>1 DEF IsSeq
<1> DEFINE U == S \cup {d, e}
<1>2. b \in Seq(U) /\ d \in U /\ e \in U
  OBVIOUS
<1> HIDE DEF U
<1>3. b \o <<d, e>> = Append(Append(b, d), e)
  BY <1>2
<1> QED BY <1>3 DEF b

-----------------------------------------------------------------------------
(* What a step may do to the recursion.  Every action is one of these.      *)

Running == {"call", "type", "ret"}

\* The result of a function: an exception goes with its error, and the error
\* of the depth is passed on.
ResultOK ==
  /\ exception' \in {"none", "user"}
  /\ exception' = "user" <=> error' = "EXCEPTION"
  /\ error = "DEPTH" => error' = "DEPTH"

\* Strings may get an index in the namespace there is.
KeepsSrns == SrnsOK(srns') /\ srns'.on = srns.on

IsParams(fr) == fr.f = "encodeparams" /\ fr.flag
IsNamespace(fr) == fr.f = "tag" /\ fr.flag

\* enc_zval returns without having called itself.
Encodes ==
  /\ pc = "type" /\ pc' = "ret"
  /\ stack' = stack /\ cur_depth' = cur_depth - 1
  /\ ResultOK /\ KeepsSrns
  /\ UNCHANGED <<call, args, in_enc_params, protected>>

\* enc_zval calls a function, of frame fr.
Pushes(fr) ==
  /\ pc = "type" /\ pc' \in {"call", "ret"}
  /\ stack' = Append(stack, fr)
  /\ FrameOK(fr) /\ fr.args = args /\ fr.srns = srns
  /\ fr.f # "cde_map" /\ (pc' = "call" => fr.f \notin Starting)
  /\ error' = "none"
  /\ \/ fr.f \in Protecting /\ fr.n \notin protected /\ protected' = protected \cup {fr.n}
     \/ fr.f \notin Protecting /\ protected' = protected
  /\ in_enc_params' = in_enc_params + (IF IsParams(fr) THEN 1 ELSE 0)
  /\ ArgsOK(args') /\ (fr.f # "encodeparams" => args' = args)
  /\ SrnsOK(srns') /\ (~IsNamespace(fr) => srns'.on = srns.on)
  /\ LevelOK(args', srns'.on)
  /\ "CDE" \in args.e_flags => "CDE" \in args'.e_flags
  /\ UNCHANGED <<call, exception, cur_depth>>

\* The function on top goes on as fr.
Replaces(fr) ==
  /\ pc = "ret" /\ pc' \in {"call", "ret"} /\ stack # << >>
  /\ stack' = Append(Below, fr)
  /\ FrameOK(fr) /\ fr.args = Top.args /\ fr.srns.on = Top.srns.on /\ fr.n = Top.n
  /\ fr.f \notin {"encodeparams", "tag"} /\ Top.f \notin {"encodeparams", "tag"}
  /\ InZval(fr) <=> InZval(Top)
  /\ pc' = "call" => fr.f \notin Starting
  /\ error = "none" /\ error' = "none"
  /\ \/ (fr.f \in Protecting <=> Top.f \in Protecting) /\ protected' = protected
     \/ Top.f \in Protecting /\ fr.f \notin Protecting /\ protected' = protected \ {Top.n}
  /\ KeepsSrns
  /\ UNCHANGED <<call, exception, cur_depth, args, in_enc_params>>

\* It returns, and with it the enc_zval that called it, if one did.
Pops ==
  /\ pc = "ret" /\ pc' = "ret" /\ stack # << >>
  /\ stack' = Below
  /\ cur_depth' = cur_depth - (IF InZval(Top) THEN 1 ELSE 0)
  /\ protected' = protected \ (IF Top.f \in Protecting THEN {Top.n} ELSE {})
  /\ in_enc_params' = in_enc_params - (IF IsParams(Top) THEN 1 ELSE 0)
  /\ args' = Top.args
  /\ SrnsOK(srns') /\ srns'.on = Top.srns.on
  /\ ResultOK
  /\ UNCHANGED call

\* enc_traversable calls enc_cde_map.
Splits(fr, map) ==
  /\ pc = "ret" /\ pc' = "ret" /\ stack # << >>
  /\ stack' = Append(Append(Below, fr), map)
  /\ FrameOK(fr) /\ fr.args = Top.args /\ fr.srns.on = Top.srns.on /\ fr.n = Top.n
  /\ fr.f = "traversed" /\ Top.f = "next"
  /\ FrameOK(map) /\ map.args = args /\ map.srns = srns /\ map.f = "cde_map" /\ ~map.flag
  /\ error' = "none"
  /\ UNCHANGED <<call, exception, cur_depth, args, srns, in_enc_params, protected>>

-----------------------------------------------------------------------------
(* The stack before and after.                                              *)

LEMMA StackFacts ==
  ASSUME Shape
  PROVE  /\ Len(stack) \in Nat /\ DOMAIN stack = 1..Len(stack)
         /\ stack = << >> <=> Len(stack) = 0
         /\ stack # << >> => Len(stack) >= 1 /\ Len(stack) \in DOMAIN stack /\ FrameOK(Top)
<1>1. IsSeq(stack)
  BY DEF Shape
<1>2. Len(stack) \in Nat /\ DOMAIN stack = 1..Len(stack) /\ (stack = << >> <=> Len(stack) = 0)
  BY <1>1, SeqFacts
<1>3. ASSUME stack # << >> PROVE Len(stack) >= 1 /\ Len(stack) \in DOMAIN stack
  BY <1>2, <1>3
<1> QED BY <1>2, <1>3 DEF Shape, Top

LEMMA PushView ==
  ASSUME Shape, NEW fr, stack' = Append(stack, fr)
  PROVE  /\ IsSeq(stack') /\ Len(stack') = Len(stack) + 1 /\ DOMAIN stack' = 1..(Len(stack) + 1)
         /\ stack' # << >> /\ stack'[Len(stack) + 1] = fr /\ Top' = fr
         /\ \A i \in 1..Len(stack) : stack'[i] = stack[i]
<1>1. IsSeq(stack) /\ Len(stack) \in Nat
  BY StackFacts DEF Shape
<1>2. /\ IsSeq(stack') /\ Len(stack') = Len(stack) + 1 /\ DOMAIN stack' = 1..(Len(stack) + 1)
      /\ stack'[Len(stack) + 1] = fr
      /\ \A i \in 1..Len(stack) : stack'[i] = stack[i]
  <2>1. IsSeq(stack)
    BY <1>1
  <2>2. /\ IsSeq(Append(stack, fr)) /\ Len(Append(stack, fr)) = Len(stack) + 1
        /\ DOMAIN Append(stack, fr) = 1..(Len(stack) + 1) /\ Append(stack, fr)[Len(stack) + 1] = fr
        /\ \A i \in 1..Len(stack) : Append(stack, fr)[i] = stack[i]
    BY ONLY <2>1, PushFacts
  <2> QED BY <2>2
<1>3. stack' # << >>
  BY <1>1, <1>2, SeqFacts
<1> QED BY <1>2, <1>3 DEF Top

LEMMA PopView ==
  ASSUME Shape, stack # << >>, stack' = Below
  PROVE  /\ IsSeq(stack') /\ Len(stack') = Len(stack) - 1 /\ DOMAIN stack' = 1..(Len(stack) - 1)
         /\ stack' # << >> => Len(stack) - 1 \in DOMAIN stack /\ Top' = stack[Len(stack) - 1]
         /\ \A i \in 1..(Len(stack) - 1) : stack'[i] = stack[i]
<1>1. IsSeq(stack) /\ Len(stack) \in Nat /\ Len(stack) >= 1 /\ DOMAIN stack = 1..Len(stack)
  BY StackFacts DEF Shape
<1>2. /\ IsSeq(stack') /\ Len(stack') = Len(stack) - 1 /\ DOMAIN stack' = 1..(Len(stack) - 1)
      /\ \A i \in 1..(Len(stack) - 1) : stack'[i] = stack[i]
  BY <1>1, PopFacts DEF Below
<1>3. ASSUME stack' # << >> PROVE Len(stack) - 1 \in 1..(Len(stack) - 1)
  BY <1>1, <1>2, <1>3, SeqFacts
<1> QED BY <1>1, <1>2, <1>3 DEF Top

LEMMA ReplaceView ==
  ASSUME Shape, stack # << >>, NEW fr, stack' = Append(Below, fr)
  PROVE  /\ IsSeq(stack') /\ Len(stack') = Len(stack) /\ DOMAIN stack' = 1..Len(stack)
         /\ stack' # << >> /\ stack'[Len(stack)] = fr /\ Top' = fr
         /\ \A i \in 1..(Len(stack) - 1) : stack'[i] = stack[i]
<1>1. IsSeq(stack) /\ Len(stack) \in Nat /\ Len(stack) >= 1 /\ DOMAIN stack = 1..Len(stack)
  BY StackFacts DEF Shape
<1>2. /\ IsSeq(stack') /\ Len(stack') = Len(stack) /\ DOMAIN stack' = 1..Len(stack)
      /\ stack'[Len(stack)] = fr
      /\ \A i \in 1..(Len(stack) - 1) : stack'[i] = stack[i]
  <2> DEFINE t == Append(Below, fr)
  <2>1. t = Append(SubSeq(stack, 1, Len(stack) - 1), fr)
    BY DEF Below
  <2>2. stack' = t
    OBVIOUS
  <2> HIDE DEF t
  <2>3. /\ IsSeq(t) /\ Len(t) = Len(stack) /\ DOMAIN t = 1..Len(stack) /\ t[Len(stack)] = fr
        /\ \A i \in 1..(Len(stack) - 1) : t[i] = stack[i]
    <3>1. IsSeq(stack) /\ Len(stack) >= 1
      BY <1>1
    <3> QED BY ONLY <2>1, <3>1, ReplaceFacts
  <2> QED BY <2>2, <2>3
<1>3. stack' # << >>
  BY <1>1, <1>2, SeqFacts
<1> QED BY <1>2, <1>3 DEF Top

LEMMA SplitView ==
  ASSUME Shape, stack # << >>, NEW fr, NEW map, stack' = Append(Append(Below, fr), map)
  PROVE  /\ IsSeq(stack') /\ Len(stack') = Len(stack) + 1 /\ DOMAIN stack' = 1..(Len(stack) + 1)
         /\ stack' # << >> /\ stack'[Len(stack)] = fr /\ stack'[Len(stack) + 1] = map /\ Top' = map
         /\ \A i \in 1..(Len(stack) - 1) : stack'[i] = stack[i]
<1> DEFINE t == Append(Below, fr)
<1>1. IsSeq(stack) /\ Len(stack) \in Nat /\ Len(stack) >= 1 /\ DOMAIN stack = 1..Len(stack)
  BY StackFacts DEF Shape
<1>2. /\ IsSeq(t) /\ Len(t) = Len(stack) /\ t[Len(stack)] = fr
      /\ \A i \in 1..(Len(stack) - 1) : t[i] = stack[i]
  <2>1. t = Append(SubSeq(stack, 1, Len(stack) - 1), fr)
    BY DEF Below
  <2> HIDE DEF t
  <2>2. IsSeq(stack) /\ Len(stack) >= 1
    BY <1>1
  <2> QED BY ONLY <2>1, <2>2, ReplaceFacts
<1>3. stack' = Append(t, map)
  OBVIOUS
<1> HIDE DEF t
<1>4. /\ IsSeq(stack') /\ Len(stack') = Len(t) + 1 /\ DOMAIN stack' = 1..(Len(t) + 1)
      /\ stack'[Len(t) + 1] = map
      /\ \A i \in 1..Len(t) : stack'[i] = t[i]
  <2>1. IsSeq(t)
    BY <1>2
  <2>2. /\ IsSeq(Append(t, map)) /\ Len(Append(t, map)) = Len(t) + 1
        /\ DOMAIN Append(t, map) = 1..(Len(t) + 1) /\ Append(t, map)[Len(t) + 1] = map
        /\ \A i \in 1..Len(t) : Append(t, map)[i] = t[i]
    BY ONLY <2>1, PushFacts
  <2> QED BY <2>2, <1>3
<1>5. stack' # << >>
  BY <1>1, <1>2, <1>4, SeqFacts
<1>6. ASSUME NEW i \in 1..(Len(stack) - 1) PROVE stack'[i] = stack[i]
  <2>1. i \in 1..Len(t)
    BY <1>1, <1>2
  <2> QED BY <1>2, <1>4, <2>1
<1>7. Len(stack) \in 1..Len(t)
  BY <1>1, <1>2
<1>8. /\ Len(stack') = Len(stack) + 1 /\ DOMAIN stack' = 1..(Len(stack) + 1)
      /\ stack'[Len(stack)] = fr /\ stack'[Len(stack) + 1] = map
  BY <1>2, <1>4, <1>7
<1> QED BY <1>4, <1>5, <1>6, <1>8 DEF Top

\* Counting the frames that have something in common
LEMMA CountNext ==
  ASSUME NEW n \in Nat, NEW A \in SUBSET (1..n), NEW B \in SUBSET (1..(n + 1)),
         \A i \in 1..n : i \in A <=> i \in B
  PROVE  Cardinality(A) \in Nat /\ Cardinality(B) = Cardinality(A) + (IF n + 1 \in B THEN 1 ELSE 0)
<1>1. IsFiniteSet(A)
  <2>1. IsFiniteSet(1..n)
    BY FS_Interval
  <2> QED BY <2>1, FS_Subset
<1>i. \A i \in 1..(n + 1) : i \in 1..n \/ i = n + 1
  OBVIOUS
<1>j. n + 1 \notin 1..n /\ \A i \in 1..n : i \in 1..(n + 1)
  OBVIOUS
<1>2. Cardinality(A) \in Nat
  BY <1>1, FS_CardinalityType
<1>3. CASE n + 1 \in B
  <2>1. B = A \cup {n + 1} /\ n + 1 \notin A
    BY <1>3, <1>i, <1>j
  <2>2. Cardinality(A \cup {n + 1}) = Cardinality(A) + 1
    BY <1>1, <2>1, FS_AddElement
  <2> QED BY <1>2, <1>3, <2>1, <2>2
<1>4. CASE n + 1 \notin B
  <2>1. B = A
    BY <1>4, <1>i, <1>j
  <2> QED BY <1>2, <1>4, <2>1
<1> QED BY <1>3, <1>4

\* The arguments of the call do not change while it runs.
LEMMA SameCall ==
  ASSUME CallArgs.ok, call' = call
  PROVE  CallArgs' = CallArgs
<1> DEFINE o == cbor_set_encode_options(call.options)
<1>1. o.ok
  BY DEF CallArgs, Invalid
<1>2. (cbor_set_encode_options(call.options))' = o
  OBVIOUS
<1> QED BY <1>1, <1>2 DEF CallArgs

-----------------------------------------------------------------------------
(* The levels of the recursion before and after.                            *)

\* No level is added: those that are left are as they were.
LEMMA FewerLevels ==
  ASSUME IInv, pc \in Running, pc' \in Running, call' = call,
         Len(stack') \in Nat, Len(stack') <= Len(stack),
         \A i \in Levels' : ArgsAt(i)' = ArgsAt(i) /\ OnAt(i)' = OnAt(i)
  PROVE  Contexts' /\ Outermost'
<1>1. CallArgs.ok /\ CallArgs' = CallArgs
  BY SameCall DEF IInv, Outermost, Running
<1>2. Len(stack) \in Nat
  BY StackFacts DEF IInv
<1>3. 1 \in Levels' /\ \A i \in Levels' : i \in Levels /\ i \in Int
  BY <1>2 DEF Levels
<1>4. Outermost'
  <2>1. ArgsAt(1)' = ArgsAt(1) /\ OnAt(1)' = OnAt(1)
    BY <1>3
  <2> QED BY <1>1, <2>1 DEF IInv, Outermost, Running
<1>5. ASSUME NEW i \in Levels' PROVE LevelOK(ArgsAt(i), OnAt(i))'
  <2>1. LevelOK(ArgsAt(i), OnAt(i))
    BY <1>3 DEF IInv, Contexts, Running
  <2>2. ArgsAt(i)' = ArgsAt(i) /\ OnAt(i)' = OnAt(i)
    OBVIOUS
  <2> QED BY <1>1, <2>1, <2>2 DEF LevelOK
<1>6. ASSUME NEW i \in Levels', NEW j \in Levels', i <= j, "CDE" \in (ArgsAt(i)').e_flags
      PROVE  "CDE" \in (ArgsAt(j)').e_flags
  <2>1. i \in Levels /\ j \in Levels /\ ArgsAt(i)' = ArgsAt(i) /\ ArgsAt(j)' = ArgsAt(j)
    BY <1>3
  <2> QED BY <1>6, <2>1 DEF IInv, Contexts, Running
<1> QED BY <1>4, <1>5, <1>6 DEF Contexts

\* A level is added.
LEMMA AnotherLevel ==
  ASSUME IInv, pc \in Running, pc' \in Running, call' = call,
         Len(stack') = Len(stack) + 1,
         \A i \in Levels : ArgsAt(i)' = ArgsAt(i) /\ OnAt(i)' = OnAt(i),
         LevelOK(args', srns'.on),
         "CDE" \in args.e_flags => "CDE" \in args'.e_flags
  PROVE  Contexts' /\ Outermost'
<1>1. CallArgs.ok /\ CallArgs' = CallArgs
  BY SameCall DEF IInv, Outermost, Running
<1>2. Len(stack) \in Nat
  BY StackFacts DEF IInv
<1> DEFINE N == Len(stack)
<1>3. /\ 1 \in Levels /\ N + 1 \in Levels /\ Levels \subseteq Int
      /\ \A i \in Levels' : i \in Levels \/ i = N + 2
      /\ \A i \in Levels : i <= N + 1
  BY <1>2 DEF Levels
<1>a. /\ ArgsAt(N + 1) = args
      /\ \A i : i = N + 2 => ArgsAt(i)' = args' /\ OnAt(i)' = srns'.on
  <2>1. N + 2 = Len(stack') + 1
    BY <1>2
  <2> QED BY <2>1 DEF ArgsAt, OnAt
<1>4. Outermost'
  <2>1. ArgsAt(1)' = ArgsAt(1) /\ OnAt(1)' = OnAt(1)
    BY <1>3
  <2> QED BY <1>1, <2>1 DEF IInv, Outermost, Running
<1> HIDE DEF N
<1>5. ASSUME NEW i \in Levels' PROVE LevelOK(ArgsAt(i), OnAt(i))'
  <2>1. CASE i \in Levels
    <3>1. LevelOK(ArgsAt(i), OnAt(i)) /\ ArgsAt(i)' = ArgsAt(i) /\ OnAt(i)' = OnAt(i)
      BY <2>1 DEF IInv, Contexts, Running
    <3> QED BY <1>1, <3>1 DEF LevelOK
  <2>2. CASE i = N + 2
    <3>1. ArgsAt(i)' = args' /\ OnAt(i)' = srns'.on
      BY <1>a, <2>2
    <3> QED BY <1>1, <3>1 DEF LevelOK
  <2> QED BY <1>3, <2>1, <2>2
<1>6. ASSUME NEW i \in Levels', NEW j \in Levels', i <= j, "CDE" \in (ArgsAt(i)').e_flags
      PROVE  "CDE" \in (ArgsAt(j)').e_flags
  <2>1. CASE j \in Levels
    <3>1. i \in Levels
      <4>1. j \in Int /\ j <= N + 1 /\ N \in Nat /\ i <= j
        BY <1>2, <1>3, <1>6, <2>1 DEF N
      <4>2. i # N + 2
        BY ONLY <4>1
      <4> QED BY <1>3, <4>2
    <3>2. "CDE" \in ArgsAt(i).e_flags
      BY <1>6, <3>1
    <3>3. "CDE" \in ArgsAt(j).e_flags
      BY <1>6, <2>1, <3>1, <3>2 DEF IInv, Contexts, Running
    <3> QED BY <2>1, <3>3
  <2>2. CASE j = N + 2 /\ i \in Levels
    <3>1. "CDE" \in ArgsAt(i).e_flags
      BY <1>6, <2>2
    <3>2. "CDE" \in ArgsAt(N + 1).e_flags
      BY <1>3, <2>2, <3>1 DEF IInv, Contexts, Running
    <3>3. "CDE" \in args'.e_flags /\ ArgsAt(j)' = args'
      BY <1>a, <2>2, <3>2
    <3> QED BY <3>3
  <2>3. CASE j = N + 2 /\ i = N + 2
    BY <1>6, <2>3
  <2> QED BY <1>3, <2>1, <2>2, <2>3
<1> QED BY <1>4, <1>5, <1>6 DEF Contexts

\* Unless the stack, the arguments or the namespace change, neither do the
\* levels and what is counted.
LEMMA SameStack ==
  ASSUME IInv, pc \in Running, pc' \in Running,
         UNCHANGED <<call, stack, args, in_enc_params, protected>>, KeepsSrns, cur_depth' \in Int
  PROVE  /\ Shape' /\ MarksMatchStack' /\ Chain' /\ Outermost' /\ Contexts' /\ Outside'
         /\ Depth' = Depth /\ Depth \in Nat
<1>1. Len(stack) \in Nat /\ DOMAIN stack = 1..Len(stack)
  BY StackFacts DEF IInv
<1>2. \A i : ArgsAt(i)' = ArgsAt(i) /\ OnAt(i)' = OnAt(i)
  BY DEF ArgsAt, OnAt, KeepsSrns
<1>3. Contexts' /\ Outermost'
  BY <1>1, <1>2, FewerLevels
<1>4. Shape'
  BY DEF IInv, Shape, Running, KeepsSrns
<1>5. MarksMatchStack' /\ Outside'
  BY DEF IInv, MarksMatchStack, Outside, Running
<1>6. Chain'
  BY <1>2 DEF IInv, Chain
<1>7. Depth' = Depth
  BY DEF Depth, InZval
<1>8. Depth \in Nat
  <2>1. IsFiniteSet(1..Len(stack))
    BY <1>1, FS_Interval
  <2>2. IsFiniteSet({i \in DOMAIN stack : InZval(stack[i])})
    BY <1>1, <2>1, FS_Subset
  <2> QED BY <2>2, FS_CardinalityType DEF Depth
<1> QED BY <1>3, <1>4, <1>5, <1>6, <1>7, <1>8

LEMMA EncodesOK == ASSUME IInv, Encodes PROVE IInv'
<1>1. pc = "type" /\ pc' = "ret" /\ pc \in Running /\ pc' \in Running
  BY DEF Encodes, Running
<1>2. cur_depth \in Int /\ cur_depth' = cur_depth - 1
  BY DEF IInv, Shape, Encodes
<1>3. /\ Shape' /\ MarksMatchStack' /\ Chain' /\ Outermost' /\ Contexts' /\ Outside'
      /\ Depth' = Depth /\ Depth \in Nat
  BY <1>1, <1>2, SameStack DEF Encodes
<1>4. Depths'
  BY <1>1, <1>2, <1>3 DEF IInv, Depths
<1>5. Errors'
  <2>1. stack' = stack /\ (stack # << >> => Len(stack) \in DOMAIN stack) /\ Top' = Top
    BY StackFacts DEF IInv, Encodes, Top
  <2>2. stack # << >> => Top.f \notin Starting
    BY <1>1, <2>1 DEF IInv, Errors, Top
  <2>3. \A i \in DOMAIN stack' : stack'[i].f \notin Starting
    BY <1>1, <2>1 DEF IInv, Errors
  <2>4. ResultOK
    BY DEF Encodes
  <2> QED BY <1>1, <2>1, <2>2, <2>3, <2>4 DEF Errors, ResultOK
<1> QED BY <1>3, <1>4, <1>5 DEF IInv

\* Where a function is called, the levels before it stay.
LEMMA PushLevels ==
  ASSUME Shape, NEW fr, stack' = Append(stack, fr), fr.args = args, fr.srns.on = srns.on
  PROVE  /\ \A i \in Levels : ArgsAt(i)' = ArgsAt(i) /\ OnAt(i)' = OnAt(i)
         /\ \A i : i = Len(stack) + 2 => ArgsAt(i)' = args' /\ OnAt(i)' = srns'.on
<1>1. Len(stack) \in Nat /\ DOMAIN stack = 1..Len(stack)
  BY StackFacts
<1>2. /\ Len(stack') = Len(stack) + 1 /\ stack'[Len(stack) + 1] = fr
      /\ \A i \in 1..Len(stack) : stack'[i] = stack[i]
  BY PushView
<1>3. ASSUME NEW i \in Levels PROVE ArgsAt(i)' = ArgsAt(i) /\ OnAt(i)' = OnAt(i)
  <2>1. i \in 1..Len(stack) \/ i = Len(stack) + 1
    BY <1>1 DEF Levels
  <2>2. i # Len(stack') + 1
    BY <1>1, <1>2, <2>1
  <2>3. ArgsAt(i)' = stack'[i].args /\ OnAt(i)' = stack'[i].srns.on
    BY <2>2 DEF ArgsAt, OnAt
  <2>4. CASE i \in 1..Len(stack)
    <3>1. i # Len(stack) + 1
      BY <1>1, <2>4
    <3> QED BY <1>2, <2>3, <2>4, <3>1 DEF ArgsAt, OnAt
  <2>5. CASE i = Len(stack) + 1
    BY <1>2, <2>3, <2>5 DEF ArgsAt, OnAt
  <2> QED BY <2>1, <2>4, <2>5
<1>4. Len(stack) + 2 = Len(stack') + 1
  BY <1>1, <1>2
<1> QED BY <1>3, <1>4 DEF ArgsAt, OnAt

LEMMA PushesOK == ASSUME IInv, NEW fr, Pushes(fr) PROVE IInv'
<1> DEFINE N == Len(stack)
<1>1. N \in Nat /\ DOMAIN stack = 1..N
  BY StackFacts DEF IInv
<1>2. Shape /\ stack' = Append(stack, fr)
  BY DEF IInv, Pushes
<1>3. /\ IsSeq(stack') /\ Len(stack') = N + 1 /\ DOMAIN stack' = 1..(N + 1)
      /\ stack' # << >> /\ stack'[N + 1] = fr /\ Top' = fr
      /\ \A i \in 1..N : stack'[i] = stack[i]
  BY <1>2, PushView
<1>4. pc = "type" /\ pc' \in {"call", "ret"} /\ pc \in Running /\ pc' \in Running
  BY DEF Pushes, Running
<1>5. /\ \A i \in Levels : ArgsAt(i)' = ArgsAt(i) /\ OnAt(i)' = OnAt(i)
      /\ \A i : i = N + 2 => ArgsAt(i)' = args' /\ OnAt(i)' = srns'.on
  BY <1>2, PushLevels DEF Pushes
<1> HIDE DEF N
<1>6. \A i \in 1..(N + 1) : i \in 1..N \/ i = N + 1
  BY <1>1
<1>a. Contexts' /\ Outermost'
  BY <1>3, <1>4, <1>5, AnotherLevel DEF Pushes, N
<1>b. Shape'
  <2>1. \A i \in DOMAIN stack' : FrameOK(stack'[i])
    BY <1>1, <1>2, <1>3, <1>6 DEF Shape, Pushes
  <2> QED BY <1>2, <1>3, <1>4, <2>1 DEF Shape, Pushes, FrameOK
<1>c. Errors'
  <2>1. error = "none" /\ error' = "none" /\ exception' = exception
    BY <1>4 DEF IInv, Errors, Pushes
  <2>2. ASSUME NEW i \in DOMAIN stack', i < Len(stack') \/ pc' \in {"call", "type"}
        PROVE  stack'[i].f \notin Starting
    <3>1. CASE i \in 1..N
      BY <1>1, <1>3, <1>4, <3>1 DEF IInv, Errors
    <3>2. CASE i = N + 1
      <4>1. ~(i < Len(stack'))
        BY <1>1, <1>3, <3>2
      <4> QED BY <1>3, <1>4, <2>2, <3>2, <4>1 DEF Pushes
    <3> QED BY <1>3, <1>6, <3>1, <3>2
  <2> QED BY <1>4, <2>1, <2>2 DEF IInv, Errors
<1>d. Depths'
  <2> DEFINE A == {i \in DOMAIN stack : InZval(stack[i])}
             B == {i \in DOMAIN stack' : InZval(stack'[i])}
  <2>1. A \in SUBSET (1..N) /\ B \in SUBSET (1..(N + 1)) /\ N + 1 \in B
    <3>1. N + 1 \in DOMAIN stack'
      BY <1>1, <1>3
    <3> QED BY <1>1, <1>3, <3>1 DEF Pushes, InZval
  <2>2. \A i \in 1..N : i \in A <=> i \in B
    <3>1. \A i \in 1..N : i \in 1..(N + 1)
      BY <1>1
    <3> QED BY <1>1, <1>3, <3>1 DEF InZval
  <2>3. Depth = Cardinality(A) /\ Depth' = Cardinality(B)
    BY DEF Depth, InZval
  <2> HIDE DEF A, B
  <2>4. Cardinality(A) \in Nat /\ Cardinality(B) = Cardinality(A) + 1
    BY <1>1, <2>1, <2>2, CountNext
  <2>5. cur_depth = Depth + 1 /\ cur_depth' = cur_depth
    BY <1>4 DEF IInv, Depths, Pushes
  <2> QED BY <1>4, <2>3, <2>4, <2>5 DEF Depths
<1>e. MarksMatchStack'
  <2>1. protected' = {stack'[i].n : i \in {j \in DOMAIN stack' : stack'[j].f \in Protecting}}
    <3>1. protected = {stack[i].n : i \in {j \in DOMAIN stack : stack[j].f \in Protecting}}
      BY DEF IInv, MarksMatchStack
    <3>2. \A j \in 1..N : j \in 1..(N + 1)
      BY <1>1
    <3>3. N + 1 \in 1..(N + 1)
      BY <1>1
    <3>4. CASE fr.f \in Protecting /\ protected' = protected \cup {fr.n}
      <4>1. ASSUME NEW x \in protected'
            PROVE  \E i \in DOMAIN stack' : stack'[i].f \in Protecting /\ x = stack'[i].n
        BY <1>1, <1>3, <3>1, <3>2, <3>3, <3>4
      <4>2. ASSUME NEW i \in DOMAIN stack', stack'[i].f \in Protecting PROVE stack'[i].n \in protected'
        BY <1>1, <1>3, <1>6, <3>1, <3>4, <4>2
      <4> QED BY <4>1, <4>2
    <3>5. CASE fr.f \notin Protecting /\ protected' = protected
      <4>1. ASSUME NEW x \in protected'
            PROVE  \E i \in DOMAIN stack' : stack'[i].f \in Protecting /\ x = stack'[i].n
        BY <1>1, <1>3, <3>1, <3>2, <3>5
      <4>2. ASSUME NEW i \in DOMAIN stack', stack'[i].f \in Protecting PROVE stack'[i].n \in protected'
        BY <1>1, <1>3, <1>6, <3>1, <3>5, <4>2
      <4> QED BY <4>1, <4>2
    <3> QED BY <3>4, <3>5 DEF Pushes
  <2>2. ASSUME NEW i \in DOMAIN stack', NEW j \in DOMAIN stack', i # j,
               stack'[i].f \in Protecting, stack'[j].f \in Protecting
        PROVE  stack'[i].n # stack'[j].n
    <3>1. \A k \in 1..N : stack[k].f \in Protecting => stack[k].n \in protected
      BY <1>1 DEF IInv, MarksMatchStack
    <3>2. fr.f \in Protecting => fr.n \notin protected
      BY DEF Pushes
    <3>3. CASE i \in 1..N /\ j \in 1..N
      BY <1>1, <1>3, <2>2, <3>3 DEF IInv, MarksMatchStack
    <3>4. CASE i = N + 1 /\ j \in 1..N
      BY <1>3, <2>2, <3>1, <3>2, <3>4
    <3>5. CASE i \in 1..N /\ j = N + 1
      BY <1>3, <2>2, <3>1, <3>2, <3>5
    <3> QED BY <1>3, <1>6, <2>2, <3>3, <3>4, <3>5
  <2>3. in_enc_params' = Cardinality({i \in DOMAIN stack' : stack'[i].f = "encodeparams" /\ stack'[i].flag})
    <3> DEFINE A == {i \in DOMAIN stack : stack[i].f = "encodeparams" /\ stack[i].flag}
               B == {i \in DOMAIN stack' : stack'[i].f = "encodeparams" /\ stack'[i].flag}
    <3>1. A \in SUBSET (1..N) /\ B \in SUBSET (1..(N + 1))
      BY <1>1, <1>3
    <3>2. \A i \in 1..N : i \in A <=> i \in B
      <4>1. \A i \in 1..N : i \in 1..(N + 1)
        BY <1>1
      <4> QED BY <1>1, <1>3, <4>1
    <3>3. N + 1 \in B <=> IsParams(fr)
      <4>1. N + 1 \in DOMAIN stack'
        BY <1>1, <1>3
      <4> QED BY <1>3, <4>1 DEF IsParams
    <3>4. in_enc_params = Cardinality(A)
      BY DEF IInv, MarksMatchStack
    <3> HIDE DEF A, B
    <3>5. Cardinality(B) = Cardinality(A) + (IF N + 1 \in B THEN 1 ELSE 0)
      BY <1>1, <3>1, <3>2, CountNext
    <3>6. in_enc_params' = Cardinality(B)
      BY <3>3, <3>4, <3>5 DEF Pushes
    <3> QED BY <3>6 DEF B
  <2> QED BY <2>1, <2>2, <2>3 DEF MarksMatchStack
<1>f. Chain'
  <2> SUFFICES ASSUME NEW i \in DOMAIN stack'
               PROVE  /\ stack'[i].f # "encodeparams" => ArgsAt(i + 1)' = stack'[i].args
                      /\ ~(stack'[i].f = "tag" /\ stack'[i].flag) => OnAt(i + 1)' = stack'[i].srns.on
    BY DEF Chain
  <2>1. CASE i \in 1..N
    <3>1. i + 1 \in Levels
      BY <1>1, <2>1 DEF Levels, N
    <3> DEFINE k == i + 1
    <3>2. ArgsAt(k)' = ArgsAt(k) /\ OnAt(k)' = OnAt(k)
      BY <1>5, <3>1
    <3> QED BY <1>1, <1>3, <2>1, <3>2 DEF IInv, Chain
  <2>2. CASE i = N + 1
    <3> DEFINE k == i + 1
    <3>1. k = N + 2
      BY <1>1, <2>2
    <3>2. ArgsAt(k)' = args' /\ OnAt(k)' = srns'.on
      BY <1>5, <3>1
    <3>3. stack'[i] = fr
      BY <1>3, <2>2
    <3> QED BY <3>2, <3>3 DEF Pushes, IsNamespace
  <2> QED BY <1>3, <1>6, <2>1, <2>2
<1>g. Outside'
  BY <1>4 DEF Outside
<1> QED BY <1>a, <1>b, <1>c, <1>d, <1>e, <1>f, <1>g DEF IInv

\* Where a function returns, the level of what called it is the last.
LEMMA PopLevels ==
  ASSUME Shape, stack # << >>, stack' = Below, args' = Top.args, srns'.on = Top.srns.on
  PROVE  \A i \in Levels' : ArgsAt(i)' = ArgsAt(i) /\ OnAt(i)' = OnAt(i)
<1> DEFINE N == Len(stack)
<1>1. N \in Nat /\ N >= 1
  BY StackFacts
<1>2. Len(stack') = N - 1 /\ \A i \in 1..(N - 1) : stack'[i] = stack[i]
  BY PopView
<1> SUFFICES ASSUME NEW i \in Levels' PROVE ArgsAt(i)' = ArgsAt(i) /\ OnAt(i)' = OnAt(i)
  OBVIOUS
<1>3. Levels' = 1..N
  BY <1>1, <1>2 DEF Levels
<1>4. i # N + 1
  BY <1>1, <1>3
<1>5. ArgsAt(i) = stack[i].args /\ OnAt(i) = stack[i].srns.on
  BY <1>4 DEF ArgsAt, OnAt
<1>6. CASE i = N
  <2>1. i = Len(stack') + 1
    BY <1>1, <1>2, <1>6
  <2> QED BY <1>5, <1>6, <2>1 DEF ArgsAt, OnAt, Top
<1>7. CASE i # N
  <2>1. i \in 1..(N - 1) /\ i # Len(stack') + 1
    BY <1>1, <1>2, <1>3, <1>7
  <2> QED BY <1>2, <1>5, <2>1 DEF ArgsAt, OnAt
<1> QED BY <1>6, <1>7

LEMMA PopsOK == ASSUME IInv, Pops PROVE IInv'
<1> DEFINE N == Len(stack)  M == Len(stack) - 1
<1>1. N \in Nat /\ N >= 1 /\ DOMAIN stack = 1..N /\ N \in DOMAIN stack /\ FrameOK(Top)
  BY StackFacts DEF IInv, Pops
<1>2. Shape /\ stack # << >> /\ stack' = Below
  BY DEF IInv, Pops
<1>3. /\ IsSeq(stack') /\ Len(stack') = M /\ DOMAIN stack' = 1..M
      /\ stack' # << >> => M \in DOMAIN stack /\ Top' = stack[M]
      /\ \A i \in 1..M : stack'[i] = stack[i]
  BY <1>2, PopView
<1>4. pc = "ret" /\ pc' = "ret" /\ pc \in Running /\ pc' \in Running
  BY DEF Pops, Running
<1>5. \A i \in Levels' : ArgsAt(i)' = ArgsAt(i) /\ OnAt(i)' = OnAt(i)
  BY <1>2, PopLevels DEF Pops
<1>7. Top = stack[N] /\ M = N - 1
  BY DEF Top
<1> HIDE DEF N, M
<1>6. M \in Nat /\ N = M + 1 /\ \A i \in 1..M : i \in 1..N /\ i < N /\ i # N
  <2>1. N \in Nat /\ N >= 1 /\ M = N - 1
    BY <1>1, <1>7
  <2> QED BY ONLY <2>1
<1>8. \A i \in 1..N : i \in 1..M \/ i = N
  <2>1. N \in Nat /\ N >= 1 /\ M = N - 1
    BY <1>1, <1>7
  <2> QED BY ONLY <2>1
<1>9. Len(stack') \in Nat /\ Len(stack') <= Len(stack)
  BY <1>3, <1>6 DEF N
<1>a. Contexts' /\ Outermost'
  BY <1>4, <1>5, <1>9, FewerLevels DEF Pops
<1>b. Shape'
  <2>1. \A i \in DOMAIN stack' : FrameOK(stack'[i])
    BY <1>1, <1>2, <1>3, <1>6 DEF Shape
  <2>2. ArgsOK(args') /\ SrnsOK(srns')
    BY <1>1 DEF Pops, FrameOK
  <2>3. cur_depth' \in Int
    BY <1>2 DEF Pops, Shape
  <2> QED BY <1>3, <1>4, <2>1, <2>2, <2>3 DEF Shape
<1>c. Errors'
  <2>1. ASSUME NEW i \in DOMAIN stack' PROVE stack'[i].f \notin Starting
    <3>1. i \in DOMAIN stack /\ i < Len(stack)
      BY <1>1, <1>3, <1>6 DEF N
    <3> QED BY <1>3, <3>1 DEF IInv, Errors
  <2>2. stack' # << >> => Top'.f \notin Starting
    <3>1. ASSUME stack' # << >> PROVE M \in DOMAIN stack /\ M < Len(stack)
      BY <1>3, <1>6, <3>1 DEF N
    <3> QED BY <1>3, <3>1 DEF IInv, Errors
  <2>3. ResultOK
    BY DEF Pops
  <2> QED BY <1>4, <2>1, <2>2, <2>3 DEF Errors, ResultOK
<1>d. Depths'
  <2> DEFINE B == {i \in DOMAIN stack : InZval(stack[i])}
             A == {i \in DOMAIN stack' : InZval(stack'[i])}
  <2>1. A \in SUBSET (1..M) /\ B \in SUBSET (1..(M + 1)) /\ (M + 1 \in B <=> InZval(Top))
    BY <1>1, <1>3, <1>6, <1>7
  <2>2. \A i \in 1..M : i \in A <=> i \in B
    BY <1>1, <1>3, <1>6 DEF InZval
  <2>3. Depth = Cardinality(B) /\ Depth' = Cardinality(A)
    BY DEF Depth, InZval
  <2> HIDE DEF A, B
  <2>4. Cardinality(A) \in Nat /\ Cardinality(B) = Cardinality(A) + (IF M + 1 \in B THEN 1 ELSE 0)
    BY <1>6, <2>1, <2>2, CountNext
  <2>5. cur_depth' = cur_depth - (IF InZval(Top) THEN 1 ELSE 0)
    BY DEF Pops
  <2>6. ASSUME error' # "DEPTH" PROVE cur_depth = Depth
    BY <1>4, <2>6 DEF IInv, Depths, Pops, ResultOK
  <2>7. ASSUME error' # "DEPTH" PROVE cur_depth' = Depth'
    <3> HIDE DEF InZval
    <3>1. CASE InZval(Top)
      BY <2>1, <2>3, <2>4, <2>5, <2>6, <2>7, <3>1
    <3>2. CASE ~InZval(Top)
      BY <2>1, <2>3, <2>4, <2>5, <2>6, <2>7, <3>2
    <3> QED BY <3>1, <3>2
  <2> QED BY <1>4, <2>7 DEF Depths
<1>e. MarksMatchStack'
  <2>0. /\ protected = {stack[i].n : i \in {j \in DOMAIN stack : stack[j].f \in Protecting}}
        /\ \A i, j \in DOMAIN stack :
             i # j /\ stack[i].f \in Protecting /\ stack[j].f \in Protecting => stack[i].n # stack[j].n
    BY DEF IInv, MarksMatchStack
  <2>1. protected' = {stack'[i].n : i \in {j \in DOMAIN stack' : stack'[j].f \in Protecting}}
    <3>1. CASE Top.f \in Protecting
      <4>0. protected' = protected \ {Top.n}
        BY <3>1 DEF Pops
      <4>1. ASSUME NEW x \in protected'
            PROVE  \E i \in DOMAIN stack' : stack'[i].f \in Protecting /\ x = stack'[i].n
        <5>1. PICK i \in DOMAIN stack : stack[i].f \in Protecting /\ x = stack[i].n
          BY <2>0, <4>0
        <5>2. i # N
          BY <1>7, <4>0, <5>1
        <5> QED BY <1>1, <1>3, <1>8, <5>1, <5>2
      <4>2. ASSUME NEW i \in DOMAIN stack', stack'[i].f \in Protecting PROVE stack'[i].n \in protected'
        <5>1. i \in DOMAIN stack /\ stack'[i] = stack[i] /\ i # N
          BY <1>1, <1>3, <1>6
        <5>2. stack[i].n # Top.n
          BY <1>1, <1>7, <2>0, <3>1, <4>2, <5>1
        <5> QED BY <2>0, <4>0, <4>2, <5>1, <5>2
      <4> QED BY <4>1, <4>2
    <3>2. CASE Top.f \notin Protecting
      <4>0. protected' = protected
        BY <3>2 DEF Pops
      <4>1. ASSUME NEW x \in protected'
            PROVE  \E i \in DOMAIN stack' : stack'[i].f \in Protecting /\ x = stack'[i].n
        <5>1. PICK i \in DOMAIN stack : stack[i].f \in Protecting /\ x = stack[i].n
          BY <2>0, <4>0
        <5>2. i # N
          BY <1>7, <3>2, <5>1
        <5> QED BY <1>1, <1>3, <1>8, <5>1, <5>2
      <4>2. ASSUME NEW i \in DOMAIN stack', stack'[i].f \in Protecting PROVE stack'[i].n \in protected'
        <5>1. i \in DOMAIN stack /\ stack'[i] = stack[i]
          BY <1>1, <1>3, <1>6
        <5> QED BY <2>0, <4>0, <4>2, <5>1
      <4> QED BY <4>1, <4>2
    <3> QED BY <3>1, <3>2
  <2>2. ASSUME NEW i \in DOMAIN stack', NEW j \in DOMAIN stack', i # j,
               stack'[i].f \in Protecting, stack'[j].f \in Protecting
        PROVE  stack'[i].n # stack'[j].n
    <3>1. i \in DOMAIN stack /\ j \in DOMAIN stack /\ stack'[i] = stack[i] /\ stack'[j] = stack[j]
      BY <1>1, <1>3, <1>6
    <3> QED BY <2>0, <2>2, <3>1
  <2>3. in_enc_params' = Cardinality({i \in DOMAIN stack' : stack'[i].f = "encodeparams" /\ stack'[i].flag})
    <3> DEFINE B == {i \in DOMAIN stack : stack[i].f = "encodeparams" /\ stack[i].flag}
               A == {i \in DOMAIN stack' : stack'[i].f = "encodeparams" /\ stack'[i].flag}
    <3>1. A \in SUBSET (1..M) /\ B \in SUBSET (1..(M + 1)) /\ (M + 1 \in B <=> IsParams(Top))
      BY <1>1, <1>3, <1>6, <1>7 DEF IsParams
    <3>2. \A i \in 1..M : i \in A <=> i \in B
      BY <1>1, <1>3, <1>6
    <3>3. in_enc_params = Cardinality(B)
      BY DEF IInv, MarksMatchStack
    <3>4. in_enc_params' = in_enc_params - (IF IsParams(Top) THEN 1 ELSE 0)
      BY DEF Pops
    <3> HIDE DEF A, B
    <3>5. Cardinality(A) \in Nat /\ Cardinality(B) = Cardinality(A) + (IF M + 1 \in B THEN 1 ELSE 0)
      BY <1>6, <3>1, <3>2, CountNext
    <3>6. in_enc_params' = Cardinality(A)
      <4>1. CASE IsParams(Top)
        BY <3>1, <3>3, <3>4, <3>5, <4>1
      <4>2. CASE ~IsParams(Top)
        BY <3>1, <3>3, <3>4, <3>5, <4>2
      <4> QED BY <4>1, <4>2
    <3> QED BY <3>6 DEF A
  <2> QED BY <2>1, <2>2, <2>3 DEF MarksMatchStack
<1>f. Chain'
  <2> SUFFICES ASSUME NEW i \in DOMAIN stack'
               PROVE  /\ stack'[i].f # "encodeparams" => ArgsAt(i + 1)' = stack'[i].args
                      /\ ~(stack'[i].f = "tag" /\ stack'[i].flag) => OnAt(i + 1)' = stack'[i].srns.on
    BY DEF Chain
  <2> DEFINE k == i + 1
  <2>1. i \in DOMAIN stack /\ stack'[i] = stack[i]
    BY <1>1, <1>3, <1>6
  <2>2. k \in Levels'
    BY <1>3, <1>6 DEF Levels
  <2>3. ArgsAt(k)' = ArgsAt(k) /\ OnAt(k)' = OnAt(k)
    BY <1>5, <2>2
  <2> QED BY <2>1, <2>3 DEF IInv, Chain
<1>g. Outside'
  BY <1>4 DEF Outside
<1> QED BY <1>a, <1>b, <1>c, <1>d, <1>e, <1>f, <1>g DEF IInv

\* Frames that mark the same values leave the marks as they are.
LEMMA SameMarks ==
  ASSUME MarksMatchStack, NEW N \in Nat, NEW K \in Nat, DOMAIN stack = 1..N, DOMAIN stack' = 1..K,
         N <= K,
         \A i \in 1..N : stack'[i].n = stack[i].n /\ (stack'[i].f \in Protecting <=> stack[i].f \in Protecting),
         \A i \in 1..K : i > N => stack'[i].f \notin Protecting,
         protected' = protected
  PROVE  /\ protected' = {stack'[i].n : i \in {j \in DOMAIN stack' : stack'[j].f \in Protecting}}
         /\ \A i, j \in DOMAIN stack' :
              i # j /\ stack'[i].f \in Protecting /\ stack'[j].f \in Protecting => stack'[i].n # stack'[j].n
<1>0. /\ protected = {stack[i].n : i \in {j \in DOMAIN stack : stack[j].f \in Protecting}}
      /\ \A i, j \in DOMAIN stack :
           i # j /\ stack[i].f \in Protecting /\ stack[j].f \in Protecting => stack[i].n # stack[j].n
  BY DEF MarksMatchStack
<1>1. \A i \in 1..K : stack'[i].f \in Protecting => i \in 1..N
  OBVIOUS
<1>2. \A i \in 1..N : i \in 1..K
  OBVIOUS
<1>3. ASSUME NEW x \in protected'
      PROVE  \E i \in DOMAIN stack' : stack'[i].f \in Protecting /\ x = stack'[i].n
  <2>1. PICK i \in DOMAIN stack : stack[i].f \in Protecting /\ x = stack[i].n
    BY <1>0
  <2> QED BY <1>2, <2>1
<1>4. ASSUME NEW i \in DOMAIN stack', stack'[i].f \in Protecting PROVE stack'[i].n \in protected'
  BY <1>0, <1>1, <1>4
<1> QED BY <1>0, <1>1, <1>3, <1>4

LEMMA ReplacesOK == ASSUME IInv, NEW fr, Replaces(fr) PROVE IInv'
<1> DEFINE N == Len(stack)
<1>1. N \in Nat /\ N >= 1 /\ DOMAIN stack = 1..N /\ N \in DOMAIN stack /\ FrameOK(Top)
  BY StackFacts DEF IInv, Replaces
<1>2. Shape /\ stack # << >> /\ stack' = Append(Below, fr)
  BY DEF IInv, Replaces
<1>3. /\ IsSeq(stack') /\ Len(stack') = N /\ DOMAIN stack' = 1..N
      /\ stack' # << >> /\ stack'[N] = fr /\ Top' = fr
      /\ \A i \in 1..(N - 1) : stack'[i] = stack[i]
  BY <1>2, ReplaceView
<1>4. pc = "ret" /\ pc' \in {"call", "ret"} /\ pc \in Running /\ pc' \in Running
  BY DEF Replaces, Running
<1>5. Top = stack[N] /\ N = Len(stack)
  BY DEF Top
<1> HIDE DEF N
<1>6. ASSUME NEW i \in 1..N PROVE (i < N /\ i \in 1..(N - 1) /\ stack'[i] = stack[i]) \/ i = N
  <2>1. (i < N /\ i \in 1..(N - 1)) \/ i = N
    BY <1>1
  <2> QED BY <1>3, <2>1
<1>7. \A i \in Levels' : ArgsAt(i)' = ArgsAt(i) /\ OnAt(i)' = OnAt(i)
  <2> SUFFICES ASSUME NEW i \in Levels' PROVE ArgsAt(i)' = ArgsAt(i) /\ OnAt(i)' = OnAt(i)
    OBVIOUS
  <2>1. i \in 1..N \/ i = N + 1
    BY <1>1, <1>3 DEF Levels
  <2>2. CASE i = N + 1
    BY <1>3, <1>5, <2>2 DEF ArgsAt, OnAt, Replaces, KeepsSrns
  <2>3. CASE i \in 1..N
    <3>1. i # N + 1
      BY <1>1, <2>3
    <3>2. stack'[i].args = stack[i].args /\ stack'[i].srns.on = stack[i].srns.on
      BY <1>3, <1>5, <1>6, <2>3 DEF Replaces
    <3> QED BY <1>3, <1>5, <3>1, <3>2 DEF ArgsAt, OnAt
  <2> QED BY <2>1, <2>2, <2>3
<1>8. Len(stack') \in Nat /\ Len(stack') <= Len(stack)
  BY <1>1, <1>3, <1>5
<1>a. Contexts' /\ Outermost'
  BY <1>4, <1>7, <1>8, FewerLevels DEF Replaces
<1>b. Shape'
  <2>1. \A i \in DOMAIN stack' : FrameOK(stack'[i])
    BY <1>1, <1>2, <1>3, <1>6 DEF Shape, Replaces
  <2> QED BY <1>2, <1>3, <1>4, <2>1 DEF Shape, Replaces, KeepsSrns
<1>c. Errors'
  <2>1. error = "none" /\ error' = "none" /\ exception' = exception
    BY DEF Replaces
  <2>2. ASSUME NEW i \in DOMAIN stack', i < Len(stack') \/ pc' \in {"call", "type"}
        PROVE  stack'[i].f \notin Starting
    <3>1. CASE i < N /\ i \in 1..(N - 1) /\ stack'[i] = stack[i]
      BY <1>1, <1>3, <1>5, <3>1 DEF IInv, Errors
    <3>2. CASE i = N
      <4>1. ~(i < Len(stack'))
        BY <1>1, <1>3, <3>2
      <4> QED BY <1>3, <1>4, <2>2, <3>2, <4>1 DEF Replaces
    <3> QED BY <1>3, <1>6, <3>1, <3>2
  <2> QED BY <1>4, <2>1, <2>2 DEF IInv, Errors
<1>d. Depths'
  <2>1. \A i \in 1..N : InZval(stack'[i]) <=> InZval(stack[i])
    BY <1>3, <1>5, <1>6 DEF Replaces
  <2>2. {i \in DOMAIN stack' : InZval(stack'[i])} = {i \in DOMAIN stack : InZval(stack[i])}
    <3> HIDE DEF InZval
    <3> QED BY <1>1, <1>3, <2>1
  <2>3. Depth' = Depth
    BY <2>2 DEF Depth, InZval
  <2>4. cur_depth = Depth /\ cur_depth' = cur_depth
    BY <1>4 DEF IInv, Depths, Replaces
  <2> QED BY <1>4, <2>3, <2>4 DEF Depths
<1>e. MarksMatchStack'
  <2>1. /\ protected' = {stack'[i].n : i \in {j \in DOMAIN stack' : stack'[j].f \in Protecting}}
        /\ \A i, j \in DOMAIN stack' :
             i # j /\ stack'[i].f \in Protecting /\ stack'[j].f \in Protecting => stack'[i].n # stack'[j].n
    <3>1. CASE (fr.f \in Protecting <=> Top.f \in Protecting) /\ protected' = protected
      <4>1. /\ MarksMatchStack /\ N \in Nat /\ N <= N /\ protected' = protected
            /\ DOMAIN stack = 1..N /\ DOMAIN stack' = 1..N
        BY <1>1, <1>3, <3>1 DEF IInv
      <4>2. ASSUME NEW i \in 1..N
            PROVE  stack'[i].n = stack[i].n /\ (stack'[i].f \in Protecting <=> stack[i].f \in Protecting)
        BY <1>3, <1>5, <1>6, <3>1 DEF Replaces
      <4>3. \A i \in 1..N : i > N => stack'[i].f \notin Protecting
        BY <1>1
      <4> QED BY ONLY <4>1, <4>2, <4>3, SameMarks
    <3>2. CASE Top.f \in Protecting /\ fr.f \notin Protecting /\ protected' = protected \ {Top.n}
      <4>0. /\ protected = {stack[i].n : i \in {j \in DOMAIN stack : stack[j].f \in Protecting}}
            /\ \A i, j \in DOMAIN stack :
                 i # j /\ stack[i].f \in Protecting /\ stack[j].f \in Protecting => stack[i].n # stack[j].n
        BY DEF IInv, MarksMatchStack
      <4>i. \A i \in 1..N : i # N => stack'[i] = stack[i]
        BY <1>6
      <4>1. ASSUME NEW x \in protected'
            PROVE  \E i \in DOMAIN stack' : stack'[i].f \in Protecting /\ x = stack'[i].n
        <5>1. PICK i \in DOMAIN stack : stack[i].f \in Protecting /\ x = stack[i].n
          BY <3>2, <4>0
        <5>2. i # N
          BY <1>5, <3>2, <5>1
        <5> QED BY <1>1, <1>3, <4>i, <5>1, <5>2
      <4>2. ASSUME NEW i \in DOMAIN stack', stack'[i].f \in Protecting
            PROVE  i \in DOMAIN stack /\ i # N /\ stack'[i] = stack[i] /\ stack'[i].n \in protected'
        <5>1. i \in DOMAIN stack /\ i # N /\ stack'[i] = stack[i]
          BY <1>1, <1>3, <3>2, <4>2, <4>i
        <5>2. stack[i].n # Top.n
          BY <1>1, <1>5, <3>2, <4>0, <4>2, <5>1
        <5> QED BY <3>2, <4>0, <4>2, <5>1, <5>2
      <4> QED BY <4>0, <4>1, <4>2
    <3> QED BY <3>1, <3>2 DEF Replaces
  <2>2. {i \in DOMAIN stack' : stack'[i].f = "encodeparams" /\ stack'[i].flag}
          = {i \in DOMAIN stack : stack[i].f = "encodeparams" /\ stack[i].flag}
    <3>1. \A i \in 1..N : (stack'[i].f = "encodeparams" /\ stack'[i].flag)
                            <=> (stack[i].f = "encodeparams" /\ stack[i].flag)
      BY <1>3, <1>5, <1>6 DEF Replaces
    <3> QED BY <1>1, <1>3, <3>1
  <2>3. in_enc_params' = Cardinality({i \in DOMAIN stack' : stack'[i].f = "encodeparams" /\ stack'[i].flag})
    BY <2>2 DEF IInv, MarksMatchStack, Replaces
  <2> QED BY <2>1, <2>3 DEF MarksMatchStack
<1>f. Chain'
  <2> SUFFICES ASSUME NEW i \in DOMAIN stack'
               PROVE  /\ stack'[i].f # "encodeparams" => ArgsAt(i + 1)' = stack'[i].args
                      /\ ~(stack'[i].f = "tag" /\ stack'[i].flag) => OnAt(i + 1)' = stack'[i].srns.on
    BY DEF Chain
  <2> DEFINE k == i + 1
  <2>1. i \in DOMAIN stack
    BY <1>1, <1>3
  <2>2. k \in Levels'
    BY <1>1, <1>3 DEF Levels
  <2>3. ArgsAt(k)' = ArgsAt(k) /\ OnAt(k)' = OnAt(k)
    BY <1>7, <2>2
  <2>4. CASE stack'[i] = stack[i]
    BY <2>1, <2>3, <2>4 DEF IInv, Chain
  <2>5. CASE i = N
    <3>1. Top.f \notin {"encodeparams", "tag"} /\ fr.args = Top.args /\ fr.srns.on = Top.srns.on
      BY DEF Replaces
    <3>2. ArgsAt(k) = stack[i].args /\ OnAt(k) = stack[i].srns.on
      BY <1>5, <2>1, <2>5, <3>1 DEF IInv, Chain
    <3> QED BY <1>3, <1>5, <2>3, <2>5, <3>1, <3>2
  <2> QED BY <1>3, <1>6, <2>4, <2>5
<1>g. Outside'
  BY <1>4 DEF Outside
<1> QED BY <1>a, <1>b, <1>c, <1>d, <1>e, <1>f, <1>g DEF IInv

LEMMA SplitsOK == ASSUME IInv, NEW fr, NEW map, Splits(fr, map) PROVE IInv'
<1> DEFINE N == Len(stack)
<1>1. N \in Nat /\ N >= 1 /\ DOMAIN stack = 1..N /\ N \in DOMAIN stack /\ FrameOK(Top)
  BY StackFacts DEF IInv, Splits
<1>2. Shape /\ stack # << >> /\ stack' = Append(Append(Below, fr), map)
  BY DEF IInv, Splits
<1>3. /\ IsSeq(stack') /\ Len(stack') = N + 1 /\ DOMAIN stack' = 1..(N + 1)
      /\ stack' # << >> /\ stack'[N] = fr /\ stack'[N + 1] = map /\ Top' = map
      /\ \A i \in 1..(N - 1) : stack'[i] = stack[i]
  BY <1>2, SplitView
<1>4. pc = "ret" /\ pc' = "ret" /\ pc \in Running /\ pc' \in Running
  BY DEF Splits, Running
<1>5. Top = stack[N] /\ N = Len(stack)
  BY DEF Top
<1> HIDE DEF N
<1>6. ASSUME NEW i \in 1..(N + 1)
      PROVE  \/ i < N /\ i \in 1..N /\ stack'[i] = stack[i]
             \/ i = N /\ i \in 1..N
             \/ i = N + 1 /\ i \notin 1..N
  <2>1. \/ i < N /\ i \in 1..N /\ i \in 1..(N - 1)
        \/ i = N /\ i \in 1..N
        \/ i = N + 1 /\ i \notin 1..N
    BY <1>1
  <2> QED BY <1>3, <2>1
<1>7. /\ \A i \in Levels : ArgsAt(i)' = ArgsAt(i) /\ OnAt(i)' = OnAt(i)
      /\ \A i : i = N + 2 => ArgsAt(i)' = args' /\ OnAt(i)' = srns'.on
  <2>1. ASSUME NEW i \in Levels PROVE ArgsAt(i)' = ArgsAt(i) /\ OnAt(i)' = OnAt(i)
    <3>1. i \in 1..(N + 1) /\ i # Len(stack') + 1 /\ (i \in 1..N => i # N + 1)
      BY <1>1, <1>3, <1>5 DEF Levels
    <3>2. ArgsAt(i)' = stack'[i].args /\ OnAt(i)' = stack'[i].srns.on
      BY <3>1 DEF ArgsAt, OnAt
    <3>3. CASE i \in 1..N
      <4>1. stack'[i].args = stack[i].args /\ stack'[i].srns.on = stack[i].srns.on
        BY <1>3, <1>5, <1>6, <3>1, <3>3 DEF Splits
      <4> QED BY <1>5, <3>1, <3>2, <3>3, <4>1 DEF ArgsAt, OnAt
    <3>4. CASE i = N + 1
      BY <1>3, <1>5, <3>2, <3>4 DEF ArgsAt, OnAt, Splits
    <3> QED BY <1>6, <3>1, <3>3, <3>4
  <2>2. N + 2 = Len(stack') + 1
    BY <1>1, <1>3
  <2> QED BY <2>1, <2>2 DEF ArgsAt, OnAt
<1>a. Contexts' /\ Outermost'
  <2>1. N + 1 \in Levels /\ ArgsAt(N + 1) = args /\ OnAt(N + 1) = srns.on
    BY <1>1, <1>5 DEF Levels, ArgsAt, OnAt
  <2>2. LevelOK(ArgsAt(N + 1), OnAt(N + 1))
    BY <1>4, <2>1 DEF IInv, Contexts
  <2>3. LevelOK(args', srns'.on) /\ args' = args
    BY <2>1, <2>2 DEF Splits
  <2> QED BY <1>3, <1>4, <1>5, <1>7, <2>3, AnotherLevel DEF Splits
<1>b. Shape'
  <2>1. \A i \in DOMAIN stack' : FrameOK(stack'[i])
    BY <1>1, <1>2, <1>3, <1>6 DEF Shape, Splits
  <2> QED BY <1>2, <1>3, <1>4, <2>1 DEF Shape, Splits
<1>c. Errors'
  <2>0. Top.f \in Starting /\ fr.f \notin Starting
    BY DEF Splits, Starting
  <2>1. error = "none" /\ error' = "none" /\ exception' = exception
    BY <1>2, <1>4, <2>0 DEF IInv, Errors, Splits
  <2>2. ASSUME NEW i \in DOMAIN stack', i < Len(stack') PROVE stack'[i].f \notin Starting
    <3>1. CASE i < N /\ i \in 1..N /\ stack'[i] = stack[i]
      BY <1>1, <1>5, <3>1 DEF IInv, Errors
    <3>2. CASE i = N
      BY <1>3, <2>0, <3>2
    <3>3. i # N + 1
      BY <1>1, <1>3, <2>2
    <3> QED BY <1>3, <1>6, <3>1, <3>2, <3>3
  <2> QED BY <1>4, <2>1, <2>2 DEF IInv, Errors
<1>d. Depths'
  <2> DEFINE A == {i \in DOMAIN stack : InZval(stack[i])}
             B == {i \in DOMAIN stack' : InZval(stack'[i])}
  <2>1. A \in SUBSET (1..N) /\ B \in SUBSET (1..(N + 1)) /\ N + 1 \notin B
    BY <1>1, <1>3 DEF Splits, InZval
  <2>2. \A i \in 1..N : i \in A <=> i \in B
    <3>1. \A i \in 1..N : i \in 1..(N + 1)
      BY <1>1
    <3>2. \A i \in 1..N : InZval(stack'[i]) <=> InZval(stack[i])
      BY <1>3, <1>5, <1>6, <3>1 DEF Splits, InZval
    <3> HIDE DEF InZval
    <3> QED BY <1>1, <1>3, <3>1, <3>2
  <2>3. Depth = Cardinality(A) /\ Depth' = Cardinality(B)
    BY DEF Depth, InZval
  <2> HIDE DEF A, B
  <2>4. Cardinality(A) \in Nat /\ Cardinality(B) = Cardinality(A) + (IF N + 1 \in B THEN 1 ELSE 0)
    BY <1>1, <2>1, <2>2, CountNext
  <2>5. Cardinality(B) = Cardinality(A)
    BY <2>1, <2>4
  <2>6. cur_depth = Depth /\ cur_depth' = cur_depth
    <3>1. error = "none"
      BY <1>2, <1>4 DEF IInv, Errors, Splits, Starting
    <3> QED BY <1>4, <3>1 DEF IInv, Depths, Splits
  <2> QED BY <1>4, <2>3, <2>5, <2>6 DEF Depths
<1>e. MarksMatchStack'
  <2> DEFINE K == N + 1
  <2>1. /\ protected' = {stack'[i].n : i \in {j \in DOMAIN stack' : stack'[j].f \in Protecting}}
        /\ \A i, j \in DOMAIN stack' :
             i # j /\ stack'[i].f \in Protecting /\ stack'[j].f \in Protecting => stack'[i].n # stack'[j].n
    <3>1. /\ MarksMatchStack /\ N \in Nat /\ K \in Nat /\ N <= K /\ protected' = protected
          /\ DOMAIN stack = 1..N /\ DOMAIN stack' = 1..K
      BY <1>1, <1>3 DEF IInv, Splits
    <3>2. ASSUME NEW i \in 1..N
          PROVE  stack'[i].n = stack[i].n /\ (stack'[i].f \in Protecting <=> stack[i].f \in Protecting)
      <4>1. i \in 1..(N + 1)
        BY <1>1
      <4> QED BY <1>3, <1>5, <1>6, <4>1 DEF Splits, Protecting
    <3>3. ASSUME NEW i \in 1..K, i > N PROVE stack'[i].f \notin Protecting
      <4>1. i = N + 1
        BY <1>1, <3>3
      <4> QED BY <1>3, <4>1 DEF Splits, Protecting
    <3> HIDE DEF K
    <3> QED BY ONLY <3>1, <3>2, <3>3, SameMarks
  <2>2. {i \in DOMAIN stack' : stack'[i].f = "encodeparams" /\ stack'[i].flag}
          = {i \in DOMAIN stack : stack[i].f = "encodeparams" /\ stack[i].flag}
    <3>1. \A i \in 1..N : i \in 1..(N + 1)
      BY <1>1
    <3>2. ASSUME NEW i \in 1..(N + 1)
          PROVE  (stack'[i].f = "encodeparams" /\ stack'[i].flag)
                   <=> (i \in 1..N /\ stack[i].f = "encodeparams" /\ stack[i].flag)
      BY <1>3, <1>5, <1>6 DEF Splits
    <3> QED BY <1>1, <1>3, <3>1, <3>2
  <2>3. in_enc_params' = Cardinality({i \in DOMAIN stack' : stack'[i].f = "encodeparams" /\ stack'[i].flag})
    BY <2>2 DEF IInv, MarksMatchStack, Splits
  <2> QED BY <2>1, <2>3 DEF MarksMatchStack
<1>f. Chain'
  <2> SUFFICES ASSUME NEW i \in DOMAIN stack'
               PROVE  /\ stack'[i].f # "encodeparams" => ArgsAt(i + 1)' = stack'[i].args
                      /\ ~(stack'[i].f = "tag" /\ stack'[i].flag) => OnAt(i + 1)' = stack'[i].srns.on
    BY DEF Chain
  <2> DEFINE k == i + 1
  <2>1. CASE i \in 1..N
    <3>1. k \in Levels
      BY <1>1, <1>5, <2>1 DEF Levels
    <3>2. ArgsAt(k)' = ArgsAt(k) /\ OnAt(k)' = OnAt(k)
      BY <1>7, <3>1
    <3>3. CASE stack'[i] = stack[i]
      BY <1>1, <2>1, <3>2, <3>3 DEF IInv, Chain
    <3>4. CASE i = N
      <4>1. Top.f = "next" /\ fr.args = Top.args /\ fr.srns.on = Top.srns.on
        BY DEF Splits
      <4>2. ArgsAt(k) = stack[i].args /\ OnAt(k) = stack[i].srns.on
        BY <1>1, <1>5, <2>1, <3>4, <4>1 DEF IInv, Chain
      <4> QED BY <1>3, <1>5, <3>2, <3>4, <4>1, <4>2
    <3> QED BY <1>3, <1>6, <2>1, <3>3, <3>4
  <2>2. CASE i = N + 1
    <3>1. k = N + 2
      BY <1>1, <2>2
    <3>2. ArgsAt(k)' = args' /\ OnAt(k)' = srns'.on
      BY <1>7, <3>1
    <3>3. stack'[i] = map
      BY <1>3, <2>2
    <3> QED BY <3>2, <3>3 DEF Splits
  <2> QED BY <1>3, <1>6, <2>1, <2>2
<1>g. Outside'
  BY <1>4 DEF Outside
<1> QED BY <1>a, <1>b, <1>c, <1>d, <1>e, <1>f, <1>g DEF IInv

-----------------------------------------------------------------------------
(* What the steps are made of.                                              *)

\* Strings get an index only in the namespace there is, and enc_string does
\* not run user code.
LEMMA StringOK ==
  ASSUME SrnsOK(srns), NEW s, NEW to_text
  PROVE  /\ SrnsOK(enc_string(s, to_text).srns) /\ enc_string(s, to_text).srns.on = srns.on
         /\ enc_string(s, to_text).error \in {"none", "INTERNAL", "UTF8"}
<1> DEFINE t == [srns EXCEPT !.tab = Append(@, TableEntry(s, to_text))]
<1>1. SrnsOK(t) /\ t.on = srns.on
  BY DEF SrnsOK
<1> HIDE DEF t
<1>2. enc_string(s, to_text).srns \in {srns, t}
  BY DEF enc_string, StringResult, t
<1>3. enc_string(s, to_text).error \in {"none", "INTERNAL", "UTF8"}
  BY DEF enc_string, StringResult
<1> QED BY <1>1, <1>2, <1>3

LEMMA KeyOK ==
  ASSUME SrnsOK(srns), NEW key
  PROVE  /\ SrnsOK(EncKey(key).srns) /\ EncKey(key).srns.on = srns.on
         /\ EncKey(key).error \in {"none", "INVALID_FLAGS", "INTERNAL", "UTF8"}
<1> DEFINE str == IF key.k = "str" THEN key.s ELSE IntToStr(key.n)
           r == enc_string(str, Has("KEY_TEXT"))
<1>1. SrnsOK(r.srns) /\ r.srns.on = srns.on /\ r.error \in {"none", "INTERNAL", "UTF8"}
  BY StringOK
<1>2. EncKey(key) = r \/ (EncKey(key).srns = srns /\ EncKey(key).error \in {"none", "INVALID_FLAGS"})
  BY DEF EncKey, StringResult
<1> HIDE DEF r
<1> QED BY <1>1, <1>2

\* The arguments that are found to be right: deterministic encoding goes with
\* neither option.
LEMMA CheckedOK ==
  ASSUME NEW a, ArgsOK(a), CheckParams(a).ok
  PROVE  /\ ArgsOK(CheckParams(a).v)
         /\ CheckParams(a).v.string_ref = a.string_ref /\ CheckParams(a).v.shared_ref = a.shared_ref
         /\ CheckParams(a).v.u_flags = a.u_flags
         /\ "CDE" \in CheckParams(a).v.e_flags <=> "CDE" \in a.u_flags
         /\ "CDE" \in a.u_flags => a.string_ref = "false" /\ a.shared_ref = "false"
<1> DEFINE b == [a EXCEPT !.e_flags = a.u_flags \cup
                   (IF "CDE" \in a.u_flags THEN {"FLOAT16", "FLOAT32", "MAP_NO_DUP_KEY"} ELSE {})]
<1>1. CheckParams(a).v = b
  BY DEF CheckParams, Set, Invalid
<1>2. "CDE" \in a.u_flags => a.string_ref = "false" /\ a.shared_ref = "false"
  BY DEF CheckParams, Set, Invalid
<1>3. ArgsOK(b) /\ b.string_ref = a.string_ref /\ b.shared_ref = a.shared_ref /\ b.u_flags = a.u_flags
  BY DEF ArgsOK
<1>4. b.e_flags = a.u_flags \cup
                   (IF "CDE" \in a.u_flags THEN {"FLOAT16", "FLOAT32", "MAP_NO_DUP_KEY"} ELSE {})
  BY DEF ArgsOK
<1> HIDE DEF b
<1>5. "CDE" \in b.e_flags <=> "CDE" \in a.u_flags
  BY <1>4
<1> QED BY <1>1, <1>2, <1>3, <1>5

\* What EncodeParams makes of the arguments: CBOR_CDE is not taken away.
LEMMA OverriddenOK ==
  ASSUME NEW par, ArgsOK(args), "CDE" \notin par.clear
  PROVE  /\ ArgsOK(OverriddenArgs(par))
         /\ OverriddenArgs(par).string_ref = args.string_ref
         /\ OverriddenArgs(par).shared_ref = args.shared_ref
         /\ "CDE" \in args.u_flags => "CDE" \in OverriddenArgs(par).u_flags
<1> DEFINE flags == ((args.u_flags \ par.clear) \ MutexFlags(par.set)) \cup par.set
<1>1. /\ ArgsOK(OverriddenArgs(par))
      /\ OverriddenArgs(par).string_ref = args.string_ref
      /\ OverriddenArgs(par).shared_ref = args.shared_ref
      /\ OverriddenArgs(par).u_flags = flags
  BY DEF OverriddenArgs, ArgsOK
<1>2. "CDE" \notin MutexFlags(par.set)
  BY DEF MutexFlags
<1>3. "CDE" \in args.u_flags => "CDE" \in flags
  BY <1>2
<1> QED BY <1>1, <1>3

LEMMA NewFrameOK ==
  ASSUME ArgsOK(args), SrnsOK(srns), NEW type \in FrameType, NEW node
  PROVE  LET fr == NewFrame(type, node)
         IN  /\ FrameOK(fr) /\ fr.f = type /\ fr.n = node /\ fr.args = args /\ fr.srns = srns
             /\ ~fr.flag
  BY DEF NewFrame, FrameOK

\* The arguments in effect
LEMMA NowOK ==
  ASSUME IInv, pc \in Running
  PROVE  LevelOK(args, srns.on) /\ ArgsOK(args) /\ SrnsOK(srns)
<1>1. Len(stack) \in Nat
  BY StackFacts DEF IInv
<1>2. Len(stack) + 1 \in Levels
  BY <1>1 DEF Levels
<1>3. ArgsAt(Len(stack) + 1) = args /\ OnAt(Len(stack) + 1) = srns.on
  BY DEF ArgsAt, OnAt
<1>4. LevelOK(ArgsAt(Len(stack) + 1), OnAt(Len(stack) + 1))
  BY <1>2 DEF IInv, Contexts, Running
<1> QED BY <1>3, <1>4 DEF IInv, Shape

\* At the switch of enc_zval
LEMMA TypeFacts ==
  ASSUME IInv, pc = "type"
  PROVE  /\ error = "none" /\ exception = "none" /\ ArgsOK(args) /\ SrnsOK(srns)
         /\ LevelOK(args, srns.on)
  BY NowOK DEF IInv, Errors, Running

\* Where a function goes on
LEMMA TopFacts ==
  ASSUME IInv, pc = "ret", stack # << >>
  PROVE  /\ FrameOK(Top) /\ ArgsOK(args) /\ SrnsOK(srns)
         /\ Top.f # "encodeparams" => Top.args = args
         /\ ~IsNamespace(Top) => Top.srns.on = srns.on
         /\ exception \in {"none", "user"} /\ (exception = "user" <=> error = "EXCEPTION")
         /\ Top.f \in Starting => error = "none"
<1>1. FrameOK(Top) /\ Len(stack) \in DOMAIN stack
  BY StackFacts DEF IInv
<1>2. ArgsAt(Len(stack) + 1) = args /\ OnAt(Len(stack) + 1) = srns.on
  BY DEF ArgsAt, OnAt
<1> QED BY <1>1, <1>2 DEF IInv, Shape, Errors, Chain, Top, IsNamespace

-----------------------------------------------------------------------------
(* The steps of enc_zval that call nothing.                                 *)

\* enc_zval returns a result of its own.
LEMMA EncodedOK ==
  ASSUME IInv, pc = "type", pc' = "ret", cur_depth' = cur_depth - 1,
         UNCHANGED <<call, stack, args, in_enc_params, protected>>, KeepsSrns,
         \/ error' # "EXCEPTION" /\ exception' = exception
         \/ error' = "EXCEPTION" /\ exception' = "user"
  PROVE  IInv'
<1>1. error = "none" /\ exception = "none"
  BY TypeFacts
<1>2. ResultOK
  BY <1>1 DEF ResultOK
<1> QED BY <1>2, EncodesOK DEF Encodes

LEMMA EncodedStringOK ==
  ASSUME IInv, pc = "type", NEW before, NEW s, NEW to_text, EncString(before, s, to_text),
         UNCHANGED <<call, exception, stack, args, in_enc_params, protected>>
  PROVE  IInv'
<1>1. SrnsOK(srns)
  BY TypeFacts
<1> DEFINE r == enc_string(s, to_text)
<1>2. SrnsOK(r.srns) /\ r.srns.on = srns.on /\ r.error \in {"none", "INTERNAL", "UTF8"}
  BY <1>1, StringOK
<1>3. srns' = r.srns /\ error' = r.error /\ pc' = "ret" /\ cur_depth' = cur_depth - 1
  BY DEF EncString, Encoded
<1> HIDE DEF r
<1>4. KeepsSrns
  BY <1>2, <1>3 DEF KeepsSrns
<1> QED BY <1>2, <1>3, <1>4, EncodedOK

LEMMA BigIntOK ==
  ASSUME IInv, pc = "type", NEW before, NEW v, NEW is_negative, BigInt(before, v, is_negative),
         UNCHANGED <<call, exception, stack, args, in_enc_params, protected>>
  PROVE  IInv'
<1>1. SrnsOK(srns)
  BY TypeFacts
<1>2. CASE Encoded("none") /\ UNCHANGED srns
  BY <1>1, <1>2, EncodedOK DEF Encoded, KeepsSrns
<1>3. CASE EncString(Append(before, WriteInt("tag", IF is_negative THEN 3 ELSE 2)), v.s, FALSE)
  BY <1>3, EncodedStringOK
<1> QED BY <1>2, <1>3 DEF BigInt

LEMMA LeafSteps ==
  ASSUME IInv,
         \/ EncScalar \/ EncFloatx \/ EncStr \/ EncXString
         \/ EncDateTime \/ EncBignum \/ EncDecimal \/ EncUri \/ EncUnsupported
  PROVE  IInv'
<1>0. ASSUME pc = "type", UNCHANGED srns PROVE KeepsSrns
  BY <1>0, TypeFacts DEF KeepsSrns
<1>1. CASE EncScalar
  BY <1>0, <1>1, EncodedOK DEF EncScalar, Encoded
<1>2. CASE EncFloatx
  BY <1>0, <1>2, EncodedOK DEF EncFloatx, Encoded, AtObject
<1>3. CASE EncStr
  <2>0. pc = "type" /\ UNCHANGED <<call, exception, stack, args, in_enc_params, protected>>
    BY <1>3 DEF EncStr
  <2>1. CASE Encoded("INVALID_FLAGS") /\ UNCHANGED srns
    BY <1>0, <2>0, <2>1, EncodedOK DEF Encoded
  <2>2. CASE EncString(<< >>, val.s, Has("TEXT"))
    BY <2>0, <2>2, EncodedStringOK
  <2> QED BY <1>3, <2>1, <2>2 DEF EncStr
<1>4. CASE EncXString
  <2>0. pc = "type" /\ UNCHANGED <<call, exception, stack, args, in_enc_params, protected>>
    BY <1>4 DEF EncXString, AtObject
  <2>1. CASE EncString(<< >>, Content.s, FALSE)
    BY <2>0, <2>1, EncodedStringOK
  <2>2. CASE EncString(<< >>, Content.s, TRUE)
    BY <2>0, <2>2, EncodedStringOK
  <2> QED BY <1>4, <2>1, <2>2 DEF EncXString
<1>5. CASE EncDateTime
  <2>0. pc = "type" /\ UNCHANGED <<call, exception, stack, args, in_enc_params, protected>>
    BY <1>5 DEF EncDateTime, AtExtension, AtObject
  <2>1. CASE EncString(<<WriteInt("tag", 0)>>, Content.s, TRUE)
    BY <2>0, <2>1, EncodedStringOK
  <2>2. CASE Encoded("INTERNAL") /\ UNCHANGED srns
    BY <1>0, <2>0, <2>2, EncodedOK DEF Encoded
  <2> QED BY <1>5, <2>1, <2>2 DEF EncDateTime
<1>6. CASE EncBignum
  <2>0. pc = "type" /\ UNCHANGED <<call, exception, stack, args, in_enc_params, protected>>
    BY <1>6 DEF EncBignum, AtExtension, AtObject
  <2>1. BigInt(<< >>, Content, heap[val.n].num = 1)
    BY <1>6 DEF EncBignum
  <2> QED BY <2>0, <2>1, BigIntOK
<1>7. CASE EncDecimal
  <2>0. pc = "type" /\ UNCHANGED <<call, exception, stack, args, in_enc_params, protected>>
    BY <1>7 DEF EncDecimal, AtExtension, AtObject
  <2>1. CASE (Encoded("none") \/ Encoded("UNSUPPORTED_VALUE")) /\ UNCHANGED srns
    BY <1>0, <2>0, <2>1, EncodedOK DEF Encoded
  <2>2. CASE \E before : BigInt(before, Content, heap[val.n].num = 1)
    BY <2>0, <2>2, BigIntOK
  <2> QED BY <1>7, <2>1, <2>2 DEF EncDecimal
<1>8. CASE EncUri
  <2>0. pc = "type" /\ UNCHANGED <<call, stack, args, in_enc_params, protected>>
    BY <1>8 DEF EncUri, AtExtension, AtObject
  <2>1. CASE EncString(<<WriteInt("tag", 32)>>, Content.s, TRUE) /\ UNCHANGED exception
    BY <2>0, <2>1, EncodedStringOK
  <2>2. CASE Throw /\ Encoded("EXCEPTION") /\ UNCHANGED srns
    BY <1>0, <2>0, <2>2, EncodedOK DEF Encoded, Throw
  <2> QED BY <1>8, <2>1, <2>2 DEF EncUri
<1>9. CASE EncUnsupported
  BY <1>0, <1>9, EncodedOK DEF EncUnsupported, Encoded, AtObject
<1> QED BY <1>1, <1>2, <1>3, <1>4, <1>5, <1>6, <1>7, <1>8, <1>9

\* A reference is followed within enc_zval.
LEMMA ReferenceStep == ASSUME IInv, EncReference PROVE IInv'
<1>0. /\ pc = "type" /\ error = "none" /\ SrnsOK(srns)
      /\ UNCHANGED <<call, exception, stack, args, in_enc_params, srns, protected>> /\ KeepsSrns
  BY TypeFacts DEF EncReference, KeepsSrns
<1>1. CASE Encoded("none")
  BY <1>0, <1>1, EncodedOK DEF Encoded
<1>2. CASE UNCHANGED <<pc, error, cur_depth>>
  <2>1. pc \in Running /\ pc' \in Running /\ cur_depth' \in Int
    BY <1>0, <1>2 DEF Running, IInv, Shape
  <2>2. /\ Shape' /\ MarksMatchStack' /\ Chain' /\ Outermost' /\ Contexts' /\ Outside'
        /\ Depth' = Depth
    BY <1>0, <2>1, SameStack
  <2>3. Depths'
    BY <1>0, <1>2, <2>2 DEF IInv, Depths
  <2>4. Errors'
    BY <1>0, <1>2 DEF IInv, Errors
  <2> QED BY <2>2, <2>3, <2>4 DEF IInv
<1> QED BY <1>1, <1>2 DEF EncReference

-----------------------------------------------------------------------------
(* The steps of enc_zval that call a function.                              *)

LEMMA ParamsCounted == ASSUME IInv PROVE in_enc_params \in Nat
<1> DEFINE A == {i \in DOMAIN stack : stack[i].f = "encodeparams" /\ stack[i].flag}
<1>1. Len(stack) \in Nat /\ DOMAIN stack = 1..Len(stack)
  BY StackFacts DEF IInv
<1>2. IsFiniteSet(1..Len(stack))
  BY <1>1, FS_Interval
<1>3. IsFiniteSet(A)
  BY <1>1, <1>2, FS_Subset
<1>4. in_enc_params = Cardinality(A)
  BY DEF IInv, MarksMatchStack
<1> HIDE DEF A
<1> QED BY <1>3, <1>4, FS_CardinalityType

\* Most of them leave the arguments and the namespace as they are.
LEMMA PlainPush ==
  ASSUME IInv, pc = "type", NEW type \in FrameType \ {"cde_map", "encodeparams"}, NEW node, NEW fr,
         stack' = Append(stack, fr),
         FrameOK(fr), fr.f = type, fr.n = node, fr.args = args, fr.srns = srns, ~fr.flag,
         (pc' = "call" /\ type \notin Starting) \/ pc' = "ret",
         error' = "none",
         \/ type \in Protecting /\ node \notin protected /\ protected' = protected \cup {node}
         \/ type \notin Protecting /\ protected' = protected,
         UNCHANGED <<call, exception, cur_depth, args, in_enc_params, srns>>
  PROVE  IInv'
<1>1. ArgsOK(args) /\ SrnsOK(srns) /\ LevelOK(args, srns.on)
  BY TypeFacts
<1>2. in_enc_params \in Nat
  BY ParamsCounted
<1>3. ~IsParams(fr) /\ ~IsNamespace(fr) /\ fr.f # "cde_map" /\ (pc' = "call" => fr.f \notin Starting)
  BY DEF IsParams, IsNamespace
<1>4. in_enc_params' = in_enc_params + (IF IsParams(fr) THEN 1 ELSE 0)
  BY <1>2, <1>3
<1>5. LevelOK(args', srns'.on)
  BY <1>1
<1>6. Pushes(fr)
  BY <1>1, <1>3, <1>4, <1>5 DEF Pushes
<1> QED BY <1>6, PushesOK

\* enc_hash, whatever was written before
LEMMA EnterHashOK ==
  ASSUME IInv, pc = "type", NEW before, EnterHash(before),
         UNCHANGED <<call, exception, args, in_enc_params, srns>>
  PROVE  IInv'
<1>0. SrnsOK(srns) /\ ArgsOK(args) /\ KeepsSrns
  BY TypeFacts DEF KeepsSrns
<1>1. CASE (Encoded("RECURSION") \/ Encoded("none")) /\ UNCHANGED <<stack, protected>>
  BY <1>0, <1>1, EncodedOK DEF Encoded
<1>2. CASE /\ val.n \notin protected /\ protected' = protected \cup {val.n}
           /\ GoOn(Append(stack, NewFrame("hash", val.n)))
  <2> DEFINE fr == NewFrame("hash", val.n)
  <2>1. "hash" \in FrameType \ {"cde_map", "encodeparams"} /\ "hash" \in FrameType
    BY DEF FrameType
  <2>2. /\ FrameOK(fr) /\ fr.f = "hash" /\ fr.n = val.n /\ fr.args = args /\ fr.srns = srns
        /\ ~fr.flag
    BY <1>0, <2>1, NewFrameOK
  <2>3. stack' = Append(stack, fr) /\ pc' = "ret" /\ error' = "none" /\ cur_depth' = cur_depth
    BY <1>2 DEF GoOn
  <2> HIDE DEF fr
  <2>4. "hash" \in Protecting
    BY DEF Protecting
  <2> QED BY <1>2, <2>1, <2>2, <2>3, <2>4, PlainPush
<1> QED BY <1>1, <1>2 DEF EnterHash

LEMMA HashSteps == ASSUME IInv, EncArray \/ EncStdClass PROVE IInv'
<1>1. CASE EncArray
  BY <1>1, EnterHashOK DEF EncArray
<1>2. CASE EncStdClass
  <2>0. pc = "type" /\ UNCHANGED <<call, exception, args, in_enc_params, srns>>
    BY <1>2 DEF EncStdClass, AtObject
  <2>1. CASE Encoded("none") /\ UNCHANGED <<stack, protected>>
    <3>1. KeepsSrns
      BY <2>0, TypeFacts DEF KeepsSrns
    <3> QED BY <2>0, <2>1, <3>1, EncodedOK DEF Encoded
  <2>2. CASE \E before : EnterHash(before)
    BY <2>0, <2>2, EnterHashOK
  <2> QED BY <1>2, <2>1, <2>2 DEF EncStdClass
<1> QED BY <1>1, <1>2

LEMMA ShareableStep == ASSUME IInv, EncShareable PROVE IInv'
<1>0. /\ pc = "type" /\ UNCHANGED <<call, exception, args, in_enc_params, srns, protected>>
      /\ SrnsOK(srns) /\ ArgsOK(args) /\ KeepsSrns
  BY TypeFacts DEF EncShareable, AtObject, KeepsSrns
<1>1. CASE (Encoded("INTERNAL") \/ Encoded("none") \/ Encoded("TAG_VALUE")) /\ UNCHANGED stack
  BY <1>0, <1>1, EncodedOK DEF Encoded
<1>2. CASE CallZval(Append(stack, NewFrame("shareable", val.n)), Content)
  <2> DEFINE fr == NewFrame("shareable", val.n)
  <2>1. "shareable" \in FrameType \ {"cde_map", "encodeparams"} /\ "shareable" \in FrameType
    BY DEF FrameType
  <2>2. /\ FrameOK(fr) /\ fr.f = "shareable" /\ fr.n = val.n /\ fr.args = args /\ fr.srns = srns
        /\ ~fr.flag
    BY <1>0, <2>1, NewFrameOK
  <2>3. stack' = Append(stack, fr) /\ pc' = "call" /\ error' = "none" /\ cur_depth' = cur_depth
    BY <1>2 DEF CallZval
  <2> HIDE DEF fr
  <2>4. "shareable" \notin Protecting /\ "shareable" \notin Starting
    BY DEF Protecting, Starting
  <2> QED BY <1>0, <2>1, <2>2, <2>3, <2>4, PlainPush
<1> QED BY <1>1, <1>2 DEF EncShareable

LEMMA SerializableStep == ASSUME IInv, EncSerializable PROVE IInv'
<1>0. /\ pc = "type" /\ UNCHANGED <<call, args, in_enc_params, srns>>
      /\ SrnsOK(srns) /\ ArgsOK(args) /\ KeepsSrns
  BY TypeFacts DEF EncSerializable, AtObject, KeepsSrns
<1>1. CASE Encoded("RECURSION") /\ UNCHANGED <<exception, stack, protected>>
  BY <1>0, <1>1, EncodedOK DEF Encoded
<1>2. CASE Throw /\ Encoded("EXCEPTION") /\ UNCHANGED <<stack, protected>>
  BY <1>0, <1>2, EncodedOK DEF Encoded, Throw
<1> DEFINE frame == NewFrame("serializable", val.n)
<1>3. "serializable" \in FrameType \ {"cde_map", "encodeparams"} /\ "serializable" \in FrameType
  BY DEF FrameType
<1>4. "serializable" \in Protecting /\ "serializable" \notin Starting
  BY DEF Protecting, Starting
<1>5. /\ FrameOK(frame) /\ frame.f = "serializable" /\ frame.n = val.n /\ frame.args = args
      /\ frame.srns = srns /\ ~frame.flag
  BY <1>0, <1>3, NewFrameOK
<1>6. ASSUME NEW fr, NEW v, CallZval(Append(stack, fr), v), fr = frame \/ \E a : fr = [frame EXCEPT !.i = a],
             val.n \notin protected, protected' = protected \cup {val.n}, UNCHANGED exception
      PROVE  IInv'
  <2>1. /\ FrameOK(fr) /\ fr.f = "serializable" /\ fr.n = val.n /\ fr.args = args /\ fr.srns = srns
        /\ ~fr.flag
    <3> HIDE DEF frame
    <3> QED BY <1>5, <1>6 DEF FrameOK
  <2>2. stack' = Append(stack, fr) /\ pc' = "call" /\ error' = "none" /\ cur_depth' = cur_depth
    BY <1>6 DEF CallZval
  <2> QED BY <1>0, <1>3, <1>4, <1>6, <2>1, <2>2, PlainPush
<1> QED BY <1>1, <1>2, <1>6 DEF EncSerializable

LEMMA TraversableStep == ASSUME IInv, EncTraversable PROVE IInv'
<1>0. /\ pc = "type" /\ UNCHANGED <<call, exception, args, in_enc_params, srns>>
      /\ SrnsOK(srns) /\ ArgsOK(args) /\ KeepsSrns
  BY TypeFacts DEF EncTraversable, AtObject, KeepsSrns
<1>1. CASE Encoded("RECURSION") /\ UNCHANGED <<stack, protected>>
  BY <1>0, <1>1, EncodedOK DEF Encoded
<1>2. ASSUME NEW type \in {"rewind", "count"}, GoOn(Append(stack, NewFrame(type, val.n))),
             val.n \notin protected, protected' = protected \cup {val.n}
      PROVE  IInv'
  <2> DEFINE fr == NewFrame(type, val.n)
  <2>1. type \in FrameType \ {"cde_map", "encodeparams"} /\ type \in FrameType /\ type \in Protecting
    BY DEF FrameType, Protecting
  <2>2. /\ FrameOK(fr) /\ fr.f = type /\ fr.n = val.n /\ fr.args = args /\ fr.srns = srns
        /\ ~fr.flag
    BY <1>0, <2>1, NewFrameOK
  <2>3. stack' = Append(stack, fr) /\ pc' = "ret" /\ error' = "none" /\ cur_depth' = cur_depth
    BY <1>2 DEF GoOn
  <2> HIDE DEF fr
  <2> QED BY <1>0, <1>2, <2>1, <2>2, <2>3, PlainPush
<1> QED BY <1>1, <1>2 DEF EncTraversable

\* A tag opens a namespace only if the option of the call allows for one.
LEMMA TagStep == ASSUME IInv, EncTag PROVE IInv'
<1>0. /\ pc = "type" /\ UNCHANGED <<call, exception, args, in_enc_params, protected>>
      /\ SrnsOK(srns) /\ ArgsOK(args) /\ LevelOK(args, srns.on)
  BY TypeFacts DEF EncTag, AtObject
<1> DEFINE node == heap[val.n]
           isNs == node.num = TagStringRefNs /\ args.string_ref # "false"
           fr == [NewFrame("tag", val.n) EXCEPT !.flag = isNs]
<1>1. CASE TagError(node) # "none" /\ Encoded(TagError(node)) /\ UNCHANGED <<stack, srns>>
  <2>1. TagError(node) # "EXCEPTION"
    BY DEF TagError
  <2>2. KeepsSrns
    BY <1>0, <1>1 DEF KeepsSrns
  <2> QED BY <1>0, <1>1, <2>1, <2>2, EncodedOK DEF Encoded
<1>2. CASE srns' = (IF isNs THEN NewSrns ELSE srns) /\ CallZval(Append(stack, fr), Content)
  <2>1. "tag" \in FrameType
    BY DEF FrameType
  <2>2. /\ FrameOK(fr) /\ fr.f = "tag" /\ fr.n = val.n /\ fr.args = args /\ fr.srns = srns
        /\ fr.flag = isNs
    <3> DEFINE new == NewFrame("tag", val.n)
    <3>1. FrameOK(new) /\ new.f = "tag" /\ new.n = val.n /\ new.args = args /\ new.srns = srns
      BY <1>0, <2>1, NewFrameOK
    <3> HIDE DEF new
    <3>2. fr = [new EXCEPT !.flag = isNs] /\ isNs \in BOOLEAN
      BY DEF new
    <3> HIDE DEF fr, isNs
    <3> QED BY <3>1, <3>2 DEF FrameOK
  <2>3. stack' = Append(stack, fr) /\ pc' = "call" /\ error' = "none" /\ cur_depth' = cur_depth
    BY <1>2 DEF CallZval
  <2>4. isNs => args.string_ref # "false"
    OBVIOUS
  <2>5. srns' = (IF isNs THEN NewSrns ELSE srns)
    BY <1>2
  <2> HIDE DEF fr, isNs
  <2>6. SrnsOK(srns') /\ (~IsNamespace(fr) => srns'.on = srns.on) /\ LevelOK(args, srns'.on)
    <3>1. SrnsOK(NewSrns)
      BY DEF NewSrns, SrnsOK
    <3>2. IsNamespace(fr) <=> isNs
      BY <2>2 DEF IsNamespace
    <3>3. CASE isNs
      BY <1>0, <2>4, <2>5, <3>1, <3>2, <3>3 DEF LevelOK
    <3>4. CASE ~isNs
      BY <1>0, <2>5, <3>4
    <3> QED BY <3>3, <3>4
  <2>7. fr.f \notin Protecting /\ fr.f \notin Starting /\ fr.f # "cde_map" /\ ~IsParams(fr)
    BY <2>2 DEF Protecting, Starting, IsParams
  <2>8. in_enc_params' = in_enc_params + (IF IsParams(fr) THEN 1 ELSE 0)
    <3>1. in_enc_params \in Nat
      BY ParamsCounted
    <3> QED BY <1>0, <2>7, <3>1
  <2>9. LevelOK(args', srns'.on)
    BY <1>0, <2>6
  <2>10. Pushes(fr)
    BY <1>0, <2>2, <2>3, <2>6, <2>7, <2>8, <2>9 DEF Pushes
  <2> QED BY <2>10, PushesOK
<1> QED BY <1>1, <1>2 DEF EncTag

\* EncodeParams: what it changes is checked again, and neither option is.
LEMMA EncodeParamsStep == ASSUME IInv, EncEncodeParams PROVE IInv'
<1>0. /\ pc = "type" /\ UNCHANGED <<call, exception, srns>>
      /\ SrnsOK(srns) /\ ArgsOK(args) /\ LevelOK(args, srns.on)
  BY TypeFacts DEF EncEncodeParams, AtObject
<1> DEFINE node == heap[val.n]
           par == node.par
           shared == node.rc > 1
           fr == [NewFrame("encodeparams", val.n) EXCEPT !.flag = shared]
<1>1. CASE /\ Encoded(ParamsError(par))
           /\ UNCHANGED <<stack, args, in_enc_params, protected>>
  <2>1. ParamsError(par) # "EXCEPTION"
    BY DEF ParamsError
  <2>2. KeepsSrns
    BY <1>0 DEF KeepsSrns
  <2> QED BY <1>0, <1>1, <2>1, <2>2, EncodedOK DEF Encoded
<1>2. CASE /\ ParamsError(par) = "none"
           /\ args' = CheckParams(OverriddenArgs(par)).v
           /\ in_enc_params' = in_enc_params + (IF shared THEN 1 ELSE 0)
           /\ protected' = protected \cup {val.n}
           /\ CallZval(Append(stack, fr), Content)
  <2>1. "encodeparams" \in FrameType
    BY DEF FrameType
  <2>2. /\ FrameOK(fr) /\ fr.f = "encodeparams" /\ fr.n = val.n /\ fr.args = args /\ fr.srns = srns
        /\ fr.flag = shared
    <3> DEFINE new == NewFrame("encodeparams", val.n)
    <3>1. FrameOK(new) /\ new.f = "encodeparams" /\ new.n = val.n /\ new.args = args /\ new.srns = srns
      BY <1>0, <2>1, NewFrameOK
    <3> HIDE DEF new
    <3>2. fr = [new EXCEPT !.flag = shared] /\ shared \in BOOLEAN
      BY DEF new
    <3> HIDE DEF fr, shared
    <3> QED BY <3>1, <3>2 DEF FrameOK
  <2>3. stack' = Append(stack, fr) /\ pc' = "call" /\ error' = "none" /\ cur_depth' = cur_depth
    BY <1>2 DEF CallZval
  <2>4. val.n \notin protected /\ "CDE" \notin par.clear /\ CheckParams(OverriddenArgs(par)).ok
    BY <1>2 DEF ParamsError
  <2>5. in_enc_params' = in_enc_params + (IF IsParams(fr) THEN 1 ELSE 0)
    BY <1>2, <2>2 DEF IsParams
  <2> HIDE DEF fr, shared, par
  <2>6. /\ ArgsOK(args') /\ LevelOK(args', srns.on)
        /\ "CDE" \in args.e_flags => "CDE" \in args'.e_flags
    <3> DEFINE a == OverriddenArgs(par)
    <3>1. /\ ArgsOK(a) /\ a.string_ref = args.string_ref /\ a.shared_ref = args.shared_ref
          /\ "CDE" \in args.u_flags => "CDE" \in a.u_flags
      BY <1>0, <2>4, OverriddenOK
    <3> HIDE DEF a
    <3>2. args' = CheckParams(a).v /\ CheckParams(a).ok
      BY <1>2, <2>4 DEF a
    <3>3. /\ ArgsOK(args') /\ args'.string_ref = a.string_ref /\ args'.shared_ref = a.shared_ref
          /\ args'.u_flags = a.u_flags /\ ("CDE" \in args'.e_flags <=> "CDE" \in a.u_flags)
          /\ "CDE" \in a.u_flags => a.string_ref = "false" /\ a.shared_ref = "false"
      BY <3>1, <3>2, CheckedOK
    <3>4. CallArgs.ok /\ CallArgs' = CallArgs
      BY <1>0, SameCall DEF IInv, Outermost
    <3> QED BY <1>0, <3>1, <3>3, <3>4 DEF LevelOK
  <2>7. LevelOK(args', srns'.on)
    BY <1>0, <2>6
  <2>8. fr.f \in Protecting /\ fr.f \notin Starting /\ fr.f # "cde_map" /\ ~IsNamespace(fr)
    BY <2>2 DEF Protecting, Starting, IsNamespace
  <2>9. fr.n \notin protected /\ protected' = protected \cup {fr.n}
    BY <1>2, <2>2, <2>4
  <2>10. Pushes(fr)
    BY <1>0, <2>2, <2>3, <2>5, <2>6, <2>7, <2>8, <2>9 DEF Pushes
  <2> QED BY <2>10, PushesOK
<1> QED BY <1>1, <1>2 DEF EncEncodeParams

-----------------------------------------------------------------------------
(* The steps of the functions when they return or go on.                    *)

\* A function that has neither changed the arguments nor opened a namespace
\* returns.
LEMMA PlainPop ==
  ASSUME IInv, pc = "ret", stack # << >>, stack' = Below, pc' = "ret",
         Top.f \notin {"encodeparams", "tag"},
         cur_depth' = cur_depth - (IF InZval(Top) THEN 1 ELSE 0),
         protected' = protected \ (IF Top.f \in Protecting THEN {Top.n} ELSE {}),
         KeepsSrns, UNCHANGED <<call, args, in_enc_params>>,
         \/ error' = error /\ exception' = exception
         \/ error = "none" /\ error' # "EXCEPTION" /\ exception' = exception
         \/ error = "none" /\ error' = "EXCEPTION" /\ exception' = "user"
  PROVE  IInv'
<1>1. /\ Top.args = args /\ Top.srns.on = srns.on
      /\ exception \in {"none", "user"} /\ (exception = "user" <=> error = "EXCEPTION")
  BY TopFacts DEF IsNamespace
<1>2. ResultOK
  BY <1>1 DEF ResultOK
<1>3. in_enc_params' = in_enc_params - (IF IsParams(Top) THEN 1 ELSE 0)
  BY ParamsCounted DEF IsParams
<1>4. Pops
  BY <1>1, <1>2, <1>3 DEF Pops, KeepsSrns
<1> QED BY <1>4, PopsOK

\* It was enc_zval that called it, and it marked its value.
LEMMA PlainLeave ==
  ASSUME IInv, pc = "ret", stack # << >>, NEW e, Leave(e),
         Top.f \in Protecting \ {"encodeparams"}, protected' = protected \ {Top.n},
         KeepsSrns, UNCHANGED <<call, args, in_enc_params>>,
         \/ e = error /\ exception' = exception
         \/ error = "none" /\ e # "EXCEPTION" /\ exception' = exception
         \/ error = "none" /\ e = "EXCEPTION" /\ exception' = "user"
  PROVE  IInv'
<1>1. stack' = Below /\ pc' = "ret" /\ error' = e /\ cur_depth' = cur_depth - 1
  BY DEF Leave, Encoded
<1>2. InZval(Top) /\ Top.f \notin {"encodeparams", "tag"} /\ Top.f \in Protecting
  BY DEF InZval, Protecting
<1> QED BY <1>1, <1>2, PlainPop

LEMMA ReturnSteps ==
  ASSUME IInv, ShareableDone \/ TagDone \/ EncodeParamsDone \/ SerializableDone \/ CdeMapDone
  PROVE  IInv'
<1>0. pc = "ret" /\ stack # << >> /\ UNCHANGED <<call, exception>>
  BY DEF ShareableDone, TagDone, EncodeParamsDone, SerializableDone, CdeMapDone, AtCdeMap
<1>1. /\ FrameOK(Top) /\ ArgsOK(args) /\ SrnsOK(srns)
      /\ Top.f # "encodeparams" => Top.args = args
      /\ ~IsNamespace(Top) => Top.srns.on = srns.on
      /\ exception \in {"none", "user"} /\ (exception = "user" <=> error = "EXCEPTION")
  BY <1>0, TopFacts
<1>2. ASSUME UNCHANGED srns PROVE KeepsSrns
  BY <1>1, <1>2 DEF KeepsSrns
<1>3. cur_depth \in Int /\ in_enc_params \in Nat
  BY ParamsCounted DEF IInv, Shape
<1>4. CASE ShareableDone
  <2>1. /\ stack' = Below /\ pc' = "ret" /\ error' = error /\ cur_depth' = cur_depth - 1
        /\ Top.f = "shareable" /\ UNCHANGED <<args, in_enc_params, srns, protected>>
    BY <1>4 DEF ShareableDone, Leave, Encoded
  <2>2. InZval(Top) /\ Top.f \notin Protecting
    BY <2>1 DEF InZval, Protecting
  <2> QED BY <1>0, <1>2, <2>1, <2>2, PlainPop
<1>5. CASE TagDone
  <2>1. /\ stack' = Below /\ pc' = "ret" /\ error' = error /\ cur_depth' = cur_depth - 1
        /\ Top.f = "tag" /\ srns' = RestoreSrns(Top) /\ UNCHANGED <<args, in_enc_params, protected>>
    BY <1>5 DEF TagDone, Leave, Encoded
  <2>2. InZval(Top) /\ Top.f \notin Protecting /\ ~IsParams(Top)
    BY <2>1 DEF InZval, Protecting, IsParams
  <2>3. SrnsOK(srns') /\ srns'.on = Top.srns.on
    BY <1>1, <2>1 DEF RestoreSrns, IsNamespace, FrameOK
  <2>4. ResultOK
    BY <1>0, <1>1, <2>1 DEF ResultOK
  <2>5. Pops
    BY <1>0, <1>1, <1>3, <2>1, <2>2, <2>3, <2>4 DEF Pops
  <2> QED BY <2>5, PopsOK
<1>6. CASE EncodeParamsDone
  <2>1. /\ stack' = Below /\ pc' = "ret" /\ error' = error /\ cur_depth' = cur_depth - 1
        /\ Top.f = "encodeparams" /\ args' = Top.args /\ in_enc_params' = LeaveParams(Top)
        /\ protected' = protected \ {Top.n} /\ UNCHANGED srns
    BY <1>6 DEF EncodeParamsDone, Leave, Encoded, RestoreArgs
  <2>2. InZval(Top) /\ Top.f \in Protecting /\ ~IsNamespace(Top)
    BY <2>1 DEF InZval, Protecting, IsNamespace
  <2>3. in_enc_params' = in_enc_params - (IF IsParams(Top) THEN 1 ELSE 0)
    BY <1>3, <2>1 DEF LeaveParams, IsParams
  <2>4. ResultOK
    BY <1>0, <1>1, <2>1 DEF ResultOK
  <2>5. Pops
    BY <1>0, <1>1, <1>3, <2>1, <2>2, <2>3, <2>4 DEF Pops
  <2> QED BY <2>5, PopsOK
<1>7. CASE SerializableDone
  <2>1. /\ Leave(error) /\ Top.f = "serializable" /\ protected' = protected \ {Top.n}
        /\ UNCHANGED <<args, in_enc_params, srns>>
    BY <1>7 DEF SerializableDone
  <2>2. Top.f \in Protecting \ {"encodeparams"}
    BY <2>1 DEF Protecting
  <2> QED BY <1>0, <1>2, <2>1, <2>2, PlainLeave
<1>8. CASE CdeMapDone
  <2>1. /\ Top.f = "cde_map" /\ UNCHANGED <<args, in_enc_params, srns, protected>>
        /\ stack' = Below /\ pc' = "ret" /\ error' = error
        /\ cur_depth' = cur_depth - (IF Top.flag THEN 1 ELSE 0)
    BY <1>0, <1>3, <1>8 DEF CdeMapDone, AtCdeMap, Leave, Encoded
  <2>2. (InZval(Top) <=> Top.flag) /\ Top.f \notin Protecting
    BY <2>1 DEF InZval, Protecting
  <2>3. cur_depth' = cur_depth - (IF InZval(Top) THEN 1 ELSE 0)
    BY <2>1, <2>2
  <2> QED BY <1>0, <1>2, <2>1, <2>2, <2>3, PlainPop
<1> QED BY <1>4, <1>5, <1>6, <1>7, <1>8

\* A function calls enc_zval or goes on.
CallsOrGoesOn(fr) == (\E v : CallZval(Append(Below, fr), v)) \/ GoOn(Append(Below, fr))

\* fr is the frame on top further on in a function of the same kind.
LaterFrame(fr) ==
  /\ FrameOK(fr) /\ fr.n = Top.n /\ fr.args = Top.args /\ fr.srns = Top.srns
  /\ \/ Top.f = "hash" /\ fr.f = "hash"
     \/ Top.f = "cde_map" /\ fr.f = "cde_map" /\ fr.flag = Top.flag
     \/ Top.f \in Starting /\ fr.f \in Starting
     \/ Top.f = "next" /\ fr.f = "key"
     \/ Top.f = "key" /\ fr.f = "forward"
     \/ Top.f = "forward" /\ fr.f = "next"

LEMMA PlainReplace ==
  ASSUME IInv, pc = "ret", stack # << >>, NEW fr, CallsOrGoesOn(fr), LaterFrame(fr),
         fr.f \in Starting => GoOn(Append(Below, fr)),
         error = "none", KeepsSrns, UNCHANGED <<call, exception, args, in_enc_params, protected>>
  PROVE  IInv'
<1>1. /\ stack' = Append(Below, fr) /\ pc' \in {"call", "ret"} /\ error' = "none"
      /\ cur_depth' = cur_depth /\ (fr.f \in Starting => pc' = "ret")
  BY DEF CallsOrGoesOn, CallZval, GoOn
<1>2. /\ fr.f \notin {"encodeparams", "tag"} /\ Top.f \notin {"encodeparams", "tag"}
      /\ InZval(fr) <=> InZval(Top)
      /\ fr.f \in Protecting <=> Top.f \in Protecting
  BY DEF LaterFrame, InZval, Protecting, Starting
<1>3. FrameOK(fr) /\ fr.args = Top.args /\ fr.srns.on = Top.srns.on /\ fr.n = Top.n
  BY DEF LaterFrame
<1>4. Replaces(fr)
  BY <1>1, <1>2, <1>3 DEF Replaces
<1> QED BY <1>4, ReplacesOK

LEMMA CdeFrameOK ==
  ASSUME ArgsOK(args), SrnsOK(srns), NEW node, NEW sorted, NEW from_hash \in BOOLEAN
  PROVE  LET fr == CdeFrame(node, sorted, from_hash)
         IN  /\ FrameOK(fr) /\ fr.f = "cde_map" /\ fr.n = node /\ fr.args = args /\ fr.srns = srns
             /\ fr.flag = from_hash
<1> DEFINE new == NewFrame("cde_map", node)
           fr == CdeFrame(node, sorted, from_hash)
<1>1. "cde_map" \in FrameType
  BY DEF FrameType
<1>2. FrameOK(new) /\ new.f = "cde_map" /\ new.n = node /\ new.args = args /\ new.srns = srns
  BY <1>1, NewFrameOK
<1> HIDE DEF new
<1>3. fr = [new EXCEPT !.ht = sorted, !.flag = from_hash]
  BY DEF CdeFrame, new
<1> HIDE DEF fr
<1>4. /\ FrameOK(fr) /\ fr.f = "cde_map" /\ fr.n = node /\ fr.args = args /\ fr.srns = srns
      /\ fr.flag = from_hash
  BY <1>2, <1>3 DEF FrameOK
<1> QED BY <1>4 DEF fr

LEMMA HashNextStep == ASSUME IInv, HashNext PROVE IInv'
<1>0. /\ pc = "ret" /\ stack # << >> /\ Top.f = "hash" /\ error = "none"
      /\ UNCHANGED <<call, exception, args, in_enc_params>>
  BY DEF HashNext, AtHash
<1>1. FrameOK(Top) /\ SrnsOK(srns)
  BY <1>0, TopFacts
<1> DEFINE node == heap[Top.n]
           e == node.ent[Top.i + 1]
           k == IF node.c = "array" /\ IsList(node.ent) THEN StringResult("none", << >>, srns)
                ELSE EncKey(e.key)
           next == [Top EXCEPT !.i = @ + 1]
           sorted == [next EXCEPT !.ht = Append(@, [key |-> k.toks, v |-> e.v])]
<1>2. /\ SrnsOK(k.srns) /\ k.srns.on = srns.on
      /\ k.error \in {"none", "INVALID_FLAGS", "INTERNAL", "UTF8"}
  BY <1>1, KeyOK DEF StringResult
<1>3. srns' = k.srns
  BY DEF HashNext
<1> HIDE DEF k
<1>4. KeepsSrns
  BY <1>2, <1>3 DEF KeepsSrns
<1>5. LaterFrame(next) /\ next.f = "hash"
  BY <1>0, <1>1 DEF LaterFrame, FrameOK
<1>6. LaterFrame(sorted) /\ sorted.f = "hash"
  BY <1>0, <1>1 DEF LaterFrame, FrameOK
<1>7. "hash" \notin Starting /\ "hash" \in Protecting \ {"encodeparams"}
  BY DEF Starting, Protecting
<1> HIDE DEF sorted, next
<1>8. CASE k.error # "none" /\ protected' = protected \ {Top.n} /\ Leave(k.error)
  <2>1. k.error # "EXCEPTION"
    BY <1>2
  <2> QED BY <1>0, <1>4, <1>7, <1>8, <2>1, PlainLeave
<1>9. CASE GoOn(Append(Below, sorted)) /\ UNCHANGED protected
  BY <1>0, <1>4, <1>6, <1>9, PlainReplace DEF CallsOrGoesOn
<1>10. CASE CallZval(Append(Below, next), e.v) /\ UNCHANGED protected
  BY <1>0, <1>4, <1>5, <1>7, <1>10, PlainReplace DEF CallsOrGoesOn
<1> QED BY <1>8, <1>9, <1>10 DEF HashNext, k, sorted, next

LEMMA HashDoneStep == ASSUME IInv, HashDone PROVE IInv'
<1>0. /\ pc = "ret" /\ stack # << >> /\ Top.f = "hash" /\ protected' = protected \ {Top.n}
      /\ UNCHANGED <<call, exception, args, in_enc_params, srns>>
  BY DEF HashDone, AtHash
<1>1. /\ ArgsOK(args) /\ SrnsOK(srns) /\ Top.args = args /\ Top.srns.on = srns.on /\ KeepsSrns
  BY <1>0, TopFacts DEF IsNamespace, KeepsSrns
<1>2. CASE Leave(error)
  <2>1. Top.f \in Protecting \ {"encodeparams"}
    BY <1>0 DEF Protecting
  <2> QED BY <1>0, <1>1, <1>2, <2>1, PlainLeave
<1>3. CASE error = "none" /\ \E sorted \in SortByKey(Top.ht) : GoOn(Append(Below, CdeFrame(Top.n, sorted, TRUE)))
  <2> PICK sorted \in SortByKey(Top.ht) : GoOn(Append(Below, CdeFrame(Top.n, sorted, TRUE)))
    BY <1>3
  <2> DEFINE fr == CdeFrame(Top.n, sorted, TRUE)
  <2>1. /\ FrameOK(fr) /\ fr.f = "cde_map" /\ fr.n = Top.n /\ fr.args = args /\ fr.srns = srns
        /\ fr.flag
    BY <1>1, CdeFrameOK
  <2>2. stack' = Append(Below, fr) /\ pc' = "ret" /\ error' = "none" /\ cur_depth' = cur_depth
    BY <1>3 DEF GoOn
  <2> HIDE DEF fr
  <2>3. InZval(fr) /\ InZval(Top) /\ Top.f \in Protecting /\ fr.f \notin Protecting
    BY <1>0, <2>1 DEF InZval, Protecting
  <2>4. Replaces(fr)
    BY <1>0, <1>1, <1>3, <2>1, <2>2, <2>3 DEF Replaces
  <2> QED BY <2>4, ReplacesOK
<1> QED BY <1>2, <1>3 DEF HashDone

LEMMA CdeMapNextStep == ASSUME IInv, CdeMapNext PROVE IInv'
<1>0. /\ pc = "ret" /\ stack # << >> /\ Top.f = "cde_map" /\ error = "none"
      /\ UNCHANGED <<call, exception, args, in_enc_params, srns, protected>>
  BY DEF CdeMapNext, AtCdeMap
<1>1. FrameOK(Top) /\ KeepsSrns
  BY <1>0, TopFacts DEF KeepsSrns
<1> DEFINE next == [Top EXCEPT !.i = @ + 1]
<1>2. LaterFrame(next) /\ next.f = "cde_map"
  BY <1>0, <1>1 DEF LaterFrame, FrameOK
<1>3. CallZval(Append(Below, next), Top.ht[Top.i + 1].v)
  BY DEF CdeMapNext
<1>4. "cde_map" \notin Starting
  BY DEF Starting
<1> HIDE DEF next
<1> QED BY <1>0, <1>1, <1>2, <1>3, <1>4, PlainReplace DEF CallsOrGoesOn

-----------------------------------------------------------------------------
(* enc_traversable.                                                         *)

Iterating == {"count", "rewind", "next", "key", "forward", "traversed"}

LEMMA TraversableLeavesOK ==
  ASSUME IInv, pc = "ret", stack # << >>, Top.f \in Iterating, NEW e, NEW out, NEW owned,
         TraversableLeaves(e, out, owned),
         UNCHANGED <<call, args, in_enc_params, srns>>,
         \/ e = error /\ exception' = exception
         \/ error = "none" /\ e # "EXCEPTION" /\ exception' = exception
         \/ error = "none" /\ e = "EXCEPTION" /\ exception' = "user"
  PROVE  IInv'
<1>1. Leave(e) /\ protected' = protected \ {Top.n}
  BY DEF TraversableLeaves
<1>2. KeepsSrns
  BY TopFacts DEF KeepsSrns
<1>3. Top.f \in Protecting \ {"encodeparams"}
  BY DEF Protecting, Iterating
<1> QED BY <1>1, <1>2, <1>3, PlainLeave

LEMMA TraversableDoneOK ==
  ASSUME IInv, pc = "ret", stack # << >>, Top.f \in Iterating, NEW e, NEW out, TraversableDone(e, out),
         UNCHANGED <<call, args, in_enc_params, srns>>,
         \/ e = error /\ exception' = exception
         \/ error = "none" /\ e # "EXCEPTION" /\ exception' = exception
         \/ error = "none" /\ e = "EXCEPTION" /\ exception' = "user"
  PROVE  IInv'
BY TraversableLeavesOK DEF TraversableDone

LEMMA TraversableThrowsOK ==
  ASSUME IInv, pc = "ret", stack # << >>, Top.f \in Iterating, error = "none", TraversableThrows,
         UNCHANGED <<call, args, in_enc_params, srns>>
  PROVE  IInv'
<1>1. TraversableDone("EXCEPTION", buf) /\ exception' = "user"
  BY DEF TraversableThrows, Throw
<1> QED BY <1>1, TraversableDoneOK

LEMMA TraverseSteps == ASSUME IInv, Traverse PROVE IInv'
<1>0. pc = "ret" /\ stack # << >> /\ UNCHANGED <<call, args, in_enc_params, srns>>
  BY DEF Traverse, TraversableCount, TraversableRewind, TraversableNext, TraversableKey,
         TraversableForward, TraversableEnd, Traversed, AtTraversable
<1>1. /\ FrameOK(Top) /\ ArgsOK(args) /\ SrnsOK(srns) /\ KeepsSrns
      /\ Top.f \in Starting => error = "none"
  BY <1>0, TopFacts DEF KeepsSrns
<1>2. CASE TraversableCount
  <2>0. Top.f = "count" /\ Top.f \in Iterating /\ error = "none"
    BY <1>1, <1>2 DEF TraversableCount, AtTraversable, Iterating, Starting
  <2> DEFINE count == heap[Top.n].num
             fr == [Top EXCEPT !.f = "rewind", !.count = count]
             e == IF count < 0 THEN "INTERNAL" ELSE "UNSUPPORTED_SIZE"
  <2>1. CASE TraversableThrows
    BY <1>0, <2>0, <2>1, TraversableThrowsOK
  <2>2. CASE TraversableDone(e, buf) /\ UNCHANGED exception
    <3>1. e # "EXCEPTION"
      OBVIOUS
    <3> HIDE DEF e
    <3> QED BY <1>0, <2>0, <2>2, <3>1, TraversableDoneOK
  <2>3. CASE GoOn(Append(Below, fr)) /\ UNCHANGED <<exception, protected>>
    <3>1. LaterFrame(fr)
      BY <1>1, <2>0 DEF LaterFrame, FrameOK, FrameType, Starting
    <3> HIDE DEF fr
    <3> QED BY <1>0, <1>1, <2>0, <2>3, <3>1, PlainReplace DEF CallsOrGoesOn
  <2> QED BY <1>2, <2>1, <2>2, <2>3 DEF TraversableCount
<1>3. CASE TraversableRewind
  <2>0. Top.f = "rewind" /\ Top.f \in Iterating /\ error = "none"
    BY <1>1, <1>3 DEF TraversableRewind, AtTraversable, Iterating, Starting
  <2> DEFINE has == HasKeysHt(Top.count)
             fr == [Top EXCEPT !.f = "next", !.flag = has]
  <2>1. CASE TraversableThrows
    BY <1>0, <2>0, <2>1, TraversableThrowsOK
  <2>2. CASE GoOn(Append(Below, fr)) /\ UNCHANGED <<exception, protected>>
    <3>1. has \in BOOLEAN
      BY DEF HasKeysHt
    <3> HIDE DEF has
    <3>2. LaterFrame(fr)
      BY <1>1, <2>0, <3>1 DEF LaterFrame, FrameOK, FrameType, Starting
    <3> HIDE DEF fr
    <3> QED BY <1>0, <1>1, <2>0, <2>2, <3>2, PlainReplace DEF CallsOrGoesOn
  <2> QED BY <1>3, <2>1, <2>2 DEF TraversableRewind
<1>4. CASE TraversableNext
  <2>0. Top.f = "next" /\ Top.f \in Iterating /\ error = "none"
    BY <1>1, <1>4 DEF TraversableNext, AtTraversable, Iterating, Starting
  <2> DEFINE next == [Top EXCEPT !.f = "key", !.i = @ + 1]
             kept == [next EXCEPT !.out = buf]
             key == heap[Top.n].ent[next.i].key
  <2>1. CASE TraversableThrows
    BY <1>0, <2>0, <2>1, TraversableThrowsOK
  <2>2. CASE TraversableDone("EXTRANEOUS", buf) /\ UNCHANGED exception
    BY <1>0, <2>0, <2>2, TraversableDoneOK
  <2>3. "key" \notin Starting
    BY DEF Starting
  <2>4. CASE CallZval(Append(Below, next), key) /\ UNCHANGED <<exception, protected>>
    <3>1. LaterFrame(next) /\ next.f = "key"
      BY <1>1, <2>0 DEF LaterFrame, FrameOK, FrameType
    <3> HIDE DEF next, key
    <3> QED BY <1>0, <1>1, <2>0, <2>3, <2>4, <3>1, PlainReplace DEF CallsOrGoesOn
  <2>5. CASE CallZval(Append(Below, kept), key) /\ UNCHANGED <<exception, protected>>
    <3>1. LaterFrame(kept) /\ kept.f = "key"
      BY <1>1, <2>0 DEF LaterFrame, FrameOK, FrameType
    <3> HIDE DEF kept, key
    <3> QED BY <1>0, <1>1, <2>0, <2>3, <2>5, <3>1, PlainReplace DEF CallsOrGoesOn
  <2> QED BY <1>4, <2>1, <2>2, <2>4, <2>5 DEF TraversableNext
<1>5. CASE TraversableKey
  <2>0. Top.f = "key" /\ Top.f \in Iterating
    BY <1>5 DEF TraversableKey, AtTraversable, Iterating
  <2> DEFINE current == heap[Top.n].ent[Top.i].v
             ht == IF Top.flag THEN Append(Top.ht, [key |-> buf, v |-> current]) ELSE Top.ht
             next == [Top EXCEPT !.f = "forward", !.out = << >>, !.ht = ht]
  <2>1. CASE \E out : TraversableDone(error, out) /\ UNCHANGED exception
    BY <1>0, <2>0, <2>1, TraversableDoneOK
  <2>2. CASE \E out : error = "none" /\ TraversableDone("DUPLICATE_KEY", out) /\ UNCHANGED exception
    BY <1>0, <2>0, <2>2, TraversableDoneOK
  <2>3. CASE \E out : error = "none" /\ Throw /\ TraversableDone("EXCEPTION", out)
    BY <1>0, <2>0, <2>3, TraversableDoneOK DEF Throw
  <2>4. CASE /\ error = "none" /\ UNCHANGED <<exception, protected>>
             /\ GoOn(Append(Below, next)) \/ CallZval(Append(Below, next), current)
    <3>1. LaterFrame(next) /\ next.f = "forward"
      <4> HIDE DEF ht
      <4> QED BY <1>1, <2>0 DEF LaterFrame, FrameOK, FrameType
    <3>2. "forward" \notin Starting
      BY DEF Starting
    <3> HIDE DEF next, current
    <3> QED BY <1>0, <1>1, <2>4, <3>1, <3>2, PlainReplace DEF CallsOrGoesOn
  <2> QED BY <1>5, <2>1, <2>2, <2>3, <2>4 DEF TraversableKey
<1>6. CASE TraversableForward
  <2>0. Top.f = "forward" /\ Top.f \in Iterating
    BY <1>6 DEF TraversableForward, AtTraversable, Iterating
  <2> DEFINE fr == [Top EXCEPT !.f = "next"]
  <2>1. CASE TraversableDone(error, buf) /\ UNCHANGED exception
    BY <1>0, <2>0, <2>1, TraversableDoneOK
  <2>2. CASE \E owned : error = "none" /\ Throw /\ TraversableLeaves("EXCEPTION", buf, owned)
    BY <1>0, <2>0, <2>2, TraversableLeavesOK DEF Throw
  <2>3. CASE error = "none" /\ GoOn(Append(Below, fr)) /\ UNCHANGED <<exception, protected>>
    <3>1. LaterFrame(fr)
      BY <1>1, <2>0 DEF LaterFrame, FrameOK, FrameType
    <3> HIDE DEF fr
    <3> QED BY <1>0, <1>1, <2>3, <3>1, PlainReplace DEF CallsOrGoesOn
  <2> QED BY <1>6, <2>1, <2>2, <2>3 DEF TraversableForward
<1>7. CASE TraversableEnd
  <2>0. Top.f = "next" /\ Top.f \in Iterating /\ error = "none"
    BY <1>1, <1>7 DEF TraversableEnd, AtTraversable, Iterating, Starting
  <2> DEFINE fr == [Top EXCEPT !.f = "traversed"]
             map(sorted) == CdeFrame(Top.n, sorted, FALSE)
  <2>1. CASE TraversableThrows
    BY <1>0, <2>0, <2>1, TraversableThrowsOK
  <2>2. CASE \E out : TraversableDone("none", out) /\ UNCHANGED exception
    BY <1>0, <2>0, <2>2, TraversableDoneOK
  <2>3. CASE TraversableDone(CountError(Top), buf) /\ UNCHANGED exception
    <3>1. CountError(Top) # "EXCEPTION"
      BY DEF CountError
    <3> QED BY <1>0, <2>0, <2>3, <3>1, TraversableDoneOK
  <2>4. CASE /\ \E sorted \in SortByKey(Top.ht) : GoOn(Below \o <<fr, map(sorted)>>)
             /\ UNCHANGED <<exception, protected>>
    <3> PICK sorted \in SortByKey(Top.ht) : GoOn(Below \o <<fr, map(sorted)>>)
      BY <2>4
    <3> DEFINE cde == map(sorted)
    <3>1. /\ FrameOK(fr) /\ fr.args = Top.args /\ fr.srns = Top.srns /\ fr.n = Top.n
          /\ fr.f = "traversed"
      BY <1>1 DEF FrameOK, FrameType
    <3>2. /\ FrameOK(cde) /\ cde.f = "cde_map" /\ cde.args = args /\ cde.srns = srns /\ ~cde.flag
      BY <1>1, CdeFrameOK
    <3>0. GoOn(Below \o <<fr, cde>>)
      OBVIOUS
    <3> HIDE DEF fr, cde, map
    <3>3. stack' = Below \o <<fr, cde>> /\ pc' = "ret" /\ error' = "none" /\ cur_depth' = cur_depth
      BY <3>0 DEF GoOn
    <3>4. IsSeq(stack)
      BY DEF IInv, Shape
    <3>5. stack' = SubSeq(stack, 1, Len(stack) - 1) \o <<fr, cde>>
      BY <3>3 DEF Below
    <3>6. stack' = Append(Append(SubSeq(stack, 1, Len(stack) - 1), fr), cde)
      BY <1>0, <3>4, <3>5, SplitFacts
    <3>7. Splits(fr, cde)
      BY <1>0, <2>0, <2>4, <3>1, <3>2, <3>3, <3>6 DEF Splits, Below
    <3> QED BY <3>7, SplitsOK
  <2> QED BY <1>7, <2>1, <2>2, <2>3, <2>4 DEF TraversableEnd
<1>8. CASE Traversed
  <2>0. Top.f \in Iterating /\ TraversableDone(error, buf) /\ UNCHANGED exception
    BY <1>8 DEF Traversed, AtTraversable, Iterating
  <2> QED BY <1>0, <2>0, TraversableDoneOK
<1> QED BY <1>2, <1>3, <1>4, <1>5, <1>6, <1>7, <1>8 DEF Traverse

-----------------------------------------------------------------------------
(* The call.                                                                *)

\* With no function on the stack nothing is marked and no depth is counted.
LEMMA EmptyStack ==
  ASSUME stack = << >>
  PROVE  DOMAIN stack = {} /\ Len(stack) = 0 /\ Depth = 0 /\ Levels = {1}
<1>1. DOMAIN stack = {} /\ Len(stack) = 0
  OBVIOUS
<1>2. {i \in DOMAIN stack : InZval(stack[i])} = {}
  BY <1>1
<1>3. Depth = 0
  BY <1>2, FS_EmptySet DEF Depth
<1>4. 1..(0 + 1) = {1}
  OBVIOUS
<1> QED BY <1>1, <1>3, <1>4 DEF Levels

LEMMA InitOK == Init => IInv
<1> SUFFICES ASSUME Init PROVE IInv
  OBVIOUS
<1>1. stack = << >> /\ DOMAIN stack = {} /\ Depth = 0
  BY EmptyStack DEF Init
<1>2. Shape
  BY <1>1 DEF Init, Shape, IsSeq, ArgsOK, SrnsOK, NoArgs, NoSrns
<1>3. Errors /\ Depths /\ Chain /\ Outermost /\ Contexts /\ Outside
  BY <1>1 DEF Init, Errors, Depths, Chain, Outermost, Contexts, Outside
<1>4. MarksMatchStack
  <2>1. {i \in DOMAIN stack : stack[i].f = "encodeparams" /\ stack[i].flag} = {}
    BY <1>1
  <2>2. Cardinality({}) = 0
    BY FS_EmptySet
  <2> QED BY <1>1, <2>1, <2>2 DEF Init, MarksMatchStack
<1> QED BY <1>2, <1>3, <1>4 DEF IInv

\* The arguments of the call are found to be right, or there is no call.
LEMMA StartStep == ASSUME IInv, Start PROVE IInv'
<1>0. /\ pc = "start" /\ stack = << >> /\ stack' = << >>
      /\ UNCHANGED <<call, stack, cur_depth, in_enc_params, protected>>
  BY DEF IInv, Shape, Start
<1>1. /\ DOMAIN stack = {} /\ Depth = 0
      /\ DOMAIN stack' = {} /\ Len(stack') = 0 /\ Depth' = 0 /\ Levels' = {1}
  <2>1. DOMAIN stack = {} /\ Len(stack) = 0 /\ Depth = 0 /\ Levels = {1}
    BY <1>0, EmptyStack
  <2>2. Depth' = Depth /\ Levels' = Levels
    BY <1>0 DEF Depth, InZval, Levels
  <2> QED BY <1>0, <2>1, <2>2
<1>2. MarksMatchStack' /\ Chain' /\ IsSeq(stack') /\ cur_depth = 0 /\ error = "none" /\ exception = "none"
  <2>1. MarksMatchStack'
    BY <1>0 DEF IInv, MarksMatchStack
  <2>2. Chain'
    BY <1>1 DEF Chain
  <2> QED BY <1>0, <1>1, <2>1, <2>2 DEF IInv, Depths, Errors, IsSeq
<1>3. CASE /\ error' \in {"INVALID_FLAGS", "INVALID_OPTIONS"} /\ exception' = Thrown(error') /\ pc' = "end"
           /\ UNCHANGED <<args, srns>>
  <2>1. exception' = "cbor"
    BY <1>3 DEF Thrown
  <2>2. Errors' /\ Depths' /\ Outermost' /\ Contexts'
    BY <1>1, <1>3, <2>1 DEF Errors, Depths, Outermost, Contexts
  <2>3. Shape'
    BY <1>0, <1>1, <1>2, <1>3 DEF IInv, Shape
  <2>4. Outside'
    BY <1>0, <1>3 DEF IInv, Outside, NoArgs, NoSrns
  <2> QED BY <1>2, <2>2, <2>3, <2>4 DEF IInv
<1>4. CASE /\ CallArgs.ok /\ args' = CallArgs.v /\ pc' = "call" /\ UNCHANGED <<error, exception>>
           /\ srns' = IF args'.string_ref = "true" THEN NewSrns ELSE NoSrns
  <2>1. CallArgs' = CallArgs
    BY <1>0, <1>4, SameCall
  <2> DEFINE o == cbor_set_encode_options(call.options)
             a == [ u_flags |-> call.flags, e_flags |-> {}, max_depth |-> o.v.max_depth,
                    string_ref |-> o.v.string_ref, shared_ref |-> o.v.shared_ref, ext |-> o.v.ext ]
  <2>2. CallArgs = CheckParams(a) /\ ArgsOK(a)
    BY <1>4 DEF CallArgs, Invalid, ArgsOK
  <2> HIDE DEF a
  <2>3. /\ ArgsOK(args') /\ args'.u_flags = a.u_flags /\ ("CDE" \in args'.e_flags <=> "CDE" \in a.u_flags)
        /\ args'.string_ref = a.string_ref /\ args'.shared_ref = a.shared_ref
        /\ "CDE" \in a.u_flags => a.string_ref = "false" /\ a.shared_ref = "false"
    BY <1>4, <2>2, CheckedOK
  <2>4. SrnsOK(srns') /\ (srns'.on <=> args'.string_ref = "true")
    BY <1>4 DEF SrnsOK, NewSrns, NoSrns
  <2>5. ArgsAt(1)' = args' /\ OnAt(1)' = srns'.on
    BY <1>1 DEF ArgsAt, OnAt
  <2>6. Outermost'
    BY <1>4, <2>1, <2>4, <2>5 DEF Outermost
  <2>7. LevelOK(ArgsAt(1), OnAt(1))'
    BY <1>4, <2>1, <2>3, <2>4, <2>5 DEF LevelOK
  <2>8. Contexts'
    BY <1>1, <2>7 DEF Contexts
  <2>9. Shape' /\ Outside'
    BY <1>0, <1>1, <1>2, <1>4, <2>3, <2>4 DEF IInv, Shape, Outside
  <2>10. Errors' /\ Depths'
    BY <1>0, <1>1, <1>2, <1>4 DEF Errors, Depths
  <2> QED BY <1>2, <2>6, <2>8, <2>9, <2>10 DEF IInv
<1> QED BY <1>3, <1>4 DEF Start

LEMMA ZvalStep == ASSUME IInv, EncZval PROVE IInv'
<1>0. /\ pc = "call" /\ pc' \in {"ret", "type"} /\ cur_depth' = cur_depth + 1
      /\ UNCHANGED <<call, exception, stack, args, in_enc_params, srns, protected>>
  BY DEF EncZval
<1>1. pc \in Running /\ pc' \in Running /\ cur_depth \in Int /\ cur_depth' \in Int /\ SrnsOK(srns)
  BY <1>0 DEF Running, IInv, Shape
<1>2. /\ Shape' /\ MarksMatchStack' /\ Chain' /\ Outermost' /\ Contexts' /\ Outside'
      /\ Depth' = Depth /\ Depth \in Nat
  BY <1>0, <1>1, SameStack DEF KeepsSrns
<1>3. cur_depth = Depth /\ error = "none" /\ exception = "none"
  BY <1>0 DEF IInv, Depths, Errors
<1>4. /\ \A i \in DOMAIN stack' : stack'[i].f \notin Starting
      /\ stack' # << >> => Top'.f \notin Starting
  <2>1. \A i \in DOMAIN stack : stack[i].f \notin Starting
    BY <1>0 DEF IInv, Errors
  <2>2. stack # << >> => Len(stack) \in DOMAIN stack
    BY StackFacts DEF IInv
  <2> QED BY <1>0, <2>1, <2>2 DEF Top
<1>5. CASE error' = "DEPTH" /\ pc' = "ret"
  <2>1. Errors' /\ Depths'
    BY <1>0, <1>3, <1>4, <1>5 DEF Errors, Depths
  <2> QED BY <1>2, <2>1 DEF IInv
<1>6. CASE pc' = "type" /\ UNCHANGED error
  <2>1. Errors' /\ Depths'
    BY <1>0, <1>2, <1>3, <1>4, <1>6 DEF Errors, Depths
  <2> QED BY <1>2, <2>1 DEF IInv
<1> QED BY <1>5, <1>6 DEF EncZval

LEMMA FinishStep == ASSUME IInv, Finish PROVE IInv'
<1>0. /\ pc = "ret" /\ stack = << >> /\ stack' = << >> /\ pc' = "end" /\ exception' = Thrown(error)
      /\ srns' = NoSrns /\ UNCHANGED <<error, stack, args, cur_depth, in_enc_params, protected>>
  BY DEF Finish
<1>1. DOMAIN stack' = {}
  BY <1>0, EmptyStack
<1>2. MarksMatchStack' /\ Chain' /\ Depths' /\ Outermost' /\ Contexts'
  BY <1>0, <1>1 DEF IInv, MarksMatchStack, Chain, Depths, Outermost, Contexts
<1>3. Shape'
  BY <1>0 DEF IInv, Shape, SrnsOK, NoSrns
<1>4. Outside'
  <2>1. LevelOK(args, srns.on)
    BY <1>0, NowOK DEF Running
  <2> QED BY <1>0, <2>1 DEF Outside, LevelOK, NoSrns
<1>5. Errors'
  <2>1. exception \in {"none", "user"} /\ (exception = "user" <=> error = "EXCEPTION")
    BY <1>0 DEF IInv, Errors
  <2>2. (error' = "none") = (exception' = "none") /\ (exception' = "user" <=> error' = "EXCEPTION")
    BY <1>0, <2>1 DEF Thrown
  <2> QED BY <1>0, <1>1, <2>2 DEF Errors
<1> QED BY <1>2, <1>3, <1>4, <1>5 DEF IInv

LEMMA StutterOK == ASSUME IInv, UNCHANGED vars PROVE IInv'
<1>1. UNCHANGED <<call, pc, error, exception, stack, args, cur_depth, in_enc_params, srns, protected>>
  BY DEF vars, ctxVars
<1>2. Top' = Top /\ Depth' = Depth /\ Levels' = Levels
  BY <1>1 DEF Top, Depth, InZval, Levels
<1>3. \A i : ArgsAt(i)' = ArgsAt(i) /\ OnAt(i)' = OnAt(i)
  BY <1>1 DEF ArgsAt, OnAt
<1>4. Shape' /\ Errors' /\ Depths' /\ MarksMatchStack' /\ Chain' /\ Outside'
  BY <1>1, <1>2, <1>3 DEF IInv, Shape, Errors, Depths, MarksMatchStack, Chain, Outside
<1>5. ASSUME pc \in Running PROVE Outermost' /\ Contexts'
  <2>1. Len(stack) \in Nat
    BY StackFacts DEF IInv
  <2> QED BY <1>1, <1>3, <1>5, <2>1, FewerLevels
<1>6. ASSUME pc \notin Running PROVE Outermost' /\ Contexts'
  BY <1>1, <1>6 DEF Outermost, Contexts, Running
<1> QED BY <1>4, <1>5, <1>6 DEF IInv

-----------------------------------------------------------------------------
(* The theorems.                                                            *)

\* The invariant holds in every state that a call of cbor_encode reaches.
THEOREM Invariance == Spec => []IInv
<1>1. IInv /\ [Next]_vars => IInv'
  <2> SUFFICES ASSUME IInv, [Next]_vars PROVE IInv'
    OBVIOUS
  <2>1. CASE Start \/ EncZval \/ Finish
    BY <2>1, StartStep, ZvalStep, FinishStep
  <2>2. CASE EncScalar \/ EncFloatx \/ EncStr \/ EncXString
    BY <2>2, LeafSteps
  <2>3. CASE EncDateTime \/ EncBignum \/ EncDecimal \/ EncUri \/ EncUnsupported
    BY <2>3, LeafSteps
  <2>4. CASE EncReference \/ EncShareable \/ EncArray \/ EncStdClass
    BY <2>4, ReferenceStep, ShareableStep, HashSteps
  <2>5. CASE EncTag \/ EncEncodeParams \/ EncSerializable \/ EncTraversable
    BY <2>5, TagStep, EncodeParamsStep, SerializableStep, TraversableStep
  <2>6. CASE HashNext \/ HashDone \/ CdeMapNext
    BY <2>6, HashNextStep, HashDoneStep, CdeMapNextStep
  <2>7. CASE ShareableDone \/ TagDone \/ EncodeParamsDone \/ SerializableDone \/ CdeMapDone
    BY <2>7, ReturnSteps
  <2>8. CASE Traverse
    BY <2>8, TraverseSteps
  <2>9. CASE UNCHANGED vars
    BY <2>9, StutterOK
  <2> QED BY <2>1, <2>2, <2>3, <2>4, <2>5, <2>6, <2>7, <2>8, <2>9 DEF Next
<1> QED BY <1>1, InitOK, PTL DEF Spec

\* A value is marked exactly as long as the function that marked it runs, and
\* the EncodeParams that may be shared are counted: whatever fails, and
\* whatever user code throws, at any depth.
THEOREM MarksCorrect == Spec => []MarksMatchStack
<1>1. IInv => MarksMatchStack
  BY DEF IInv
<1> QED BY <1>1, Invariance, PTL

\* When the outermost enc_zval returns, the arguments and the namespace are
\* those of the call, and the depth is back at 0 unless it was exceeded.
THEOREM UnwoundCorrect == Spec => []Unwound
<1>1. IInv => Unwound
  <2> SUFFICES ASSUME IInv, pc = "ret", stack = << >>
               PROVE  /\ args = CallArgs.v
                      /\ error # "DEPTH" => cur_depth = 0
                      /\ args.string_ref # "true" => ~srns.on
    BY DEF Unwound
  <2>1. Depth = 0 /\ Len(stack) = 0
    BY EmptyStack
  <2>2. ArgsAt(1) = args /\ OnAt(1) = srns.on
    BY <2>1 DEF ArgsAt, OnAt
  <2>3. args = CallArgs.v /\ (srns.on => CallArgs.v.string_ref = "true")
    BY <2>2 DEF IInv, Outermost
  <2>4. error # "DEPTH" => cur_depth = 0
    BY <2>1 DEF IInv, Depths
  <2> QED BY <2>3, <2>4
<1> QED BY <1>1, Invariance, PTL

\* Below an EncodeParams that switched CBOR_CDE on it stays on, and strings
\* and values are not written as references.
THEOREM CdeCorrect == Spec => []CdeContextFree
<1>1. IInv => CdeContextFree
  <2> SUFFICES ASSUME IInv PROVE CdeContextFree
    OBVIOUS
  <2>1. CASE pc \in Running
    <3>1. LevelOK(args, srns.on)
      BY <2>1, NowOK
    <3>2. "CDE" \in args.e_flags => ~srns.on /\ args.shared_ref = "false"
      BY <3>1 DEF LevelOK
    <3>3. Len(stack) \in Nat /\ DOMAIN stack = 1..Len(stack)
      BY StackFacts DEF IInv
    <3> DEFINE N == Len(stack) + 1
    <3>4. ASSUME NEW i \in DOMAIN stack, "CDE" \in stack[i].args.e_flags
          PROVE  "CDE" \in args.e_flags
      <4>1. i \in Levels /\ N \in Levels /\ i <= N /\ i # N
        BY <3>3 DEF Levels
      <4>2. ArgsAt(i) = stack[i].args /\ ArgsAt(N) = args
        BY <4>1 DEF ArgsAt
      <4>3. "CDE" \in ArgsAt(i).e_flags
        BY <3>4, <4>2
      <4> HIDE DEF N
      <4>4. "CDE" \in ArgsAt(N).e_flags
        BY <2>1, <4>1, <4>3 DEF IInv, Contexts, Running
      <4> QED BY <4>2, <4>4
    <3> QED BY <3>2, <3>4 DEF CdeContextFree
  <2>2. CASE pc \in {"start", "end"}
    <3>1. DOMAIN stack = {}
      BY <2>2, EmptyStack DEF IInv, Shape
    <3>2. "CDE" \in args.e_flags => ~srns.on /\ args.shared_ref = "false"
      BY <2>2 DEF IInv, Outside, NoArgs
    <3> QED BY <3>1, <3>2 DEF CdeContextFree
  <2> QED BY <2>1, <2>2 DEF IInv, Shape, Running
<1> QED BY <1>1, Invariance, PTL

\* The call gives data or an exception, and an exception of user code reaches
\* the caller: no other error takes its place on the way out.
THEOREM ResultCorrect == Spec => []DataOrException
<1>1. IInv => DataOrException
  BY DEF IInv, Errors, DataOrException
<1> QED BY <1>1, Invariance, PTL
=============================================================================
