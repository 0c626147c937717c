-------------------------- MODULE ValueTypesProofs --------------------------
(***************************************************************************)
(* Proofs about ValueTypes for any number of variables, objects, strings    *)
(* and calls: the reference counts of types.c are exact, and undefined is   *)
(* one object.                                                              *)
(***************************************************************************)
EXTENDS ValueTypes, FiniteSetTheorems, TLAPS

-----------------------------------------------------------------------------
(* The inductive invariant.                                                 *)

StringValue == {EmptyStr} \cup {AStr(s) : s \in StrId}
AnyValue ==
  StringValue \cup {Nothing, Number, ErrorZval} \cup {AnObj(o) : o \in Obj} \cup {AnUndef(u) : u \in UndefId}

\* The number of places of D in which f has v
Count(f, D, v) == Cardinality({x \in D : f[x] = v})

Types ==
  /\ var \in [Var -> AnyValue]
  /\ str \in [Obj -> StringValue]
  /\ rc \in [StrId -> Int]
  /\ leaked \in [StrId -> Nat]
  /\ obj_rc \in [Obj -> Int]
  /\ undef_rc \in [UndefId -> Int]
  /\ undef_ins \in UndefId \cup {0}

\* An object, and an instance of Cbor\Undefined, is counted once for each
\* variable that holds it.
ObjectsCounted == \A o \in Obj : obj_rc[o] = Count(var, Var, AnObj(o))
UndefsCounted == \A u \in UndefId : undef_rc[u] = Count(var, Var, AnUndef(u))

\* xstring_free leaves no string in an object that is gone.
DeadHoldNothing == \A o \in Obj : obj_rc[o] = 0 => str[o] = EmptyStr

\* StringsCounted, with the objects that are gone among the holders
AllCounted ==
  \A s \in StrId : rc[s] = Count(var, Var, AStr(s)) + Count(str, Obj, AStr(s)) + leaked[s]

IInv ==
  Types /\ ObjectsCounted /\ UndefsCounted /\ DeadHoldNothing /\ AllCounted /\ UndefinedUnique

-----------------------------------------------------------------------------
(* Counting.                                                                *)

\* 1 if a is b: what it contributes to the count of b
Is(a, b) == IF a = b THEN 1 ELSE 0

\* The count of a value is a number, and 0 if and only if it is nowhere.
LEMMA CountType ==
  ASSUME NEW D, IsFiniteSet(D), NEW f, NEW v
  PROVE  /\ Count(f, D, v) \in Nat
         /\ Count(f, D, v) = 0 <=> \A x \in D : f[x] # v
<1> DEFINE S == {x \in D : f[x] = v}
<1>1. IsFiniteSet(S)
  BY FS_Subset
<1>2. Cardinality(S) \in Nat /\ (Cardinality(S) = 0 <=> S = {})
  BY <1>1, FS_CardinalityType, FS_EmptySet
<1> QED BY <1>2 DEF Count

\* An assignment takes one from the count of the value that was there and
\* gives one to that of the value that is.
LEMMA CountUpdate ==
  ASSUME NEW D, IsFiniteSet(D), NEW y \in D, NEW f, NEW g, \A x \in D : x # y => g[x] = f[x], NEW v
  PROVE  Count(g, D, v) = Count(f, D, v) - Is(f[y], v) + Is(g[y], v)
<1> DEFINE S == {x \in D : f[x] = v}
           T == {x \in D : g[x] = v}
           R == S \ {y}
<1>2. IsFiniteSet(S)
  BY FS_Subset
<1>3. IsFiniteSet(R) /\ Cardinality(R) = IF y \in S THEN Cardinality(S) - 1 ELSE Cardinality(S)
  BY <1>2, FS_RemoveElement
<1>4. Cardinality(S) \in Nat /\ Cardinality(R) \in Nat
  BY <1>2, <1>3, FS_CardinalityType
<1>5. y \in S <=> f[y] = v
  OBVIOUS
<1>6. Cardinality(S) - Is(f[y], v) = Cardinality(R)
  BY <1>3, <1>4, <1>5 DEF Is
<1>7. CASE g[y] = v
  <2>1. T = R \cup {y}
    BY <1>7
  <2>2. Cardinality(R \cup {y}) = Cardinality(R) + 1
    BY <1>3, FS_AddElement
  <2> QED BY <2>1, <2>2, <1>4, <1>6, <1>7 DEF Count, Is
<1>8. CASE g[y] # v
  <2>1. T = R
    BY <1>8
  <2>2. Cardinality(T) = Cardinality(S) - Is(f[y], v) /\ Is(g[y], v) = 0
    BY <2>1, <1>6, <1>8 DEF Is
  <2>3. Cardinality(T) = Cardinality(S) - Is(f[y], v) + Is(g[y], v)
    BY <2>1, <2>2, <1>4
  <2> QED BY <2>3 DEF Count
<1> QED BY <1>7, <1>8

\* A contribution is 0 or 1.
LEMMA IsType == ASSUME NEW a, NEW b PROVE Is(a, b) \in {0, 1} /\ (Is(a, b) = 1 <=> a = b)
  BY DEF Is

\* What tells the values apart
LEMMA Kinds ==
  /\ \A s : AStr(s).k = "str" /\ AStr(s).id = s
  /\ \A o : AnObj(o).k = "obj" /\ AnObj(o).id = o
  /\ \A u : AnUndef(u).k = "undef" /\ AnUndef(u).id = u
  /\ Nothing.k = "null" /\ EmptyStr.k = "empty" /\ Number.k = "long" /\ ErrorZval.k = "error"
  BY DEF AStr, AnObj, AnUndef, Nothing, EmptyStr, Number, ErrorZval

\* A value is what its kind says.
LEMMA ValueKind ==
  ASSUME NEW v \in AnyValue
  PROVE  /\ v.k = "str" => v.id \in StrId /\ v = AStr(v.id)
         /\ v.k = "obj" => v.id \in Obj /\ v = AnObj(v.id)
         /\ v.k = "undef" => v.id \in UndefId /\ v = AnUndef(v.id)
         /\ IsString(v) => v \in StringValue
  BY Kinds DEF AnyValue, StringValue, IsString

\* The values of strings, objects and undefined are different, those of
\* different objects too.
LEMMA Apart ==
  ASSUME NEW s, NEW o, NEW u
  PROVE  /\ AStr(s) # AnObj(o) /\ AStr(s) # AnUndef(u) /\ AnObj(o) # AnUndef(u)
         /\ \A v \in {Nothing, EmptyStr, Number, ErrorZval} :
              v # AStr(s) /\ v # AnObj(o) /\ v # AnUndef(u)
         /\ \A t : AStr(s) = AStr(t) => s = t
         /\ \A t : AnObj(o) = AnObj(t) => o = t
         /\ \A t : AnUndef(u) = AnUndef(t) => u = t
<1>1. \A v \in {Nothing, EmptyStr, Number, ErrorZval} : v.k \notin {"str", "obj", "undef"}
  BY Kinds
<1> QED BY <1>1, Kinds

\* zend_string_addref and zend_string_release change the count of the string
\* they are given, and no other.
LEMMA AddRefCounts ==
  ASSUME NEW counts \in [StrId -> Int], NEW v \in AnyValue
  PROVE  /\ AddRef(counts, v) \in [StrId -> Int]
         /\ \A s \in StrId : AddRef(counts, v)[s] = counts[s] + Is(v, AStr(s))
<1>1. CASE v.k = "str"
  <2>1. v.id \in StrId /\ v = AStr(v.id)
    BY <1>1, ValueKind
  <2>2. \A s \in StrId : v = AStr(s) <=> s = v.id
    BY <2>1, Apart
  <2> QED BY <1>1, <2>1, <2>2 DEF AddRef, Is
<1>2. CASE v.k # "str"
  <2>1. \A s : v # AStr(s)
    BY <1>2, Kinds
  <2> QED BY <1>2, <2>1 DEF AddRef, Is
<1> QED BY <1>1, <1>2

LEMMA ReleaseCounts ==
  ASSUME NEW counts \in [StrId -> Int], NEW v \in AnyValue
  PROVE  /\ Release(counts, v) \in [StrId -> Int]
         /\ \A s \in StrId : Release(counts, v)[s] = counts[s] - Is(v, AStr(s))
<1>1. CASE v.k = "str"
  <2>1. v.id \in StrId /\ v = AStr(v.id)
    BY <1>1, ValueKind
  <2>2. \A s \in StrId : v = AStr(s) <=> s = v.id
    BY <2>1, Apart
  <2> QED BY <1>1, <2>1, <2>2 DEF Release, Is
<1>2. CASE v.k # "str"
  <2>1. \A s : v # AStr(s)
    BY <1>2, Kinds
  <2> QED BY <1>2, <2>1 DEF Release, Is
<1> QED BY <1>1, <1>2

\* An assignment to a variable changes the counts of what it held and of what
\* it holds.
LEMMA VarUpdate ==
  ASSUME Types, NEW x \in Var, NEW w, var' = [var EXCEPT ![x] = w]
  PROVE  \A v : Count(var', Var, v) = Count(var, Var, v) - Is(var[x], v) + Is(w, v)
<1>1. IsFiniteSet(Var) /\ DOMAIN var = Var
  BY ValueTypesAssumption DEF Types
<1> DEFINE g == var'
<1>2. g[x] = w /\ \A y \in Var : y # x => g[y] = var[y]
  BY <1>1
<1> HIDE DEF g
<1>3. \A v : Count(g, Var, v) = Count(var, Var, v) - Is(var[x], v) + Is(g[x], v)
  BY <1>1, <1>2, CountUpdate
<1> QED BY <1>2, <1>3 DEF g

\* The same for the string of an object
LEMMA StrUpdate ==
  ASSUME Types, NEW o \in Obj, NEW w, str' = [str EXCEPT ![o] = w]
  PROVE  \A v : Count(str', Obj, v) = Count(str, Obj, v) - Is(str[o], v) + Is(w, v)
<1>1. IsFiniteSet(Obj) /\ DOMAIN str = Obj
  BY ValueTypesAssumption DEF Types
<1> DEFINE g == str'
<1>2. g[o] = w /\ \A y \in Obj : y # o => g[y] = str[y]
  BY <1>1
<1> HIDE DEF g
<1>3. \A v : Count(g, Obj, v) = Count(str, Obj, v) - Is(str[o], v) + Is(g[o], v)
  BY <1>1, <1>2, CountUpdate
<1> QED BY <1>2, <1>3 DEF g

\* Counts of the places that refer to something are numbers.
LEMMA VarCount ==
  \A f, v : Count(f, Var, v) \in Nat /\ (Count(f, Var, v) = 0 <=> \A x \in Var : f[x] # v)
  BY ValueTypesAssumption, CountType
LEMMA Counts ==
  /\ \A v : Count(var, Var, v) \in Nat /\ (Count(var, Var, v) = 0 <=> \A x \in Var : var[x] # v)
  /\ \A v : Count(str, Obj, v) \in Nat
  BY ValueTypesAssumption, CountType

\* An object or an instance of Cbor\Undefined that a variable holds exists.
LEMMA HeldExists ==
  ASSUME IInv, NEW x \in Var
  PROVE  /\ var[x] \in AnyValue
         /\ var[x].k = "obj" => /\ var[x].id \in Obj /\ var[x] = AnObj(var[x].id)
                                /\ obj_rc[var[x].id] > 0
                                /\ str[var[x].id] \in AnyValue
         /\ var[x].k = "undef" => /\ var[x].id \in UndefId /\ var[x] = AnUndef(var[x].id)
                                  /\ undef_rc[var[x].id] > 0
<1>1. var[x] \in AnyValue
  BY DEF IInv, Types
<1>2. ASSUME var[x].k = "obj"
      PROVE  var[x].id \in Obj /\ var[x] = AnObj(var[x].id) /\ obj_rc[var[x].id] > 0
  BY <1>1, <1>2, ValueKind, Counts DEF IInv, ObjectsCounted
<1>3. ASSUME var[x].k = "undef"
      PROVE  var[x].id \in UndefId /\ var[x] = AnUndef(var[x].id) /\ undef_rc[var[x].id] > 0
  BY <1>1, <1>3, ValueKind, Counts DEF IInv, UndefsCounted
<1>4. \A o \in Obj : str[o] \in AnyValue
  BY DEF IInv, Types, AnyValue
<1> QED BY <1>1, <1>2, <1>3, <1>4

-----------------------------------------------------------------------------
(* Every step keeps the invariant.                                          *)

\* Objects stay counted when their counts follow an assignment.
LEMMA ObjectsOK ==
  ASSUME IInv, NEW x \in Var, NEW w, var' = [var EXCEPT ![x] = w],
         \A o \in Obj : obj_rc'[o] = obj_rc[o] - Is(var[x], AnObj(o)) + Is(w, AnObj(o))
  PROVE  ObjectsCounted'
<1> SUFFICES ASSUME NEW o \in Obj PROVE obj_rc'[o] = Count(var', Var, AnObj(o))
  BY DEF ObjectsCounted
<1>1. Count(var', Var, AnObj(o)) = Count(var, Var, AnObj(o)) - Is(var[x], AnObj(o)) + Is(w, AnObj(o))
  BY VarUpdate DEF IInv
<1>2. obj_rc[o] = Count(var, Var, AnObj(o))
  BY DEF IInv, ObjectsCounted
<1> QED BY <1>1, <1>2

LEMMA UndefsOK ==
  ASSUME IInv, NEW x \in Var, NEW w, var' = [var EXCEPT ![x] = w],
         \A u \in UndefId : undef_rc'[u] = undef_rc[u] - Is(var[x], AnUndef(u)) + Is(w, AnUndef(u))
  PROVE  UndefsCounted'
<1> SUFFICES ASSUME NEW u \in UndefId PROVE undef_rc'[u] = Count(var', Var, AnUndef(u))
  BY DEF UndefsCounted
<1>1. Count(var', Var, AnUndef(u)) = Count(var, Var, AnUndef(u)) - Is(var[x], AnUndef(u)) + Is(w, AnUndef(u))
  BY VarUpdate DEF IInv
<1>2. undef_rc[u] = Count(var, Var, AnUndef(u))
  BY DEF IInv, UndefsCounted
<1> QED BY <1>1, <1>2

\* Strings stay counted when their counts follow an assignment to a variable
\* or to an object.
LEMMA StringsOKVar ==
  ASSUME IInv, NEW x \in Var, NEW w, var' = [var EXCEPT ![x] = w], str' = str,
         \A s \in StrId : /\ leaked'[s] \in Nat
                          /\ rc'[s] = rc[s] - Is(var[x], AStr(s)) + Is(w, AStr(s)) + leaked'[s] - leaked[s]
  PROVE  AllCounted'
<1> SUFFICES ASSUME NEW s \in StrId
             PROVE  rc'[s] = Count(var', Var, AStr(s)) + Count(str, Obj, AStr(s)) + leaked'[s]
  BY DEF AllCounted
<1>1. Count(var', Var, AStr(s)) = Count(var, Var, AStr(s)) - Is(var[x], AStr(s)) + Is(w, AStr(s))
  BY VarUpdate DEF IInv
<1>2. rc[s] = Count(var, Var, AStr(s)) + Count(str, Obj, AStr(s)) + leaked[s] /\ leaked[s] \in Nat
  BY DEF IInv, AllCounted, Types
<1>3. Count(var, Var, AStr(s)) \in Nat /\ Count(str, Obj, AStr(s)) \in Nat
  BY Counts
<1>4. Is(var[x], AStr(s)) \in Int /\ Is(w, AStr(s)) \in Int
  BY IsType
<1> QED BY <1>1, <1>2, <1>3, <1>4

\* A place that holds no object counts for none.
LEMMA NotObj ==
  ASSUME NEW v, v.k # "obj" PROVE \A o : Is(v, AnObj(o)) = 0
  BY Kinds DEF Is
LEMMA NotUndef ==
  ASSUME NEW v, v.k # "undef" PROVE \A u : Is(v, AnUndef(u)) = 0
  BY Kinds DEF Is
LEMMA NotStr ==
  ASSUME NEW v, v.k # "str" PROVE \A s : Is(v, AStr(s)) = 0
  BY Kinds DEF Is

\* A new string has one holder; its count was 0, so nobody holds another one
\* by its address and no reference of it was lost.
LEMMA NewStringOK == ASSUME IInv, NewString PROVE IInv'
<1> PICK x \in Var, t \in StrId :
      /\ var[x] = Nothing /\ rc[t] = 0
      /\ var' = [var EXCEPT ![x] = AStr(t)]
      /\ rc' = [rc EXCEPT ![t] = 1]
      /\ leaked' = [leaked EXCEPT ![t] = 0]
  BY DEF NewString
<1>0. UNCHANGED <<str, obj_rc, undef_rc, undef_ins, shutdown>>
  BY DEF NewString
<1>1. \A v : Count(var', Var, v) = Count(var, Var, v) - Is(Nothing, v) + Is(AStr(t), v)
  BY VarUpdate DEF IInv
<1>2. Types'
  BY <1>0 DEF IInv, Types, AnyValue, StringValue
<1>3. ObjectsCounted'
  <2>1. \A o \in Obj : Is(Nothing, AnObj(o)) = 0 /\ Is(AStr(t), AnObj(o)) = 0
    BY Kinds, NotObj
  <2>2. \A o \in Obj : obj_rc'[o] = obj_rc[o] - Is(var[x], AnObj(o)) + Is(AStr(t), AnObj(o))
    BY <1>0, <2>1 DEF IInv, Types
  <2> QED BY <2>2, ObjectsOK
<1>4. UndefsCounted'
  <2>1. \A u \in UndefId : Is(Nothing, AnUndef(u)) = 0 /\ Is(AStr(t), AnUndef(u)) = 0
    BY Kinds, NotUndef
  <2>2. \A u \in UndefId : undef_rc'[u] = undef_rc[u] - Is(var[x], AnUndef(u)) + Is(AStr(t), AnUndef(u))
    BY <1>0, <2>1 DEF IInv, Types
  <2> QED BY <2>2, UndefsOK
<1>5. DeadHoldNothing'
  BY <1>0 DEF IInv, DeadHoldNothing
<1>6. AllCounted'
  <2> SUFFICES ASSUME NEW s \in StrId
               PROVE  rc'[s] = Count(var', Var, AStr(s)) + Count(str, Obj, AStr(s)) + leaked'[s]
    BY <1>0 DEF AllCounted
  <2>1. Is(Nothing, AStr(s)) = 0 /\ Is(AStr(t), AStr(s)) = IF s = t THEN 1 ELSE 0
    BY Apart DEF Is
  <2>a. Count(var', Var, AStr(s)) = Count(var, Var, AStr(s)) - Is(Nothing, AStr(s)) + Is(AStr(t), AStr(s))
    BY <1>1
  <2>b. Count(var, Var, AStr(s)) \in Nat
    BY Counts
  <2>2. Count(var', Var, AStr(s)) = Count(var, Var, AStr(s)) + (IF s = t THEN 1 ELSE 0)
    BY <2>1, <2>a, <2>b
  <2>3. rc[s] = Count(var, Var, AStr(s)) + Count(str, Obj, AStr(s)) + leaked[s] /\ leaked[s] \in Nat
    BY DEF IInv, AllCounted, Types
  <2>4. Count(var, Var, AStr(s)) \in Nat /\ Count(str, Obj, AStr(s)) \in Nat
    BY Counts
  <2>5. rc'[s] = (IF s = t THEN 1 ELSE rc[s]) /\ leaked'[s] = IF s = t THEN 0 ELSE leaked[s]
    BY DEF IInv, Types
  <2> QED BY <2>2, <2>3, <2>4, <2>5
<1>7. UndefinedUnique'
  BY <1>0, Kinds DEF IInv, Types, UndefinedUnique
<1> QED BY <1>2, <1>3, <1>4, <1>5, <1>6, <1>7 DEF IInv

\* Numbers and the empty string are not counted.
LEMMA OtherValueOK == ASSUME IInv, OtherValue PROVE IInv'
<1> PICK x \in Var, w \in {EmptyStr, Number} : var[x] = Nothing /\ var' = [var EXCEPT ![x] = w]
  BY DEF OtherValue
<1>0. UNCHANGED <<str, rc, obj_rc, undef_rc, undef_ins, shutdown, leaked>>
  BY DEF OtherValue
<1>1. \A v : Count(var', Var, v) = Count(var, Var, v) - Is(Nothing, v) + Is(w, v)
  BY VarUpdate DEF IInv
<1>2. Types'
  BY <1>0 DEF IInv, Types, AnyValue, StringValue
<1>a. ASSUME NEW s PROVE /\ Is(Nothing, AStr(s)) = 0 /\ Is(w, AStr(s)) = 0
                         /\ Is(Nothing, AnObj(s)) = 0 /\ Is(w, AnObj(s)) = 0
                         /\ Is(Nothing, AnUndef(s)) = 0 /\ Is(w, AnUndef(s)) = 0
  BY Apart DEF Is
<1>b. ASSUME NEW v, Is(Nothing, v) = 0, Is(w, v) = 0 PROVE Count(var', Var, v) = Count(var, Var, v)
  <2>1. Count(var', Var, v) = Count(var, Var, v) - Is(Nothing, v) + Is(w, v) /\ Count(var, Var, v) \in Nat
    BY <1>1, Counts
  <2> QED BY <1>b, <2>1
<1>c. \A s : /\ Count(var', Var, AStr(s)) = Count(var, Var, AStr(s))
             /\ Count(var', Var, AnObj(s)) = Count(var, Var, AnObj(s))
             /\ Count(var', Var, AnUndef(s)) = Count(var, Var, AnUndef(s))
  BY <1>a, <1>b
<1>3. ObjectsCounted' /\ UndefsCounted' /\ AllCounted'
  BY <1>0, <1>c DEF IInv, ObjectsCounted, UndefsCounted, AllCounted
<1>5. DeadHoldNothing'
  BY <1>0 DEF IInv, DeadHoldNothing
<1>7. UndefinedUnique'
  BY <1>0, Kinds DEF IInv, Types, UndefinedUnique
<1> QED BY <1>2, <1>3, <1>5, <1>7 DEF IInv

LEMMA CopyVarOK == ASSUME IInv, CopyVar PROVE IInv'
<1> PICK x \in Var, y \in Var :
       /\ var[x] = Nothing /\ var[y].k \in {"obj", "undef", "str"}
       /\ var' = [var EXCEPT ![x] = var[y]]
       /\ rc' = AddRef(rc, var[y])
       /\ obj_rc' = IF var[y].k = "obj" THEN [obj_rc EXCEPT ![var[y].id] = @ + 1] ELSE obj_rc
       /\ undef_rc' = IF var[y].k = "undef" THEN [undef_rc EXCEPT ![var[y].id] = @ + 1] ELSE undef_rc
  BY DEF CopyVar
<1>0. UNCHANGED <<str, undef_ins, shutdown, leaked>>
  BY DEF CopyVar
<1> DEFINE w == var[y]
<1>n. \A s : Is(var[x], AnObj(s)) = 0 /\ Is(var[x], AnUndef(s)) = 0 /\ Is(var[x], AStr(s)) = 0
  BY Kinds, NotObj, NotUndef, NotStr
<1>w. w \in AnyValue /\ rc \in [StrId -> Int] /\ obj_rc \in [Obj -> Int] /\ undef_rc \in [UndefId -> Int]
  BY DEF IInv, Types
<1>h. /\ w.k = "obj" => w.id \in Obj /\ w = AnObj(w.id) /\ obj_rc[w.id] > 0
      /\ w.k = "undef" => w.id \in UndefId /\ w = AnUndef(w.id) /\ undef_rc[w.id] > 0
  BY HeldExists
<1>1. rc' \in [StrId -> Int] /\ \A s \in StrId : rc'[s] = rc[s] + Is(w, AStr(s))
  BY <1>w, AddRefCounts
<1>o. obj_rc' \in [Obj -> Int] /\ \A o \in Obj : obj_rc'[o] = obj_rc[o] + Is(w, AnObj(o))
  <2>1. CASE w.k = "obj"
    <3>1. \A o \in Obj : Is(w, AnObj(o)) = IF o = w.id THEN 1 ELSE 0
      BY <1>h, <2>1, Apart DEF Is
    <3> QED BY <1>w, <1>h, <2>1, <3>1
  <2>2. CASE w.k # "obj"
    BY <1>w, <2>2, NotObj
  <2> QED BY <2>1, <2>2
<1>u. undef_rc' \in [UndefId -> Int] /\ \A u \in UndefId : undef_rc'[u] = undef_rc[u] + Is(w, AnUndef(u))
  <2>1. CASE w.k = "undef"
    <3>1. \A u \in UndefId : Is(w, AnUndef(u)) = IF u = w.id THEN 1 ELSE 0
      BY <1>h, <2>1, Apart DEF Is
    <3> QED BY <1>w, <1>h, <2>1, <3>1
  <2>2. CASE w.k # "undef"
    BY <1>w, <2>2, NotUndef
  <2> QED BY <2>1, <2>2
<1>2. Types'
  BY <1>0, <1>1, <1>o, <1>u, <1>w DEF IInv, Types
<1>3. ObjectsCounted'
  <2>1. \A o \in Obj : obj_rc'[o] = obj_rc[o] - Is(var[x], AnObj(o)) + Is(w, AnObj(o))
    BY <1>o, <1>n, <1>w
  <2> QED BY <2>1, ObjectsOK
<1>4. UndefsCounted'
  <2>1. \A u \in UndefId : undef_rc'[u] = undef_rc[u] - Is(var[x], AnUndef(u)) + Is(w, AnUndef(u))
    BY <1>u, <1>n, <1>w
  <2> QED BY <2>1, UndefsOK
<1>5. DeadHoldNothing'
  <2>1. \A o \in Obj : obj_rc[o] \in Nat /\ Is(w, AnObj(o)) \in {0, 1}
    BY Counts, IsType DEF IInv, ObjectsCounted
  <2> QED BY <1>0, <1>o, <2>1 DEF IInv, DeadHoldNothing
<1>6. AllCounted'
  <2>1. \A s \in StrId : Is(w, AStr(s)) \in Int /\ leaked[s] \in Nat
    BY IsType DEF IInv, Types
  <2>2. \A s \in StrId :
          /\ leaked'[s] \in Nat
          /\ rc'[s] = rc[s] - Is(var[x], AStr(s)) + Is(w, AStr(s)) + leaked'[s] - leaked[s]
    BY <1>0, <1>1, <1>n, <1>w, <2>1
  <2> QED BY <1>0, <2>2, StringsOKVar
<1>7. UndefinedUnique'
  <2>1. undef_ins \in UndefId \cup {0} /\ \A u \in UndefId : undef_rc'[u] >= undef_rc[u]
    BY <1>u, <1>w, IsType DEF IInv, Types
  <2>2. undef_ins # 0 => undef_rc'[undef_ins] > 0
    BY <2>1, <1>u, <1>w DEF IInv, UndefinedUnique
  <2>3. var \in [Var -> AnyValue]
    BY DEF IInv, Types
  <2> QED BY <1>0, <2>2, <2>3 DEF IInv, UndefinedUnique
<1> QED BY <1>2, <1>3, <1>4, <1>5, <1>6, <1>7 DEF IInv

\* The last reference to an object frees it, with the string it holds; the
\* last one to undefined clears CBOR_G(undef_ins).
LEMMA UnsetOK == ASSUME IInv, Unset PROVE IInv'
<1> PICK x \in Var :
       /\ var[x] # Nothing
       /\ var' = [var EXCEPT ![x] = Nothing]
       /\ \/ /\ var[x].k \notin {"obj", "undef"}
             /\ rc' = Release(rc, var[x])
             /\ UNCHANGED <<str, obj_rc, undef_rc, undef_ins>>
          \/ /\ HoldsObj(x)
             /\ obj_rc' = [obj_rc EXCEPT ![ObjOf(x)] = @ - 1]
             /\ rc' = IF obj_rc[ObjOf(x)] = 1 THEN xstring_free(ObjOf(x)) ELSE rc
             /\ str' = IF obj_rc[ObjOf(x)] = 1 THEN [str EXCEPT ![ObjOf(x)] = EmptyStr] ELSE str
             /\ UNCHANGED <<undef_rc, undef_ins>>
          \/ /\ var[x].k = "undef"
             /\ undef_rc' = [undef_rc EXCEPT ![var[x].id] = @ - 1]
             /\ undef_ins' = IF undef_rc[var[x].id] = 1 THEN undef_dtor(var[x].id) ELSE undef_ins
             /\ UNCHANGED <<str, rc, obj_rc>>
  BY DEF Unset
<1>0. UNCHANGED <<shutdown, leaked>>
  BY DEF Unset
<1> DEFINE w == var[x]
<1>n. \A s : Is(Nothing, AnObj(s)) = 0 /\ Is(Nothing, AnUndef(s)) = 0 /\ Is(Nothing, AStr(s)) = 0
  BY Kinds, NotObj, NotUndef, NotStr
<1>w. /\ var \in [Var -> AnyValue] /\ rc \in [StrId -> Int] /\ obj_rc \in [Obj -> Int]
      /\ undef_rc \in [UndefId -> Int] /\ leaked \in [StrId -> Nat] /\ str \in [Obj -> StringValue]
      /\ undef_ins \in UndefId \cup {0}
  BY DEF IInv, Types
<1>h. /\ w.k = "obj" => /\ w.id \in Obj /\ w = AnObj(w.id) /\ obj_rc[w.id] > 0
                        /\ str[w.id] \in AnyValue
      /\ w.k = "undef" => w.id \in UndefId /\ w = AnUndef(w.id) /\ undef_rc[w.id] > 0
  BY HeldExists
<1>v. var' \in [Var -> AnyValue]
  BY <1>w DEF AnyValue
<1>1. CASE /\ w.k \notin {"obj", "undef"} /\ rc' = Release(rc, w)
           /\ UNCHANGED <<str, obj_rc, undef_rc, undef_ins>>
  <2>1. rc' \in [StrId -> Int] /\ \A s \in StrId : rc'[s] = rc[s] - Is(w, AStr(s))
    BY <1>1, <1>w, ReleaseCounts
  <2>2. \A s : Is(w, AnObj(s)) = 0 /\ Is(w, AnUndef(s)) = 0
    BY <1>1, NotObj, NotUndef
  <2>3. Types'
    BY <1>0, <1>1, <1>w, <1>v, <2>1 DEF Types
  <2>4. ObjectsCounted'
    <3>1. \A o \in Obj : obj_rc'[o] = obj_rc[o] - Is(w, AnObj(o)) + Is(Nothing, AnObj(o))
      BY <1>1, <1>n, <1>w, <2>2
    <3> QED BY <3>1, ObjectsOK
  <2>5. UndefsCounted'
    <3>1. \A u \in UndefId : undef_rc'[u] = undef_rc[u] - Is(w, AnUndef(u)) + Is(Nothing, AnUndef(u))
      BY <1>1, <1>n, <1>w, <2>2
    <3> QED BY <3>1, UndefsOK
  <2>6. DeadHoldNothing'
    BY <1>1 DEF IInv, DeadHoldNothing
  <2>7. AllCounted'
    <3>1. \A s \in StrId : Is(w, AStr(s)) \in Int
      BY IsType
    <3>2. \A s \in StrId :
            /\ leaked'[s] \in Nat
            /\ rc'[s] = rc[s] - Is(w, AStr(s)) + Is(Nothing, AStr(s)) + leaked'[s] - leaked[s]
      BY <1>0, <1>1, <1>n, <1>w, <2>1, <3>1
    <3> QED BY <1>1, <3>2, StringsOKVar
  <2>8. UndefinedUnique'
    BY <1>0, <1>1, <1>w, Kinds DEF IInv, UndefinedUnique
  <2> QED BY <2>3, <2>4, <2>5, <2>6, <2>7, <2>8 DEF IInv
<1>2. CASE /\ HoldsObj(x)
           /\ obj_rc' = [obj_rc EXCEPT ![ObjOf(x)] = @ - 1]
           /\ rc' = IF obj_rc[ObjOf(x)] = 1 THEN xstring_free(ObjOf(x)) ELSE rc
           /\ str' = IF obj_rc[ObjOf(x)] = 1 THEN [str EXCEPT ![ObjOf(x)] = EmptyStr] ELSE str
           /\ UNCHANGED <<undef_rc, undef_ins>>
  <2> DEFINE ob == w.id
  <2>1. /\ w.k = "obj" /\ ob \in Obj /\ w = AnObj(ob) /\ obj_rc[ob] > 0 /\ str[ob] \in AnyValue
        /\ obj_rc' = [obj_rc EXCEPT ![ob] = @ - 1]
        /\ rc' = IF obj_rc[ob] = 1 THEN Release(rc, str[ob]) ELSE rc
        /\ str' = IF obj_rc[ob] = 1 THEN [str EXCEPT ![ob] = EmptyStr] ELSE str
    BY <1>2, <1>h DEF HoldsObj, ObjOf, xstring_free
  <2>2. \A s : Is(w, AStr(s)) = 0 /\ Is(w, AnUndef(s)) = 0
    BY <2>1, NotStr, NotUndef
  <2>3. \A o \in Obj : Is(w, AnObj(o)) = IF o = ob THEN 1 ELSE 0
    BY <2>1, Apart DEF Is
  <2> HIDE DEF ob, w
  <2>4. Release(rc, str[ob]) \in [StrId -> Int]
        /\ \A s \in StrId : Release(rc, str[ob])[s] = rc[s] - Is(str[ob], AStr(s))
    BY <1>w, <2>1, ReleaseCounts
  <2>5. Types'
    <3>1. EmptyStr \in StringValue
      BY DEF StringValue
    <3>2. str' \in [Obj -> StringValue] /\ rc' \in [StrId -> Int] /\ obj_rc' \in [Obj -> Int]
      BY <1>w, <2>1, <2>4, <3>1
    <3> QED BY <1>0, <1>2, <1>w, <1>v, <3>2 DEF Types
  <2>6. ObjectsCounted'
    <3>1. \A o \in Obj : obj_rc'[o] = obj_rc[o] - Is(w, AnObj(o)) + Is(Nothing, AnObj(o))
      BY <1>w, <1>n, <2>1, <2>3
    <3> QED BY <3>1, ObjectsOK DEF w
  <2>7. UndefsCounted'
    <3>1. \A u \in UndefId : undef_rc'[u] = undef_rc[u] - Is(w, AnUndef(u)) + Is(Nothing, AnUndef(u))
      BY <1>2, <1>w, <1>n, <2>2
    <3> QED BY <3>1, UndefsOK DEF w
  <2>8. DeadHoldNothing'
    BY <1>w, <2>1 DEF IInv, DeadHoldNothing
  <2>9. AllCounted'
    <3>1. CASE obj_rc[ob] = 1
      <4> SUFFICES ASSUME NEW s \in StrId
                   PROVE  rc'[s] = Count(var', Var, AStr(s)) + Count(str', Obj, AStr(s)) + leaked'[s]
        BY DEF AllCounted
      <4>1. Count(str', Obj, AStr(s)) = Count(str, Obj, AStr(s)) - Is(str[ob], AStr(s)) + Is(EmptyStr, AStr(s))
        <5>1. str' = [str EXCEPT ![ob] = EmptyStr] /\ ob \in Obj /\ Types
          BY <2>1, <3>1 DEF IInv
        <5> QED BY <5>1, StrUpdate
      <4>2. Is(EmptyStr, AStr(s)) = 0
        BY Apart DEF Is
      <4>3. Count(var', Var, AStr(s)) = Count(var, Var, AStr(s)) - Is(w, AStr(s)) + Is(Nothing, AStr(s))
        BY VarUpdate DEF IInv, w
      <4>4. Count(var', Var, AStr(s)) = Count(var, Var, AStr(s))
        BY <4>3, <1>n, <2>2, Counts
      <4>5. rc[s] = Count(var, Var, AStr(s)) + Count(str, Obj, AStr(s)) + leaked[s] /\ leaked[s] \in Nat
        BY DEF IInv, AllCounted, Types
      <4>6. /\ Count(var, Var, AStr(s)) \in Nat /\ Count(str, Obj, AStr(s)) \in Nat
            /\ Is(str[ob], AStr(s)) \in Int
        BY Counts, IsType
      <4>7. rc'[s] = rc[s] - Is(str[ob], AStr(s)) /\ leaked'[s] = leaked[s]
        BY <1>0, <2>1, <2>4, <3>1
      <4> QED BY <4>1, <4>2, <4>4, <4>5, <4>6, <4>7
    <3>2. CASE obj_rc[ob] # 1
      <4>1. \A s \in StrId : rc'[s] = rc[s] - Is(w, AStr(s)) + Is(Nothing, AStr(s)) + leaked'[s] - leaked[s]
        BY <1>0, <1>w, <1>n, <2>1, <2>2, <3>2
      <4>2. \A s \in StrId : leaked'[s] \in Nat
        BY <1>0, <1>w
      <4>3. str' = str
        BY <2>1, <3>2
      <4> QED BY <4>1, <4>2, <4>3, StringsOKVar DEF w
    <3> QED BY <3>1, <3>2
  <2>10. UndefinedUnique'
    BY <1>0, <1>2, <1>w, Kinds DEF IInv, UndefinedUnique
  <2> QED BY <2>5, <2>6, <2>7, <2>8, <2>9, <2>10 DEF IInv
<1>3. CASE /\ w.k = "undef"
           /\ undef_rc' = [undef_rc EXCEPT ![w.id] = @ - 1]
           /\ undef_ins' = IF undef_rc[w.id] = 1 THEN undef_dtor(w.id) ELSE undef_ins
           /\ UNCHANGED <<str, rc, obj_rc>>
  <2> DEFINE un == w.id
  <2>1. /\ un \in UndefId /\ w = AnUndef(un) /\ undef_rc[un] > 0
        /\ undef_rc' = [undef_rc EXCEPT ![un] = @ - 1]
        /\ undef_ins' = IF undef_rc[un] = 1 /\ undef_ins = un THEN 0 ELSE undef_ins
    BY <1>3, <1>h DEF undef_dtor
  <2>2. \A s : Is(w, AStr(s)) = 0 /\ Is(w, AnObj(s)) = 0
    BY <1>3, NotStr, NotObj
  <2>3. \A u \in UndefId : Is(w, AnUndef(u)) = IF u = un THEN 1 ELSE 0
    BY <2>1, Apart DEF Is
  <2> HIDE DEF un, w
  <2>5. Types'
    BY <1>0, <1>3, <1>w, <1>v, <2>1 DEF Types
  <2>6. ObjectsCounted'
    <3>1. \A o \in Obj : obj_rc'[o] = obj_rc[o] - Is(w, AnObj(o)) + Is(Nothing, AnObj(o))
      BY <1>3, <1>w, <1>n, <2>2
    <3> QED BY <3>1, ObjectsOK DEF w
  <2>7. UndefsCounted'
    <3>1. \A u \in UndefId : undef_rc'[u] = undef_rc[u] - Is(w, AnUndef(u)) + Is(Nothing, AnUndef(u))
      BY <1>w, <1>n, <2>1, <2>3
    <3> QED BY <3>1, UndefsOK DEF w
  <2>8. DeadHoldNothing'
    BY <1>3 DEF IInv, DeadHoldNothing
  <2>9. AllCounted'
    <3>1. \A s \in StrId : rc'[s] = rc[s] - Is(w, AStr(s)) + Is(Nothing, AStr(s)) + leaked'[s] - leaked[s]
      BY <1>0, <1>3, <1>w, <1>n, <2>2
    <3>2. str' = str /\ \A s \in StrId : leaked'[s] \in Nat
      BY <1>0, <1>3, <1>w
    <3> QED BY <3>1, <3>2, StringsOKVar DEF w
  <2>10. UndefinedUnique'
    <3>1. undef_ins' # 0 => undef_rc'[undef_ins'] > 0
      BY <1>w, <2>1 DEF IInv, UndefinedUnique
    <3>2. ASSUME ~shutdown, NEW z \in Var, var'[z].k = "undef"
          PROVE  var'[z].id = undef_ins'
      <4>1. z # x /\ var'[z] = var[z]
        BY <1>w, <3>2, Kinds
      <4>2. var[z].id = undef_ins /\ undef_ins \in UndefId
        BY <4>1, <3>2, HeldExists DEF IInv, UndefinedUnique
      <4>3. var'[z] = AnUndef(undef_ins)
        BY <4>1, <4>2, <3>2, HeldExists
      <4>4. Count(var', Var, AnUndef(undef_ins)) # 0
        BY <4>3, VarCount
      <4>5. undef_rc'[undef_ins] # 0
        BY <4>2, <4>4, <2>7 DEF UndefsCounted
      <4>6. undef_ins' = undef_ins
        BY <4>2, <4>5, <1>w, <2>1
      <4> QED BY <4>1, <4>2, <4>6
    <3> QED BY <1>0, <3>1, <3>2 DEF UndefinedUnique
  <2> QED BY <2>5, <2>6, <2>7, <2>8, <2>9, <2>10 DEF IInv
<1> QED BY <1>1, <1>2, <1>3

\* A new object with a string, a copy of another or not: it was free, so that
\* it held no string.
LEMMA NewObject ==
  ASSUME IInv, NEW x \in Var, var[x] = Nothing, NEW ob \in Obj, obj_rc[ob] = 0,
         NEW w \in StringValue,
         var' = [var EXCEPT ![x] = AnObj(ob)],
         obj_rc' = [obj_rc EXCEPT ![ob] = 1],
         str' = [str EXCEPT ![ob] = w],
         rc' = AddRef(rc, w),
         UNCHANGED <<undef_rc, undef_ins, shutdown, leaked>>
  PROVE  IInv'
<1>n. \A s : Is(Nothing, AnObj(s)) = 0 /\ Is(Nothing, AnUndef(s)) = 0 /\ Is(Nothing, AStr(s)) = 0
  BY Kinds, NotObj, NotUndef, NotStr
<1>a. \A s : Is(AnObj(ob), AnUndef(s)) = 0 /\ Is(AnObj(ob), AStr(s)) = 0
  BY Kinds, NotUndef, NotStr
<1>b. \A o \in Obj : Is(AnObj(ob), AnObj(o)) = IF o = ob THEN 1 ELSE 0
  BY Apart DEF Is
<1>w. /\ var \in [Var -> AnyValue] /\ rc \in [StrId -> Int] /\ obj_rc \in [Obj -> Int]
      /\ undef_rc \in [UndefId -> Int] /\ leaked \in [StrId -> Nat] /\ str \in [Obj -> StringValue]
      /\ undef_ins \in UndefId \cup {0} /\ w \in AnyValue /\ AnObj(ob) \in AnyValue
  BY DEF IInv, Types, AnyValue
<1>1. rc' \in [StrId -> Int] /\ \A s \in StrId : rc'[s] = rc[s] + Is(w, AStr(s))
  BY <1>w, AddRefCounts
<1>2. Types'
  BY <1>w, <1>1 DEF Types
<1>3. ObjectsCounted'
  <2>1. \A o \in Obj : obj_rc'[o] = obj_rc[o] - Is(var[x], AnObj(o)) + Is(AnObj(ob), AnObj(o))
    BY <1>n, <1>b, <1>w
  <2> QED BY <2>1, ObjectsOK
<1>4. UndefsCounted'
  <2>1. \A u \in UndefId : undef_rc'[u] = undef_rc[u] - Is(var[x], AnUndef(u)) + Is(AnObj(ob), AnUndef(u))
    BY <1>n, <1>a, <1>w
  <2> QED BY <2>1, UndefsOK
<1>5. DeadHoldNothing'
  BY <1>w DEF IInv, DeadHoldNothing
<1>6. AllCounted'
  <2> SUFFICES ASSUME NEW s \in StrId
               PROVE  rc'[s] = Count(var', Var, AStr(s)) + Count(str', Obj, AStr(s)) + leaked'[s]
    BY DEF AllCounted
  <2>1. Count(str', Obj, AStr(s)) = Count(str, Obj, AStr(s)) - Is(str[ob], AStr(s)) + Is(w, AStr(s))
    BY StrUpdate DEF IInv
  <2>2. Is(str[ob], AStr(s)) = 0
    <3>1. str[ob] = EmptyStr
      BY DEF IInv, DeadHoldNothing
    <3> QED BY <3>1, Kinds, NotStr
  <2>3. Count(var', Var, AStr(s)) = Count(var, Var, AStr(s)) - Is(Nothing, AStr(s)) + Is(AnObj(ob), AStr(s))
    BY VarUpdate DEF IInv
  <2>4. /\ Count(var, Var, AStr(s)) \in Nat /\ Count(str, Obj, AStr(s)) \in Nat
        /\ Is(w, AStr(s)) \in Int /\ leaked[s] \in Nat /\ leaked'[s] = leaked[s]
    BY Counts, IsType, <1>w
  <2>5. Count(var', Var, AStr(s)) = Count(var, Var, AStr(s))
    BY <2>3, <2>4, <1>n, <1>a
  <2>6. rc[s] = Count(var, Var, AStr(s)) + Count(str, Obj, AStr(s)) + leaked[s]
    BY DEF IInv, AllCounted
  <2>7. rc'[s] = rc[s] + Is(w, AStr(s))
    BY <1>1
  <2> QED BY <2>1, <2>2, <2>4, <2>5, <2>6, <2>7
<1>7. UndefinedUnique'
  BY <1>w, Kinds DEF IInv, UndefinedUnique
<1> QED BY <1>2, <1>3, <1>4, <1>5, <1>6, <1>7 DEF IInv

LEMMA NewOK == ASSUME IInv, New PROVE IInv'
<1> PICK x \in Var, y \in Var, o \in Obj :
       /\ var[x] = Nothing /\ obj_rc[o] = 0 /\ IsString(var[y])
       /\ var' = [var EXCEPT ![x] = AnObj(o)]
       /\ obj_rc' = [obj_rc EXCEPT ![o] = 1]
       /\ str' = [str EXCEPT ![o] = var[y]]
       /\ rc' = AddRef(rc, var[y])
  BY DEF New
<1>1. UNCHANGED <<undef_rc, undef_ins, shutdown, leaked>>
  BY DEF New
<1>2. var[y] \in StringValue
  BY HeldExists, ValueKind
<1> QED BY <1>1, <1>2, NewObject

LEMMA CloneOK == ASSUME IInv, Clone PROVE IInv'
<1> PICK x \in Var, y \in Var, o \in Obj :
       /\ var[x] = Nothing /\ HoldsObj(y) /\ obj_rc[o] = 0
       /\ var' = [var EXCEPT ![x] = AnObj(o)]
       /\ obj_rc' = [obj_rc EXCEPT ![o] = 1]
       /\ str' = [str EXCEPT ![o] = str[ObjOf(y)]]
       /\ rc' = CloneCounts(ObjOf(y))
  BY DEF Clone
<1>1. UNCHANGED <<undef_rc, undef_ins, shutdown, leaked>>
  BY DEF Clone
<1>2. ObjOf(y) \in Obj /\ str[ObjOf(y)] \in StringValue
  BY HeldExists DEF HoldsObj, ObjOf, IInv, Types
<1>3. rc' = AddRef(rc, str[ObjOf(y)])
  BY DEF CloneCounts
<1> QED BY <1>1, <1>2, <1>3, NewObject

\* An object gets another string; the count of the old one goes to whoever
\* is left with it: nobody, or the references that are lost.
LEMMA Rewritten ==
  ASSUME IInv, NEW x \in Var, HoldsObj(x), NEW w \in StringValue,
         str' = [str EXCEPT ![ObjOf(x)] = w],
         rc' \in [StrId -> Int], leaked' \in [StrId -> Nat],
         \A s \in StrId :
           rc'[s] = rc[s] - Is(str[ObjOf(x)], AStr(s)) + Is(w, AStr(s)) + leaked'[s] - leaked[s],
         UNCHANGED <<var, obj_rc, undef_rc, undef_ins, shutdown>>
  PROVE  IInv'
<1> DEFINE ob == ObjOf(x)
<1>1. ob \in Obj /\ obj_rc[ob] > 0
  BY HeldExists DEF HoldsObj, ObjOf
<1>2. str' = [str EXCEPT ![ob] = w] /\ \A s \in StrId :
           rc'[s] = rc[s] - Is(str[ob], AStr(s)) + Is(w, AStr(s)) + leaked'[s] - leaked[s]
  OBVIOUS
<1> HIDE DEF ob
<1>3. Types'
  BY <1>1, <1>2 DEF IInv, Types
<1>4. ObjectsCounted' /\ UndefsCounted' /\ UndefinedUnique'
  BY DEF IInv, ObjectsCounted, UndefsCounted, UndefinedUnique
<1>5. DeadHoldNothing'
  BY <1>1, <1>2 DEF IInv, Types, DeadHoldNothing
<1>6. AllCounted'
  <2> SUFFICES ASSUME NEW s \in StrId
               PROVE  rc'[s] = Count(var, Var, AStr(s)) + Count(str', Obj, AStr(s)) + leaked'[s]
    BY DEF AllCounted
  <2>1. Count(str', Obj, AStr(s)) = Count(str, Obj, AStr(s)) - Is(str[ob], AStr(s)) + Is(w, AStr(s))
    <3>1. Types /\ ob \in Obj /\ str' = [str EXCEPT ![ob] = w]
      BY <1>1, <1>2 DEF IInv
    <3>2. \A v : Count(str', Obj, v) = Count(str, Obj, v) - Is(str[ob], v) + Is(w, v)
      BY ONLY <3>1, StrUpdate
    <3> QED BY <3>2
  <2>2. /\ Count(var, Var, AStr(s)) \in Nat /\ Count(str, Obj, AStr(s)) \in Nat
        /\ Is(w, AStr(s)) \in Int /\ Is(str[ob], AStr(s)) \in Int /\ leaked[s] \in Nat /\ leaked'[s] \in Nat
    BY Counts, IsType DEF IInv, Types
  <2>3. rc[s] = Count(var, Var, AStr(s)) + Count(str, Obj, AStr(s)) + leaked[s]
    BY DEF IInv, AllCounted
  <2>4. rc'[s] = rc[s] - Is(str[ob], AStr(s)) + Is(w, AStr(s)) + leaked'[s] - leaked[s]
    BY <1>2
  <2> QED BY <2>1, <2>2, <2>3, <2>4
<1> QED BY <1>3, <1>4, <1>5, <1>6 DEF IInv

LEMMA ConstructAgainOK == ASSUME IInv, ConstructAgain PROVE IInv'
<1> PICK x \in Var, y \in Var :
       /\ HoldsObj(x) /\ IsString(var[y])
       /\ str' = [str EXCEPT ![ObjOf(x)] = var[y]]
       /\ rc' = AddRef(rc, var[y])
       /\ leaked' = AddRef(leaked, str[ObjOf(x)])
  BY DEF ConstructAgain
<1>1. UNCHANGED <<var, obj_rc, undef_rc, undef_ins, shutdown>>
  BY DEF ConstructAgain
<1> DEFINE w == var[y]  old == str[ObjOf(x)]
<1>2. w \in StringValue /\ w \in AnyValue
  BY HeldExists, ValueKind
<1>3. old \in AnyValue
  BY HeldExists DEF HoldsObj, ObjOf
<1>4. rc \in [StrId -> Int] /\ leaked \in [StrId -> Nat] /\ leaked \in [StrId -> Int]
  BY DEF IInv, Types
<1>5. rc' \in [StrId -> Int] /\ \A s \in StrId : rc'[s] = rc[s] + Is(w, AStr(s))
  BY <1>2, <1>4, AddRefCounts
<1>6. leaked' \in [StrId -> Int] /\ \A s \in StrId : leaked'[s] = leaked[s] + Is(old, AStr(s))
  BY <1>3, <1>4, AddRefCounts
<1>7. \A s \in StrId : Is(old, AStr(s)) \in {0, 1} /\ Is(w, AStr(s)) \in {0, 1}
  BY IsType
<1> HIDE DEF w, old
<1>8. leaked' \in [StrId -> Nat]
  BY <1>4, <1>6, <1>7
<1>9. \A s \in StrId : rc'[s] = rc[s] - Is(old, AStr(s)) + Is(w, AStr(s)) + leaked'[s] - leaked[s]
  BY <1>4, <1>5, <1>6, <1>7
<1> QED BY <1>1, <1>2, <1>5, <1>8, <1>9, Rewritten DEF w, old

LEMMA WriteValueOK == ASSUME IInv, WriteValue PROVE IInv'
<1> PICK x \in Var, y \in Var :
       /\ HoldsObj(x) /\ IsString(var[y])
       /\ rc' = set_value(ObjOf(x), var[y])
       /\ str' = [str EXCEPT ![ObjOf(x)] = var[y]]
  BY DEF WriteValue
<1>1. UNCHANGED <<var, obj_rc, undef_rc, undef_ins, shutdown, leaked>>
  BY DEF WriteValue
<1> DEFINE w == var[y]  old == str[ObjOf(x)]
<1>2. w \in StringValue /\ w \in AnyValue
  BY HeldExists, ValueKind
<1>3. old \in AnyValue
  BY HeldExists DEF HoldsObj, ObjOf
<1>4. rc \in [StrId -> Int] /\ leaked \in [StrId -> Nat]
  BY DEF IInv, Types
<1>5. Release(rc, old) \in [StrId -> Int] /\ \A s \in StrId : Release(rc, old)[s] = rc[s] - Is(old, AStr(s))
  BY <1>3, <1>4, ReleaseCounts
<1>6. rc' = AddRef(Release(rc, old), w)
  BY DEF set_value
<1>7. rc' \in [StrId -> Int] /\ \A s \in StrId : rc'[s] = Release(rc, old)[s] + Is(w, AStr(s))
  BY <1>2, <1>5, <1>6, AddRefCounts
<1>8. \A s \in StrId : Is(old, AStr(s)) \in {0, 1} /\ Is(w, AStr(s)) \in {0, 1}
  BY IsType
<1> HIDE DEF w, old
<1>9. \A s \in StrId : rc'[s] = rc[s] - Is(old, AStr(s)) + Is(w, AStr(s)) + leaked'[s] - leaked[s]
  BY <1>1, <1>4, <1>5, <1>7, <1>8
<1> QED BY <1>1, <1>2, <1>4, <1>7, <1>9, Rewritten DEF w, old

\* The count of a string that a rejected assignment overwrites is lost.
LEMMA WriteRejectedOK == ASSUME IInv, WriteRejected PROVE IInv'
<1> PICK x \in Var, y \in Var :
       /\ HoldsObj(x) /\ x # y /\ var[y].k \in {"long", "str", "empty"}
       /\ var' = [var EXCEPT ![y] = ErrorZval]
       /\ leaked' = AddRef(leaked, var[y])
  BY DEF WriteRejected
<1>0. UNCHANGED <<str, rc, obj_rc, undef_rc, undef_ins, shutdown>>
  BY DEF WriteRejected
<1> DEFINE w == var[y]
<1>n. /\ \A s : Is(w, AnObj(s)) = 0 /\ Is(w, AnUndef(s)) = 0
      /\ \A s : Is(ErrorZval, AnObj(s)) = 0 /\ Is(ErrorZval, AnUndef(s)) = 0 /\ Is(ErrorZval, AStr(s)) = 0
  BY Kinds, NotObj, NotUndef, NotStr
<1>w. /\ var \in [Var -> AnyValue] /\ rc \in [StrId -> Int] /\ obj_rc \in [Obj -> Int]
      /\ undef_rc \in [UndefId -> Int] /\ leaked \in [StrId -> Nat] /\ leaked \in [StrId -> Int]
      /\ undef_ins \in UndefId \cup {0} /\ w \in AnyValue /\ ErrorZval \in AnyValue
  BY DEF IInv, Types, AnyValue
<1>1. leaked' \in [StrId -> Int] /\ \A s \in StrId : leaked'[s] = leaked[s] + Is(w, AStr(s))
  BY <1>w, AddRefCounts
<1>i. \A s \in StrId : Is(w, AStr(s)) \in {0, 1}
  BY IsType
<1> HIDE DEF w
<1>l. leaked' \in [StrId -> Nat]
  BY <1>w, <1>1, <1>i
<1>2. Types'
  BY <1>0, <1>w, <1>l DEF IInv, Types
<1>3. ObjectsCounted'
  <2>1. \A o \in Obj : obj_rc'[o] = obj_rc[o] - Is(w, AnObj(o)) + Is(ErrorZval, AnObj(o))
    BY <1>0, <1>n, <1>w
  <2> QED BY <2>1, ObjectsOK DEF w
<1>4. UndefsCounted'
  <2>1. \A u \in UndefId : undef_rc'[u] = undef_rc[u] - Is(w, AnUndef(u)) + Is(ErrorZval, AnUndef(u))
    BY <1>0, <1>n, <1>w
  <2> QED BY <2>1, UndefsOK DEF w
<1>5. DeadHoldNothing'
  BY <1>0 DEF IInv, DeadHoldNothing
<1>6. AllCounted'
  <2>1. \A s \in StrId :
          /\ leaked'[s] \in Nat
          /\ rc'[s] = rc[s] - Is(w, AStr(s)) + Is(ErrorZval, AStr(s)) + leaked'[s] - leaked[s]
    BY <1>0, <1>1, <1>n, <1>w, <1>i, <1>l
  <2> QED BY <1>0, <2>1, StringsOKVar DEF w
<1>7. UndefinedUnique'
  BY <1>0, <1>w, Kinds DEF IInv, UndefinedUnique
<1> QED BY <1>2, <1>3, <1>4, <1>5, <1>6, <1>7 DEF IInv

LEMMA ReadValueOK == ASSUME IInv, ReadValue PROVE IInv'
<1> PICK x \in Var, y \in Var :
       /\ var[x] = Nothing /\ HoldsObj(y)
       /\ var' = [var EXCEPT ![x] = str[ObjOf(y)]]
       /\ rc' = AddRef(rc, str[ObjOf(y)])
  BY DEF ReadValue
<1>0. UNCHANGED <<str, obj_rc, undef_rc, undef_ins, shutdown, leaked>>
  BY DEF ReadValue
<1> DEFINE w == str[ObjOf(y)]
<1>s. w \in StringValue
  BY HeldExists DEF HoldsObj, ObjOf, IInv, Types
<1>k. w.k # "obj" /\ w.k # "undef"
  BY <1>s, Kinds DEF StringValue
<1>n. /\ \A s : Is(w, AnObj(s)) = 0 /\ Is(w, AnUndef(s)) = 0
      /\ \A s : Is(Nothing, AnObj(s)) = 0 /\ Is(Nothing, AnUndef(s)) = 0 /\ Is(Nothing, AStr(s)) = 0
  BY <1>k, Kinds, NotObj, NotUndef, NotStr
<1>w. /\ var \in [Var -> AnyValue] /\ rc \in [StrId -> Int] /\ obj_rc \in [Obj -> Int]
      /\ undef_rc \in [UndefId -> Int] /\ leaked \in [StrId -> Nat]
      /\ undef_ins \in UndefId \cup {0} /\ w \in AnyValue
  BY <1>s DEF IInv, Types, AnyValue
<1>1. rc' \in [StrId -> Int] /\ \A s \in StrId : rc'[s] = rc[s] + Is(w, AStr(s))
  BY <1>w, AddRefCounts
<1>i. \A s \in StrId : Is(w, AStr(s)) \in {0, 1}
  BY IsType
<1> HIDE DEF w
<1>2. Types'
  BY <1>0, <1>w, <1>1 DEF IInv, Types, w
<1>3. ObjectsCounted'
  <2>1. \A o \in Obj : obj_rc'[o] = obj_rc[o] - Is(var[x], AnObj(o)) + Is(w, AnObj(o))
    BY <1>0, <1>n, <1>w
  <2> QED BY <2>1, ObjectsOK DEF w
<1>4. UndefsCounted'
  <2>1. \A u \in UndefId : undef_rc'[u] = undef_rc[u] - Is(var[x], AnUndef(u)) + Is(w, AnUndef(u))
    BY <1>0, <1>n, <1>w
  <2> QED BY <2>1, UndefsOK DEF w
<1>5. DeadHoldNothing'
  BY <1>0 DEF IInv, DeadHoldNothing
<1>6. AllCounted'
  <2>1. \A s \in StrId :
          /\ leaked'[s] \in Nat
          /\ rc'[s] = rc[s] - Is(var[x], AStr(s)) + Is(w, AStr(s)) + leaked'[s] - leaked[s]
    BY <1>0, <1>1, <1>n, <1>w, <1>i
  <2> QED BY <1>0, <2>1, StringsOKVar DEF w
<1>7. UndefinedUnique'
  BY <1>0, <1>w, <1>k DEF IInv, UndefinedUnique, w
<1> QED BY <1>2, <1>3, <1>4, <1>5, <1>6, <1>7 DEF IInv

\* Another variable gets an instance of Cbor\Undefined; which one that is,
\* and what becomes of undef_ins, is for UndefinedUnique.
LEMMA AnotherUndef ==
  ASSUME IInv, NEW x \in Var, var[x] = Nothing, NEW un \in UndefId,
         var' = [var EXCEPT ![x] = AnUndef(un)],
         undef_rc' = [undef_rc EXCEPT ![un] = @ + 1],
         undef_ins' \in UndefId \cup {0}, UndefinedUnique',
         UNCHANGED <<str, rc, obj_rc, shutdown, leaked>>
  PROVE  IInv'
<1> DEFINE w == AnUndef(un)
<1>n. /\ \A s : Is(w, AnObj(s)) = 0 /\ Is(w, AStr(s)) = 0
      /\ \A s : Is(Nothing, AnObj(s)) = 0 /\ Is(Nothing, AnUndef(s)) = 0 /\ Is(Nothing, AStr(s)) = 0
  BY Kinds, NotObj, NotUndef, NotStr
<1>u. \A u \in UndefId : Is(w, AnUndef(u)) = IF u = un THEN 1 ELSE 0
  BY Apart DEF Is
<1>w. /\ var \in [Var -> AnyValue] /\ rc \in [StrId -> Int] /\ obj_rc \in [Obj -> Int]
      /\ undef_rc \in [UndefId -> Int] /\ leaked \in [StrId -> Nat] /\ w \in AnyValue
  BY DEF IInv, Types, AnyValue
<1> HIDE DEF w
<1>2. Types'
  BY <1>w DEF IInv, Types, w
<1>3. ObjectsCounted'
  <2>1. \A o \in Obj : obj_rc'[o] = obj_rc[o] - Is(var[x], AnObj(o)) + Is(w, AnObj(o))
    BY <1>n, <1>w
  <2> QED BY <2>1, ObjectsOK DEF w
<1>4. UndefsCounted'
  <2>1. \A u \in UndefId : undef_rc'[u] = undef_rc[u] - Is(var[x], AnUndef(u)) + Is(w, AnUndef(u))
    BY <1>n, <1>u, <1>w
  <2> QED BY <2>1, UndefsOK DEF w
<1>5. DeadHoldNothing'
  BY DEF IInv, DeadHoldNothing
<1>6. AllCounted'
  <2>1. \A s \in StrId :
          /\ leaked'[s] \in Nat
          /\ rc'[s] = rc[s] - Is(var[x], AStr(s)) + Is(w, AStr(s)) + leaked'[s] - leaked[s]
    BY <1>n, <1>w
  <2> QED BY <2>1, StringsOKVar DEF w
<1> QED BY <1>2, <1>3, <1>4, <1>5, <1>6 DEF IInv

\* cbor_get_undef makes an instance only when there is none.
LEMMA GetUndefOK == ASSUME IInv, GetUndef PROVE IInv'
<1> PICK x \in Var, un \in UndefId :
       /\ var[x] = Nothing
       /\ IF undef_ins # 0 THEN un = undef_ins ELSE undef_rc[un] = 0
       /\ undef_ins' = un
       /\ undef_rc' = [undef_rc EXCEPT ![un] = @ + 1]
       /\ var' = [var EXCEPT ![x] = AnUndef(un)]
  BY DEF GetUndef
<1>0. UNCHANGED <<str, rc, obj_rc, shutdown, leaked>>
  BY DEF GetUndef
<1>1. undef_rc \in [UndefId -> Int] /\ \A u \in UndefId : undef_rc[u] >= 0
  BY Counts DEF IInv, Types, UndefsCounted
<1>2. undef_rc'[undef_ins'] > 0
  BY <1>1
<1>3. ASSUME ~shutdown, NEW z \in Var, var'[z].k = "undef"
      PROVE  var'[z].id = undef_ins'
  <2>1. CASE z = x
    BY <2>1, Kinds DEF IInv, Types
  <2>2. CASE z # x
    <3>1. var'[z] = var[z]
      BY <2>2 DEF IInv, Types
    <3>2. var[z].id = undef_ins /\ var[z].id \in UndefId
      BY <3>1, <1>3, HeldExists DEF IInv, UndefinedUnique
    <3>3. undef_ins # 0
      BY <3>2, ValueTypesAssumption
    <3> QED BY <3>1, <3>2, <3>3
  <2> QED BY <2>1, <2>2
<1>4. UndefinedUnique'
  BY <1>0, <1>2, <1>3 DEF UndefinedUnique
<1> QED BY <1>0, <1>4, AnotherUndef

LEMMA CloneUndefOK == ASSUME IInv, CloneUndef PROVE IInv'
<1> PICK x \in Var, y \in Var :
       /\ var[x] = Nothing /\ var[y].k = "undef"
       /\ undef_rc' = [undef_rc EXCEPT ![var[y].id] = @ + 1]
       /\ var' = [var EXCEPT ![x] = var[y]]
  BY DEF CloneUndef
<1>0. UNCHANGED <<str, rc, obj_rc, undef_ins, shutdown, leaked>>
  BY DEF CloneUndef
<1> DEFINE un == var[y].id
<1>1. un \in UndefId /\ var[y] = AnUndef(un)
  BY HeldExists
<1>2. undef_rc \in [UndefId -> Int] /\ undef_ins \in UndefId \cup {0} /\ var \in [Var -> AnyValue]
  BY DEF IInv, Types
<1>3. undef_rc' = [undef_rc EXCEPT ![un] = @ + 1] /\ var' = [var EXCEPT ![x] = AnUndef(un)]
  BY <1>1
<1>4. ~shutdown => un = undef_ins
  BY DEF IInv, UndefinedUnique
<1>5. UndefinedUnique'
  <2>1. undef_ins # 0 => undef_rc'[undef_ins] > 0
    BY <1>1, <1>2 DEF IInv, UndefinedUnique
  <2>2. ASSUME ~shutdown, NEW z \in Var, var'[z].k = "undef" PROVE var'[z].id = undef_ins
    BY <1>2, <2>2 DEF IInv, UndefinedUnique
  <2> QED BY <1>0, <2>1, <2>2 DEF UndefinedUnique
<1>6. undef_ins' \in UndefId \cup {0}
  BY <1>0, <1>2
<1> QED BY <1>0, <1>1, <1>3, <1>5, <1>6, AnotherUndef

LEMMA ShutdownOK == ASSUME IInv, Shutdown PROVE IInv'
<1>1. /\ undef_ins' = 0 /\ shutdown'
      /\ UNCHANGED <<var, str, rc, obj_rc, undef_rc, leaked>>
  BY DEF Shutdown, undef_dtor
<1>2. Types' /\ UndefinedUnique'
  BY <1>1 DEF IInv, Types, UndefinedUnique
<1>3. ObjectsCounted' /\ UndefsCounted' /\ DeadHoldNothing' /\ AllCounted'
  BY <1>1 DEF IInv, ObjectsCounted, UndefsCounted, DeadHoldNothing, AllCounted
<1> QED BY <1>2, <1>3 DEF IInv

LEMMA StutterOK == ASSUME IInv, UNCHANGED vars PROVE IInv'
  BY DEF vars, IInv, Types, ObjectsCounted, UndefsCounted, DeadHoldNothing, AllCounted, UndefinedUnique

\* At the start nothing is held.
LEMMA InitOK == ASSUME Init PROVE IInv
<1>1. Types
  BY DEF Init, Types, AnyValue, StringValue
<1>2. \A x \in Var : var[x] = Nothing
  BY DEF Init
<1>3. \A o \in Obj : str[o] = EmptyStr
  BY DEF Init
<1>4. ASSUME NEW s PROVE /\ Count(var, Var, AStr(s)) = 0 /\ Count(var, Var, AnObj(s)) = 0
                         /\ Count(var, Var, AnUndef(s)) = 0 /\ Count(str, Obj, AStr(s)) = 0
  <2>1. /\ \A x \in Var : var[x] # AStr(s) /\ var[x] # AnObj(s) /\ var[x] # AnUndef(s)
        /\ \A o \in Obj : str[o] # AStr(s)
    BY <1>2, <1>3, Apart
  <2> QED BY <2>1, CountType, ValueTypesAssumption
<1>5. ObjectsCounted /\ UndefsCounted
  BY <1>4 DEF Init, ObjectsCounted, UndefsCounted
<1>7. AllCounted
  <2>1. \A s \in StrId : rc[s] = 0 /\ leaked[s] = 0
    BY DEF Init
  <2> QED BY <1>4, <2>1 DEF AllCounted
<1>6. DeadHoldNothing /\ UndefinedUnique
  BY Kinds DEF Init, DeadHoldNothing, UndefinedUnique
<1> QED BY <1>1, <1>5, <1>6, <1>7 DEF IInv

-----------------------------------------------------------------------------
(* The theorems.                                                            *)

\* The inductive invariant holds in every state: the counts of strings,
\* objects and instances of Cbor\Undefined are those of what refers to them.
THEOREM Invariance == Spec => []IInv
<1>1. Init => IInv
  BY InitOK
<1>2. IInv /\ [Next]_vars => IInv'
  <2> SUFFICES ASSUME IInv, [Next]_vars PROVE IInv'
    OBVIOUS
  <2>1. CASE NewString \/ OtherValue \/ CopyVar \/ Unset
    BY <2>1, NewStringOK, OtherValueOK, CopyVarOK, UnsetOK
  <2>2. CASE New \/ ConstructAgain \/ WriteValue \/ WriteRejected \/ ReadValue \/ Clone
    BY <2>2, NewOK, ConstructAgainOK, WriteValueOK, WriteRejectedOK, ReadValueOK, CloneOK
  <2>3. CASE GetUndef \/ CloneUndef \/ Shutdown
    BY <2>3, GetUndefOK, CloneUndefOK, ShutdownOK
  <2>4. CASE UNCHANGED vars
    BY <2>4, StutterOK
  <2> QED BY <2>1, <2>2, <2>3, <2>4 DEF Next
<1> QED BY <1>1, <1>2, PTL DEF Spec

\* types.c counts every zend_string once for each variable and each object
\* alive that holds it, apart from the references it loses: no string is
\* freed while it is in use.
THEOREM StringsCorrect == Spec => []StringsCounted
<1>1. IInv => StringsCounted
  <2> SUFFICES ASSUME IInv, NEW s \in StrId PROVE rc[s] = Holders(AStr(s)) + leaked[s]
    BY DEF StringsCounted
  <2>1. \A o \in Obj : obj_rc[o] \in Nat
    BY Counts DEF IInv, ObjectsCounted
  <2>2. \A o \in Obj : str[o] = AStr(s) => obj_rc[o] > 0
    BY <2>1, Apart DEF IInv, DeadHoldNothing
  <2>3. {o \in Live : str[o] = AStr(s)} = {o \in Obj : str[o] = AStr(s)}
    BY <2>2 DEF Live
  <2> QED BY <2>3 DEF IInv, AllCounted, Holders, Count
<1> QED BY <1>1, Invariance, PTL

\* CBOR_G(undef_ins) never points to an instance that is gone, and until the
\* request ends all variables that hold undefined hold the same object.
THEOREM UndefinedCorrect == Spec => []UndefinedUnique
<1>1. IInv => UndefinedUnique
  BY DEF IInv
<1> QED BY <1>1, Invariance, PTL
=============================================================================
