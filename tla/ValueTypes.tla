----------------------------- MODULE ValueTypes -----------------------------
(***************************************************************************)
(* types.c: the objects that stand for CBOR strings (Cbor\Byte, Cbor\Text)  *)
(* and for undefined.  A string object owns a reference to its zend_string; *)
(* Cbor\Undefined is a singleton that the extension points to without        *)
(* owning it.  Each action is a handler or a method PHP calls.               *)
(***************************************************************************)
EXTENDS Integers, FiniteSets

CONSTANTS
  Var,      \* variables of the PHP program
  Obj,      \* bound: objects of the string classes alive at a time
  StrId,    \* bound: zend_strings on the heap
  UndefId,  \* bound: instances of Cbor\Undefined alive at a time
  MaxCalls  \* bound: calls, and with them leaked references

\* 0 stands for the null pointer in undef_ins.
ASSUME ValueTypesAssumption ==
  /\ 0 \notin UndefId
  /\ IsFiniteSet(Var) /\ IsFiniteSet(Obj) /\ IsFiniteSet(StrId) /\ IsFiniteSet(UndefId)
  /\ MaxCalls \in Nat

VARIABLES
  var,        \* variables: what they hold
  str,        \* xstring_class.str of the objects that exist
  rc,         \* reference counts of zend_strings, 0: free
  obj_rc,     \* reference counts of the string objects
  undef_rc,   \* reference counts of the instances of Cbor\Undefined
  undef_ins,  \* CBOR_G(undef_ins)
  shutdown,   \* PHP calls the destructors at the end of the request
  leaked,     \* references that nobody holds any more, by string
  calls

vars == <<var, str, rc, obj_rc, undef_rc, undef_ins, shutdown, leaked, calls>>

\* What a variable or an object refers to.  The empty string is interned and
\* not counted; "error" is the zval type _IS_ERROR.
Nothing == [k |-> "null", id |-> 0]
EmptyStr == [k |-> "empty", id |-> 0]
Number == [k |-> "long", id |-> 0]
ErrorZval == [k |-> "error", id |-> 0]
AStr(s) == [k |-> "str", id |-> s]
AnObj(o) == [k |-> "obj", id |-> o]
AnUndef(u) == [k |-> "undef", id |-> u]

IsString(v) == v.k \in {"str", "empty"}

\* zend_string_addref and zend_string_release on counts
AddRef(counts, v) == IF v.k = "str" THEN [counts EXCEPT ![v.id] = @ + 1] ELSE counts
Release(counts, v) == IF v.k = "str" THEN [counts EXCEPT ![v.id] = @ - 1] ELSE counts

Call == calls < MaxCalls /\ calls' = calls + 1

\* The object of a variable, none of which holds an object that is gone.
HoldsObj(x) == var[x].k = "obj"
Live == {o \in Obj : obj_rc[o] > 0}
ObjOf(x) == var[x].id

-----------------------------------------------------------------------------
(* The PHP program's own steps: strings, copies, variables that go away.    *)

NewString ==
  /\ Call
  /\ \E x \in Var, s \in StrId :
       /\ var[x] = Nothing /\ rc[s] = 0
       /\ var' = [var EXCEPT ![x] = AStr(s)]
       /\ rc' = [rc EXCEPT ![s] = 1]
       /\ leaked' = [leaked EXCEPT ![s] = 0]
  /\ UNCHANGED <<str, obj_rc, undef_rc, undef_ins, shutdown>>

OtherValue ==
  /\ Call
  /\ \E x \in Var, v \in {EmptyStr, Number} : var[x] = Nothing /\ var' = [var EXCEPT ![x] = v]
  /\ UNCHANGED <<str, rc, obj_rc, undef_rc, undef_ins, shutdown, leaked>>

\* $x = $y for an object or undefined: both hold the same one.
CopyVar ==
  /\ Call
  /\ \E x, y \in Var :
       /\ var[x] = Nothing /\ var[y].k \in {"obj", "undef", "str"}
       /\ var' = [var EXCEPT ![x] = var[y]]
       /\ rc' = AddRef(rc, var[y])
       /\ obj_rc' = IF var[y].k = "obj" THEN [obj_rc EXCEPT ![var[y].id] = @ + 1] ELSE obj_rc
       /\ undef_rc' = IF var[y].k = "undef" THEN [undef_rc EXCEPT ![var[y].id] = @ + 1] ELSE undef_rc
  /\ UNCHANGED <<str, undef_ins, shutdown, leaked>>

\* xstring_free
xstring_free(o) == Release(rc, str[o])

\* Mutant: the pointer to the instance stays.
Bug_undef_dtor(u) == undef_ins

\* undef_dtor
undef_dtor(u) == IF undef_ins = u THEN 0 ELSE undef_ins

\* unset($x), the end of its scope: the last reference frees what it holds.
\* zend_objects_store_del calls dtor_obj and free_obj.
Unset ==
  /\ Call
  /\ \E x \in Var :
       /\ var[x] # Nothing
       /\ var' = [var EXCEPT ![x] = Nothing]
       /\ \/ /\ var[x].k \notin {"obj", "undef"}
             /\ rc' = Release(rc, var[x])
             /\ UNCHANGED <<str, obj_rc, undef_rc, undef_ins>>
          \/ /\ HoldsObj(x)
             /\ obj_rc' = [obj_rc EXCEPT ![ObjOf(x)] = @ - 1]
             /\ rc' = IF obj_rc[ObjOf(x)] = 1 THEN xstring_free(ObjOf(x)) ELSE rc
             /\ str' = IF obj_rc[ObjOf(x)] = 1 THEN [str EXCEPT ![ObjOf(x)] = EmptyStr] ELSE str
             /\ UNCHANGED <<undef_rc, undef_ins>>
          \/ /\ var[x].k = "undef"
             /\ undef_rc' = [undef_rc EXCEPT ![var[x].id] = @ - 1]
             /\ undef_ins' = IF undef_rc[var[x].id] = 1 THEN undef_dtor(var[x].id) ELSE undef_ins
             /\ UNCHANGED <<str, rc, obj_rc>>
  /\ UNCHANGED <<shutdown, leaked>>

-----------------------------------------------------------------------------
(* String objects.                                                          *)

\* cbor_xstring_create, then the constructor or a restoring method with the
\* string of y; __set_state gives up the object when there is none.
New ==
  /\ Call
  /\ \E x, y \in Var, o \in Obj :
       /\ var[x] = Nothing /\ obj_rc[o] = 0 /\ IsString(var[y])
       /\ var' = [var EXCEPT ![x] = AnObj(o)]
       /\ obj_rc' = [obj_rc EXCEPT ![o] = 1]
       /\ str' = [str EXCEPT ![o] = var[y]]
       /\ rc' = AddRef(rc, var[y])
  /\ UNCHANGED <<undef_rc, undef_ins, shutdown, leaked>>

\* $x->__construct($y) on an object that has a string: it is overwritten
\* without being released.
ConstructAgain ==
  /\ Call
  /\ \E x, y \in Var :
       /\ HoldsObj(x) /\ IsString(var[y])
       /\ str' = [str EXCEPT ![ObjOf(x)] = var[y]]
       /\ rc' = AddRef(rc, var[y])
       /\ leaked' = AddRef(leaked, str[ObjOf(x)])
  /\ UNCHANGED <<var, obj_rc, undef_rc, undef_ins, shutdown>>

\* cbor_xstring_set_value and xstring_restore: release the old one, count the
\* new one.
set_value(o, v) == AddRef(Release(rc, str[o]), v)

\* xstring_write_property on "value", and xstring_restore of __unserialize
WriteValue ==
  /\ Call
  /\ \E x, y \in Var :
       /\ HoldsObj(x) /\ IsString(var[y])
       /\ rc' = set_value(ObjOf(x), var[y])
       /\ str' = [str EXCEPT ![ObjOf(x)] = var[y]]
  /\ UNCHANGED <<var, obj_rc, undef_rc, undef_ins, shutdown, leaked>>

\* xstring_write_property with a value that is no string, or on another
\* property: the exception leaves _IS_ERROR in the zval that was given, which
\* is the variable itself; a string it held is not released.
WriteRejected ==
  /\ Call
  /\ \E x, y \in Var, own \in BOOLEAN :
       /\ HoldsObj(x) /\ x # y /\ var[y].k \in {"long", "str", "empty"}
       /\ own => ~IsString(var[y])
       /\ var' = [var EXCEPT ![y] = ErrorZval]
       /\ leaked' = AddRef(leaked, var[y])
  /\ UNCHANGED <<str, rc, obj_rc, undef_rc, undef_ins, shutdown>>

\* xstring_read_property, xstring_cast, jsonSerialize and cbor_get_xstring_value
ReadValue ==
  /\ Call
  /\ \E x, y \in Var :
       /\ var[x] = Nothing /\ HoldsObj(y)
       /\ var' = [var EXCEPT ![x] = str[ObjOf(y)]]
       /\ rc' = AddRef(rc, str[ObjOf(y)])
  /\ UNCHANGED <<str, obj_rc, undef_rc, undef_ins, shutdown, leaked>>

\* Mutant: the clone shares the string without counting it.
Bug_CloneCounts(o) == rc
CloneCounts(o) == AddRef(rc, str[o])

\* xstring_clone
Clone ==
  /\ Call
  /\ \E x, y \in Var, o \in Obj :
       /\ var[x] = Nothing /\ HoldsObj(y) /\ obj_rc[o] = 0
       /\ var' = [var EXCEPT ![x] = AnObj(o)]
       /\ obj_rc' = [obj_rc EXCEPT ![o] = 1]
       /\ str' = [str EXCEPT ![o] = str[ObjOf(y)]]
       /\ rc' = CloneCounts(ObjOf(y))
  /\ UNCHANGED <<undef_rc, undef_ins, shutdown, leaked>>

-----------------------------------------------------------------------------
(* Undefined.                                                               *)

\* cbor_get_undef: get(), __set_state, unserialize and the decoder
GetUndef ==
  /\ Call
  /\ \E x \in Var, u \in UndefId :
       /\ var[x] = Nothing
       /\ IF undef_ins # 0 THEN u = undef_ins ELSE undef_rc[u] = 0
       /\ undef_ins' = u
       /\ undef_rc' = [undef_rc EXCEPT ![u] = @ + 1]
       /\ var' = [var EXCEPT ![x] = AnUndef(u)]
  /\ UNCHANGED <<str, rc, obj_rc, shutdown, leaked>>

\* undef_clone: the same object
CloneUndef ==
  /\ Call
  /\ \E x, y \in Var :
       /\ var[x] = Nothing /\ var[y].k = "undef"
       /\ undef_rc' = [undef_rc EXCEPT ![var[y].id] = @ + 1]
       /\ var' = [var EXCEPT ![x] = var[y]]
  /\ UNCHANGED <<str, rc, obj_rc, undef_ins, shutdown, leaked>>

\* At the end of the request PHP calls dtor_obj of every object that is still
\* alive, while destructors of the program are still to run.
Shutdown ==
  /\ ~shutdown
  /\ shutdown' = TRUE
  /\ undef_ins' = IF undef_ins = 0 THEN 0 ELSE undef_dtor(undef_ins)
  /\ UNCHANGED <<var, str, rc, obj_rc, undef_rc, leaked, calls>>

-----------------------------------------------------------------------------
Init ==
  /\ var = [x \in Var |-> Nothing]
  /\ str = [o \in Obj |-> EmptyStr]
  /\ rc = [s \in StrId |-> 0]
  /\ obj_rc = [o \in Obj |-> 0]
  /\ undef_rc = [u \in UndefId |-> 0]
  /\ undef_ins = 0
  /\ shutdown = FALSE
  /\ leaked = [s \in StrId |-> 0]
  /\ calls = 0

Next ==
  \/ NewString \/ OtherValue \/ CopyVar \/ Unset
  \/ New \/ ConstructAgain \/ WriteValue \/ WriteRejected \/ ReadValue \/ Clone
  \/ GetUndef \/ CloneUndef \/ Shutdown

Spec == Init /\ [][Next]_vars

-----------------------------------------------------------------------------
\* The number of variables and objects that refer to something
Holders(v) ==
  Cardinality({x \in Var : var[x] = v}) + Cardinality({o \in Live : str[o] = v})

\* Every zend_string is counted once for each variable and object that holds
\* it, so that none is freed while types.c still reads it and none outlives
\* its last holder, except for the references that a second constructor call
\* and a rejected assignment drop.
StringsCounted == \A s \in StrId : rc[s] = Holders(AStr(s)) + leaked[s]

\* "CBOR undefined is translated to PHP Cbor\Undefined singleton object"
\* (README): until the request ends, all variables that hold undefined hold
\* one object, the one the extension would hand out next, and the extension
\* never points to one that is gone.
UndefinedUnique ==
  /\ undef_ins # 0 => undef_rc[undef_ins] > 0
  /\ ~shutdown => \A x \in Var : var[x].k = "undef" => var[x].id = undef_ins
=============================================================================
