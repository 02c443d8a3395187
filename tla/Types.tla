-------------------------------- MODULE Types --------------------------------
(***************************************************************************)
(* The types of estypes.ts, as far as the code builder tells them apart.   *)
(* A type is a set of members: a MixedType has several, any other type has *)
(* one.  A member has its class (base) and, for an array, a constructor or *)
(* a prototype, what it is of; st.constructorType and st.prototypeType are *)
(* of nothing.  Two instances of one simple class count as the same type.  *)
(***************************************************************************)
T(base) == {[base |-> base, of |-> ""]}
Ctor(name) == {[base |-> "constructor", of |-> name]}
Proto(name) == {[base |-> "prototype", of |-> name]}
Arr(elem) == {[base |-> "array", of |-> elem]}

any == T("any")
undefined == T("undefined")
null == T("null")
boolean == T("boolean")
number == T("number")
string == T("string")
symbol == T("symbol")
math == T("math")
date == T("date")
regexp == T("regexp")
object == T("object")
typedarray == T("typedarray")
arraybuffer == T("arraybuffer")
dataview == T("dataview")
map == T("map")
set == T("set")
weakmap == T("weakmap")
weakset == T("weakset")
iterator == T("iterator")
function == T("function")
constructor == T("constructor")
prototype == T("prototype")
array == Arr("any")
numberArray == Arr("number")
stringArray == Arr("string")
functionExp == T("function expression")  \* a FunctionExpressionType
descriptor == T("descriptor")            \* propertyType, proxyhandlerType
iterable == array \cup string \cup typedarray \cup map \cup set

ObjectLikes == {"object", "descriptor", "array", "typedarray", "map", "set",
                "prototype", "constructor"}

(* One member of what we have against one member of what we want.          *)
Matches(have, want, objectLike) ==
    \/ have = want \/ "any" \in {have.base, want.base}
    \/ /\ want.base = "array" /\ have.base = "array"
       /\ "any" \in {have.of, want.of}
    \/ /\ want.base \in {"constructor", "prototype"}
       /\ have.base = want.base
       /\ want.of = ""
    \/ /\ want.base \in {"object", "descriptor"}
       /\ have.base \in IF objectLike THEN ObjectLikes
                                      ELSE {"object", "descriptor"}

(* The members of a mixed type are compared without objectLike.            *)
isMatch(have, want, objectLike) ==
    \/ any \in {have, want}
    \/ \E h \in have, w \in want :
          Matches(h, w, objectLike /\ have = {h} /\ want = {w})

(* The keys of the context's typeMap under which a type is looked up.      *)
getCompatibleBaseTypes(type, objectLike) ==
    UNION {IF m.base \notin {"object", "descriptor"} THEN {m.base}
           ELSE IF objectLike THEN ObjectLikes \ {"descriptor"}
           ELSE {"object"} : m \in type}

(* st.getArrayType: numbers and strings have arrays of their own.          *)
getArrayType(type) ==
    IF type \in {number, string} THEN UNION {Arr(m.base) : m \in type} ELSE array
=============================================================================
