------------------------------ MODULE TypeTerms ------------------------------
(***************************************************************************)
(* The types of estypes.ts with what they are made of.  A type is a tree:  *)
(* a function that gives the node at the end of each path, which says what *)
(* part to take at every node on the way.  What isEqual does not compare   *)
(* (the singleton or another instance, whether an argument is optional) is *)
(* not part of it, so that isEqual is equality of trees.  There the code's *)
(* is not: the keys of two object types are compared by reference, and any *)
(* two function expressions are equal.  Types are passed on by reference,  *)
(* so it is the same for a type and its copy; between objects of one shape *)
(* that were seen in two places the code has a change, and another round,  *)
(* where the model has none, and the types are the same in the end.        *)
(***************************************************************************)
EXTENDS Naturals, Sequences

Type(class, name, parts) ==
    [p \in {<< >>} \cup UNION {{<<n>> \o q : q \in DOMAIN parts[n]} : n \in DOMAIN parts} |->
        IF p = << >> THEN [class |-> class, name |-> name] ELSE parts[Head(p)][Tail(p)]]
Part(type, n) ==
    [p \in {Tail(q) : q \in {r \in DOMAIN type \ {<< >>} : Head(r) = n}} |->
        type[<<n>> \o p]]

Untyped == << >>                 \* itype is undefined
Singleton(class) == Type(class, "", << >>)
voidType == Singleton("Void")
anyType == Singleton("Any")
undefinedType == Singleton("Undefined")
numberType == Singleton("Number")
stringType == Singleton("String")
mathType == Singleton("Math")
reflectType == Singleton("Reflect")
immutableType == Singleton("Immutable")
ArrayType(elem) == Type("Array", "", <<elem>>)
ConstructorType(name) == Type("Constructor", name, << >>)
PrototypeType(name) == Type("Prototype", name, << >>)
CustomType(name) == Type("Custom", name, << >>)
ObjectType(shape) == Type("Object", "", shape)   \* of pairs: a key and a type
PairType(key, types) == Type("Pair", key, types)
MixedType(types) == Type("Mixed", "", types)
FunctionExpressionType(ret) == Type("FunctionExpression", "", <<ret>>)

(* FunctionType's constructor takes AnyType for a type it is not given.    *)
FunctionType(ret, args) ==
    Type("Function", "", <<IF ret = Untyped THEN anyType ELSE ret>> \o args)

functionType == FunctionType(Untyped, <<anyType>>)

IsFunction(type) == type # Untyped /\ type[<< >>].class = "Function"
Ret(type) == Part(type, 1)

(* The singletons by the names that the parser has for them: a builtin's   *)
(* own, and those that the typer writes.                                   *)
getType(name) == [Math |-> mathType, Reflect |-> reflectType][name]
singletonTypes ==
    [any |-> anyType, undefined |-> undefinedType, number |-> numberType,
     string |-> stringType, function |-> functionType]

(* The type of what the typer saw, a tree as well: its nodes have a type,  *)
(* and the name is the elemType of an array or the key of a pair.  Each    *)
(* node becomes a type, with the parts that this has of its own.           *)
json2node(node) ==
    CASE node.type = "object" -> ObjectType(<< >>)
      [] node.type = "pair" -> PairType(node.name, << >>)
      [] node.type = "array" -> ArrayType(singletonTypes[node.name])
      [] node.type = "mixed" -> MixedType(<< >>)
      [] node.type \in DOMAIN singletonTypes -> singletonTypes[node.type]
      [] OTHER -> CustomType(node.type)
json2type(o) ==
    LET places == UNION {{<<p, q>> : q \in DOMAIN json2node(o[p])} : p \in DOMAIN o}
        place(r) == CHOOSE x \in places : x[1] \o x[2] = r
    IN  [r \in {x[1] \o x[2] : x \in places} |->
            json2node(o[place(r)[1]])[place(r)[2]]]

(* What a type is after JSON.  A function expression becomes a function, a *)
(* prototype the singleton without a name: its class is serialized as      *)
(* "Prototype", which the switch of deserialize does not know.             *)
Read(node) ==
    CASE node.class = "Prototype" -> [node EXCEPT !.name = ""]
      [] node.class = "FunctionExpression" -> [node EXCEPT !.class = "Function"]
      [] OTHER -> node
deserialize(type) == [p \in DOMAIN type |-> Read(type[p])]

(* Mutant: instances are compared, and a function's is always new.         *)
isSame(t1, t2) == t1 = t2 /\ ~IsFunction(t1)
(* Mutant: of two functions only the class is compared.                    *)
isEqualClass(t1, t2) == t1 = t2 \/ (IsFunction(t1) /\ IsFunction(t2))
isEqual(t1, t2) == t1 = t2
=============================================================================
