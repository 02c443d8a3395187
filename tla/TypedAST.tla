------------------------------ MODULE TypedAST ------------------------------
(***************************************************************************)
(* The types of a program from the typer's trace to the fuzzer: ParseRaw   *)
(* takes them from the trace, infer() goes round the tree until nothing    *)
(* changes, dumpTypes writes them in the order of a traversal, and Parse   *)
(* gives them back in the order of a traversal of the printed program,     *)
(* which esfuzz then mutates and writes again.                             *)
(*                                                                         *)
(* A tree is the sequence of its nodes as they are entered, each with its  *)
(* depth.  A FunctionDeclaration has its name first, then its parameters,  *)
(* then its body; an arrow function has no name.                           *)
(***************************************************************************)
EXTENDS Integers, Sequences, FiniteSets, SequencesExt, TypeTerms

CONSTANTS Programs,     \* trees, and what the typer saw in them
          FuncNames,    \* the functions that they declare
          INFER_ROUNDS, \* how often infer() goes round: 50
          MAX_WRITE     \* bound: how often the program is written

G == INSTANCE Graphs

VARIABLES code,     \* the nodes: [kind, name, depth]
          itype,    \* their itype
          file,     \* a .js and its .t: [code, types]
          pc,       \* what runs, with the traversal it makes: at, open
          at,       \* the next node to enter
          open,     \* the nodes entered and not left
          change, round, funcMap,   \* of the Inferer
          info,     \* of each node: [depth, maxDepth]
          lastEnterNode,
          writes
vars == <<code, itype, file, pc, at, open, change, round, funcMap, info,
          lastEnterNode, writes>>
inferVars == <<change, round, funcMap>>
parseVars == <<info, lastEnterNode>>

(* What lies below a node: all that comes after it as long as it is deeper.*)
Inside(tree, k) ==
    {j \in DOMAIN tree : j > k /\ \A i \in k + 1..j : tree[i].depth > tree[k].depth}

(* What babel parses: a node lies at most one below the one before it, the *)
(* numbers are written as they stand, a call has a callee, a function      *)
(* declaration a name, and a default what it is for and its value.         *)
Parsed(tree) ==
    /\ tree \in Seq([kind : STRING, name : STRING, depth : Nat])
    /\ tree # << >> /\ tree[1].depth = 0
    /\ \A k \in 2..Len(tree) : tree[k].depth \in 1..tree[k - 1].depth + 1
    /\ \A k \in DOMAIN tree :
          /\ tree[k].kind = "Number" => tree[k].name = "positive"
          /\ tree[k].kind \in {"Call", "FunctionDeclaration"} =>
                k < Len(tree) /\ tree[k + 1].depth = tree[k].depth + 1
          /\ tree[k].kind = "FunctionDeclaration" => tree[k + 1].name \in FuncNames
          /\ tree[k].kind = "AssignmentPattern" =>
                \E i, j \in Inside(tree, k) :
                    i < j /\ {tree[i].depth, tree[j].depth} = {tree[k].depth + 1}

(* The generator puts braces around an if that ends the consequent of an   *)
(* if with an else, which are a node of their own without a type.  So the  *)
(* programs are taken to have these braces already.                        *)
Loops == {"for", "for in", "for of", "while", "do", "label", "with"}
EndsWithIf(tree, c) ==
    \E j \in {c} \cup Inside(tree, c) :
        /\ tree[j].kind = "Statement" /\ tree[j].name = "if"
        /\ \A i \in c..j - 1 : j \in Inside(tree, i) => tree[i].name \in Loops
Braced(tree) ==
    \A k \in {j \in DOMAIN tree : tree[j].kind = "Statement" /\ tree[j].name = "if"} :
        LET parts == {j \in Inside(tree, k) : tree[j].depth = tree[k].depth + 1}
        IN  \A c, alternate \in parts :
                k + 1 < c /\ c < alternate => ~EndsWithIf(tree, c)

(* What the typer writes: the elements of an array have one of the types   *)
(* that the assertion of json2type allows.                                 *)
Traced(o) ==
    /\ DOMAIN o \subseteq Seq(Nat)
    /\ \A p \in DOMAIN o : o[p].type = "array" => o[p].name \in {"number", "string", "any"}

ASSUME TypedASTAssumption ==
    /\ \A p \in Programs :
          /\ Parsed(p.code) /\ Braced(p.code) /\ DOMAIN p.seen = DOMAIN p.code
          /\ \A k \in DOMAIN p.seen : Traced(p.seen[k])
    /\ INFER_ROUNDS \in Nat /\ MAX_WRITE \in Nat
-----------------------------------------------------------------------------
Nodes == DOMAIN code
Below(k) == Inside(code, k)
Children(k) == {j \in Below(k) : code[j].depth = code[k].depth + 1}
Child(k, n) ==
    CHOOSE j \in Children(k) : Cardinality({i \in Children(k) : i <= j}) = n

IsFunctionNode(k) == code[k].kind \in {"FunctionDeclaration", "Arrow"}
Params(k) ==
    LET names == IF code[k].kind = "Arrow" THEN 0 ELSE 1
    IN  [n \in 1..Cardinality(Children(k)) - names - 1 |-> Child(k, names + n)]
Property(k) ==
    \E m \in Nodes : code[m].kind = "Member" /\ Child(m, 2) = k

(* A traversal enters a node when its parent is the last one entered.      *)
MayEnter == at \in Nodes /\ code[at].depth = Len(open)
Exiting == Last(open)
MayExit == open # << >> /\ ~MayEnter
Traversed == open = << >> /\ at > Len(code)

-----------------------------------------------------------------------------
(* ParseRaw: what the trace says of the node's place, unless the node is a *)
(* statement or the name of a builtin.                                     *)
BuiltinNonConstructorNames == {"Math", "Reflect"}
BuiltinConstructorNames == {"String"}   \* of them, those that programs have
Unseen == << >>
Statements == {"FunctionDeclaration", "Statement", "Return"}
RawType(k, seen) ==
    CASE code[k].kind \in Statements -> voidType
      [] code[k].kind = "Identifier" /\ code[k].name \in BuiltinNonConstructorNames ->
             getType(code[k].name)
      [] code[k].kind = "Identifier" /\ code[k].name \in BuiltinConstructorNames ->
             ConstructorType(code[k].name)
      [] OTHER -> IF seen = Unseen THEN Untyped ELSE json2type(seen)

Init ==
    \E p \in Programs :
        /\ code = p.code
        /\ itype = [k \in Nodes |-> RawType(k, p.seen[k])]
        /\ file = [code |-> << >>, types |-> << >>]
        /\ pc = "infer" /\ at = 1 /\ open = << >>
        /\ change = FALSE /\ round = 1
        /\ funcMap = [n \in FuncNames |-> Untyped]
        /\ info = << >> /\ lastEnterNode = 0 /\ writes = 0

(* The tables of esspecs.ts, for the members that programs use here.       *)
Members(object) ==
    CASE object = Untyped -> << >>
      [] object = stringType ->
             [length |-> numberType, charAt |-> FunctionType(stringType, <<numberType>>)]
      [] object = ConstructorType("String") ->
             [prototype |-> PrototypeType("String"),
              fromCharCode |-> FunctionType(stringType, <<numberType>>)]
      [] IsFunction(object) ->
             [length |-> numberType, prototype |-> PrototypeType("Function")]
      [] OTHER -> << >>

inferLiteral(k) == IF code[k].kind = "Number" THEN numberType ELSE stringType

(* inferPlus looks at the left operand twice.                              *)
inferPlus(k) ==
    LET left == itype[Child(k, 1)] IN
    IF left \in {stringType, numberType} THEN left ELSE MixedType(<<numberType, stringType>>)

inferArray(k) ==
    LET types == {itype[j] : j \in Children(k)} \ {Untyped} IN
    CASE types \in {{}, {numberType}} -> ArrayType(numberType)
      [] types = {stringType} -> ArrayType(stringType)
      [] OTHER -> ArrayType(anyType)

inferIdentifier(k) ==
    LET name == code[k].name IN
    IF name \in FuncNames /\ funcMap[name] # Untyped THEN funcMap[name]
    ELSE IF Property(k) THEN immutableType ELSE itype[k]

inferMemberExpression(k) ==
    LET members == Members(itype[Child(k, 1)])
        name == code[Child(k, 2)].name
    IN  IF name \in DOMAIN members THEN members[name] ELSE itype[k]

(* The first return below the function, be it that of a function in it.    *)
Returns(k) == {j \in Below(k) : code[j].kind = "Return"}
findRetType(k) ==
    IF Returns(k) = {} THEN undefinedType
    ELSE LET first == CHOOSE r \in Returns(k) : \A s \in Returns(k) : r <= s
         IN  IF Children(first) = {} THEN undefinedType
             ELSE itype[Child(first, 1)]

ParamType(j) == IF itype[j] = Untyped THEN anyType ELSE itype[j]
inferFunction(k) ==
    LET params == Params(k) IN
    FunctionType(findRetType(k), [n \in DOMAIN params |-> ParamType(params[n])])

inferCall(k) ==
    LET callee == itype[Child(k, 1)] IN
    IF IsFunction(callee) THEN Ret(callee) ELSE callee

Inferred(k) ==
    CASE code[k].kind \in {"Number", "String"} -> inferLiteral(k)
      [] code[k].kind = "Binary" -> inferPlus(k)
      [] code[k].kind = "Unary" -> numberType
      [] code[k].kind = "Array" -> inferArray(k)
      [] IsFunctionNode(k) -> inferFunction(k)
      [] code[k].kind = "Identifier" -> inferIdentifier(k)
      [] code[k].kind = "Call" -> inferCall(k)
      [] code[k].kind = "Member" -> inferMemberExpression(k)
      [] code[k].kind = "AssignmentPattern" -> itype[Child(k, 2)]
      [] OTHER -> itype[k]
-----------------------------------------------------------------------------
InferEnter ==
    /\ pc = "infer" /\ MayEnter
    /\ open' = Append(open, at) /\ at' = at + 1
    /\ UNCHANGED <<code, itype, file, pc, inferVars, parseVars, writes>>

(* exitCallback; a function makes its untyped parameters any on the way.   *)
InferExit ==
    /\ pc = "infer" /\ MayExit
    /\ LET k == Exiting
           params == IF IsFunctionNode(k) THEN ToSet(Params(k)) ELSE {}
           type == Inferred(k)
           same == isEqual(type, itype[k])
       IN  /\ itype' = [j \in Nodes |-> CASE j = k /\ ~same -> type
                                         [] j \in params -> ParamType(j)
                                         [] OTHER -> itype[j]]
           /\ change' = (change \/ ~same)
           /\ funcMap' = IF code[k].kind # "FunctionDeclaration" THEN funcMap
                         ELSE [funcMap EXCEPT ![code[Child(k, 1)].name] = type]
    /\ open' = Front(open)
    /\ UNCHANGED <<code, file, pc, at, round, parseVars, writes>>

Again == change /\ round < INFER_ROUNDS
EndRound ==
    /\ pc = "infer" /\ Traversed
    /\ IF Again THEN /\ round' = round + 1 /\ change' = FALSE /\ at' = 1
                     /\ UNCHANGED pc
                ELSE /\ pc' = "typed" /\ UNCHANGED <<round, change, at>>
    /\ UNCHANGED <<code, itype, file, open, funcMap, parseVars, writes>>
-----------------------------------------------------------------------------
(* What the generator prints of a program that is Braced is parsed to the  *)
(* same nodes, but for numbers that no literal denotes: NaN and Infinity   *)
(* are identifiers, and what is negative is an operator and a number.      *)
Nameable == {"NaN", "Infinity"}
Negated == [negative |-> "positive", NaN |-> "NaN", minusInfinity |-> "Infinity"]
Literal(number) ==
    IF number.name \in Nameable THEN [number EXCEPT !.kind = "Identifier"] ELSE number
Reparsed(node) ==
    IF node.kind # "Number" THEN <<node>>
    ELSE IF node.name \in {"negative", "minusInfinity"}
         THEN <<[node EXCEPT !.kind = "Unary", !.name = "-"],
                Literal([node EXCEPT !.name = Negated[@], !.depth = @ + 1])>>
         ELSE <<Literal(node)>>
Printed(tree) == FlattenSeq([k \in DOMAIN tree |-> Reparsed(tree[k])])

(* dumpTypes walks over the tree as the generator does and writes a null   *)
(* for a node without a type.                                              *)
writeToFile ==
    /\ pc \in {"typed", "mutated"} /\ writes < MAX_WRITE
    /\ file' = [code |-> code, types |-> itype]
    /\ pc' = "written" /\ writes' = writes + 1
    /\ UNCHANGED <<code, itype, at, open, inferVars, parseVars>>

(* Another esfuzz reads the file: new TypedAST, and Parse begins.          *)
Parse ==
    /\ pc = "written"
    /\ code' = Printed(file.code)
    /\ itype' = [k \in DOMAIN code' |-> Untyped]
    /\ info' = [k \in DOMAIN code' |-> [depth |-> 0, maxDepth |-> 0]]
    /\ lastEnterNode' = 0
    /\ pc' = "parse" /\ at' = 1 /\ open' = << >>
    /\ UNCHANGED <<file, inferVars, writes>>

ParseEnter ==
    /\ pc = "parse" /\ MayEnter
    /\ info' = [info EXCEPT ![at].depth = Len(open)]
    /\ itype' = IF at \in DOMAIN file.types
                THEN [itype EXCEPT ![at] = deserialize(file.types[at])] ELSE itype
    /\ lastEnterNode' = at
    /\ open' = Append(open, at) /\ at' = at + 1
    /\ UNCHANGED <<code, file, pc, inferVars, writes>>

Larger(m, n) == IF m < n THEN n ELSE m
(* A leaf is as deep as it lies; a parent takes the depth of the first     *)
(* child as it is, and one more than that of the others.                   *)
(* Mutant: the parent takes what the last child says.                      *)
MaxDepthOfLast(parent, child) == child
MaxDepthOf(parent, child) ==
    IF parent = 0 THEN child ELSE Larger(parent, child + 1)

ParseExit ==
    /\ pc = "parse" /\ MayExit
    /\ LET k == Exiting
           own == IF lastEnterNode = k THEN info[k].depth ELSE info[k].maxDepth
           left == [info EXCEPT ![k].maxDepth = own]
       IN  info' = IF Len(open) = 1 THEN left
                   ELSE [left EXCEPT ![open[Len(open) - 1]].maxDepth =
                                         MaxDepthOf(@, own)]
    /\ open' = Front(open)
    /\ UNCHANGED <<code, itype, file, pc, at, lastEnterNode, inferVars, writes>>

ParseEnd ==
    /\ pc = "parse" /\ Traversed
    /\ pc' = "parsed"
    /\ UNCHANGED <<code, itype, file, at, open, inferVars, parseVars, writes>>

(* What the builder may build, with its types.  gen() makes numbers of     *)
(* texts, and many of them are none; buildNumber() negates what is not 0   *)
(* or more: minus numeric literal is unaryExpression in fact.              *)
gen == {"positive", "Infinity"} \cup DOMAIN Negated
Node(kind, name, depth) == [kind |-> kind, name |-> name, depth |-> depth]
(* Mutant: a negative number is a literal.                                 *)
buildNumberPlain(depth) ==
    {<<Node("Number", n, depth)>> : n \in gen}
buildNumber(depth) ==
    {IF n \notin DOMAIN Negated THEN <<Node("Number", n, depth)>>
     ELSE <<Node("Unary", "-", depth), Node("Number", Negated[n], depth + 1)>> :
        n \in gen}
buildPrototype(depth) ==
    <<Node("Member", "", depth), Node("Identifier", "Array", depth + 1),
      Node("Identifier", "prototype", depth + 1)>>
buildFunctionExpression(depth) ==
    <<Node("FunctionExpression", "", depth), Node("Statement", "block", depth + 1)>>
Built(depth) ==
    {[code |-> c, types |-> [j \in DOMAIN c |-> numberType]] : c \in buildNumber(depth)}
    \cup {[code |-> buildPrototype(depth),
           types |-> <<PrototypeType("Array"), ConstructorType("Array"), voidType>>],
          [code |-> buildFunctionExpression(depth),
           types |-> <<FunctionExpressionType(anyType), voidType>>]}

(* The mutation of an expression that has a type.                          *)
Expressions == {"Number", "String", "Unary", "Binary", "Call", "Member",
                "Array", "Arrow", "FunctionExpression"}
Replaced(seq, k, new) ==
    SubSeq(seq, 1, k - 1) \o new
        \o SubSeq(seq, k + 1 + Cardinality(Below(k)), Len(seq))
MutateNode ==
    /\ pc = "parsed" /\ writes < MAX_WRITE
    /\ \E k \in Nodes : \E new \in Built(code[k].depth) :
          /\ code[k].kind \in Expressions /\ itype[k] # Untyped
          /\ code' = Replaced(code, k, new.code)
          /\ itype' = Replaced(itype, k, new.types)
    /\ pc' = "mutated"
    /\ UNCHANGED <<file, at, open, inferVars, parseVars, writes>>

Next == \/ InferEnter \/ InferExit \/ EndRound \/ writeToFile
        \/ Parse \/ ParseEnter \/ ParseExit \/ ParseEnd \/ MutateNode

Spec == Init /\ [][Next]_vars
-----------------------------------------------------------------------------
(* A function nests when the type that it returns has its own type in it:  *)
(* following what the functions return, it is met again, and on the way    *)
(* there a function is returned and not called.                            *)
Declarations == {k \in Nodes : code[k].kind = "FunctionDeclaration"}
NameOf(d) == code[Child(d, 1)].name
ReturnOf(d) == Child(CHOOSE r \in Returns(d) : \A s \in Returns(d) : r <= s, 1)
Sole(d) == \A e \in Declarations : NameOf(e) = NameOf(d) => e = d
Named(d, k) == code[k].kind = "Identifier" /\ code[k].name = NameOf(d)
ReturnsItself(c, d) == Named(d, ReturnOf(c))
ReturnsCall(c, d) ==
    code[ReturnOf(c)].kind = "Call" /\ Named(d, Child(ReturnOf(c), 1))
Leads == G!ConnectionsIn([node |-> Declarations,
             edge |-> {e \in Declarations \X Declarations :
                           \/ ReturnsItself(e[1], e[2])
                           \/ ReturnsCall(e[1], e[2])}])
Nests == \E c, d \in Declarations : ReturnsItself(c, d) /\ Leads[d, c]
UntypedDefault ==
    \E k \in Nodes : /\ code[k].kind = "AssignmentPattern"
                     /\ itype[Child(k, 2)] = Untyped

(* infer() gives up after fifty rounds.  A few functions do not need them, *)
(* in whatever order they are declared and call each other, but for a      *)
(* function in whose type its own type is nested, which grows in every     *)
(* round, and for a parameter whose default has no type: the pattern loses *)
(* its type in every round and gets it back from the function.             *)
InferenceSettles == pc = "typed" /\ change => Nests \/ UntypedDefault

(* Where inference settles, a call has the type of what the function of    *)
(* that name returns, wherever in the program the two are, and through     *)
(* however many other functions the type has to come.                      *)
CallsAgree ==
    pc = "typed" /\ ~change =>
        \A d \in Declarations, k \in Nodes :
            /\ code[k].kind = "Call" /\ Named(d, Child(k, 1)) /\ Sole(d)
            /\ findRetType(d) # Untyped
            => itype[k] = findRetType(d)

SameNode(k) ==
    \/ code[k] = file.code[k]
    \/ /\ code[k].depth = file.code[k].depth
       /\ code[k].kind = "Identifier" /\ file.code[k].name \in Nameable

(* The types are written without the nodes they belong to.  Still every    *)
(* node that another esfuzz parses has the type its node had, mutated or   *)
(* not, typed or not, be it a number that is an identifier now; and what   *)
(* deserialize loses of a type, a function expression's class or the name  *)
(* of a prototype, it loses once.  It is so of programs that are Braced.   *)
TypesStayAligned ==
    pc = "parsed" =>
        /\ DOMAIN code = DOMAIN file.code
        /\ \A k \in Nodes : /\ SameNode(k)
                             /\ itype[k] = deserialize(file.types[k])
                             /\ itype[k] = deserialize(itype[k])

(* calWeight looks its weight up at floor(3 depth / (maxDepth + 1)): every *)
(* node must have a depth that is not above its maxDepth, and it has, as   *)
(* maxDepth is never less than how deep the tree below the node is.        *)
WeightsAreDefined ==
    pc = "parsed" =>
        \A k \in Nodes : /\ info[k].depth = code[k].depth
                         /\ \A j \in Below(k) \cup {k} :
                                code[j].depth <= info[k].maxDepth
=============================================================================
