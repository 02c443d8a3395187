----------------------------- MODULE MCTypedAST -----------------------------
(* Three functions that return one of many expressions, f with a parameter *)
(* of any kind, and a statement: function f(..) { return E } and so on; and*)
(* programs with an if whose else belongs to it by the braces before it.   *)
EXTENDS TypedAST

Tree(kind, name, kids) ==
    <<[kind |-> kind, name |-> name, depth |-> 0]>>
    \o FlattenSeq([k \in DOMAIN kids |->
           [j \in DOMAIN kids[k] |-> [kids[k][j] EXCEPT !.depth = @ + 1]]])
Leaf(kind, name) == Tree(kind, name, << >>)
Id(name) == Leaf("Identifier", name)
One == Leaf("Number", "positive")
Str == Leaf("String", "")
Call(name) == Tree("Call", "", <<Id(name)>>)
Member(object, name) == Tree("Member", "", <<object, Id(name)>>)
Default(value) == Tree("AssignmentPattern", "", <<Id("y"), value>>)

Values == {One, Id("x"), Id("f"), Id("g"), Call("f"), Call("g"),
           Tree("Array", "", <<One, Str>>), Tree("Arrow", "", <<Id("y"), One>>),
           Tree("Call", "", <<Member(Str, "charAt"), One>>),
           Member(Id("String"), "prototype"),
           Member(Id("g"), "prototype"),
           Tree("Binary", "+", <<Id("x"), Str>>)}
FewValues == {Str, Id("h"), Call("f"), Call("h")}
Parameters == {<<>>, <<Id("y")>>, <<Default(One)>>, <<Default(Id("z"))>>}

Declare(name, params, value) ==
    Tree("FunctionDeclaration", "",
         <<Id(name)>> \o params
         \o <<Tree("Statement", "block", <<Tree("Return", "", <<value>>)>>)>>)
Trees == {Tree("Program", "", <<Declare("f", p, e), Declare("g", <<>>, v),
                                Declare("h", <<>>, w),
                                Tree("Statement", "", <<Call("f")>>)>>) :
              p \in Parameters, e \in Values, v \in FewValues,
              w \in {Str, Id("f"), Call("g")}}

(* if (x) C else f(), where C is { if (x) g() }, or a for with such a      *)
(* block, or an if with an else of its own in braces.                      *)
Statement(name, kids) == Tree("Statement", name, kids)
Calls(name) == Statement("", <<Call(name)>>)
If(consequent, rest) == Statement("if", <<Id("x"), consequent>> \o rest)
Block(s) == Statement("block", <<s>>)
Consequents == {Block(If(Calls("g"), <<>>)),
                Statement("for", <<Block(If(Calls("g"), <<>>))>>),
                Block(If(Block(If(Calls("g"), <<>>)), <<Calls("h")>>))}
Branches == {Tree("Program", "", <<Declare("f", <<>>, Id("x")), Declare("g", <<>>, One),
                                   If(c, <<last>>)>>) :
                 c \in Consequents, last \in {Calls("f"), If(Calls("f"), <<>>)}}

MCFuncNames == {"f", "g", "h"}
(* What the typer saw of x.                                                *)
Saw(type, name, parts) ==
    [p \in {<< >>} \cup UNION {{<<n>> \o q : q \in DOMAIN parts[n]} : n \in DOMAIN parts} |->
        IF p = << >> THEN [type |-> type, name |-> name] ELSE parts[Head(p)][Tail(p)]]
Plain(type) == Saw(type, "", << >>)
Mixed == Saw("mixed", "", <<Saw("array", "string", << >>), Plain("function")>>)
Shaped == Saw("object", "", <<Saw("pair", "p", <<Plain("number")>>),
                              Saw("pair", "q", <<Plain("Point")>>)>>)
Seen(t, x) == [k \in DOMAIN t |-> IF t[k].name = "x" THEN x ELSE Unseen]
MCPrograms == {[code |-> t, seen |-> Seen(t, x)] :
                   t \in Trees \cup Branches, x \in {Plain("number"), Mixed, Shaped}}
=============================================================================
